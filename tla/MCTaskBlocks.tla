----------------------------- MODULE MCTaskBlocks ------------------------------
(* TaskBlocks for TLC: devices, dates and instants are interchangeable.    *)
EXTENDS TaskBlocks, TLC

Symmetry == Permutations(Devices) \union Permutations(Dates) \union Permutations(Instants)
=============================================================================
