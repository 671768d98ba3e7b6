--------------------------- MODULE MCMcpConfirmations ---------------------------
(***************************************************************************)
(* Calls, tokens and users are alike: only one of each orbit is kept.      *)
(***************************************************************************)
EXTENDS McpConfirmations, TLC

Symmetry == Permutations(Calls) \union Permutations(Tokens) \union Permutations(Users)
=============================================================================
