---------------------------- MODULE MCTaskServer -----------------------------
(* Payloads for TLC: a creation with and without a schedule, every kind of  *)
(* schedule change, a valid and an invalid combination.                     *)
EXTENDS TaskServer

Plain == [title |-> "a"]
Daily == [title |-> "a", due |-> "midnight", rule |-> "daily"]
Once == [title |-> "a", due |-> "midnight"]
MCPatches == {Plain, Daily, Once,
    [time |-> TRUE],
    [rule |-> None],
    [due |-> None],
    [due |-> "noon", time |-> TRUE],
    [done |-> TRUE, last |-> 1],
    [completions |-> [day \in Days |-> IF day = "midnight" THEN 1 ELSE NoInstant]]}
=============================================================================
