-------------------------------- MODULE OpLog ---------------------------------
(***************************************************************************)
(* What note sync promises, without saying how: one append-only log in     *)
(* which every operation appears at most once, and readers that only move  *)
(* forward through it and never past its end.                              *)
(***************************************************************************)
EXTENDS Naturals, Sequences

CONSTANTS Clients, OpIds

VARIABLES
    log,    \* the accepted operations, in order
    seen    \* per client: how much of the log its snapshot contains

vars == <<log, seen>>

Init == log = <<>> /\ seen = [c \in Clients |-> 0]

Injective(s) == \A i, j \in 1..Len(s) : i # j => s[i] # s[j]

\* A batch becomes part of the log, all of it and at the end.
Accept ==
    /\ log' \in Seq(OpIds)
    /\ Len(log') > Len(log)
    /\ \A i \in 1..Len(log) : log'[i] = log[i]
    /\ Injective(log')
    /\ UNCHANGED seen

\* A client learns more of it.
Learn(c) == \E n \in (seen[c] + 1)..Len(log) :
    /\ seen' = [seen EXCEPT ![c] = n]
    /\ UNCHANGED log

Next == Accept \/ \E c \in Clients : Learn(c)

Spec == Init /\ [][Next]_vars
=============================================================================
