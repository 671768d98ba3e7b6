----------------------------- MODULE NoteTransform ----------------------------
(***************************************************************************)
(* Operational transformation, on both sides: how the server adjusts an    *)
(* incoming text operation against the operations committed since its base *)
(* revision (service.go validateAndTransform, transformer.go), and how a   *)
(* client rebases its unsent operations over the remote ones it receives   *)
(* (note_operation_rebaser.dart).                                          *)
(***************************************************************************)
EXTENDS NoteDocument

Dropped == [kind |-> "dropped"]

\* Mutant: two removals of one letter remove two letters.
TransformDeltaTwice(d, applied, appliedHasPriority) ==
    LET shiftRight == \/ applied.at < d.at
                      \/ applied.at = d.at /\ (d.edit = "remove" \/ appliedHasPriority)
    IN
    CASE applied.edit = "insert" /\ d.edit # "keep" /\ shiftRight -> [d EXCEPT !.at = @ + 1]
      [] applied.edit = "remove" /\ d.edit # "keep" /\ applied.at < d.at -> [d EXCEPT !.at = @ - 1]
      [] OTHER -> d

\* Quill's Delta.Transform for single changes: d rewritten to apply after
\* the concurrent change `applied`.  On a tie between two insertions the
\* applied one stays left when it has priority.
TransformDelta(d, applied, appliedHasPriority) ==
    LET shiftRight == \/ applied.at < d.at
                      \/ applied.at = d.at /\ (d.edit = "remove" \/ appliedHasPriority)
    IN
    CASE applied.edit = "insert" /\ d.edit # "keep" /\ shiftRight -> [d EXCEPT !.at = @ + 1]
      [] applied.edit = "remove" /\ d.edit # "keep" /\ applied.at < d.at -> [d EXCEPT !.at = @ - 1]
      [] applied.edit = "remove" /\ d.edit = "remove" /\ applied.at = d.at -> Keep
      [] OTHER -> d

-------------------------------------------------------------------------------
(* The server.  Lower (actor, operation id) wins.                          *)

Before(actorA, idA, actorB, idB) ==
    actorA < actorB \/ (actorA = actorB /\ idA < idB)

ServerHasPriority(row, actor, op) == Before(row.actor, row.id, actor, op.id)

\* The delta of op transformed against rows, the operations committed after
\* its base revision, in revision order; only text changes of the same block
\* count.
ServerTransform(op, actor, rows) ==
    LET over(d, row) ==
            IF row.kind = "text_delta" /\ row.block = op.block
            THEN TransformDelta(d, row.delta, ServerHasPriority(row, actor, op))
            ELSE d
    IN  IF op.kind = "text_delta" THEN FoldLeft(over, op.delta, rows) ELSE op.delta

-------------------------------------------------------------------------------
(* The client.  Greater (actor, operation id) wins.                        *)

\* op rewritten to follow `applied`, or Dropped when nothing of it is left.
TransformOp(op, applied, opHasPriority) ==
    LET deleted == applied.kind = "delete_block"
        overruled == /\ op.kind = "move_block" /\ applied.kind = "move_block"
                     /\ op.block = applied.block /\ ~opHasPriority
    IN
    IF (deleted /\ applied.block = op.block) \/ overruled THEN Dropped
    ELSE CASE /\ op.kind = "text_delta" /\ applied.kind = "text_delta"
              /\ op.block = applied.block ->
                [op EXCEPT !.delta = TransformDelta(@, applied.delta, ~opHasPriority)]
           [] /\ op.kind = "create_block" /\ applied.kind = "create_block"
              /\ op.after # NoAnchor /\ op.after = applied.after /\ ~opHasPriority ->
                [op EXCEPT !.after = applied.block]
           [] /\ op.kind \in {"create_block", "move_block"} /\ deleted
              /\ op.after = applied.block ->
                [op EXCEPT !.after = NoAnchor]
           [] OTHER -> op

LocalWins(actor, op, remote) == Before(remote.actor, remote.id, actor, op.id)

\* A list without what was dropped from it.
Survivors(s) ==
    LET kept == {i \in DOMAIN s : s[i] # Dropped}
    IN  [k \in 1..Cardinality(kept) |->
            s[CHOOSE i \in kept : Cardinality({j \in kept : j < i}) = k - 1]]

\* rows carried over op, an operation of `actor` accepted at that revision:
\* those committed before it are transformed, the others already follow it.
CarriedOver(rows, op, actor, accepted) ==
    Survivors([i \in DOMAIN rows |->
        IF rows[i].rev < accepted
        THEN TransformOp(rows[i], op, ~LocalWins(actor, op, rows[i])) ELSE rows[i]])

\* remote, as it looks to someone who already has the in-flight operations
\* of `actor`.  revisionOf gives the accepted revisions.
RemoteAfterInFlight(remote, actor, inFlight, revisionOf) ==
    LET rows[n \in 0..Len(inFlight)] ==
            IF n = 0 THEN remote
            ELSE CarriedOver(rows[n - 1], inFlight[n], actor, revisionOf[inFlight[n].id])
    IN  rows[Len(inFlight)]

\* Mutant: the rows stay as they were, so the next operation is carried over
\* them from the wrong side.
RebaseOneRowsKept(op, actor, remote) ==
    LET step(o, row) == IF o = Dropped THEN o
                        ELSE TransformOp(o, row, LocalWins(actor, o, row))
    IN  [op |-> FoldLeft(step, op, remote), rows |-> remote]

\* acc.op and one more remote row carried over each other.
RebaseStep(acc, row, actor) ==
    LET wins  == LocalWins(actor, acc.op, row)
        rest  == TransformOp(row, acc.op, ~wins)
    IN  IF acc.op = Dropped THEN acc
        ELSE [op |-> TransformOp(acc.op, row, wins),
              rows |-> IF rest = Dropped THEN acc.rows ELSE Append(acc.rows, rest)]

\* One pending operation carried over all remote rows, and the rows as they
\* look after it.
RebaseOne(op, actor, remote) ==
    LET acc[n \in 0..Len(remote)] ==
            IF n = 0 THEN [op |-> op, rows |-> <<>>]
            ELSE RebaseStep(acc[n - 1], remote[n], actor)
    IN  acc[Len(remote)]

\* The outcome for one more pending operation; a dropped one leaves the rows
\* alone.
RebaseNext(acc, op, actor) ==
    LET one == RebaseOne(op, actor, acc.rows) IN
    [kept |-> [id \in DOMAIN acc.kept \cup {op.id} |->
                  IF id = op.id THEN one.op ELSE acc.kept[id]],
     rows |-> IF one.op = Dropped THEN acc.rows ELSE one.rows]

\* Every pending operation carried over the remote rows, each over the rows
\* as the earlier ones left them.
RebaseAll(pending, actor, remote) ==
    LET acc[n \in 0..Len(pending)] ==
            IF n = 0 THEN [kept |-> <<>>, rows |-> remote]
            ELSE RebaseNext(acc[n - 1], pending[n], actor)
    IN  acc[Len(pending)]

\* What rebase() leaves of each pending operation: a function from its
\* identifier to the rewritten operation or to Dropped.
Rebase(pending, actor, remote) == RebaseAll(pending, actor, remote).kept
=============================================================================
