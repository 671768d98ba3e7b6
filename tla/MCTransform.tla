----------------------------- MODULE MCTransform ------------------------------
(***************************************************************************)
(* The transformation algorithms of NoteTransform over all short edit      *)
(* histories: from one document, one user makes edits offline while others *)
(* commit theirs, and in every reachable state the two are merged the way  *)
(* the client's rebase merges them.                                        *)
(***************************************************************************)
EXTENDS NoteTransform

CONSTANTS b1, b2, b3, b4, b5

\* Two starting points: letters of one block, or the blocks themselves.  Each
\* bounds the edits waiting to be sent (local) and those committed (remote).
TextScenario ==
    [base |-> <<Block(b1, <<8, 9>>, 0)>>, actions |-> {"insert", "remove"},
     local |-> 3, remote |-> 2]

BlockScenario ==
    [base |-> <<Block(b1, <<>>, 0), Block(b2, <<>>, 0), Block(b3, <<>>, 0)>>,
     actions |-> {"insert", "create_block", "delete_block", "move_block", "set_block_type"},
     local |-> 2, remote |-> 2]

VARIABLES
    scenario,
    me,         \* the editing user: below or above the other one
    pending,    \* the edits not sent yet, in order
    remote      \* the log rows committed by the other user, in order

vars == <<scenario, me, pending, remote>>

Base == scenario.base
Actions == scenario.actions

Mine == Project(Base, pending)
Theirs == FoldLeft(ServerApply, Base, remote)

Init ==
    /\ scenario \in {TextScenario, BlockScenario}
    /\ me \in {1, 2}
    /\ pending = <<>> /\ remote = <<>>

\* The two users create blocks of different identity.
EditLocally ==
    /\ Len(pending) < scenario.local
    /\ \E op \in LocalEdits(Mine, Len(pending) + 1, Actions) :
        /\ op.kind = "create_block" => op.block = b4
        /\ pending' = Append(pending, op)
    /\ UNCHANGED <<scenario, me, remote>>

CommitRemotely ==
    /\ Len(remote) < scenario.remote
    /\ \E op \in LocalEdits(Theirs, 10 + Len(remote), Actions) :
        /\ op.kind = "create_block" => op.block = b5
        /\ remote' = Append(remote, op @@ [actor |-> 3 - me, rev |-> Len(remote) + 1])
    /\ UNCHANGED <<scenario, me, pending>>

Next == EditLocally \/ CommitRemotely

Spec == Init /\ [][Next]_vars

-------------------------------------------------------------------------------
Merge == RebaseAll(pending, me, remote)

\* The pending operations that survive the rebase, in order.
Kept == SelectSeq([i \in DOMAIN pending |-> Merge.kept[pending[i].id]],
                  LAMBDA o : o # Dropped)

Merged == Project(Theirs, Kept)

\* Whatever letters the two users typed, "theirs, then mine rebased" and "mine, then
\* theirs transformed" are the same text: the rebase of note_operation_rebaser
\* has the convergence property its transformation pairs rely on.
RebaseConverges == scenario = TextScenario =>
    Merged = FoldLeft(ClientApply, Mine, Merge.rows)

\* x stands before y in the text of one block of doc.
Precedes(doc, x, y) == \E i \in DOMAIN doc : \E j, k \in DOMAIN doc[i].text :
    j < k /\ doc[i].text[j] = x /\ doc[i].text[k] = y

Letters(doc) == UNION {ToSet(doc[i].text) : i \in DOMAIN doc}

\* The merged text keeps the order both users saw, loses no letter that
\* neither removed, and shows none that either removed.
MergeKeepsBothIntentions == scenario = TextScenario =>
    /\ \A x, y \in Letters(Merged) :
        Precedes(Merged, x, y) => ~Precedes(Mine, y, x) /\ ~Precedes(Theirs, y, x)
    /\ Letters(Merged) =
            (Letters(Mine) \cap Letters(Theirs))
            \cup (Letters(Mine) \ Letters(Base)) \cup (Letters(Theirs) \ Letters(Base))

\* After a rebase the server can take every surviving operation, one after
\* the other: none targets or anchors on a block that is gone.
RebasedIsAcceptable == \A i \in DOMAIN Kept :
    ServerAccepts(FoldLeft(ServerApply, Theirs, SubSeq(Kept, 1, i - 1)), Kept[i])

\* The replicas meet, and by operations the server can apply.
RebaseIsSound == RebaseConverges /\ RebasedIsAcceptable
=============================================================================
