------------------------------- MODULE NoteSync -------------------------------
(***************************************************************************)
(* One shared note: the server's sync transaction (noteoperations) and,    *)
(* for each client, the durable outbox and sync session of                 *)
(* NoteOperationsSyncService with the open editor that feeds it.           *)
(*                                                                         *)
(* Per client, one HTTP call at a time: the service runs every operation   *)
(* of a note through one queue and holds it across the call, so an         *)
(* enqueue, a sync and a poll exclude each other (call[c].phase = "idle"), *)
(* while the user keeps typing.                                            *)
(* The server's transaction is taken statement by statement under the row  *)
(* lock of the note (one transaction at a time).                           *)
(***************************************************************************)
EXTENDS NoteTransform, FiniteSetsExt

CONSTANTS
    Clients,    \* the users' devices; their numeric order is the UUID order
    OpIds,      \* operation identifiers, drawn in any order like UUID v4
    Actions,    \* what users do: "insert", "remove", "create_block", ...
    InitDoc,    \* the document of the note at revision 0
    Verbatim,   \* clients whose payload text is the one JSONB prints
    MaxFaults   \* bound on timeouts, lost messages and crashes

ASSUME ClientsAssumption == Clients \subseteq Nat
ASSUME OpIdsAssumption == OpIds \subseteq Nat /\ IsFiniteSet(OpIds)
ASSUME FaultsAssumption == MaxFaults \in Nat
ASSUME VerbatimAssumption == Verbatim \subseteq Clients

VARIABLES
    note,       \* the notes row: revision and document
    rows,       \* the note_operations table: an append-only log
    tx,         \* the running sync transaction, or NoTx
    late,       \* sync requests whose sender stopped waiting
    mirror,     \* per client: the document the editor shows, and (history)
                \* whether its last rebuild lacks operations of the outbox
    typed,      \* per client: edits still in memory, not in the outbox
    outbox,     \* per client: the pending_note_operations rows
    session,    \* per client: the sync_sessions row, or NoSession
    confirmed,  \* per client: the last snapshot received
    call,       \* per client: the HTTP call under way
    result,     \* per client: a SyncResult the editor has not shown yet,
                \* received or with the outbox that reconcile read for it
    used,       \* identifiers already given to an edit
    faults      \* faults so far

server == <<note, rows, tx, late>>
client == <<mirror, typed, outbox, session, confirmed, call, result>>
vars == <<server, client, used, faults>>

NoTx == [from |-> "nobody"]
NoSession == [known |-> "none"]
NoResult == [stage |-> "shown"]
Idle == [phase |-> "idle"]

Init ==
    /\ note = [rev |-> 0, doc |-> InitDoc]
    /\ rows = {}
    /\ tx = NoTx
    /\ late = {}
    /\ mirror = [c \in Clients |-> [doc |-> InitDoc, lacks |-> FALSE]]
    /\ typed = [c \in Clients |-> <<>>]
    /\ outbox = [c \in Clients |-> {}]
    /\ session = [c \in Clients |-> NoSession]
    /\ confirmed = [c \in Clients |-> [rev |-> 0, doc |-> InitDoc]]
    /\ call = [c \in Clients |-> Idle]
    /\ result = [c \in Clients |-> NoResult]
    /\ used = {}
    /\ faults = 0

-------------------------------------------------------------------------------
(* The outbox.                                                             *)
(* An operator whose comment begins with "Mutant" is a plausible bug, put  *)
(* before the definition it replaces when a property is tried against it.  *)

Ids(S) == {r.id : r \in S}

WithStatus(S, status) == {r \in S : r.status = status}

\* A set of outbox or log rows as a sequence, by ordinal or by revision.
InOrder(S) == [i \in 1..Cardinality(S) |->
                  CHOOSE r \in S : Cardinality({q \in S : q.ord < r.ord}) = i - 1]

ByRevision(S) == [i \in 1..Cardinality(S) |->
                  CHOOSE r \in S : Cardinality({q \in S : q.rev < r.rev}) = i - 1]

\* The row for op at place `ord` of an outbox whose first base is `first`.
OutboxRow(op, ord, base) ==
    [id |-> op.id, kind |-> op.kind, block |-> op.block, delta |-> op.delta,
     after |-> op.after, ord |-> ord, base |-> base, status |-> "pending"]

\* _enqueueOperationsInner: ordinals and bases continue after the last row,
\* or start from the confirmed revision when the outbox is empty.
Enqueued(S, ops, revision) ==
    LET last == CHOOSE r \in S : \A q \in S : q.ord <= r.ord
        ord0 == IF S = {} THEN 0 ELSE last.ord + 1
        base0 == IF S = {} THEN revision ELSE last.base + 1
    IN  S \cup {OutboxRow(ops[i], ord0 + i - 1, base0 + i - 1) : i \in DOMAIN ops}

\* Mutant: bases count from the revision after the one just received.
RenumberedFromNext(r, op, rank, revision) ==
    [r EXCEPT !.delta = op.delta, !.after = op.after,
              !.ord = rank, !.base = revision + rank + 1, !.status = "pending"]

\* Pending row r rewritten to op, at place `rank` above the new revision.
Renumbered(r, op, rank, revision) ==
    [r EXCEPT !.delta = op.delta, !.after = op.after,
              !.ord = rank, !.base = revision + rank, !.status = "pending"]

\* replacePendingOps with the rebaser's output: what is left of the pending
\* rows, renumbered from 0, with bases counted from the new revision.
Rebased(pending, actor, remote, revision) ==
    LET now  == Rebase(InOrder(pending), actor, remote)
        kept == {r \in pending : now[r.id] # Dropped}
        rank(r) == Cardinality({q \in kept : q.ord < r.ord})
    IN  {Renumbered(r, now[r.id], rank(r), revision) : r \in kept}

-------------------------------------------------------------------------------
(* The editor.                                                             *)

\* The user edits what the editor shows; the adapter records the operation
\* in memory.
Type(c) == \E id \in OpIds \ used : \E op \in LocalEdits(mirror[c].doc, id, Actions) :
    /\ mirror' = [mirror EXCEPT ![c].doc = ClientApply(@, op)]
    /\ typed' = [typed EXCEPT ![c] = Append(@, op)]
    /\ used' = used \cup {id}
    /\ UNCHANGED <<server, outbox, session, confirmed, call, result, faults>>

\* The debounced flush: the recorded batch becomes durable, once the queue
\* of the note is free.
Flush(c) ==
    /\ typed[c] # <<>>
    /\ call[c] = Idle
    /\ outbox' = [outbox EXCEPT ![c] = Enqueued(@, typed[c], confirmed[c].rev)]
    /\ typed' = [typed EXCEPT ![c] = <<>>]
    /\ UNCHANGED <<server, mirror, session, confirmed, call, result, used, faults>>

\* adapter.reconcile up to its last await: flush what is in memory, then read
\* the outbox.
Reconcile(c) ==
    /\ result[c].stage = "received"
    /\ call[c] = Idle
    /\ LET box == Enqueued(outbox[c], typed[c], confirmed[c].rev) IN
        /\ outbox' = [outbox EXCEPT ![c] = box]
        /\ result' = [result EXCEPT ![c] =
                [stage |-> "read", doc |-> @.doc, remote |-> @.remote, rows |-> box]]
    /\ typed' = [typed EXCEPT ![c] = <<>>]
    /\ UNCHANGED <<server, mirror, session, confirmed, call, used, faults>>

\* Mutant: the rebuild forgets what was typed since the flush.
RebuildFromRows(c) ==
    /\ result[c].stage = "read"
    /\ mirror' = IF result[c].remote \/ result[c].rows # {}
                 THEN [mirror EXCEPT ![c] =
                        [doc   |-> Project(result[c].doc, InOrder(result[c].rows)),
                         lacks |-> outbox[c] # result[c].rows]]
                 ELSE mirror
    /\ result' = [result EXCEPT ![c] = NoResult]
    /\ UNCHANGED <<server, typed, outbox, session, confirmed, call, used, faults>>

\* rebuildFromSnapshot: show the received snapshot plus the rows that were
\* read and what is in memory by now; nothing changes on screen when neither
\* the answer nor the outbox brought anything.  What a flush moved from
\* memory to the outbox since the read is in neither.
Rebuild(c) ==
    /\ result[c].stage = "read"
    /\ mirror' = IF result[c].remote \/ result[c].rows # {}
                 THEN [mirror EXCEPT ![c] =
                        [doc   |-> Project(result[c].doc, InOrder(result[c].rows) \o typed[c]),
                         lacks |-> outbox[c] # result[c].rows]]
                 ELSE mirror
    /\ result' = [result EXCEPT ![c] = NoResult]
    /\ UNCHANGED <<server, typed, outbox, session, confirmed, call, used, faults>>

-------------------------------------------------------------------------------
(* The client's sync.                                                      *)

Send(c, known, ops) ==
    call' = [call EXCEPT ![c] = [phase |-> "syncing",
                request |-> [from |-> c, known |-> known, ops |-> ops]]]

\* Mark the rows in flight and record the session in one transaction, then
\* send them.
OpenSession(c, ops) ==
    LET sent == {[r EXCEPT !.status = "in_flight"] : r \in ops} IN
    /\ outbox' = [outbox EXCEPT ![c] = (@ \ ops) \cup sent]
    /\ session' = [session EXCEPT ![c] = [known |-> confirmed[c].rev, ids |-> Ids(ops)]]
    /\ Send(c, confirmed[c].rev, sent)

\* syncPending without a session.
StartSync(c) ==
    /\ call[c] = Idle /\ result[c] = NoResult
    /\ session[c] = NoSession
    /\ WithStatus(outbox[c], "pending") # {}
    /\ OpenSession(c, WithStatus(outbox[c], "pending"))
    /\ UNCHANGED <<server, mirror, typed, confirmed, result, used, faults>>

\* Mutant: a retry sends whatever is in the outbox by now.
ResumeAll(c) ==
    /\ call[c] = Idle /\ result[c] = NoResult
    /\ session[c] # NoSession
    /\ Send(c, session[c].known, outbox[c])
    /\ UNCHANGED <<server, mirror, typed, outbox, session, confirmed, result, used, faults>>

\* A session row left by an earlier attempt gates every sync and poll.  Its
\* in-flight rows are sent again; when they are not the session's rows, all
\* go back to pending and the sync starts over.
Resume(c) ==
    /\ call[c] = Idle /\ result[c] = NoResult
    /\ session[c] # NoSession
    /\ LET ops == WithStatus(outbox[c], "in_flight") IN
        IF Ids(ops) = session[c].ids
        THEN /\ Send(c, session[c].known, ops)
             /\ UNCHANGED <<outbox, session>>
        ELSE OpenSession(c, outbox[c])
    /\ UNCHANGED <<server, mirror, typed, confirmed, result, used, faults>>

\* The response of a sync: validate, rebase, and persist in one transaction.
ProcessResponse(c) ==
    /\ call[c].phase = "answered"
    /\ LET reply    == call[c].reply
           inFlight == call[c].request.ops
           pending  == WithStatus(outbox[c], "pending")
           revisionOf == [id \in Ids(reply.accepted) |->
                            (CHOOSE a \in reply.accepted : a.id = id).rev]
           remote   == RemoteAfterInFlight(ByRevision(reply.remote), c,
                                           InOrder(inFlight), revisionOf)
       IN  IF Ids(reply.accepted) = Ids(inFlight)
           THEN /\ outbox' = [outbox EXCEPT ![c] =
                                Rebased(pending, c, remote, reply.rev)]
                /\ confirmed' = [confirmed EXCEPT ![c] =
                                    [rev |-> reply.rev, doc |-> reply.doc]]
                /\ session' = [session EXCEPT ![c] = NoSession]
                /\ result' = [result EXCEPT ![c] =
                                [stage |-> "received", doc |-> reply.doc,
                                 remote |-> reply.remote # {}]]
           ELSE UNCHANGED <<outbox, confirmed, session, result>>
    /\ call' = [call EXCEPT ![c] = Idle]
    /\ UNCHANGED <<server, mirror, typed, used, faults>>

\* An error status reaches the client: nothing is persisted.
ProcessError(c) ==
    /\ call[c].phase = "failed"
    /\ call' = [call EXCEPT ![c] = Idle]
    /\ UNCHANGED <<server, mirror, typed, outbox, session, confirmed, result,
                   used, faults>>

\* Mutant: a poll does not look at the session.
StartPollUngated(c) ==
    /\ call[c] = Idle /\ result[c] = NoResult
    /\ confirmed[c].rev < note.rev
    /\ call' = [call EXCEPT ![c] = [phase |-> "polling"]]
    /\ UNCHANGED <<server, mirror, typed, outbox, session, confirmed, result,
                   used, faults>>

\* pollAndReconcile without a session.
StartPoll(c) ==
    /\ call[c] = Idle /\ result[c] = NoResult
    /\ session[c] = NoSession
    /\ confirmed[c].rev < note.rev    \* bound: polls that bring nothing are skipped
    /\ call' = [call EXCEPT ![c] = [phase |-> "polling"]]
    /\ UNCHANGED <<server, mirror, typed, outbox, session, confirmed, result,
                   used, faults>>

ProcessPoll(c) ==
    /\ call[c].phase = "polled"
    /\ LET reply   == call[c].reply
           pending == WithStatus(outbox[c], "pending")
       IN  IF reply.remote # {} /\ reply.rev >= confirmed[c].rev
           THEN /\ outbox' = [outbox EXCEPT ![c] =
                        Rebased(pending, c, ByRevision(reply.remote), reply.rev)]
                /\ confirmed' = [confirmed EXCEPT ![c] =
                                    [rev |-> reply.rev, doc |-> reply.doc]]
                /\ result' = [result EXCEPT ![c] =
                    [stage |-> "received", doc |-> reply.doc, remote |-> TRUE]]
           ELSE UNCHANGED <<outbox, confirmed, result>>
    /\ call' = [call EXCEPT ![c] = Idle]
    /\ UNCHANGED <<server, mirror, typed, session, used, faults>>

-------------------------------------------------------------------------------
(* The server.                                                             *)

\* The text PostgreSQL gives back for a payload: that of the sender only if
\* it was JSONB's own.
Stored(sender) == IF sender \in Verbatim THEN "wire" ELSE "jsonb"

Payload(op) == [delta |-> op.delta, after |-> op.after]

\* Mutant: the transaction counts on from the revision the client knows.
BeginWithKnown(request, live) ==
    tx' = [from |-> request.from, live |-> live, known |-> request.known,
           todo |-> request.ops, accepted |-> {}, rev |-> request.known,
           doc |-> note.doc, added |-> {}]

BeginWith(request, live) ==
    tx' = [from |-> request.from, live |-> live, known |-> request.known,
           todo |-> request.ops, accepted |-> {}, rev |-> note.rev,
           doc |-> note.doc, added |-> {}]

\* The transaction takes the row lock and reads the note.
BeginSync(c) ==
    /\ tx = NoTx
    /\ call[c].phase = "syncing"
    /\ BeginWith(call[c].request, TRUE)
    /\ call' = [call EXCEPT ![c].phase = "serving"]
    /\ UNCHANGED <<note, rows, late, mirror, typed, outbox, session, confirmed,
                   result, used, faults>>

\* A request whose sender gave up arrives all the same.
BeginLate == \E request \in late :
    /\ tx = NoTx
    /\ BeginWith(request, FALSE)
    /\ late' = late \ {request}
    /\ UNCHANGED <<note, rows, client, used, faults>>

Visible == rows \cup tx.added

NextOp == CHOOSE op \in tx.todo : \A q \in tx.todo : op.ord <= q.ord

\* Mutant: duplicates are looked for in the batch, not in the log.
KnownInBatch(op) == \E r \in tx.added : r.id = op.id

Known(op) == \E r \in Visible : r.id = op.id

LogRow(op) == CHOOSE r \in Visible : r.id = op.id

\* operationIdentityMatches: the stored payload is compared byte by byte
\* with the request's.
SameIdentity(op, row) ==
    /\ row.kind = op.kind /\ row.base = op.base /\ row.block = op.block
    /\ row.form = "wire" /\ Payload(row) = Payload(op)

\* The delta that is applied and stored.
TransformedDelta ==
    IF NextOp.base < tx.rev
    THEN ServerTransform(NextOp, tx.from,
                         ByRevision({r \in Visible : r.rev > NextOp.base}))
    ELSE NextOp.delta

Valid(op) == op.base <= tx.rev /\ ServerAccepts(tx.doc, op)

Serving == tx # NoTx /\ tx.todo # {}

\* An operation already in the log counts as accepted at its old revision.
ServeReplay ==
    /\ Serving
    /\ Known(NextOp) /\ SameIdentity(NextOp, LogRow(NextOp))
    /\ tx' = [tx EXCEPT !.todo = @ \ {NextOp},
                        !.accepted = @ \cup {[id |-> NextOp.id, rev |-> LogRow(NextOp).rev]}]
    /\ UNCHANGED <<note, rows, late, client, used, faults>>

\* Mutant: the log keeps the delta as it was sent.
NewRowAsSent(op, d) ==
    [id |-> op.id, actor |-> tx.from, rev |-> tx.rev + 1, base |-> op.base,
     kind |-> op.kind, block |-> op.block, delta |-> op.delta, after |-> op.after,
     form |-> Stored(tx.from)]

\* The log row of op, which is stored with the delta that was applied.
NewRow(op, d) ==
    [id |-> op.id, actor |-> tx.from, rev |-> tx.rev + 1, base |-> op.base,
     kind |-> op.kind, block |-> op.block, delta |-> d, after |-> op.after,
     form |-> Stored(tx.from)]

\* A new one is transformed, applied and inserted at the next revision.
ServeOperation ==
    /\ Serving
    /\ ~Known(NextOp) /\ Valid(NextOp)
    /\ LET op == NextOp
           d  == TransformedDelta
       IN  tx' = [tx EXCEPT !.todo = @ \ {op},
                            !.accepted = @ \cup {[id |-> op.id, rev |-> tx.rev + 1]},
                            !.rev = @ + 1,
                            !.doc = ServerApply(@, [op EXCEPT !.delta = d]),
                            !.added = @ \cup {NewRow(op, d)}]
    /\ UNCHANGED <<note, rows, late, client, used, faults>>

Answer(phase, reply) ==
    call' = IF tx.live
            THEN [call EXCEPT ![tx.from] = [phase |-> phase, reply |-> reply,
                                            request |-> @.request]]
            ELSE call

\* Mutant: operations are inserted outside the transaction.
RollbackKeepingRows(status) ==
    /\ tx' = NoTx
    /\ rows' = Visible
    /\ Answer("failed", [status |-> status])
    /\ UNCHANGED <<note, late, mirror, typed, outbox, session, confirmed,
                   result, used, faults>>

\* The transaction is rolled back and the caller gets an error status: the
\* identity does not match (409), the operation is invalid (400) or the
\* resulting document is not canonical (500).
Rollback(status) ==
    /\ tx' = NoTx
    /\ Answer("failed", [status |-> status])
    /\ UNCHANGED <<note, rows, late, mirror, typed, outbox, session, confirmed,
                   result, used, faults>>

ServeConflict ==
    /\ Serving
    /\ Known(NextOp) /\ ~SameIdentity(NextOp, LogRow(NextOp))
    /\ Rollback(409)

ServeInvalid ==
    /\ Serving
    /\ ~Known(NextOp) /\ ~Valid(NextOp)
    /\ Rollback(400)

ServeNotCanonical ==
    /\ tx # NoTx /\ tx.todo = {} /\ tx.doc = <<>>
    /\ Rollback(500)

Commit ==
    /\ tx # NoTx /\ tx.todo = {} /\ tx.doc # <<>>
    /\ note' = [rev |-> tx.rev, doc |-> tx.doc]
    /\ rows' = Visible
    /\ tx' = NoTx
    /\ Answer("answered",
          [accepted |-> tx.accepted, rev |-> tx.rev, doc |-> tx.doc,
           remote |-> {r \in Visible : r.rev > tx.known /\ r.id \notin Ids(tx.accepted)}])
    /\ UNCHANGED <<late, mirror, typed, outbox, session, confirmed, result, used, faults>>

\* GetOperationsSince: one repeatable-read snapshot of log and document.
ServePoll(c) ==
    /\ call[c].phase = "polling"
    /\ call' = [call EXCEPT ![c] = [phase |-> "polled",
            reply |-> [rev |-> note.rev, doc |-> note.doc,
                       remote |-> {r \in rows : r.rev > confirmed[c].rev}]]]
    /\ UNCHANGED <<server, mirror, typed, outbox, session, confirmed, result,
                   used, faults>>

-------------------------------------------------------------------------------
(* Faults.                                                                 *)

\* What is left of c's call once c no longer waits: a request not yet served
\* may still arrive, a running transaction runs on, an answer is lost.
Orphaned(c) ==
    /\ late' = IF call[c].phase = "syncing" THEN late \cup {call[c].request} ELSE late
    /\ tx' = IF call[c].phase = "serving" THEN [tx EXCEPT !.live = FALSE] ELSE tx
    /\ call' = [call EXCEPT ![c] = Idle]

\* A timeout or a lost message: the call fails with a network error.
Abandon(c) ==
    /\ faults < MaxFaults
    /\ call[c] # Idle
    /\ Orphaned(c)
    /\ faults' = faults + 1
    /\ UNCHANGED <<note, rows, mirror, typed, outbox, session, confirmed, result, used>>

\* The process dies; the reopened editor shows the stored snapshot plus the
\* outbox.
Crash(c) ==
    /\ faults < MaxFaults
    /\ Orphaned(c)
    /\ typed' = [typed EXCEPT ![c] = <<>>]
    /\ result' = [result EXCEPT ![c] = NoResult]
    /\ mirror' = [mirror EXCEPT ![c] =
            [doc |-> Project(confirmed[c].doc, InOrder(outbox[c])), lacks |-> FALSE]]
    /\ faults' = faults + 1
    /\ UNCHANGED <<note, rows, outbox, session, confirmed, used>>

\* A late request is dropped by the network.
Lose == \E request \in late :
    /\ late' = late \ {request}
    /\ UNCHANGED <<note, rows, tx, client, used, faults>>

-------------------------------------------------------------------------------
ClientStep(c) ==
    \/ Type(c) \/ Flush(c) \/ Reconcile(c) \/ Rebuild(c)
    \/ StartSync(c) \/ Resume(c) \/ ProcessResponse(c) \/ ProcessError(c)
    \/ StartPoll(c) \/ ProcessPoll(c)

ServerStep ==
    \/ BeginLate \/ ServeReplay \/ ServeOperation
    \/ ServeConflict \/ ServeInvalid \/ ServeNotCanonical \/ Commit
    \/ \E c \in Clients : BeginSync(c) \/ ServePoll(c)

Fault == Lose \/ \E c \in Clients : Abandon(c) \/ Crash(c)

Next == (\E c \in Clients : ClientStep(c)) \/ ServerStep \/ Fault

Spec == Init /\ [][Next]_vars

-------------------------------------------------------------------------------
(* Properties.                                                             *)

\* Every variable has its type.
TypeOK ==
    /\ note.rev \in Nat
    /\ \A r \in rows : r.rev \in Nat /\ r.id \in OpIds /\ r.actor \in Clients
    /\ used \subseteq OpIds
    /\ faults \in 0..MaxFaults
    /\ tx # NoTx => tx.from \in Clients /\ tx.rev \in Nat
    /\ \A c \in Clients :
        /\ \A i \in DOMAIN typed[c] : typed[c][i].id \in OpIds
        /\ \A r \in outbox[c] : /\ r.id \in OpIds /\ r.ord \in Nat /\ r.base \in Nat
                                /\ r.status \in {"pending", "in_flight"}
        /\ session[c] = NoSession \/ session[c].ids \subseteq OpIds
        /\ confirmed[c].rev \in Nat
        /\ call[c].phase \in {"idle", "syncing", "serving", "answered", "failed",
                              "polling", "polled"}

\* The log holds every operation at most once, whatever was sent twice, and
\* its revisions are exactly 1 up to the revision of the note.
LogIsExactlyOnce ==
    /\ {r.rev : r \in rows} = 1..note.rev
    /\ \A r, s \in rows : r.id = s.id \/ r.rev = s.rev => r = s

\* The in-flight rows of a client are exactly those of its session, so the
\* session gate protects them: a poll, which replaces the whole outbox by
\* its pending rows, never deletes an operation that was sent.
SessionOwnsInFlight == \A c \in Clients :
    Ids(WithStatus(outbox[c], "in_flight")) =
        IF session[c] = NoSession THEN {} ELSE session[c].ids

\* The outbox is a chain: ordinals 0, 1, ... without a gap and bases that
\* follow the confirmed revision one by one.
BaseChain == \A c \in Clients :
    /\ {r.ord : r \in outbox[c]} = 0..(Cardinality(outbox[c]) - 1)
    /\ \A r \in outbox[c] : r.base = confirmed[c].rev + r.ord

\* No operation is ever based on a revision the server does not have when
\* its turn comes, so INVALID_BASE_REVISION never stops a sync.
NeverAheadOfServer == Serving /\ ~Known(NextOp) => NextOp.base <= tx.rev

\* Where an operation that reached an outbox can be, for good: some outbox,
\* or the log.  The exceptions are those a remote delete or move made void.
Voided(c, id) == \E r \in rows :
    /\ r.actor # c
    /\ r.kind \in {"delete_block", "move_block"}
    /\ \E op \in outbox[c] : op.id = id /\ op.block = r.block

\* An operation leaves the outbox only once it is in the server's log, or
\* when a remote delete (or a remote move of the same block) voids it.
NothingLost == [][\A c \in Clients : \A id \in Ids(outbox[c]) \ Ids(outbox'[c]) :
                    id \in Ids(rows) \/ Voided(c, id)]_vars

\* What a client has confirmed never goes back to an older revision.
ConfirmedNeverGoesBack ==
    [][\A c \in Clients : confirmed'[c].rev >= confirmed[c].rev]_vars

\* Two requests of a client that share an operation are the same request: a
\* retry, however late, repeats the operations of the first attempt with the
\* same bases and payloads.
RequestsOf(c) == {q \in late : q.from = c}
    \cup (IF call[c].phase \in {"syncing", "serving"} THEN {call[c].request} ELSE {})

RetriesAreIdentical == \A c \in Clients : \A p, q \in RequestsOf(c) :
    Ids(p.ops) \cap Ids(q.ops) # {} => p.ops = q.ops

\* What a client sends can be told from what it sent before and follows what
\* the server has: retries, the chain of the outbox and the bases together.
RequestsFollowTheLog == RetriesAreIdentical /\ BaseChain /\ NeverAheadOfServer

\* What an open editor shows, once it has shown the last result and holds
\* nothing in memory, is the confirmed snapshot plus the outbox, though its
\* user typed and flushed while the result was received, read and shown.  The
\* exception are operations that a flush moved to the outbox between the
\* reading of the outbox and the rebuild: they stay out of sight until another
\* answer brings something new.
EditorShowsEverything(c) ==
    result[c] = NoResult /\ typed[c] = <<>> =>
        mirror[c].doc = Project(confirmed[c].doc, InOrder(outbox[c]))

VisibleIsSnapshotPlusOutbox ==
    \A c \in Clients : ~mirror[c].lacks => EditorShowsEverything(c)

\* Without the exception.
NothingIsHidden == \A c \in Clients : EditorShowsEverything(c)

\* The row of revision n, and the document at revision n: the log replayed.
RevisionRow(S, n) == CHOOSE r \in S : r.rev = n

Replayed(S, n) ==
    LET doc[k \in 0..n] ==
            IF k = 0 THEN InitDoc ELSE ServerApply(doc[k - 1], RevisionRow(S, k))
    IN  doc[n]

\* The stored document is the replay of the log, and every client's snapshot
\* is the replay up to the revision it carries.
SnapshotsAreReplays ==
    /\ note.doc = Replayed(rows, note.rev)
    /\ \A c \in Clients : confirmed[c].doc = Replayed(rows, confirmed[c].rev)

\* The identifiers in the log, by revision: what the abstract log holds.
IdAt(n) == (CHOOSE r \in rows : r.rev = n).id

Log == INSTANCE OpLog WITH
    log <- [n \in 1..note.rev |-> IdAt(n)],
    seen <- [c \in Clients |-> confirmed[c].rev]

\* The tables, transactions, outboxes and snapshots implement the abstract
\* append-only, exactly-once log with readers that only move forward.
ImplementsOpLog == Log!Spec

-------------------------------------------------------------------------------
(* The requests the server refuses.                                        *)

\* The blocks that operations of S create or delete.
BlocksOf(S, kind) == {q.block : q \in {x \in S : x.kind = kind}}

UpTo(S, op) == {q \in S : q.ord <= op.ord}

\* Batch S names in op a block or an anchor that neither the note nor the batch
\* up to op brings: somebody deleted it.
Missing(S, op) == {op.block, op.after} \
    (BlockIds(note.doc) \cup {NoAnchor} \cup BlocksOf(UpTo(S, op), "create_block")) # {}

\* An earlier operation of the batch deletes what op names: the editor showed
\* the block again (Rebuild).
DeletedTwice(S, op) ==
    {op.block, op.after} \cap BlocksOf(UpTo(S, op) \ {op}, "delete_block") # {}

\* Others and the batch together have deleted every block.
NothingLeft(S) == (BlockIds(note.doc) \cup BlocksOf(S, "create_block"))
                    \ BlocksOf(S, "delete_block") = {}

Refused(S) ==
    \/ NothingLeft(S)
    \/ \E op \in S :
        \/ \E r \in rows : r.id = op.id /\ ~SameIdentity(op, r)
        \/ Missing(S, op)
        \/ DeletedTwice(S, op)

\* A sync is answered with an error only if one of its operations is in the
\* log with another text, names a block that is deleted, or deletes the last
\* block that others have left: no base revision, ordinal, order of the batch,
\* rebase or half-finished session ever makes the server refuse.
OnlyRefusalsFail == [][\A c \in Clients :
    call'[c].phase = "failed" /\ call[c].phase # "failed" =>
        Refused(WithStatus(outbox[c], "in_flight"))]_vars

\* All operations of a request are in the log or none of them: a transaction
\* that fails in the middle leaves nothing, and no retry, rebase or late copy
\* of a request brings in a part of it.
BatchesAreAtomic == \A c \in Clients : \A q \in RequestsOf(c) :
    Ids(q.ops) \subseteq Ids(rows) \/ Ids(q.ops) \cap Ids(rows) = {}
=============================================================================
