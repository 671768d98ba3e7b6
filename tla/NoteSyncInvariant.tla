-------------------------- MODULE NoteSyncInvariant ---------------------------
(***************************************************************************)
(* The strengthening of NoteSync's safety properties into one inductive    *)
(* invariant, in named parts.  TLC checks it on the small instances and    *)
(* NoteSyncProofs proves it for every instance.                            *)
(***************************************************************************)
EXTENDS NoteSync

\* Calls that carry a sync request, and those of a poll.
SyncPhases == {"syncing", "serving", "answered", "failed"}
PollPhases == {"polling", "polled"}

RowFields == {"id", "kind", "block", "delta", "after", "ord", "base", "status"}

OutboxRowOK(r) ==
    /\ DOMAIN r = RowFields
    /\ r.id \in OpIds /\ r.ord \in Nat /\ r.base \in Nat
    /\ r.status \in {"pending", "in_flight"}

RequestOK(q) ==
    /\ q.from \in Clients
    /\ \A op \in q.ops : OutboxRowOK(op)

TxFields == {"from", "live", "known", "todo", "accepted", "rev", "doc", "added"}

\* What the durable and volatile state of the clients looks like.
ClientsOK ==
    /\ DOMAIN typed = Clients /\ DOMAIN outbox = Clients /\ DOMAIN session = Clients
    /\ DOMAIN confirmed = Clients /\ DOMAIN call = Clients
    /\ used \subseteq OpIds
    /\ faults \in 0..MaxFaults
    /\ \A c \in Clients :
        /\ typed[c] \in Seq(ToSet(typed[c]))
        /\ \A i \in DOMAIN typed[c] : typed[c][i].id \in OpIds
        /\ IsFiniteSet(outbox[c])
        /\ \A r \in outbox[c] : OutboxRowOK(r)
        /\ session[c] = NoSession \/ session[c].ids \subseteq OpIds
        /\ confirmed[c].rev \in Nat

\* What the HTTP calls carry.
CallsOK ==
    /\ \A q \in late : RequestOK(q)
    /\ \A c \in Clients :
        /\ call[c].phase \in {"idle"} \cup SyncPhases \cup PollPhases
        /\ call[c].phase = "syncing" => DOMAIN call[c] = {"phase", "request"}
        /\ call[c].phase \in SyncPhases =>
            RequestOK(call[c].request) /\ call[c].request.from = c
        /\ call[c].phase \in {"answered", "polled"} => call[c].reply.rev \in Nat

\* The log, and the transaction that is about to extend it.
LogOK ==
    /\ note.rev \in Nat
    /\ \A r \in rows : r.rev \in Nat /\ r.id \in OpIds /\ r.actor \in Clients
    /\ {r.rev : r \in rows} = 1..note.rev
    /\ \A r, s \in rows : r.id = s.id \/ r.rev = s.rev => r = s

TxOK == tx # NoTx =>
    /\ DOMAIN tx = TxFields
    /\ tx.from \in Clients
    /\ tx.rev \in Nat /\ note.rev <= tx.rev
    /\ \A op \in tx.todo : OutboxRowOK(op)
    /\ \A r \in tx.added : r.rev \in Nat /\ r.id \in OpIds /\ r.actor \in Clients
    /\ {r.rev : r \in tx.added} = (note.rev + 1)..tx.rev
    /\ \A r, s \in Visible : r.id = s.id \/ r.rev = s.rev => r = s
    /\ Ids(tx.accepted) \subseteq Ids(Visible)
    /\ tx.live => call[tx.from].phase = "serving"

\* The session gate: a client that polls has no session and nothing in
\* flight, and one that syncs sent exactly the operations of its session.
GateOK == \A c \in Clients :
    /\ call[c].phase \in PollPhases => session[c] = NoSession
    /\ call[c].phase \in SyncPhases =>
        session[c] # NoSession /\ Ids(call[c].request.ops) = session[c].ids

\* What a client knows is behind the server, what an answer brings is not
\* behind the client, and what it acknowledges is in the log.
ReadersOK == \A c \in Clients :
    /\ confirmed[c].rev <= note.rev
    /\ call[c].phase \in {"answered", "polled"} => call[c].reply.rev <= note.rev
    /\ call[c].phase = "answered" =>
        /\ confirmed[c].rev <= call[c].reply.rev
        /\ Ids(call[c].reply.accepted) \subseteq Ids(rows)

\* What the exactly-once log rests on.
LogInv ==
    /\ ClientsOK /\ CallsOK /\ LogOK /\ TxOK
    /\ GateOK /\ SessionOwnsInFlight /\ ReadersOK

-------------------------------------------------------------------------------
(* The numbering of the queues.                                            *)

InFlight(c) == WithStatus(outbox[c], "in_flight")
Pending(c) == WithStatus(outbox[c], "pending")

\* The request that the session of c stands for, and everything that may
\* still reach the server.
SessionBatch(c) == [from |-> c, known |-> session[c].known, ops |-> InFlight(c)]
Batches == late \cup {SessionBatch(c) : c \in {d \in Clients : session[d] # NoSession}}

\* Identifiers that have left their device, and those that have not.
InTx == IF tx = NoTx THEN {} ELSE Ids(tx.todo) \cup Ids(tx.added)
Sent == Ids(rows) \cup (UNION {Ids(b.ops) : b \in Batches}) \cup InTx
InMemory(c) == {typed[c][i].id : i \in DOMAIN typed[c]}
Unsent(c) == InMemory(c) \cup Ids(Pending(c))

\* Different places, and no two operations under one identifier.
DistinctOps(S) == \A p, q \in S : p.ord = q.ord \/ p.id = q.id => p = q

\* A session was opened on the confirmed revision, and its calls carry its
\* batch.
SessionsFollow == \A c \in Clients :
    /\ session[c] # NoSession => session[c].known = confirmed[c].rev
    /\ call[c].phase \in SyncPhases => call[c].request = SessionBatch(c)

\* A batch counts from the revision it knows; what it holds was not in the
\* log at that revision.
BatchFollows(b) ==
    /\ IsFiniteSet(b.ops) /\ DistinctOps(b.ops)
    /\ b.known \in Nat /\ b.known <= note.rev
    /\ {op.ord : op \in b.ops} = 0..(Cardinality(b.ops) - 1)
    /\ \A op \in b.ops : op.base = b.known + op.ord
    /\ \A r \in rows : r.id \in Ids(b.ops) => r.rev > b.known

BatchesFollow ==
    /\ \A b \in Batches : BatchFollows(b)
    /\ \A p, q \in Batches : Ids(p.ops) \cap Ids(q.ops) # {} => p.ops = q.ops

\* What has not been sent is nowhere but in the memory or the outbox of its
\* own device.
UnsentIsUnknown ==
    /\ Sent \subseteq used
    /\ \A c \in Clients :
        /\ DistinctOps(outbox[c])
        /\ \A i, j \in DOMAIN typed[c] : typed[c][i].id = typed[c][j].id => i = j
        /\ InMemory(c) \cap Ids(Pending(c)) = {}
        /\ Unsent(c) \subseteq used /\ Unsent(c) \cap Sent = {}
        /\ \A d \in Clients \ {c} : Unsent(c) \cap Unsent(d) = {}

\* The transaction works a batch off in order: as many revisions above the
\* known one are taken as operations were accepted.
TxFollows == tx # NoTx =>
    /\ tx.known \in Nat /\ tx.known <= note.rev
    /\ IsFiniteSet(tx.todo) /\ IsFiniteSet(tx.accepted)
    /\ DistinctOps(tx.todo)
    /\ {op.ord : op \in tx.todo} =
         Cardinality(tx.accepted)..(Cardinality(tx.accepted) + Cardinality(tx.todo) - 1)
    /\ \A op \in tx.todo : op.base = tx.known + op.ord
    /\ Ids(tx.accepted) \cap Ids(tx.todo) = {}
    /\ \A a \in tx.accepted : \E r \in Visible :
         a = [id |-> r.id, rev |-> r.rev] /\ r.rev > tx.known
    /\ \A r \in rows : r.id \in Ids(tx.todo) => r.rev > tx.known

QueueInv == BaseChain /\ SessionsFollow /\ BatchesFollow /\ UnsentIsUnknown /\ TxFollows

-------------------------------------------------------------------------------
(* The snapshots.                                                          *)

\* Every document, stored, being written, on its way or received, is the
\* replay of the log up to the revision that goes with it.
ReplayInv ==
    /\ SnapshotsAreReplays
    /\ tx # NoTx => tx.doc = Replayed(Visible, tx.rev)
    /\ \A c \in Clients : call[c].phase \in {"answered", "polled"} =>
            call[c].reply.doc = Replayed(rows, call[c].reply.rev)

-------------------------------------------------------------------------------
(* Whose operations a client may still find in the log.                    *)

Mine(c) == IF session[c] = NoSession THEN {} ELSE session[c].ids

\* The log and what a transaction adds to it.
Written == IF tx = NoTx THEN rows ELSE Visible

\* What a client wrote above the revision it has confirmed is what its
\* session waits for.
OwnRows ==
    /\ \A r \in Written : {"kind", "block", "actor"} \subseteq DOMAIN r
    /\ \A c \in Clients : \A r \in Written :
        r.actor = c /\ r.rev > confirmed[c].rev => r.id \in Mine(c)

\* So is all that may still be written in its name, and a transaction whose
\* caller waits works exactly that off.
OwnRequests ==
    /\ \A q \in late : Ids(q.ops) \subseteq Ids(rows) \cup Mine(q.from)
    /\ tx # NoTx =>
        /\ Ids(tx.todo) \subseteq Ids(Visible) \cup Mine(tx.from)
        /\ tx.live =>
            /\ tx.known = confirmed[tx.from].rev
            /\ Ids(tx.accepted) \cup Ids(tx.todo) = Mine(tx.from)

\* An answer acknowledges what the session waits for, up to the revision it
\* carries, and brings rows of others only.
OwnAnswers == \A c \in Clients :
    /\ call[c].phase = "answered" =>
        /\ Ids(call[c].reply.accepted) = Mine(c)
        /\ \A r \in rows : r.id \in Mine(c) => r.rev <= call[c].reply.rev
    /\ call[c].phase \in {"answered", "polled"} =>
        /\ call[c].reply.remote \subseteq rows
        /\ \A r \in call[c].reply.remote : r.actor # c

OwnInv == OwnRows /\ OwnRequests /\ OwnAnswers

IndInv == LogInv /\ QueueInv /\ ReplayInv /\ OwnInv
=============================================================================
