------------------------------ MODULE RemoteSync ------------------------------
(***************************************************************************)
(* How a device learns that notes changed elsewhere: the sync_changes feed *)
(* that database triggers write (syncfeed), and the bootstrap, inbox and   *)
(* appliers that consume it on one device of one user                      *)
(* (NoteRemoteSyncCoordinator, SyncInboxWorker, SyncInboxStore).           *)
(*                                                                         *)
(* A note is reduced to its revision, the order of its updated_at and the  *)
(* user's role in it.  The device's outboxes are empty (delivering them is *)
(* the business of NoteSync), so local documents are server snapshots.  A  *)
(* pass of the coordinator waits at every request: the server, the user    *)
(* and faults move between any two of its steps.                           *)
(***************************************************************************)
EXTENDS Naturals, FiniteSets

CONSTANTS
    Notes,          \* the note ids, which are numbers: listings break ties by them
    None,           \* no document, no checkpoint
    InitRoles,      \* the user's roles in the notes that exist at first
    Kinds,          \* what writers do: "create", "edit", "delete", "share", "revoke"
    FaultKinds,     \* what can fail: "crash", "network", "session"
    PageSize,       \* rows in a page of the feed, and of the catalog
    MaxSequence,    \* bound on the changes
    MaxWriters,     \* server transactions under way at once
    MaxFaults       \* bound on the faults

Roles == {"owner", "guest", "stranger"}

ASSUME BoundsAssumption ==
    /\ InitRoles \subseteq Roles
    /\ Kinds \subseteq {"create", "edit", "delete", "share", "revoke"}
    /\ Notes \subseteq Nat /\ IsFiniteSet(Notes) /\ None \notin Nat
    /\ PageSize \in Nat \ {0} /\ MaxSequence \in Nat
    /\ MaxWriters \in Nat /\ MaxFaults \in Nat

VARIABLES
    note,       \* per note: its state, revision, last update, and the user's role
    writing,    \* the server transactions under way
    changes,    \* the committed sync_changes rows for the user
    sequence,   \* the last number the BIGSERIAL gave
    origin,     \* bootstrapComplete, as the watermark it was completed at, or None
    cursor,     \* receiveCursor
    inbox,      \* the sync_inbox rows
    applied,    \* the numbers of those with an appliedAt
    local,      \* per note: the revision of the local document, or None
    missed,     \* notes whose open session failed to pull a change, and hid it
    open,       \* the notes open in an editor
    at,         \* where the coordinator's pass stands
    queue,      \* the changes this drain has still to look at
    ends,       \* whether the pass ends with this drain
    fetched,    \* what the last request brought
    faults,
    overlooked, \* history: transactions whose change the device need not hear of
    reordered   \* history: notes of which a share was applied before an older revocation

server == <<note, writing, changes, sequence>>
store == <<origin, cursor, inbox, applied>>
pass == <<at, queue, ends, fetched>>
documents == <<local, missed>>
history == <<overlooked, reordered>>
vars == <<server, store, documents, open, pass, faults, history>>

Nothing == [page |-> {}]

Row(state, role) == [state |-> state, rev |-> 0, updated |-> 0, role |-> role]

Absent == Row("absent", "stranger")

Init ==
    /\ note \in [Notes -> {Absent} \cup {Row("live", role) : role \in InitRoles}]
    /\ writing = {} /\ changes = {} /\ sequence = 0
    /\ origin = None /\ cursor = 0 /\ inbox = {} /\ applied = {}
    /\ local = [n \in Notes |-> None] /\ missed = {}
    /\ open = {}
    /\ at = "waiting" /\ queue = {} /\ ends = TRUE /\ fetched = Nothing
    /\ faults = 0
    /\ overlooked = {} /\ reordered = {}

Larger(a, b) == IF a >= b THEN a ELSE b

Accessible(n) == note[n].state = "live" /\ note[n].role # "stranger"

-------------------------------------------------------------------------------
(* The server: notes and note_shares are written by transactions whose     *)
(* triggers number a change row at once, although it shows at commit.      *)

\* What the transaction numbered `seq` leaves of a note, or of the share.
Written(row, kind, seq) ==
    CASE kind = "create" -> [Row("live", "owner") EXCEPT !.updated = seq]
      [] kind = "edit"   -> [row EXCEPT !.rev = @ + 1, !.updated = seq]
      [] kind = "delete" -> [row EXCEPT !.state = "deleted"]
      [] kind = "share"  -> [row EXCEPT !.role = "guest"]
      [] kind = "revoke" -> [row EXCEPT !.role = "stranger"]

Permitted(row, kind) ==
    CASE kind = "create" -> row.state = "absent"
      [] kind = "edit"   -> row.state = "live"
      [] kind = "delete" -> row.state = "live"
      [] kind = "share"  -> row.state = "live" /\ row.role = "stranger"
      [] kind = "revoke" -> row.state = "live" /\ row.role = "guest"

EventType(kind) ==
    CASE kind = "delete" -> "note_deleted"
      [] kind = "share"  -> "note_access_changed"
      [] kind = "revoke" -> "note_access_revoked"
      [] OTHER           -> "note_changed"

OnShare(kind) == kind \in {"share", "revoke"}

\* The trigger on note_shares gives no revision, which reads as 0.
Told(row, kind, seq) == IF OnShare(kind) THEN 0 ELSE Written(row, kind, seq).rev

\* Mutant: the trigger on notes addresses the owner only.
EventForOwner(row, kind, seq, n) ==
    IF row.role = "owner" \/ kind = "create" \/ OnShare(kind)
    THEN {[seq |-> seq, type |-> EventType(kind), note |-> n,
           rev |-> Told(row, kind, seq)]}
    ELSE {}

\* The trigger on notes addresses owner and guests, the one on note_shares
\* the user of the share.
Event(row, kind, seq, n) ==
    IF row.role # "stranger" \/ kind \in {"create", "share"}
    THEN {[seq |-> seq, type |-> EventType(kind), note |-> n,
           rev |-> Told(row, kind, seq)]}
    ELSE {}

\* Writers of one row of notes, or of note_shares, wait for each other.
Begin(n, kind) ==
    /\ sequence < MaxSequence /\ Cardinality(writing) < MaxWriters
    /\ Permitted(note[n], kind)
    /\ \A w \in writing : w.note = n => OnShare(w.kind) # OnShare(kind)
    /\ sequence' = sequence + 1
    /\ writing' = writing \cup {[note |-> n, kind |-> kind, seq |-> sequence + 1,
                                rows |-> Event(note[n], kind, sequence + 1, n)]}
    /\ UNCHANGED <<note, changes, store, documents, open, pass, faults, history>>

\* Transactions that have addressed their changes before a share commits do
\* not address its user.
Unaddressed(w) == {v \in writing : w.kind = "share" /\ v.note = w.note /\ v.rows = {}}

Commit == \E w \in writing :
    /\ note' = [note EXCEPT ![w.note] = Written(@, w.kind, w.seq)]
    /\ changes' = changes \cup w.rows
    /\ writing' = writing \ {w}
    /\ overlooked' = overlooked \cup Unaddressed(w)
    /\ UNCHANGED <<sequence, store, documents, open, pass, faults, reordered>>

Abort == \E w \in writing :
    /\ writing' = writing \ {w} /\ overlooked' = overlooked \ {w}
    /\ UNCHANGED <<note, changes, sequence, store, documents, open, pass, faults, reordered>>

Greatest(S) == CHOOSE s \in S : \A t \in S : t <= s

SeqsAnd(after, rows) == {after} \cup {ch.seq : ch \in rows}

\* The number of the newest change (page.watermark).
Watermark(after) == Greatest(SeqsAnd(after, changes))

\* Mutant: the page's cursor is the watermark, whatever did not fit.
PageToWatermark(after) ==
    LET newer == {ch \in changes : ch.seq > after}
        first == {ch \in newer : Cardinality({d \in newer : d.seq < ch.seq}) < PageSize}
    IN  [page |-> first, more |-> first # newer, cursor |-> Watermark(after)]

\* ListChanges: one repeatable-read snapshot of the rows above `after`.
Page(after) ==
    LET newer == {ch \in changes : ch.seq > after}
        first == {ch \in newer : Cardinality({d \in newer : d.seq < ch.seq}) < PageSize}
    IN  [page |-> first, more |-> first # newer, cursor |-> Greatest(SeqsAnd(after, first))]

\* The transactions under way whose numbers a reader passes that takes `s` for
\* the last one.
Overtaken(s) == {w \in writing : w.seq <= s}

-------------------------------------------------------------------------------
(* The pass of the coordinator.                                            *)

Pending == {ch \in inbox : ch.seq \notin applied}

GoTo(place) == at' = place /\ UNCHANGED <<queue, ends, fetched>>

\* An exception ends the pass; the runtime starts another one later.
EndPass ==
    /\ at' = "waiting" /\ queue' = {} /\ ends' = TRUE /\ fetched' = Nothing

\* drainInbox reads what is pending, once.
StartDrain(rows, last) ==
    at' = "draining" /\ queue' = rows /\ ends' = last /\ fetched' = Nothing

StartPass ==
    /\ at = "waiting"
    /\ IF origin = None THEN GoTo("marking") ELSE StartDrain(Pending, FALSE)
    /\ UNCHANGED <<server, store, documents, open, faults, history>>

\* Bootstrap: the watermark first, then the catalog, then every document,
\* and at last snapshot and checkpoint in one local transaction.
FetchMarker ==
    /\ at = "marking"
    /\ at' = "listing"
    /\ fetched' = [mark |-> Watermark(0), above |-> None, todo |-> {}, docs |-> <<>>]
    /\ overlooked' = (overlooked \cap writing) \cup Overtaken(Watermark(0))
    /\ UNCHANGED <<server, store, documents, open, queue, ends, faults, reordered>>

\* Listings are ordered by (updated_at, id), latest first.
Later(m, n) ==
    \/ note[m].updated > note[n].updated
    \/ (note[m].updated = note[n].updated /\ m > n)

\* Below the last row of the page before.
Unlisted(n) ==
    \/ fetched.above = None
    \/ note[n].updated < fetched.above.updated
    \/ (note[n].updated = fetched.above.updated /\ n < fetched.above.id)

\* One page of the listing, below the last row of the page before it.
ListNotes ==
    /\ at = "listing"
    /\ LET rest == {n \in Notes : Accessible(n) /\ Unlisted(n)}
           page == {n \in rest : Cardinality({m \in rest : Later(m, n)}) < PageSize}
           last == CHOOSE n \in page : \A m \in page : ~Later(n, m)
       IN  /\ at' = IF Cardinality(page) < PageSize THEN "loading" ELSE "listing"
           /\ fetched' = [fetched EXCEPT !.todo = @ \cup page,
                  !.above = IF page = {} THEN @
                            ELSE [updated |-> note[last].updated, id |-> last]]
    /\ UNCHANGED <<server, store, documents, open, queue, ends, faults, history>>

LoadDocument == \E n \in Notes :
    /\ at = "loading" /\ n \in fetched.todo
    /\ IF Accessible(n)
       THEN /\ fetched' = [fetched EXCEPT !.todo = @ \ {n},
                    !.docs = [m \in DOMAIN @ \cup {n} |-> IF m = n THEN note[n].rev ELSE @[m]]]
            /\ UNCHANGED <<at, queue, ends>>
       ELSE EndPass
    /\ UNCHANGED <<server, store, documents, open, faults, history>>

\* Mutant: the checkpoint is read when the snapshot is complete.
CompleteBootstrapLate ==
    /\ at = "loading" /\ fetched.todo = {}
    /\ local' = [n \in Notes |-> IF n \in DOMAIN fetched.docs THEN fetched.docs[n] ELSE local[n]]
    /\ cursor' = Watermark(0) /\ origin' = Watermark(0)
    /\ StartDrain(Pending, FALSE)
    /\ UNCHANGED <<server, inbox, applied, missed, open, faults, history>>

CompleteBootstrap ==
    /\ at = "loading" /\ fetched.todo = {}
    /\ local' = [n \in Notes |-> IF n \in DOMAIN fetched.docs THEN fetched.docs[n] ELSE local[n]]
    /\ cursor' = Larger(cursor, fetched.mark) /\ origin' = fetched.mark
    /\ StartDrain(Pending, FALSE)
    /\ UNCHANGED <<server, inbox, applied, missed, open, faults, history>>

FetchPage ==
    /\ at = "fetching"
    /\ at' = "ingesting" /\ fetched' = Page(cursor)
    /\ overlooked' = overlooked \cup Overtaken(Page(cursor).cursor)
    /\ UNCHANGED <<server, store, documents, open, queue, ends, faults, reordered>>

\* ingestPage: rows and cursor in one transaction.
Ingest ==
    /\ at = "ingesting"
    /\ inbox' = inbox \cup fetched.page
    /\ cursor' = Larger(cursor, fetched.cursor)
    /\ StartDrain({ch \in inbox \cup fetched.page : ch.seq \notin applied}, ~fetched.more)
    /\ UNCHANGED <<server, origin, applied, documents, open, faults, history>>

-------------------------------------------------------------------------------
(* One change.                                                             *)

\* Structural changes of an open note wait until it is closed.
Deferred(ch) == ch.type # "note_changed" /\ ch.note \in open

\* The changes up to the next one that is not deferred, which are left to a
\* later drain.
Skipped == {ch \in queue : \A d \in queue : d.seq <= ch.seq => Deferred(d)}

First(rows) == CHOOSE ch \in rows : \A d \in rows : ch.seq <= d.seq

\* The change being applied.
Current == First(queue)

BeginApply ==
    /\ at = "draining" /\ queue # Skipped
    /\ queue' = queue \ Skipped
    /\ LET ch == First(queue \ Skipped) IN
        at' = CASE ch.type = "note_changed" ->
                        IF ch.note \in open THEN "reconciling" ELSE "polling"
                [] ch.type = "note_access_changed" -> "hydrating"
                [] OTHER -> "deleting"
    /\ UNCHANGED <<server, store, documents, open, ends, fetched, faults, history>>

FinishDrain ==
    /\ at = "draining" /\ queue = Skipped
    /\ IF ends THEN EndPass
       ELSE at' = "fetching" /\ queue' = {} /\ UNCHANGED <<ends, fetched>>
    /\ UNCHANGED <<server, store, documents, open, faults, history>>

Keep(n, rev) == local' = [local EXCEPT ![n] = rev] /\ missed' = missed \ {n}

\* A poll takes the local document to the server's revision.
Pull(n) == IF local[n] = None THEN UNCHANGED documents ELSE Keep(n, note[n].rev)

\* The open session pulls; if it cannot (it is closing or has failed, or the
\* server refuses) the change is applied to local storage instead.
ReconcileActive ==
    /\ at = "reconciling"
    /\ \/ /\ Current.note \in open /\ Accessible(Current.note)
          /\ Pull(Current.note) /\ GoTo("hydrating")
       \/ /\ UNCHANGED documents /\ GoTo("polling")
    /\ UNCHANGED <<server, store, open, faults, history>>

\* Mutant: the revision of the change is not looked at.
PollNoteNever ==
    /\ at = "polling"
    /\ UNCHANGED documents /\ GoTo("hydrating")
    /\ UNCHANGED <<server, store, open, faults, history>>

\* A closed note is polled when the change is newer than its document.
PollNote ==
    /\ at = "polling"
    /\ LET n == Current.note IN
        IF local[n] = None \/ local[n] >= Current.rev
        THEN UNCHANGED documents /\ GoTo("hydrating")
        ELSE IF Accessible(n) THEN Pull(n) /\ GoTo("hydrating")
        ELSE UNCHANGED documents /\ EndPass
    /\ UNCHANGED <<server, store, open, faults, history>>

\* hydrateRemote: a note that the server no longer shows (404) is deleted, a
\* known one gets its metadata, an unknown one is loaded.
Hydrate ==
    /\ at = "hydrating"
    /\ LET n == Current.note IN
        IF ~Accessible(n)
        THEN Keep(n, None) /\ GoTo("settling")
        ELSE UNCHANGED documents /\ GoTo(IF local[n] = None THEN "hydratingDocument" ELSE "settling")
    /\ UNCHANGED <<server, store, open, faults, history>>

HydrateDocument ==
    /\ at = "hydratingDocument"
    /\ LET n == Current.note IN
        IF Accessible(n) /\ n \notin open
        THEN Keep(n, note[n].rev) /\ GoTo("settling")
        ELSE UNCHANGED documents /\ EndPass
    /\ UNCHANGED <<server, store, open, faults, history>>

DeleteLocal ==
    /\ at = "deleting"
    /\ Keep(Current.note, None)
    /\ GoTo("settling")
    /\ UNCHANGED <<server, store, open, faults, history>>

\* A revocation that an earlier drain, or this one, has skipped.
PassesRevocation(ch) == ch.type = "note_access_changed" /\ \E r \in Pending :
    r.type = "note_access_revoked" /\ r.note = ch.note /\ r.seq < ch.seq

MarkApplied ==
    /\ at = "settling"
    /\ applied' = applied \cup {Current.seq}
    /\ at' = "draining" /\ queue' = queue \ {Current}
    /\ reordered' = IF PassesRevocation(Current) THEN reordered \cup {Current.note} ELSE reordered
    /\ UNCHANGED <<server, origin, cursor, inbox, documents, open, ends, fetched, faults, overlooked>>

-------------------------------------------------------------------------------
(* The user, and what fails.                                               *)

Open(n) ==
    /\ local[n] # None /\ n \notin open
    /\ open' = open \cup {n}
    /\ UNCHANGED <<server, store, documents, pass, faults, history>>

Close(n) ==
    /\ n \in open
    /\ open' = open \ {n}
    /\ UNCHANGED <<server, store, documents, pass, faults, history>>

Requests == {"marking", "listing", "loading", "fetching", "polling", "hydrating",
             "hydratingDocument"}

FaultOf(kind) == kind \in FaultKinds /\ faults < MaxFaults /\ faults' = faults + 1

NetworkError ==
    /\ FaultOf("network")
    /\ at \in Requests
    /\ EndPass
    /\ UNCHANGED <<server, store, documents, open, history>>

\* The session logs a transient error of its pull and reports success.
SessionError ==
    /\ FaultOf("session")
    /\ at = "reconciling" /\ Current.note \in open
    /\ missed' = missed \cup {Current.note}
    /\ GoTo("hydrating")
    /\ UNCHANGED <<server, store, local, open, history>>

Crash ==
    /\ FaultOf("crash")
    /\ at # "waiting" \/ open # {}
    /\ open' = {} /\ EndPass
    /\ UNCHANGED <<server, store, documents, history>>

-------------------------------------------------------------------------------
Writer == Commit \/ Abort \/ \E n \in Notes, kind \in Kinds : Begin(n, kind)

PassStep ==
    \/ StartPass \/ FetchMarker \/ ListNotes \/ LoadDocument \/ CompleteBootstrap
    \/ FetchPage \/ Ingest \/ FinishDrain
    \/ BeginApply \/ ReconcileActive \/ PollNote \/ Hydrate \/ HydrateDocument
    \/ DeleteLocal \/ MarkApplied

User == \E n \in Notes : Open(n) \/ Close(n)

Fault == NetworkError \/ SessionError \/ Crash

Next == Writer \/ PassStep \/ User \/ Fault

Spec == Init /\ [][Next]_vars

\* The runtime's loop never stops, requests are answered or fail, and the
\* server ends its transactions.
FairSpec == Spec /\ WF_vars(PassStep) /\ WF_vars(Commit \/ Abort)

-------------------------------------------------------------------------------
(* Properties.                                                             *)

EventTypes == {"note_changed", "note_deleted", "note_access_changed", "note_access_revoked"}

ChangeOK(ch) ==
    ch.seq \in 1..sequence /\ ch.note \in Notes /\ ch.rev \in Nat /\ ch.type \in EventTypes

\* A transaction of the writers.
WriterOK(w) == w.seq \in 1..sequence /\ w.note \in Notes /\ w.kind \in Kinds

\* Every variable has its type.
TypeOK ==
    /\ note \in [Notes -> [state : {"absent", "live", "deleted"}, rev : Nat,
                          updated : Nat, role : Roles]]
    /\ sequence \in Nat /\ cursor \in Nat /\ origin \in Nat \cup {None}
    /\ \A ch \in changes \cup inbox \cup queue : ChangeOK(ch)
    /\ \A w \in writing \cup overlooked : WriterOK(w)
    /\ local \in [Notes -> Nat \cup {None}]
    /\ open \subseteq Notes /\ missed \subseteq Notes /\ reordered \subseteq Notes
    /\ faults \in Nat

\* A change that was committed behind a reader's back.
Overlooked(ch) == \E w \in overlooked : ch \in w.rows

\* The cursor only passes changes that the inbox holds or that the bootstrap
\* covered: a page skips what is committed in no other way than by reading
\* past the number of a transaction that has not committed yet.
NothingSkipped == \A ch \in changes :
    ch.seq <= cursor => ch \in inbox \/ (origin # None /\ ch.seq <= origin) \/ Overlooked(ch)

\* The changes that count as seen: marked applied, or under the bootstrap's
\* watermark.
Seen(ch) == ch.seq \in applied \/ (origin # None /\ ch.seq <= origin)

Reflected(ch) == local[ch.note] # None => local[ch.note] >= ch.rev

\* A change that counts as seen has been seen: the note is gone, or its
\* local document is at least as new, or the last pull failed unnoticed; or
\* the bootstrap read past its number before it was committed.
SeenIsReflected == \A ch \in changes :
    Seen(ch) => Reflected(ch) \/ ch.note \in missed \/ Overlooked(ch)

Quiet ==
    /\ at = "waiting" /\ writing = {} /\ origin # None
    /\ Pending = {} /\ \A ch \in changes : ch.seq <= cursor

\* The notes of whose changes one was overlooked, or which a revocation hit
\* late.
Excepted == {w.note : w \in overlooked \ writing} \cup reordered

\* When nothing is left to write, fetch or apply, the device holds exactly
\* the notes that the user may see, each at the server's revision: but for
\* a pull that failed unnoticed, a change that was overlooked, and an old
\* revocation that was applied after a newer share.
QuietIsInSync == Quiet => \A n \in Notes \ (missed \cup Excepted) :
    local[n] = IF Accessible(n) THEN note[n].rev ELSE None

\* The same of every note: which the code does not give.
EveryNoteInSync == Quiet => \A n \in Notes \ missed :
    local[n] = IF Accessible(n) THEN note[n].rev ELSE None

\* The same of the changes that only a late commit keeps from the inbox.
NothingOverlooked == \A ch \in changes :
    ch.seq <= cursor => ch \in inbox \/ (origin # None /\ ch.seq <= origin)

Lost(ch) == ch.type \in {"note_deleted", "note_access_revoked"}

\* A change that will take the note from the device.
Removal(ch, n) == ch.note = n /\ Lost(ch)

\* It is still to be applied.
RemovalPending(n) == \E ch \in changes : Removal(ch, n) /\ ~Seen(ch)

\* The pass gives up a change because of what the server answers.
Refused == at \in {"polling", "hydratingDocument"} /\ at' = "waiting" /\ faults' = faults

\* One change that cannot be applied holds up the inbox of the account; what
\* makes it so is that the note is open, or that its removal is already in
\* the feed, behind that change.
OnlyRemovalsStop == [][Refused =>
    Current.note \in open \cup Excepted \/ RemovalPending(Current.note)]_vars

\* Every change is applied at last, or its note stays open, or it was
\* overlooked: which the code does not give, because the removal never gets
\* its turn.
FeedNeverStuck == \A s \in 1..MaxSequence :
    (\E ch \in changes : ch.seq = s)
        ~> (\E ch \in changes : ch.seq = s /\ (Seen(ch) \/ ch.note \in open \/ Overlooked(ch)))

-------------------------------------------------------------------------------
(* Why NothingSkipped and SeenIsReflected hold: the inductive invariant.   *)

\* Every number up to s is settled: a transaction under way that holds one
\* was overlooked.
Settled(s) == s \in 0..sequence /\ Overtaken(s) \subseteq overlooked

\* What a transaction has numbered: nothing, or one change of its note, which
\* tells of the revision that it leaves.
RowsOK(w) == /\ \A ch \in w.rows : /\ ch.seq = w.seq /\ ch.note = w.note
                                    /\ ch.type = EventType(w.kind)
                                    /\ ChangeOK(ch)
             /\ \A ch, d \in w.rows : ch = d

\* What a transaction found, and still is so when it ends.
Found(row, kind) ==
    IF OnShare(kind)
    THEN row.state # "absent" /\ (kind = "share" <=> row.role = "stranger")
    ELSE Permitted(row, kind)

\* Writers of one row wait for each other, and only who writes to the notes
\* of others is not heard of.
WritersOK ==
    /\ \A v, w \in writing : v # w =>
            v.seq # w.seq /\ (v.note = w.note => (OnShare(v.kind) <=> ~OnShare(w.kind)))
    /\ \A w \in writing \cup overlooked : RowsOK(w)
    /\ \A w \in writing :
        /\ Found(note[w.note], w.kind)
        /\ \A ch \in w.rows : ch.rev = Told(note[w.note], w.kind, w.seq)
        /\ w.rows = {} => /\ w.kind \in {"edit", "delete"}
                          /\ note[w.note].role = "stranger" \/ w \in overlooked

\* The changes number the revisions they tell of.
ChangesOK ==
    /\ IsFiniteSet(changes)
    /\ \A ch \in changes : /\ \A w \in writing : ch.seq # w.seq
                           /\ ch.rev <= note[ch.note].rev
                           /\ ch.type = "note_access_changed" => ch.rev = 0
    /\ \A ch, d \in changes : ch.seq = d.seq => ch = d

ServerOK ==
    /\ WritersOK /\ ChangesOK
    /\ \A n \in Notes : note[n].state = "absent" => note[n].rev = 0

\* The cursor never enters what is not settled, the inbox holds what came
\* after the bootstrap, the queue what is not applied; and before the
\* bootstrap there is nothing.
StoreOK ==
    /\ Settled(cursor)
    /\ inbox \subseteq changes /\ queue \subseteq inbox
    /\ \A ch \in inbox : ch.seq <= cursor
    /\ applied \subseteq {ch.seq : ch \in inbox}
    /\ \A ch \in queue : ch.seq \notin applied
    /\ origin # None => Settled(origin) /\ origin <= cursor /\ \A ch \in inbox : origin < ch.seq
    /\ origin = None => /\ cursor = 0 /\ inbox = {} /\ applied = {} /\ reordered = {}
                        /\ \A n \in Notes : local[n] = None
    /\ \A n \in Notes : local[n] # None => local[n] <= note[n].rev

\* A document is as new as the changes up to s.
AsNewAs(n, rev, s) ==
    \A ch \in changes : ch.note = n /\ ch.seq <= s => rev >= ch.rev \/ Overlooked(ch)

\* What the bootstrap holds covers its watermark, a page covers its cursor.
RequestsOK ==
    /\ at \in {"marking", "listing", "loading"} => origin = None
    /\ at \in {"listing", "loading"} =>
        /\ DOMAIN fetched = {"mark", "above", "todo", "docs"}
        /\ Settled(fetched.mark) /\ DOMAIN fetched.docs \subseteq Notes
        /\ \A n \in DOMAIN fetched.docs :
            /\ fetched.docs[n] \in Nat /\ fetched.docs[n] <= note[n].rev
            /\ AsNewAs(n, fetched.docs[n], fetched.mark)
    /\ at \in {"draining", "fetching", "ingesting"} => origin # None
    /\ at = "ingesting" =>
        /\ fetched.page \subseteq changes /\ Settled(fetched.cursor)
        /\ \A ch \in fetched.page : cursor < ch.seq /\ ch.seq <= fetched.cursor
        /\ \A ch \in changes : cursor < ch.seq /\ ch.seq <= fetched.cursor
                                => ch \in fetched.page \/ Overlooked(ch)

Applying == {"reconciling", "polling", "hydrating", "hydratingDocument", "deleting", "settling"}

\* Where the change being applied stands.
ApplyOK ==
    /\ at \in Applying => queue # {}
    /\ at \in {"reconciling", "polling"} => Current.type = "note_changed"
    /\ at \in {"hydrating", "hydratingDocument"} =>
            Current.type \in {"note_changed", "note_access_changed"}
    /\ at \in {"hydrating", "settling"} =>
            Reflected(Current) \/ Current.note \in missed \/ Overlooked(Current)

\* What is delivered, whatever happens to the notes.
DeliveryInv ==
    TypeOK /\ ServerOK /\ StoreOK /\ RequestsOK /\ ApplyOK /\ NothingSkipped /\ SeenIsReflected

-------------------------------------------------------------------------------
(* Why QuietIsInSync holds: what the user may see, and what is no longer   *)
(* there, was announced to the device.                                     *)

\* A change tells of the revision that somebody at `rev` lacks.
Announced(n, rev) == rev < note[n].rev =>
    \E ch \in changes : ch.note = n /\ ch.rev = note[n].rev

\* A note is withdrawn once at a time: whoever sees it after a revocation has
\* been given a newer share, and a deleted one stays deleted.
HistoryOK == \A ch \in changes :
    /\ note[ch.note].state # "absent"
    /\ ch.type = "note_deleted" => note[ch.note].state = "deleted"
    /\ ch.type = "note_access_revoked" =>
        /\ \A w \in writing : w.note = ch.note /\ w.kind = "share" => ch.seq < w.seq
        /\ note[ch.note].role # "stranger" => \E d \in changes :
               d.note = ch.note /\ d.type = "note_access_changed" /\ ch.seq < d.seq

\* The user may see a document of the device, and what it lacks was
\* announced; or its removal is still to be applied.
DocumentsOK ==
    /\ \A n \in Notes \ Excepted : local[n] # None =>
            (Accessible(n) /\ Announced(n, local[n])) \/ RemovalPending(n)
    /\ at = "deleting" => Lost(Current)
    /\ at = "settling" /\ Lost(Current) => local[Current.note] = None
    /\ at = "hydratingDocument" =>
            Current.note \in Excepted \/ Accessible(Current.note) \/ RemovalPending(Current.note)

\* Shares are applied after the revocations before them.
OrderOK == \A r, ch \in changes :
    (/\ r.type = "note_access_revoked" /\ ch.type = "note_access_changed"
     /\ r.note = ch.note /\ r.note \notin Excepted
     /\ r.seq < ch.seq /\ Seen(ch)) => Seen(r)

\* A note that the device lacks has a change that will bring it.
MissingOK == \A n \in Notes \ Excepted :
    Accessible(n) /\ local[n] = None /\ origin # None =>
        \E ch \in changes : ch.note = n /\ ~Seen(ch) /\ ~(at = "settling" /\ ch = Current)

\* The bootstrap has listed a note, or will, or the feed tells of it later.
BootstrapOK == at \in {"listing", "loading"} =>
    /\ \A n \in Notes \ Excepted : Accessible(n) =>
        \/ n \in fetched.todo \cup DOMAIN fetched.docs
        \/ at = "listing" /\ Unlisted(n)
        \/ \E ch \in changes : ch.note = n /\ ch.seq > fetched.mark
    /\ \A n \in DOMAIN fetched.docs \ Excepted :
        \/ Accessible(n) /\ Announced(n, fetched.docs[n])
        \/ \E ch \in changes : Removal(ch, n) /\ ch.seq > fetched.mark

InSyncInv == HistoryOK /\ DocumentsOK /\ OrderOK /\ MissingOK /\ BootstrapOK

\* All of it.
FeedInv == DeliveryInv /\ InSyncInv
=============================================================================
