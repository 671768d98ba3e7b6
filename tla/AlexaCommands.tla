---------------------------- MODULE AlexaCommands ----------------------------
(***************************************************************************)
(* The shopping-list command of the Alexa skill.  Alexa may deliver a      *)
(* request more than once; the handler reserves the request identifier in  *)
(* alexa_request_idempotency (a lease, taken over when it expires), runs   *)
(* shoppinglist.AddItem and stores the spoken answer for later deliveries. *)
(* AddItem looks for the list, reads it and sends one operation whose      *)
(* identifier derives from the request.  Every delivery may stop half-way; *)
(* meanwhile the user renames notes and removes items.                     *)
(***************************************************************************)
EXTENDS Naturals, FiniteSets, Sequences

CONSTANTS
    Deliveries, Requests, Notes,
    Stamp,      \* the timestamp inside the requests
    MaxAge,     \* tolerance of that timestamp, in ticks
    LeaseTTL, ResultTTL,
    MaxClock, MaxEdits, MaxFaults  \* bounds

ASSUME TimesAssumption ==
    /\ {Stamp, MaxAge, LeaseTTL, ResultTTL, MaxClock, MaxEdits, MaxFaults} \subseteq Nat
    /\ LeaseTTL > 0 /\ ResultTTL > 0

VARIABLES
    clock,
    rows,       \* alexa_request_idempotency
    work,       \* per delivery: its handler
    titled,     \* the notes titled "Lista de compras", not archived
    log,        \* the operations accepted by note sync, in order
    shown,      \* items in the lists: pairs of note and request
    rev,        \* per note: its revision
    edits, faults

lists == <<titled, log, shown, rev>>
vars == <<clock, rows, work, lists, edits, faults>>

NoRow == [status |-> "none"]
Payloads == {"milk", "empty"}
Final == {"added", "which_item", "not_found", "ambiguous", "sorry"}
Answers == Final \union {"none", "pending", "refused", "error"}
NoNote == "no note"

TypeOK ==
    /\ clock \in 0..MaxClock
    /\ rows \in [Requests -> {NoRow}
           \union [status : {"pending"}, print : Payloads, owner : Deliveries,
                   lease : Nat]
           \union [status : {"completed"}, print : Payloads, owner : Deliveries,
                   answer : Final, expires : Nat]]
    /\ work \in [Deliveries ->
           [pc : {"new", "checked", "reserved", "found", "read", "spoken", "done"},
            req : Requests, print : Payloads, at : 0..MaxClock, ran : BOOLEAN,
            note : Notes \union {NoNote}, base : Nat, answer : Answers]]
    /\ titled \subseteq Notes
    /\ log \in Seq([note : Notes, req : Requests])
    /\ shown \subseteq Notes \X Requests
    /\ rev \in [Notes -> Nat]
    /\ edits \in 0..MaxEdits /\ faults \in 0..MaxFaults

Init ==
    /\ clock = 0
    /\ rows = [r \in Requests |-> NoRow]
    /\ work \in [Deliveries ->
           [pc : {"new"}, req : Requests, print : Payloads, at : {0}, ran : {FALSE},
            note : {NoNote}, base : {0}, answer : {"none"}]]
    /\ titled \in SUBSET Notes
    /\ log = <<>>
    /\ shown = {}
    /\ rev = [n \in Notes |-> 0]
    /\ edits = 0 /\ faults = 0

At(d, pc) == work[d].pc = pc
Step(d, pc) == work' = [work EXCEPT ![d].pc = pc]
Speak(d, pc, answer) == work' = [work EXCEPT ![d].pc = pc, ![d].answer = answer]

----------------------------------------------------------------------------
(* Handler.Handle up to the reservation.                                   *)

\* validateRequestTimestamp, after the signature was verified.
Fresh == clock <= Stamp + MaxAge /\ Stamp <= clock + MaxAge

Receive(d) ==
    /\ At(d, "new")
    /\ IF Fresh THEN Step(d, "checked") ELSE Speak(d, "done", "refused")
    /\ UNCHANGED <<clock, rows, lists, edits, faults>>

\* DeleteExpiredAlexaRequestIdempotency, the first statement of Acquire.
DeleteExpired == [r \in Requests |->
    IF rows[r].status = "completed" /\ rows[r].expires <= clock THEN NoRow ELSE rows[r]]

Pending(d) == [status |-> "pending", print |-> work[d].print, owner |-> d,
               lease |-> clock + LeaseTTL]

\* InsertAlexaRequestIdempotency, or TakeOverAlexaRequestIdempotency of a row
\* whose lease ended.
Reserve(d) ==
    /\ rows' = [DeleteExpired EXCEPT ![work[d].req] = Pending(d)]
    /\ work' = [work EXCEPT ![d].pc = "reserved", ![d].at = clock, ![d].ran = TRUE]

\* PostgresIdempotencyStore.Acquire.  One transaction, serialised with the
\* others on this request by the row.  An expired answer was just deleted, so
\* the branch that reuses its row is not reached.
Acquire(d) == LET row == DeleteExpired[work[d].req] IN
    \/ row = NoRow /\ Reserve(d)
    \/ /\ row # NoRow
       /\ \/ row.print # work[d].print /\ Speak(d, "done", "refused") /\ UNCHANGED rows
          \/ /\ row.print = work[d].print
             /\ \/ /\ row.status = "completed"
                   /\ rows' = DeleteExpired
                   /\ Speak(d, "done", row.answer)
                \/ /\ row.status = "pending" /\ row.lease > clock
                   /\ Speak(d, "done", "pending")
                   /\ rows' = DeleteExpired
                \/ row.status = "pending" /\ row.lease <= clock /\ Reserve(d)

Begin(d) ==
    /\ At(d, "checked")
    /\ Acquire(d)
    /\ UNCHANGED <<clock, lists, edits, faults>>

----------------------------------------------------------------------------
(* shoppinglist.Service.AddItem.                                           *)

\* findShoppingList: exactly one note has the title.
FindShoppingList(d) ==
    IF work[d].print = "empty" THEN Speak(d, "spoken", "which_item")
    ELSE IF titled = {} THEN Speak(d, "spoken", "not_found")
    ELSE IF Cardinality(titled) > 1 THEN Speak(d, "spoken", "ambiguous")
    ELSE work' = [work EXCEPT ![d].pc = "found", ![d].note = CHOOSE n \in titled : TRUE]

Find(d) ==
    /\ At(d, "reserved")
    /\ FindShoppingList(d)
    /\ UNCHANGED <<clock, rows, lists, edits, faults>>

\* GetDocument: the item's block, named after the request, may be there.
ReadList(d) == LET w == work[d] IN
    /\ At(d, "found")
    /\ IF <<w.note, w.req>> \in shown THEN Speak(d, "spoken", "added")
       ELSE work' = [work EXCEPT ![d].pc = "read", ![d].base = rev[w.note]]
    /\ UNCHANGED <<clock, rows, lists, edits, faults>>

\* GetNoteOperationByOpID, within the note.
Accepted(n, r) == {i \in DOMAIN log : log[i].note = n /\ log[i].req = r}

\* The operation becomes part of the note.
Accept(d) == LET w == work[d] IN
    /\ log' = Append(log, [note |-> w.note, req |-> w.req])
    /\ shown' = shown \union {<<w.note, w.req>>}
    /\ rev' = [rev EXCEPT ![w.note] = @ + 1]
    /\ Speak(d, "spoken", "added")

\* Mutant: the operation is applied whether or not it already was.
SyncAgain(d) == Accept(d)

\* SyncOperations with one operation: it is accepted once per note.  Sent
\* again it is refused, whatever its base: the stored payload is JSONB and
\* never the text of the request.  A new one may be refused when the block it
\* goes after was removed since the list was read.
SyncItem(d) == LET w == work[d] IN
    \/ Accepted(w.note, w.req) = {} /\ Accept(d)
    \/ /\ Accepted(w.note, w.req) # {} \/ rev[w.note] # w.base
       /\ Speak(d, "spoken", "sorry")
       /\ UNCHANGED <<log, shown, rev>>

AddItem(d) ==
    /\ At(d, "read")
    /\ SyncItem(d)
    /\ UNCHANGED <<clock, rows, titled, edits, faults>>

\* Mutant: a statement that failed is taken for one that found the item there.
FailUnnoticed(d) ==
    /\ work[d].pc \in {"reserved", "found", "read"}
    /\ faults < MaxFaults
    /\ faults' = faults + 1
    /\ Speak(d, "spoken", "added")
    /\ UNCHANGED <<clock, rows, lists, edits>>

\* Any statement of AddItem may fail; an answer is stored all the same.
Fail(d) ==
    /\ work[d].pc \in {"reserved", "found", "read"}
    /\ faults < MaxFaults
    /\ faults' = faults + 1
    /\ Speak(d, "spoken", "sorry")
    /\ UNCHANGED <<clock, rows, lists, edits>>

----------------------------------------------------------------------------

Completed(d) == [status |-> "completed", print |-> work[d].print, owner |-> d,
                 answer |-> work[d].answer, expires |-> clock + ResultTTL]

\* Mutant: the answer is stored whoever owns the reservation.
CompleteUnowned(d) ==
    /\ rows' = [rows EXCEPT ![work[d].req] = Completed(d)]
    /\ Step(d, "done")

\* PostgresIdempotencyStore.Complete: only the owner of a pending row stores
\* its answer and speaks it.
Complete(d) == LET row == rows[work[d].req] IN
    IF row.status = "pending" /\ row.owner = d
    THEN rows' = [rows EXCEPT ![work[d].req] = Completed(d)] /\ Step(d, "done")
    ELSE UNCHANGED rows /\ Speak(d, "done", "error")

Finish(d) ==
    /\ At(d, "spoken")
    /\ Complete(d)
    /\ UNCHANGED <<clock, lists, edits, faults>>

\* The handler stops before it has answered.
Crash(d) ==
    /\ work[d].pc \in {"checked", "reserved", "found", "read", "spoken"}
    /\ faults < MaxFaults
    /\ faults' = faults + 1
    /\ Speak(d, "done", "error")
    /\ UNCHANGED <<clock, rows, lists, edits>>

\* The user gives a note the title or takes it away, or removes an item.
Rename(n) ==
    /\ titled' = IF n \in titled THEN titled \ {n} ELSE titled \union {n}
    /\ UNCHANGED <<log, shown, rev>>

Remove(n, r) ==
    /\ <<n, r>> \in shown
    /\ shown' = shown \ {<<n, r>>}
    /\ rev' = [rev EXCEPT ![n] = @ + 1]
    /\ UNCHANGED <<titled, log>>

Edit ==
    /\ edits < MaxEdits
    /\ edits' = edits + 1
    /\ \E n \in Notes : Rename(n) \/ \E r \in Requests : Remove(n, r)
    /\ UNCHANGED <<clock, rows, work, faults>>

Tick ==
    /\ clock < MaxClock
    /\ clock' = clock + 1
    /\ UNCHANGED <<rows, work, lists, edits, faults>>

Next ==
    \/ \E d \in Deliveries :
        \/ Receive(d) \/ Begin(d) \/ Find(d) \/ ReadList(d) \/ AddItem(d)
        \/ Fail(d) \/ Finish(d) \/ Crash(d)
    \/ Edit \/ Tick

Spec == Init /\ [][Next]_vars

----------------------------------------------------------------------------
(* Properties.                                                             *)

\* However often a request is delivered, taken over after a crash or retried
\* while its first execution still runs, and even if the user removed the item
\* meanwhile, a list receives its item at most once.
ItemAddedOnce == \A i, j \in DOMAIN log :
    log[i].note = log[j].note /\ log[i].req = log[j].req => i = j

\* The skill says that an item was added only when a list received it, and an
\* execution says so of the very note it found.
SpokenIsTrue == \A d \in Deliveries :
    LET w == work[d] IN
    w.answer = "added" => \E i \in DOMAIN log :
        log[i].req = w.req /\ (w.ran => log[i].note = w.note)

\* Two executions of the same request that both stored an answer started at
\* least the lifetime of an answer apart: in between every delivery hears the
\* first answer, and an owner that lost its lease cannot answer any more.
OneVerdict == \A d, e \in Deliveries :
    LET v == work[d]  w == work[e] IN
    /\ d # e /\ v.req = w.req /\ v.at <= w.at
    /\ \A x \in {v, w} : x.ran /\ x.pc = "done" /\ x.answer \in Final
    => v.at + ResultTTL <= w.at

\* The inductive invariant of these properties.
WorkIsInOrder == \A d \in Deliveries : LET w == work[d] IN
    /\ w.pc \in {"reserved", "found", "read", "spoken"} => w.ran
    /\ w.pc \in {"new", "checked"} => ~w.ran
    /\ w.pc \in {"found", "read"} => w.note \in Notes
    /\ w.pc \in {"new", "checked", "reserved", "found", "read"} => w.answer = "none"
    /\ w.pc = "spoken" => w.answer \in Final
    /\ w.at <= clock

\* What is shown, said or stored was accepted first.
AcceptedFirst ==
    /\ \A n \in Notes, r \in Requests : <<n, r>> \in shown => Accepted(n, r) # {}
    /\ \A r \in Requests : rows[r].status = "completed" /\ rows[r].answer = "added" =>
        \E i \in DOMAIN log : log[i].req = r

Told(d) == work[d].ran /\ work[d].pc = "done" /\ work[d].answer \in Final

\* A stored answer outlives its lifetime only, and the owner of the pending
\* row started after every answer that was stored before.
VerdictsLast == \A d \in Deliveries : LET r == work[d].req  over == work[d].at + ResultTTL IN
    Told(d) =>
        /\ over <= clock \/ (rows[r].status = "completed" /\ over <= rows[r].expires)
        /\ \A e \in Deliveries \ {d} :
            /\ work[e].req = r /\ rows[r].status = "pending" /\ rows[r].owner = e
            /\ work[e].pc \in {"reserved", "found", "read", "spoken"}
            => over <= work[e].at

AlexaInv ==
    /\ TypeOK /\ WorkIsInOrder /\ AcceptedFirst /\ VerdictsLast
    /\ ItemAddedOnce /\ SpokenIsTrue /\ OneVerdict
=============================================================================
