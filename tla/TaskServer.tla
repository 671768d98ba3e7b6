------------------------------ MODULE TaskServer ------------------------------
(***************************************************************************)
(* One independent task on the server: tasks.Service with its rows of      *)
(* tasks, task_operations and sync_changes, and the devices that send      *)
(* mutations.  A mutation may be delivered late, again or never; failed    *)
(* ones leave no trace, accepted ones are replayed from task_operations.   *)
(* The row lock serialises the transactions, except while the row does not *)
(* exist: a creation looks for the row first and inserts it later.         *)
(***************************************************************************)
EXTENDS Naturals, Sequences, FiniteSets

CONSTANTS
    Users, Devices,
    OpIds,      \* operation identifiers, which are also the instants of completion
    Patches,    \* payloads of create, upsert and update
    MaxRevision \* bound on the task's revision

ASSUME TaskServerAssumption == OpIds \subseteq Nat \ {0} /\ MaxRevision \in Nat \ {0}

VARIABLES
    row,        \* the task, or NoTask
    ops,        \* task_operations, by operation identifier
    changes,    \* the task's sync_changes, in the order of their sequence
    net,        \* mutations on their way: sent, and not (only) handled yet
    inserting,  \* creations that found no row and have not inserted it
    answers,    \* the successful answers given to each operation
    view,       \* per device: generation and schedule it last saw
    owed        \* completions accepted and not taken back since

tables == <<row, ops, changes>>
vars == <<tables, net, inserting, answers, view, owed>>

None == "none"
NoInstant == 0
Days == {"midnight", "noon"}  \* wall-clock values, at a day's start or not
Fields == {"title", "due", "time", "rule", "reminder", "completions", "done", "last"}
PatchKinds == {"create", "upsert", "update"}
OccurrenceKinds == {"complete_occurrence", "reopen_occurrence"}
NoTask == [owner |-> None]
NoOp == [answer |-> None]

Record(day, time, at) == [day |-> day, time |-> time, at |-> at]
Records == [day : Days \union {None}, time : BOOLEAN, at : OpIds]
Schedule(r) == [due |-> r.due, time |-> r.time, rule |-> r.rule]
Schedules == [due : Days \union {None}, time : BOOLEAN, rule : {None, "daily"}]
Tasks == [owner : Users, title : {"a", "b"}, due : Days \union {None}, time : BOOLEAN,
          rule : {None, "daily"}, reminder : {None, "9am"},
          completions : [Days -> OpIds \union {NoInstant}], history : SUBSET Records,
          done : BOOLEAN, last : OpIds \union {NoInstant},
          rev : 1..MaxRevision, gen : Nat, deleted : BOOLEAN]

\* A patch names some fields and gives each a value of its type.
IsPatch(p) ==
    /\ DOMAIN p \subseteq Fields
    /\ "title" \in DOMAIN p => p.title \in {"a", "b"}
    /\ "due" \in DOMAIN p => p.due \in Days \union {None}
    /\ "time" \in DOMAIN p => p.time \in BOOLEAN
    /\ "rule" \in DOMAIN p => p.rule \in {None, "daily"}
    /\ "reminder" \in DOMAIN p => p.reminder \in {None, "9am"}
    /\ "completions" \in DOMAIN p => p.completions \in [Days -> OpIds \union {NoInstant}]
    /\ "done" \in DOMAIN p => p.done \in BOOLEAN
    /\ "last" \in DOMAIN p => p.last \in OpIds \union {NoInstant}

ASSUME PatchesAssumption == \A p \in Patches : IsPatch(p)

Payloads == Patches \union [scheduledAt : Days] \union {<<>>}
Mutations == [op : OpIds, user : Users, kind : PatchKinds \union OccurrenceKinds \union {"delete"},
              payload : Payloads, gen : Nat, seen : Schedules]

TypeOK ==
    /\ row \in Tasks \union {NoTask}
    /\ ops \in [OpIds -> [payload : Payloads,
                          answer : Tasks] \union {NoOp}]
    /\ changes \in Seq([user : Users, kind : {"task_changed", "task_deleted"},
                        rev : 1..MaxRevision])
    /\ net \subseteq Mutations /\ inserting \subseteq net
    /\ answers \in [OpIds -> SUBSET Tasks]
    /\ view \in [Devices -> [gen : Nat, seen : Schedules]]
    /\ owed \subseteq Records

NoSchedule == [due |-> None, time |-> FALSE, rule |-> None]

Init ==
    /\ row = NoTask
    /\ ops = [o \in OpIds |-> NoOp]
    /\ changes = <<>>
    /\ net = {} /\ inserting = {}
    /\ answers = [o \in OpIds |-> {}]
    /\ view = [d \in Devices |-> [gen |-> 0, seen |-> NoSchedule]]
    /\ owed = {}

----------------------------------------------------------------------------
(* Rules.                                                                  *)

Has(p, field) == field \in DOMAIN p
Given(p, field, old) == IF Has(p, field) THEN p[field] ELSE old

\* validateTaskSchedule and ValidScheduleMetadata.
ValidSchedule(r) ==
    /\ r.due = "noon" => r.time
    /\ r.due = None => r.rule = None /\ r.reminder = None

\* parseWallClock: without a time of day only a day's start is accepted.
ValidDay(day, time) == day = "midnight" \/ time

Completed(r) == {day \in Days : r.completions[day] # NoInstant}

\* validateCompletionsForTask.
ValidCompletions(r) == Completed(r) # {} =>
    r.rule # None /\ \A day \in Completed(r) : ValidDay(day, r.time)

\* What is completed under the current schedule; archiveActiveCompletions
\* adds these records to the history.
Active(r) ==
    IF r.rule # None THEN {Record(day, r.time, r.completions[day]) : day \in Completed(r)}
    ELSE IF r.done /\ r.last # NoInstant THEN {Record(r.due, r.time, r.last)} ELSE {}

NoCompletions == [day \in Days |-> NoInstant]

\* The row a creation inserts.
NewTask(q) == LET p == q.payload IN
    [owner |-> q.user, title |-> Given(p, "title", "a"), due |-> Given(p, "due", None),
     time |-> Given(p, "time", FALSE), rule |-> Given(p, "rule", None),
     reminder |-> Given(p, "reminder", None),
     completions |-> Given(p, "completions", NoCompletions), history |-> {},
     done |-> Given(p, "done", FALSE), last |-> Given(p, "last", NoInstant),
     rev |-> 1, gen |-> q.gen, deleted |-> FALSE]

\* The fields of a patch over those of a row, completions day by day.
Patched(r, p) ==
    [r EXCEPT !.title = Given(p, "title", @), !.due = Given(p, "due", @),
              !.time = Given(p, "time", @), !.rule = Given(p, "rule", @),
              !.reminder = Given(p, "reminder", @), !.done = Given(p, "done", @),
              !.last = Given(p, "last", @),
              !.completions = [day \in Days |->
                  IF Has(p, "completions") /\ p.completions[day] # NoInstant
                  THEN p.completions[day] ELSE @[day]]]

\* Mutant: a change of the time of day only is not a change of schedule.
SameDueAndRule(r, s) == r.due = s.due /\ r.rule = s.rule

SameSchedule(r, s) == Schedule(r) = Schedule(s)

\* Mutant: the completions are cleared before they are archived.
RescheduledTooEarly(r, s) ==
    LET cleared == [s EXCEPT !.completions = NoCompletions, !.done = FALSE, !.last = NoInstant] IN
    [cleared EXCEPT !.gen = @ + 1, !.history = @ \union Active(cleared)]

\* Mutant: the completions of the old schedule stay.
RescheduledWithoutReset(r, s) == [s EXCEPT !.gen = @ + 1, !.history = @ \union Active(r)]

\* r becomes s under a new schedule: a generation of its own, the completions
\* of the old schedule in the history.
Rescheduled(r, s) ==
    [s EXCEPT !.gen = @ + 1, !.history = @ \union Active(r),
              !.completions = NoCompletions, !.done = FALSE, !.last = NoInstant]

\* What applying a patch makes of the row.
AfterPatch(r, p) == LET s == Patched(r, p) IN
    IF SameSchedule(r, s) THEN s ELSE Rescheduled(r, s)

ValidPatch(r, p) == LET s == Patched(r, p) IN
    /\ ValidSchedule(s)
    /\ Has(p, "completions") => ValidCompletions([s EXCEPT !.completions = p.completions])
    /\ SameSchedule(r, s) => ValidCompletions(s)

\* Whether an occurrence may be completed or reopened.
MayApplyOccurrence(r, q) ==
    /\ ValidSchedule(r)
    /\ ValidDay(q.payload.scheduledAt, r.time)
    /\ r.rule = None => r.due = q.payload.scheduledAt
    /\ IF q.kind = "complete_occurrence"
       THEN r.completions[q.payload.scheduledAt] = NoInstant /\ (r.rule = None => ~r.done)
       ELSE IF r.rule = None THEN r.done ELSE r.completions[q.payload.scheduledAt] # NoInstant

AfterOccurrence(r, q) ==
    LET at == IF q.kind = "complete_occurrence" THEN q.op ELSE NoInstant IN
    IF r.rule # None THEN [r EXCEPT !.completions[q.payload.scheduledAt] = at, !.done = FALSE]
    ELSE [r EXCEPT !.done = (at # NoInstant), !.last = at]

----------------------------------------------------------------------------
(* One mutation in one transaction.                                        *)

Exists(q) == row # NoTask /\ row.owner = q.user

\* GetTaskOperation, and the comparison of the canonical payloads.
Known(q) == ops[q.op] # NoOp
SamePayload(q) == ops[q.op].payload = q.payload

InsertTaskOperation(q, r) ==
    ops' = [ops EXCEPT ![q.op] = [payload |-> q.payload, answer |-> r]]
InsertTaskSyncChange(q, r, kind) ==
    changes' = Append(changes, [user |-> q.user, kind |-> kind, rev |-> r.rev])

\* Mutant: the operation is not remembered.
PersistWithoutOperation(q, r, kind) ==
    /\ row' = r
    /\ ops' = ops
    /\ InsertTaskSyncChange(q, r, kind)
    /\ answers' = [answers EXCEPT ![q.op] = @ \union {r}]

\* persistMutation: the row, the operation with its answer and the change of
\* the feed commit together.
PersistMutation(q, r, kind) ==
    /\ row' = r
    /\ InsertTaskOperation(q, r)
    /\ InsertTaskSyncChange(q, r, kind)
    /\ answers' = [answers EXCEPT ![q.op] = @ \union {r}]

\* UpdateTask numbers the revisions.
UpdateTask(q, r, kind) ==
    /\ row.rev < MaxRevision
    /\ PersistMutation(q, [r EXCEPT !.rev = row.rev + 1], kind)

\* The records a mutation takes back on purpose.
TakenBack(q) ==
    IF q.kind \in OccurrenceKinds THEN {x \in Active(row) : row.rule = None \/ x.day = q.payload.scheduledAt}
    ELSE IF q.kind \in PatchKinds /\ ({"completions", "done", "last"} \intersect DOMAIN q.payload) # {}
         THEN Active(row) ELSE {}

Replay(q) ==
    /\ Known(q)
    /\ SamePayload(q)  \* else: operation payload hash mismatch
    /\ answers' = [answers EXCEPT ![q.op] = @ \union {ops[q.op].answer}]
    /\ UNCHANGED <<tables, owed>>

ApplyOccurrence(q) ==
    /\ q.kind \in OccurrenceKinds
    /\ q.gen = row.gen                \* else: SCHEDULE_CHANGED
    /\ MayApplyOccurrence(row, q)
    /\ UpdateTask(q, AfterOccurrence(row, q), "task_changed")
    /\ owed' = (owed \ TakenBack(q)) \union (Active(AfterOccurrence(row, q)) \ Active(row))

ApplyDelete(q) ==
    /\ q.kind = "delete"
    /\ UpdateTask(q, [row EXCEPT !.deleted = TRUE], "task_deleted")
    /\ UNCHANGED owed

ApplyPatch(q) ==
    /\ q.kind \in {"upsert", "update"}  \* a create of an existing task is refused
    /\ ValidPatch(row, q.payload)
    /\ AfterPatch(row, q.payload) # row \* else: a no-op
    /\ UpdateTask(q, AfterPatch(row, q.payload), "task_changed")
    /\ owed' = owed \ TakenBack(q)

\* apply, once the row is locked.
ApplyToRow(q) ==
    \/ Replay(q)
    \/ /\ ~Known(q)
       /\ ~row.deleted                  \* else: TASK_DELETED
       /\ ApplyOccurrence(q) \/ ApplyDelete(q) \/ ApplyPatch(q)

\* A mutation of an existing row; one that is refused changes nothing and is
\* not an action.
Apply(q) ==
    /\ q \in net \ inserting
    /\ Exists(q)
    /\ ApplyToRow(q)
    /\ UNCHANGED <<net, inserting, view>>

\* A creation finds no row of its user ...
FindNoRow(q) ==
    /\ q \in net \ inserting
    /\ ~Exists(q)
    /\ q.kind \in {"create", "upsert"}
    /\ Has(q.payload, "title")
    /\ ValidSchedule(NewTask(q)) /\ ValidCompletions(NewTask(q))
    /\ inserting' = inserting \union {q}
    /\ UNCHANGED <<tables, net, answers, view, owed>>

\* ... and inserts one, unless another transaction did: then it goes on with
\* that row, or fails when it belongs to someone else.
InsertTask(q) ==
    /\ q \in inserting
    /\ inserting' = inserting \ {q}
    /\ \/ row = NoTask /\ PersistMutation(q, NewTask(q), "task_changed") /\ UNCHANGED owed
       \/ Exists(q) /\ ApplyToRow(q)
       \/ UNCHANGED <<tables, answers, owed>>
    /\ UNCHANGED <<net, view>>

----------------------------------------------------------------------------
(* The devices.                                                            *)

Mutation(d, u, o, kind, payload) ==
    [op |-> o, user |-> u, kind |-> kind, payload |-> payload,
     gen |-> view[d].gen, seen |-> view[d].seen]

\* Operation identifiers are fresh, and used in a fixed order.
Send(q) ==
    /\ \A m \in net : m.op < q.op
    /\ \A o \in OpIds : o < q.op => \E m \in net : m.op = o
    /\ net' = net \union {q}
    /\ UNCHANGED <<tables, inserting, answers, view, owed>>

\* A device reads the task (Get, or its part of a bootstrap).
Read(d) ==
    /\ row # NoTask
    /\ view' = [view EXCEPT ![d] = [gen |-> row.gen, seen |-> Schedule(row)]]
    /\ UNCHANGED <<tables, net, inserting, answers, owed>>

Next ==
    \/ \E q \in net : Apply(q) \/ FindNoRow(q) \/ InsertTask(q)
    \/ \E d \in Devices :
        \/ Read(d)
        \/ \E u \in Users, o \in OpIds :
            \/ \E k \in PatchKinds, p \in Patches : Send(Mutation(d, u, o, k, p))
            \/ \E k \in OccurrenceKinds, day \in Days :
                /\ view[d].seen.due # None  \* only what is scheduled is shown to complete
                /\ Send(Mutation(d, u, o, k, [scheduledAt |-> day]))
            \/ Send(Mutation(d, u, o, "delete", <<>>))

Spec == Init /\ [][Next]_vars

----------------------------------------------------------------------------
(* Properties.                                                             *)

\* Delivered again, whatever happened to the task meanwhile, an operation is
\* answered as the first time: it is applied once.
AnsweredOnce == \A o \in OpIds : Cardinality(answers[o]) <= 1

\* The three tables agree: every revision is one operation and one change of
\* the feed, in order.
Applied == {o \in OpIds : ops[o] # NoOp}

ChangesFollowRevisions == row # NoTask =>
    /\ IsFiniteSet(Applied) /\ row.rev = Cardinality(Applied)
    /\ Len(changes) = row.rev
    /\ \A i \in 1..Len(changes) : changes[i].rev = i /\ changes[i].user = row.owner

\* A completion that was accepted and not taken back is in the task, under
\* its schedule or in its history, however often the task is rescheduled.
CompletionsAreKept == row # NoTask => owed \subseteq Active(row) \union row.history

\* Only a recurring task has completions by day, and its schedule is valid:
\* what mutations validate one by one holds of the row they make together.
RowIsCoherent == row # NoTask => ValidSchedule(row) /\ ValidCompletions(row)

\* What is sent fits its kind and has an identifier of its own, and a creation
\* that waits to insert was found valid.
MutationsAreOwn ==
    /\ \A q \in net : /\ q.kind \in PatchKinds => q.payload \in Patches
                      /\ q.kind \in OccurrenceKinds =>
                            q.payload \in [scheduledAt : Days] /\ q.seen.due # None
    /\ \A q, m \in net : q.op = m.op => q = m
    /\ \A q \in inserting : /\ q.kind \in {"create", "upsert"}
                            /\ ValidSchedule(NewTask(q)) /\ ValidCompletions(NewTask(q))

\* Before the row is inserted nothing is known of the task.
NothingBeforeTheRow == row = NoTask =>
    /\ Applied = {} /\ changes = <<>> /\ owed = {}
    /\ \A d \in Devices : view[d] = [gen |-> 0, seen |-> NoSchedule]
    /\ \A q \in net : q.gen = 0 /\ q.seen = NoSchedule

\* An operation has been given the one answer that is stored with it.
StoredAnswersOnly == \A o \in OpIds :
    answers[o] = IF ops[o] = NoOp THEN {} ELSE {ops[o].answer}

\* A generation has one schedule: who holds the row's generation, and has seen
\* a date, has seen its schedule.
SeenBefore(v) ==
    /\ v.gen <= row.gen
    /\ v.gen = row.gen /\ v.seen.due # None => v.seen = Schedule(row)

GenerationsTellSchedules == row # NoTask =>
    /\ \A d \in Devices : SeenBefore(view[d])
    /\ \A q \in net : SeenBefore(q)

\* The row, the operations and the changes have their types and fit together,
\* and so do the mutations under way and what the devices have seen.
TaskInv ==
    /\ TypeOK /\ ChangesFollowRevisions /\ RowIsCoherent
    /\ MutationsAreOwn /\ NothingBeforeTheRow /\ StoredAnswersOnly
    /\ GenerationsTellSchedules

\* An occurrence is completed or reopened only under the schedule its device
\* had seen: generations tell every two schedules apart.
CompletesWhatWasSeen ==
    [][\A q \in net : q.kind \in OccurrenceKinds /\ ops[q.op] # ops'[q.op] =>
           q.seen = Schedule(row)]_vars
=============================================================================
