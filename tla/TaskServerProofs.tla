--------------------------- MODULE TaskServerProofs ---------------------------
(***************************************************************************)
(* Machine-checked proofs about TaskServer, for any users, devices,        *)
(* identifiers, well-typed patches and number of revisions.                *)
(***************************************************************************)
EXTENDS TaskServer, FiniteSetTheorems, TLAPS

USE TaskServerAssumption, PatchesAssumption

-------------------------------------------------------------------------------
(* Lemmas about the operators.                                             *)

\* A row is not the absence of one, nor an operation's entry that of none.
LEMMA NotNothing ==
    /\ \A r \in Tasks : r # NoTask
    /\ \A e \in [payload : Payloads, answer : Tasks] : e # NoOp
<1>1. ASSUME NEW r \in Tasks PROVE r # NoTask
    <2>1. "title" \in DOMAIN r
        BY DEF Tasks
    <2>2. "title" \notin DOMAIN NoTask
        BY DEF NoTask
    <2> QED
        BY <2>1, <2>2
<1>2. ASSUME NEW e \in [payload : Payloads, answer : Tasks] PROVE e # NoOp
    <2>1. "payload" \in DOMAIN e
        OBVIOUS
    <2>2. "payload" \notin DOMAIN NoOp
        BY DEF NoOp
    <2> QED
        BY <2>1, <2>2
<1> QED
    BY <1>1, <1>2

\* The value a patch gives a field has the field's type.
LEMMA GivenIsTyped ==
    ASSUME NEW p, IsPatch(p)
    PROVE  /\ \A x \in {"a", "b"} : Given(p, "title", x) \in {"a", "b"}
           /\ \A x \in Days \union {None} : Given(p, "due", x) \in Days \union {None}
           /\ \A x \in BOOLEAN : Given(p, "time", x) \in BOOLEAN
           /\ \A x \in {None, "daily"} : Given(p, "rule", x) \in {None, "daily"}
           /\ \A x \in {None, "9am"} : Given(p, "reminder", x) \in {None, "9am"}
           /\ \A x \in [Days -> OpIds \union {NoInstant}] :
                Given(p, "completions", x) \in [Days -> OpIds \union {NoInstant}]
           /\ \A x \in BOOLEAN : Given(p, "done", x) \in BOOLEAN
           /\ \A x \in OpIds \union {NoInstant} : Given(p, "last", x) \in OpIds \union {NoInstant}
BY DEF IsPatch, Given, Has

\* What is completed of a row are records.
LEMMA ActiveAreRecords ==
    ASSUME NEW r \in Tasks
    PROVE  Active(r) \subseteq Records
BY DEF Active, Tasks, Record, Records, Completed

\* Patching keeps a row a row, and the fields a patch cannot name.
LEMMA PatchedIsTask ==
    ASSUME NEW r \in Tasks, NEW p \in Patches
    PROVE  /\ Patched(r, p) \in Tasks
           /\ Patched(r, p).owner = r.owner /\ Patched(r, p).gen = r.gen
           /\ Patched(r, p).history = r.history /\ Patched(r, p).rev = r.rev
<1> DEFINE days == [day \in Days |->
                      IF Has(p, "completions") /\ p.completions[day] # NoInstant
                      THEN p.completions[day] ELSE r.completions[day]]
<1>1. IsPatch(p)
    OBVIOUS
<1>2. days \in [Days -> OpIds \union {NoInstant}]
    BY <1>1 DEF IsPatch, Has, Tasks
<1>3. Patched(r, p) = [r EXCEPT !.title = Given(p, "title", r.title), !.due = Given(p, "due", r.due),
              !.time = Given(p, "time", r.time), !.rule = Given(p, "rule", r.rule),
              !.reminder = Given(p, "reminder", r.reminder), !.done = Given(p, "done", r.done),
              !.last = Given(p, "last", r.last), !.completions = days]
    BY DEF Patched, Tasks
<1> HIDE DEF days
<1>4. /\ Given(p, "title", r.title) \in {"a", "b"}
      /\ Given(p, "due", r.due) \in Days \union {None}
      /\ Given(p, "time", r.time) \in BOOLEAN
      /\ Given(p, "rule", r.rule) \in {None, "daily"}
      /\ Given(p, "reminder", r.reminder) \in {None, "9am"}
      /\ Given(p, "done", r.done) \in BOOLEAN
      /\ Given(p, "last", r.last) \in OpIds \union {NoInstant}
    BY <1>1, GivenIsTyped DEF Tasks
<1>5. Patched(r, p) = [owner |-> r.owner, title |-> Given(p, "title", r.title),
          due |-> Given(p, "due", r.due), time |-> Given(p, "time", r.time),
          rule |-> Given(p, "rule", r.rule), reminder |-> Given(p, "reminder", r.reminder),
          completions |-> days, history |-> r.history, done |-> Given(p, "done", r.done),
          last |-> Given(p, "last", r.last), rev |-> r.rev, gen |-> r.gen, deleted |-> r.deleted]
    BY <1>3 DEF Tasks
<1>6. /\ r.owner \in Users /\ r.history \in SUBSET Records /\ r.rev \in 1..MaxRevision
      /\ r.gen \in Nat /\ r.deleted \in BOOLEAN
    BY DEF Tasks
<1> QED
    BY <1>2, <1>4, <1>5, <1>6 DEF Tasks

LEMMA RescheduledIsTask ==
    ASSUME NEW r \in Tasks, NEW s \in Tasks
    PROVE  /\ Rescheduled(r, s) \in Tasks
           /\ Rescheduled(r, s).gen = s.gen + 1
           /\ Rescheduled(r, s).owner = s.owner
           /\ Schedule(Rescheduled(r, s)) = Schedule(s)
           /\ Rescheduled(r, s).reminder = s.reminder
           /\ Rescheduled(r, s).history = s.history \union Active(r)
           /\ Completed(Rescheduled(r, s)) = {}
<1>1. Active(r) \subseteq Records
    BY ActiveAreRecords
<1>2. NoCompletions \in [Days -> OpIds \union {NoInstant}]
    BY DEF NoCompletions
<1>3. s.history \union Active(r) \in SUBSET Records /\ s.gen + 1 \in Nat
    BY <1>1 DEF Tasks
<1> DEFINE t == Rescheduled(r, s)
<1>4. /\ t \in Tasks /\ t.gen = s.gen + 1 /\ t.owner = s.owner /\ t.reminder = s.reminder
      /\ t.due = s.due /\ t.time = s.time /\ t.rule = s.rule
      /\ t.history = s.history \union Active(r) /\ t.completions = NoCompletions
    BY <1>2, <1>3 DEF Rescheduled, Tasks
<1> HIDE DEF t
<1> QED
    BY <1>4 DEF Schedule, Completed, NoCompletions, t

\* The row a valid creation inserts.
LEMMA NewTaskIsTask ==
    ASSUME NEW q \in Mutations, q.payload \in Patches
    PROVE  /\ NewTask(q) \in Tasks /\ NewTask(q).owner = q.user
           /\ NewTask(q).rev = 1 /\ NewTask(q).gen = q.gen
<1> DEFINE p == q.payload
<1>1. IsPatch(p)
    OBVIOUS
<1>2. NoCompletions \in [Days -> OpIds \union {NoInstant}]
    BY DEF NoCompletions
<1>3. /\ Given(p, "title", "a") \in {"a", "b"}
      /\ Given(p, "due", None) \in Days \union {None}
      /\ Given(p, "time", FALSE) \in BOOLEAN
      /\ Given(p, "rule", None) \in {None, "daily"}
      /\ Given(p, "reminder", None) \in {None, "9am"}
      /\ Given(p, "completions", NoCompletions) \in [Days -> OpIds \union {NoInstant}]
      /\ Given(p, "done", FALSE) \in BOOLEAN
      /\ Given(p, "last", NoInstant) \in OpIds \union {NoInstant}
    BY <1>1, <1>2, GivenIsTyped
<1>4. q.user \in Users /\ q.gen \in Nat /\ 1 \in 1..MaxRevision
    BY DEF Mutations
<1> HIDE DEF p
<1> QED
    BY <1>3, <1>4 DEF NewTask, Tasks, p

\* A new revision number, or the mark of deletion, changes nothing else.
LEMMA OnlyTheRevision ==
    ASSUME NEW r \in Tasks, NEW n \in 1..MaxRevision
    PROVE  LET t == [r EXCEPT !.rev = n] IN
           /\ t \in Tasks /\ t.rev = n
           /\ t.owner = r.owner /\ t.gen = r.gen /\ t.history = r.history
           /\ Schedule(t) = Schedule(r) /\ Active(t) = Active(r)
           /\ ValidSchedule(r) => ValidSchedule(t)
           /\ ValidCompletions(r) => ValidCompletions(t)
<1> DEFINE t == [r EXCEPT !.rev = n]
<1>1. /\ t \in Tasks /\ t.rev = n
      /\ t.owner = r.owner /\ t.gen = r.gen /\ t.history = r.history /\ t.due = r.due
      /\ t.time = r.time /\ t.rule = r.rule /\ t.reminder = r.reminder
      /\ t.completions = r.completions /\ t.done = r.done /\ t.last = r.last
    BY DEF Tasks
<1> HIDE DEF t
<1>2. Schedule(t) = Schedule(r)
    BY <1>1 DEF Schedule
<1>3. Completed(t) = Completed(r)
    BY <1>1 DEF Completed
<1>4. Active(t) = Active(r)
    BY <1>1, <1>3 DEF Active
<1>5. ValidSchedule(r) => ValidSchedule(t)
    BY <1>1 DEF ValidSchedule
<1>6. ValidCompletions(r) => ValidCompletions(t)
    BY <1>1, <1>3 DEF ValidCompletions
<1> QED
    BY <1>1, <1>2, <1>4, <1>5, <1>6 DEF t

\* Equal schedules are equal field by field.
LEMMA ScheduleFields ==
    ASSUME NEW r, NEW s
    PROVE  SameSchedule(r, s) <=> r.due = s.due /\ r.time = s.time /\ r.rule = s.rule
<1>1. Schedule(r) = Schedule(s) => /\ Schedule(r).due = Schedule(s).due
                                   /\ Schedule(r).time = Schedule(s).time
                                   /\ Schedule(r).rule = Schedule(s).rule
    OBVIOUS
<1> QED
    BY <1>1 DEF SameSchedule, Schedule

\* A patch that is accepted makes a coherent row, with the schedule of before
\* or a generation of its own, and forgets no completion it does not name.
LEMMA AfterPatchIsTask ==
    ASSUME NEW r \in Tasks, NEW p \in Patches, ValidPatch(r, p)
    PROVE  LET t == AfterPatch(r, p) IN
           /\ t \in Tasks /\ t.owner = r.owner
           /\ ValidSchedule(t) /\ ValidCompletions(t)
           /\ \/ t.gen = r.gen /\ Schedule(t) = Schedule(r)
              \/ t.gen = r.gen + 1
           /\ r.history \subseteq t.history
           /\ {"completions", "done", "last"} \intersect DOMAIN p = {} =>
                Active(r) \subseteq Active(t) \union t.history
<1> DEFINE s == Patched(r, p)
           t == AfterPatch(r, p)
           u == Rescheduled(r, s)
<1>1. s \in Tasks /\ s.owner = r.owner /\ s.gen = r.gen /\ s.history = r.history /\ s.rev = r.rev
    BY PatchedIsTask
<1>2. ValidSchedule(s) /\ (SameSchedule(r, s) => ValidCompletions(s))
    BY DEF ValidPatch
<1>3. t = IF SameSchedule(r, s) THEN s ELSE u
    BY DEF AfterPatch
<1>4. ASSUME {"completions", "done", "last"} \intersect DOMAIN p = {}
      PROVE  s.completions = r.completions /\ s.done = r.done /\ s.last = r.last
    <2>1. ~Has(p, "completions") /\ ~Has(p, "done") /\ ~Has(p, "last")
        BY <1>4 DEF Has
    <2>2. s.completions = [day \in Days |-> r.completions[day]] /\ s.done = r.done /\ s.last = r.last
        BY <2>1 DEF Patched, Given, Tasks
    <2> QED
        BY <2>2 DEF Tasks
<1> HIDE DEF s, t
<1>5. CASE SameSchedule(r, s)
    <2>1. t = s /\ s.due = r.due /\ s.time = r.time /\ s.rule = r.rule /\ Schedule(s) = Schedule(r)
        BY <1>3, <1>5, ScheduleFields DEF SameSchedule
    <2>2. ASSUME {"completions", "done", "last"} \intersect DOMAIN p = {}
          PROVE  Active(s) = Active(r)
        <3>1. Completed(s) = Completed(r)
            BY <1>4, <2>2 DEF Completed
        <3> QED
            BY <1>4, <2>1, <2>2, <3>1 DEF Active
    <2> QED
        BY <1>1, <1>2, <1>5, <2>1, <2>2 DEF t
<1>6. CASE ~SameSchedule(r, s)
    <2>1. /\ u \in Tasks /\ u.gen = s.gen + 1 /\ u.owner = s.owner /\ u.reminder = s.reminder
          /\ Schedule(u) = Schedule(s) /\ u.history = s.history \union Active(r)
          /\ Completed(u) = {}
        BY <1>1, RescheduledIsTask
    <2>2. t = u
        BY <1>3, <1>6
    <2> HIDE DEF u
    <2>3. u.due = s.due /\ u.time = s.time /\ u.rule = s.rule
        BY <2>1, ScheduleFields DEF SameSchedule
    <2>4. ValidSchedule(u)
        BY <1>2, <2>1, <2>3 DEF ValidSchedule
    <2>5. ValidCompletions(u)
        BY <2>1 DEF ValidCompletions
    <2> QED
        BY <1>1, <2>1, <2>2, <2>4, <2>5 DEF t
<1> QED
    BY <1>5, <1>6

\* Completing or reopening an occurrence keeps the schedule, and what is
\* completed on other days.
LEMMA AfterOccurrenceIsTask ==
    ASSUME NEW r \in Tasks, NEW q \in Mutations, q.kind \in OccurrenceKinds,
           q.payload \in [scheduledAt : Days], MayApplyOccurrence(r, q),
           ValidSchedule(r), ValidCompletions(r)
    PROVE  LET t == AfterOccurrence(r, q) IN
           /\ t \in Tasks /\ t.owner = r.owner /\ t.gen = r.gen /\ t.history = r.history
           /\ Schedule(t) = Schedule(r)
           /\ ValidSchedule(t) /\ ValidCompletions(t)
           /\ \A x \in Active(r) : r.rule # None /\ x.day # q.payload.scheduledAt => x \in Active(t)
<1> DEFINE day == q.payload.scheduledAt
           at == IF q.kind = "complete_occurrence" THEN q.op ELSE NoInstant
           t == AfterOccurrence(r, q)
<1>1. day \in Days /\ at \in OpIds \union {NoInstant} /\ ValidDay(day, r.time)
    BY DEF Mutations, MayApplyOccurrence
<1>2. t = IF r.rule # None THEN [r EXCEPT !.completions[day] = at, !.done = FALSE]
          ELSE [r EXCEPT !.done = (at # NoInstant), !.last = at]
    BY DEF AfterOccurrence
<1> DEFINE days == [r.completions EXCEPT ![day] = at]
<1>3. days \in [Days -> OpIds \union {NoInstant}] /\ days[day] = at
      /\ \A d \in Days \ {day} : days[d] = r.completions[d]
    BY <1>1 DEF Tasks
<1>4. r.rule # None => t = [r EXCEPT !.completions = days, !.done = FALSE]
    BY <1>2
<1> HIDE DEF days, day, at, t
<1>5. /\ t \in Tasks
      /\ t.owner = r.owner /\ t.gen = r.gen /\ t.history = r.history /\ t.due = r.due
      /\ t.time = r.time /\ t.rule = r.rule /\ t.reminder = r.reminder
      /\ t.completions = IF r.rule # None THEN days ELSE r.completions
    <2>1. CASE r.rule # None
        <3>1. t = [r EXCEPT !.completions = days, !.done = FALSE]
            BY <1>4, <2>1
        <3>2. t \in Tasks /\ t.completions = days
            BY <1>3, <3>1 DEF Tasks
        <3>3. /\ t.owner = r.owner /\ t.gen = r.gen /\ t.history = r.history /\ t.due = r.due
              /\ t.time = r.time /\ t.rule = r.rule /\ t.reminder = r.reminder
            BY <3>1 DEF Tasks
        <3> QED
            BY <2>1, <3>2, <3>3
    <2>2. CASE r.rule = None
        BY <1>1, <1>2, <2>2 DEF Tasks
    <2> QED
        BY <2>1, <2>2
<1>6. Schedule(t) = Schedule(r)
    BY <1>5 DEF Schedule
<1>7. ValidSchedule(t)
    BY <1>5 DEF ValidSchedule
<1>8. r.rule # None => \A d \in Days \ {day} : d \in Completed(t) <=> d \in Completed(r)
    BY <1>3, <1>5 DEF Completed
<1>9. ValidCompletions(t)
    <2>1. CASE r.rule # None
        <3>1. \A d \in Completed(t) : d = day \/ d \in Completed(r)
            BY <1>8, <2>1 DEF Completed
        <3> QED
            BY <1>1, <1>5, <2>1, <3>1 DEF ValidCompletions
    <2>2. CASE r.rule = None
        <3>1. Completed(t) = Completed(r)
            BY <1>5, <2>2 DEF Completed
        <3> QED
            BY <1>5, <2>2, <3>1 DEF ValidCompletions
    <2> QED
        BY <2>1, <2>2
<1>10. ASSUME NEW x \in Active(r), r.rule # None, x.day # day
       PROVE  x \in Active(t)
    <2>1. PICK d \in Completed(r) : x = Record(d, r.time, r.completions[d])
        BY <1>10 DEF Active
    <2>2. d \in Days /\ d # day
        BY <1>10, <2>1 DEF Completed, Record
    <2>3. d \in Completed(t) /\ t.completions[d] = r.completions[d]
        BY <1>3, <1>5, <1>8, <1>10, <2>1, <2>2
    <2> QED
        BY <1>5, <1>10, <2>1, <2>3 DEF Active
<1> QED
    BY <1>5, <1>6, <1>7, <1>9, <1>10 DEF t, day

-------------------------------------------------------------------------------
(* The invariant holds initially and every action keeps it.                *)

LEMMA InitInv == Init => TaskInv /\ CompletionsAreKept
<1> SUFFICES ASSUME Init PROVE TaskInv /\ CompletionsAreKept
    OBVIOUS
<1>1. TypeOK
    BY DEF Init, TypeOK, NoSchedule, Schedules
<1>2. Applied = {}
    BY DEF Init, Applied
<1>3. ChangesFollowRevisions /\ RowIsCoherent /\ GenerationsTellSchedules /\ CompletionsAreKept
    BY DEF Init, ChangesFollowRevisions, RowIsCoherent, GenerationsTellSchedules, CompletionsAreKept
<1>4. MutationsAreOwn
    BY DEF Init, MutationsAreOwn
<1>5. NothingBeforeTheRow
    BY <1>2 DEF Init, NothingBeforeTheRow
<1>6. StoredAnswersOnly
    BY DEF Init, StoredAnswersOnly
<1> QED
    BY <1>1, <1>3, <1>4, <1>5, <1>6 DEF TaskInv

\* The types of a mutation under way.
LEMMA NetTypes ==
    ASSUME TaskInv, NEW q \in net
    PROVE  /\ q \in Mutations /\ q.op \in OpIds /\ q.user \in Users /\ q.payload \in Payloads
           /\ q.gen \in Nat
           /\ q.kind \in PatchKinds => q.payload \in Patches
           /\ q.kind \in OccurrenceKinds => q.payload \in [scheduledAt : Days]
<1>1. q \in Mutations
    BY DEF TaskInv, TypeOK
<1>2. /\ q.kind \in PatchKinds => q.payload \in Patches
      /\ q.kind \in OccurrenceKinds => q.payload \in [scheduledAt : Days]
    BY DEF TaskInv, MutationsAreOwn
<1>3. q.op \in OpIds /\ q.user \in Users /\ q.payload \in Payloads /\ q.gen \in Nat
    BY <1>1 DEF Mutations
<1> QED
    BY <1>1, <1>2, <1>3

\* A coherent row that commits with its operation and its change, under the
\* generation and schedule of before or a new generation, keeps the invariant.
LEMMA PersistStep ==
    ASSUME TaskInv, NEW q \in net, NEW r \in Tasks, NEW kind \in {"task_changed", "task_deleted"},
           ~Known(q), PersistMutation(q, r, kind),
           r.owner = q.user, ValidSchedule(r), ValidCompletions(r),
           row = NoTask => r.rev = 1 /\ r.gen = 0,
           row # NoTask => /\ r.rev = row.rev + 1 /\ row.owner = q.user
                           /\ \/ r.gen = row.gen /\ Schedule(r) = Schedule(row)
                              \/ r.gen = row.gen + 1,
           inserting' \subseteq inserting, owed' \subseteq Records,
           UNCHANGED <<net, view>>
    PROVE  TaskInv'
<1> DEFINE entry == [payload |-> q.payload, answer |-> r]
           change == [user |-> q.user, kind |-> kind, rev |-> r.rev]
<1>1. /\ row' = r /\ ops' = [ops EXCEPT ![q.op] = entry]
      /\ changes' = Append(changes, change)
      /\ answers' = [answers EXCEPT ![q.op] = @ \union {r}]
    BY DEF PersistMutation, InsertTaskOperation, InsertTaskSyncChange
<1>2. /\ q.op \in OpIds /\ q.user \in Users /\ q.payload \in Payloads
      /\ r.rev \in 1..MaxRevision /\ r.gen \in Nat
    BY NetTypes DEF Tasks
<1>3. entry \in [payload : Payloads, answer : Tasks] /\ entry # NoOp
    BY <1>2, NotNothing
<1>4. change \in [user : Users, kind : {"task_changed", "task_deleted"}, rev : 1..MaxRevision]
    BY <1>2
<1>5. r # NoTask /\ row' # NoTask
    BY <1>1, NotNothing
<1>6. TypeOK
    BY DEF TaskInv
<1>7. ops[q.op] = NoOp
    BY DEF Known
<1> HIDE DEF entry
<1>8. TypeOK'
    <2>1. row' \in Tasks \union {NoTask}
        BY <1>1
    <2>2. ops' \in [OpIds -> [payload : Payloads, answer : Tasks] \union {NoOp}]
        BY <1>1, <1>3, <1>6 DEF TypeOK
    <2>3. changes' \in Seq([user : Users, kind : {"task_changed", "task_deleted"},
                            rev : 1..MaxRevision])
        <3> HIDE DEF change
        <3> QED
            BY <1>1, <1>4, <1>6 DEF TypeOK
    <2>4. answers' \in [OpIds -> SUBSET Tasks]
        BY <1>1, <1>2, <1>6 DEF TypeOK
    <2>5. net' \subseteq Mutations /\ inserting' \subseteq net'
        BY <1>6 DEF TypeOK
    <2>6. view' \in [Devices -> [gen : Nat, seen : Schedules]]
        BY <1>6 DEF TypeOK
    <2> QED
        BY <2>1, <2>2, <2>3, <2>4, <2>5, <2>6 DEF TypeOK
<1>9. ops' \in [OpIds -> [payload : Payloads, answer : Tasks] \union {NoOp}]
      /\ \A o \in OpIds : ops'[o] = IF o = q.op THEN entry ELSE ops[o]
    BY <1>1, <1>6, <1>8 DEF TypeOK
<1>10. ChangesFollowRevisions'
    <2>1. Applied' = Applied \union {q.op} /\ q.op \notin Applied
        <3>1. q.op \notin Applied
            BY <1>7 DEF Applied
        <3>2. \A o \in OpIds : ops'[o] # NoOp <=> o = q.op \/ ops[o] # NoOp
            BY <1>3, <1>9
        <3> QED
            BY <1>2, <3>1, <3>2 DEF Applied
    <2>2. /\ changes \in Seq([user : Users, kind : {"task_changed", "task_deleted"},
                              rev : 1..MaxRevision])
          /\ Len(changes') = Len(changes) + 1 /\ changes'[Len(changes) + 1] = change
          /\ \A i \in 1..Len(changes) : changes'[i] = changes[i]
        <3> HIDE DEF change
        <3> QED
            BY <1>1, <1>4, <1>6 DEF TypeOK
    <2>3. /\ IsFiniteSet(Applied) /\ r.rev = Cardinality(Applied) + 1
          /\ Len(changes) + 1 = r.rev
          /\ \A i \in 1..Len(changes) : changes[i].rev = i /\ changes[i].user = q.user
        <3>1. CASE row = NoTask
            <4>1. Applied = {} /\ changes = <<>>
                BY <3>1 DEF TaskInv, NothingBeforeTheRow
            <4> QED
                BY <3>1, <4>1, FS_EmptySet
        <3>2. CASE row # NoTask
            BY <3>2 DEF TaskInv, ChangesFollowRevisions
        <3> QED
            BY <3>1, <3>2
    <2>4. IsFiniteSet(Applied') /\ Cardinality(Applied') = r.rev
        BY <2>1, <2>3, FS_AddElement
    <2>5. \A i \in 1..Len(changes') : changes'[i].rev = i /\ changes'[i].user = q.user
        <3> SUFFICES ASSUME NEW i \in 1..Len(changes')
                     PROVE  changes'[i].rev = i /\ changes'[i].user = q.user
            OBVIOUS
        <3>1. CASE i = Len(changes) + 1
            BY <2>2, <2>3, <3>1
        <3>2. CASE i # Len(changes) + 1
            <4>1. i \in 1..Len(changes)
                BY <2>2, <3>2
            <4> QED
                BY <2>2, <2>3, <4>1
        <3> QED
            BY <3>1, <3>2
    <2> QED
        BY <1>1, <2>2, <2>3, <2>4, <2>5 DEF ChangesFollowRevisions
<1>11. RowIsCoherent'
    BY <1>1 DEF RowIsCoherent
<1>12. MutationsAreOwn'
    BY DEF TaskInv, MutationsAreOwn
<1>13. NothingBeforeTheRow'
    BY <1>5 DEF NothingBeforeTheRow
<1>14. StoredAnswersOnly'
    <2> SUFFICES ASSUME NEW o \in OpIds
                 PROVE  answers'[o] = IF ops'[o] = NoOp THEN {} ELSE {ops'[o].answer}
        BY DEF StoredAnswersOnly
    <2>1. answers[o] = IF ops[o] = NoOp THEN {} ELSE {ops[o].answer}
        BY DEF TaskInv, StoredAnswersOnly
    <2>2. CASE o = q.op
        <3>1. answers'[o] = {r}
            BY <1>1, <1>2, <1>6, <1>7, <2>1, <2>2 DEF TypeOK
        <3>2. ops'[o] = entry /\ entry.answer = r
            BY <1>2, <1>9, <2>2 DEF entry
        <3> QED
            BY <1>3, <3>1, <3>2
    <2>3. CASE o # q.op
        BY <1>1, <1>6, <1>9, <2>1, <2>3 DEF TypeOK
    <2> QED
        BY <2>2, <2>3
<1>15. GenerationsTellSchedules'
    <2>1. ASSUME NEW v, v.gen \in Nat,
                 IF row = NoTask THEN v.gen = 0 /\ v.seen.due = None ELSE SeenBefore(v)
          PROVE  SeenBefore(v)'
        <3>1. CASE row = NoTask
            BY <1>1, <2>1, <3>1 DEF SeenBefore
        <3>2. CASE row # NoTask
            <4>1. row.gen \in Nat
                BY <1>6, <3>2 DEF TypeOK, Tasks
            <4>2. v.gen <= row.gen /\ (v.gen = row.gen /\ v.seen.due # None => v.seen = Schedule(row))
                BY <2>1, <3>2 DEF SeenBefore
            <4> QED
                BY <1>1, <2>1, <3>2, <4>1, <4>2 DEF SeenBefore
        <3> QED
            BY <3>1, <3>2
    <2>2. ASSUME NEW d \in Devices
          PROVE  view'[d].gen \in Nat /\ SeenBefore(view[d])'
        <3>1. view[d].gen \in Nat
            BY <1>6 DEF TypeOK
        <3>2. IF row = NoTask THEN view[d].gen = 0 /\ view[d].seen.due = None ELSE SeenBefore(view[d])
            BY DEF TaskInv, NothingBeforeTheRow, NoSchedule, GenerationsTellSchedules
        <3>3. view'[d] = view[d]
            OBVIOUS
        <3> QED
            BY <1>1, <2>1, <3>1, <3>2, <3>3 DEF SeenBefore
    <2>3. ASSUME NEW m \in net
          PROVE  SeenBefore(m)'
        <3>1. m.gen \in Nat
            BY NetTypes
        <3>2. IF row = NoTask THEN m.gen = 0 /\ m.seen.due = None ELSE SeenBefore(m)
            BY DEF TaskInv, NothingBeforeTheRow, NoSchedule, GenerationsTellSchedules
        <3> QED
            BY <2>1, <3>1, <3>2
    <2> QED
        BY <2>2, <2>3 DEF GenerationsTellSchedules
<1> QED
    BY <1>8, <1>10, <1>11, <1>12, <1>13, <1>14, <1>15 DEF TaskInv

\* A replayed mutation is given the stored answer, and nothing else changes.
LEMMA ReplayStep ==
    ASSUME TaskInv, CompletionsAreKept, NEW q \in net, Replay(q),
           inserting' \subseteq inserting, UNCHANGED <<net, view>>
    PROVE  TaskInv' /\ CompletionsAreKept'
<1>1. /\ q.op \in OpIds /\ ops[q.op] # NoOp
      /\ answers' = [answers EXCEPT ![q.op] = @ \union {ops[q.op].answer}]
      /\ UNCHANGED <<row, ops, changes, owed>>
    BY NetTypes DEF Replay, Known, tables
<1>2. ops[q.op].answer \in Tasks
    BY <1>1 DEF TaskInv, TypeOK
<1>3. answers' = answers
    <2>1. answers[q.op] = {ops[q.op].answer}
        BY <1>1 DEF TaskInv, StoredAnswersOnly
    <2>2. answers \in [OpIds -> SUBSET Tasks]
        BY DEF TaskInv, TypeOK
    <2> QED
        BY <1>1, <2>1, <2>2
<1>4. TypeOK'
    BY <1>1, <1>3 DEF TaskInv, TypeOK
<1>5. Applied' = Applied
    BY <1>1 DEF Applied
<1>6. ChangesFollowRevisions' /\ RowIsCoherent' /\ StoredAnswersOnly' /\ CompletionsAreKept'
    BY <1>1, <1>3, <1>5 DEF TaskInv, ChangesFollowRevisions, RowIsCoherent, StoredAnswersOnly,
                            CompletionsAreKept
<1>7. MutationsAreOwn'
    BY DEF TaskInv, MutationsAreOwn
<1>8. NothingBeforeTheRow' /\ GenerationsTellSchedules'
    BY <1>1, <1>5 DEF TaskInv, NothingBeforeTheRow, GenerationsTellSchedules, SeenBefore
<1> QED
    BY <1>4, <1>6, <1>7, <1>8 DEF TaskInv

\* An accepted occurrence, deletion or patch of the row.
LEMMA OccurrenceStep ==
    ASSUME TaskInv, CompletionsAreKept, NEW q \in net, Exists(q), ~Known(q), ApplyOccurrence(q),
           inserting' \subseteq inserting, UNCHANGED <<net, view>>
    PROVE  TaskInv' /\ CompletionsAreKept'
<1> DEFINE t == AfterOccurrence(row, q)
           r == [t EXCEPT !.rev = row.rev + 1]
<1>1. row # NoTask /\ row \in Tasks /\ row.owner = q.user
    BY DEF Exists, TaskInv, TypeOK
<1>2. /\ q \in Mutations /\ q.payload \in [scheduledAt : Days] /\ q.kind \in OccurrenceKinds
      /\ MayApplyOccurrence(row, q)
    BY NetTypes DEF ApplyOccurrence
<1>3. ValidSchedule(row) /\ ValidCompletions(row)
    BY <1>1 DEF TaskInv, RowIsCoherent
<1>4. /\ t \in Tasks /\ t.owner = row.owner /\ t.gen = row.gen /\ t.history = row.history
      /\ Schedule(t) = Schedule(row)
      /\ ValidSchedule(t) /\ ValidCompletions(t)
      /\ \A x \in Active(row) : row.rule # None /\ x.day # q.payload.scheduledAt => x \in Active(t)
    BY <1>1, <1>2, <1>3, AfterOccurrenceIsTask
<1>5. /\ row.rev < MaxRevision /\ PersistMutation(q, r, "task_changed")
      /\ owed' = (owed \ TakenBack(q)) \union (Active(t) \ Active(row))
    BY DEF ApplyOccurrence, UpdateTask
<1> HIDE DEF t
<1>6. row.rev + 1 \in 1..MaxRevision
    BY <1>1, <1>5 DEF Tasks
<1>7. /\ r \in Tasks /\ r.rev = row.rev + 1
      /\ r.owner = t.owner /\ r.gen = t.gen /\ r.history = t.history
      /\ Schedule(r) = Schedule(t) /\ Active(r) = Active(t)
      /\ ValidSchedule(r) /\ ValidCompletions(r)
    BY <1>4, <1>6, OnlyTheRevision
<1> HIDE DEF r
<1>8. Active(t) \subseteq Records /\ owed \subseteq Records
    BY <1>4, ActiveAreRecords DEF TaskInv, TypeOK
<1>9. owed' \subseteq Records
    BY <1>5, <1>8
<1>10. TaskInv'
    BY <1>1, <1>4, <1>5, <1>7, <1>9, PersistStep
<1>11. row' = r
    BY <1>5 DEF PersistMutation
<1>12. ASSUME NEW x \in owed \ TakenBack(q)
       PROVE  x \in Active(t) \union t.history
    <2>1. x \in Active(row) \union row.history
        BY <1>1 DEF CompletionsAreKept
    <2>2. CASE x \in row.history
        BY <1>4, <2>2
    <2>3. CASE x \in Active(row)
        <3>1. row.rule # None /\ x.day # q.payload.scheduledAt
            BY <1>2, <2>3 DEF TakenBack
        <3> QED
            BY <1>4, <2>3, <3>1
    <2> QED
        BY <2>1, <2>2, <2>3
<1>13. CompletionsAreKept'
    BY <1>5, <1>7, <1>11, <1>12 DEF CompletionsAreKept
<1> QED
    BY <1>10, <1>13

LEMMA DeleteStep ==
    ASSUME TaskInv, CompletionsAreKept, NEW q \in net, Exists(q), ~Known(q), ApplyDelete(q),
           inserting' \subseteq inserting, UNCHANGED <<net, view>>
    PROVE  TaskInv' /\ CompletionsAreKept'
<1> DEFINE t == [row EXCEPT !.deleted = TRUE]
           r == [t EXCEPT !.rev = row.rev + 1]
<1>1. row # NoTask /\ row \in Tasks /\ row.owner = q.user
    BY DEF Exists, TaskInv, TypeOK
<1>2. ValidSchedule(row) /\ ValidCompletions(row)
    BY <1>1 DEF TaskInv, RowIsCoherent
<1>3. /\ t \in Tasks /\ t.owner = row.owner /\ t.gen = row.gen /\ t.history = row.history
      /\ t.due = row.due /\ t.time = row.time /\ t.rule = row.rule /\ t.reminder = row.reminder
      /\ t.completions = row.completions /\ t.done = row.done /\ t.last = row.last
    BY <1>1 DEF Tasks
<1>4. row.rev < MaxRevision /\ PersistMutation(q, r, "task_deleted") /\ owed' = owed
    BY DEF ApplyDelete, UpdateTask
<1> HIDE DEF t
<1>5. Schedule(t) = Schedule(row) /\ Completed(t) = Completed(row)
    BY <1>3 DEF Schedule, Completed
<1>6. Active(t) = Active(row) /\ ValidSchedule(t) /\ ValidCompletions(t)
    BY <1>2, <1>3, <1>5 DEF Active, ValidSchedule, ValidCompletions
<1>7. row.rev + 1 \in 1..MaxRevision
    BY <1>1, <1>4 DEF Tasks
<1>8. /\ r \in Tasks /\ r.rev = row.rev + 1
      /\ r.owner = t.owner /\ r.gen = t.gen /\ r.history = t.history
      /\ Schedule(r) = Schedule(t) /\ Active(r) = Active(t)
      /\ ValidSchedule(r) /\ ValidCompletions(r)
    BY <1>3, <1>6, <1>7, OnlyTheRevision
<1> HIDE DEF r
<1>9. owed' \subseteq Records
    BY <1>4 DEF TaskInv, TypeOK
<1>10. TaskInv'
    BY <1>1, <1>3, <1>4, <1>5, <1>8, <1>9, PersistStep
<1>11. CompletionsAreKept'
    BY <1>1, <1>3, <1>4, <1>6, <1>8 DEF CompletionsAreKept, PersistMutation
<1> QED
    BY <1>10, <1>11

LEMMA PatchStep ==
    ASSUME TaskInv, CompletionsAreKept, NEW q \in net, Exists(q), ~Known(q), ApplyPatch(q),
           inserting' \subseteq inserting, UNCHANGED <<net, view>>
    PROVE  TaskInv' /\ CompletionsAreKept'
<1> DEFINE p == q.payload
           t == AfterPatch(row, p)
           r == [t EXCEPT !.rev = row.rev + 1]
<1>1. row # NoTask /\ row \in Tasks /\ row.owner = q.user
    BY DEF Exists, TaskInv, TypeOK
<1>2. q.kind \in PatchKinds /\ q.kind \notin OccurrenceKinds /\ p \in Patches /\ ValidPatch(row, p)
    BY NetTypes DEF ApplyPatch, PatchKinds, OccurrenceKinds
<1>3. /\ t \in Tasks /\ t.owner = row.owner
      /\ ValidSchedule(t) /\ ValidCompletions(t)
      /\ \/ t.gen = row.gen /\ Schedule(t) = Schedule(row)
         \/ t.gen = row.gen + 1
      /\ row.history \subseteq t.history
      /\ {"completions", "done", "last"} \intersect DOMAIN p = {} =>
           Active(row) \subseteq Active(t) \union t.history
    BY <1>1, <1>2, AfterPatchIsTask
<1>4. /\ row.rev < MaxRevision /\ PersistMutation(q, r, "task_changed")
      /\ owed' = owed \ TakenBack(q)
    BY DEF ApplyPatch, UpdateTask
<1> HIDE DEF t
<1>5. row.rev + 1 \in 1..MaxRevision
    BY <1>1, <1>4 DEF Tasks
<1>6. /\ r \in Tasks /\ r.rev = row.rev + 1
      /\ r.owner = t.owner /\ r.gen = t.gen /\ r.history = t.history
      /\ Schedule(r) = Schedule(t) /\ Active(r) = Active(t)
      /\ ValidSchedule(r) /\ ValidCompletions(r)
    BY <1>3, <1>5, OnlyTheRevision
<1> HIDE DEF r
<1>7. owed' \subseteq Records
    BY <1>4 DEF TaskInv, TypeOK
<1>8. TaskInv'
    BY <1>1, <1>3, <1>4, <1>6, <1>7, PersistStep
<1>9. ASSUME NEW x \in owed \ TakenBack(q)
      PROVE  x \in Active(t) \union t.history
    <2>1. x \in Active(row) \union row.history
        BY <1>1 DEF CompletionsAreKept
    <2>2. CASE x \in row.history
        BY <1>3, <2>2
    <2>3. CASE x \in Active(row)
        <3>1. {"completions", "done", "last"} \intersect DOMAIN p = {}
            BY <1>2, <2>3 DEF TakenBack
        <3> QED
            BY <1>3, <2>3, <3>1
    <2> QED
        BY <2>1, <2>2, <2>3
<1>10. CompletionsAreKept'
    BY <1>4, <1>6, <1>9 DEF CompletionsAreKept, PersistMutation
<1> QED
    BY <1>8, <1>10

LEMMA ApplyToRowStep ==
    ASSUME TaskInv, CompletionsAreKept, NEW q \in net, Exists(q), ApplyToRow(q),
           inserting' \subseteq inserting, UNCHANGED <<net, view>>
    PROVE  TaskInv' /\ CompletionsAreKept'
BY ReplayStep, OccurrenceStep, DeleteStep, PatchStep DEF ApplyToRow

LEMMA ApplyStep ==
    ASSUME TaskInv, CompletionsAreKept, NEW q \in net, Apply(q)
    PROVE  TaskInv' /\ CompletionsAreKept'
BY ApplyToRowStep DEF Apply

\* What leaves the row, its tables and the answers alone keeps what is said of
\* them.
LEMMA TablesUntouched ==
    ASSUME TaskInv, CompletionsAreKept, UNCHANGED <<tables, answers, owed>>
    PROVE  /\ ChangesFollowRevisions' /\ RowIsCoherent' /\ StoredAnswersOnly'
           /\ CompletionsAreKept' /\ Applied' = Applied
<1>1. Applied' = Applied
    BY DEF Applied, tables
<1> QED
    BY <1>1 DEF TaskInv, ChangesFollowRevisions, RowIsCoherent, StoredAnswersOnly,
                CompletionsAreKept, tables

LEMMA FindNoRowStep ==
    ASSUME TaskInv, CompletionsAreKept, NEW q \in net, FindNoRow(q)
    PROVE  TaskInv' /\ CompletionsAreKept'
<1>1. /\ inserting' = inserting \union {q}
      /\ UNCHANGED <<tables, net, answers, view, owed>>
      /\ q.kind \in {"create", "upsert"} /\ ValidSchedule(NewTask(q)) /\ ValidCompletions(NewTask(q))
    BY DEF FindNoRow
<1>2. TypeOK'
    BY <1>1 DEF TaskInv, TypeOK, tables
<1>3. MutationsAreOwn'
    BY <1>1 DEF TaskInv, MutationsAreOwn
<1>4. /\ ChangesFollowRevisions' /\ RowIsCoherent' /\ StoredAnswersOnly'
      /\ CompletionsAreKept' /\ Applied' = Applied
    BY <1>1, TablesUntouched
<1>5. NothingBeforeTheRow' /\ GenerationsTellSchedules'
    BY <1>1, <1>4 DEF TaskInv, NothingBeforeTheRow, GenerationsTellSchedules, SeenBefore, tables
<1> QED
    BY <1>2, <1>3, <1>4, <1>5 DEF TaskInv

LEMMA InsertTaskStep ==
    ASSUME TaskInv, CompletionsAreKept, NEW q \in net, InsertTask(q)
    PROVE  TaskInv' /\ CompletionsAreKept'
<1>1. q \in inserting /\ inserting' \subseteq inserting /\ UNCHANGED <<net, view>>
    BY DEF InsertTask
<1>2. CASE row = NoTask /\ PersistMutation(q, NewTask(q), "task_changed") /\ UNCHANGED owed
    <2>1. /\ q.kind \in PatchKinds
          /\ ValidSchedule(NewTask(q)) /\ ValidCompletions(NewTask(q))
        BY <1>1 DEF TaskInv, MutationsAreOwn, PatchKinds
    <2>2. q \in Mutations /\ q.payload \in Patches /\ q.op \in OpIds
        BY <2>1, NetTypes
    <2>3. /\ NewTask(q) \in Tasks /\ NewTask(q).owner = q.user
          /\ NewTask(q).rev = 1 /\ NewTask(q).gen = q.gen
        BY <2>2, NewTaskIsTask
    <2>4. Applied = {} /\ owed = {} /\ q.gen = 0
        BY <1>2 DEF TaskInv, NothingBeforeTheRow
    <2>5. ~Known(q)
        BY <2>2, <2>4 DEF Known, Applied
    <2>6. TaskInv'
        BY <1>1, <1>2, <2>1, <2>3, <2>4, <2>5, PersistStep
    <2>7. CompletionsAreKept'
        BY <1>2, <2>4 DEF CompletionsAreKept
    <2> QED
        BY <2>6, <2>7
<1>3. CASE Exists(q) /\ ApplyToRow(q)
    BY <1>1, <1>3, ApplyToRowStep
<1>4. CASE UNCHANGED <<tables, answers, owed>>
    <2>1. TypeOK'
        BY <1>1, <1>4 DEF TaskInv, TypeOK, tables
    <2>2. MutationsAreOwn'
        BY <1>1 DEF TaskInv, MutationsAreOwn
    <2>3. /\ ChangesFollowRevisions' /\ RowIsCoherent' /\ StoredAnswersOnly'
          /\ CompletionsAreKept' /\ Applied' = Applied
        BY <1>4, TablesUntouched
    <2>4. NothingBeforeTheRow' /\ GenerationsTellSchedules'
        BY <1>1, <1>4, <2>3 DEF TaskInv, NothingBeforeTheRow, GenerationsTellSchedules,
                                SeenBefore, tables
    <2> QED
        BY <2>1, <2>2, <2>3, <2>4 DEF TaskInv
<1> QED
    BY <1>2, <1>3, <1>4 DEF InsertTask

LEMMA ReadStep ==
    ASSUME TaskInv, CompletionsAreKept, NEW d \in Devices, Read(d)
    PROVE  TaskInv' /\ CompletionsAreKept'
<1> DEFINE v == [gen |-> row.gen, seen |-> Schedule(row)]
<1>1. /\ row # NoTask /\ view' = [view EXCEPT ![d] = v]
      /\ UNCHANGED <<tables, net, inserting, answers, owed>>
    BY DEF Read
<1>2. row \in Tasks
    BY <1>1 DEF TaskInv, TypeOK
<1>3. v \in [gen : Nat, seen : Schedules] /\ SeenBefore(v)
    BY <1>2 DEF Tasks, Schedule, Schedules, SeenBefore
<1> HIDE DEF v
<1>4. TypeOK'
    BY <1>1, <1>3 DEF TaskInv, TypeOK, tables
<1>5. \A e \in Devices : view'[e] = IF e = d THEN v ELSE view[e]
    BY <1>1 DEF TaskInv, TypeOK
<1>6. MutationsAreOwn' /\ NothingBeforeTheRow'
    BY <1>1 DEF TaskInv, MutationsAreOwn, NothingBeforeTheRow, tables
<1>7. GenerationsTellSchedules'
    <2>1. \A e \in Devices : SeenBefore(view[e])
        BY <1>1 DEF TaskInv, GenerationsTellSchedules
    <2>2. \A e \in Devices : SeenBefore(view[e])'
        BY <1>1, <1>3, <1>5, <2>1 DEF SeenBefore, tables
    <2>3. \A m \in net' : SeenBefore(m)'
        BY <1>1 DEF TaskInv, GenerationsTellSchedules, SeenBefore, tables
    <2> QED
        BY <2>2, <2>3 DEF GenerationsTellSchedules
<1>8. /\ ChangesFollowRevisions' /\ RowIsCoherent' /\ StoredAnswersOnly'
      /\ CompletionsAreKept'
    BY <1>1, TablesUntouched
<1> QED
    BY <1>4, <1>6, <1>7, <1>8 DEF TaskInv

\* A mutation that is sent carries what its device has seen.
LEMMA SendStep ==
    ASSUME TaskInv, CompletionsAreKept,
           NEW d \in Devices, NEW u \in Users, NEW o \in OpIds, NEW kind, NEW payload,
           \/ kind \in PatchKinds /\ payload \in Patches
           \/ kind \in OccurrenceKinds /\ payload \in [scheduledAt : Days]
                /\ view[d].seen.due # None
           \/ kind = "delete" /\ payload = <<>>,
           Send(Mutation(d, u, o, kind, payload))
    PROVE  TaskInv' /\ CompletionsAreKept'
<1> DEFINE q == Mutation(d, u, o, kind, payload)
<1>1. view[d].gen \in Nat /\ view[d].seen \in Schedules
    BY DEF TaskInv, TypeOK
<1>2. kind \in PatchKinds \union OccurrenceKinds \union {"delete"} /\ payload \in Payloads
    BY DEF Payloads
<1>3. /\ q \in Mutations /\ q.op = o /\ q.kind = kind /\ q.payload = payload
      /\ q.gen = view[d].gen /\ q.seen = view[d].seen
    BY <1>1, <1>2 DEF Mutation, Mutations
<1>4. /\ \A m \in net : m.op < q.op
      /\ net' = net \union {q}
      /\ UNCHANGED <<tables, inserting, answers, view, owed>>
    BY DEF Send
<1> HIDE DEF q
<1>5. TypeOK'
    BY <1>3, <1>4 DEF TaskInv, TypeOK, tables
<1>6. MutationsAreOwn'
    <2>1. /\ q.kind \in PatchKinds => q.payload \in Patches
          /\ q.kind \in OccurrenceKinds => q.payload \in [scheduledAt : Days] /\ q.seen.due # None
        BY <1>3 DEF PatchKinds, OccurrenceKinds
    <2>2. \A m \in net : m.op # q.op
        <3> TAKE m \in net
        <3>1. m.op \in OpIds
            BY NetTypes
        <3> QED
            BY <1>3, <1>4, <3>1
    <2> QED
        BY <1>4, <2>1, <2>2 DEF TaskInv, MutationsAreOwn
<1>7. /\ ChangesFollowRevisions' /\ RowIsCoherent' /\ StoredAnswersOnly'
      /\ CompletionsAreKept' /\ Applied' = Applied
    BY <1>4, TablesUntouched
<1>8. NothingBeforeTheRow'
    BY <1>3, <1>4, <1>7 DEF TaskInv, NothingBeforeTheRow, tables
<1>9. GenerationsTellSchedules'
    BY <1>3, <1>4 DEF TaskInv, GenerationsTellSchedules, SeenBefore, tables
<1> QED
    BY <1>5, <1>6, <1>7, <1>8, <1>9 DEF TaskInv

LEMMA NextStep ==
    ASSUME TaskInv, CompletionsAreKept, Next
    PROVE  TaskInv' /\ CompletionsAreKept'
<1>1. CASE \E q \in net : Apply(q) \/ FindNoRow(q) \/ InsertTask(q)
    BY <1>1, ApplyStep, FindNoRowStep, InsertTaskStep
<1>2. ASSUME NEW d \in Devices, Read(d)
      PROVE  TaskInv' /\ CompletionsAreKept'
    BY <1>2, ReadStep
<1>3. ASSUME NEW d \in Devices, NEW u \in Users, NEW o \in OpIds,
             \/ \E k \in PatchKinds, p \in Patches : Send(Mutation(d, u, o, k, p))
             \/ \E k \in OccurrenceKinds, day \in Days :
                   /\ view[d].seen.due # None
                   /\ Send(Mutation(d, u, o, k, [scheduledAt |-> day]))
             \/ Send(Mutation(d, u, o, "delete", <<>>))
      PROVE  TaskInv' /\ CompletionsAreKept'
    <2>1. ASSUME NEW k \in PatchKinds, NEW p \in Patches, Send(Mutation(d, u, o, k, p))
          PROVE  TaskInv' /\ CompletionsAreKept'
        BY <2>1, SendStep
    <2>2. ASSUME NEW k \in OccurrenceKinds, NEW day \in Days, view[d].seen.due # None,
                 Send(Mutation(d, u, o, k, [scheduledAt |-> day]))
          PROVE  TaskInv' /\ CompletionsAreKept'
        <3>1. [scheduledAt |-> day] \in [scheduledAt : Days]
            OBVIOUS
        <3> QED
            BY <2>2, <3>1, SendStep
    <2>3. CASE Send(Mutation(d, u, o, "delete", <<>>))
        BY <2>3, SendStep
    <2> QED
        BY <1>3, <2>1, <2>2, <2>3
<1> QED
    BY <1>1, <1>2, <1>3 DEF Next

LEMMA StutterStep ==
    ASSUME TaskInv, CompletionsAreKept, UNCHANGED vars
    PROVE  TaskInv' /\ CompletionsAreKept'
<1>1. /\ ChangesFollowRevisions' /\ RowIsCoherent' /\ StoredAnswersOnly'
      /\ CompletionsAreKept' /\ Applied' = Applied
    BY TablesUntouched DEF vars
<1>2. TypeOK'
    BY DEF TaskInv, TypeOK, vars, tables
<1>3. MutationsAreOwn'
    BY DEF TaskInv, MutationsAreOwn, vars
<1>4. NothingBeforeTheRow' /\ GenerationsTellSchedules'
    BY <1>1 DEF TaskInv, NothingBeforeTheRow, GenerationsTellSchedules, SeenBefore, vars, tables
<1> QED
    BY <1>1, <1>2, <1>3, <1>4 DEF TaskInv

-------------------------------------------------------------------------------
(* The theorems.                                                           *)

LEMMA BothHold == Spec => [](TaskInv /\ CompletionsAreKept)
<1>1. TaskInv /\ CompletionsAreKept /\ [Next]_vars => (TaskInv /\ CompletionsAreKept)'
    BY NextStep, StutterStep
<1> QED
    BY InitInv, <1>1, PTL DEF Spec

\* The row, the operation table and the feed agree at every moment, and so do
\* the mutations under way, however late, often or concurrently they come.
THEOREM TaskInvariant == Spec => []TaskInv
BY BothHold, PTL

\* A mutation is answered with one answer, however often it is delivered and
\* whatever happened to the task in between.
THEOREM MutationsAreAnsweredOnce == Spec => []AnsweredOnce
<1>1. TaskInv => AnsweredOnce
    <2> SUFFICES ASSUME TaskInv, NEW o \in OpIds PROVE Cardinality(answers[o]) <= 1
        BY DEF AnsweredOnce
    <2>1. answers[o] = {} \/ answers[o] = {ops[o].answer}
        BY DEF TaskInv, StoredAnswersOnly
    <2>2. Cardinality({}) = 0 /\ Cardinality({ops[o].answer}) = 1
        BY FS_EmptySet, FS_Singleton
    <2> QED
        BY <2>1, <2>2
<1> QED
    BY <1>1, TaskInvariant, PTL

\* No change of schedule, late mutation or race of creations loses an accepted
\* completion that nobody took back.
THEOREM CompletionsSurvive == Spec => []CompletionsAreKept
BY BothHold, PTL

\* An occurrence is completed or reopened only on the schedule that the device
\* had seen when it sent the mutation.
THEOREM OccurrencesLandOnTheirSchedule == Spec => CompletesWhatWasSeen
<1>1. ASSUME TaskInv, [Next]_vars, NEW q \in net, q.kind \in OccurrenceKinds, ops[q.op] # ops'[q.op]
      PROVE  q.seen = Schedule(row)
    <2>1. q.op \in OpIds /\ ops \in [OpIds -> [payload : Payloads, answer : Tasks] \union {NoOp}]
        BY <1>1, NetTypes DEF TaskInv, TypeOK
    <2>2. ASSUME NEW m \in net, NEW r, NEW kind, PersistMutation(m, r, kind)
          PROVE  m = q
        <3>1. m.op = q.op
            BY <1>1, <2>1, <2>2 DEF PersistMutation, InsertTaskOperation
        <3> QED
            BY <1>1, <3>1 DEF TaskInv, MutationsAreOwn
    <2>3. ASSUME NEW m \in net, Exists(m), ApplyToRow(m)
          PROVE  q.seen = Schedule(row)
        <3>1. CASE Replay(m)
            BY <1>1, <3>1 DEF Replay, tables
        <3>2. CASE ApplyOccurrence(m)
            <4>1. m = q
                BY <2>2, <3>2 DEF ApplyOccurrence, UpdateTask
            <4>2. q.gen = row.gen /\ q.seen.due # None /\ row # NoTask
                BY <1>1, <2>3, <3>2, <4>1 DEF ApplyOccurrence, Exists, TaskInv, MutationsAreOwn
            <4> QED
                BY <1>1, <4>2 DEF TaskInv, GenerationsTellSchedules, SeenBefore
        <3>3. CASE ApplyDelete(m) \/ ApplyPatch(m)
            <4>1. m = q
                BY <2>2, <3>3 DEF ApplyDelete, ApplyPatch, UpdateTask
            <4> QED
                BY <1>1, <3>3, <4>1 DEF ApplyDelete, ApplyPatch, OccurrenceKinds
        <3> QED
            BY <2>3, <3>1, <3>2, <3>3 DEF ApplyToRow
    <2>4. ASSUME NEW m \in net, Apply(m) \/ FindNoRow(m) \/ InsertTask(m)
          PROVE  q.seen = Schedule(row)
        <3>1. CASE Apply(m)
            BY <2>3, <3>1 DEF Apply
        <3>2. CASE FindNoRow(m)
            BY <1>1, <3>2 DEF FindNoRow, tables
        <3>3. CASE InsertTask(m)
            <4>1. CASE PersistMutation(m, NewTask(m), "task_changed")
                <5>1. m = q /\ m \in inserting
                    BY <2>2, <3>3, <4>1 DEF InsertTask
                <5> QED
                    BY <1>1, <5>1 DEF TaskInv, MutationsAreOwn, OccurrenceKinds
            <4>2. CASE UNCHANGED <<tables, answers, owed>>
                BY <1>1, <4>2 DEF tables
            <4> QED
                BY <2>3, <3>3, <4>1, <4>2 DEF InsertTask
        <3> QED
            BY <2>4, <3>1, <3>2, <3>3
    <2>5. CASE UNCHANGED tables
        BY <1>1, <2>5 DEF tables
    <2>6. Next => (\E m \in net : Apply(m) \/ FindNoRow(m) \/ InsertTask(m)) \/ UNCHANGED tables
        <3>1. ASSUME NEW m, Send(m) PROVE UNCHANGED tables
            BY <3>1 DEF Send
        <3>2. ASSUME NEW d, Read(d) PROVE UNCHANGED tables
            BY <3>2 DEF Read
        <3> QED
            BY <3>1, <3>2 DEF Next
    <2> QED
        BY <1>1, <2>4, <2>5, <2>6 DEF vars
<1>2. TaskInv /\ [Next]_vars =>
        [\A q \in net : q.kind \in OccurrenceKinds /\ ops[q.op] # ops'[q.op] =>
           q.seen = Schedule(row)]_vars
    BY <1>1
<1> QED
    BY <1>2, TaskInvariant, PTL DEF Spec, CompletesWhatWasSeen
===============================================================================
