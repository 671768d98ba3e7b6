------------------------------ MODULE TaskBlocks -------------------------------
(***************************************************************************)
(* One task block of a shared note: its metadata on the server, and the    *)
(* devices that complete, reopen and reschedule it in their editors.  A    *)
(* completed occurrence is an operation of its own; every other change is  *)
(* a patch over all the keys the editor knew.  The server looks at a patch *)
(* with the completions it holds, those removed earlier in the same batch  *)
(* included, and refuses the whole batch of a patch that would lose one,   *)
(* or a batch that leaves a rule or a reminder without a due date.         *)
(*                                                                         *)
(* NoteSync has the protocol; here a batch is answered or refused in one   *)
(* step, and a refused batch is sent again as it is, for ever.             *)
(***************************************************************************)
EXTENDS Naturals, Sequences, FiniteSets, SequencesExt

CONSTANTS
    Devices,
    Dates,     \* wall-clock values, with or without a time of day (hasTime)
    Instants,  \* instants of completion, one for each click
    MaxEdits,  \* bound on the users' edits
    None       \* null, and the value of an absent key

VARIABLES
    block,     \* the metadata of the block on the server
    snapshot,  \* per device: the metadata it last received
    outbox,    \* per device: operations not accepted yet, in order
    sent,      \* per device: how many of them its sync session holds
    stale,     \* history: devices whose outbox was made on older metadata
    kept,      \* history: completions accepted and not taken back since
    edits, used

history == <<stale, kept>>
blockVars == <<block, snapshot, outbox, sent, history, edits, used>>

Keys == {"dueDate", "recurrenceRule", "reminder", "completions", "isCompleted",
         "lastCompletedAt", "completionHistory"}
Record(day, at) == [day |-> day, at |-> at]
Records == {Record(day, at) : day \in Dates \union {None}, at \in Instants}

\* Metadata is a function over the keys that are present; in a patch, None
\* stands for null.  The completions are kept as a set of records.
Values(key) ==
    CASE key = "dueDate" -> Dates
      [] key = "recurrenceRule" -> {"daily"}
      [] key = "reminder" -> {"on time"}
      [] key = "isCompleted" -> BOOLEAN
      [] key = "lastCompletedAt" -> Instants
      [] key = "completions" -> SUBSET {r \in Records : r.day # None}
      [] OTHER -> SUBSET Records

\* Dates and instants are timestamps of a fixed width; null is no value.
ASSUME TaskBlocksAssumption ==
    /\ IsFiniteSet(Dates) /\ IsFiniteSet(Instants) /\ MaxEdits \in Nat
    /\ \A key \in Keys : \A value \in Values(key) : value # None

IsMetadata(m) == DOMAIN m \subseteq Keys /\ \A key \in DOMAIN m : m[key] \in Values(key)

Operation(o) ==
    \/ o.kind = "complete_task_occurrence" /\ o.day \in Dates /\ o.at \in Instants \union {None}
    \/ /\ o.kind = "set_block_metadata"
       /\ DOMAIN o.patch \subseteq Keys
       /\ \A key \in DOMAIN o.patch : o.patch[key] \in Values(key) \union {None}

BlockTypeOK ==
    /\ IsMetadata(block)
    /\ DOMAIN snapshot = Devices /\ \A d \in Devices : IsMetadata(snapshot[d])
    /\ DOMAIN outbox = Devices
    /\ \A d \in Devices : /\ outbox[d] \in Seq(ToSet(outbox[d]))
                         /\ \A i \in DOMAIN outbox[d] : Operation(outbox[d][i])
    /\ sent \in [Devices -> Nat] /\ \A d \in Devices : sent[d] <= Len(outbox[d])
    /\ stale \subseteq Devices /\ kept \subseteq Records
    /\ edits \in 0..MaxEdits /\ used \subseteq Instants

----------------------------------------------------------------------------
(* Metadata.                                                               *)

Value(m, key) == IF key \in DOMAIN m THEN m[key] ELSE None
SetOf(m, key) == IF key \in DOMAIN m THEN m[key] ELSE {}
With(m, key, value) == [k \in DOMAIN m \union {key} |-> IF k = key THEN value ELSE m[k]]
Without(m, keys) == [key \in DOMAIN m \ keys |-> m[key]]

IsDone(m) == Value(m, "isCompleted") = TRUE
Schedule(m) == <<Value(m, "dueDate"), Value(m, "recurrenceRule")>>

\* mergeNoteMetadata, and the loop of applySetBlockMetadata.
Merge(m, patch) ==
    [key \in {k \in DOMAIN m \union DOMAIN patch : k \in DOMAIN patch => patch[k] # None} |->
        IF key \in DOMAIN patch THEN patch[key] ELSE m[key]]

OneOff(m) == IF IsDone(m) /\ Value(m, "lastCompletedAt") # None
             THEN {Record(Value(m, "dueDate"), m.lastCompletedAt)} ELSE {}

ActiveTaskCompletionRecords(m) == SetOf(m, "completions") \union OneOff(m)

OnDay(m, day) == {r \in SetOf(m, "completions") : r.day = day}

ApplyCompleteTaskOccurrence(m, o) ==
    With(m, "completions", (SetOf(m, "completions") \ OnDay(m, o.day))
                           \union (IF o.at = None THEN {} ELSE {Record(o.day, o.at)}))

\* What applyNoteOperation makes of the metadata on the device.
ClientApply(m, o) == IF o.kind = "set_block_metadata" THEN Merge(m, o.patch)
                     ELSE ApplyCompleteTaskOccurrence(m, o)

\* A block with the first n operations.
Projected(m, operations, n) ==
    LET at[i \in 0..n] == IF i = 0 THEN m ELSE ClientApply(at[i - 1], operations[i])
    IN at[n]

\* The editor's document: the snapshot with every operation of the outbox.
Local(d) == Projected(snapshot[d], outbox[d], Len(outbox[d]))

----------------------------------------------------------------------------
(* The server.                                                             *)

\* isReopenedOneOffCompletion.
IsReopened(before, after) ==
    /\ Value(before, "recurrenceRule") = None
    /\ ~IsDone(after) /\ Value(after, "lastCompletedAt") = None

\* Mutant: the history may be replaced by an older one.
TransitionOverHistory(before, patch, evidence) ==
    LET after == Merge(before, patch) IN
    /\ Schedule(before) # Schedule(after) =>
        /\ ActiveTaskCompletionRecords(before) \union evidence \subseteq SetOf(after, "completionHistory")
        /\ ~IsDone(after) /\ Value(after, "lastCompletedAt") = None

\* isLegacyOneOffCompletion: older apps completed a one-off task by removing
\* its due date in the same patch.
CompletionKeys == {"dueDate", "isCompleted", "lastCompletedAt"}

LegacyCompletion(before, patch) ==
    LET after == Merge(before, patch) IN
    /\ CompletionKeys \subseteq DOMAIN patch
    /\ \A key \in Keys \ CompletionKeys : Value(before, key) = Value(after, key)
    /\ Value(before, "dueDate") # None /\ Value(after, "dueDate") = None
    /\ Value(before, "recurrenceRule") = None /\ Value(before, "reminder") = None
    /\ ~IsDone(before) /\ IsDone(after)
    /\ Value(before, "lastCompletedAt") = None /\ Value(after, "lastCompletedAt") # None
    /\ SetOf(before, "completions") = {}

\* validateTaskScheduleMetadataTransition: no completion may be lost by a
\* patch, and a new schedule starts without any, but for those of older apps.
ValidTransition(before, patch, evidence) ==
    LET after == Merge(before, patch)
        archived == SetOf(after, "completionHistory")
        active == ActiveTaskCompletionRecords(before)
        sameSchedule == Schedule(before) = Schedule(after)
    IN
    /\ SetOf(before, "completionHistory") \subseteq archived
    /\ \/ evidence = {} /\ LegacyCompletion(before, patch)
       \/ /\ \A r \in active \ archived :
              \/ r \in ActiveTaskCompletionRecords(after)
              \/ sameSchedule /\ r \in OneOff(before) /\ IsReopened(before, after)
          /\ sameSchedule \/
              /\ ~(IsDone(before) /\ Value(before, "lastCompletedAt") = None)
              /\ active \union evidence \subseteq archived
              /\ ~IsDone(after) /\ Value(after, "lastCompletedAt") = None
              /\ "completions" \notin DOMAIN after

\* The completions of which an operation takes the place, or takes back.
TakenBack(m, o) ==
    IF o.kind = "complete_task_occurrence" THEN OnDay(m, o.day)
    ELSE IF Schedule(Merge(m, o.patch)) = Schedule(m) /\ ~IsDone(Merge(m, o.patch)) THEN OneOff(m)
    ELSE {}

\* One operation of the transaction: the document, the evidence of the
\* completions removed so far, and whether all operations could be applied.
ApplyOperation(s, o) ==
    IF ~s.ok THEN s
    ELSE IF o.kind = "complete_task_occurrence" THEN
        LET m == ApplyCompleteTaskOccurrence(s.meta, o) IN
        [ok |-> TRUE, meta |-> m,
         evidence |-> s.evidence \union (IF o.at = None THEN OnDay(s.meta, o.day) ELSE {}),
         kept |-> (s.kept \ TakenBack(s.meta, o)) \union OnDay(m, o.day)]
    ELSE
        LET m == Merge(s.meta, o.patch) IN
        [ok |-> ValidTransition(s.meta, o.patch, s.evidence), meta |-> m,
         evidence |-> IF Schedule(m) = Schedule(s.meta) THEN s.evidence ELSE {},
         kept |-> (s.kept \ TakenBack(s.meta, o)) \union OneOff(m)]

\* The transaction after the first n operations of the outbox.
Transaction(d, n) ==
    LET s[i \in 0..n] == IF i = 0 THEN [ok |-> TRUE, meta |-> block, evidence |-> {}, kept |-> kept]
                         ELSE ApplyOperation(s[i - 1], outbox[d][i])
    IN s[n]

Synced(d) == Transaction(d, sent[d])

\* DecodeCanonicalDocument: a rule and a reminder are those of a due date.
Canonical(m) == "dueDate" \in DOMAIN m \/ {"recurrenceRule", "reminder"} \intersect DOMAIN m = {}

Accepts(d) == LET s == Synced(d) IN s.ok /\ Canonical(s.meta)

\* SyncOperations: the batch is applied as a whole and its answer brings the
\* new document; a batch that is refused changes nothing.
Sync(d) == LET s == Synced(d)
               rest == SubSeq(outbox[d], sent[d] + 1, Len(outbox[d])) IN
    /\ sent[d] > 0
    /\ Accepts(d)
    /\ block' = s.meta
    /\ kept' = s.kept
    /\ snapshot' = [snapshot EXCEPT ![d] = s.meta]
    /\ outbox' = [outbox EXCEPT ![d] = rest]
    /\ sent' = [sent EXCEPT ![d] = 0]
    /\ stale' = IF rest = <<>> THEN stale \ {d}
                ELSE IF block = snapshot[d] THEN stale ELSE stale \union {d}
    /\ UNCHANGED <<edits, used>>

----------------------------------------------------------------------------
(* The device.                                                             *)

\* The session takes the whole outbox; what is typed later waits for the next.
StartSync(d) ==
    /\ sent[d] = 0 /\ outbox[d] # <<>>
    /\ sent' = [sent EXCEPT ![d] = Len(outbox[d])]
    /\ UNCHANGED <<block, snapshot, outbox, history, edits, used>>

\* A poll outside a session; the rebaser leaves these operations alone.
Poll(d) ==
    /\ sent[d] = 0 /\ snapshot[d] # block
    /\ snapshot' = [snapshot EXCEPT ![d] = block]
    /\ stale' = IF outbox[d] = <<>> THEN stale ELSE stale \union {d}
    /\ UNCHANGED <<block, outbox, sent, kept, edits, used>>

Complete(day, at) == [kind |-> "complete_task_occurrence", day |-> day, at |-> at]

\* _appendCompletionOperations.
CompletionOperations(before, after) ==
    LET old == SetOf(before, "completions")  new == SetOf(after, "completions") IN
    SetToSeq({Complete(r.day, r.at) : r \in new \ old}
             \union {Complete(r.day, None) : r \in {x \in old : OnDay(after, x.day) = {}}})

\* _appendOtherMetadataOperation: every key that is there before or after the
\* edit, and on a new schedule no completions.
MetadataOperations(before, after) ==
    LET other == (DOMAIN before \union DOMAIN after) \ {"completions"}
        cleared == IF Schedule(before) = Schedule(after) THEN {} ELSE {"completions"}
        patch == [key \in other \union cleared |-> IF key \in cleared THEN None ELSE Value(after, key)]
    IN IF cleared = {} /\ Without(before, {"completions"}) = Without(after, {"completions"}) THEN <<>>
       ELSE <<[kind |-> "set_block_metadata", patch |-> patch]>>

\* diffNoteBlocks, for the metadata of a block.
Diff(before, after) ==
    (IF Schedule(before) = Schedule(after) THEN CompletionOperations(before, after) ELSE <<>>)
    \o MetadataOperations(before, after)

\* The user's edit makes `after` of the block the editor shows.
Edit(d, after) ==
    /\ edits < MaxEdits
    /\ edits' = edits + 1
    /\ outbox' = [outbox EXCEPT ![d] = @ \o Diff(Local(d), after)]
    /\ UNCHANGED <<block, snapshot, sent, history>>

\* completeState: an occurrence of a recurring task, or the task.
CompleteTask(d) == \E at \in Instants \ used : LET m == Local(d) IN
    /\ used' = used \union {at}
    /\ IF Value(m, "dueDate") # None /\ Value(m, "recurrenceRule") # None
       THEN \E day \in Dates :
            /\ OnDay(m, day) = {}
            /\ Edit(d, With(ApplyCompleteTaskOccurrence(m, Complete(day, at)), "isCompleted", FALSE))
       ELSE /\ ~IsDone(m)
            /\ Edit(d, With(With(m, "lastCompletedAt", at), "isCompleted", TRUE))

Reopened(m) == With(Without(m, {"lastCompletedAt"}), "isCompleted", FALSE)

\* reopenState, of an occurrence or of the task.
ReopenTask(d) == LET m == Local(d) IN
    /\ UNCHANGED used
    /\ \/ \E r \in SetOf(m, "completions") :
            Edit(d, Reopened(ApplyCompleteTaskOccurrence(m, Complete(r.day, None))))
       \/ IsDone(m) /\ Edit(d, Reopened(m))

\* Mutant: the archive forgets a completion without occurrences.
ArchivedOccurrences(m) ==
    With(Without(Reopened(m), {"completions"}), "completionHistory",
         SetOf(m, "completionHistory") \union SetOf(m, "completions"))

\* _archiveCompletions.
Archived(m) ==
    With(Without(Reopened(m), {"completions"}), "completionHistory",
         SetOf(m, "completionHistory") \union ActiveTaskCompletionRecords(m))

Scheduled(m, due, rule, reminder) ==
    Merge(m, [dueDate |-> due, recurrenceRule |-> rule, reminder |-> reminder])

\* The sheet of a task: who removes the date removes the rule and the
\* reminder, and who chooses one of them gets a date.
MayChoose(m, due, rule, reminder) == due = None =>
    \/ rule = None /\ reminder = None
    \/ /\ Value(m, "dueDate") = None
       /\ rule \in {None, Value(m, "recurrenceRule")} /\ reminder \in {None, Value(m, "reminder")}

\* updateMetadataState with another schedule, or with another reminder.
Reschedule(d) == LET m == Local(d) IN
    \E due \in Dates \union {None}, rule \in {"daily", None}, reminder \in {"on time", None} :
        /\ MayChoose(m, due, rule, reminder)
        /\ Schedule(m) # <<due, rule>>
        /\ Edit(d, Scheduled(Archived(m), due, rule, reminder))
        /\ UNCHANGED used

ChangeReminder(d) == LET m == Local(d) IN
    \E reminder \in {"on time", None} \ {Value(m, "reminder")} :
        /\ MayChoose(m, Value(m, "dueDate"), Value(m, "recurrenceRule"), reminder)
        /\ Edit(d, Merge(m, [reminder |-> reminder]))
        /\ UNCHANGED used

\* A new task: empty, or checked as it was typed.
BlockInit ==
    /\ \E checked \in BOOLEAN : block = [isCompleted |-> checked]
    /\ snapshot = [d \in Devices |-> block]
    /\ outbox = [d \in Devices |-> <<>>]
    /\ sent = [d \in Devices |-> 0]
    /\ stale = {} /\ kept = {}
    /\ edits = 0 /\ used = {}

BlockNext == \E d \in Devices :
    \/ CompleteTask(d) \/ ReopenTask(d) \/ Reschedule(d) \/ ChangeReminder(d)
    \/ StartSync(d) \/ Sync(d) \/ Poll(d)

BlockSpec == BlockInit /\ [][BlockNext]_blockVars

----------------------------------------------------------------------------
(* Properties.                                                             *)

\* A completion that the server accepted and nobody took back is in the task,
\* under its schedule or in its history, whatever stale patches arrive.
CompletionsSurvive == kept \subseteq ActiveTaskCompletionRecords(block) \union SetOf(block, "completionHistory")

BlockInv == BlockTypeOK /\ CompletionsSurvive

\* Two edits in one batch between which the server's check and the client's
\* archive disagree: a completion is reopened and the task then rescheduled.
ReopensAndReschedules(d) == \E i, j \in 1..sent[d] : LET b == outbox[d] IN
    /\ i < j
    /\ b[i].kind = "complete_task_occurrence" /\ b[i].at = None
    /\ b[j].kind = "set_block_metadata" /\ "completions" \in DOMAIN b[j].patch

\* What one device does to a task that nobody else has changed is accepted:
\* the editor's commands and patches pass the server's check.  The exceptions
\* are tasks that are done as a whole, but without an instant, or although
\* they recur (one device completed them while another made them recur).
OwnEditsAreAccepted == \A d \in Devices :
    sent[d] > 0 /\ d \notin stale /\ block = snapshot[d] =>
        \/ Accepts(d)
        \/ ReopensAndReschedules(d)
        \/ IsDone(block) /\ (Value(block, "lastCompletedAt") = None \/ Value(block, "recurrenceRule") # None)

\* A task that is done as a whole has its instant, and does not recur.
DoneOnce(m) == IsDone(m) => Value(m, "lastCompletedAt") # None /\ Value(m, "recurrenceRule") = None

\* What the server's check finds of an operation on the metadata the editor
\* showed when it was made.
Own(m, o) ==
    /\ Canonical(ClientApply(m, o))
    /\ o.kind = "set_block_metadata" =>
        /\ Schedule(Merge(m, o.patch)) # Schedule(m) => "completions" \in DOMAIN o.patch
        /\ DoneOnce(m) => DoneOnce(Merge(m, o.patch)) /\ ValidTransition(m, o.patch, {})

\* The inductive invariant behind OwnEditsAreAccepted.
OwnEdits ==
    /\ Canonical(block) /\ \A d \in Devices : Canonical(snapshot[d])
    /\ \A d \in Devices \ stale : \A i \in DOMAIN outbox[d] :
        Own(Projected(snapshot[d], outbox[d], i - 1), outbox[d][i])

\* No batch of edits of a task is ever refused.
NeverRefused == \A d \in Devices : sent[d] > 0 => Accepts(d)
=============================================================================
