--------------------------- MODULE AlexaCommandsProofs ---------------------------
(***************************************************************************)
(* Machine-checked proofs about AlexaCommands, for any deliveries,         *)
(* requests and notes, any lifetimes and any number of edits and faults.   *)
(***************************************************************************)
EXTENDS AlexaCommands, TLAPS

LEMMA Times ==
    /\ LeaseTTL \in Nat /\ ResultTTL \in Nat /\ ResultTTL > 0
    /\ MaxClock \in Nat /\ MaxEdits \in Nat /\ MaxFaults \in Nat
BY TimesAssumption DEF TimesAssumption

USE Times

WorkRows == [pc : {"new", "checked", "reserved", "found", "read", "spoken", "done"},
             req : Requests, print : Payloads, at : 0..MaxClock, ran : BOOLEAN,
             note : Notes \union {NoNote}, base : Nat, answer : Answers]
PendingRows == [status : {"pending"}, print : Payloads, owner : Deliveries, lease : Nat]
CompletedRows == [status : {"completed"}, print : Payloads, owner : Deliveries,
                  answer : Final, expires : Nat]
Active == {"reserved", "found", "read", "spoken"}

-------------------------------------------------------------------------------

LEMMA InitAlexa == Init => AlexaInv
<1> SUFFICES ASSUME Init PROVE AlexaInv
    OBVIOUS
<1>1. \A d \in Deliveries : work[d].pc = "new" /\ work[d].at = 0 /\ ~work[d].ran /\ work[d].answer = "none"
    BY DEF Init
<1>2. TypeOK
    <2>1. work \in [Deliveries -> WorkRows]
        <3>1. 0 \in 0..MaxClock /\ "none" \in Answers
            BY DEF Answers
        <3> DEFINE NewRows == [pc : {"new"}, req : Requests, print : Payloads, at : {0}, ran : {FALSE},
                               note : {NoNote}, base : {0}, answer : {"none"}]
        <3>2. work \in [Deliveries -> NewRows]
            BY DEF Init
        <3>3. ASSUME NEW w \in NewRows PROVE w \in WorkRows
            <4> DEFINE v == [pc |-> "new", req |-> w.req, print |-> w.print, at |-> 0, ran |-> FALSE,
                             note |-> NoNote, base |-> 0, answer |-> "none"]
            <4>1. w = v /\ w.req \in Requests /\ w.print \in Payloads
                BY <3>3
            <4>2. v \in WorkRows
                BY <3>1, <4>1 DEF WorkRows
            <4> QED
                BY <4>1, <4>2
        <3> HIDE DEF NewRows
        <3> QED
            BY <3>2, <3>3
    <2>2. rows \in [Requests -> {NoRow}] /\ log \in Seq([note : Notes, req : Requests])
        BY DEF Init
    <2>3. rev \in [Notes -> Nat] /\ clock \in 0..MaxClock /\ edits \in 0..MaxEdits /\ faults \in 0..MaxFaults
        BY DEF Init
    <2> QED
        BY <2>1, <2>2, <2>3 DEF Init, TypeOK, WorkRows
<1>3. WorkIsInOrder /\ AcceptedFirst /\ VerdictsLast
    BY <1>1 DEF Init, WorkIsInOrder, AcceptedFirst, VerdictsLast, Told, NoRow
<1>4. ItemAddedOnce /\ SpokenIsTrue /\ OneVerdict
    BY <1>1 DEF Init, ItemAddedOnce, SpokenIsTrue, OneVerdict
<1> QED
    BY <1>2, <1>3, <1>4 DEF AlexaInv

\* The step of one delivery that adds no item and stores no answer; a row of
\* the table may go when its answer has expired.
LEMMA QuietStep ==
    ASSUME AlexaInv, NEW d \in Deliveries, NEW w \in WorkRows,
           work' = [work EXCEPT ![d] = w],
           UNCHANGED <<clock, log, shown>>, TypeOK',
           \A r \in Requests : \/ rows'[r] = rows[r]
                               \/ /\ rows[r].status = "completed" /\ rows[r].expires <= clock
                                  /\ rows'[r] = NoRow,
           w.req = work[d].req, w.at = work[d].at, w.ran = work[d].ran,
           w.pc \in Active => work[d].pc \in Active /\ w.ran,
           w.pc \in {"new", "checked"} => ~w.ran,
           w.pc \in {"found", "read"} => w.note \in Notes,
           w.pc \in {"new", "checked", "reserved", "found", "read"} => w.answer = "none",
           w.pc = "spoken" => w.answer \in Final,
           w.pc = "done" /\ w.ran => w.answer \notin Final,
           w.answer = "added" => \E i \in DOMAIN log : log[i].req = w.req /\ (w.ran => log[i].note = w.note)
    PROVE  AlexaInv'
<1> USE DEF AlexaInv
<1>0. work \in [Deliveries -> WorkRows]
    BY DEF TypeOK, WorkRows
<1>1. \A e \in Deliveries : work'[e] = IF e = d THEN w ELSE work[e]
    BY <1>0
<1>2. WorkIsInOrder'
    <2> SUFFICES ASSUME NEW e \in Deliveries
                 PROVE  LET v == work'[e] IN
                    /\ v.pc \in {"reserved", "found", "read", "spoken"} => v.ran
                    /\ v.pc \in {"new", "checked"} => ~v.ran
                    /\ v.pc \in {"found", "read"} => v.note \in Notes
                    /\ v.pc \in {"new", "checked", "reserved", "found", "read"} => v.answer = "none"
                    /\ v.pc = "spoken" => v.answer \in Final
                    /\ v.at <= clock
        BY DEF WorkIsInOrder
    <2>1. CASE e = d
        BY <1>1, <2>1 DEF WorkIsInOrder, Active
    <2>2. CASE e # d
        BY <1>1, <2>2 DEF WorkIsInOrder
    <2> QED
        BY <2>1, <2>2
<1>3. AcceptedFirst'
    BY DEF AcceptedFirst, Accepted, NoRow
<1>4. VerdictsLast'
    <2> SUFFICES ASSUME NEW e \in Deliveries, Told(e)'
                 PROVE  LET r == work'[e].req  over == work'[e].at + ResultTTL IN
                    /\ over <= clock \/ (rows'[r].status = "completed" /\ over <= rows'[r].expires)
                    /\ \A f \in Deliveries \ {e} :
                        /\ work'[f].req = r /\ rows'[r].status = "pending" /\ rows'[r].owner = f
                        /\ work'[f].pc \in Active
                        => over <= work'[f].at
        BY DEF VerdictsLast, Active
    <2>1. e # d /\ Told(e) /\ work'[e] = work[e]
        BY <1>1 DEF Told
    <2> DEFINE r == work[e].req
               over == work[e].at + ResultTTL
    <2>2. r \in Requests /\ over \in Nat /\ clock \in Nat
        BY <1>0 DEF TypeOK, WorkRows
    <2>3. /\ over <= clock \/ (rows[r].status = "completed" /\ over <= rows[r].expires)
          /\ \A f \in Deliveries \ {e} :
                /\ work[f].req = r /\ rows[r].status = "pending" /\ rows[r].owner = f
                /\ work[f].pc \in Active
                => over <= work[f].at
        BY <2>1 DEF VerdictsLast, Active
    <2>4. rows[r].status = "completed" => rows[r].expires \in Nat
        <3>1. rows[r] = NoRow \/ rows[r] \in PendingRows \/ rows[r] \in CompletedRows
            BY <2>2 DEF TypeOK, PendingRows, CompletedRows
        <3> QED
            BY <3>1 DEF NoRow, PendingRows, CompletedRows
    <2>5. over <= clock \/ (rows'[r].status = "completed" /\ over <= rows'[r].expires)
        BY <2>2, <2>3, <2>4
    <2>6. rows'[r].status = "pending" => rows'[r] = rows[r]
        BY <2>2 DEF NoRow
    <2> QED
        BY <1>1, <2>1, <2>3, <2>5, <2>6
<1>5. ItemAddedOnce' /\ SpokenIsTrue'
    BY <1>1 DEF ItemAddedOnce, SpokenIsTrue
<1>6. OneVerdict'
    BY <1>1 DEF OneVerdict
<1> QED
    BY <1>2, <1>3, <1>4, <1>5, <1>6

\* A reservation comes after every answer that was stored before.
LEMMA ReserveStep ==
    ASSUME AlexaInv, NEW d \in Deliveries, work[d].pc = "checked", Reserve(d),
           \/ DeleteExpired[work[d].req] = NoRow
           \/ rows[work[d].req].status = "pending",
           UNCHANGED <<clock, log, shown>>, TypeOK'
    PROVE  AlexaInv'
<1> USE DEF AlexaInv
<1> DEFINE q == work[d].req
<1>0. work \in [Deliveries -> WorkRows] /\ q \in Requests /\ clock \in Nat
    BY DEF TypeOK, WorkRows
<1>1. \A e \in Deliveries : work'[e] = IF e = d
            THEN [work[d] EXCEPT !.pc = "reserved", !.at = clock, !.ran = TRUE] ELSE work[e]
    BY <1>0 DEF Reserve
<1>2. /\ work'[d].pc = "reserved" /\ work'[d].at = clock /\ work'[d].ran
      /\ work'[d].req = q /\ work'[d].answer = work[d].answer /\ work'[d].note = work[d].note
    BY <1>0, <1>1 DEF WorkRows
<1>3. \A r \in Requests : rows'[r] = IF r = q THEN Pending(d) ELSE DeleteExpired[r]
    BY DEF Reserve, DeleteExpired
<1>4. work[d].answer = "none"
    BY DEF WorkIsInOrder
<1>5. WorkIsInOrder'
    BY <1>0, <1>1, <1>2, <1>4 DEF WorkIsInOrder
<1>6. AcceptedFirst'
    BY <1>3 DEF AcceptedFirst, Accepted, NoRow, DeleteExpired, Pending
<1>7. VerdictsLast'
    <2> SUFFICES ASSUME NEW e \in Deliveries, Told(e)'
                 PROVE  LET r == work'[e].req  over == work'[e].at + ResultTTL IN
                    /\ over <= clock \/ (rows'[r].status = "completed" /\ over <= rows'[r].expires)
                    /\ \A f \in Deliveries \ {e} :
                        /\ work'[f].req = r /\ rows'[r].status = "pending" /\ rows'[r].owner = f
                        /\ work'[f].pc \in Active
                        => over <= work'[f].at
        BY DEF VerdictsLast, Active
    <2>1. e # d /\ Told(e) /\ work'[e] = work[e]
        BY <1>1, <1>2 DEF Told
    <2> DEFINE r == work[e].req
               over == work[e].at + ResultTTL
    <2>2. r \in Requests /\ over \in Nat
        BY <1>0 DEF WorkRows
    <2>3. /\ over <= clock \/ (rows[r].status = "completed" /\ over <= rows[r].expires)
          /\ \A f \in Deliveries \ {e} :
                /\ work[f].req = r /\ rows[r].status = "pending" /\ rows[r].owner = f
                /\ work[f].pc \in Active
                => over <= work[f].at
        BY <2>1 DEF VerdictsLast, Active
    <2>4. rows[r].status = "completed" => rows[r].expires \in Nat
        <3>1. rows[r] = NoRow \/ rows[r] \in PendingRows \/ rows[r] \in CompletedRows
            BY <2>2 DEF TypeOK, PendingRows, CompletedRows
        <3> QED
            BY <3>1 DEF NoRow, PendingRows, CompletedRows
    <2>5. CASE r = q
        <3>1. over <= clock
            BY <1>0, <2>2, <2>3, <2>4, <2>5 DEF DeleteExpired, NoRow
        <3>2. \A f \in Deliveries \ {e} : rows'[r].owner = f => f = d
            BY <1>3, <2>2, <2>5 DEF Pending
        <3> QED
            BY <1>2, <2>1, <3>1, <3>2
    <2>6. CASE r # q
        <3>1. rows'[r] = rows[r] \/ (rows[r].status = "completed" /\ rows[r].expires <= clock /\ rows'[r] = NoRow)
            BY <1>3, <2>2, <2>6 DEF DeleteExpired
        <3>2. over <= clock \/ (rows'[r].status = "completed" /\ over <= rows'[r].expires)
            BY <1>0, <2>2, <2>3, <2>4, <3>1
        <3>3. rows'[r].status = "pending" => rows'[r] = rows[r]
            BY <3>1 DEF NoRow
        <3> QED
            BY <1>1, <1>2, <2>1, <2>3, <2>6, <3>2, <3>3
    <2> QED
        BY <2>5, <2>6
<1>8. ItemAddedOnce' /\ SpokenIsTrue'
    BY <1>1, <1>2, <1>4 DEF ItemAddedOnce, SpokenIsTrue
<1>9. OneVerdict'
    BY <1>1, <1>2 DEF OneVerdict
<1> QED
    BY <1>5, <1>6, <1>7, <1>8, <1>9

-------------------------------------------------------------------------------
(* The steps.                                                              *)

\* What Step and Speak make of the record of a delivery.
LEMMA Moves ==
    ASSUME TypeOK, NEW d \in Deliveries,
           NEW pc \in {"new", "checked", "reserved", "found", "read", "spoken", "done"}, NEW a \in Answers
    PROVE  /\ [work[d] EXCEPT !.pc = pc] \in WorkRows
           /\ [work[d] EXCEPT !.pc = pc, !.answer = a] \in WorkRows
           /\ Step(d, pc) => work' = [work EXCEPT ![d] = [work[d] EXCEPT !.pc = pc]]
           /\ Speak(d, pc, a) => work' = [work EXCEPT ![d] = [work[d] EXCEPT !.pc = pc, !.answer = a]]
           /\ work \in [Deliveries -> WorkRows]
<1>1. work \in [Deliveries -> WorkRows] /\ work[d] \in WorkRows
    BY DEF TypeOK, WorkRows
<1>2. [work[d] EXCEPT !.pc = pc] \in WorkRows
    BY <1>1 DEF WorkRows
<1>3. [work[d] EXCEPT !.pc = pc, !.answer = a] \in WorkRows
    BY <1>1 DEF WorkRows
<1> QED
    BY <1>1, <1>2, <1>3 DEF Step, Speak

\* The type of work is all a quiet step can break.
LEMMA TypeOfWork ==
    ASSUME TypeOK, work' \in [Deliveries -> WorkRows],
           \A r \in Requests : rows'[r] = rows[r] \/ rows'[r] = NoRow,
           rows' = [r \in Requests |-> rows'[r]],
           UNCHANGED <<clock, lists, edits>>, faults' \in 0..MaxFaults
    PROVE  TypeOK'
<1>1. rows' \in [Requests -> {NoRow} \union PendingRows \union CompletedRows]
    BY DEF TypeOK, PendingRows, CompletedRows
<1> QED
    BY <1>1 DEF TypeOK, lists, WorkRows, PendingRows, CompletedRows

LEMMA ReceiveKeeps ==
    ASSUME AlexaInv, NEW d \in Deliveries, Receive(d)
    PROVE  AlexaInv'
<1>1. TypeOK /\ work[d].pc = "new" /\ ~work[d].ran /\ work[d].answer = "none"
    BY DEF AlexaInv, Receive, At, WorkIsInOrder
<1>2. PICK w \in WorkRows : /\ work' = [work EXCEPT ![d] = w]
                            /\ \/ w = [work[d] EXCEPT !.pc = "checked"]
                               \/ w = [work[d] EXCEPT !.pc = "done", !.answer = "refused"]
    BY <1>1, Moves DEF Receive, Answers
<1>3. work[d] \in WorkRows /\ work' \in [Deliveries -> WorkRows]
    BY <1>1, <1>2, Moves DEF Answers
<1>4. TypeOK'
    BY <1>1, <1>3, TypeOfWork DEF Receive, TypeOK
<1>5. /\ w.req = work[d].req /\ w.at = work[d].at /\ w.ran = work[d].ran
      /\ \/ w.pc = "checked" /\ w.answer = "none"
         \/ w.pc = "done" /\ w.answer = "refused"
    BY <1>1, <1>2, <1>3 DEF WorkRows
<1> QED
    BY <1>1, <1>2, <1>4, <1>5, QuietStep DEF Receive, lists, Active, Final

LEMMA BeginKeeps ==
    ASSUME AlexaInv, NEW d \in Deliveries, Begin(d)
    PROVE  AlexaInv'
<1> DEFINE q == work[d].req
           row == DeleteExpired[q]
<1>1. TypeOK /\ work[d].pc = "checked" /\ ~work[d].ran /\ work[d].answer = "none"
    BY DEF AlexaInv, Begin, At, WorkIsInOrder
<1>2. work[d] \in WorkRows /\ work \in [Deliveries -> WorkRows] /\ q \in Requests /\ clock \in Nat
    <2>1. work \in [Deliveries -> WorkRows]
        BY <1>1 DEF TypeOK, WorkRows
    <2> QED
        BY <1>1, <2>1 DEF WorkRows, TypeOK
<1>3. \A r \in Requests : \/ DeleteExpired[r] = rows[r]
                           \/ /\ rows[r].status = "completed" /\ rows[r].expires <= clock
                              /\ DeleteExpired[r] = NoRow
    BY DEF DeleteExpired
<1>4. row = NoRow \/ (row = rows[q] /\ row \in PendingRows) \/ (row = rows[q] /\ row \in CompletedRows)
    BY <1>1, <1>2, <1>3 DEF TypeOK, PendingRows, CompletedRows
<1>5. CASE Reserve(d) /\ (row = NoRow \/ row.status = "pending")
    <2>1. [work[d] EXCEPT !.pc = "reserved", !.at = clock, !.ran = TRUE] \in WorkRows
        BY <1>1, <1>2 DEF WorkRows, TypeOK
    <2>2. work' \in [Deliveries -> WorkRows]
        BY <1>2, <1>5, <2>1 DEF Reserve
    <2>3. Pending(d) \in PendingRows
        BY <1>2 DEF Pending, PendingRows, WorkRows
    <2>4. rows' \in [Requests -> {NoRow} \union PendingRows \union CompletedRows]
        BY <1>1, <1>3, <1>5, <2>3 DEF Reserve, DeleteExpired, TypeOK, PendingRows, CompletedRows
    <2>5. TypeOK'
        BY <1>1, <2>2, <2>4 DEF TypeOK, Begin, lists, WorkRows, PendingRows, CompletedRows
    <2>6. row = NoRow \/ rows[q].status = "pending"
        BY <1>2, <1>3, <1>5
    <2> QED
        BY <1>1, <1>5, <2>5, <2>6, ReserveStep DEF Begin, lists
<1>6. CASE \E a \in Final \union {"pending", "refused"} :
            /\ Speak(d, "done", a)
            /\ rows' \in {rows, DeleteExpired}
            /\ a = "added" => row.status = "completed" /\ row.answer = "added"
    <2>1. PICK a \in Final \union {"pending", "refused"} :
            /\ Speak(d, "done", a)
            /\ rows' \in {rows, DeleteExpired}
            /\ a = "added" => row.status = "completed" /\ row.answer = "added"
        BY <1>6
    <2> DEFINE w == [work[d] EXCEPT !.pc = "done", !.answer = a]
    <2>2. w \in WorkRows /\ work' = [work EXCEPT ![d] = w]
        BY <1>1, <2>1, Moves DEF Answers
    <2>3. /\ w.pc = "done" /\ w.answer = a
          /\ w.req = q /\ w.at = work[d].at /\ w.ran = work[d].ran
        BY <1>2 DEF WorkRows
    <2>4. \A r \in Requests : \/ rows'[r] = rows[r]
                               \/ /\ rows[r].status = "completed" /\ rows[r].expires <= clock
                                  /\ rows'[r] = NoRow
        BY <1>3, <2>1
    <2>5. TypeOK'
        <3>1. rows' = [r \in Requests |-> rows'[r]]
            BY <1>1, <2>1 DEF DeleteExpired, TypeOK
        <3>2. work' \in [Deliveries -> WorkRows]
            BY <1>2, <2>2
        <3> QED
            BY <1>1, <2>4, <3>1, <3>2, TypeOfWork DEF Begin, TypeOK
    <2>6. a = "added" => \E i \in DOMAIN log : log[i].req = q
        BY <1>2, <1>4, <2>1 DEF AlexaInv, AcceptedFirst, NoRow
    <2> QED
        BY <1>1, <2>2, <2>3, <2>4, <2>5, <2>6, QuietStep DEF Begin, lists, Active, Final
<1> QED
    <2>1. CASE row = NoRow
        BY <1>5, <2>1 DEF Begin, Acquire, NoRow
    <2>2. CASE row \in PendingRows
        BY <1>5, <1>6, <2>2 DEF Begin, Acquire, NoRow, PendingRows
    <2>3. CASE row \in CompletedRows
        BY <1>5, <1>6, <2>3 DEF Begin, Acquire, NoRow, CompletedRows
    <2> QED
        BY <1>4, <2>1, <2>2, <2>3

\* The steps of an execution that leave the log alone.
LEMMA RunKeeps ==
    ASSUME AlexaInv, NEW d \in Deliveries,
           Find(d) \/ ReadList(d) \/ Fail(d) \/ Crash(d)
           \/ (AddItem(d) /\ Speak(d, "spoken", "sorry") /\ UNCHANGED <<log, shown, rev>>)
    PROVE  AlexaInv'
<1>1. TypeOK /\ work[d] \in WorkRows /\ work \in [Deliveries -> WorkRows]
    BY Moves DEF AlexaInv, Answers
<1>2. UNCHANGED <<clock, rows, lists, edits>> /\ faults' \in 0..MaxFaults
    BY <1>1 DEF Find, ReadList, Fail, Crash, AddItem, lists, TypeOK
<1>3. work[d].pc # "checked" => work[d].ran
    BY <1>1 DEF AlexaInv, WorkIsInOrder, Find, ReadList, Fail, Crash, AddItem, At
<1>4. PICK w \in WorkRows :
        /\ work' = [work EXCEPT ![d] = w]
        /\ w.req = work[d].req /\ w.at = work[d].at /\ w.ran = work[d].ran
        /\ \/ /\ w.pc = "spoken" /\ w.answer \in Final \ {"added"} /\ w.ran /\ work[d].pc \in Active
           \/ /\ w.pc = "spoken" /\ w.answer = "added" /\ w.ran /\ work[d].pc \in Active
              /\ w.note = work[d].note /\ w.note \in Notes /\ <<w.note, w.req>> \in shown
           \/ /\ w.pc \in {"found", "read"} /\ w.note \in Notes /\ w.answer = "none"
              /\ w.ran /\ work[d].pc \in Active
           \/ w.pc = "done" /\ w.answer = "error"
    <2>1. ASSUME NEW a \in Answers, NEW pc \in {"spoken", "done"}, Speak(d, pc, a)
          PROVE  \E w \in WorkRows :
                /\ work' = [work EXCEPT ![d] = w]
                /\ w.req = work[d].req /\ w.at = work[d].at /\ w.ran = work[d].ran
                /\ w.note = work[d].note /\ w.pc = pc /\ w.answer = a
        <3>1. [work[d] EXCEPT !.pc = pc, !.answer = a] \in WorkRows
            BY <1>1, Moves
        <3>2. work' = [work EXCEPT ![d] = [work[d] EXCEPT !.pc = pc, !.answer = a]]
            BY <1>1, <2>1 DEF Speak
        <3> WITNESS [work[d] EXCEPT !.pc = pc, !.answer = a] \in WorkRows
        <3> QED
            BY <1>1, <3>2 DEF WorkRows
    <2>2. CASE Find(d)
        <3>1. work[d].pc = "reserved" /\ work[d].answer = "none" /\ work[d].ran
            BY <2>2 DEF AlexaInv, WorkIsInOrder, Find, At
        <3>2. CASE \E a \in {"which_item", "not_found", "ambiguous"} : Speak(d, "spoken", a)
            <4>1. PICK a \in {"which_item", "not_found", "ambiguous"} : Speak(d, "spoken", a)
                BY <3>2
            <4>2. a \in Answers /\ a \in Final \ {"added"}
                BY DEF Answers, Final
            <4>3. PICK w \in WorkRows :
                    /\ work' = [work EXCEPT ![d] = w]
                    /\ w.req = work[d].req /\ w.at = work[d].at /\ w.ran = work[d].ran
                    /\ w.note = work[d].note /\ w.pc = "spoken" /\ w.answer = a
                BY <2>1, <4>1, <4>2
            <4> QED
                BY <3>1, <4>2, <4>3 DEF Active
        <3>3. CASE titled # {} /\ work' = [work EXCEPT ![d].pc = "found", ![d].note = CHOOSE n \in titled : TRUE]
            <4>1. (CHOOSE n \in titled : TRUE) \in Notes
                BY <1>1, <3>3 DEF TypeOK
            <4> DEFINE n == CHOOSE x \in titled : TRUE
                       w == [work[d] EXCEPT !.pc = "found", !.note = n]
            <4> HIDE DEF n
            <4>2. w \in WorkRows
                BY <1>1, <4>1 DEF WorkRows, n
            <4>3. work' = [work EXCEPT ![d] = w]
                BY <1>1, <3>3 DEF n
            <4>4. w.pc = "found" /\ w.note \in Notes /\ w.answer = "none"
                  /\ w.req = work[d].req /\ w.at = work[d].at /\ w.ran = work[d].ran
                BY <1>1, <3>1, <4>1 DEF WorkRows, n
            <4> QED
                BY <3>1, <4>2, <4>3, <4>4 DEF Active
        <3> QED
            BY <2>2, <3>2, <3>3 DEF Find, FindShoppingList
    <2>3. CASE ReadList(d)
        <3>1. work[d].pc = "found" /\ work[d].answer = "none" /\ work[d].ran /\ work[d].note \in Notes
            BY <2>3 DEF AlexaInv, WorkIsInOrder, ReadList, At
        <3>2. CASE <<work[d].note, work[d].req>> \in shown /\ Speak(d, "spoken", "added")
            <4>1. "added" \in Answers
                BY DEF Answers, Final
            <4>2. PICK w \in WorkRows :
                    /\ work' = [work EXCEPT ![d] = w]
                    /\ w.req = work[d].req /\ w.at = work[d].at /\ w.ran = work[d].ran
                    /\ w.note = work[d].note /\ w.pc = "spoken" /\ w.answer = "added"
                BY <2>1, <3>2, <4>1
            <4> QED
                BY <3>1, <3>2, <4>2 DEF Active
        <3>3. CASE work' = [work EXCEPT ![d].pc = "read", ![d].base = rev[work[d].note]]
            <4>1. rev[work[d].note] \in Nat
                BY <1>1, <3>1 DEF TypeOK
            <4> DEFINE w == [work[d] EXCEPT !.pc = "read", !.base = rev[work[d].note]]
            <4>2. w \in WorkRows
                BY <1>1, <4>1 DEF WorkRows
            <4>3. work' = [work EXCEPT ![d] = w]
                BY <1>1, <3>3
            <4>4. w.pc = "read" /\ w.note \in Notes /\ w.answer = "none"
                  /\ w.req = work[d].req /\ w.at = work[d].at /\ w.ran = work[d].ran
                BY <1>1, <3>1 DEF WorkRows
            <4> QED
                BY <3>1, <4>2, <4>3, <4>4 DEF Active
        <3> QED
            BY <2>3, <3>2, <3>3 DEF ReadList
    <2>4. CASE Fail(d) \/ (AddItem(d) /\ Speak(d, "spoken", "sorry"))
        <3>1. work[d].pc \in {"reserved", "found", "read"} /\ Speak(d, "spoken", "sorry")
            BY <2>4 DEF Fail, AddItem, At
        <3> QED
            BY <1>3, <2>1, <3>1 DEF Answers, Final, Active
    <2>5. CASE Crash(d)
        BY <2>1, <2>5 DEF Crash, Answers
    <2> QED
        BY <2>2, <2>3, <2>4, <2>5
<1>5. TypeOK'
    <2>1. work' \in [Deliveries -> WorkRows]
        BY <1>1, <1>4
    <2>2. rows' = [r \in Requests |-> rows'[r]]
        BY <1>1, <1>2 DEF TypeOK
    <2> QED
        BY <1>1, <1>2, <2>1, <2>2, TypeOfWork
<1>6. w.answer = "added" => \E i \in DOMAIN log : log[i].req = w.req /\ log[i].note = w.note
    BY <1>4 DEF AlexaInv, AcceptedFirst, Accepted, WorkRows
<1> QED
    BY <1>1, <1>2, <1>4, <1>5, <1>6, QuietStep DEF lists, Active, Final

\* The operation is new to the list.
LEMMA AcceptKeeps ==
    ASSUME AlexaInv, NEW d \in Deliveries, AddItem(d),
           Accepted(work[d].note, work[d].req) = {}, Accept(d)
    PROVE  AlexaInv'
<1> USE DEF AlexaInv
<1> DEFINE n == work[d].note
           q == work[d].req
           entry == [note |-> n, req |-> q]
           w == [work[d] EXCEPT !.pc = "spoken", !.answer = "added"]
<1>1. /\ TypeOK /\ work[d] \in WorkRows /\ work \in [Deliveries -> WorkRows]
      /\ w \in WorkRows /\ work' = [work EXCEPT ![d] = w]
    BY Moves DEF Answers, Final, Accept
<1>2. work[d].pc = "read" /\ work[d].ran /\ n \in Notes /\ q \in Requests
    BY <1>1 DEF AddItem, At, WorkIsInOrder, WorkRows
<1>3. /\ w.pc = "spoken" /\ w.answer = "added" /\ w.ran /\ w.note = n /\ w.req = q /\ w.at = work[d].at
    BY <1>1, <1>2 DEF WorkRows
<1>4. \A e \in Deliveries : work'[e] = IF e = d THEN w ELSE work[e]
    BY <1>1
<1> HIDE DEF w
<1>5. /\ log' = Append(log, entry) /\ entry \in [note : Notes, req : Requests]
      /\ log \in Seq([note : Notes, req : Requests])
    BY <1>1, <1>2 DEF Accept, TypeOK
<1>6. /\ DOMAIN log' = 1..(Len(log) + 1) /\ DOMAIN log = 1..Len(log) /\ Len(log) \in Nat
      /\ \A i \in DOMAIN log : log'[i] = log[i]
      /\ log'[Len(log) + 1] = entry /\ entry.note = n /\ entry.req = q
      /\ log' \in Seq([note : Notes, req : Requests])
    BY <1>5
<1> HIDE DEF entry
<1>7. shown' = shown \union {<<n, q>>} /\ rev' = [rev EXCEPT ![n] = @ + 1]
    BY DEF Accept
<1>8. UNCHANGED <<clock, rows, titled, edits, faults>>
    BY DEF AddItem
<1>9. TypeOK'
    <2>1. work' \in [Deliveries -> WorkRows]
        BY <1>1
    <2>2. shown' \subseteq Notes \X Requests /\ rev' \in [Notes -> Nat]
        BY <1>1, <1>2, <1>7 DEF TypeOK
    <2> QED
        BY <1>1, <1>6, <1>8, <2>1, <2>2 DEF TypeOK, WorkRows
<1>10. WorkIsInOrder'
    <2>1. w.at <= clock /\ "added" \in Final
        BY <1>3 DEF WorkIsInOrder, Final
    <2> QED
        BY <1>3, <1>4, <1>8, <2>1 DEF WorkIsInOrder
<1>11. \A m \in Notes, r \in Requests :
        Accepted(m, r)' = Accepted(m, r) \union (IF m = n /\ r = q THEN {Len(log) + 1} ELSE {})
    BY <1>6 DEF Accepted
<1>12. AcceptedFirst'
    <2>1. \A m \in Notes, r \in Requests : <<m, r>> \in shown' => Accepted(m, r)' # {}
        BY <1>7, <1>11 DEF AcceptedFirst
    <2>2. \A r \in Requests : rows'[r].status = "completed" /\ rows'[r].answer = "added" =>
            \E i \in DOMAIN log' : log'[i].req = r
        BY <1>6, <1>8 DEF AcceptedFirst
    <2> QED
        BY <2>1, <2>2 DEF AcceptedFirst
<1>13. \A e \in Deliveries : Told(e)' => e # d /\ Told(e)
    BY <1>3, <1>4 DEF Told
<1>14. VerdictsLast'
    BY <1>2, <1>3, <1>4, <1>8, <1>13 DEF VerdictsLast, Active
<1>15. ItemAddedOnce'
    <2>1. \A i \in DOMAIN log : ~(log[i].note = n /\ log[i].req = q)
        BY DEF Accepted
    <2> QED
        BY <1>6, <2>1 DEF ItemAddedOnce
<1>16. SpokenIsTrue'
    <2> SUFFICES ASSUME NEW e \in Deliveries, work'[e].answer = "added"
                 PROVE  \E i \in DOMAIN log' : log'[i].req = work'[e].req
                                              /\ (work'[e].ran => log'[i].note = work'[e].note)
        BY DEF SpokenIsTrue
    <2>1. CASE e = d
        BY <1>3, <1>4, <1>6, <2>1
    <2>2. CASE e # d
        BY <1>4, <1>6, <2>2 DEF SpokenIsTrue
    <2> QED
        BY <2>1, <2>2
<1>17. OneVerdict'
    BY <1>3, <1>4 DEF OneVerdict
<1> QED
    BY <1>9, <1>10, <1>12, <1>14, <1>15, <1>16, <1>17

\* The owner of the pending row stores its answer.
LEMMA StoreKeeps ==
    ASSUME AlexaInv, NEW d \in Deliveries, work[d].pc = "spoken",
           rows[work[d].req].status = "pending", rows[work[d].req].owner = d,
           rows' = [rows EXCEPT ![work[d].req] = Completed(d)], Step(d, "done"),
           UNCHANGED <<clock, lists, edits, faults>>
    PROVE  AlexaInv'
<1> USE DEF AlexaInv
<1> DEFINE q == work[d].req
           w == [work[d] EXCEPT !.pc = "done"]
<1>1. /\ TypeOK /\ work[d] \in WorkRows /\ work \in [Deliveries -> WorkRows]
      /\ w \in WorkRows /\ work' = [work EXCEPT ![d] = w]
    BY Moves DEF Answers
<1>2. q \in Requests /\ work[d].answer \in Final /\ work[d].ran
    BY <1>1 DEF WorkRows, WorkIsInOrder
<1>3. /\ w.pc = "done" /\ w.answer = work[d].answer /\ w.req = q
      /\ w.ran /\ w.ran = work[d].ran /\ w.at = work[d].at /\ w.note = work[d].note
    BY <1>1, <1>2 DEF WorkRows
<1>4. \A e \in Deliveries : work'[e] = IF e = d THEN w ELSE work[e]
    BY <1>1
<1> HIDE DEF w
<1>5. /\ clock \in Nat /\ ResultTTL \in Nat /\ ResultTTL > 0 /\ work[d].at \in Nat /\ work[d].at <= clock
    BY <1>1 DEF TypeOK, WorkRows, WorkIsInOrder
<1>6. /\ Completed(d) \in CompletedRows /\ Completed(d).status = "completed"
      /\ Completed(d).answer = work[d].answer /\ Completed(d).expires = clock + ResultTTL
    BY <1>1, <1>2, <1>5 DEF Completed, CompletedRows, WorkRows
<1>7. \A r \in Requests : rows'[r] = IF r = q THEN Completed(d) ELSE rows[r]
    BY <1>1, <1>2 DEF TypeOK
<1>8. TypeOK'
    <2>1. rows' \in [Requests -> {NoRow} \union PendingRows \union CompletedRows]
        BY <1>1, <1>6, <1>7 DEF TypeOK, PendingRows, CompletedRows
    <2>2. work' \in [Deliveries -> WorkRows]
        BY <1>1
    <2> QED
        BY <1>1, <2>1, <2>2 DEF TypeOK, lists, WorkRows, PendingRows, CompletedRows
<1>9. WorkIsInOrder'
    BY <1>3, <1>4 DEF WorkIsInOrder
<1>10. AcceptedFirst'
    <2>1. work[d].answer = "added" => \E i \in DOMAIN log : log[i].req = q
        BY DEF SpokenIsTrue
    <2> QED
        BY <1>6, <1>7, <2>1 DEF AcceptedFirst, Accepted, lists
<1>11. \A e \in Deliveries \ {d} : Told(e)' <=> Told(e)
    BY <1>4 DEF Told
\* Whoever told the answer of this request before started a lifetime earlier.
<1>12. \A e \in Deliveries \ {d} : Told(e) /\ work[e].req = q => work[e].at + ResultTTL <= work[d].at
    BY DEF VerdictsLast
<1>13. VerdictsLast'
    <2> SUFFICES ASSUME NEW e \in Deliveries, Told(e)'
                 PROVE  LET r == work'[e].req  over == work'[e].at + ResultTTL IN
                    /\ over <= clock \/ (rows'[r].status = "completed" /\ over <= rows'[r].expires)
                    /\ \A f \in Deliveries \ {e} :
                        /\ work'[f].req = r /\ rows'[r].status = "pending" /\ rows'[r].owner = f
                        /\ work'[f].pc \in Active
                        => over <= work'[f].at
        BY DEF VerdictsLast, Active
    <2>1. CASE e = d
        BY <1>2, <1>3, <1>4, <1>5, <1>6, <1>7, <2>1
    <2>2. CASE e # d /\ work[e].req = q
        <3>1. work[e].at \in Nat
            BY <1>1 DEF WorkRows
        <3> QED
            BY <1>2, <1>4, <1>5, <1>6, <1>7, <1>11, <1>12, <2>2, <3>1
    <2>3. CASE e # d /\ work[e].req # q
        <3>1. Told(e) /\ work'[e] = work[e] /\ work[e].req \in Requests
            BY <1>1, <1>4, <1>11, <2>3 DEF WorkRows
        <3>2. rows'[work[e].req] = rows[work[e].req]
            BY <1>7, <2>3, <3>1
        <3> QED
            BY <1>3, <1>4, <2>3, <3>1, <3>2 DEF VerdictsLast, Active
    <2> QED
        BY <2>1, <2>2, <2>3
<1>14. ItemAddedOnce' /\ SpokenIsTrue'
    <2>1. log' = log
        BY DEF lists
    <2>2. \A e \in Deliveries : /\ work'[e].answer = work[e].answer /\ work'[e].req = work[e].req
                               /\ work'[e].ran = work[e].ran /\ work'[e].note = work[e].note
        BY <1>2, <1>3, <1>4
    <2> QED
        BY <2>1, <2>2 DEF ItemAddedOnce, SpokenIsTrue
<1>15. OneVerdict'
    <2>1. \A e \in Deliveries : work[e].at \in Nat
        BY <1>1 DEF WorkRows
    <2>2. \A e \in Deliveries \ {d} : work[e].ran /\ work[e].pc = "done" /\ work[e].answer \in Final => Told(e)
        BY DEF Told
    <2> QED
        BY <1>3, <1>4, <1>5, <1>12, <2>1, <2>2 DEF OneVerdict
<1> QED
    BY <1>8, <1>9, <1>10, <1>13, <1>14, <1>15

LEMMA FinishKeeps ==
    ASSUME AlexaInv, NEW d \in Deliveries, Finish(d)
    PROVE  AlexaInv'
<1>1. TypeOK /\ work[d].pc = "spoken" /\ work[d] \in WorkRows /\ work \in [Deliveries -> WorkRows]
    BY Moves DEF AlexaInv, Answers, Finish, At
<1>2. CASE rows[work[d].req].status = "pending" /\ rows[work[d].req].owner = d
    BY <1>1, <1>2, StoreKeeps DEF Finish, Complete
<1>3. CASE ~(rows[work[d].req].status = "pending" /\ rows[work[d].req].owner = d)
    <2>1. UNCHANGED rows /\ Speak(d, "done", "error")
        BY <1>3 DEF Finish, Complete
    <2> DEFINE w == [work[d] EXCEPT !.pc = "done", !.answer = "error"]
    <2>2. w \in WorkRows /\ work' = [work EXCEPT ![d] = w]
        BY <1>1, <2>1, Moves DEF Answers
    <2>3. w.pc = "done" /\ w.answer = "error" /\ w.req = work[d].req /\ w.at = work[d].at /\ w.ran = work[d].ran
        BY <1>1 DEF WorkRows
    <2>4. TypeOK'
        <3>1. work' \in [Deliveries -> WorkRows]
            BY <1>1, <2>2
        <3>2. rows' = [r \in Requests |-> rows'[r]]
            BY <1>1, <2>1 DEF TypeOK
        <3> QED
            BY <1>1, <2>1, <3>1, <3>2, TypeOfWork DEF Finish, TypeOK
    <2> QED
        BY <2>1, <2>2, <2>3, <2>4, QuietStep DEF Finish, lists, Active, Final
<1> QED
    BY <1>2, <1>3

LEMMA EditKeeps ==
    ASSUME AlexaInv, Edit
    PROVE  AlexaInv'
<1> USE DEF AlexaInv
<1>1. UNCHANGED <<clock, rows, work, faults, log>> /\ shown' \subseteq shown
    BY DEF Edit, Rename, Remove
<1>2. TypeOK'
    <2>1. titled' \subseteq Notes /\ rev' \in [Notes -> Nat]
        <3>1. PICK n \in Notes : Rename(n) \/ \E r \in Requests : Remove(n, r)
            BY DEF Edit
        <3>2. CASE Rename(n)
            BY <3>2 DEF Rename, TypeOK
        <3>3. CASE \E r \in Requests : Remove(n, r)
            BY <3>3 DEF Remove, TypeOK
        <3> QED
            BY <3>1, <3>2, <3>3
    <2>2. edits' \in 0..MaxEdits
        BY DEF Edit, TypeOK
    <2> QED
        BY <1>1, <2>1, <2>2 DEF TypeOK
<1>3. WorkIsInOrder' /\ VerdictsLast' /\ OneVerdict' /\ ItemAddedOnce' /\ SpokenIsTrue'
    BY <1>1 DEF WorkIsInOrder, VerdictsLast, Told, OneVerdict, ItemAddedOnce, SpokenIsTrue
<1>4. AcceptedFirst'
    BY <1>1 DEF AcceptedFirst, Accepted
<1> QED
    BY <1>2, <1>3, <1>4

LEMMA TickKeeps ==
    ASSUME AlexaInv, Tick
    PROVE  AlexaInv'
<1> USE DEF AlexaInv
<1>1. UNCHANGED <<rows, work, lists, edits, faults>> /\ clock \in Nat /\ clock' = clock + 1
    BY DEF Tick, TypeOK
<1>2. \A d \in Deliveries : work[d].at \in Nat
    BY DEF TypeOK
<1>3. TypeOK'
    BY <1>1 DEF Tick, TypeOK, lists
<1>4. WorkIsInOrder'
    BY <1>1, <1>2 DEF WorkIsInOrder
<1>5. AcceptedFirst' /\ ItemAddedOnce' /\ SpokenIsTrue' /\ OneVerdict'
    BY <1>1 DEF AcceptedFirst, Accepted, ItemAddedOnce, SpokenIsTrue, OneVerdict, lists
<1>6. VerdictsLast'
    BY <1>1, <1>2 DEF VerdictsLast, Told
<1> QED
    BY <1>3, <1>4, <1>5, <1>6

-------------------------------------------------------------------------------

\* Type correctness and the properties below hold in every reachable state,
\* however often requests are delivered and whatever stops their handlers.
THEOREM AlexaInvariant == Spec => []AlexaInv
<1>1. AlexaInv /\ [Next]_vars => AlexaInv'
    <2> SUFFICES ASSUME AlexaInv, [Next]_vars PROVE AlexaInv'
        OBVIOUS
    <2>1. CASE UNCHANGED vars
        BY <2>1 DEF vars, lists, AlexaInv, TypeOK, WorkIsInOrder, AcceptedFirst, Accepted, VerdictsLast, Told,
                    ItemAddedOnce, SpokenIsTrue, OneVerdict
    <2>2. ASSUME NEW d \in Deliveries, AddItem(d) PROVE AlexaInv'
        BY <2>2, AcceptKeeps, RunKeeps DEF AddItem, SyncItem
    <2> QED
        BY <2>1, <2>2, ReceiveKeeps, BeginKeeps, RunKeeps, FinishKeeps, EditKeeps, TickKeeps DEF Next
<1> QED
    BY <1>1, InitAlexa, PTL DEF Spec

\* A list receives the item of a request at most once (shoppinglist.AddItem).
THEOREM ListsGetItemsOnce == Spec => []ItemAddedOnce
<1>1. AlexaInv => ItemAddedOnce
    BY DEF AlexaInv
<1> QED
    BY <1>1, AlexaInvariant, PTL

\* The skill says "added" only of an item that a list received.
THEOREM AnswersAreTrue == Spec => []SpokenIsTrue
<1>1. AlexaInv => SpokenIsTrue
    BY DEF AlexaInv
<1> QED
    BY <1>1, AlexaInvariant, PTL

\* Stored answers of one request are a lifetime apart
\* (PostgresIdempotencyStore): no delivery hears two of them before.
THEOREM OneAnswerPerLifetime == Spec => []OneVerdict
<1>1. AlexaInv => OneVerdict
    BY DEF AlexaInv
<1> QED
    BY <1>1, AlexaInvariant, PTL
=============================================================================
