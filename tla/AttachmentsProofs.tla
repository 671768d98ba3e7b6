---------------------------- MODULE AttachmentsProofs ----------------------------
(***************************************************************************)
(* Machine-checked proofs about Attachments, for any keys, workers,        *)
(* readers and numbers of intents and faults.                              *)
(***************************************************************************)
EXTENDS Attachments, TLAPS

USE AttachmentsAssumption

-------------------------------------------------------------------------------
(* The parts of the invariant, and lemmas about them.                      *)

RowsOK == \A k \in rows : k \in objects /\ Settled(k)

InsertingOK == \A k \in inserting :
    /\ k \in objects
    /\ uploads[k] \in {"inserting", "failing", "queueing", "failed"}

KeyOK(k) ==
    /\ outbox[k] # NoIntent => Settled(k)
    /\ uploads[k] = "stored" => k \in objects
    /\ uploads[k] = "inserting" => k \in inserting

JobOK(j) ==
    /\ Settled(j.key)
    /\ ~j.referenced => j.key \notin rows
    /\ j.referenced => j.phase = "claimed"
    /\ j.phase = "deleted" => j.key \notin objects

JobsOK == \A w \in Workers : job[w] # Idle => JobOK(job[w])

LEMMA Parts ==
    AttachmentsInv <=> /\ TypeOK /\ RowsOK /\ InsertingOK
                       /\ \A k \in Keys : KeyOK(k)
                       /\ JobsOK /\ StoredIsAccounted
BY DEF AttachmentsInv, RowsOK, InsertingOK, KeyOK, JobsOK, JobOK

LEMMA PartsNext ==
    AttachmentsInv' <=> /\ TypeOK' /\ RowsOK' /\ InsertingOK'
                        /\ \A k \in Keys : KeyOK(k)'
                        /\ JobsOK' /\ StoredIsAccounted'
BY DEF AttachmentsInv, RowsOK, InsertingOK, KeyOK, JobsOK, JobOK

LEMMA InitAttachments == Init => AttachmentsInv
BY DEF Init, AttachmentsInv, TypeOK, NoIntent, Idle, StoredIsAccounted

\* What recording intents does to the outbox.
LEMMA Enqueued ==
    ASSUME TypeOK, NEW ks \in SUBSET Keys, Enqueue(ks)
    PROVE  /\ outbox' \in [Keys -> Intents \union {NoIntent}]
           /\ intents' \in 0..MaxIntents
           /\ \A k \in ks : outbox'[k] # NoIntent
           /\ \A k \in Keys \ ks : outbox'[k] = outbox[k]
<1> DEFINE missing == {k \in ks : outbox[k] = NoIntent}
<1>1. missing # {} => intents + 1 \in 1..MaxIntents
    BY DEF Enqueue, TypeOK
<1>2. missing # {} => [id |-> intents + 1, status |-> "pending"] \in Intents
    BY <1>1 DEF Intents
<1>3. \A i : [id |-> i, status |-> "pending"] # NoIntent
    BY DEF NoIntent
<1>4. outbox' = [k \in Keys |-> IF k \in missing THEN [id |-> intents + 1, status |-> "pending"] ELSE outbox[k]]
    BY DEF Enqueue
<1>5. intents' \in 0..MaxIntents
    BY <1>1 DEF Enqueue, TypeOK
<1> QED
    BY <1>2, <1>3, <1>4, <1>5 DEF TypeOK

\* What a job and an intent look like after a step of their worker.
LEMMA JobTypes ==
    ASSUME TypeOK, NEW w \in Workers, job[w] # Idle
    PROVE  /\ job[w] \in Jobs /\ job[w].key \in Keys
           /\ \A p \in {"claimed", "deleted", "failed"} :
                /\ [job[w] EXCEPT !.phase = p] \in Jobs
                /\ [job[w] EXCEPT !.phase = p].phase = p
                /\ [job[w] EXCEPT !.phase = p].key = job[w].key
                /\ [job[w] EXCEPT !.phase = p].referenced = job[w].referenced
<1>1. job[w] \in Jobs
    BY DEF TypeOK
<1> QED
    BY <1>1 DEF Jobs

LEMMA BusyWorker ==
    ASSUME NEW w, job[w].phase \in {"claimed", "deleted", "failed"}
    PROVE  job[w] # Idle
BY DEF Idle

LEMMA IntentTypes ==
    ASSUME TypeOK, NEW k \in Keys, outbox[k] # NoIntent
    PROVE  /\ outbox[k] \in Intents
           /\ \A s \in {"pending", "processing"} :
                /\ [outbox[k] EXCEPT !.status = s] \in Intents
                /\ [outbox[k] EXCEPT !.status = s] # NoIntent
<1>1. outbox[k] \in Intents
    BY DEF TypeOK
<1>2. \A s \in {"pending", "processing"} : [outbox[k] EXCEPT !.status = s] \in Intents
    BY <1>1 DEF Intents
<1>3. NoIntent \notin Intents
    BY DEF NoIntent, Intents
<1> QED
    BY <1>1, <1>2, <1>3

\* The sets of keys hold keys, and a busy worker has one.
LEMMA KeysOnly ==
    ASSUME TypeOK
    PROVE  /\ rows \subseteq Keys /\ inserting \subseteq Keys /\ objects \subseteq Keys
           /\ \A w \in Workers : job[w] # Idle => job[w].key \in Keys
BY JobTypes DEF TypeOK

-------------------------------------------------------------------------------
(* The steps of uploads.                                                   *)

\* A step of the upload of one key that leaves rows, outbox and jobs alone
\* keeps the invariant if it keeps what concerns that key.
LEMMA OneUpload ==
    ASSUME AttachmentsInv, NEW k \in Keys, TypeOK',
           UNCHANGED <<rows, outbox, job>>,
           \A q \in Keys \ {k} : /\ uploads'[q] = uploads[q]
                                 /\ (q \in inserting') <=> (q \in inserting)
                                 /\ (q \in objects') <=> (q \in objects),
           k \in objects => k \in objects',
           abandoned \subseteq abandoned' /\ discarded \subseteq discarded',
           Settled(k) => Settled(k)',
           k \in inserting' => /\ k \in objects'
                               /\ uploads'[k] \in {"inserting", "failing", "queueing", "failed"},
           uploads'[k] = "stored" => k \in objects',
           uploads'[k] = "inserting" => k \in inserting',
           k \in objects /\ Settled(k) => k \in objects' /\ (k \in objects <=> k \in objects'),
           ~Settled(k) \/ (k \in objects <=> k \in objects'),
           k \in objects' => Accounted(k)' \/ k \in Forgotten'
    PROVE  AttachmentsInv'
<1>1. /\ TypeOK /\ RowsOK /\ InsertingOK /\ (\A q \in Keys : KeyOK(q)) /\ JobsOK /\ StoredIsAccounted
    BY Parts
<1>2. /\ rows \subseteq Keys /\ inserting' \subseteq Keys /\ objects' \subseteq Keys
      /\ \A w \in Workers : job[w] # Idle => job[w].key \in Keys
    BY <1>1, KeysOnly DEF TypeOK
<1>3. \A q \in Keys : Settled(q) => Settled(q)'
    BY DEF Settled
<1>4. RowsOK'
    BY <1>1, <1>2, <1>3 DEF RowsOK
<1>5. InsertingOK'
    BY <1>1, <1>2 DEF InsertingOK
<1>6. \A q \in Keys : KeyOK(q)'
    <2>1. ASSUME NEW q \in Keys
          PROVE  KeyOK(q)'
        <3>1. CASE q = k
            BY <1>1, <1>3, <3>1 DEF KeyOK
        <3>2. CASE q # k
            BY <1>1, <1>3, <3>2 DEF KeyOK
        <3> QED
            BY <3>1, <3>2
    <2> QED
        BY <2>1
<1>7. JobsOK'
    <2>1. ASSUME NEW w \in Workers, job[w] # Idle
          PROVE  JobOK(job[w])'
        <3>1. JobOK(job[w]) /\ job[w].key \in Keys
            BY <1>1, <1>2, <2>1 DEF JobsOK
        <3>2. Settled(job[w].key)' /\ (job[w].key \in objects' <=> job[w].key \in objects)
            BY <1>3, <3>1 DEF JobOK
        <3> QED
            BY <3>1, <3>2 DEF JobOK
    <2> QED
        BY <2>1 DEF JobsOK
<1>8. StoredIsAccounted'
    BY <1>1, <1>2 DEF StoredIsAccounted, Accounted, Referenced, Forgotten
<1> QED
    BY <1>4, <1>5, <1>6, <1>7, <1>8, PartsNext

LEMMA UploadSteps ==
    ASSUME AttachmentsInv, NEW k \in Keys,
           \/ \E u \in Users : Upload(k, u)
           \/ StoreObject(k) \/ InsertAttachment(k) \/ LoseInsert(k) \/ UploadFailure(k) \/ Abandon(k)
    PROVE  AttachmentsInv'
<1> USE DEF To, tables, permission, history
<1>1. /\ TypeOK /\ RowsOK /\ InsertingOK /\ KeyOK(k) /\ StoredIsAccounted
    BY Parts
<1>2. uploads \in [Keys -> {"new", "storing", "stored", "inserting", "failing", "queueing", "done", "failed"}]
    BY <1>1 DEF TypeOK
<1>3. k \in objects => Accounted(k) \/ k \in Forgotten
    BY <1>1 DEF StoredIsAccounted
<1>4. k \in inserting => k \in objects /\ uploads[k] \in {"inserting", "failing", "queueing", "failed"}
    BY <1>1 DEF InsertingOK
<1>5. CASE \E u \in Users : Upload(k, u)
    <2>1. TypeOK'
        BY <1>1, <1>5 DEF Upload, TypeOK
    <2> QED
        BY <1>1, <1>2, <1>3, <1>4, <1>5, <2>1, OneUpload
        DEF Upload, Settled, Accounted, Referenced, Forgotten
<1>6. CASE StoreObject(k)
    <2>1. TypeOK'
        BY <1>1, <1>6 DEF StoreObject, Fault, TypeOK
    <2> QED
        BY <1>1, <1>2, <1>3, <1>4, <1>6, <2>1, OneUpload
        DEF StoreObject, Settled, Accounted, Referenced, Forgotten
<1>7. CASE InsertAttachment(k)
    <2>1. TypeOK'
        BY <1>1, <1>7 DEF InsertAttachment, TypeOK
    <2> QED
        BY <1>1, <1>2, <1>3, <1>4, <1>7, <2>1, OneUpload
        DEF InsertAttachment, Settled, Accounted, Referenced, Forgotten, KeyOK
<1>8. CASE LoseInsert(k)
    <2>1. TypeOK'
        BY <1>1, <1>8 DEF LoseInsert, Fault, TypeOK
    <2> QED
        BY <1>1, <1>2, <1>3, <1>4, <1>8, <2>1, OneUpload
        DEF LoseInsert, Settled, Accounted, Referenced, Forgotten, KeyOK
<1>9. CASE UploadFailure(k)
    <2>1. TypeOK'
        BY <1>1, <1>9 DEF UploadFailure, TypeOK
    <2> QED
        BY <1>1, <1>2, <1>3, <1>4, <1>9, <2>1, OneUpload
        DEF UploadFailure, Settled, Accounted, Referenced, Forgotten, KeyOK
<1>10. CASE Abandon(k)
    <2>1. TypeOK'
        BY <1>1, <1>10 DEF Abandon, Fault, TypeOK
    <2> QED
        BY <1>1, <1>2, <1>3, <1>4, <1>10, <2>1, OneUpload
        DEF Abandon, Settled, Accounted, Referenced, Forgotten, KeyOK
<1> QED
    BY <1>5, <1>6, <1>7, <1>8, <1>9, <1>10

\* The end of an insertion may give the key its row: no worker and no intent
\* held the key.
LEMMA EndOfInsert ==
    ASSUME AttachmentsInv, NEW k \in Keys, EndInsert(k)
    PROVE  AttachmentsInv'
<1>1. /\ TypeOK /\ RowsOK /\ InsertingOK /\ (\A q \in Keys : KeyOK(q)) /\ JobsOK /\ StoredIsAccounted
    BY Parts
<1>2. /\ k \in inserting /\ inserting' = inserting \ {k}
      /\ rows' \in {rows, rows \union {k}}
      /\ uploads[k] = "inserting" => \/ uploads' = [uploads EXCEPT ![k] = "done"] /\ k \in rows'
                                     \/ uploads' = [uploads EXCEPT ![k] = "failing"]
      /\ uploads[k] # "inserting" => uploads' = uploads
      /\ UNCHANGED <<note, share, outbox, objects, deleting, download, job, intents, history>>
    BY DEF EndInsert, To, permission
<1>3. TypeOK'
    BY <1>1, <1>2 DEF EndInsert, To, Fault, TypeOK, history
<1>4. /\ k \in objects /\ uploads[k] \in {"inserting", "failing", "queueing", "failed"}
      /\ uploads'[k] \in {"done", "failing", "queueing", "failed"}
      /\ uploads[k] # "inserting" => uploads'[k] = uploads[k]
      /\ uploads'[k] = "failed" => uploads[k] = "failed"
      /\ uploads'[k] = "done" => k \in rows'
      /\ \A q \in Keys \ {k} : uploads'[q] = uploads[q]
    BY <1>1, <1>2 DEF InsertingOK, TypeOK
<1>5. /\ ~Settled(k) /\ Settled(k)'
      /\ \A q \in Keys \ {k} : Settled(q) <=> Settled(q)'
    BY <1>2, <1>4 DEF Settled
<1>6. rows' \subseteq Keys /\ inserting' \subseteq Keys /\ objects \subseteq Keys
    BY <1>1, <1>2, KeysOnly
<1>7. RowsOK'
    BY <1>1, <1>2, <1>4, <1>5, <1>6 DEF RowsOK
<1>8. InsertingOK'
    BY <1>1, <1>2, <1>4, <1>6 DEF InsertingOK
<1>9. \A q \in Keys : KeyOK(q)'
    <2>1. ASSUME NEW q \in Keys
          PROVE  KeyOK(q)'
        <3>1. CASE q = k
            BY <1>4, <1>5, <3>1 DEF KeyOK
        <3>2. CASE q # k
            BY <1>1, <1>2, <1>4, <1>5, <3>2 DEF KeyOK
        <3> QED
            BY <3>1, <3>2
    <2> QED
        BY <2>1
<1>10. JobsOK'
    <2>1. ASSUME NEW w \in Workers, job[w] # Idle
          PROVE  JobOK(job[w])'
        <3>1. JobOK(job[w]) /\ job[w].key \in Keys
            BY <1>1, <2>1, KeysOnly DEF JobsOK
        <3>2. job[w].key # k
            BY <1>5, <3>1 DEF JobOK
        <3>3. Settled(job[w].key)' /\ (job[w].key \in rows' <=> job[w].key \in rows)
            BY <1>2, <1>5, <3>1, <3>2 DEF JobOK
        <3> QED
            BY <1>2, <3>1, <3>3 DEF JobOK
    <2> QED
        BY <1>2, <2>1 DEF JobsOK
<1>11. StoredIsAccounted'
    <2>1. ASSUME NEW q \in objects
          PROVE  Accounted(q)' \/ q \in Forgotten'
        <3>1. Accounted(q) \/ q \in Forgotten
            BY <1>1, <2>1 DEF StoredIsAccounted
        <3>2. CASE q = k
            BY <1>2, <1>4, <3>1, <3>2 DEF Accounted, Referenced, Forgotten, history
        <3>3. CASE q # k
            BY <1>2, <1>4, <1>6, <3>1, <3>3 DEF Accounted, Referenced, Forgotten, history
        <3> QED
            BY <3>2, <3>3
    <2> QED
        BY <1>2, <2>1 DEF StoredIsAccounted
<1> QED
    BY <1>3, <1>7, <1>8, <1>9, <1>10, <1>11, PartsNext

-------------------------------------------------------------------------------
(* The steps that record intents, and the other steps of the tables.       *)

\* Rows may go and intents may come, for keys past their insertion, when each
\* key that loses its row gets an intent.
LEMMA RowsGo ==
    ASSUME AttachmentsInv, TypeOK',
           UNCHANGED <<inserting, objects, job, history>>,
           rows' \subseteq rows,
           \A q \in Keys : /\ outbox[q] # NoIntent => outbox'[q] # NoIntent
                           /\ q \in rows \ rows' => outbox'[q] # NoIntent
                           /\ outbox'[q] # NoIntent => Settled(q) /\ Settled(q)'
                           /\ uploads'[q] = uploads[q] \/ (outbox'[q] # NoIntent /\ uploads'[q] = "failed")
    PROVE  AttachmentsInv'
<1>1. /\ TypeOK /\ RowsOK /\ InsertingOK /\ (\A q \in Keys : KeyOK(q)) /\ JobsOK /\ StoredIsAccounted
    BY Parts
<1>2. /\ rows' \subseteq Keys /\ inserting \subseteq Keys /\ objects \subseteq Keys
      /\ \A w \in Workers : job[w] # Idle => job[w].key \in Keys
    BY <1>1, KeysOnly
<1>3. \A q \in Keys : Settled(q) => Settled(q)'
    BY DEF Settled
<1>4. RowsOK'
    BY <1>1, <1>2, <1>3 DEF RowsOK
<1>5. InsertingOK'
    BY <1>1, <1>2 DEF InsertingOK, Settled
<1>6. \A q \in Keys : KeyOK(q)'
    BY <1>1 DEF KeyOK
<1>7. JobsOK'
    BY <1>1, <1>2, <1>3 DEF JobsOK, JobOK
<1>8. StoredIsAccounted'
    BY <1>1, <1>2 DEF StoredIsAccounted, Accounted, Referenced, Forgotten, history
<1> QED
    BY <1>4, <1>5, <1>6, <1>7, <1>8, PartsNext

LEMMA DeletionSteps ==
    ASSUME AttachmentsInv,
           \/ \E k \in Keys, u \in Users : AuthoriseDelete(k, u)
           \/ \E k \in Keys : DeleteAttachment(k) \/ EnqueueDeletion(k)
           \/ DeleteNote \/ HardDeleteOldNotes \/ ChangeShare
    PROVE  AttachmentsInv'
<1> USE DEF tables, permission, requests
<1>0. /\ TypeOK /\ RowsOK /\ InsertingOK /\ (\A q \in Keys : KeyOK(q)) /\ rows \subseteq Keys
    BY Parts, KeysOnly
<1>1. ASSUME NEW k \in Keys, NEW u \in Users, AuthoriseDelete(k, u) PROVE AttachmentsInv'
    <2>1. TypeOK'
        BY <1>0, <1>1 DEF AuthoriseDelete, TypeOK, history
    <2> QED
        BY <1>0, <1>1, <2>1, RowsGo DEF AuthoriseDelete, KeyOK, Settled
<1>2. ASSUME NEW k \in Keys, DeleteAttachment(k) PROVE AttachmentsInv'
    <2>1. CASE k \in rows
        <3>1. Enqueue({k}) /\ {k} \in SUBSET Keys
            BY <1>2, <2>1 DEF DeleteAttachment, Referenced
        <3>2. TypeOK'
            BY <1>0, <1>2, <3>1, Enqueued DEF DeleteAttachment, TypeOK, history
        <3>3. \A q \in Keys : Settled(q) <=> Settled(q)'
            BY <1>2 DEF DeleteAttachment, Settled
        <3>4. Settled(k)
            BY <1>0, <2>1 DEF RowsOK
        <3>5. \A q \in Keys : (q # k => outbox'[q] = outbox[q]) /\ (q = k => outbox'[q] # NoIntent)
            BY <1>0, <3>1, Enqueued
        <3> QED
            BY <1>0, <1>2, <3>2, <3>3, <3>4, <3>5, RowsGo DEF DeleteAttachment, KeyOK
    <2>2. CASE k \notin rows
        <3>1. TypeOK'
            BY <1>0, <1>2, <2>2 DEF DeleteAttachment, Referenced, TypeOK, history
        <3> QED
            BY <1>0, <1>2, <2>2, <3>1, RowsGo DEF DeleteAttachment, Referenced, KeyOK, Settled
    <2> QED
        BY <2>1, <2>2
<1>3. ASSUME NEW k \in Keys, EnqueueDeletion(k) PROVE AttachmentsInv'
    <2>1. Enqueue({k}) /\ {k} \in SUBSET Keys
        BY <1>3 DEF EnqueueDeletion
    <2>2. TypeOK'
        BY <1>0, <1>3, <2>1, Enqueued DEF EnqueueDeletion, To, TypeOK, history
    <2>3. /\ Settled(k) /\ Settled(k)' /\ uploads'[k] = "failed"
          /\ \A q \in Keys \ {k} : uploads'[q] = uploads[q] /\ (Settled(q) <=> Settled(q)')
        BY <1>0, <1>3 DEF EnqueueDeletion, To, Settled, TypeOK
    <2>4. \A q \in Keys : (q # k => outbox'[q] = outbox[q]) /\ (q = k => outbox'[q] # NoIntent)
        BY <1>0, <2>1, Enqueued
    <2> QED
        BY <1>0, <1>3, <2>2, <2>3, <2>4, RowsGo DEF EnqueueDeletion, KeyOK
<1>4. CASE DeleteNote \/ ChangeShare
    <2>1. TypeOK'
        BY <1>0, <1>4 DEF DeleteNote, ChangeShare, TypeOK, history
    <2> QED
        BY <1>0, <1>4, <2>1, RowsGo DEF DeleteNote, ChangeShare, KeyOK, Settled
<1>5. CASE HardDeleteOldNotes
    <2>1. Enqueue(rows) /\ rows \in SUBSET Keys
        BY <1>0, <1>5 DEF HardDeleteOldNotes
    <2>2. TypeOK'
        BY <1>0, <1>5, <2>1, Enqueued DEF HardDeleteOldNotes, TypeOK, history
    <2>3. \A q \in Keys : (q \notin rows => outbox'[q] = outbox[q]) /\ (q \in rows => outbox'[q] # NoIntent)
        BY <1>0, <2>1, Enqueued
    <2>4. \A q \in Keys : Settled(q) <=> Settled(q)'
        BY <1>5 DEF HardDeleteOldNotes, Settled
    <2> QED
        BY <1>0, <1>5, <2>2, <2>3, <2>4, RowsGo DEF HardDeleteOldNotes, KeyOK, RowsOK
<1> QED
    BY <1>1, <1>2, <1>3, <1>4, <1>5

-------------------------------------------------------------------------------
(* The steps of the workers and of the downloads.                          *)

\* A worker changes its own job, keys' intents and objects: the invariant
\* stays when the new job is right, other workers' objects do not come back,
\* and every object that stays is accounted for.
LEMMA OneWorker ==
    ASSUME AttachmentsInv, NEW w \in Workers, TypeOK',
           UNCHANGED <<rows, inserting, uploads>>,
           \A v \in Workers \ {w} : job'[v] = job[v],
           job'[w] # Idle => JobOK(job[w])',
           \A q \in Keys : outbox'[q] # NoIntent => outbox[q] # NoIntent,
           objects' \subseteq objects,
           \A q \in objects \ objects' : q \notin rows /\ Settled(q),
           StoredIsAccounted'
    PROVE  AttachmentsInv'
<1>1. /\ TypeOK /\ RowsOK /\ InsertingOK /\ (\A q \in Keys : KeyOK(q)) /\ JobsOK
    BY Parts
<1>2. /\ rows \subseteq Keys /\ inserting \subseteq Keys
      /\ \A q : Settled(q) <=> Settled(q)'
    BY <1>1, KeysOnly DEF Settled
<1>3. RowsOK' /\ InsertingOK'
    BY <1>1, <1>2 DEF RowsOK, InsertingOK, Settled
<1>4. \A q \in Keys : KeyOK(q)'
    BY <1>1, <1>2 DEF KeyOK, Settled
<1>5. JobsOK'
    <2>1. ASSUME NEW v \in Workers \ {w}, job'[v] # Idle
          PROVE  JobOK(job[v])'
        <3>1. job'[v] = job[v] /\ JobOK(job[v])
            BY <1>1, <2>1 DEF JobsOK
        <3>2. job[v].key \notin objects => job[v].key \notin objects'
            OBVIOUS
        <3> QED
            BY <1>2, <3>1, <3>2 DEF JobOK
    <2> QED
        BY <2>1 DEF JobsOK
<1> QED
    BY <1>3, <1>4, <1>5, PartsNext

LEMMA Claims ==
    ASSUME AttachmentsInv, NEW w \in Workers, NEW k \in Keys, ClaimAttachmentDeletion(w, k)
    PROVE  AttachmentsInv'
<1>1. TypeOK /\ KeyOK(k) /\ StoredIsAccounted
    BY Parts
<1>2. /\ outbox[k] # NoIntent /\ outbox[k] \in Intents /\ Settled(k)
      /\ outbox' = [outbox EXCEPT ![k] = [outbox[k] EXCEPT !.status = "processing"]]
      /\ job' = [job EXCEPT ![w] = Claimed(k)]
      /\ UNCHANGED <<note, share, rows, inserting, objects, uploads, deleting, download, intents, faults,
                     abandoned, discarded>>
    BY <1>1, IntentTypes DEF ClaimAttachmentDeletion, KeyOK, permission, requests, history
<1>3. PICK ref \in BOOLEAN : ref = (k \in rows)
    <2>1. CASE k \in rows
        <3>1. (k \in rows) = TRUE
            BY <2>1
        <3> QED
            BY <3>1, Zenon
    <2>2. CASE k \notin rows
        <3>1. (k \in rows) = FALSE
            BY <2>2
        <3> QED
            BY <3>1, Zenon
    <2> QED
        BY <2>1, <2>2
<1>4. PICK j : j = [phase |-> "claimed", key |-> k, id |-> outbox[k].id, referenced |-> ref]
    OBVIOUS
<1>5. /\ Claimed(k) = j /\ j.key = k /\ j.phase = "claimed" /\ j.referenced = ref
    BY <1>3, <1>4 DEF Claimed, Referenced
<1>6. j \in Jobs
    <2>1. outbox[k].id \in 1..MaxIntents
        BY <1>2 DEF Intents
    <2> QED
        BY <1>4, <2>1 DEF Jobs
<1>7. /\ job' \in [Workers -> Jobs \union {Idle}] /\ job'[w] = j
      /\ \A v \in Workers \ {w} : job'[v] = job[v]
    BY <1>1, <1>2, <1>5, <1>6 DEF TypeOK
<1>8. /\ outbox' \in [Keys -> Intents \union {NoIntent}]
      /\ \A q \in Keys : outbox'[q] = NoIntent <=> outbox[q] = NoIntent
    BY <1>1, <1>2, IntentTypes DEF TypeOK
<1>9. TypeOK'
    BY <1>1, <1>2, <1>7, <1>8 DEF TypeOK
<1>10. JobOK(job[w])'
    BY <1>2, <1>3, <1>5, <1>7 DEF JobOK, Settled
<1>11. StoredIsAccounted'
    <2>1. objects \subseteq Keys
        BY <1>1, KeysOnly
    <2> QED
        BY <1>1, <1>2, <1>8, <2>1 DEF StoredIsAccounted, Accounted, Referenced, Forgotten
<1> QED
    BY <1>2, <1>7, <1>8, <1>9, <1>10, <1>11, OneWorker

LEMMA Deletes ==
    ASSUME AttachmentsInv, NEW w \in Workers, DeleteObject(w)
    PROVE  AttachmentsInv'
<1>1. TypeOK /\ JobsOK /\ StoredIsAccounted
    BY Parts
<1>2. /\ job[w] # Idle /\ ~job[w].referenced
      /\ UNCHANGED <<note, share, rows, inserting, outbox, uploads, deleting, download, intents,
                     abandoned, discarded>>
    BY BusyWorker DEF DeleteObject, permission, tables, requests, history
<1>3. PICK p \in {"deleted", "failed"} :
        /\ job' = [job EXCEPT ![w] = [job[w] EXCEPT !.phase = p]]
        /\ objects' = IF p = "deleted" THEN objects \ {job[w].key} ELSE objects
        /\ faults' \in 0..MaxFaults
    BY <1>1 DEF DeleteObject, Fault, TypeOK
<1>4. PICK j : j = [job[w] EXCEPT !.phase = p]
    OBVIOUS
<1>5. j \in Jobs /\ j.phase = p /\ j.key = job[w].key /\ j.referenced = job[w].referenced
    BY <1>1, <1>2, <1>4, JobTypes
<1>6. /\ job' \in [Workers -> Jobs \union {Idle}] /\ job'[w] = j
      /\ \A v \in Workers \ {w} : job'[v] = job[v]
    BY <1>1, <1>3, <1>4, <1>5 DEF TypeOK
<1>7. TypeOK'
    BY <1>1, <1>2, <1>3, <1>6 DEF TypeOK
<1>8. job[w].key \notin rows /\ Settled(job[w].key)
    BY <1>1, <1>2 DEF JobsOK, JobOK
<1>9. JobOK(job[w])'
    BY <1>2, <1>3, <1>5, <1>6, <1>8 DEF JobOK, Settled
<1>10. objects' \subseteq objects /\ \A q \in objects \ objects' : q = job[w].key
    BY <1>3
<1>11. StoredIsAccounted'
    BY <1>1, <1>2, <1>10 DEF StoredIsAccounted, Accounted, Referenced, Forgotten
<1> QED
    BY <1>2, <1>6, <1>7, <1>8, <1>9, <1>10, <1>11, OneWorker

\* An intent goes only with its object, or when the key is referenced, or the
\* key is forgotten.
LEMMA Completes ==
    ASSUME AttachmentsInv, NEW w \in Workers, CompleteAttachmentDeletion(w)
    PROVE  AttachmentsInv'
<1>1. TypeOK /\ JobsOK /\ StoredIsAccounted
    BY Parts
<1>2. job[w] # Idle
    BY BusyWorker DEF CompleteAttachmentDeletion
<1>3. PICK k \in Keys : k = job[w].key
    BY <1>1, <1>2, JobTypes
<1>4. /\ \/ outbox' = outbox
         \/ /\ outbox' = [outbox EXCEPT ![k] = NoIntent]
            /\ job[w].referenced /\ k \notin rows => k \in discarded'
      /\ discarded' \in {discarded, discarded \union {k}}
      /\ job' = [job EXCEPT ![w] = Idle]
      /\ UNCHANGED <<note, share, rows, inserting, objects, uploads, deleting, download, intents, faults,
                     abandoned>>
    BY <1>3 DEF CompleteAttachmentDeletion, Referenced, permission, requests
<1>5. /\ outbox' \in [Keys -> Intents \union {NoIntent}]
      /\ \A q \in Keys : outbox'[q] # outbox[q] =>
            q = k /\ outbox'[q] = NoIntent /\ (job[w].referenced /\ k \notin rows => k \in discarded')
    BY <1>1, <1>4 DEF TypeOK
<1>6. /\ job' \in [Workers -> Jobs \union {Idle}] /\ job'[w] = Idle
      /\ \A v \in Workers \ {w} : job'[v] = job[v]
    BY <1>1, <1>4 DEF TypeOK
<1>7. TypeOK'
    BY <1>1, <1>4, <1>5, <1>6 DEF TypeOK
<1>8. k \notin objects \/ job[w].referenced
    BY <1>1, <1>2, <1>3 DEF CompleteAttachmentDeletion, JobsOK, JobOK
<1>9. StoredIsAccounted'
    <2>1. ASSUME NEW q \in objects
          PROVE  Accounted(q)' \/ q \in Forgotten'
        <3>1. (Accounted(q) \/ q \in Forgotten) /\ q \in Keys
            BY <1>1, <2>1, KeysOnly DEF StoredIsAccounted
        <3>2. CASE outbox'[q] = outbox[q]
            BY <1>4, <3>1, <3>2 DEF Accounted, Referenced, Forgotten
        <3>3. CASE outbox'[q] # outbox[q]
            BY <1>4, <1>5, <1>8, <2>1, <3>1, <3>3 DEF Accounted, Referenced, Forgotten
        <3> QED
            BY <3>2, <3>3
    <2> QED
        BY <1>4, <2>1 DEF StoredIsAccounted
<1>10. \A q \in Keys : outbox'[q] # NoIntent => outbox[q] # NoIntent
    BY <1>5
<1> QED
    BY <1>4, <1>6, <1>7, <1>9, <1>10, OneWorker

LEMMA LetsGo ==
    ASSUME AttachmentsInv, NEW w \in Workers, RetryAttachmentDeletion(w) \/ WorkerDies(w)
    PROVE  AttachmentsInv'
<1>1. TypeOK /\ StoredIsAccounted
    BY Parts
<1>2. /\ UNCHANGED <<note, share, rows, inserting, objects, uploads, deleting, download, intents,
                     abandoned, discarded>>
      /\ job' = [job EXCEPT ![w] = Idle] /\ faults' \in 0..MaxFaults
    BY <1>1 DEF RetryAttachmentDeletion, WorkerDies, Fault, TypeOK, permission, tables, requests, history
<1>3. /\ outbox' \in [Keys -> Intents \union {NoIntent}]
      /\ \A q \in Keys : outbox'[q] = NoIntent <=> outbox[q] = NoIntent
    <2>1. CASE RetryAttachmentDeletion(w)
        <3>1. job[w] # Idle
            BY <2>1, BusyWorker DEF RetryAttachmentDeletion
        <3>2. PICK k \in Keys : k = job[w].key
            BY <1>1, <3>1, JobTypes
        <3>3. job[w].id # 0
            <4>1. job[w] \in Jobs
                BY <1>1, <3>1, JobTypes
            <4> QED
                BY <4>1 DEF Jobs
        <3>4. outbox[k].id = job[w].id => outbox[k] # NoIntent
            BY <3>3 DEF NoIntent
        <3>5. \/ outbox' = outbox
              \/ outbox[k] # NoIntent /\ outbox' = [outbox EXCEPT ![k] = [outbox[k] EXCEPT !.status = "pending"]]
            BY <2>1, <3>2, <3>4 DEF RetryAttachmentDeletion
        <3> QED
            BY <1>1, <3>5, IntentTypes DEF TypeOK
    <2>2. CASE WorkerDies(w)
        BY <1>1, <2>2 DEF WorkerDies, tables, TypeOK
    <2> QED
        BY <2>1, <2>2
<1>4. /\ job' \in [Workers -> Jobs \union {Idle}] /\ job'[w] = Idle
      /\ \A v \in Workers \ {w} : job'[v] = job[v]
    BY <1>1, <1>2 DEF TypeOK
<1>5. TypeOK'
    BY <1>1, <1>2, <1>3, <1>4 DEF TypeOK
<1>6. StoredIsAccounted'
    <2>1. objects \subseteq Keys
        BY <1>1, KeysOnly
    <2> QED
        BY <1>1, <1>2, <1>3, <2>1 DEF StoredIsAccounted, Accounted, Referenced, Forgotten
<1> QED
    BY <1>2, <1>3, <1>4, <1>5, <1>6, OneWorker

LEMMA DownloadSteps ==
    ASSUME AttachmentsInv, NEW r \in Readers,
           \/ \E k \in Keys : ResolveLink(r, k) \/ LoadAttachment(r, k)
           \/ \E u \in Users : CheckPermission(r, u)
           \/ OpenObject(r)
    PROVE  AttachmentsInv'
<1>1. TypeOK /\ StoredIsAccounted /\ \A k \in Keys : KeyOK(k)
    BY Parts
<1>2. \A k \in Keys, p \in {"resolved", "loaded", "allowed"} : At(k, p) \in Downloads
    BY DEF At, Downloads
<1>3. download[r].phase = "loaded" => download[r].key \in Keys
    BY <1>1 DEF TypeOK, Downloads, NoDownload
<1>4. PICK next \in Downloads \union {NoDownload} : Proceed(r, next)
    BY <1>2, <1>3 DEF ResolveLink, LoadAttachment, CheckPermission, OpenObject
<1>5. TypeOK'
    BY <1>1, <1>4 DEF Proceed, TypeOK, permission, tables, history
<1> QED
    BY <1>1, <1>4, <1>5, RowsGo DEF Proceed, KeyOK, tables, Settled

-------------------------------------------------------------------------------
(* Theorems.                                                               *)

LEMMA NextKeeps ==
    ASSUME AttachmentsInv, [Next]_vars
    PROVE  AttachmentsInv'
<1>1. CASE UNCHANGED vars
    BY <1>1 DEF vars, permission, tables, requests, history, AttachmentsInv, TypeOK, Settled,
        StoredIsAccounted, Accounted, Forgotten, Referenced
<1>2. CASE Next
    BY <1>2, UploadSteps, EndOfInsert, DeletionSteps, Claims, Deletes, Completes, LetsGo, DownloadSteps
    DEF Next, Work
<1> QED
    BY <1>1, <1>2

\* A key with a row has its object; only a worker that found it referenced
\* holds one that has a row; a key that was given up never gets a row again.
THEOREM AttachmentsInvariant == Spec => []AttachmentsInv
<1>1. AttachmentsInv /\ [Next]_vars => AttachmentsInv'
    BY NextKeeps
<1> QED
    BY InitAttachments, <1>1, PTL DEF Spec

\* For any number of uploads, downloads, deletions, workers and faults: a
\* download that has read the row finds the object, unless the row was deleted
\* after it.
THEOREM DownloadsAreServed == Spec => DownloadsFindTheirObject
<1>1. AttachmentsInv /\ [Next]_vars => [\A r \in Readers : NotFound(r) => ~Referenced(download[r].key)]_vars
    BY Parts DEF RowsOK, NotFound, Referenced
<1> QED
    BY <1>1, AttachmentsInvariant, PTL DEF Spec, DownloadsFindTheirObject

\* Whatever fails, an object is forgotten only when the process that was
\* uploading it died, or when its intent was dropped for a row that had gone.
THEOREM NothingIsForgotten == Spec => []StoredIsAccounted
<1>1. AttachmentsInv => StoredIsAccounted
    BY DEF AttachmentsInv
<1> QED
    BY <1>1, AttachmentsInvariant, PTL
=============================================================================
