------------------------------ MODULE Attachments ------------------------------
(***************************************************************************)
(* The attachments of one note on the server: the rows of attachments, the *)
(* outbox of storage deletions and the stored objects, which live in       *)
(* another system than the rows.  An upload stores the object first and    *)
(* the row afterwards; a deletion removes the row, leaving a durable       *)
(* intent to delete the object, which workers claim under a lease; a       *)
(* download reads the row, asks for the permission and opens the object.   *)
(* A request or a worker may die between any two of these steps, and a     *)
(* statement may go on in the database after the request has lost it.      *)
(***************************************************************************)
EXTENDS Naturals

CONSTANTS
    Owner, Other,  \* the note's owner, and a user it may be shared with
    Keys,          \* storage keys: every upload draws its own
    Workers,       \* requests and cron runs that clean up
    Readers,       \* requests that download
    MaxIntents,    \* bound on the deletion intents recorded
    MaxFaults      \* bound on deaths, lost answers and storage failures

ASSUME AttachmentsAssumption ==
    /\ Owner # Other
    /\ MaxIntents \in Nat /\ MaxFaults \in Nat

VARIABLES
    note,      \* "live", "deleted" (restorable no more, but its rows stay) or "purged"
    share,     \* what the other user may do
    rows,      \* keys with a row in attachments
    inserting, \* keys whose row is being inserted, under the lock on the key
    outbox,    \* attachment_deletion_outbox, by key
    objects,   \* keys with an object in the storage
    uploads,   \* per key: how far its upload is
    deleting,  \* keys whose deletion was authorised and not carried out yet
    download,  \* per reader: the key it downloads and how far it is
    job,       \* per worker: the intent it claimed
    intents, faults,
    abandoned, \* history: keys whose upload died
    discarded  \* history: keys whose intent was dropped for a row that had gone

permission == <<note, share>>
tables == <<rows, inserting, outbox>>
requests == <<uploads, deleting, download>>
history == <<abandoned, discarded>>
vars == <<permission, tables, objects, requests, job, intents, faults, history>>

Users == {Owner, Other}
NoIntent == [id |-> 0, status |-> "none"]
Idle == [phase |-> "idle"]
NoDownload == [phase |-> "none"]
Downloads == [phase : {"resolved", "loaded", "allowed"}, key : Keys]
Intents == [id : 1..MaxIntents, status : {"pending", "processing"}]
Jobs == [phase : {"claimed", "deleted", "failed"}, key : Keys, id : 1..MaxIntents, referenced : BOOLEAN]

TypeOK ==
    /\ note \in {"live", "deleted", "purged"}
    /\ share \in {"none", "view", "edit"}
    /\ rows \subseteq Keys /\ inserting \subseteq Keys
    /\ outbox \in [Keys -> Intents \union {NoIntent}]
    /\ objects \subseteq Keys
    /\ uploads \in [Keys -> {"new", "storing", "stored", "inserting", "failing", "queueing",
                             "done", "failed"}]
    /\ deleting \subseteq Keys
    /\ download \in [Readers -> Downloads \union {NoDownload}]
    /\ job \in [Workers -> Jobs \union {Idle}]
    /\ intents \in 0..MaxIntents /\ faults \in 0..MaxFaults
    /\ abandoned \subseteq Keys /\ discarded \subseteq Keys

Init ==
    /\ note = "live" /\ share = "none"
    /\ rows = {} /\ inserting = {} /\ objects = {}
    /\ outbox = [k \in Keys |-> NoIntent]
    /\ uploads = [k \in Keys |-> "new"]
    /\ deleting = {}
    /\ download = [r \in Readers |-> NoDownload]
    /\ job = [w \in Workers |-> Idle]
    /\ intents = 0 /\ faults = 0
    /\ abandoned = {} /\ discarded = {}

----------------------------------------------------------------------------

CheckNotePermission(u) ==
    IF note # "live" THEN "not_found"
    ELSE IF u = Owner THEN "owner"
    ELSE IF share = "none" THEN "not_found" ELSE share

MayRead(u) == CheckNotePermission(u) \in {"owner", "edit", "view"}
MayEdit(u) == CheckNotePermission(u) \in {"owner", "edit"}

Fault == faults < MaxFaults /\ faults' = faults + 1

Referenced(k) == k \in rows

\* EnqueueAttachmentDeletion and the trigger on attachments, for the keys whose
\* last reference is going: one active intent per key.
Enqueue(ks) ==
    LET missing == {k \in ks : outbox[k] = NoIntent} IN
    /\ (missing # {} => intents < MaxIntents)
    /\ intents' = IF missing = {} THEN intents ELSE intents + 1
    /\ outbox' = [k \in Keys |->
           IF k \in missing THEN [id |-> intents + 1, status |-> "pending"] ELSE outbox[k]]

----------------------------------------------------------------------------
(* Uploads.                                                                *)

To(k, phase) == uploads' = [uploads EXCEPT ![k] = phase]

\* Upload: who may edit the note may upload; the check is not repeated.
Upload(k, u) ==
    /\ uploads[k] = "new"
    /\ MayEdit(u)
    /\ To(k, "storing")
    /\ UNCHANGED <<permission, tables, objects, deleting, download, job, intents, faults, history>>

\* storage.Upload answers, or fails whether or not it stored the object; the
\* checks of what was read count as failures of an upload that did store it.
StoreObject(k) ==
    /\ uploads[k] = "storing"
    /\ \/ objects' = objects \union {k} /\ To(k, "stored") /\ UNCHANGED faults
       \/ objects' \in {objects, objects \union {k}} /\ To(k, "failing") /\ Fault
    /\ UNCHANGED <<permission, tables, deleting, download, job, intents, history>>

\* InsertAttachment takes the lock on the key and finds that it may insert:
\* the key awaits no deletion and the note is there.
InsertAttachment(k) ==
    /\ uploads[k] = "stored"
    /\ IF note # "purged" /\ outbox[k] = NoIntent
       THEN To(k, "inserting") /\ inserting' = inserting \union {k}
       ELSE To(k, "failing") /\ UNCHANGED inserting
    /\ UNCHANGED <<permission, rows, outbox, objects, deleting, download, job, intents, faults, history>>

\* The statement ends: it committed, or it was undone.  The request that waits
\* for the answer gets it, or loses it.
EndInsert(k) ==
    /\ k \in inserting
    /\ inserting' = inserting \ {k}
    /\ \/ uploads[k] = "inserting" /\ rows' = rows \union {k} /\ To(k, "done") /\ UNCHANGED faults
       \/ uploads[k] = "inserting" /\ rows' \in {rows, rows \union {k}} /\ To(k, "failing") /\ Fault
       \/ uploads[k] # "inserting" /\ rows' \in {rows, rows \union {k}} /\ UNCHANGED <<uploads, faults>>
    /\ UNCHANGED <<permission, outbox, objects, deleting, download, job, intents, history>>

\* The connection breaks while the statement goes on.
LoseInsert(k) ==
    /\ uploads[k] = "inserting"
    /\ To(k, "failing")
    /\ Fault
    /\ UNCHANGED <<permission, tables, objects, deleting, download, job, intents, history>>

\* uploadFailure: EnqueueAttachmentDeletion looks for the row in the snapshot
\* it starts with, before it waits for the lock on the key.
UploadFailure(k) ==
    /\ uploads[k] = "failing"
    /\ To(k, IF Referenced(k) THEN "failed" ELSE "queueing")
    /\ UNCHANGED <<permission, tables, objects, deleting, download, job, intents, faults, history>>

\* With the lock it records an intent to delete what may have been stored.
\* The cleanup that follows is a worker's.
EnqueueDeletion(k) ==
    /\ uploads[k] = "queueing" /\ k \notin inserting
    /\ To(k, "failed")
    /\ Enqueue({k})
    /\ UNCHANGED <<permission, rows, inserting, objects, deleting, download, job, faults, history>>

\* The server dies, or the request is cancelled and with it the cleanup that
\* uses its context.
Abandon(k) ==
    /\ uploads[k] \in {"storing", "stored", "inserting", "failing", "queueing"}
    /\ Fault
    /\ objects' \in {objects, IF uploads[k] = "storing" THEN objects \union {k} ELSE objects}
    /\ To(k, "failed")
    /\ abandoned' = abandoned \union {k}
    /\ UNCHANGED <<permission, tables, deleting, download, job, intents, discarded>>

----------------------------------------------------------------------------
(* Downloads, of a user who is signed in or of the holder of a link.       *)

Proceed(r, next) ==
    /\ download' = [download EXCEPT ![r] = next]
    /\ UNCHANGED <<permission, tables, objects, uploads, deleting, job, intents, faults, history>>

At(k, phase) == [phase |-> phase, key |-> k]

\* PublicHandler resolves the link to its note before it reads the row.
ResolveLink(r, k) ==
    /\ download[r] = NoDownload
    /\ note = "live"
    /\ Proceed(r, At(k, "resolved"))

\* load: a user who is signed in needs the permission after it.
LoadAttachment(r, k) ==
    \/ /\ download[r] = NoDownload
       /\ Proceed(r, IF Referenced(k) THEN At(k, "loaded") ELSE NoDownload)
    \/ /\ download[r] = At(k, "resolved")
       /\ Proceed(r, IF Referenced(k) THEN At(k, "allowed") ELSE NoDownload)

CheckPermission(r, u) ==
    /\ download[r].phase = "loaded"
    /\ Proceed(r, IF MayRead(u) THEN At(download[r].key, "allowed") ELSE NoDownload)

\* open: the object is there, or the answer is an error of the server.
OpenObject(r) ==
    /\ download[r].phase = "allowed"
    /\ Proceed(r, NoDownload)

----------------------------------------------------------------------------
(* Deletions.                                                              *)

\* Mutant: the object goes before the row.
DeleteObjectFirst(k, u) ==
    /\ k \in rows
    /\ MayEdit(u)
    /\ deleting' = deleting \union {k}
    /\ objects' = objects \ {k}
    /\ UNCHANGED <<permission, tables, uploads, download, job, intents, faults, history>>

AuthoriseDelete(k, u) ==
    /\ k \in rows
    /\ MayEdit(u)
    /\ deleting' = deleting \union {k}
    /\ UNCHANGED <<permission, tables, objects, uploads, download, job, intents, faults, history>>

\* DeleteAttachment: with the row the trigger leaves the intent; the row may
\* have gone since it was read.
DeleteAttachment(k) ==
    /\ k \in deleting
    /\ deleting' = deleting \ {k}
    /\ rows' = rows \ {k}
    /\ IF Referenced(k) THEN Enqueue({k}) ELSE UNCHANGED <<outbox, intents>>
    /\ UNCHANGED <<permission, inserting, objects, uploads, download, job, faults, history>>

DeleteNote ==
    /\ note = "live"
    /\ note' = "deleted"
    /\ UNCHANGED <<share, tables, objects, requests, job, intents, faults, history>>

\* HardDeleteOldNotes, thirty days later, takes the rows along; it waits for
\* an insertion that refers to the note.
HardDeleteOldNotes ==
    /\ note = "deleted" /\ inserting = {}
    /\ note' = "purged"
    /\ share' = "none"
    /\ rows' = {}
    /\ Enqueue(rows)
    /\ UNCHANGED <<inserting, objects, requests, job, faults, history>>

\* ShareNote and DeleteNoteShare.
ChangeShare ==
    /\ note = "live"
    /\ share' \in {"none", "view", "edit"} \ {share}
    /\ UNCHANGED <<note, tables, objects, requests, job, intents, faults, history>>

----------------------------------------------------------------------------
(* Cleaning up.                                                            *)

\* Mutant: the enqueue's own look for the row is trusted.
ClaimedUnseen(k) == [phase |-> "claimed", key |-> k, id |-> outbox[k].id, referenced |-> FALSE]

\* What a worker claims: with the lock on the key it looks for the row again.
Claimed(k) == [phase |-> "claimed", key |-> k, id |-> outbox[k].id, referenced |-> Referenced(k)]

\* Mutant: only pending intents are claimed.
ClaimPending(w, k) ==
    /\ job[w] = Idle
    /\ outbox[k].status = "pending" /\ k \notin inserting
    /\ outbox' = [outbox EXCEPT ![k].status = "processing"]
    /\ job' = [job EXCEPT ![w] = Claimed(k)]
    /\ UNCHANGED <<permission, rows, inserting, objects, requests, intents, faults, history>>

\* A pending intent, or one whose lease has expired: however slow its worker.
ClaimAttachmentDeletion(w, k) ==
    /\ job[w] = Idle
    /\ outbox[k] # NoIntent /\ k \notin inserting
    /\ outbox' = [outbox EXCEPT ![k].status = "processing"]
    /\ job' = [job EXCEPT ![w] = Claimed(k)]
    /\ UNCHANGED <<permission, rows, inserting, objects, requests, intents, faults, history>>

\* finishStorageDeletion: the object goes, after at most three attempts.
DeleteObject(w) ==
    /\ job[w].phase = "claimed" /\ ~job[w].referenced
    /\ \/ objects' = objects \ {job[w].key} /\ job' = [job EXCEPT ![w].phase = "deleted"]
          /\ UNCHANGED faults
       \/ objects' = objects /\ job' = [job EXCEPT ![w].phase = "failed"]
          /\ Fault
    /\ UNCHANGED <<permission, tables, requests, intents, history>>

\* The intent goes: after its object, or because the key was found referenced,
\* though the row may have gone meanwhile, when its trigger left no new intent.
CompleteAttachmentDeletion(w) ==
    LET k == job[w].key
        mine == outbox[k].id = job[w].id
    IN
    /\ job[w].phase = "deleted" \/ (job[w].phase = "claimed" /\ job[w].referenced)
    /\ outbox' = IF mine THEN [outbox EXCEPT ![k] = NoIntent] ELSE outbox
    /\ discarded' = IF mine /\ job[w].referenced /\ ~Referenced(k)
                    THEN discarded \union {k} ELSE discarded
    /\ job' = [job EXCEPT ![w] = Idle]
    /\ UNCHANGED <<permission, rows, inserting, objects, requests, intents, faults, abandoned>>

RetryAttachmentDeletion(w) ==
    /\ job[w].phase = "failed"
    /\ outbox' = IF outbox[job[w].key].id = job[w].id
                 THEN [outbox EXCEPT ![job[w].key].status = "pending"] ELSE outbox
    /\ job' = [job EXCEPT ![w] = Idle]
    /\ UNCHANGED <<permission, rows, inserting, objects, requests, intents, faults, history>>

WorkerDies(w) ==
    /\ job[w] # Idle
    /\ Fault
    /\ job' = [job EXCEPT ![w] = Idle]
    /\ UNCHANGED <<permission, tables, objects, requests, intents, history>>

----------------------------------------------------------------------------

Work(w) ==
    \/ \E k \in Keys : ClaimAttachmentDeletion(w, k)
    \/ DeleteObject(w)
    \/ CompleteAttachmentDeletion(w)
    \/ RetryAttachmentDeletion(w)

Next ==
    \/ \E k \in Keys :
        \/ \E u \in Users : Upload(k, u) \/ AuthoriseDelete(k, u)
        \/ StoreObject(k) \/ InsertAttachment(k) \/ EndInsert(k) \/ LoseInsert(k)
        \/ UploadFailure(k) \/ EnqueueDeletion(k) \/ Abandon(k)
        \/ DeleteAttachment(k)
    \/ DeleteNote \/ HardDeleteOldNotes \/ ChangeShare
    \/ \E w \in Workers : Work(w) \/ WorkerDies(w)
    \/ \E r \in Readers :
        \/ \E k \in Keys : ResolveLink(r, k) \/ LoadAttachment(r, k)
        \/ \E u \in Users : CheckPermission(r, u)
        \/ OpenObject(r)

Spec == Init /\ [][Next]_vars

\* The hourly cron cleans until nothing is left to claim, requests finish and
\* the database ends its statements.
FairSpec == Spec /\ (\A w \in Workers : WF_vars(Work(w)))
                 /\ (\A k \in Keys : WF_vars(UploadFailure(k) \/ EnqueueDeletion(k)) /\ WF_vars(EndInsert(k)))

----------------------------------------------------------------------------
(* Properties.                                                             *)

NotFound(r) == /\ download[r].phase = "allowed" /\ download'[r] = NoDownload
               /\ download[r].key \notin objects

\* A download reads the row, asks for the permission and then opens the
\* object: it may find the object deleted only because the row was deleted
\* since it read it, whatever uploads fail, answers are lost and cleanups run
\* twice meanwhile.
DownloadsFindTheirObject == [][\A r \in Readers : NotFound(r) => ~Referenced(download[r].key)]_vars

Forgotten == abandoned \union discarded

Accounted(k) ==
    \/ Referenced(k) \/ outbox[k] # NoIntent
    \/ uploads[k] \in {"stored", "inserting", "failing", "queueing"}

\* Every stored object has a row, a recorded intent to delete it or a running
\* upload.
EveryObjectIsAccounted == \A k \in objects : Accounted(k) \/ k \in abandoned

\* But those of uploads that died, and those whose intent was dropped for a
\* row that had gone since, are forgotten.
StoredIsAccounted == \A k \in objects : Accounted(k) \/ k \in Forgotten

\* An object whose row is gone, or never came, is deleted in the end, though
\* workers die under their lease and the storage fails for a while, unless it
\* is forgotten.
ForgottenObjectsGo == \A k \in Keys :
    (uploads[k] \in {"done", "failed"} /\ k \notin rows \union inserting)
        ~> (k \notin objects \/ k \in Forgotten)

\* The inductive invariant.  A key with a row has its object; only a worker
\* that found the key referenced holds one that has a row; and a key that was
\* given up, by an intent or by a worker, is past the insertion of its row.
Settled(k) == uploads[k] \in {"failing", "queueing", "done", "failed"} /\ k \notin inserting

AttachmentsInv ==
    /\ TypeOK
    /\ \A k \in rows : k \in objects /\ Settled(k)
    /\ \A k \in inserting :
        /\ k \in objects
        /\ uploads[k] \in {"inserting", "failing", "queueing", "failed"}
    /\ \A k \in Keys :
        /\ outbox[k] # NoIntent => Settled(k)
        /\ uploads[k] = "stored" => k \in objects
        /\ uploads[k] = "inserting" => k \in inserting
    /\ \A w \in Workers : job[w] # Idle =>
        /\ Settled(job[w].key)
        /\ ~job[w].referenced => job[w].key \notin rows
        /\ job[w].referenced => job[w].phase = "claimed"
        /\ job[w].phase = "deleted" => job[w].key \notin objects
    /\ StoredIsAccounted
=============================================================================
