# SupaNotes: a model of its protocols

SupaNotes is a notes app: a Flutter client (`lib/`) that works offline on a
SQLite database, and a Go server (`backend/`) on PostgreSQL.  Notes are edited
as operations that several users' devices exchange and transform; tasks,
attachments, sharing, an Alexa skill and an MCP server for agents are built
around them.  This directory models the places where the program's own
difficulty lies: where requests are retried, overtaken or cut off, where two
systems must agree without a common transaction, and where two devices change
the same thing.  Paths below are relative to `src/`; `backend/` stands for
`backend/internal/` where a package is named.

## Inventory

Each line names the state a part keeps, its operations, what is hard about it
and what makes it correct.

| Part | State | Operations | Hard | Correct when | Status |
|---|---|---|---|---|---|
| Note operations server (`noteoperations`) | notes row (revision, document), `note_operations` log | sync a batch, poll since a revision | retries, late requests, concurrent transactions, failure in the middle | every operation once, revisions without a gap, document = replay of the log | `NoteSync`, partly: no permissions |
| Task blocks of a note (`noteoperations`, editor commands) | metadata of a block, its completions | complete, reopen, reschedule, patch | stale patches over all keys, one refusal blocks an outbox | accepted completions survive, own edits are accepted | `TaskBlocks`, partly |
| Client operations sync (`note_operations_sync_service`, persistence, dao) | outbox rows, session row, confirmed snapshot | enqueue, start, resume, process an answer, poll | state used across a call, crash between steps | nothing lost, retry identical, base chain | `NoteSync`, partly: no account scoping |
| Client rebaser | none | rebase pending over remote rows | transformation pairs | converges, keeps both intentions | `NoteTransform`, partly |
| Document algebra (`note_blocks.dart`, `document.go`) | a document | apply, project, diff | two implementations of one meaning | both agree on what is sent | `NoteDocument`, partly: the diff as its outcomes |
| Editor adapter | shown document, recorded operations | capture, flush, reconcile, rebuild | the user types and a timer flushes while results arrive | screen = snapshot + outbox | `NoteSync`, partly |
| Session, coordinator, outbox worker | timers, activity, retry state | schedule sync and poll, close, reopen | timers, stop after an error | a batch is refused for what others did, never for how it was sent | as steps of `NoteSync` that come at any time |
| Sync feed server (`syncfeed`) | change rows | list changes after a cursor, bootstrap | sequence numbers precede commits | no change is skipped | `RemoteSync`, partly: notes and shares |
| Sync inbox, remote coordinator | inbox rows, cursor | ingest a page, apply, defer, acknowledge | at least once, deferral, bootstrap | every change is applied, cursor never ahead | `RemoteSync`, partly |
| Notes catalog and hydration | catalog rows, confirmed document | pull, hydrate, delete, restore, push an icon | paged listing of a list that moves | nothing visible is missed | `RemoteSync`, `NoteCatalog`, partly |
| Notes server (`notes`) | notes rows, preferences | create, list, edit, icon, delete, purge | check and write apart | conditional edits see what they replace | `NoteCatalog`, `NoteSharing`, partly |
| Task server (`tasks`) | tasks, `task_operations`, feed rows | create, patch, complete and reopen an occurrence, delete | retries with the same identifier, stale schedules, a creation that races another | each mutation once, no completion lost | `TaskServer`, modelled |
| Client tasks | task outbox, local tasks | mutate, retry | operations built on an old view | as above | as the devices of `TaskServer` |
| Sessions (`auth`, `AuthTokenManager`) | refresh token families, stored credentials | sign in, refresh, detect reuse, log out, revoke all | lost answers to rotations, UPDATEs that wait | one usable token per session, logout is final | `AuthSession`, partly |
| Attachments | rows, deletion outbox, stored objects | upload, download, delete, clean up, purge | crash between row and object, a statement that outlives its request | rows have objects, objects are not forgotten | `Attachments`, modelled |
| Alexa shopping-list command | idempotency rows with leases | begin, run, finish, take over | a lease ends while its owner runs | each item once, one answer | `AlexaCommands`, modelled |
| Shares and public links | shares, preferences, links | grant, withdraw, activate, disable | check and write apart | links open from activation to withdrawal | `NoteSharing`, modelled |
| MCP tokens and confirmations | tokens, confirmations, audit log | preview, reserve, execute, replay, revoke | lease ends while the tool runs, effects outside the transaction, each call has a response of its own | one effect, answers that agree on it | `McpConfirmations`, modelled |
| MCP tools | none | adapters to the services | as their kinds of effect | | partly, as effects of `McpConfirmations` |
| Server process and cron | none | the hourly purge and cleaning | meets requests under way | | as actions of `Attachments`, `NoteSharing`, `NoteCatalog` |
| Server-side content writers, Alexa account linking, share intake, link preview, settings, platform links, notifications, user interface, generated database code | little or none | | | | not modelled, see the end |

How the parts interact.  The editor adapter records operations in memory and
enqueues them into the outbox; the sync service holds one queue per note and
sends the outbox over HTTP; the server answers with the accepted operations,
the remote ones and the new document; the service rebases what is pending,
stores the snapshot and hands a result to the session, which rebuilds the
editor.  Independently the outbox worker calls the same service for every note
with rows left, and the sync feed tells a device that a note or task changed
elsewhere.  The Alexa skill, the MCP tools and the share intake write through
the same services on the server.  All of them run under an access token that
the token manager keeps fresh.

## Modules

| Module | Models |
|---|---|
| `NoteDocument` | documents, operations, `ServerApply` (`document.go`) and `ClientApply` (`note_blocks.dart`), the edits a user can make |
| `NoteTransform` | `ServerTransform` (`service.go`, `transformer.go`) and the client's rebase (`note_operation_rebaser.dart`) |
| `OpLog` | the abstract specification: one append-only log without duplicates, readers that only move forward |
| `NoteSync` | server and clients of one note: state machine, properties, the refinement mapping to `OpLog` |
| `NoteSyncInvariant` | the inductive invariant `IndInv`, in named parts: the log, the queues, the replays, the rows a device owns |
| `MCNoteSync` | instances for TLC, and properties of the order of letters and of refusals that the code violates |
| `MCTransform` | the rebase over all short histories of two users |
| `TaskBlocks`, `MCTaskBlocks` | one task block in a shared note, the server's check of its patches and the editors that make them |
| `RemoteSync` | the change feed of one user (`syncfeed`, the triggers of migration 000053) and the bootstrap, inbox and appliers of one device |
| `NoteCatalog` | the notes table with its times, the page query and a guest's listing and conditional edits |
| `TaskServer`, `MCTaskServer` | one independent task: its row, operation table and changes, and the devices that mutate it |
| `AuthSession` | refresh tokens, the transactions of `auth.Service` and the devices that hold tokens |
| `Attachments` | attachment rows, storage deletions, stored objects and downloads of one note |
| `AlexaCommands` | deliveries of the shopping-list command, their reservations and the lists |
| `NoteSharing` | shares, preferences and public links, each request a check and a write |
| `McpConfirmations`, `MCMcpConfirmations` | users, calls, confirmations, leases, effects and answers of the MCP server; the second adds the symmetry of the run |
| `NoteSyncProofs` (`NoteSync` and the rebase of `NoteTransform`), `RemoteSyncProofs`, `TaskServerProofs`, `AuthSessionProofs`, `AttachmentsProofs`, `AlexaCommandsProofs`, `SharingAndMcpProofs` (`NoteSharing` and `McpConfirmations`), `CatalogAndBlocksProofs` (`NoteCatalog` and `TaskBlocks`) | the theorems |

The state machines are views of one program and share no variables.
`NoteSync` is one note in full detail, with its operations and outboxes;
`RemoteSync` is all the notes of a user, each reduced to a revision, with the
outboxes empty.  They meet in the poll: `RemoteSync`'s `Pull` is the outcome of
`NoteSync`'s `StartPoll` .. `ProcessPoll`, and it is the feed that triggers
polls, which in `NoteSync` may come at any time.  `TaskBlocks` takes the
protocol of `NoteSync` for granted and looks at what one block's batches
contain; `AlexaCommands` and `McpConfirmations` use the promise that `NoteSync`
keeps (`LogIsExactlyOnce`): an operation identifier enters the log once, so an
operation sent again is answered and not repeated.

### State and code: NoteSync

`note` and `rows` are the `notes` row and the `note_operations` table; `tx` is
the transaction that holds the row lock, with what it has done so far, so that
a fault can fall between any two of its statements.  `outbox`, `session` and
`confirmed` are the three durable client tables.  `mirror` (the document in
the editor, and as history whether its last rebuild missed something), `typed`
(operations recorded and not flushed), `call` and `result` are volatile;
`Crash` clears them.  `late` holds requests whose sender gave up:
the server may still serve them, at any later time, or never.

One HTTP call at a time and client: `KeyedAsyncQueue` runs the operations of a
note one after the other and a sync holds it across the call, so `Flush`,
`Reconcile`, `StartSync`, `Resume` and `StartPoll` ask for `call[c] = Idle`.
`Type` does not: the user types at any moment.

`adapter.reconcile` is two steps.  `Reconcile` is its flush, which repeats until
nothing is left in memory, up to the answer of the query on the outbox;
`Rebuild` is what comes after that await: it adds what is in memory by then to
the rows that were read.  Typing, a flush of the 50 ms timer, a sync or a poll
come between the two, which is what finding 12 is about.

`ProcessResponse`, `ProcessPoll` and `OpenSession` are single steps because the
code runs them inside one SQLite transaction; the server's statements are
separate steps because a transaction can be cut anywhere, although its effects
show only in `Commit`.

What a value stands for: a letter is the identifier of the operation that
inserted it, so every letter of a text can be traced; a delta is one insertion
or one removal; a block's type is the identifier of the operation that set it.
Identifiers are given in any order, like UUIDs; the order of clients is the
order of the user identifiers in ties.  `form` says whether a stored payload is
still the text that was sent.  The column is JSONB, so for the app it is not,
and every retry of a committed batch is refused (finding 1).  `Verbatim` is the
set of clients whose payloads happen to be written as JSONB prints them, as a
caller of the HTTP interface may do: for these the branch that answers a retry
from the log runs.  `sync_text` has none of them, `sync_blocks` one.

Left out: permissions and deleted notes (403, 404), several notes, account
changes; operations of the server-side writers; the materialised copy of the
document that other screens read; when a session or the outbox worker tries
again (here a sync may come at any time, so all schedules are covered, and
nothing is said of delivery);
`create_block` with a text.  A user's edit is one operation at a time, a batch
is what is typed between two flushes; a poll asks for a newer revision; all clients
start with revision 0 confirmed, since opening a note for the first time
belongs to the catalog.

### State and code: TaskBlocks

`block` is the metadata of the block in the server's document, a function over
the keys that are present; `snapshot`, `outbox` and `sent` are a device's
confirmed copy, its pending rows and how many of them its session holds.  An
editor command (`CompleteTask`, `ReopenTask`, `Reschedule`, `ChangeReminder`)
changes the shown metadata and records what the diff makes of it: a
`complete_task_occurrence` for one instant, a `set_block_metadata` for all
else.  The due date, the rule and the reminder are what the sheet of a task
lets a user choose (`MayChoose`): removing the date removes the other two, and
choosing one of them brings a date.  `Transaction` is what the server has after
the first operations of a batch: it compares, as `task_schedule_transition.go`
does, the completions before and after each, with those removed earlier in the
batch as evidence; at the end a rule or a reminder without a due date spoils
the whole batch (`Canonical`, `public_document.go`).  `Sync` takes a batch
that passes (`Accepts`), `Poll` the server's block.  `stale` and `kept` are
history variables.

`LegacyCompletion` is the patch of older apps that the server still accepts
(`isLegacyOneOffCompletion`): a one-off task completed by removing its due
date.  The devices of the model are the present app, whose commands never make
such a patch, so that disjunct of `ValidTransition` never decides in the run.

Left out: changes of the block's type and its deletion; `hasTime`, which is
folded into the dates; the previous due date in the undo of a
completion; lost answers, which are `NoteSync`'s.

### State and code: RemoteSync

`note` is the row of `notes` with the user's role, `writing` the server
transactions that have numbered their change and not committed, with the users
that the trigger addressed at that moment, `changes` the committed
`sync_changes` rows addressed to the user.  Transactions on different rows
overlap and commit in any order or abort.  `origin`, `cursor`,
`inbox` and `applied` are the durable `sync_feed_cursors` and `sync_inbox`
tables (`origin` is `bootstrapComplete`, with the watermark it was completed
at); `local` is the revision of each local document.  `open` is the activity
tracker, and `at`, `queue`, `ends` and `fetched` are the program counter and
the local variables of the one pass of the coordinator that runs at a time
(its `_tail` queue); a crash or an exception clears them.  Three
history variables name what the properties except: `missed`, the notes whose
open session failed to pull and did not say so; `overlooked`, the transactions
whose number a reader passed while they were under way, or which addressed
their changes before a share committed (findings 5 and 13); `reordered`, the
notes where a revocation was passed by a newer share (finding 7).

Every `await` of a pass is a step boundary, so the server, the user and the
faults act between any two requests.  The exceptions, in which the model is
coarser than the code: a request for a note's document and the local write of
its answer are one step, as are the two reads by which `hydrateRemote` learns
that a note is known, and the confirmed revision is read in the step that acts
on it.  What is one SQLite or repeatable-read transaction in the code is one
step (`Ingest`, `CompleteBootstrap`, `Page`).  A drain decides for each change,
when its turn comes, whether it is deferred; `Skipped` passes over the
deferred ones in a row.  The `updated_at` of a note follows the numbers of the
changes; that `NOW()` may lie behind the time it replaces is `NoteCatalog`'s.

Left out: outboxes with rows (`syncPending` has nothing to do), local
creations, deletions and icons with their pushes; preference events, whose path
is that of a share, and updates of the icon or of materialised content, which
send a change with an old revision; task events and the second bootstrap of a
device that already holds notes.  One `PageSize` stands for the page of the
feed and that of the catalog.  A pass may start whenever the previous one has
ended (`RemoteSyncPacer` is left out).

### State and code: NoteCatalog

`note` has, for each note, its status, `updated_at` and the time its icon was
set; `share` what the guest may do; `listing` the device's walk over the pages;
`seen` the version its editor last read.  The time written is `NOW()`, the
start of a statement that may have waited for the row, so it may lie behind
the one it replaces (`Stamp`).  `Behind` is the keyset condition of `GetNotes`,
`UpdateNote` the conditional and the unconditional update of the icon.  A
visible note is one the share and the favourite filter let through.  Left out:
search and overview (read-only), and the text of titles.

### State and code: TaskServer

`row`, `ops` and `changes` are one task's rows in `tasks`, `task_operations`
and `sync_changes`.  `net` holds every mutation ever sent, and each may be
handled any number of times, so loss, delay, repetition and reordering need no
actions of their own.  `Apply` is one transaction of `tasks.Service` with the
row locked; without a row there is nothing to lock, so a creation is two steps,
`FindNoRow` and `InsertTask`, between which another creation may insert.  A
refused mutation changes nothing and is no action.  A device builds an
operation from the generation it last read (`view`); `owed` is a history
variable of the completions that were accepted and not taken back.  Operation
identifiers are used in a fixed order, and a completion's instant is the
identifier of the mutation that brought it.  Left out: the client's own outbox
and local copy; the parser's error texts; more than two days and one
recurrence rule, since the server compares days and rules for equality only.

### State and code: AuthSession

`tokens` is the `refresh_tokens` table: a row is its token, and its family is
the row that started it.  `jobs` are the requests under way in the server:
`BeginRefresh` is the statement that consumes the row (or finds it reused),
`FinishRotation` the insertion of the successor and the commit; an UPDATE over
many rows is `BeginRefresh` or `RevokeAllSessions`, which take the rows it
sees, and `FinishRevocation`, which needs every one of them unlocked (READ
COMMITTED: a statement never sees a row inserted after it began).  `held` and
`waiting` are a device's stored token and the one call its session lock allows;
`GiveUp` is a timeout, after which the server still works on the request, and
`lost` remembers the device.  `Abort` rolls a transaction back, `Expire` is the
end of a row's life.  `ended` and `purged` are history variables.  Left out: the
rate limiter, access tokens, passwords; what the device does with other data
when its session ends.

### State and code: Attachments

`rows`, `outbox` and `objects` are the `attachments` table, the
`attachment_deletion_outbox` and the object storage.  An upload is `Upload`
(permission), `StoreObject`, `InsertAttachment`, `EndInsert` and, when
something fails, `UploadFailure` and `EnqueueDeletion`; a deletion is
`AuthoriseDelete` and `DeleteAttachment`, whose trigger also records the
intent; a worker claims an intent (`ClaimAttachmentDeletion`), looks for a row
again (`Claimed`), deletes the object, and completes or retries.  Each is one
statement or one storage call, and a request (`Abandon`) or a worker
(`WorkerDies`) may end between any two; a lease may end at any time.
`ChangeShare`, `DeleteNote` and `HardDeleteOldNotes` come between permission
and effect.

The insertion of a row is two steps, because it goes on in the database after
its request has lost the connection (`LoseInsert`): `inserting` holds the keys
whose insertion has the lock on the key and has not ended.  The enqueue after a
failure is two as well: `UploadFailure` looks for the row in the snapshot with
which the statement starts, `EnqueueDeletion` writes once it has the lock.  So
an intent may name a key that got its row in between, which is what the
`referenced` branch of `finishStorageDeletion` is for.  The same moment between
snapshot and lock is not modelled for the insertion itself: its key is its
own, and until its request has failed nobody else enqueues it.

A download is three steps of a reader: `LoadAttachment` (the row),
`CheckPermission`, `OpenObject`; the public one resolves its link first
(`ResolveLink`) and then needs no permission.  `abandoned` and `discarded` are
histories: keys whose upload died, and keys whose intent was dropped for a row
that had gone since (finding 14).

### State and code: AlexaCommands

`rows` is `alexa_request_idempotency`; `work` the handler of each delivery
with its program counter: checked timestamp, reservation (`Begin`: insert,
take over, replay or refuse), `Find` the list, `ReadList`, `AddItem`, `Finish`
(store the answer, fenced by the owner).  `log`, `shown`, `rev` and `titled`
are the lists; `Edit` is everything a user does to them meanwhile.  `clock`
ticks in units in which the lease, the lifetime of an answer and the tolerated
age are small constants whose order is the code's.  Left out: certificates and
signatures, speech, account linking.

### State and code: NoteSharing

Every request is two steps, because the code checks the permission in one
statement and writes in another: the actions `ShareNote`, `RemoveShare`,
`UpdatePreferences`, `Activate` and `Disable` pass the check and put a member
into `requests`; `CreateNoteShare` .. `DisableNoteShareLink` are the writes.
The purge asks for nothing but a note that is deleted: it may come between the
check and the write, which the foreign key then refuses (`ForeignKeyFails`).
`given` and `withdrawn` are histories of the tokens answered to the owner and
of those taken back.  A token is a number drawn in order; that two random ones
never coincide is assumed.

### State and code: McpConfirmations

`token`, `confirmation` and `audit` are the tables; a token and a confirmation
belong to a user, and a reservation asks for the user as well as for the
arguments.  `call` is what a running tool call holds between its statements.  A
mutation (`CommitMutation`) has its effect inside the transaction that commits
the confirmation; an operation (`SyncOperations`) is sent to the note before
`Commit` records it, under the `operation_id` that the agent supplied with the
other arguments.  What a tool answers is a `Response`: the effect, and the
state of the notes at that moment, which `Edit` moves on, since a second
`SyncOperations` of the same operation returns another revision, other remote
operations and another document.  `Commit` stores the response of the call if
the confirmation is still its own; if not, or if the connection breaks
(`LoseCommit`), the call answers its own response with a warning.  `CutOff`
ends a call anywhere, `Tick` lets leases and confirmations expire.  `effects`
is what happened to notes, in order.  That an operation already in the log is
recognised takes a payload that reads the same from JSONB; for the others a
repetition is refused (finding 1), which is a disjunct of `SyncOperations` too.
Left out: `Release`, which nothing calls, and the read-only tools.

## Runs

`b1`, `b2`, ... and the lower-case names in the configurations are model
values.  Deadlock is not checked in any run: each system is bounded, and rests
once its identifiers, faults or clock are used up.

| Run | Instance | Question |
|---|---|---|
| `sync_text` | 2 clients, 3 letters in one block, 1 fault | the inductive invariant, exactly-once, base chain and identical retries, screen, snapshots, nothing lost, refinement of `OpLog` |
| `sync_blocks` | 2 clients, one of them in `Verbatim`, 3 operations (insert, delete a block) on 2 blocks, 1 fault | a transaction that fails in the middle leaves nothing; a sync fails only for what others, a lost answer or a hidden block brought about |
| `merge` | 3 local and 2 remote letter edits; 2 and 2 block operations | the rebase converges, keeps both intentions, leaves acceptable operations |
| `task_blocks` | 2 devices, 2 dates, 2 instants, 4 edits | accepted completions survive; a device's own edits are accepted |
| `feed` | 2 notes, 3 changes (create, edit, delete, share, revoke), 2 transactions at once, pages of 1, 1 fault | nothing is skipped but by a late commit, acknowledged is applied, quiet is in sync, when the inbox is held up |
| `notes` | 2 notes, pages of 1, 2 instants | a listing of a list that moves; conditional edits |
| `tasks` | 1 user, 1 device, 3 mutations of every kind, 4 revisions | each mutation once, completions kept, occurrences land on the schedule that was seen |
| `auth` | 1 user, 2 devices, 2 requests at a time, 3 rows, 1 fault | one token per session, held tokens are current, logout is final, dead sessions end |
| `attachments` | 1 key, 2 workers, 1 download, 3 intents, 3 faults | rows, intents and objects agree, a download misses its object only with its row, what is not forgotten goes |
| `alexa` | 2 deliveries of 1 request, 2 lists, lease 1, lifetime 3, 4 ticks, 2 edits, 1 fault | each item once, the answer is true, one verdict |
| `sharing` | 2 notes, 3 link tokens, 2 requests at a time | links open exactly from activation to withdrawal; nothing outlives a purged note |
| `mcp` | 2 users, 2 calls, 1 confirmation, 2 tokens, a mutation and an operation, lifetime 2, lease 1, 1 edit by others, 1 call cut off | one effect, answers that agree |

Why the bounds are enough to be interesting.  Three letters let one client have
an operation in flight, one pending and the other client one committed, which
is the least in which in-flight, pending and remote rows all meet; one fault
lets every statement of a transaction and every message be cut once, with a
late duplicate served before or after the retry.  In `sync_blocks`, three
operations on two blocks are a batch of two that fails in the middle because
another client deleted a block, its retry, and the deletion of the last block;
the identifiers are drawn in one order there (`IdentifiersInOrder`), which is
sound for these two properties because which of two identifiers is the lower
one decides ties between letters only.  In `feed`, pages of one row
make every listing of two notes and every fetch of two changes span several
requests; three changes are one before, one during and one after a bootstrap,
or a share, an edit and a deletion of one note; the fault is a crash, a failed
request or a failed pull of the open session; two transactions at once are what it takes
for one to commit behind the other's number.  `feed` starts from notes that are
shared with the user and from notes that are not.  In `tasks`, three mutations are a creation or a change of schedule, an
occurrence built on the old schedule, and a repetition of either at any time.
In `auth`, two requests at a time are a refresh against a logout, a second
refresh of the same session, or the revocation of all; three rows are two
sessions and a rotation, or one session rotated twice.  In `alexa` and `mcp`
two owners are what a lease is about, and the clock outlives lease and answer;
with this lifetime and lease no third reservation of a confirmation is
possible, and the calls, the tokens and the users of `mcp` are symmetric.  In
`attachments` keys share nothing, so one shows what happens to each; three
intents let an object be queued again for the same key, and three faults are a
lost insertion, the death of a worker and a failure of the storage.
Four edits in `task_blocks` are a completion, a reopening and a change of
schedule on one device against one on the other.

### Properties

Operations on notes:

* `LogIsExactlyOnce`: no operation twice in the log, revisions 1 to the note's.
* `RequestsFollowTheLog`: what is said and owed between client and server.
  Whatever requests of a client exist at once, those that share an operation
  are equal (`RetriesAreIdentical`); the operations of an outbox build on one
  another (`BaseChain`); a client is never ahead (`NeverAheadOfServer`).
* `IndInv`: the inductive invariant, `LogInv /\ QueueInv /\ ReplayInv /\
  OwnInv`.  Among its parts are the types and `SessionOwnsInFlight`: in-flight
  rows are exactly the session's.  A poll replaces the whole outbox by its
  pending rows, so this is what saves operations that were sent.
* `NothingLost`: an operation leaves the outbox only when it is in the log or a
  remote operation made it void.
* `SnapshotsAreReplays`: every snapshot is the replay of the log up to its
  revision.
* `VisibleIsSnapshotPlusOutbox`: once a result is shown and nothing is in
  memory, the screen is the snapshot and the outbox, but for what a flush moved
  between the two reads of the last rebuild (finding 12).
* `ImplementsOpLog`: refinement.
* `BatchesAreAtomic`: the operations of a request are in the log all or none,
  whatever fails in the middle, is retried, rebased or served late.
* `OnlyRefusalsFail`: the server answers a sync with an error only for three
  reasons: an operation is in the log with another text (finding 1), names a
  block that others, or the batch itself, have deleted (findings 2 and 12), or
  nothing would be left of the note.  Bases, ordinals and sessions are never
  the reason.
* `RebaseIsSound`: the two orders of a merge converge (`RebaseConverges`) and
  what is left is acceptable to the server (`RebasedIsAcceptable`);
  `MergeKeepsBothIntentions`: nobody's letters are lost or reordered.
* `BlockInv`: `CompletionsSurvive`, an accepted completion that nobody took
  back is in the block, whatever stale patches arrive.
* `OwnEditsAreAccepted`: a device alone on a task is not refused, but for the
  cases the definition names, which are finding 10.

The feed and the catalog:

* `FeedInv`: the inductive invariant, `DeliveryInv /\ InSyncInv`.
* `NothingSkipped`: no committed change behind the cursor that is neither in
  the inbox nor covered by the bootstrap, unless its transaction was under way
  when a reader took a later number for the last one (finding 5).
* `SeenIsReflected`: what the device will not look at again is in its
  documents.
* `QuietIsInSync`: with nothing left to fetch or apply, the device holds
  exactly the notes the user may see, at the server's revisions; excepted are
  single notes, those of findings 5, 7 and 13 and of a hidden failure.
* `OnlyRemovalsStop`: the device gives up a change because of what the server
  answers only if its note is open or about to be taken away by a later change
  (finding 6).
* `SteadyNotesAreListed`: a finished listing has each note that nobody touched
  exactly once, however the others moved between its pages.
* `NoIconReplacedUnseen`: a conditional edit replaces only what it has seen.

Tasks, sessions, attachments, commands, links:

* `AnsweredOnce`, `CompletionsAreKept`, `CompletesWhatWasSeen`: a mutation has
  one answer; completions survive changes of schedule; an occurrence lands only
  on the schedule its device saw.
* `TaskInv`: the inductive invariant, with the types, `ChangesFollowRevisions`
  (row, operations and feed agree) and `RowIsCoherent`.
* `AuthInv`, with `OneTokenPerSession`; `HeldTokenIsCurrent`: a device that
  missed no answer is never taken for a thief; `LogoutEndsTheSession`;
  `DeadSessionsEnd`: a device does not keep a dead token for ever.
* `AttachmentsInv`, with `StoredIsAccounted`; `DownloadsFindTheirObject`: a
  download that finds no object has had its row deleted since it read it;
  `ForgottenObjectsGo`: what nobody refers to is deleted in the end.
* `AlexaInv`, with `ItemAddedOnce`; `SpokenIsTrue`; `OneVerdict`.
* `SharingInv`, with `NothingOutlivesTheNote`; `WithdrawnLinksStayClosed`;
  `GivenLinksOpen`.
* `McpInv`; `OneEffectEach`; `AnswersAgree`: all answers of a confirmation tell
  of its one effect, and those without a warning are the stored response.

### Fairness

The runs of `NoteSync` and `RemoteSync` assume none and claim no liveness.  The
code gives too little of it: the outbox worker passes over the notes that are
open (`note_outbox_worker.dart:111`) and, after a protocol error, over a note
until something wakes it (`:126-131`); a session stops its loops after such an
error and arms no timer for another try (`note_sync_session.dart:363-369`).
What is checked instead is that nothing gets lost while nobody tries
(`NothingLost`, `SeenIsReflected`) and for which reasons a try fails
(`OnlyRefusalsFail`, `OnlyRemovalsStop`).  `RemoteSync`'s `FairSpec`, in which
the coordinator's pass and the server's transactions go on, serves finding 6
only.

`AuthSession`'s `Fairness`: the server ends what it began (weak), a statement
that waits for a row lock gets it in the end (strong, since others may take it
in between; PostgreSQL queues the waiters), the device handles an answer that
has come (weak), and a device that holds a token refreshes again and again
(strong, since its one call may be in use each time): every API request that
meets a 401 does.  `Attachments`' `FairSpec`: each cleaning worker goes on
(weak; the cron entry `0 0 * * * *` of `backend/cmd/server/main.go` starts it
every hour until nothing is left), a failed upload is recorded unless the
process dies, and the database ends its statements.

## Findings

Each is a property that the code violates; it is stated in the module, no run
lists it, and the instance named here makes TLC find the counterexample: put
these constants and this property into a configuration of their own.

1. *A lost answer is for ever.*  A retry is recognised by comparing payloads
   byte for byte (`operation.go:137`), but the payload column is JSONB, which
   returns another text.  After a lost answer the server refuses the retry with
   409 for ever.  `MCNoteSync` under `Spec` with one client, one insertion,
   `Verbatim = {}`, one fault: `NothingIsRefused`.
2. *An edit of a deleted block.*  An edit in flight of a block that somebody
   else deletes is refused with 400 on every retry (`service.go:170`); nothing
   rebases what is in flight, so the whole outbox of the note is stuck.
   `sync_blocks` with both clients in `Verbatim` and no fault:
   `NothingIsRefused`.
3. *A batch is transformed against itself.*  The server transforms an operation
   against every one above its base, its own batch included
   (`service.go:325`); with a concurrent edit, letters of one batch change
   places.  `sync_text`: `LettersKeepTheirOrder`.
4. *Typing during an answer.*  Operations typed before an answer was processed
   are enqueued after it on the new revision without being rebased.
   `sync_text`: `FlushKeepsTheOrder` (an action property).
5. *A gap in the feed.*  Change numbers come from a BIGSERIAL drawn inside the
   writers' transactions (migration 000053), so a smaller number may be
   committed after the cursor has passed it; that change is never fetched.
   `feed`: `NothingOverlooked`, which is `NothingSkipped` without its exception.
6. *A change that cannot be applied stops the rest.*  Polling a note that has
   meanwhile been deleted or withdrawn fails
   (`note_remote_sync_coordinator.dart:52`) and ends the drain; the next pass
   meets the same change first, so nothing behind it, the deletion of that very
   note included, is ever applied.  `feed` under `FairSpec` with `Notes = {1}`,
   `InitRoles = {"owner"}`, `Kinds = {"edit", "delete"}`, `MaxWriters = 1` and two
   changes: `FeedNeverStuck`.
7. *Deferred changes are overtaken.*  A deferred change is skipped, not waited
   for (`sync_inbox_worker.dart:76`): after the note is closed in the middle of
   a drain, a later share is applied before the old revocation, which then
   deletes a note that the user may see.  `feed` with `Kinds = {"share",
   "revoke"}` and `MaxWriters = 1`: `EveryNoteInSync`.
8. *Revoking all sessions misses one.*  The UPDATE sees the rows committed when
   it starts (`auth/service.go:213`); the successor that a refresh commits
   while it waits stays usable.  `auth` under `Spec`:
   `RevokeAllInvalidatesEvery`.
9. *A note jumps over the page.*  A note edited between two pages of a listing
   moves to the front, behind the reader, and is then dropped as missing
   (`note_catalog_sync.dart:383`).  `notes`: `VisibleNotesAreListed`.
10. *Reopened, then rescheduled.*  The server asks the patch to archive the
    completion that was just reopened in the same batch (`service.go:106`), the
    editor archives the ones it still has: the batch is refused on every retry.
    `task_blocks` with one device: `NeverRefused`.
11. *Two devices complete one task.*  The second patch replaces the record of
    the first and is refused on every retry
    (`task_schedule_transition.go:50`).  `task_blocks` with two devices:
    `NeverRefused`.

12. *A rebuild hides what was flushed.*  `reconcile` reads the outbox
    (`appflowy_note_adapter.dart:364`) and looks at memory only when that await
    has returned (`:369`).  A flush of the 50 ms timer (`:279`) in between moves an
    operation from memory to the outbox after it was read, and the rebuilt
    editor does not show it.  A block whose deletion is hidden appears again;
    deleting it again gives a batch that is refused with 400 on every retry.
    `sync_blocks`: `NothingIsHidden`.
13. *An edit that does not know its reader.*  The trigger on `notes` addresses
    the users it finds in `note_shares` (`000053:38`).  An edit whose trigger ran
    before a share commits, and which itself commits after the new user has
    fetched the note, tells that user nothing.  `feed` with `Notes = {1}`,
    `InitRoles = {"stranger"}`, `Kinds = {"share", "edit"}` and two changes:
    `EveryNoteInSync`.
14. *An intent dropped too early.*  An insertion whose answer is lost may commit
    after the enqueue statement took its snapshot, so a key with a row gets an
    intent.  A cleaner finds the key referenced
    (`attachments/service.go:246`), the user deletes the attachment, whose trigger
    meets the intent that is still there, and the cleaner drops that intent: the
    object stays with nothing that tells of it.  `attachments` under `Spec` with
    one worker and one fault: `EveryObjectIsAccounted`.

Met while modelling, in the definitions but without a property of their own:

* `Before` and `LocalWins`: in a tie the server lets the lower (actor,
  operation) key win (`transformer.go:18-20`), the client the greater
  (`note_operation_rebaser.dart:187-189`).
* `ServeNotCanonical`: two clients that each delete one of the last two blocks
  leave the second with a 500 on every retry (`service.go:216`).
* `Canonical`: one device removes the date of a task while another, not yet
  told, makes it recur.  Whichever batch comes second leaves a rule without a
  date, and is refused on every retry (`service.go:216`).
* `ServerCompose` and `ClientTextDelta`: a change past the end of a text is
  clipped by the server and ignored by the client, and `ClientDeleteBlock`
  keeps the last block where `ServerDeleteBlock` does not, although
  `note_blocks.dart:174-176` speaks of the same semantics.  This is why
  `sync_text` types letters and does not remove them.

## Proofs

Every theorem holds for every value of the constants that the named
assumptions of its module allow: any numbers of clients, devices, users,
notes, rows and faults.  Each proof module has a lemma per action, which says
that the action preserves the inductive invariant, with a step for each part of
it the action can disturb.

| Module | Theorem | States |
|---|---|---|
| `NoteSyncProofs` | `InvariantHolds` | `Spec => []IndInv` |
| | `TypeCorrect`, `ExactlyOnce`, `GateHolds` | `TypeOK`, `LogIsExactlyOnce`, `SessionOwnsInFlight` |
| | `RequestsFollow` | `RequestsFollowTheLog` |
| | `Replays` | `SnapshotsAreReplays` |
| | `NothingIsLost` | `NothingLost` |
| | `RebaseMeets` | the rebase of any edits of letters converges |
| | `MergeKeepsIntentions` | a merged text shows what both left or added, in the order both saw |
| | `DocumentsFollowTexts` | server and client do to documents what these two say of texts |
| | `NeverBack` | no client's confirmed revision ever decreases |
| | `Refinement` | `Spec => ImplementsOpLog` |
| `RemoteSyncProofs` | `InvariantHolds` | `Spec => []FeedInv` |
| | `TypeCorrect`, `NoChangeSkipped`, `SeenChangesReflected` | `TypeOK`, `NothingSkipped`, `SeenIsReflected` |
| | `QuietDevicesAreInSync` | `QuietIsInSync` |
| | `RefusalsAreRemovals` | `OnlyRemovalsStop` |
| `TaskServerProofs` | `TaskInvariant` | `Spec => []TaskInv` |
| | `MutationsAreAnsweredOnce`, `CompletionsSurvive`, `OccurrencesLandOnTheirSchedule` | `AnsweredOnce`, `CompletionsAreKept`, `CompletesWhatWasSeen` |
| `AuthSessionProofs` | `AuthInvariant` | `Spec => []AuthInv`, with `OneTokenPerSession` |
| | `HeldTokensAreCurrent`, `LogoutIsFinal` | `HeldTokenIsCurrent`, `LogoutEndsTheSession` |
| `AttachmentsProofs` | `AttachmentsInvariant` | `Spec => []AttachmentsInv` |
| | `DownloadsAreServed`, `NothingIsForgotten` | `DownloadsFindTheirObject`, `StoredIsAccounted` |
| `AlexaCommandsProofs` | `AlexaInvariant` | `Spec => []AlexaInv` |
| | `ListsGetItemsOnce`, `AnswersAreTrue`, `OneAnswerPerLifetime` | `ItemAddedOnce`, `SpokenIsTrue`, `OneVerdict` |
| `SharingAndMcpProofs` | `SharingInvariant` | `SharingSpec => []SharingInv` |
| | `WithdrawnLinksNeverOpen`, `GivenLinksKeepOpen` | `WithdrawnLinksStayClosed`, `GivenLinksOpen` |
| | `McpInvariant` | `Spec => []McpInv` |
| | `OneEffectPerConfirmation`, `OneAnswerPerConfirmation`, `NothingUnconfirmed` | `OneEffectEach`, `AnswersAgree`, `EffectsAreConfirmed` |
| `CatalogAndBlocksProofs` | `CatalogInvariant` | `Spec => []CatalogInv` |
| | `SteadyNotesListedOnce`, `NoIconUnseen` | `SteadyNotesAreListed`, `NoIconReplacedUnseen` |
| | `BlockInvariant` | `BlockSpec => []BlockInv`, with `CompletionsSurvive` |
| | `OwnEditsAccepted` | `OwnEditsAreAccepted` |

*NoteSync.*  From `ClientsAssumption`, `OpIdsAssumption`, `FaultsAssumption` and
`VerbatimAssumption`, which says that `Verbatim` is a set of clients: the theorems
hold whichever of them it is.  Nothing is assumed of `Actions` or `InitDoc`.
`LogIsExactlyOnce` and `SessionOwnsInFlight` are not inductive: nothing in them
keeps a running transaction from inserting an identifier that was committed
behind its back, or a poll from finishing while rows are in flight.  `IndInv`
adds: the running transaction continues the committed log (`TxOK`: its rows
have revisions just above the note's and new identifiers, and what it has
acknowledged is visible to it); what a call carries (`CallsOK`); that a polling
client has no session and a syncing one sent exactly its session's operations
(`GateOK`); and that a snapshot is never ahead of the server nor an answer
behind the client (`ReadersOK`).  The lemmas at the head of the module give the
counting facts about rows sorted by ordinal or revision.  The refinement maps
the log to its identifiers by revision and each reader to its confirmed
revision: `Commit` is `Accept` when it adds rows, `ProcessResponse` and
`ProcessPoll` are `Learn` or a stutter, all else stutters.

`RequestsFollowTheLog` needs the queues (`QueueInv`).  Everything a client ever
sent under one identifier is in a batch: its session's, or one that is late.
Two batches that share an operation are equal (`BatchesFollow`), the batch of
an open session starts at place 0 of the outbox on the revision the session
knows (`SessionsFollow`), and identifiers typed or pending were never sent
(`UnsentIsUnknown`), so a new batch cannot meet an old one.  A base is not
ahead of the server because the revisions that an answer accepts are counted:
a batch of n operations that was accepted takes n revisions above the client's
own, so the rows above it, renumbered from 0 on the answer's revision, carry
on without a gap.

`SnapshotsAreReplays` is about a recursive function over revisions.  Its proof
is by least counterexample: of the revisions at which two replays differ one is
the smallest, and there the step from the one below gives the contradiction
(`LeastNumber`); the lemma says that a replay up to n looks at rows up to n only.
Then `ReplayInv` carries the equation from the transaction's document to the
note's, and with the answers to the devices.

`NothingLost` is about the answer to a batch that the server accepted, and
about the two passes of the rebaser.  `OwnInv` says whose rows are whose: the
rows of the log above what a device confirmed and that carry its name are those
of the batch it waits for (`OwnRows`), what a late request or a transaction
holds of it is in that batch or in the log (`OwnRequests`), and an answer
accepts exactly the batch and brings nobody's rows but the others'
(`OwnAnswers`).  So an operation in flight is in the log when its answer is
processed.  For a pending one, the pass over the in-flight rows and the pass
over the pending ones are recursive functions, treated like the replay: an
operation becomes `Dropped` only at a row that deletes its block, or that moves
the block it moves (`Outcome`, `PendingPass`), a row which is a remote one.

*The rebase of letters*, in the first part of `NoteSyncProofs`.  A document is
there a text for each block, and what a list of text operations does is a
relation, `Leads(texts, ops, now, B, L)`: each operation fits where it is
played, and the last one leaves `now`.  No assumption on constants is used; the
theorems ask that both users' operations fit what each of them saw, and that
pending identifiers differ.  Three layers:

1. `TransformDeltaMeets`, the square of two single changes: each, rewritten
   over the other, fits, and both orders give one text, when exactly one of
   them has priority.  The rebaser keeps to that: it transforms the row with
   the negation of the priority it gave the operation.
2. `OpsMeet` lifts the square to documents; `Carried` to one pending operation
   and all remote rows, `AllCarried` to all of both.  The passes are recursive
   functions, and least counterexample again replaces the induction.  The
   invariant of the outer pass is a document in which "theirs, then the
   operations carried so far" and "mine so far, then the rows as they now look"
   meet: this is where the rows must be carried along, and where the mutant
   `RebaseOneRowsKept` goes wrong.  At the end it is `RebaseMeets`.
3. `KeepsOrder` says that a change takes letters out, puts new ones in and
   leaves the others in order, `OpTouches` that a rewritten operation takes out
   and puts in what it did before, unless the other one took it out as well.
   Together they give the exact set of letters of the merged text, and that no
   order either user saw is reversed: `MergeKeepsIntentions`, for users whose
   letters differ (`Apart`), as operation identifiers do.

`DocumentsFollowTexts` is the bridge: `ServerApply` and `ClientApply` agree on
a text operation that fits, and change the document as `Played` changes texts.

*RemoteSync.*  From `BoundsAssumption` alone: any number of transactions may be
under way at once, draw their numbers in one order and commit in another, share
and revoke.  Findings 5, 7 and 13 are in the model, so the properties say
exactly what is excepted.  Two history variables carry the exceptions:
`overlooked` holds the transactions that were under way when a reader took a
later number for the last one, and the edits that did not know a user whose
share then committed (`Unaddressed`); `reordered` holds the notes of which a
share was applied before an older revocation (`PassesRevocation`).  The theorems
say that there is no other way in which feed, bootstrap and inbox lose a change,
whatever crashes, fails or is opened and closed meanwhile.

The first half, `DeliveryInv`, turns on `Settled(s)`: every transaction under way
with a number up to `s` was overlooked.  Cursor, watermark and the cursor of
every page are settled, so a commit that lands behind them is an overlooked one.
`WritersOK` says what two transactions at once may hold (writers of one row wait
for each other, a share or revocation and an edit of one note do not), and that
what a transaction found when it began still holds when it commits (`Found`).
To that come: the documents fetched so far are as new as the changes under the
watermark (`AsNewAs`), a page holds every change between the old cursor and its
own (lemma `PageCovers`), and the change in hand is reflected by the time it is
acknowledged (`ApplyOK`).  The steps of the server go through `ServerMoves`,
those of the device through `DeviceStep`.

`QuietIsInSync` is stronger: that the changes seen are reflected says nothing
of a note no change tells of.  `InSyncInv` adds what is missing.  A note that was
revoked and is seen again got a newer share, and a deleted one stays deleted
(`HistoryOK`).  Outside the exceptions, shares are applied after the revocations
before them (`OrderOK`), a document on the device is one the user may see and a
change tells of what it lacks, or its removal is still to be applied
(`DocumentsOK`, `Announced`, `RemovalPending`), and a note that the user may see
and the device lacks has a change still to come (`MissingOK`).  During the
bootstrap such a note is listed, or below the last page, or told of above the
watermark (`BootstrapOK`; the lemma `PageLists` on the pages of the listing asks
for finitely many notes).  `CommitInSync` is the step of the server,
`BeginApplyInSync` and `MarkAppliedInSync` those where a revocation may be
overtaken.  `RefusalsAreRemovals` follows by `RefusalIsOfTheServer`: a refused
poll or hydration is of a note the user may not see, which `DocumentsOK` then
says is about to be removed.

*TaskServer.*  From `TaskServerAssumption` and `PatchesAssumption`, which says
that a patch gives its fields values of their types, as `parseTaskPatch`
checks.  What the invariant adds to the tables: a generation stands for one
schedule (`GenerationsTellSchedules`), so the comparison of generations that
the service makes is as good as one of schedules; a mutation under way fits its
kind and no other has its identifier (`MutationsAreOwn`); answers given are the
stored ones (`StoredAnswersOnly`), and before the row exists there is nothing
(`NothingBeforeTheRow`).  That a completion survives holds by the archive that
each change of schedule makes of the active ones, before it resets them.

*AuthSession.*  That one token works per session and that a device is never
taken for a thief depend on what every other request is doing.  The invariant
`Core` of the proof says that a family has at most one row that was not
consumed (`SessionsAreChains`); that a rotation holds the lock of exactly that
row, so no statement of another request changes it in between, and nothing
revokes it without its lock; what each request says is true of the rows
(`JobsAreTrue`, `DevicesWaitForTheirOwn`); that two devices never share a
family, and that of the family of a device that missed nothing no request but
its own is under way (`SessionsHaveOneDevice`), which is where the session
lock of the token manager is used.  `Grows` is the lemma behind
`LogoutIsFinal`: rows are never deleted, and a row that stopped working never
works again; an ended family has its last row revoked and no rotation under
way, so nothing can insert a successor.

*Attachments.*  The insertion of a row may commit at any time between the call
and the end of its transaction, also when its answer was lost (`inserting`), and
the enqueue waits for the lock on the key but decides on its older snapshot.  So
a key with an intent may have a row.  A key is `Settled` when its upload is past
the insertion and none is under way: then it gets no row any more.  Intents and
jobs are about settled keys only, and a worker that holds one with a row was told
that it is `referenced`, so it deletes no object.  `DownloadsFindTheirObject`, an
action property, follows: an object goes only while its key has no row, and a
settled key stays without one, so a download that read the row and finds no
object had its row deleted in between.  `StoredIsAccounted` excepts what a process
that died leaves (`abandoned`) and what finding 14 leaves (`discarded`).

*AlexaCommands.*  The operation identifier derives from the request, so a
repetition finds its operation in the log: `ItemAddedOnce` holds even when a
lease ends under its owner.  `OneVerdict` needs `VerdictsLast`: a stored answer
outlives the lifetime counted from the start of its execution, and while it
is kept nobody reserves the request anew.  `WorkIsInOrder` ties the answer
to the program counter of its handler.

*NoteSharing.*  A row that holds a withdrawn token is disabled, whatever its
note has become; the writes that lag behind their checks keep it, because they
decide by the row and not by what was checked.  The purge may come at any time,
also while a request on the note has passed its permission check; that nothing
is written for a purged note (`NothingOutlivesTheNote`) is kept by every write,
because the foreign keys refuse it.

*McpConfirmations.*  Each call of a document operation builds a response of its
own: the same effect, but the log and the time as it finds them.  `ResultOf` says
that a response tells of an effect with the confirmation's arguments; `Given`
that one without a warning is the stored one (`Stored`), and that only a document
operation gives one with a warning.  An operation is in the log once under its
arguments' identifier, and the effect of a mutation is in the transaction that
commits its confirmation; so a call that lost its lease may still answer, with
its own response to the same effect.  `EffectsAreConfirmed` needs that a call
holds a confirmation only of its own user and for its own arguments (`For`), and
came with a token that may write after its start was audited (`Allowed`).

*NoteCatalog.*  From `NoteCatalogAssumption`: finitely many notes, with
positive numbers, in pages of at least one.  A page is the rows of the lowest
ranks in an order that changes between any two requests.  `PageLists` is
the lemma: the notes of a page are those up to its last one, because among
finitely many notes the number of notes before one rises along the order; so a
steady note is either in the page, and then behind the new cursor, or still
before it.  `ListingOK` carries that from page to page: a steady note has been
read exactly once if the cursor has passed it, and never otherwise.
`NoIconReplacedUnseen` needs `SeenOK`: a version that was read differs from
every later one, since no time is written to a note twice; it does not need
that times rise.

*TaskBlocks.*  From `TaskBlocksAssumption`: finitely many dates and instants,
none of which is null; nothing is assumed of the devices.  `CompletionsSurvive`
goes through a transaction operation by operation (`Keeping`): the first one to
lose a completion that nobody took back would be refused, and all that follow
with it, so what the end of the transaction says holds of batches of any
length.

`OwnEditsAreAccepted` is about what the client writes and what the server asks,
two programs in two languages.  Its invariant `OwnEdits` says of every
operation in an outbox that is not stale that the server's check would find
nothing wrong with it on the metadata which the operations before it leave
(`Own`), but for evidence of earlier ones.  An edit keeps it because each
command is fit for its metadata (`Commanded`, a lemma for each of them), and
because its patch, applied after the completions of the same edit, gives again
what the command made (`PatchMakes`, `DiffIsOwn`); an answer keeps it because
what the server accepted is what the device showed, so the operations that are
left stand where they stood (`ProjectedShift`).  Then the transaction goes
through the batch without a refusal (`OwnAgree`): evidence can only come from a
reopened occurrence, and matters only to a change of schedule, which is the
case that `ReopensAndReschedules` excludes.

Only model-checked: liveness, which the provers do not reach; the two merge
properties of `MCTransform` as they are stated, because they play operations
with a fold whose step is an operator, and because `RebasedIsAcceptable` also
speaks of block operations (of letters, `RebaseMeets` and
`MergeKeepsIntentions` say the same of histories of any length);
`OnlyRefusalsFail` and `BatchesAreAtomic`, which ask why a batch fails in its
middle and so for what the server's transformation makes of each kind of
operation; and `VisibleIsSnapshotPlusOutbox`, because an editor that got an
answer without remote rows keeps its screen, which is the new snapshot only if
the operations fit the document they were rebased to.
Recursive functions are within reach by least counterexample, as above;
induction by the library's theorems, and folds whose step is an operator, are
not.

## Not modelled

* *Server-side content writers* build operations on the document they read and
  hand them to the transaction of `NoteSync`, where they are one more client
  without an outbox; what they build is formatting.
* *Share intake* turns one shared text or link into a new note, or appends it to
  one: its writes are the creation of a note or one transaction of `NoteSync`, in
  which it is one more server-side writer.  *Link preview*, *settings*, *platform links* and
  *health* are stateless or write one row.
* *Alexa account linking* and request signatures: an exchange of codes with one
  statement per step, and a certificate check; no state that several actors
  share.
* *Rate limits, passwords, the contents of access tokens*: none of the
  properties depends on them.
* *Notifications*, the *user interface* and the router call the operating
  system or draw what the tables say.
* *Generated database code* is modelled where the repositories use its
  statements, by what they do.

Inside the modelled parts, what a next step would add:

* Hydration against an outbox with rows, in which it replaces the confirmed
  document while operations wait or are in flight: `RemoteSync` composed with
  `NoteSync`, whose state space has no room left for it with these data.
* Closing and reopening a session while a result is on its way, the stop after
  a protocol error, and outboxes of another account.
* The client's task outbox, with the blocking of later operations by a refused
  one.
* Metadata operations under concurrent changes of the block itself.
* A proof of the soundness of the rebase for block operations: what is left
  anchors on blocks that are there.
