------------------------------ MODULE NoteCatalog -------------------------------
(***************************************************************************)
(* The catalog of notes on the server: the rows of notes with the time of  *)
(* their last change, the edits of their title and icon (conditional on    *)
(* the version the editor read, or not), and a device of a guest that      *)
(* lists what it may see page by page while the notes change.              *)
(***************************************************************************)
EXTENDS Naturals, FiniteSets

CONSTANTS
    Notes,       \* note identifiers, which are ordered
    PageSize,    \* rows of a page
    MaxClock     \* bound on the clock

ASSUME NoteCatalogAssumption ==
    /\ Notes \subseteq Nat \ {0} /\ IsFiniteSet(Notes)
    /\ PageSize \in Nat \ {0} /\ MaxClock \in Nat \ {0}

VARIABLES
    now,
    note,      \* per note: its status, updated_at and the time its icon was set
    share,     \* per note: what the guest may do
    seen,      \* the version of a note the guest last read
    listing,   \* the guest's walk over the pages
    stamps,    \* history: the times written to each note
    blind      \* history: icons replaced by a conditional edit that had not seen them

vars == <<now, note, share, seen, listing, stamps, blind>>

Users == {"owner", "guest"}
Times == 0..MaxClock
NothingSeen == [note |-> 0, updated |-> 0, icon |-> 0]

\* How often the listing has read each note, the notes that stayed as they
\* were since it began, and those the guest could see all the time.
NotListing == [phase |-> "idle", cursor |-> [updated |-> 0, note |-> 0],
               times |-> [n \in Notes |-> 0], steady |-> {}, visible |-> {}]

TypeOK ==
    /\ now \in Times \ {0}
    /\ note \in [Notes -> [status : {"none", "live", "deleted", "purged"}, updated : Times, icon : Times]]
    /\ share \in [Notes -> {"none", "view", "edit"}]
    /\ seen \in [note : Notes, updated : Times, icon : Times] \union {NothingSeen}
    /\ listing \in [phase : {"idle", "first", "next", "done"}, cursor : [updated : Times, note : Notes \union {0}],
                    times : [Notes -> Nat], steady : SUBSET Notes, visible : SUBSET Notes]
    /\ stamps \in [Notes -> SUBSET Times]
    /\ blind \subseteq Times

Init ==
    /\ now = 1
    /\ note = [n \in Notes |-> [status |-> "none", updated |-> 0, icon |-> 0]]
    /\ share = [n \in Notes |-> "none"]
    /\ seen = NothingSeen
    /\ listing = NotListing
    /\ stamps = [n \in Notes |-> {}] /\ blind = {}

Tick ==
    /\ now < MaxClock
    /\ now' = now + 1
    /\ UNCHANGED <<note, share, seen, listing, stamps, blind>>

----------------------------------------------------------------------------
(* Notes.                                                                  *)

Live(n) == note[n].status = "live"
Visible(u, n) == Live(n) /\ (u = "owner" \/ share[n] # "none")
MayEdit(u, n) == Live(n) /\ (u = "owner" \/ share[n] = "edit")

\* NOW() is the start of a statement that may have waited for the row, so
\* the time written may lie behind the one it replaces; no two statements on
\* a note begin at the same instant.
Stamp(n, t) ==
    /\ t \in {now, now - 1} \ stamps[n]
    /\ stamps' = [stamps EXCEPT ![n] = @ \union {t}]

Touch(n) == listing' = [listing EXCEPT !.steady = @ \ {n}]
Withdraw(n) == listing' = [listing EXCEPT !.steady = @ \ {n}, !.visible = @ \ {n}]

CreateNote(n, t) ==
    /\ note[n].status = "none"
    /\ Stamp(n, t)
    /\ note' = [note EXCEPT ![n] = [status |-> "live", updated |-> t, icon |-> 0]]
    /\ UNCHANGED <<now, share, seen, listing, blind>>

\* GetNoteByID, or a row of a listing.
GetNoteByID(n) ==
    /\ Visible("guest", n)
    /\ seen' = [note |-> n, updated |-> note[n].updated, icon |-> note[n].icon]
    /\ UNCHANGED <<now, note, share, listing, stamps, blind>>

\* The version the edit asks for is the one in the row.
Expected(n) == seen.note = n /\ seen.updated = note[n].updated

\* Mutant: an edit of the icon alone leaves updated_at as it is.
UpdateKeepingTime(u, n, t, conditional) ==
    /\ MayEdit(u, n)
    /\ conditional => u = "guest" /\ Expected(n)
    /\ Stamp(n, t)
    /\ note' = [note EXCEPT ![n].icon = t]
    /\ blind' = IF conditional /\ seen.icon # note[n].icon THEN blind \union {note[n].icon} ELSE blind
    /\ Touch(n)
    /\ UNCHANGED <<now, share, seen>>

\* UpdateNote with an icon.  A conditional edit whose version is gone, and an
\* edit of what the user may not edit, answer an error and change nothing.
UpdateNote(u, n, t, conditional) ==
    /\ MayEdit(u, n)
    /\ conditional => u = "guest" /\ Expected(n)
    /\ Stamp(n, t)
    /\ note' = [note EXCEPT ![n].updated = t, ![n].icon = t]
    /\ blind' = IF conditional /\ seen.icon # note[n].icon THEN blind \union {note[n].icon} ELSE blind
    /\ Touch(n)
    /\ UNCHANGED <<now, share, seen>>

\* Accepted document operations save the document and the time.
SaveDocument(n, t) ==
    /\ Live(n)
    /\ Stamp(n, t)
    /\ note' = [note EXCEPT ![n].updated = t]
    /\ Touch(n)
    /\ UNCHANGED <<now, share, seen, blind>>

DeleteNote(n) ==
    /\ Live(n)
    /\ note' = [note EXCEPT ![n].status = "deleted"]
    /\ Withdraw(n)
    /\ UNCHANGED <<now, share, seen, stamps, blind>>

\* Thirty days later the row goes, and all that refers to it.
HardDeleteOldNotes(n) ==
    /\ note[n].status = "deleted"
    /\ note' = [note EXCEPT ![n].status = "purged"]
    /\ share' = [share EXCEPT ![n] = "none"]
    /\ UNCHANGED <<now, seen, listing, stamps, blind>>

\* What a write of NoteSharing, or a change of the favourite flag the listing
\* filters by, means to the guest.
ChangeShare(n, permission) ==
    /\ Live(n) /\ share[n] # permission
    /\ share' = [share EXCEPT ![n] = permission]
    /\ IF permission = "none" THEN Withdraw(n) ELSE Touch(n)
    /\ UNCHANGED <<now, note, seen, stamps, blind>>

----------------------------------------------------------------------------
(* The listing.                                                            *)

StartListing == LET there == {n \in Notes : Visible("guest", n)} IN
    /\ listing.phase = "idle"
    /\ listing' = [NotListing EXCEPT !.phase = "first", !.steady = there, !.visible = there]
    /\ UNCHANGED <<now, note, share, seen, stamps, blind>>

\* The order of the pages: latest first, and among equals by identifier.
Precedes(m, n) == note[m].updated > note[n].updated \/ (note[m].updated = note[n].updated /\ m > n)

\* Mutant: the cursor compares the times alone.
BehindTime(n) == listing.phase = "first" \/ note[n].updated < listing.cursor.updated

Behind(n) ==
    \/ listing.phase = "first"
    \/ note[n].updated < listing.cursor.updated
    \/ note[n].updated = listing.cursor.updated /\ n < listing.cursor.note

\* GetNotes answers a page; the device asks for the next one behind its last
\* row until a page is short, and then drops the copies it did not find.
ReadPage ==
    LET rest == {n \in Notes : Visible("guest", n) /\ Behind(n)}
        page == {n \in rest : Cardinality({m \in rest : Precedes(m, n)}) < PageSize}
        last == CHOOSE n \in page : \A m \in page : m = n \/ Precedes(m, n)
        times == [n \in Notes |-> listing.times[n] + IF n \in page THEN 1 ELSE 0]
    IN
    /\ listing.phase \in {"first", "next"}
    /\ listing' = IF Cardinality(page) < PageSize
                  THEN [NotListing EXCEPT !.phase = "done", !.times = times,
                                          !.steady = listing.steady, !.visible = listing.visible]
                  ELSE [listing EXCEPT !.phase = "next", !.times = times,
                                       !.cursor = [updated |-> note[last].updated, note |-> last]]
    /\ UNCHANGED <<now, note, share, seen, stamps, blind>>

----------------------------------------------------------------------------

Next ==
    \/ Tick
    \/ \E n \in Notes :
        \/ \E t \in {now, now - 1} :
            \/ CreateNote(n, t) \/ SaveDocument(n, t)
            \/ \E u \in Users, conditional \in BOOLEAN : UpdateNote(u, n, t, conditional)
        \/ GetNoteByID(n) \/ DeleteNote(n) \/ HardDeleteOldNotes(n)
        \/ \E permission \in {"none", "view", "edit"} : ChangeShare(n, permission)
    \/ StartListing
    \/ ReadPage

Spec == Init /\ [][Next]_vars

----------------------------------------------------------------------------
(* Properties.                                                             *)

\* A finished listing holds each note that nobody touched meanwhile exactly
\* once, however the others moved between its pages: the device keeps its
\* copy of it (NoteCatalogSync._removeMissingRemoteNote spares it).
SteadyNotesAreListed == listing.phase = "done" =>
    \A n \in listing.steady : listing.times[n] = 1

\* Every note the guest could see all the time is in the listing.
VisibleNotesAreListed == listing.phase = "done" =>
    \A n \in listing.visible : listing.times[n] >= 1

\* A conditional edit never replaces an icon its editor has not seen,
\* whatever edits and document operations came between.
NoIconReplacedUnseen == blind = {}

\* A version that was read can be told from every later one: each write
\* brings a time that was never written to the note before.
SeenOK == seen # NothingSeen =>
    /\ note[seen.note].status # "none" /\ seen.updated \in stamps[seen.note]
    /\ seen.updated = note[seen.note].updated => seen.icon = note[seen.note].icon

\* A note that stays as it was is behind the cursor, or was read once.
ListingOK == \A n \in listing.steady :
    /\ listing.phase # "idle" /\ Visible("guest", n)
    /\ listing.times[n] = IF listing.phase # "done" /\ Behind(n) THEN 0 ELSE 1

\* The inductive invariant.
CatalogInv ==
    /\ TypeOK
    /\ \A n \in Notes : note[n].status # "none" => note[n].updated \in stamps[n]
    /\ SeenOK /\ ListingOK
    /\ NoIconReplacedUnseen
=============================================================================
