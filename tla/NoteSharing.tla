------------------------------ MODULE NoteSharing -------------------------------
(***************************************************************************)
(* Who may see a note: the share of one guest, the guest's favourite flag  *)
(* and the public link of each note.  Each is checked in one statement and *)
(* written in another, while the owner's other requests and the deletion   *)
(* of the note come between.                                               *)
(***************************************************************************)
EXTENDS Naturals, FiniteSets

CONSTANTS
    Notes,       \* note identifiers
    MaxTokens,   \* bound on the link tokens drawn
    MaxRequests  \* bound on the requests under way

ASSUME NoteSharingAssumption == MaxTokens \in Nat /\ MaxRequests \in Nat

VARIABLES
    note,      \* per note: its status
    share,     \* per note: what the guest may do
    favorite,  \* notes the guest marked
    link,      \* per note: its row in note_share_links
    tokens,    \* link tokens drawn so far
    requests,  \* requests that passed their check and have not written yet
    given,     \* history: tokens answered to the owner
    withdrawn  \* history: tokens disabled, replaced, or whose note was deleted

sharingVars == <<note, share, favorite, link, tokens, requests, given, withdrawn>>
links == <<link, tokens, given, withdrawn>>

NoLink == [token |-> 0, enabled |-> FALSE]
Kinds == {"view", "edit", "unshare", "mark", "unmark", "activate", "replace", "disable"}

SharingTypeOK ==
    /\ note \in [Notes -> {"live", "deleted", "purged"}]
    /\ share \in [Notes -> {"none", "view", "edit"}]
    /\ favorite \subseteq Notes
    /\ link \in [Notes -> [token : 0..MaxTokens, enabled : BOOLEAN]]
    /\ tokens \in 0..MaxTokens
    /\ requests \subseteq [kind : Kinds, note : Notes]
    /\ given \subseteq 1..MaxTokens /\ withdrawn \subseteq 1..MaxTokens

SharingInit ==
    /\ note = [n \in Notes |-> "live"]
    /\ share = [n \in Notes |-> "none"] /\ favorite = {}
    /\ link = [n \in Notes |-> NoLink] /\ tokens = 0
    /\ requests = {} /\ given = {} /\ withdrawn = {}

Live(n) == note[n] = "live"
TokenOf(n) == {link[n].token} \ {0}

----------------------------------------------------------------------------
(* What each request checks before it writes: the owner's that the note is *)
(* live and theirs, the guest's that the note is live and shared.          *)

Asked(kind, n) ==
    /\ Cardinality(requests) < MaxRequests
    /\ Live(n)
    /\ requests' = requests \union {[kind |-> kind, note |-> n]}
    /\ UNCHANGED <<note, share, favorite, links>>

ShareNote(n, permission) == Asked(permission, n)

RemoveShare(n) == Asked("unshare", n)

UpdatePreferences(n, marked) ==
    /\ share[n] # "none"
    /\ Asked(IF marked THEN "mark" ELSE "unmark", n)

Activate(n, replace) == Asked(IF replace THEN "replace" ELSE "activate", n)

Disable(n) == Asked("disable", n)

----------------------------------------------------------------------------
(* The end of the note.                                                    *)

\* Mutant: without the trigger the link survives its note.
DeleteNoteOnly(n) ==
    /\ Live(n)
    /\ note' = [note EXCEPT ![n] = "deleted"]
    /\ withdrawn' = withdrawn \union TokenOf(n)
    /\ UNCHANGED <<share, favorite, link, tokens, requests, given>>

\* The soft deletion; a trigger disables the link in the same transaction.
DeleteNote(n) ==
    /\ Live(n)
    /\ note' = [note EXCEPT ![n] = "deleted"]
    /\ link' = [link EXCEPT ![n].enabled = FALSE]
    /\ withdrawn' = withdrawn \union TokenOf(n)
    /\ UNCHANGED <<share, favorite, tokens, requests, given>>

\* Thirty days later the row goes, and all that refers to it.
HardDeleteOldNotes(n) ==
    /\ note[n] = "deleted"
    /\ note' = [note EXCEPT ![n] = "purged"]
    /\ share' = [share EXCEPT ![n] = "none"]
    /\ favorite' = favorite \ {n}
    /\ link' = [link EXCEPT ![n] = NoLink]
    /\ withdrawn' = withdrawn \union TokenOf(n)
    /\ UNCHANGED <<tokens, requests, given>>

----------------------------------------------------------------------------
(* The writes.                                                             *)

Pending(kind, n) ==
    LET r == [kind |-> kind, note |-> n] IN
    r \in requests /\ requests' = requests \ {r}

\* What is inserted refers to the note, and fails when its row has gone.
Insertable(n) == note[n] # "purged"

ForeignKeyFails(kind, n) ==
    /\ Pending(kind, n)
    /\ ~Insertable(n) /\ kind \notin {"unshare", "disable"}
    /\ UNCHANGED <<note, share, favorite, links>>

\* Shares and preferences are written by the key of the note and the user,
\* whatever became of the note and the share meanwhile.
CreateNoteShare(n, permission) ==
    /\ Pending(permission, n)
    /\ Insertable(n)
    /\ share' = [share EXCEPT ![n] = permission]
    /\ UNCHANGED <<note, favorite, links>>

DeleteNoteShare(n) ==
    /\ Pending("unshare", n)
    /\ share' = [share EXCEPT ![n] = "none"]
    /\ UNCHANGED <<note, favorite, links>>

UpsertUserNotePreference(n, marked) ==
    /\ Pending(IF marked THEN "mark" ELSE "unmark", n)
    /\ Insertable(n)
    /\ favorite' = IF marked THEN favorite \union {n} ELSE favorite \ {n}
    /\ UNCHANGED <<note, share, links>>

\* Mutant: a disabled link is enabled again under its old token.
UpsertReviving(n, replace) ==
    LET fresh == replace \/ link[n].token = 0 IN
    /\ Pending(IF replace THEN "replace" ELSE "activate", n)
    /\ Insertable(n) /\ tokens < MaxTokens
    /\ tokens' = tokens + 1
    /\ link' = [link EXCEPT ![n] = [token |-> IF fresh THEN tokens' ELSE @.token, enabled |-> TRUE]]
    /\ given' = given \union {link'[n].token}
    /\ withdrawn' = IF replace THEN withdrawn \union TokenOf(n) ELSE withdrawn
    /\ UNCHANGED <<note, share, favorite>>

\* Mutant: every activation takes the token drawn for it.
UpsertAlwaysFresh(n, replace) ==
    /\ Pending(IF replace THEN "replace" ELSE "activate", n)
    /\ Insertable(n) /\ tokens < MaxTokens
    /\ tokens' = tokens + 1
    /\ link' = [link EXCEPT ![n] = [token |-> tokens', enabled |-> TRUE]]
    /\ given' = given \union {tokens'}
    /\ withdrawn' = IF replace THEN withdrawn \union TokenOf(n) ELSE withdrawn
    /\ UNCHANGED <<note, share, favorite>>

\* UpsertNoteShareLink: the token drawn for the request is taken by a new
\* row, on demand, or by a row that was disabled; another keeps its token.
UpsertNoteShareLink(n, replace) ==
    LET fresh == replace \/ ~link[n].enabled IN
    /\ Pending(IF replace THEN "replace" ELSE "activate", n)
    /\ Insertable(n) /\ tokens < MaxTokens
    /\ tokens' = tokens + 1
    /\ link' = [link EXCEPT ![n] = [token |-> IF fresh THEN tokens' ELSE @.token, enabled |-> TRUE]]
    /\ given' = given \union {link'[n].token}
    /\ withdrawn' = IF replace THEN withdrawn \union TokenOf(n) ELSE withdrawn
    /\ UNCHANGED <<note, share, favorite>>

DisableNoteShareLink(n) ==
    /\ Pending("disable", n)
    /\ link' = [link EXCEPT ![n].enabled = FALSE]
    /\ withdrawn' = withdrawn \union TokenOf(n)
    /\ UNCHANGED <<note, share, favorite, tokens, given>>

\* GetPublicNoteByShareToken and GetPublicNoteIDByShareToken.
Resolves(t, n) == link[n] = [token |-> t, enabled |-> TRUE] /\ Live(n)

----------------------------------------------------------------------------

SharingNext == \E n \in Notes :
    \/ \E permission \in {"view", "edit"} : ShareNote(n, permission)
    \/ RemoveShare(n)
    \/ \E marked \in BOOLEAN : UpdatePreferences(n, marked)
    \/ \E replace \in BOOLEAN : Activate(n, replace)
    \/ Disable(n)
    \/ DeleteNote(n)
    \/ HardDeleteOldNotes(n)
    \/ \E permission \in {"view", "edit"} : CreateNoteShare(n, permission)
    \/ DeleteNoteShare(n)
    \/ \E marked \in BOOLEAN : UpsertUserNotePreference(n, marked)
    \/ \E replace \in BOOLEAN : UpsertNoteShareLink(n, replace)
    \/ DisableNoteShareLink(n)
    \/ \E kind \in Kinds : ForeignKeyFails(kind, n)

SharingSpec == SharingInit /\ [][SharingNext]_sharingVars

----------------------------------------------------------------------------
(* Properties.                                                             *)

\* A link that was disabled, replaced or went with its note never opens a
\* note again, in whatever order the requests are carried out.
WithdrawnLinksStayClosed == \A t \in withdrawn : ~\E n \in Notes : Resolves(t, n)

\* A link the owner was given stays the link of its note until it is
\* withdrawn, however many activations cross.
GivenLinksOpen == \A t \in given \ withdrawn :
    \E n \in Notes : link[n] = [token |-> t, enabled |-> TRUE]

\* Every token was drawn for one note and one only.
TokensAreDrawnOnce ==
    /\ given \subseteq 1..tokens /\ withdrawn \subseteq 1..tokens
    /\ \A n \in Notes : link[n].token <= tokens
    /\ \A m, n \in Notes : link[m].token = link[n].token /\ m # n => link[n].token = 0

\* The share, the flag and the link of a note go with its row, whatever
\* request is still to write.
NothingOutlivesTheNote == \A n \in Notes : note[n] = "purged" =>
    share[n] = "none" /\ n \notin favorite /\ link[n] = NoLink

\* The table of links does not lean on the notes: a row that holds a withdrawn
\* token is disabled, be it that its note was deleted, that it was disabled or
\* that a request still under way is to give it a new token.
SharingInv ==
    /\ SharingTypeOK
    /\ TokensAreDrawnOnce
    /\ NothingOutlivesTheNote
    /\ \A n \in Notes :
        /\ link[n].enabled => link[n].token # 0
        /\ link[n].token \in withdrawn => ~link[n].enabled
=============================================================================
