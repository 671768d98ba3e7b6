--------------------------- MODULE SharingAndMcpProofs ---------------------------
(***************************************************************************)
(* Machine-checked proofs about the two ways in which others act on a      *)
(* user's notes: NoteSharing, for any notes and any number of tokens and   *)
(* of requests under way, and McpConfirmations, for any calls, tokens,     *)
(* confirmations, arguments, lease and number of faults.                   *)
(***************************************************************************)
EXTENDS NoteSharing, McpConfirmations, TLAPS

-------------------------------------------------------------------------------
(* NoteSharing.                                                            *)

USE NoteSharingAssumption

\* The inductive invariant: the links of SharingInv and what it needs from
\* GivenLinksOpen.  What goes with a note is kept by itself.
LinksInv ==
    /\ SharingTypeOK
    /\ TokensAreDrawnOnce
    /\ \A n \in Notes :
        /\ link[n].enabled => link[n].token # 0
        /\ link[n].token \in withdrawn => ~link[n].enabled
    /\ GivenLinksOpen

LEMMA InitSharing == SharingInit => LinksInv /\ NothingOutlivesTheNote
BY DEF SharingInit, LinksInv, NothingOutlivesTheNote, SharingTypeOK, TokensAreDrawnOnce,
       GivenLinksOpen, NoLink, Kinds

\* What a step leaves alone keeps what the invariant says of it.
LEMMA LinksKept ==
    ASSUME LinksInv, UNCHANGED links, SharingTypeOK'
    PROVE  LinksInv'
BY DEF LinksInv, TokensAreDrawnOnce, GivenLinksOpen, links

\* The type of the links and tokens, whatever a step does to one row.
LEMMA TokenOfType ==
    ASSUME SharingTypeOK, NEW n \in Notes
    PROVE  /\ TokenOf(n) \subseteq 1..MaxTokens
           /\ [link EXCEPT ![n].enabled = FALSE] \in [Notes -> [token : 0..MaxTokens, enabled : BOOLEAN]]
           /\ [link EXCEPT ![n] = NoLink] \in [Notes -> [token : 0..MaxTokens, enabled : BOOLEAN]]
           /\ \A t \in 0..MaxTokens : [link EXCEPT ![n] = [token |-> t, enabled |-> TRUE]]
                  \in [Notes -> [token : 0..MaxTokens, enabled : BOOLEAN]]
<1>1. link[n] \in [token : 0..MaxTokens, enabled : BOOLEAN]
    BY DEF SharingTypeOK
<1>2. [link[n] EXCEPT !.enabled = FALSE] \in [token : 0..MaxTokens, enabled : BOOLEAN]
    BY <1>1
<1>3. NoLink \in [token : 0..MaxTokens, enabled : BOOLEAN]
    BY DEF NoLink
<1> QED
    BY <1>1, <1>2, <1>3 DEF SharingTypeOK, TokenOf

LEMMA TypeKept ==
    ASSUME LinksInv, SharingNext
    PROVE  SharingTypeOK'
<1> SharingTypeOK
    BY DEF LinksInv
<1> USE DEF SharingTypeOK
<1>1. ASSUME NEW kind \in Kinds, NEW n \in Notes, Asked(kind, n) PROVE SharingTypeOK'
    BY <1>1 DEF Asked, links
<1>2. ASSUME NEW kind, NEW n \in Notes, Pending(kind, n) PROVE requests' \subseteq requests
    BY <1>2 DEF Pending
<1>3. ASSUME NEW n \in Notes, NEW permission \in {"view", "edit"}, ShareNote(n, permission) PROVE SharingTypeOK'
    BY <1>1, <1>3 DEF ShareNote, Kinds
<1>4. ASSUME NEW n \in Notes, RemoveShare(n) PROVE SharingTypeOK'
    BY <1>1, <1>4 DEF RemoveShare, Kinds
<1>5. ASSUME NEW n \in Notes, NEW marked \in BOOLEAN, UpdatePreferences(n, marked) PROVE SharingTypeOK'
    BY <1>1, <1>5 DEF UpdatePreferences, Kinds
<1>6. ASSUME NEW n \in Notes, NEW replace \in BOOLEAN, Activate(n, replace) PROVE SharingTypeOK'
    BY <1>1, <1>6 DEF Activate, Kinds
<1>7. ASSUME NEW n \in Notes, Disable(n) PROVE SharingTypeOK'
    BY <1>1, <1>7 DEF Disable, Kinds
<1>8. ASSUME NEW n \in Notes, DeleteNote(n) PROVE SharingTypeOK'
    BY <1>8, TokenOfType DEF DeleteNote
<1>9. ASSUME NEW n \in Notes, HardDeleteOldNotes(n) PROVE SharingTypeOK'
    BY <1>9, TokenOfType DEF HardDeleteOldNotes
<1>10. ASSUME NEW n \in Notes, NEW permission \in {"view", "edit"}, CreateNoteShare(n, permission) PROVE SharingTypeOK'
    BY <1>2, <1>10 DEF CreateNoteShare, links
<1>11. ASSUME NEW n \in Notes, DeleteNoteShare(n) PROVE SharingTypeOK'
    BY <1>2, <1>11 DEF DeleteNoteShare, links
<1>12. ASSUME NEW n \in Notes, NEW marked \in BOOLEAN, UpsertUserNotePreference(n, marked) PROVE SharingTypeOK'
    BY <1>2, <1>12 DEF UpsertUserNotePreference, links
<1>13. ASSUME NEW n \in Notes, NEW replace \in BOOLEAN, UpsertNoteShareLink(n, replace) PROVE SharingTypeOK'
    <2>1. requests' \subseteq requests
        BY <1>2, <1>13 DEF UpsertNoteShareLink
    <2>2. tokens' \in 1..MaxTokens
        BY <1>13 DEF UpsertNoteShareLink
    <2>3. PICK t \in 1..MaxTokens : link' = [link EXCEPT ![n] = [token |-> t, enabled |-> TRUE]]
        <3>1. CASE replace \/ ~link[n].enabled
            BY <1>13, <2>2, <3>1 DEF UpsertNoteShareLink
        <3>2. CASE ~(replace \/ ~link[n].enabled)
            <4>1. link[n].token \in 1..MaxTokens
                BY <3>2 DEF LinksInv
            <4>2. link' = [link EXCEPT ![n] = [token |-> link[n].token, enabled |-> TRUE]]
                BY <1>13, <3>2 DEF UpsertNoteShareLink
            <4> QED
                BY <4>1, <4>2
        <3> QED
            BY <3>1, <3>2
    <2>4. link' \in [Notes -> [token : 0..MaxTokens, enabled : BOOLEAN]] /\ link'[n].token = t
        BY <2>3, TokenOfType
    <2>5. given' \subseteq 1..MaxTokens
        BY <1>13, <2>3, <2>4 DEF UpsertNoteShareLink
    <2>6. withdrawn' \subseteq 1..MaxTokens
        BY <1>13, TokenOfType DEF UpsertNoteShareLink
    <2> QED
        BY <1>13, <2>1, <2>2, <2>4, <2>5, <2>6 DEF UpsertNoteShareLink
<1>14. ASSUME NEW n \in Notes, DisableNoteShareLink(n) PROVE SharingTypeOK'
    BY <1>2, <1>14, TokenOfType DEF DisableNoteShareLink
<1>15. ASSUME NEW n \in Notes, NEW kind \in Kinds, ForeignKeyFails(kind, n) PROVE SharingTypeOK'
    BY <1>2, <1>15 DEF ForeignKeyFails, links
<1> QED
    BY <1>3, <1>4, <1>5, <1>6, <1>7, <1>8, <1>9, <1>10, <1>11, <1>12, <1>13, <1>14, <1>15 DEF SharingNext

\* One drawing of a token keeps the tokens of different notes apart.
LEMMA UpsertKeeps ==
    ASSUME LinksInv, NEW n \in Notes, NEW replace \in BOOLEAN,
           UpsertNoteShareLink(n, replace), SharingTypeOK'
    PROVE  LinksInv'
<1> USE DEF LinksInv, SharingTypeOK, TokensAreDrawnOnce, GivenLinksOpen
<1>1. tokens' = tokens + 1 /\ tokens \in Nat
    BY DEF UpsertNoteShareLink
<1>2. CASE replace \/ ~link[n].enabled
    <2>1. link' = [link EXCEPT ![n] = [token |-> tokens', enabled |-> TRUE]]
        BY <1>2 DEF UpsertNoteShareLink
    <2>2. given' = given \union {tokens'}
        BY <2>1 DEF UpsertNoteShareLink
    <2>3. withdrawn' = withdrawn \/ withdrawn' = withdrawn \union TokenOf(n)
        BY DEF UpsertNoteShareLink
    <2>4. tokens' \notin withdrawn' /\ withdrawn' \subseteq 1..tokens'
        BY <1>1, <2>3 DEF TokenOf
    <2>5. TokensAreDrawnOnce'
        BY <1>1, <2>1, <2>2, <2>4
    <2>6. \A m \in Notes : /\ link'[m].enabled => link'[m].token # 0
                           /\ link'[m].token \in withdrawn' => ~link'[m].enabled
        BY <1>1, <2>1, <2>3, <2>4 DEF TokenOf
    <2>7. GivenLinksOpen'
        <3> SUFFICES ASSUME NEW t \in given' \ withdrawn'
                     PROVE  \E m \in Notes : link'[m] = [token |-> t, enabled |-> TRUE]
            OBVIOUS
        <3>1. CASE t = tokens'
            BY <2>1, <3>1
        <3>2. CASE t # tokens'
            <4>1. t \in given \ withdrawn
                BY <2>2, <2>3, <3>2
            <4>2. PICK m \in Notes : link[m] = [token |-> t, enabled |-> TRUE]
                BY <4>1
            <4>3. m # n
                \* The row of n was disabled, or its token is withdrawn now.
                BY <1>2, <2>2, <4>2, <4>1 DEF UpsertNoteShareLink, TokenOf
            <4> QED
                BY <2>1, <4>2, <4>3
        <3> QED
            BY <3>1, <3>2
    <2> QED
        BY <2>5, <2>6, <2>7
<1>3. CASE ~replace /\ link[n].enabled
    <2>1. link' = link /\ withdrawn' = withdrawn /\ given' = given \union {link[n].token}
        BY <1>3 DEF UpsertNoteShareLink
    <2>2. link[n] = [token |-> link[n].token, enabled |-> TRUE] /\ link[n].token # 0
        BY <1>3
    <2>3. GivenLinksOpen'
        BY <2>1, <2>2
    <2> QED
        BY <1>1, <2>1, <2>2, <2>3
<1> QED
    BY <1>2, <1>3

\* A row that is disabled together with the withdrawal of its token.
LEMMA WithdrawalKeeps ==
    ASSUME LinksInv, NEW n \in Notes, SharingTypeOK',
           \/ link' = [link EXCEPT ![n].enabled = FALSE]
           \/ link' = [link EXCEPT ![n] = NoLink],
           withdrawn' = withdrawn \union TokenOf(n),
           UNCHANGED <<tokens, given>>
    PROVE  LinksInv'
<1> USE DEF LinksInv, SharingTypeOK, TokensAreDrawnOnce, GivenLinksOpen, TokenOf, NoLink
<1>1. \A m \in Notes : /\ m # n => link'[m] = link[m]
                       /\ link'[m].token = link[m].token \/ link'[m].token = 0
    OBVIOUS
<1>2. ~link'[n].enabled
    OBVIOUS
<1>3. TokensAreDrawnOnce'
    BY <1>1
<1>4. \A m \in Notes : /\ link'[m].enabled => link'[m].token # 0
                       /\ link'[m].token \in withdrawn' => ~link'[m].enabled
    BY <1>1, <1>2
<1>5. GivenLinksOpen'
    <2> SUFFICES ASSUME NEW t \in given \ withdrawn'
                 PROVE  \E m \in Notes : link'[m] = [token |-> t, enabled |-> TRUE]
        OBVIOUS
    <2>1. PICK m \in Notes : link[m] = [token |-> t, enabled |-> TRUE]
        OBVIOUS
    <2>2. m # n
        BY <2>1
    <2> QED
        BY <1>1, <2>1, <2>2
<1> QED
    BY <1>3, <1>4, <1>5

LEMMA NextKeepsSharing == LinksInv /\ [SharingNext]_sharingVars => LinksInv'
<1> SUFFICES ASSUME LinksInv, [SharingNext]_sharingVars PROVE LinksInv'
    OBVIOUS
<1>1. CASE UNCHANGED sharingVars
    <2>1. SharingTypeOK' /\ UNCHANGED links
        BY <1>1 DEF sharingVars, links, LinksInv, SharingTypeOK
    <2> QED
        BY <2>1, LinksKept
<1>2. CASE SharingNext
    <2>1. SharingTypeOK'
        BY <1>2, TypeKept
    <2>2. PICK n \in Notes :
            \/ UNCHANGED links
            \/ DeleteNote(n) \/ HardDeleteOldNotes(n) \/ DisableNoteShareLink(n)
            \/ \E replace \in BOOLEAN : UpsertNoteShareLink(n, replace)
        BY <1>2 DEF SharingNext, ShareNote, RemoveShare, UpdatePreferences, Activate, Disable, Asked,
                    CreateNoteShare, DeleteNoteShare, UpsertUserNotePreference, ForeignKeyFails
    <2>3. CASE UNCHANGED links
        BY <2>1, <2>3, LinksKept
    <2>4. CASE DeleteNote(n) \/ HardDeleteOldNotes(n) \/ DisableNoteShareLink(n)
        BY <2>1, <2>4, WithdrawalKeeps DEF DeleteNote, HardDeleteOldNotes, DisableNoteShareLink
    <2>5. ASSUME NEW replace \in BOOLEAN, UpsertNoteShareLink(n, replace) PROVE LinksInv'
        BY <2>1, <2>5, UpsertKeeps
    <2> QED
        BY <2>2, <2>3, <2>4, <2>5
<1> QED
    BY <1>1, <1>2

\* What goes with a note stays away: who asked saw the note live, and what is
\* still to write refers to its row or takes something away.
LEMMA NextKeepsNothing ==
    ASSUME SharingTypeOK, NothingOutlivesTheNote, [SharingNext]_sharingVars
    PROVE  NothingOutlivesTheNote'
<1> USE DEF NothingOutlivesTheNote, SharingTypeOK
<1>1. CASE UNCHANGED sharingVars
    BY <1>1 DEF sharingVars
<1>2. ASSUME UNCHANGED <<note, share, favorite, links>> PROVE NothingOutlivesTheNote'
    BY <1>2 DEF links
<1>3. ASSUME NEW n \in Notes, DeleteNote(n) PROVE NothingOutlivesTheNote'
    BY <1>3 DEF DeleteNote
<1>4. ASSUME NEW n \in Notes, HardDeleteOldNotes(n) PROVE NothingOutlivesTheNote'
    BY <1>4 DEF HardDeleteOldNotes
<1>5. ASSUME NEW n \in Notes, NEW permission \in {"view", "edit"}, CreateNoteShare(n, permission)
      PROVE  NothingOutlivesTheNote'
    BY <1>5 DEF CreateNoteShare, Insertable, links
<1>6. ASSUME NEW n \in Notes, DeleteNoteShare(n) PROVE NothingOutlivesTheNote'
    BY <1>6 DEF DeleteNoteShare, links
<1>7. ASSUME NEW n \in Notes, NEW marked \in BOOLEAN, UpsertUserNotePreference(n, marked)
      PROVE  NothingOutlivesTheNote'
    BY <1>7 DEF UpsertUserNotePreference, Insertable, links
<1>8. ASSUME NEW n \in Notes, NEW replace \in BOOLEAN, UpsertNoteShareLink(n, replace)
      PROVE  NothingOutlivesTheNote'
    <2>1. /\ note[n] # "purged" /\ UNCHANGED <<note, share, favorite>>
          /\ \A m \in Notes \ {n} : link'[m] = link[m]
        BY <1>8 DEF UpsertNoteShareLink, Insertable
    <2> QED
        BY <2>1
<1>9. ASSUME NEW n \in Notes, DisableNoteShareLink(n) PROVE NothingOutlivesTheNote'
    \* A row that has gone has no link to disable.
    <2>1. UNCHANGED <<note, share, favorite>> /\ link' = [link EXCEPT ![n].enabled = FALSE]
        BY <1>9 DEF DisableNoteShareLink
    <2>2. ASSUME NEW m \in Notes, link[m] = NoLink PROVE link'[m] = NoLink
        <3>1. ASSUME NEW q \in [token : 0..MaxTokens, enabled : BOOLEAN], q.enabled = FALSE
              PROVE  [q EXCEPT !.enabled = FALSE] = q
            BY <3>1
        <3>2. link[m] \in [token : 0..MaxTokens, enabled : BOOLEAN] /\ link[m].enabled = FALSE
            BY <2>2 DEF NoLink
        <3>3. link'[m] = IF m = n THEN [link[m] EXCEPT !.enabled = FALSE] ELSE link[m]
            BY <2>1
        <3> QED
            BY <2>2, <3>1, <3>2, <3>3
    <2> QED
        BY <2>1, <2>2
<1>10. CASE SharingNext
    BY <1>2, <1>3, <1>4, <1>5, <1>6, <1>7, <1>8, <1>9, <1>10
    DEF SharingNext, ShareNote, RemoveShare, UpdatePreferences, Activate, Disable, Asked, ForeignKeyFails
<1> QED
    BY <1>1, <1>10

LEMMA InductiveSharing == SharingSpec => [](LinksInv /\ NothingOutlivesTheNote)
<1>1. LinksInv /\ NothingOutlivesTheNote /\ [SharingNext]_sharingVars
          => LinksInv' /\ NothingOutlivesTheNote'
    BY NextKeepsSharing, NextKeepsNothing DEF LinksInv
<1> QED
    BY <1>1, InitSharing, PTL DEF SharingSpec

-------------------------------------------------------------------------------
(* Theorems.                                                               *)

\* The links, tokens and shares keep their types, a token is never on two
\* notes, a row with a withdrawn token is disabled, and no share, flag or link
\* outlives the row of its note.
THEOREM SharingInvariant == SharingSpec => []SharingInv
<1>1. LinksInv /\ NothingOutlivesTheNote => SharingInv
    BY DEF LinksInv, SharingInv
<1> QED
    BY <1>1, InductiveSharing, PTL

\* For any number of requests that cross: a link once disabled, replaced or
\* deleted with its note opens nothing.
THEOREM WithdrawnLinksNeverOpen == SharingSpec => []WithdrawnLinksStayClosed
<1>1. SharingInv => WithdrawnLinksStayClosed
    <2> SUFFICES ASSUME SharingInv, NEW t \in withdrawn, NEW n \in Notes, Resolves(t, n)
                 PROVE  FALSE
        BY DEF WithdrawnLinksStayClosed
    <2>1. link[n].token = t /\ link[n].enabled
        BY DEF Resolves
    <2> QED
        BY <2>1 DEF SharingInv
<1> QED
    BY <1>1, SharingInvariant, PTL

\* For any number of activations that cross: each answers the link that the
\* note keeps.
THEOREM GivenLinksKeepOpen == SharingSpec => []GivenLinksOpen
<1>1. LinksInv => GivenLinksOpen
    BY DEF LinksInv
<1> QED
    BY <1>1, InductiveSharing, PTL

-------------------------------------------------------------------------------
(* McpConfirmations.                                                       *)

USE McpConfirmationsAssumption


-------------------------------------------------------------------------------
(* What no step takes back.                                                *)

EffectsGrow == effects' = effects \/ \E e \in Effects : effects' = Append(effects, e)

RowsGrow == \A f \in Confirmations :
    /\ confirmation[f].status # "none" =>
           /\ confirmation'[f].status # "none"
           /\ confirmation'[f].user = confirmation[f].user
           /\ confirmation'[f].arguments = confirmation[f].arguments
    /\ confirmation[f].status = "committed" => confirmation'[f] = confirmation[f]

TokensGrow == \A t \in Tokens : token[t].state # "none" =>
    token'[t].state # "none" /\ token'[t].user = token[t].user /\ token'[t].write = token[t].write

Grows == EffectsGrow /\ RowsGrow /\ TokensGrow /\ audit \subseteq audit'

Rows == [confirmation : Confirmations, result : Responses, warning : {"none", "given"}]

\* Effects stay where they are.
LEMMA EffectsStay ==
    ASSUME TypeOK, EffectsGrow
    PROVE  /\ effects' \in Seq(Effects)
           /\ Results \subseteq Results'
           /\ \A i \in Results : effects'[i] = effects[i]
           /\ Results = 1..Len(effects)
           /\ Results' \subseteq Nat
<1>1. effects \in Seq(Effects)
    BY DEF TypeOK
<1>2. CASE effects' = effects
    BY <1>1, <1>2 DEF Results
<1>3. ASSUME NEW e \in Effects, effects' = Append(effects, e)
      PROVE  /\ effects' \in Seq(Effects) /\ Len(effects') = Len(effects) + 1
             /\ \A i \in 1..Len(effects) : effects'[i] = effects[i]
    BY <1>1, <1>3
<1>4. Results = 1..Len(effects) /\ (effects' \in Seq(Effects) => Results' = 1..Len(effects'))
    BY <1>1 DEF Results
<1>5. Len(effects) \in Nat
    BY <1>1
<1> QED
    BY <1>1, <1>2, <1>3, <1>4, <1>5 DEF EffectsGrow

\* What a step leaves alone keeps what the invariant says of it.
LEMMA Kept ==
    ASSUME McpInv, Grows
    PROVE  /\ \A f \in Confirmations : \A r : ResultOf(f, r) => ResultOf(f, r)'
           /\ \A f \in Confirmations : \A r, w : Given(f, r, w) => Given(f, r, w)'
           /\ \A t \in Tokens, a \in Arguments : Allowed(t, a) => Allowed(t, a)'
           /\ \A f \in Confirmations, t \in Tokens, a \in Arguments :
                  Allowed(t, a) /\ For(f, t, a) => For(f, t, a)'
           /\ \A i \in Results : EffectOK(i)'
           /\ \A f \in Confirmations : confirmation'[f] = confirmation[f] /\ confirmation[f].status = "committed"
                  => ResultOf(f, confirmation[f].result)'
           /\ \A c \in Calls : call'[c] = call[c] => CallOK(c)'
           /\ \A x \in answers : Given(x.confirmation, x.result, x.warning)'
<1>1. TypeOK
    BY DEF McpInv
<1>2. ASSUME NEW f \in Confirmations, NEW r, ResultOf(f, r)
      PROVE  ResultOf(f, r)' /\ confirmation[f].status # "none"
    <2>1. r.effect \in Results /\ r.effect \in Results' /\ effects'[r.effect] = effects[r.effect]
        <3>1. EffectsGrow
            BY DEF Grows
        <3> QED
            BY <1>1, <1>2, <3>1, EffectsStay DEF ResultOf
    <2>2. effects[r.effect] \in Effects
        BY <1>1, <2>1, EffectsStay DEF TypeOK, Grows
    <2>3. confirmation[f].arguments \in Arguments
        BY <1>2, <2>2 DEF ResultOf, Effects
    <2>4. confirmation[f].status # "none"
        BY <1>1, <2>3 DEF TypeOK, Arguments
    <2> QED
        BY <1>2, <2>1, <2>4 DEF ResultOf, Grows, RowsGrow
<1>3. ASSUME NEW t \in Tokens, NEW a \in Arguments, Allowed(t, a)
      PROVE  Allowed(t, a)'
    BY <1>3 DEF Allowed, Grows, TokensGrow
<1>4. ASSUME NEW f \in Confirmations, NEW r, NEW w, Given(f, r, w)
      PROVE  Given(f, r, w)'
    <2>1. ResultOf(f, r)' /\ confirmation[f].status # "none"
        BY <1>2, <1>4 DEF Given
    <2>2. confirmation'[f].arguments = confirmation[f].arguments
        BY <2>1 DEF Grows, RowsGrow
    <2>3. Stored(f, r) => Stored(f, r)'
        BY DEF Stored, Grows, RowsGrow
    <2> QED
        BY <1>4, <2>1, <2>2, <2>3 DEF Given
<1>5. ASSUME NEW f \in Confirmations, NEW t \in Tokens, NEW a \in Arguments, Allowed(t, a), For(f, t, a)
      PROVE  For(f, t, a)'
    BY <1>5 DEF Allowed, For, Matches, Grows, RowsGrow, TokensGrow
<1>6. ASSUME NEW i \in Results PROVE EffectOK(i)'
    <2>1. effects'[i] = effects[i] /\ effects[i] \in Effects
        BY <1>1, EffectsStay DEF TypeOK, Grows
    <2>2. EffectOK(i)
        BY DEF McpInv
    <2>3. PICK f \in Confirmations, t \in Tokens, a \in Arguments :
              f = effects[i].confirmation /\ t = effects[i].token /\ a = effects[i].arguments
        BY <2>1 DEF Effects
    <2>4. For(f, t, a)' /\ Allowed(t, a)'
        BY <1>3, <1>5, <2>2, <2>3 DEF EffectOK
    <2>5. a \in Mutations => confirmation[f].status = "committed" /\ confirmation[f].result.effect = i
        BY <2>2, <2>3 DEF EffectOK
    <2>6. a \in Mutations => confirmation'[f].status = "committed" /\ confirmation'[f].result.effect = i
        BY <2>5 DEF Grows, RowsGrow
    <2> QED
        BY <2>1, <2>3, <2>4, <2>6 DEF EffectOK
<1>7. ASSUME NEW f \in Confirmations, confirmation[f].status = "committed"
      PROVE  ResultOf(f, confirmation[f].result)'
    <2>1. PICK r : r = confirmation[f].result /\ ResultOf(f, r)
        BY <1>7 DEF McpInv
    <2>2. confirmation'[f] = confirmation[f]
        BY <1>7 DEF Grows, RowsGrow
    <2>3. ResultOf(f, r)'
        BY <1>2, <2>1
    <2> QED
        BY <2>1, <2>2, <2>3
<1>8. ASSUME NEW c \in Calls, call'[c] = call[c]
      PROVE  CallOK(c)'
    <2>1. CallOK(c) /\ call[c] \in CallStates
        BY <1>1 DEF McpInv, TypeOK
    <2>2. PICK k : k = call[c]
        OBVIOUS
    <2>3. k.phase # "idle" => k.token \in Tokens /\ k.arguments \in Arguments
        BY <1>1, <2>2 DEF TypeOK
    <2>4. k.phase # "idle" => Allowed(k.token, k.arguments)
        BY <2>1, <2>2 DEF CallOK
    <2>5. k.phase # "idle" => Allowed(k.token, k.arguments)'
        BY <1>3, <2>3, <2>4
    <2>6. k.phase \in {"holding", "executed", "answering"} =>
              k.confirmation \in Confirmations /\ For(k.confirmation, k.token, k.arguments)'
        BY <1>5, <2>1, <2>2, <2>3, <2>4 DEF CallOK
    <2>7. k.phase = "executed" => ResultOf(k.confirmation, k.result)'
        BY <1>2, <2>1, <2>2, <2>6 DEF CallOK
    <2>8. k.phase = "answering" => Given(k.confirmation, k.result, k.warning)'
        BY <1>4, <2>1, <2>2, <2>6 DEF CallOK
    <2>9. k.phase = "handling" /\ k.confirmation # None => confirmation'[k.confirmation].status # "none"
        BY <2>1, <2>2 DEF CallOK, CallStates, Grows, RowsGrow
    <2> QED
        BY <1>8, <2>1, <2>2, <2>5, <2>6, <2>7, <2>8, <2>9 DEF CallOK
<1>9. ASSUME NEW x \in answers PROVE Given(x.confirmation, x.result, x.warning)'
    <2>1. x \in Rows /\ Given(x.confirmation, x.result, x.warning)
        BY <1>1 DEF McpInv, TypeOK, Rows
    <2>2. x.confirmation \in Confirmations
        BY <2>1 DEF Rows
    <2> QED
        BY <1>4, <2>1, <2>2
<1> QED
    BY <1>2, <1>3, <1>4, <1>5, <1>6, <1>7, <1>8, <1>9

\* A step that grows and is right about what it changes keeps the invariant.
LEMMA Combine ==
    ASSUME McpInv, Grows, TypeOK',
           \A i \in Results' \ Results : EffectOK(i)',
           \A i \in Results' \ Results, j \in Results :
               effects'[i].arguments \in Operations => effects[j].arguments # effects'[i].arguments,
           \A f \in Confirmations : confirmation'[f] # confirmation[f] /\ confirmation'[f].status = "committed"
                                        => ResultOf(f, confirmation[f].result)',
           \A c \in Calls : call'[c] # call[c] => CallOK(c)',
           \A x \in answers' \ answers : Given(x.confirmation, x.result, x.warning)'
    PROVE  McpInv'
<1>1. TypeOK /\ EffectsGrow
    BY DEF McpInv, Grows
<1>2. ASSUME NEW i \in Results' PROVE EffectOK(i)'
    <2>1. CASE i \in Results
        BY <2>1, Kept
    <2>2. CASE i \notin Results
        BY <2>2
    <2> QED
        BY <2>1, <2>2
<1>3. ASSUME NEW i \in Results', NEW j \in Results',
             effects'[i].arguments \in Operations, effects'[i].arguments = effects'[j].arguments
      PROVE  i = j
    <2>1. \A k \in Results' \ Results : k = Len(effects) + 1
        <3>1. effects \in Seq(Effects)
            BY <1>1 DEF TypeOK
        <3>2. ASSUME NEW e \in Effects, effects' = Append(effects, e)
              PROVE  \A k \in Results' \ Results : k = Len(effects) + 1
            BY <3>1, <3>2 DEF Results
        <3> QED
            BY <1>1, <3>2 DEF EffectsGrow, Results
    <2>2. CASE i \in Results /\ j \in Results
        BY <1>1, <1>3, <2>2, EffectsStay DEF McpInv
    <2>3. CASE i \notin Results /\ j \in Results
        <3>1. effects'[j] = effects[j]
            BY <1>1, <2>3, EffectsStay
        <3>2. effects[j].arguments # effects'[i].arguments
            BY <1>3, <2>3
        <3> QED
            BY <1>3, <3>1, <3>2
    <2>4. CASE i \in Results /\ j \notin Results
        <3>1. effects'[i] = effects[i]
            BY <1>1, <2>4, EffectsStay
        <3>2. effects[i].arguments # effects'[j].arguments
            BY <1>3, <2>4
        <3> QED
            BY <1>3, <3>1, <3>2
    <2>5. CASE i \notin Results /\ j \notin Results
        BY <1>3, <2>1, <2>5
    <2> QED
        BY <2>2, <2>3, <2>4, <2>5
<1>4. ASSUME NEW f \in Confirmations, confirmation'[f].status = "committed"
      PROVE  ResultOf(f, confirmation[f].result)'
    <2>1. CASE confirmation'[f] = confirmation[f]
        BY <1>4, <2>1, Kept
    <2> QED
        BY <1>4, <2>1
<1>5. \A c \in Calls : CallOK(c)'
    BY Kept
<1>6. \A x \in answers' : Given(x.confirmation, x.result, x.warning)'
    BY Kept
<1> QED
    BY <1>2, <1>3, <1>4, <1>5, <1>6 DEF McpInv

-------------------------------------------------------------------------------
(* The steps.                                                              *)

LEMMA InitMcp == Init => McpInv
<1> SUFFICES ASSUME Init PROVE McpInv
    OBVIOUS
<1>1. Results = {}
    BY DEF Init, Results
<1>2. TypeOK
    BY DEF Init, TypeOK, TokenRows, NoToken, ConfirmationRows, NoConfirmation, CallStates, NoCall,
           NoResult, Responses
<1>3. \A c \in Calls : CallOK(c)
    BY DEF Init, NoCall, CallOK
<1> QED
    BY <1>1, <1>2, <1>3 DEF McpInv, Init, NoConfirmation

\* Steps that touch the clock or the tokens only.
LEMMA TokenSteps ==
    ASSUME McpInv,
           \/ Tick \/ Edit
           \/ \E t \in Tokens : Expire(t) \/ RevokeMCPToken(t)
           \/ \E t \in Tokens, user \in Users, write \in BOOLEAN : GenerateMCPToken(t, user, write)
           \/ \E t \in Tokens, heir \in Tokens, write \in BOOLEAN : t # heir /\ RotateMCPToken(t, heir, write)
    PROVE  McpInv'
<1>1. TypeOK
    BY DEF McpInv
<1>2. UNCHANGED <<confirmation, call, drawn, effects, audit, answers, faults>>
    BY DEF Tick, Edit, Expire, RevokeMCPToken, GenerateMCPToken, RotateMCPToken, OnlyTokens
<1>3. token' \in [Tokens -> TokenRows] /\ TokensGrow
    <2>1. CASE Tick \/ Edit
        BY <1>1, <2>1 DEF Tick, Edit, TypeOK, TokensGrow
    <2>2. ASSUME NEW t \in Tokens, Expire(t) \/ RevokeMCPToken(t)
          PROVE  token' \in [Tokens -> TokenRows] /\ TokensGrow
        <3>1. PICK state \in {"expired", "revoked"} : token' = [token EXCEPT ![t].state = state]
            BY <2>2 DEF Expire, RevokeMCPToken
        <3>2. token[t] \in TokenRows
            BY <1>1 DEF TypeOK
        <3>3. PICK row : row = [token[t] EXCEPT !.state = state]
            OBVIOUS
        <3>4. /\ row \in TokenRows /\ row.state = state
              /\ row.user = token[t].user /\ row.write = token[t].write
            BY <3>1, <3>2, <3>3 DEF TokenRows
        <3>5. token' = [token EXCEPT ![t] = row]
            BY <3>1, <3>3
        <3>6. TokensGrow
            BY <1>1, <3>1, <3>4, <3>5 DEF TokensGrow, TypeOK
        <3> QED
            BY <1>1, <3>4, <3>5, <3>6 DEF TypeOK
    <2>3. ASSUME NEW t \in Tokens, NEW user \in Users, NEW write \in BOOLEAN, GenerateMCPToken(t, user, write)
          PROVE  token' \in [Tokens -> TokenRows] /\ TokensGrow
        <3>1. PICK row : row = [state |-> "live", user |-> user, write |-> write]
            OBVIOUS
        <3>2. row \in TokenRows
            BY <3>1 DEF TokenRows
        <3>3. token' = [token EXCEPT ![t] = row] /\ token[t].state = "none"
            BY <2>3, <3>1 DEF GenerateMCPToken, issueMCPToken
        <3> QED
            BY <1>1, <3>2, <3>3 DEF TypeOK, TokensGrow
    <2>4. ASSUME NEW t \in Tokens, NEW heir \in Tokens, NEW write \in BOOLEAN,
                 t # heir, RotateMCPToken(t, heir, write)
          PROVE  token' \in [Tokens -> TokenRows] /\ TokensGrow
        <3>1. token[t] \in TokenRows
            BY <1>1 DEF TypeOK
        <3>2. PICK old : old = [token[t] EXCEPT !.state = "revoked"]
            OBVIOUS
        <3>3. PICK new : new = [state |-> "live", user |-> token[t].user, write |-> write]
            OBVIOUS
        <3>4. /\ old \in TokenRows /\ old.state = "revoked"
              /\ old.user = token[t].user /\ old.write = token[t].write
            BY <3>1, <3>2 DEF TokenRows
        <3>5. new \in TokenRows
            BY <3>1, <3>3 DEF TokenRows
        <3>6. token' = [token EXCEPT ![t] = old, ![heir] = new] /\ token[heir].state = "none"
            BY <2>4, <3>2, <3>3 DEF RotateMCPToken
        <3> QED
            BY <1>1, <2>4, <3>4, <3>5, <3>6 DEF TypeOK, TokensGrow
    <2> QED
        BY <2>1, <2>2, <2>3, <2>4
<1>4. now' \in 0..MaxClock /\ edits' \in 0..MaxEdits
    <2>1. now \in 0..MaxClock /\ edits \in 0..MaxEdits
        BY <1>1 DEF TypeOK
    <2>2. \/ now' = now /\ edits' = edits
          \/ now < MaxClock /\ now' = now + 1 /\ edits' = edits
          \/ now' = now /\ edits < MaxEdits /\ edits' = edits + 1
        BY DEF Tick, Edit, Expire, RevokeMCPToken, GenerateMCPToken, RotateMCPToken, OnlyTokens
    <2> QED
        BY <2>1, <2>2
<1>5. TypeOK'
    BY <1>1, <1>2, <1>3, <1>4 DEF TypeOK
<1>6. Grows
    BY <1>2, <1>3 DEF Grows, EffectsGrow, RowsGrow
<1>7. Results' = Results
    BY <1>2 DEF Results
<1> QED
    BY <1>2, <1>5, <1>6, <1>7, Combine

\* A call that ends holds nothing.
LEMMA EndedCall ==
    ASSUME TypeOK, NEW c \in Calls, End(c)
    PROVE  /\ call' \in [Calls -> CallStates]
           /\ \A d \in Calls : call'[d].phase # "idle" => call'[d] = call[d]
           /\ \A d \in Calls : call'[d] # call[d] => CallOK(d)'
<1>1. NoCall \in CallStates
    BY DEF NoCall, CallStates, NoResult, Responses
<1>3. \A d \in Calls : call'[d] = IF d = c THEN NoCall ELSE call[d]
    BY DEF End, TypeOK
<1>4. \A d \in Calls : call'[d] # call[d] => CallOK(d)'
    BY <1>3 DEF CallOK, NoCall
<1> QED
    BY <1>1, <1>3, <1>4 DEF End, TypeOK, NoCall

\* A call that changes by one record.
LEMMA ChangedCall ==
    ASSUME TypeOK, NEW c \in Calls, NEW k \in CallStates,
           call' = [call EXCEPT ![c] = k],
           k.phase # "idle" => k.token \in Tokens /\ k.arguments \in Arguments
    PROVE  /\ call' \in [Calls -> CallStates]
           /\ \A d \in Calls : call'[d].phase # "idle" => call'[d].token \in Tokens /\ call'[d].arguments \in Arguments
           /\ \A d \in Calls : call'[d] # call[d] => d = c
           /\ call'[c] = k
<1>2. \A d \in Calls : call'[d] = IF d = c THEN k ELSE call[d]
    BY DEF TypeOK
<1> QED
    BY <1>2 DEF TypeOK

\* A call starts.
LEMMA StartSteps ==
    ASSUME McpInv, NEW c \in Calls, NEW t \in Tokens, NEW a \in Arguments,
           NEW f \in Confirmations \union {None}, StartCall(c, t, a, f)
    PROVE  McpInv'
<1>1. TypeOK
    BY DEF McpInv
<1> DEFINE k == [phase |-> "handling", token |-> t, arguments |-> a, confirmation |-> f, owner |-> 0,
                 result |-> NoResult, warning |-> "none"]
<1>2. UNCHANGED <<now, token, confirmation, drawn, effects, edits, answers, faults>>
    BY DEF StartCall
<1>3. Results' = Results
    BY <1>2 DEF Results
<1>4. /\ k \in CallStates /\ k.phase = "handling" /\ k.token = t /\ k.arguments = a
      /\ k.confirmation = f /\ k.warning = "none"
    BY <1>3 DEF CallStates, NoResult, Responses
<1>5. call' = [call EXCEPT ![c] = k]
    BY DEF StartCall
<1>6. /\ call' \in [Calls -> CallStates]
      /\ \A d \in Calls : call'[d].phase # "idle" => call'[d].token \in Tokens /\ call'[d].arguments \in Arguments
      /\ \A d \in Calls : call'[d] # call[d] => d = c
      /\ call'[c] = k
    <2> HIDE DEF k
    <2> QED
        BY <1>1, <1>3, <1>4, <1>5, ChangedCall
<1>7. audit' = audit \union {[token |-> t, arguments |-> a]}
    BY DEF StartCall
<1>8. TypeOK'
    BY <1>1, <1>2, <1>3, <1>6, <1>7 DEF TypeOK
<1>9. Grows
    BY <1>2, <1>7 DEF Grows, EffectsGrow, RowsGrow, TokensGrow
<1>10. token[t].write /\ token[t].state # "none" /\ (f # None => confirmation[f].status # "none")
    BY DEF StartCall
<1>11. CallOK(c)'
    <2> HIDE DEF k
    <2> QED
        BY <1>2, <1>4, <1>6, <1>7, <1>10 DEF CallOK, Allowed
<1> QED
    BY <1>2, <1>3, <1>6, <1>8, <1>9, <1>11, Combine

\* A confirmation that changes by one row.
LEMMA ChangedRow ==
    ASSUME TypeOK, NEW f \in Confirmations, NEW row \in ConfirmationRows,
           confirmation' = [confirmation EXCEPT ![f] = row],
           row.status = "none" <=> row.arguments = None,
           row.status = "pending" <=> row.owner # 0,
           row.status = "committed" <=> row.result.effect # 0,
           confirmation[f].status # "committed",
           confirmation[f].status # "none" =>
               row.arguments = confirmation[f].arguments /\ row.user = confirmation[f].user
    PROVE  /\ confirmation' \in [Confirmations -> ConfirmationRows]
           /\ \A g \in Confirmations :
                /\ confirmation'[g].status = "none" <=> confirmation'[g].arguments = None
                /\ confirmation'[g].status = "pending" <=> confirmation'[g].owner # 0
                /\ confirmation'[g].status = "committed" <=> confirmation'[g].result.effect # 0
           /\ RowsGrow
           /\ \A g \in Confirmations : confirmation'[g] # confirmation[g] => g = f
           /\ confirmation'[f] = row
<1>2. \A g \in Confirmations : confirmation'[g] = IF g = f THEN row ELSE confirmation[g]
    BY DEF TypeOK
<1>3. confirmation' \in [Confirmations -> ConfirmationRows]
    BY DEF TypeOK
<1>4. RowsGrow
    <2> SUFFICES ASSUME NEW g \in Confirmations
                 PROVE  /\ confirmation[g].status # "none" =>
                               /\ confirmation'[g].status # "none"
                               /\ confirmation'[g].user = confirmation[g].user
                               /\ confirmation'[g].arguments = confirmation[g].arguments
                        /\ confirmation[g].status = "committed" => confirmation'[g] = confirmation[g]
        BY DEF RowsGrow
    <2>1. CASE g = f
        BY <1>2, <2>1 DEF TypeOK
    <2>2. CASE g # f
        BY <1>2, <2>2
    <2> QED
        BY <2>1, <2>2
<1> QED
    BY <1>2, <1>3, <1>4 DEF TypeOK

\* A step of a call that neither creates an effect nor touches a row.
LEMMA OnlyTheCall ==
    ASSUME McpInv, NEW c \in Calls, NEW k \in CallStates,
           UNCHANGED <<now, token, confirmation, drawn, effects, edits, audit>>,
           faults' \in 0..MaxFaults,
           answers' \subseteq Rows,
           \A x \in answers' \ answers : Given(x.confirmation, x.result, x.warning),
           call' = [call EXCEPT ![c] = k],
           k.phase # "idle" => k.token \in Tokens /\ k.arguments \in Arguments,
           CallOK(c)'
    PROVE  McpInv'
<1>1. TypeOK
    BY DEF McpInv
<1>2. Results' = Results
    BY DEF Results
<1>3. /\ call' \in [Calls -> CallStates]
      /\ \A d \in Calls : call'[d].phase # "idle" => call'[d].token \in Tokens /\ call'[d].arguments \in Arguments
      /\ \A d \in Calls : call'[d] # call[d] => d = c
    BY <1>1, <1>2, ChangedCall
<1>4. TypeOK'
    BY <1>1, <1>2, <1>3 DEF TypeOK, Rows
<1>5. Grows
    BY DEF Grows, EffectsGrow, RowsGrow, TokensGrow
<1>6. \A x \in answers' \ answers : Given(x.confirmation, x.result, x.warning)'
    BY DEF Given, Stored, ResultOf, Results
<1> QED
    BY <1>2, <1>3, <1>4, <1>5, <1>6, Combine

\* A call that ends and changes nothing else.
LEMMA OnlyEnds ==
    ASSUME McpInv, NEW c \in Calls, End(c),
           UNCHANGED <<now, token, confirmation, drawn, effects, edits, audit>>,
           faults' \in 0..MaxFaults,
           answers' \subseteq Rows,
           \A x \in answers' \ answers : Given(x.confirmation, x.result, x.warning)
    PROVE  McpInv'
<1>1. TypeOK
    BY DEF McpInv
<1>2. NoCall \in CallStates /\ NoCall.phase = "idle"
    BY DEF NoCall, CallStates, NoResult, Responses
<1>3. call' = [call EXCEPT ![c] = NoCall]
    BY DEF End
<1>4. CallOK(c)'
    <2>1. call'[c] = NoCall
        BY <1>1, <1>3 DEF TypeOK
    <2> QED
        BY <2>1 DEF CallOK, NoCall
<1> QED
    BY <1>2, <1>3, <1>4, OnlyTheCall

LEMMA EndSteps ==
    ASSUME McpInv, NEW c \in Calls, Answer(c) \/ CutOff(c)
    PROVE  McpInv'
<1>1. TypeOK /\ CallOK(c) /\ call[c] \in CallStates
    BY DEF McpInv, TypeOK
<1>2. CASE Answer(c)
    <2>1. PICK k : k = call[c]
        OBVIOUS
    <2>2. k.phase = "answering" /\ k.confirmation \in Confirmations /\ Given(k.confirmation, k.result, k.warning)
        BY <1>1, <1>2, <2>1 DEF Answer, CallOK
    <2>3. PICK x : x = [confirmation |-> k.confirmation, result |-> k.result, warning |-> k.warning]
        OBVIOUS
    <2>4. /\ x \in Rows
          /\ x.confirmation = k.confirmation /\ x.result = k.result /\ x.warning = k.warning
        BY <1>1, <2>1, <2>2, <2>3 DEF Rows, CallStates
    <2>5. answers' = answers \union {x}
        BY <1>2, <2>1, <2>3 DEF Answer
    <2>6. answers' \subseteq Rows
        BY <1>1, <2>4, <2>5 DEF TypeOK, Rows
    <2>7. \A y \in answers' \ answers : Given(y.confirmation, y.result, y.warning)
        BY <2>2, <2>4, <2>5
    <2> QED
        BY <1>1, <1>2, <2>6, <2>7, OnlyEnds DEF Answer, TypeOK
<1>3. CASE CutOff(c)
    BY <1>1, <1>3, OnlyEnds DEF CutOff, TypeOK, Rows
<1> QED
    BY <1>2, <1>3

\* The updates of a row and of a call.
LEMMA PendingRow ==
    ASSUME NEW q \in ConfirmationRows, NEW o \in 0..MaxReservations, NEW l \in 0..(MaxClock + Lease)
    PROVE  \E row \in ConfirmationRows :
               /\ row = [q EXCEPT !.status = "pending", !.owner = o, !.lease = l]
               /\ row.status = "pending" /\ row.user = q.user /\ row.arguments = q.arguments
               /\ row.owner = o /\ row.result = q.result
<1>1. PICK row : row = [q EXCEPT !.status = "pending", !.owner = o, !.lease = l]
    OBVIOUS
<1>2. /\ row \in ConfirmationRows
      /\ row.status = "pending" /\ row.user = q.user /\ row.arguments = q.arguments
      /\ row.owner = o /\ row.result = q.result
    BY <1>1 DEF ConfirmationRows
<1> QED
    BY <1>1, <1>2

LEMMA CommittedRow ==
    ASSUME NEW q \in ConfirmationRows, NEW r \in Responses
    PROVE  \E row \in ConfirmationRows :
               /\ row = [q EXCEPT !.status = "committed", !.owner = 0, !.lease = 0, !.result = r]
               /\ row.status = "committed" /\ row.user = q.user /\ row.arguments = q.arguments
               /\ row.owner = 0 /\ row.result = r
<1>1. 0 \in 0..MaxReservations /\ 0 \in 0..(MaxClock + Lease)
    OBVIOUS
<1>2. PICK p : p = [q EXCEPT !.status = "committed", !.owner = 0]
    OBVIOUS
<1>3. /\ p \in ConfirmationRows /\ p.status = "committed" /\ p.user = q.user /\ p.arguments = q.arguments
      /\ p.owner = 0
    BY <1>1, <1>2 DEF ConfirmationRows
<1>4. PICK row : row = [p EXCEPT !.lease = 0, !.result = r]
    OBVIOUS
<1>5. /\ row \in ConfirmationRows /\ row.status = p.status /\ row.user = p.user /\ row.arguments = p.arguments
      /\ row.owner = p.owner /\ row.result = r
    BY <1>1, <1>3, <1>4 DEF ConfirmationRows
<1>6. row = [q EXCEPT !.status = "committed", !.owner = 0, !.lease = 0, !.result = r]
    BY <1>2, <1>4
<1> QED
    BY <1>3, <1>5, <1>6

LEMMA HoldingCall ==
    ASSUME NEW k \in CallStates, NEW o \in 0..MaxReservations
    PROVE  \E q \in CallStates :
               /\ q = [k EXCEPT !.phase = "holding", !.owner = o]
               /\ q.phase = "holding" /\ q.token = k.token /\ q.arguments = k.arguments
               /\ q.confirmation = k.confirmation /\ q.warning = k.warning
<1>1. PICK q : q = [k EXCEPT !.phase = "holding", !.owner = o]
    OBVIOUS
<1>2. /\ q \in CallStates
      /\ q.phase = "holding" /\ q.token = k.token /\ q.arguments = k.arguments
      /\ q.confirmation = k.confirmation /\ q.warning = k.warning
    BY <1>1 DEF CallStates
<1> QED
    BY <1>1, <1>2

LEMMA CallWithResult ==
    ASSUME NEW k \in CallStates, NEW r \in Responses, NEW p \in {"executed", "answering"}
    PROVE  \E q \in CallStates :
               /\ q = [k EXCEPT !.phase = p, !.result = r]
               /\ q.phase = p /\ q.token = k.token /\ q.arguments = k.arguments
               /\ q.confirmation = k.confirmation /\ q.warning = k.warning /\ q.result = r
<1>1. PICK q : q = [k EXCEPT !.phase = p, !.result = r]
    OBVIOUS
<1>2. /\ q \in CallStates
      /\ q.phase = p /\ q.token = k.token /\ q.arguments = k.arguments
      /\ q.confirmation = k.confirmation /\ q.warning = k.warning /\ q.result = r
    BY <1>1 DEF CallStates
<1> QED
    BY <1>1, <1>2

LEMMA WarnedCall ==
    ASSUME NEW k \in CallStates, NEW w \in {"none", "given"}
    PROVE  \E q \in CallStates :
               /\ q = [k EXCEPT !.phase = "answering", !.warning = w]
               /\ q.phase = "answering" /\ q.token = k.token /\ q.arguments = k.arguments
               /\ q.confirmation = k.confirmation /\ q.warning = w /\ q.result = k.result
<1>1. PICK q : q = [k EXCEPT !.phase = "answering", !.warning = w]
    OBVIOUS
<1>2. /\ q \in CallStates
      /\ q.phase = "answering" /\ q.token = k.token /\ q.arguments = k.arguments
      /\ q.confirmation = k.confirmation /\ q.warning = w /\ q.result = k.result
    BY <1>1 DEF CallStates
<1> QED
    BY <1>1, <1>2

\* A step that writes one row and moves one call.
LEMMA RowAndCall ==
    ASSUME McpInv, NEW c \in Calls, NEW k \in CallStates,
           NEW f \in Confirmations, NEW row \in ConfirmationRows,
           UNCHANGED <<now, token, edits, audit, answers>>,
           drawn' \in 0..MaxReservations, faults' \in 0..MaxFaults,
           EffectsGrow,
           confirmation' = [confirmation EXCEPT ![f] = row],
           call' = [call EXCEPT ![c] = k],
           row.status = "none" <=> row.arguments = None,
           row.status = "pending" <=> row.owner # 0,
           row.status = "committed" <=> row.result.effect # 0,
           confirmation[f].status # "committed",
           confirmation[f].status # "none" =>
               row.arguments = confirmation[f].arguments /\ row.user = confirmation[f].user,
           k.phase # "idle" => k.token \in Tokens /\ k.arguments \in Arguments,
           row.status = "committed" => ResultOf(f, row.result)',
           \A i \in Results' \ Results : EffectOK(i)',
           \A i \in Results' \ Results, j \in Results :
               effects'[i].arguments \in Operations => effects[j].arguments # effects'[i].arguments,
           CallOK(c)'
    PROVE  McpInv'
<1>1. TypeOK
    BY DEF McpInv
<1>2. /\ confirmation' \in [Confirmations -> ConfirmationRows]
      /\ \A g \in Confirmations :
            /\ confirmation'[g].status = "none" <=> confirmation'[g].arguments = None
            /\ confirmation'[g].status = "pending" <=> confirmation'[g].owner # 0
            /\ confirmation'[g].status = "committed" <=> confirmation'[g].result.effect # 0
      /\ RowsGrow
      /\ \A g \in Confirmations : confirmation'[g] # confirmation[g] => g = f
      /\ confirmation'[f] = row
    BY <1>1, ChangedRow
<1>3. /\ call' \in [Calls -> CallStates]
      /\ \A d \in Calls : call'[d].phase # "idle" => call'[d].token \in Tokens /\ call'[d].arguments \in Arguments
      /\ \A d \in Calls : call'[d] # call[d] => d = c
    BY <1>1, ChangedCall
<1>4. effects' \in Seq(Effects)
    BY <1>1, EffectsStay
<1>5. TypeOK'
    BY <1>1, <1>2, <1>3, <1>4 DEF TypeOK
<1>6. Grows
    BY <1>2 DEF Grows, TokensGrow
<1>7. \A g \in Confirmations : confirmation'[g] # confirmation[g] /\ confirmation'[g].status = "committed"
          => ResultOf(g, confirmation[g].result)'
    <2> SUFFICES ASSUME NEW g \in Confirmations, confirmation'[g] # confirmation[g],
                        confirmation'[g].status = "committed"
                 PROVE  ResultOf(g, confirmation[g].result)'
        OBVIOUS
    <2>1. g = f /\ confirmation'[g] = row
        BY <1>2
    <2>2. ResultOf(g, row.result)'
        BY <2>1
    <2> QED
        BY <2>1, <2>2
<1> QED
    BY <1>3, <1>5, <1>6, <1>7, Combine

\* What a call that holds a confirmation knows.
LEMMA Holder ==
    ASSUME McpInv, NEW c \in Calls, call[c].phase \in {"holding", "executed"}
    PROVE  \E f \in Confirmations, t \in Tokens, a \in Arguments :
           /\ f = call[c].confirmation /\ t = call[c].token /\ a = call[c].arguments
           /\ confirmation[f] \in ConfirmationRows /\ confirmation[f].status # "none"
           /\ For(f, t, a) /\ Allowed(t, a) /\ a # None
           /\ confirmation[f].arguments = a
           /\ call[c] \in CallStates /\ call[c].warning = "none"
BY DEF McpInv, TypeOK, CallOK, For, Matches, Arguments

LEMMA CreateSteps ==
    ASSUME McpInv, NEW c \in Calls, NEW f \in Confirmations, CreateConfirmation(c, f)
    PROVE  McpInv'
<1>1. TypeOK /\ CallOK(c)
    BY DEF McpInv
<1>2. UNCHANGED <<now, token, drawn, effects, edits, audit, answers, faults>> /\ Results' = Results
    BY DEF CreateConfirmation, Results
<1>3. PICK row : row =
          [user |-> User(c), arguments |-> call[c].arguments, status |-> "available",
           expires |-> now + Lifetime, owner |-> 0, lease |-> 0, result |-> NoResult]
    OBVIOUS
<1>4. confirmation' = [confirmation EXCEPT ![f] = row] /\ confirmation[f].status = "none"
    BY <1>3 DEF CreateConfirmation
<1>5. call[c].arguments \in Arguments /\ call[c].arguments # None /\ User(c) \in Users \union {None}
    BY <1>1 DEF CreateConfirmation, TypeOK, Arguments, User, TokenRows
<1>6. /\ row \in ConfirmationRows /\ row.status = "available" /\ row.arguments # None
      /\ row.owner = 0 /\ row.result.effect = 0
    BY <1>1, <1>3, <1>5 DEF ConfirmationRows, TypeOK, NoResult, Responses
<1>7. PICK k : k = NoCall
    OBVIOUS
<1>8. k \in CallStates /\ k.phase = "idle" /\ k.warning = "none" /\ call' = [call EXCEPT ![c] = k]
    BY <1>7 DEF NoCall, CallStates, NoResult, Responses, CreateConfirmation, End
<1>9. call'[c] = k
    BY <1>1, <1>8 DEF TypeOK
<1>10. CallOK(c)'
    BY <1>8, <1>9 DEF CallOK
<1>11. EffectsGrow /\ drawn' \in 0..MaxReservations /\ faults' \in 0..MaxFaults
    BY <1>1, <1>2 DEF EffectsGrow, TypeOK
<1> QED
    BY <1>2, <1>4, <1>6, <1>8, <1>10, <1>11, RowAndCall

LEMMA ReserveSteps ==
    ASSUME McpInv, NEW c \in Calls, ReserveConfirmation(c)
    PROVE  McpInv'
<1>1. TypeOK /\ CallOK(c) /\ call[c] \in CallStates
    BY DEF McpInv, TypeOK
<1>2. UNCHANGED <<now, token, effects, edits, audit, answers, faults>> /\ Results' = Results
    BY DEF ReserveConfirmation, Results
<1>3. PICK f \in Confirmations, t \in Tokens, a \in Arguments :
      /\ f = call[c].confirmation /\ t = call[c].token /\ a = call[c].arguments
      /\ confirmation[f].status # "none" /\ confirmation[f] \in ConfirmationRows
      /\ call[c].phase = "handling" /\ call[c].warning = "none" /\ Allowed(t, a) /\ a # None
    <2>1. PICK q : q = call[c]
        OBVIOUS
    <2>2. q.phase = "handling" /\ q.confirmation # None /\ q \in CallStates
        BY <1>1, <2>1 DEF ReserveConfirmation
    <2>3. q.confirmation \in Confirmations /\ q.token \in Tokens /\ q.arguments \in Arguments
        BY <1>1, <2>1, <2>2 DEF TypeOK, CallStates
    <2>4. /\ Allowed(q.token, q.arguments) /\ confirmation[q.confirmation].status # "none"
          /\ q.warning = "none"
        BY <1>1, <2>1, <2>2 DEF CallOK
    <2>5. q.arguments # None
        BY <2>3 DEF Arguments
    <2>6. confirmation[q.confirmation] \in ConfirmationRows
        BY <1>1, <2>3 DEF TypeOK
    <2> QED
        BY <2>1, <2>2, <2>3, <2>4, <2>5, <2>6
<1>4. Allowed(t, a)'
    BY <1>2, <1>3 DEF Allowed
<1>5. faults' \in 0..MaxFaults /\ answers' \subseteq Rows
    BY <1>1, <1>2 DEF TypeOK, Rows
<1>6. User(c) = token[t].user
    BY <1>3 DEF User
<1>7. CASE Reservable(f, User(c), a)
    <2>1. /\ confirmation' = [confirmation EXCEPT ![f].status = "pending",
                                                  ![f].owner = drawn', ![f].lease = now + Lease]
          /\ call' = [call EXCEPT ![c].phase = "holding", ![c].owner = drawn']
          /\ drawn' = drawn + 1 /\ drawn < MaxReservations
        BY <1>3, <1>7 DEF ReserveConfirmation
    <2>2. /\ Matches(f, token[t].user, a)
          /\ confirmation[f].status \in {"available", "pending"} /\ confirmation[f].arguments = a
        BY <1>6, <1>7 DEF Reservable, Matches
    <2>3. PICK o \in 1..MaxReservations, l \in 0..(MaxClock + Lease) : o = drawn' /\ l = now + Lease
        <3>1. now \in 0..MaxClock /\ drawn \in 0..MaxReservations
            BY <1>1 DEF TypeOK
        <3> QED
            BY <2>1, <3>1
    <2>4. o \in 0..MaxReservations /\ o # 0
        OBVIOUS
    <2>5. PICK q \in ConfirmationRows : q = confirmation[f]
        BY <1>3
    <2>6. PICK row \in ConfirmationRows :
              /\ row = [q EXCEPT !.status = "pending", !.owner = o, !.lease = l]
              /\ row.status = "pending" /\ row.user = q.user /\ row.arguments = q.arguments
              /\ row.owner = o /\ row.result = q.result
        BY <2>4, PendingRow
    <2>7. confirmation' = [confirmation EXCEPT ![f] = row]
        BY <2>1, <2>3, <2>5, <2>6
    <2>8. PICK k \in CallStates :
              /\ k = [call[c] EXCEPT !.phase = "holding", !.owner = o]
              /\ k.phase = "holding" /\ k.token = t /\ k.arguments = a
              /\ k.confirmation = f /\ k.warning = "none"
        <3>1. PICK q0 \in CallStates : q0 = call[c]
            BY <1>1
        <3>2. PICK k \in CallStates :
                  /\ k = [q0 EXCEPT !.phase = "holding", !.owner = o]
                  /\ k.phase = "holding" /\ k.token = q0.token /\ k.arguments = q0.arguments
                  /\ k.confirmation = q0.confirmation /\ k.warning = q0.warning
            BY <2>4, HoldingCall
        <3> QED
            BY <1>3, <3>1, <3>2
    <2>9. call' = [call EXCEPT ![c] = k]
        BY <2>1, <2>3, <2>8
    <2>10. q.result.effect = 0
        BY <1>1, <2>2, <2>5 DEF TypeOK
    <2>11. call'[c] = k /\ confirmation'[f] = row
        BY <1>1, <2>7, <2>9 DEF TypeOK
    <2>12. For(f, t, a)'
        BY <1>2, <2>2, <2>5, <2>6, <2>11 DEF For, Matches
    <2>13. CallOK(c)'
        BY <1>4, <2>8, <2>11, <2>12 DEF CallOK
    <2>14. EffectsGrow /\ drawn' \in 0..MaxReservations
        BY <1>2, <2>3, <2>4 DEF EffectsGrow
    <2>15. /\ row.status # "none" /\ row.arguments # None /\ row.owner # 0 /\ row.result.effect = 0
           /\ row.arguments = confirmation[f].arguments /\ row.user = confirmation[f].user
           /\ confirmation[f].status # "committed"
        BY <1>3, <2>2, <2>4, <2>5, <2>6, <2>10
    <2> QED
        BY <1>2, <1>5, <2>6, <2>7, <2>8, <2>9, <2>13, <2>14, <2>15, RowAndCall
<1>8. CASE ~Reservable(f, User(c), a) /\ Matches(f, User(c), a) /\ confirmation[f].status = "committed"
    <2>1. PICK r \in Responses : r = confirmation[f].result
        BY <1>3 DEF ConfirmationRows
    <2>2. PICK k \in CallStates :
              /\ k = [call[c] EXCEPT !.phase = "answering", !.result = r]
              /\ k.phase = "answering" /\ k.token = t /\ k.arguments = a
              /\ k.confirmation = f /\ k.warning = "none" /\ k.result = r
        <3>1. PICK q \in CallStates : q = call[c]
            BY <1>1
        <3>2. PICK k \in CallStates :
                  /\ k = [q EXCEPT !.phase = "answering", !.result = r]
                  /\ k.phase = "answering" /\ k.token = q.token /\ k.arguments = q.arguments
                  /\ k.confirmation = q.confirmation /\ k.warning = q.warning /\ k.result = r
            BY CallWithResult
        <3> QED
            BY <1>3, <3>1, <3>2
    <2>3. call' = [call EXCEPT ![c] = k] /\ UNCHANGED <<drawn, confirmation>>
        BY <1>3, <1>8, <2>1, <2>2 DEF ReserveConfirmation
    <2>4. call'[c] = k
        BY <1>1, <2>3 DEF TypeOK
    <2>5. ResultOf(f, r) /\ Stored(f, r)
        BY <1>8, <2>1 DEF McpInv, Stored
    <2>6. Given(f, r, "none")'
        BY <1>2, <2>3, <2>5 DEF Given, Stored, ResultOf
    <2>7. For(f, t, a)'
        BY <1>2, <1>3, <1>6, <1>8, <2>3 DEF For, Matches
    <2>8. CallOK(c)'
        BY <1>4, <2>2, <2>4, <2>6, <2>7 DEF CallOK
    <2>9. answers' = answers
        BY <1>2
    <2> QED
        BY <1>2, <1>5, <2>2, <2>3, <2>8, <2>9, OnlyTheCall
<1>9. CASE ~Reservable(f, User(c), a) /\ ~(Matches(f, User(c), a) /\ confirmation[f].status = "committed")
    <2>1. End(c) /\ UNCHANGED <<drawn, confirmation>>
        BY <1>3, <1>9 DEF ReserveConfirmation
    <2> QED
        BY <1>2, <1>5, <2>1, OnlyEnds
<1> QED
    BY <1>7, <1>8, <1>9

\* The new effect of a call is the last.
LEMMA NewEffect ==
    ASSUME McpInv, NEW c \in Calls, call[c].phase = "holding", effects' = Append(effects, Effect(c)),
           edits' = edits
    PROVE  \E n \in Nat, r \in Responses :
           /\ n = Len(effects') /\ n # 0 /\ n \in Results'
           /\ r = Response(n) /\ r.effect = n
           /\ EffectsGrow /\ effects' \in Seq(Effects)
           /\ \A i \in Results' \ Results : i = n
           /\ effects'[n] = Effect(c)
<1>1. effects \in Seq(Effects) /\ edits \in 0..MaxEdits
    BY DEF McpInv, TypeOK
<1>2. Effect(c) \in Effects
    BY Holder DEF Effect, Effects
<1>3. /\ effects' \in Seq(Effects) /\ Len(effects') = Len(effects) + 1
      /\ effects'[Len(effects) + 1] = Effect(c)
    BY <1>1, <1>2
<1>4. Results = 1..Len(effects) /\ Results' = 1..Len(effects')
    BY <1>1, <1>3 DEF Results
<1>5. PICK n \in Nat : n = Len(effects')
    BY <1>3
<1>6. Len(effects) \in Nat
    BY <1>1
<1>7. n # 0 /\ n \in Results' /\ effects'[n] = Effect(c) /\ \A i \in Results' \ Results : i = n
    BY <1>3, <1>4, <1>5, <1>6
<1>8. EffectsGrow
    BY <1>2 DEF EffectsGrow
<1>9. PICK r : r = [effect |-> n, edits |-> edits]
    OBVIOUS
<1>10. r \in Responses /\ r = Response(n) /\ r.effect = n
    BY <1>1, <1>5, <1>9 DEF Responses, Response
<1> QED
    BY <1>3, <1>5, <1>7, <1>8, <1>10

LEMMA MutationSteps ==
    ASSUME McpInv, NEW c \in Calls, CommitMutation(c)
    PROVE  McpInv'
<1>1. /\ TypeOK /\ call[c].phase = "holding" /\ call[c] \in CallStates
      /\ call[c].arguments \in Mutations /\ call[c].arguments \notin Operations
    BY DEF McpInv, TypeOK, CommitMutation
<1>2. UNCHANGED <<now, token, drawn, edits, audit, answers, faults>>
    BY DEF CommitMutation
<1>3. faults' \in 0..MaxFaults /\ answers' \subseteq Rows /\ drawn' \in 0..MaxReservations
    BY <1>1, <1>2 DEF TypeOK, Rows
<1>4. PICK f \in Confirmations, t \in Tokens, a \in Arguments :
      /\ f = call[c].confirmation /\ t = call[c].token /\ a = call[c].arguments
      /\ confirmation[f] \in ConfirmationRows /\ confirmation[f].status # "none"
      /\ For(f, t, a) /\ Allowed(t, a) /\ a # None /\ confirmation[f].arguments = a
      /\ call[c].warning = "none"
    BY <1>1, Holder
<1>5. Allowed(t, a)' /\ a \notin Operations
    BY <1>1, <1>2, <1>4 DEF Allowed
<1>6. PICK q \in CallStates : q = call[c]
    BY <1>1
<1>7. CASE /\ confirmation[f].status = "committed"
           /\ call' = [call EXCEPT ![c].phase = "answering", ![c].result = confirmation[f].result]
           /\ UNCHANGED <<confirmation, effects>>
    <2>1. PICK r \in Responses : r = confirmation[f].result
        BY <1>4 DEF ConfirmationRows
    <2>2. PICK k \in CallStates :
              /\ k = [q EXCEPT !.phase = "answering", !.result = r]
              /\ k.phase = "answering" /\ k.token = q.token /\ k.arguments = q.arguments
              /\ k.confirmation = q.confirmation /\ k.warning = q.warning /\ k.result = r
        BY CallWithResult
    <2>3. k.token = t /\ k.arguments = a /\ k.confirmation = f /\ k.warning = "none"
        BY <1>4, <1>6, <2>2
    <2>4. call' = [call EXCEPT ![c] = k]
        BY <1>6, <1>7, <2>1, <2>2
    <2>5. call'[c] = k
        BY <1>1, <2>4 DEF TypeOK
    <2>6. ResultOf(f, r) /\ Stored(f, r)
        BY <1>7, <2>1 DEF McpInv, Stored
    <2>7. Given(f, r, "none")' /\ For(f, t, a)'
        BY <1>2, <1>4, <1>7, <2>6 DEF Given, Stored, ResultOf, Results, For, Matches
    <2>8. CallOK(c)'
        BY <1>5, <2>2, <2>3, <2>5, <2>7 DEF CallOK
    <2> QED
        BY <1>2, <1>3, <1>7, <2>2, <2>3, <2>4, <2>8, OnlyTheCall
<1>8. CASE End(c) /\ UNCHANGED <<confirmation, effects>>
    BY <1>2, <1>3, <1>8, OnlyEnds
<1>9. CASE /\ Owned(c)
           /\ effects' = Append(effects, Effect(c))
           /\ Committed(c, Response(Len(effects')))
           /\ call' = [call EXCEPT ![c].phase = "answering", ![c].result = Response(Len(effects'))]
    <2>1. PICK n \in Nat, r \in Responses :
            /\ n = Len(effects') /\ n # 0 /\ n \in Results' /\ r = Response(n) /\ r.effect = n
            /\ EffectsGrow /\ effects' \in Seq(Effects) /\ \A i \in Results' \ Results : i = n
            /\ effects'[n] = Effect(c)
        BY <1>1, <1>2, <1>9, NewEffect
    <2>2. PICK p \in ConfirmationRows : p = confirmation[f]
        BY <1>4
    <2>3. PICK row \in ConfirmationRows :
               /\ row = [p EXCEPT !.status = "committed", !.owner = 0, !.lease = 0, !.result = r]
               /\ row.status = "committed" /\ row.user = p.user /\ row.arguments = p.arguments
               /\ row.owner = 0 /\ row.result = r
        BY CommittedRow
    <2>4. confirmation' = [confirmation EXCEPT ![f] = row]
        BY <1>4, <1>9, <2>1, <2>2, <2>3 DEF Committed
    <2>5. PICK k \in CallStates :
              /\ k = [q EXCEPT !.phase = "answering", !.result = r]
              /\ k.phase = "answering" /\ k.token = q.token /\ k.arguments = q.arguments
              /\ k.confirmation = q.confirmation /\ k.warning = q.warning /\ k.result = r
        BY CallWithResult
    <2>6. k.token = t /\ k.arguments = a /\ k.confirmation = f /\ k.warning = "none"
        BY <1>4, <1>6, <2>5
    <2>7. call' = [call EXCEPT ![c] = k]
        BY <1>6, <1>9, <2>1, <2>5
    <2>8. call'[c] = k /\ confirmation'[f] = row
        BY <1>1, <2>4, <2>7 DEF TypeOK
    <2>9. PICK e : e = Effect(c)
        OBVIOUS
    <2>10. e.arguments = a /\ e.token = t /\ e.confirmation = f /\ effects'[n] = e
        BY <1>4, <2>1, <2>9 DEF Effect
    <2>11. confirmation[f].status = "pending"
        BY <1>4, <1>9 DEF Owned
    <2>12. For(f, t, a)'
        BY <1>2, <1>4, <2>2, <2>3, <2>8 DEF For, Matches
    <2>13. ResultOf(f, r)' /\ Stored(f, r)'
        BY <1>4, <2>1, <2>2, <2>3, <2>8, <2>10 DEF ResultOf, Stored
    <2>14. CallOK(c)'
        BY <1>5, <2>5, <2>6, <2>8, <2>12, <2>13 DEF CallOK, Given
    <2>15. EffectOK(n)'
        BY <1>5, <2>1, <2>3, <2>8, <2>10, <2>12 DEF EffectOK
    <2>16. /\ row.status = "committed" /\ row.arguments # None /\ row.owner = 0 /\ row.result.effect # 0
           /\ row.arguments = confirmation[f].arguments /\ row.user = confirmation[f].user
           /\ confirmation[f].status # "committed"
        BY <1>4, <2>1, <2>2, <2>3, <2>11
    <2>17. ResultOf(f, row.result)'
        BY <2>3, <2>13 DEF ResultOf
    <2>18. \A i \in Results' \ Results : EffectOK(i)'
        BY <2>1, <2>15
    <2>19. \A i \in Results' \ Results : effects'[i].arguments \notin Operations
        BY <1>5, <2>1, <2>10
    <2>20. k.phase # "idle" => k.token \in Tokens /\ k.arguments \in Arguments
        BY <2>6
    <2>21. UNCHANGED <<now, token, edits, audit, answers>>
        BY <1>2
    <2> QED
        BY <1>3, <2>1, <2>4, <2>7, <2>14, <2>16, <2>17, <2>18, <2>19, <2>20, <2>21, RowAndCall
<1> QED
    BY <1>4, <1>7, <1>8, <1>9 DEF CommitMutation

\* A document operation, new or known.
LEMMA OperationSteps ==
    ASSUME McpInv, NEW c \in Calls, SyncOperations(c)
    PROVE  McpInv'
<1>1. /\ TypeOK /\ call[c].phase = "holding" /\ call[c] \in CallStates
      /\ call[c].arguments \in Operations /\ call[c].arguments \notin Mutations
    BY DEF McpInv, TypeOK, SyncOperations
<1>2. UNCHANGED <<now, token, confirmation, drawn, edits, audit, answers, faults>>
    BY DEF SyncOperations
<1>3. faults' \in 0..MaxFaults /\ answers' \subseteq Rows
    BY <1>1, <1>2 DEF TypeOK, Rows
<1>4. PICK f \in Confirmations, t \in Tokens, a \in Arguments :
      /\ f = call[c].confirmation /\ t = call[c].token /\ a = call[c].arguments
      /\ confirmation[f] \in ConfirmationRows /\ confirmation[f].status # "none"
      /\ For(f, t, a) /\ Allowed(t, a) /\ a # None /\ confirmation[f].arguments = a
      /\ call[c].warning = "none"
    BY <1>1, Holder
<1>5. Allowed(t, a)' /\ For(f, t, a)' /\ a \in Operations /\ a \notin Mutations
    BY <1>1, <1>2, <1>4 DEF Allowed, For, Matches
<1>6. PICK q \in CallStates : q = call[c]
    BY <1>1
<1>7. ASSUME NEW i \in Results, effects[i].arguments = a, UNCHANGED effects,
             call' = [call EXCEPT ![c].phase = "executed", ![c].result = Response(i)]
      PROVE  McpInv'
    <2>1. effects \in Seq(Effects) /\ edits \in 0..MaxEdits
        BY <1>1 DEF TypeOK
    <2>2. \E r \in Responses : r = Response(i) /\ r.effect = i
        <3>1. PICK r : r = [effect |-> i, edits |-> edits]
            OBVIOUS
        <3>2. r \in Responses /\ r = Response(i) /\ r.effect = i
            BY <2>1, <3>1 DEF Responses, Response, Results
        <3> QED
            BY <3>2
    <2>3. PICK r \in Responses : r = Response(i) /\ r.effect = i
        BY <2>2
    <2>4. PICK k \in CallStates :
              /\ k = [q EXCEPT !.phase = "executed", !.result = r]
              /\ k.phase = "executed" /\ k.token = q.token /\ k.arguments = q.arguments
              /\ k.confirmation = q.confirmation /\ k.warning = q.warning /\ k.result = r
        BY CallWithResult
    <2>5. k.token = t /\ k.arguments = a /\ k.confirmation = f /\ k.warning = "none"
        BY <1>4, <1>6, <2>4
    <2>6. call' = [call EXCEPT ![c] = k]
        BY <1>6, <1>7, <2>3, <2>4
    <2>7. call'[c] = k
        BY <1>1, <2>6 DEF TypeOK
    <2>8. ResultOf(f, r)'
        BY <1>2, <1>4, <1>7, <2>3 DEF ResultOf, Results
    <2>9. CallOK(c)'
        BY <1>5, <2>4, <2>5, <2>7, <2>8 DEF CallOK
    <2> QED
        BY <1>2, <1>3, <1>7, <2>4, <2>5, <2>6, <2>9, OnlyTheCall
<1>8. CASE End(c) /\ UNCHANGED effects
    BY <1>2, <1>3, <1>8, OnlyEnds
<1>9. CASE /\ \A i \in Results : effects[i].arguments # a
           /\ effects' = Append(effects, Effect(c))
           /\ call' = [call EXCEPT ![c].phase = "executed", ![c].result = Response(Len(effects'))]
    <2>1. PICK n \in Nat, r \in Responses :
            /\ n = Len(effects') /\ n # 0 /\ n \in Results' /\ r = Response(n) /\ r.effect = n
            /\ EffectsGrow /\ effects' \in Seq(Effects) /\ \A i \in Results' \ Results : i = n
            /\ effects'[n] = Effect(c)
        BY <1>1, <1>2, <1>9, NewEffect
    <2>2. PICK k \in CallStates :
              /\ k = [q EXCEPT !.phase = "executed", !.result = r]
              /\ k.phase = "executed" /\ k.token = q.token /\ k.arguments = q.arguments
              /\ k.confirmation = q.confirmation /\ k.warning = q.warning /\ k.result = r
        BY CallWithResult
    <2>3. k.token = t /\ k.arguments = a /\ k.confirmation = f /\ k.warning = "none"
        BY <1>4, <1>6, <2>2
    <2>4. call' = [call EXCEPT ![c] = k]
        BY <1>6, <1>9, <2>1, <2>2
    <2>5. /\ call' \in [Calls -> CallStates]
          /\ \A d \in Calls : call'[d].phase # "idle" => call'[d].token \in Tokens /\ call'[d].arguments \in Arguments
          /\ \A d \in Calls : call'[d] # call[d] => d = c
          /\ call'[c] = k
        BY <1>1, <2>2, <2>3, <2>4, ChangedCall
    <2>6. PICK e : e = Effect(c)
        OBVIOUS
    <2>7. e.arguments = a /\ e.token = t /\ e.confirmation = f /\ effects'[n] = e
        BY <1>4, <2>1, <2>6 DEF Effect
    <2>8. TypeOK'
        BY <1>1, <1>2, <2>1, <2>5 DEF TypeOK
    <2>9. Grows
        BY <1>2, <2>1 DEF Grows, RowsGrow, TokensGrow
    <2>10. ResultOf(f, r)'
        BY <1>2, <1>4, <2>1, <2>7 DEF ResultOf
    <2>11. CallOK(c)'
        BY <1>5, <2>2, <2>3, <2>5, <2>10 DEF CallOK
    <2>12. EffectOK(n)'
        BY <1>5, <2>1, <2>7 DEF EffectOK
    <2> QED
        BY <1>2, <1>9, <2>1, <2>5, <2>7, <2>8, <2>9, <2>11, <2>12, Combine
<1> QED
    BY <1>4, <1>7, <1>8, <1>9 DEF SyncOperations

\* The commit of a document operation's response, kept, refused or lost.
LEMMA CommitSteps ==
    ASSUME McpInv, NEW c \in Calls, Commit(c) \/ LoseCommit(c)
    PROVE  McpInv'
<1>1. TypeOK /\ CallOK(c) /\ call[c].phase = "executed" /\ call[c] \in CallStates
    BY DEF McpInv, TypeOK, Commit, LoseCommit
<1>2. UNCHANGED <<now, token, drawn, effects, edits, audit, answers>> /\ Results' = Results
    BY DEF Commit, LoseCommit, Results
<1>3. answers' \subseteq Rows /\ drawn' \in 0..MaxReservations
    BY <1>1, <1>2 DEF TypeOK, Rows
<1>4. faults' \in 0..MaxFaults
    <2>1. faults \in 0..MaxFaults
        BY <1>1 DEF TypeOK
    <2> QED
        BY <2>1 DEF Commit, LoseCommit
<1>5. PICK f \in Confirmations, t \in Tokens, a \in Arguments :
      /\ f = call[c].confirmation /\ t = call[c].token /\ a = call[c].arguments
      /\ confirmation[f] \in ConfirmationRows /\ confirmation[f].status # "none"
      /\ For(f, t, a) /\ Allowed(t, a) /\ a # None /\ confirmation[f].arguments = a
    BY <1>1, Holder
<1>6. PICK r \in Responses : r = call[c].result
    BY <1>1 DEF CallStates
<1>7. Allowed(t, a)' /\ a \in Operations /\ ResultOf(f, r)
    BY <1>1, <1>2, <1>5, <1>6 DEF Allowed, CallOK
<1>8. PICK w \in {"none", "given"} :
          /\ call' = [call EXCEPT ![c].phase = "answering", ![c].warning = w]
          /\ \/ Owned(c) /\ Committed(c, call[c].result)
             \/ UNCHANGED confirmation /\ w = "given"
    BY DEF Commit, LoseCommit
<1>9. PICK q \in CallStates : q = call[c]
    BY <1>1
<1>10. PICK k \in CallStates :
               /\ k = [q EXCEPT !.phase = "answering", !.warning = w]
               /\ k.phase = "answering" /\ k.token = q.token /\ k.arguments = q.arguments
               /\ k.confirmation = q.confirmation /\ k.warning = w /\ k.result = q.result
    BY WarnedCall
<1>11. k.token = t /\ k.arguments = a /\ k.confirmation = f /\ k.result = r
    BY <1>5, <1>6, <1>9, <1>10
<1>12. call' = [call EXCEPT ![c] = k]
    BY <1>8, <1>9, <1>10
<1>13. call'[c] = k
    BY <1>1, <1>12 DEF TypeOK
<1>14. CASE Owned(c) /\ Committed(c, call[c].result)
    <2>1. PICK p \in ConfirmationRows : p = confirmation[f]
        BY <1>5
    <2>2. PICK row \in ConfirmationRows :
               /\ row = [p EXCEPT !.status = "committed", !.owner = 0, !.lease = 0, !.result = r]
               /\ row.status = "committed" /\ row.user = p.user /\ row.arguments = p.arguments
               /\ row.owner = 0 /\ row.result = r
        BY CommittedRow
    <2>3. confirmation' = [confirmation EXCEPT ![f] = row]
        BY <1>5, <1>6, <1>14, <2>1, <2>2 DEF Committed
    <2>4. confirmation'[f] = row
        BY <1>1, <2>3 DEF TypeOK
    <2>5. confirmation[f].status = "pending"
        BY <1>5, <1>14 DEF Owned
    <2>6. For(f, t, a)' /\ ResultOf(f, r)' /\ Stored(f, r)'
        BY <1>2, <1>5, <1>7, <2>1, <2>2, <2>4 DEF For, Matches, ResultOf, Stored
    <2>7. Given(f, r, w)'
        BY <1>5, <1>7, <2>1, <2>2, <2>4, <2>6 DEF Given
    <2>8. CallOK(c)'
        BY <1>7, <1>10, <1>11, <1>13, <2>6, <2>7 DEF CallOK
    <2>9. r.effect # 0
        <3>1. effects \in Seq(Effects)
            BY <1>1 DEF TypeOK
        <3> QED
            BY <1>7, <3>1 DEF ResultOf, Results
    <2>10. /\ row.status = "committed" /\ row.arguments # None /\ row.owner = 0 /\ row.result.effect # 0
           /\ row.arguments = confirmation[f].arguments /\ row.user = confirmation[f].user
           /\ confirmation[f].status # "committed"
        BY <1>5, <2>1, <2>2, <2>5, <2>9
    <2>11. ResultOf(f, row.result)'
        BY <2>2, <2>6 DEF ResultOf
    <2>12. EffectsGrow
        BY <1>2 DEF EffectsGrow
    <2> QED
        BY <1>2, <1>3, <1>4, <1>10, <1>11, <1>12, <2>2, <2>3, <2>8, <2>10, <2>11, <2>12, RowAndCall
<1>15. CASE UNCHANGED confirmation /\ w = "given"
    <2>1. For(f, t, a)' /\ ResultOf(f, r)'
        BY <1>2, <1>5, <1>7, <1>15 DEF For, Matches, ResultOf
    <2>2. Given(f, r, "given")'
        BY <1>5, <1>7, <1>15, <2>1 DEF Given
    <2>3. CallOK(c)'
        BY <1>7, <1>10, <1>11, <1>13, <1>15, <2>1, <2>2 DEF CallOK
    <2> QED
        BY <1>2, <1>3, <1>4, <1>10, <1>11, <1>12, <1>15, <2>3, OnlyTheCall
<1> QED
    BY <1>8, <1>14, <1>15

-------------------------------------------------------------------------------
(* Theorems.                                                               *)

\* Types, rows and calls agree: a reservation is held for the user and the
\* arguments of its call, and what is committed or answered is an effect that
\* happened.
THEOREM McpInvariant == Spec => []McpInv
<1>1. McpInv /\ [Next]_vars => McpInv'
    <2> SUFFICES ASSUME McpInv, [Next]_vars PROVE McpInv'
        OBVIOUS
    <2>1. CASE UNCHANGED vars
        <3>1. UNCHANGED <<now, token, confirmation, call, drawn, effects, edits, audit, answers, faults>>
            BY <2>1 DEF vars
        <3>2. TypeOK' /\ Results' = Results
            BY <3>1 DEF McpInv, TypeOK, Results
        <3>3. Grows
            BY <3>1 DEF Grows, EffectsGrow, RowsGrow, TokensGrow
        <3> QED
            BY <3>1, <3>2, <3>3, Combine
    <2>2. CASE Next
        BY <2>2, TokenSteps, StartSteps, CreateSteps, ReserveSteps, MutationSteps, OperationSteps,
           CommitSteps, EndSteps DEF Next
    <2> QED
        BY <2>1, <2>2
<1> QED
    BY InitMcp, <1>1, PTL DEF Spec

LEMMA EffectTypes ==
    ASSUME McpInv
    PROVE  \A i \in Results : /\ effects[i].arguments \in Mutations \union Operations
                              /\ effects[i].confirmation \in Confirmations
<1>1. effects \in Seq(Effects)
    BY DEF McpInv, TypeOK
<1>2. \A i \in Results : effects[i] \in Effects
    BY <1>1 DEF Results
<1> QED
    BY <1>2 DEF Effects, Arguments

\* For any number of calls that redeem a confirmation, repeat it, take it
\* over or are cut off: it has one effect at most.
THEOREM OneEffectPerConfirmation == Spec => []OneEffectEach
<1>1. McpInv => OneEffectEach
    <2> SUFFICES ASSUME McpInv, NEW i \in Results, NEW j \in Results,
                        effects[i].confirmation = effects[j].confirmation
                 PROVE  i = j
        BY DEF OneEffectEach
    <2>1. EffectOK(i) /\ EffectOK(j)
        BY DEF McpInv
    <2>2. effects[i].arguments = effects[j].arguments
        BY <2>1 DEF EffectOK, For, Matches
    <2>3. CASE effects[i].arguments \in Operations
        BY <2>2, <2>3 DEF McpInv
    <2>4. CASE effects[i].arguments \in Mutations
        BY <2>1, <2>2, <2>4 DEF EffectOK
    <2> QED
        BY <2>3, <2>4, EffectTypes
<1> QED
    BY <1>1, McpInvariant, PTL

\* However the calls overlap, all answers to a confirmation tell of one effect,
\* and one without a warning is the response that was committed.
THEOREM OneAnswerPerConfirmation == Spec => []AnswersAgree
<1>1. McpInv => AnswersAgree
    <2> SUFFICES ASSUME McpInv PROVE AnswersAgree
        OBVIOUS
    <2>1. \A x \in answers : x.confirmation \in Confirmations /\ Given(x.confirmation, x.result, x.warning)
        BY DEF McpInv, TypeOK
    <2>2. \A f \in Confirmations : confirmation[f].status = "committed" => ResultOf(f, confirmation[f].result)
        BY DEF McpInv
    <2>3. ASSUME NEW f \in Confirmations, NEW q, NEW r, ResultOf(f, q), ResultOf(f, r),
                 confirmation[f].arguments \in Operations
          PROVE  q.effect = r.effect
        BY <2>3 DEF McpInv, ResultOf
    <2>4. ASSUME NEW f \in Confirmations, NEW q, NEW v, Given(f, q, v),
                 confirmation[f].arguments \notin Operations
          PROVE  Stored(f, q)
        BY <2>4 DEF Given
    <2>5. ASSUME NEW f \in Confirmations, NEW q, NEW v, NEW r, NEW w, Given(f, q, v), Given(f, r, w)
          PROVE  q.effect = r.effect
        <3>1. CASE confirmation[f].arguments \in Operations
            BY <2>3, <2>5, <3>1 DEF Given
        <3>2. CASE confirmation[f].arguments \notin Operations
            BY <2>4, <2>5, <3>2 DEF Stored
        <3> QED
            BY <3>1, <3>2
    <2>6. ASSUME NEW f \in Confirmations, NEW q, NEW v, Given(f, q, v), confirmation[f].status = "committed"
          PROVE  confirmation[f].result.effect = q.effect
        <3>1. CASE confirmation[f].arguments \in Operations
            BY <2>2, <2>3, <2>6, <3>1 DEF Given
        <3>2. CASE confirmation[f].arguments \notin Operations
            BY <2>4, <2>6, <3>2 DEF Stored
        <3> QED
            BY <3>1, <3>2
    <2>7. \A x \in answers : x.warning = "none" => Stored(x.confirmation, x.result)
        BY <2>1 DEF Given
    <2> QED
        BY <2>1, <2>5, <2>6, <2>7 DEF AnswersAgree
<1> QED
    BY <1>1, McpInvariant, PTL

\* Nothing is done without a confirmation for it and for the user of the token,
\* a token that may write and an entry in the audit log.
THEOREM NothingUnconfirmed == Spec => []EffectsAreConfirmed
<1>1. McpInv => EffectsAreConfirmed
    BY DEF McpInv, EffectOK, For, Matches, Allowed, EffectsAreConfirmed
<1> QED
    BY <1>1, McpInvariant, PTL
================================================================================
