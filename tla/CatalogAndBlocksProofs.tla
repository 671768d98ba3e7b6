------------------------ MODULE CatalogAndBlocksProofs ------------------------
(***************************************************************************)
(* Machine-checked proofs about NoteCatalog, for any notes, page size and  *)
(* time, and about TaskBlocks, for any devices, dates and instants.        *)
(***************************************************************************)
EXTENDS NoteCatalog, TaskBlocks, FiniteSetTheorems, WellFoundedInduction, TLAPS

-------------------------------------------------------------------------------
(* Lemmas about numbers.                                                   *)

\* A set of natural numbers has a smallest one: of the initial segments
\* 0..n-1 with n in the set, none is below the smallest.
LEMMA LeastNumber ==
    ASSUME NEW T, T \subseteq Nat, T # {}
    PROVE  \E n \in T : \A m \in T : n <= m
<1> DEFINE Seg(n) == 0..(n - 1)
           Segs == {Seg(n) : n \in T}
<1>1. Segs \subseteq FiniteSubsetsOf(Nat) /\ Segs # {}
    <2>1. ASSUME NEW n \in T
          PROVE  Seg(n) \in FiniteSubsetsOf(Nat)
        BY FS_Interval DEF FiniteSubsetsOf
    <2> QED
        BY <2>1
<1>2. PICK s \in Segs : \A r \in Segs : ~(<<r, s>> \in StrictSubsetOrdering(Nat))
    BY <1>1, WFMin, FS_StrictSubsetOrderingWellFounded
<1>3. PICK n \in T : s = Seg(n)
    BY <1>2
<1>4. ASSUME NEW m \in T, m < n
      PROVE  FALSE
    <2>1. m \in Seg(n) /\ m \notin Seg(m)
        BY <1>4
    <2>2. Seg(m) \subseteq Seg(n) /\ Seg(m) # Seg(n)
        BY <1>4, <2>1
    <2>3. Seg(m) \in SUBSET Nat /\ Seg(n) \in SUBSET Nat
        OBVIOUS
    <2> HIDE DEF Seg
    <2>4. <<Seg(m), Seg(n)>> \in StrictSubsetOrdering(Nat)
        BY <2>2, <2>3 DEF StrictSubsetOrdering
    <2> QED
        BY <2>4, <1>2, <1>3
<1> QED
    BY <1>4

USE NoteCatalogAssumption

-------------------------------------------------------------------------------
(* NoteCatalog: a page of the listing.                                     *)

\* The notes of `rest` that a listing puts before n.
Ahead(rest, n) == {m \in rest : Precedes(m, n)}

FirstPage(rest) == {n \in rest : Cardinality(Ahead(rest, n)) < PageSize}

LastOf(page) == CHOOSE n \in page : \A m \in page : m = n \/ Precedes(m, n)

\* The listing is a total order, and the number of notes before one rises
\* along it.
LEMMA PrecedesIsAnOrder ==
    ASSUME TypeOK, NEW m \in Notes, NEW n \in Notes
    PROVE  /\ m = n \/ Precedes(m, n) \/ Precedes(n, m)
           /\ ~Precedes(n, n)
           /\ \A k \in Notes : Precedes(k, m) /\ Precedes(m, n) => Precedes(k, n)
<1>1. \A k \in Notes : k \in Nat /\ note[k].updated \in Nat
    BY DEF TypeOK, Times
<1> QED
    BY <1>1 DEF Precedes

LEMMA AheadRises ==
    ASSUME TypeOK, NEW rest \in SUBSET Notes
    PROVE  /\ \A n \in rest : Cardinality(Ahead(rest, n)) \in Nat /\ IsFiniteSet(Ahead(rest, n))
           /\ \A m, n \in rest : Precedes(m, n) =>
                Cardinality(Ahead(rest, m)) < Cardinality(Ahead(rest, n))
<1>1. ASSUME NEW n \in rest
      PROVE  Cardinality(Ahead(rest, n)) \in Nat /\ IsFiniteSet(Ahead(rest, n))
    <2>1. Ahead(rest, n) \in SUBSET Notes
        BY DEF Ahead
    <2>2. IsFiniteSet(Ahead(rest, n))
        BY <2>1, FS_Subset
    <2> QED
        BY <2>2, FS_CardinalityType
<1>2. ASSUME NEW m \in rest, NEW n \in rest, Precedes(m, n)
      PROVE  Cardinality(Ahead(rest, m)) < Cardinality(Ahead(rest, n))
    <2>1. /\ Ahead(rest, m) \in SUBSET Ahead(rest, n)
          /\ m \in Ahead(rest, n) /\ m \notin Ahead(rest, m)
        BY <1>2, PrecedesIsAnOrder DEF Ahead
    <2>2. /\ Cardinality(Ahead(rest, m)) <= Cardinality(Ahead(rest, n))
          /\ Cardinality(Ahead(rest, n)) = Cardinality(Ahead(rest, m)) =>
                Ahead(rest, n) = Ahead(rest, m)
        BY <1>1, <2>1, FS_Subset
    <2> QED
        BY <1>1, <2>1, <2>2
<1> QED
    BY <1>1, <1>2

\* A page that is not full holds all the rest; below a full one comes what
\* is not on it.
LEMMA PageLists ==
    ASSUME TypeOK, NEW rest \in SUBSET Notes
    PROVE  LET page == FirstPage(rest)
           IN  /\ IsFiniteSet(page) /\ page \subseteq rest
               /\ Cardinality(page) < PageSize => page = rest
               /\ page # {} => /\ LastOf(page) \in page
                               /\ \A n \in page : n = LastOf(page) \/ Precedes(n, LastOf(page))
                               /\ \A n \in rest \ page : Precedes(LastOf(page), n)
<1> DEFINE page == {n \in rest : Cardinality(Ahead(rest, n)) < PageSize}
           last == CHOOSE n \in page : \A m \in page : m = n \/ Precedes(m, n)
           rank == [n \in rest |-> Cardinality(Ahead(rest, n))]
<1>1. /\ \A n \in rest : rank[n] \in Nat /\ IsFiniteSet(Ahead(rest, n))
      /\ \A m, n \in rest : Precedes(m, n) => rank[m] < rank[n]
    BY AheadRises
<1>2. IsFiniteSet(page) /\ page \subseteq rest /\ Cardinality(page) \in Nat
    <2>1. page \in SUBSET Notes
        OBVIOUS
    <2> QED
        BY <2>1, FS_Subset, FS_CardinalityType
<1>3. \A n \in rest : n \in page <=> rank[n] < PageSize
    OBVIOUS
<1>7. \A n \in rest : rank[n] = Cardinality(Ahead(rest, n))
    OBVIOUS
<1> HIDE DEF rank, page
<1>4. ASSUME Cardinality(page) < PageSize, NEW k \in rest \ page
      PROVE  FALSE
    <2> DEFINE R == {rank[n] : n \in rest \ page}
    <2>1. R \subseteq Nat /\ R # {}
        <3>1. \A n \in rest \ page : rank[n] \in Nat
            BY <1>1
        <3> QED
            BY <1>4, <3>1
    <2>2. PICK r \in R : \A t \in R : r <= t
        <3> HIDE DEF R
        <3> QED
            BY <2>1, LeastNumber
    <2>3. PICK n \in rest \ page : r = rank[n]
        BY <2>2
    <2>4. \A m \in rest \ page : rank[n] <= rank[m]
        BY <2>2, <2>3
    <2>5. Ahead(rest, n) \in SUBSET page
        <3> SUFFICES ASSUME NEW m \in Ahead(rest, n), m \notin page PROVE FALSE
            OBVIOUS
        <3>1. m \in rest \ page /\ Precedes(m, n)
            BY DEF Ahead
        <3>2. m \in rest /\ n \in rest
            BY <3>1
        <3>3. rank[m] < rank[n]
            BY <1>1, <3>1, <3>2, Zenon
        <3>4. rank[n] <= rank[m] /\ rank[m] \in Nat /\ rank[n] \in Nat
            BY <1>1, <2>4, <3>1, <3>2
        <3> QED
            BY <3>3, <3>4
    <2>6. rank[n] <= Cardinality(page)
        BY <1>2, <1>7, <2>5, FS_Subset
    <2> QED
        BY <1>1, <1>2, <1>3, <1>4, <2>3, <2>6
<1>5. ASSUME page # {}
      PROVE  last \in page /\ \A m \in page : m = last \/ Precedes(m, last)
    <2> DEFINE R == {PageSize - rank[n] : n \in page}
    <2>1. R \subseteq Nat /\ R # {}
        <3>1. \A n \in page : rank[n] \in Nat /\ rank[n] < PageSize
            BY <1>1, <1>2, <1>3
        <3>2. \A n \in page : PageSize - rank[n] \in Nat
            BY <3>1
        <3> QED
            BY <1>5, <3>2
    <2>2. PICK r \in R : \A t \in R : r <= t
        <3> HIDE DEF R
        <3> QED
            BY <2>1, LeastNumber
    <2>3. PICK n \in page : r = PageSize - rank[n]
        BY <2>2
    <2>4. \A m \in page : PageSize - rank[n] <= PageSize - rank[m]
        BY <2>2, <2>3
    <2>5. \A m \in page : m = n \/ Precedes(m, n)
        <3> SUFFICES ASSUME NEW m \in page, Precedes(n, m) PROVE FALSE
            <4>1. \A m \in page : m \in Notes /\ n \in Notes
                BY <1>2
            <4> QED
                BY <4>1, PrecedesIsAnOrder
        <3>1. rank[n] < rank[m] /\ rank[n] \in Nat /\ rank[m] \in Nat
            BY <1>1, <1>2
        <3> QED
            BY <2>4, <3>1
    <2> QED
        BY <2>5
<1>6. ASSUME page # {}, NEW n \in rest \ page
      PROVE  Precedes(last, n)
    <2>1. last \in page /\ last \in rest
        BY <1>2, <1>5, <1>6
    <2>2. rank[last] \in Nat /\ rank[n] \in Nat
        BY <1>1, <2>1
    <2>3. rank[last] < PageSize /\ ~(rank[n] < PageSize)
        BY <1>3, <2>1
    <2>5. Precedes(n, last) => rank[n] < rank[last]
        BY <1>1, <2>1
    <2>6. ~Precedes(n, last)
        <3> SUFFICES ASSUME rank[n] < rank[last] PROVE FALSE
            BY <2>5
        <3> QED
            BY <2>2, <2>3
    <2>7. n # last
        BY <2>1
    <2>4. n \in Notes /\ last \in Notes
        BY <1>6, <2>1
    <2> QED
        BY <2>4, <2>6, <2>7, PrecedesIsAnOrder
<1> QED
    BY <1>2, <1>4, <1>5, <1>6 DEF FirstPage, LastOf, page
-------------------------------------------------------------------------------
(* NoteCatalog: the steps.                                                 *)

Rows == [status : {"none", "live", "deleted", "purged"}, updated : Times, icon : Times]
Walks == [phase : {"idle", "first", "next", "done"}, cursor : [updated : Times, note : Notes \union {0}],
          times : [Notes -> Nat], steady : SUBSET Notes, visible : SUBSET Notes]

LEMMA InitCatalog == Init => CatalogInv
<1> SUFFICES ASSUME Init PROVE CatalogInv
    OBVIOUS
<1>1. 0 \in Times /\ now \in Times \ {0}
    BY DEF Init, Times
<1>2. NotListing \in Walks /\ NotListing.steady = {}
    BY <1>1 DEF NotListing, Walks
<1>3. TypeOK
    BY <1>1, <1>2 DEF Init, TypeOK, Walks
<1>4. \A n \in Notes : note[n].status = "none"
    BY DEF Init
<1>5. ListingOK
    BY <1>2 DEF Init, ListingOK
<1> QED
    BY <1>3, <1>4, <1>5 DEF Init, CatalogInv, SeenOK, NoIconReplacedUnseen

\* What the walk over the pages knows is not disturbed by a change of a note
\* that it no longer takes for steady.
LEMMA OthersStaySteady ==
    ASSUME CatalogInv, NEW n \in Notes, listing' \in Walks,
           \A m \in Notes \ {n} : note'[m] = note[m] /\ share'[m] = share[m],
           listing'.phase = listing.phase, listing'.cursor = listing.cursor,
           listing'.times = listing.times, listing'.steady \subseteq listing.steady \ {n}
    PROVE  ListingOK'
<1> SUFFICES ASSUME NEW m \in listing'.steady
             PROVE  /\ listing'.phase # "idle" /\ Visible("guest", m)'
                    /\ listing'.times[m] = IF listing'.phase # "done" /\ Behind(m)' THEN 0 ELSE 1
    BY DEF ListingOK
<1>1. m \in listing.steady /\ m \in Notes \ {n}
    BY DEF Walks
<1>2. /\ listing.phase # "idle" /\ Visible("guest", m)
      /\ listing.times[m] = IF listing.phase # "done" /\ Behind(m) THEN 0 ELSE 1
    BY <1>1 DEF CatalogInv, ListingOK
<1>3. note'[m] = note[m] /\ share'[m] = share[m]
    BY <1>1
<1>4. Visible("guest", m)' = Visible("guest", m) /\ Behind(m)' = Behind(m)
    BY <1>3 DEF Visible, Live, Behind
<1> QED
    BY <1>2, <1>4

\* Touching or withdrawing a note.
LEMMA TouchedWalk ==
    ASSUME TypeOK, NEW n \in Notes, Touch(n) \/ Withdraw(n)
    PROVE  /\ listing' \in Walks /\ listing'.phase = listing.phase
           /\ listing'.cursor = listing.cursor /\ listing'.times = listing.times
           /\ listing'.steady \subseteq listing.steady \ {n}
<1>1. listing \in Walks
    BY DEF TypeOK, Walks
<1>2. CASE Touch(n)
    BY <1>1, <1>2 DEF Touch, Walks
<1>3. CASE Withdraw(n)
    BY <1>1, <1>3 DEF Withdraw, Walks
<1> QED
    BY <1>2, <1>3

\* A write to the note: a time it never had, on a row that is live.
LEMMA WriteStep ==
    ASSUME CatalogInv, NEW n \in Notes, NEW t \in {now, now - 1}, Stamp(n, t), NEW r \in Rows,
           t \in Times, note' = [note EXCEPT ![n] = r], r.updated = t, r.status = "live",
           Touch(n), blind' = blind, UNCHANGED <<now, share, seen>>
    PROVE  CatalogInv'
<1>1. TypeOK /\ SeenOK
    BY DEF CatalogInv
<1>2. /\ note' \in [Notes -> Rows] /\ note'[n] = r
      /\ \A m \in Notes \ {n} : note'[m] = note[m]
    BY <1>1 DEF TypeOK, Rows
<1>3. /\ stamps' \in [Notes -> SUBSET Times] /\ stamps'[n] = stamps[n] \union {t} /\ t \notin stamps[n]
      /\ \A m \in Notes \ {n} : stamps'[m] = stamps[m]
    BY <1>1 DEF TypeOK, Stamp
<1>4. ListingOK' /\ listing' \in Walks
    BY <1>1, <1>2, TouchedWalk, OthersStaySteady
<1>5. TypeOK'
    BY <1>1, <1>2, <1>3, <1>4 DEF TypeOK, Rows, Walks
<1>6. \A m \in Notes : note'[m].status # "none" => note'[m].updated \in stamps'[m]
    BY <1>2, <1>3 DEF CatalogInv
<1>7. SeenOK'
    <2> SUFFICES ASSUME seen # NothingSeen
                 PROVE  /\ note'[seen.note].status # "none" /\ seen.updated \in stamps'[seen.note]
                        /\ seen.updated = note'[seen.note].updated => seen.icon = note'[seen.note].icon
        BY DEF SeenOK
    <2>1. /\ seen.note \in Notes
          /\ note[seen.note].status # "none" /\ seen.updated \in stamps[seen.note]
          /\ seen.updated = note[seen.note].updated => seen.icon = note[seen.note].icon
        BY <1>1 DEF SeenOK, TypeOK
    <2>2. CASE seen.note = n
        BY <1>2, <1>3, <2>1, <2>2
    <2>3. CASE seen.note # n
        BY <1>2, <1>3, <2>1, <2>3
    <2> QED
        BY <2>2, <2>3
<1> QED
    BY <1>4, <1>5, <1>6, <1>7 DEF CatalogInv, NoIconReplacedUnseen

LEMMA CreateStep ==
    ASSUME CatalogInv, NEW n \in Notes, NEW t \in {now, now - 1}, t \in Times, CreateNote(n, t)
    PROVE  CatalogInv'
<1> DEFINE r == [status |-> "live", updated |-> t, icon |-> 0]
<1>1. r \in Rows /\ r.updated = t /\ r.status = "live"
    BY DEF Rows, Times
<1>2. note' = [note EXCEPT ![n] = r] /\ Stamp(n, t) /\ UNCHANGED <<now, share, seen, listing, blind>>
    BY DEF CreateNote
<1>3. n \notin listing.steady
    BY DEF CreateNote, CatalogInv, ListingOK, Visible, Live
<1>4. Touch(n)
    <2>1. listing \in Walks /\ listing.steady \ {n} = listing.steady
        BY <1>3 DEF CatalogInv, TypeOK, Walks
    <2>2. listing = [listing EXCEPT !.steady = listing.steady]
        BY <2>1 DEF Walks
    <2> QED
        BY <1>2, <2>1, <2>2 DEF Touch
<1> HIDE DEF r
<1> QED
    BY <1>1, <1>2, <1>4, WriteStep

LEMMA UpdateStep ==
    ASSUME CatalogInv, NEW n \in Notes, NEW t \in {now, now - 1}, t \in Times,
           NEW u, NEW conditional \in BOOLEAN, UpdateNote(u, n, t, conditional)
    PROVE  CatalogInv'
<1> DEFINE r == [note[n] EXCEPT !.updated = t, !.icon = t]
<1>1. note[n] \in Rows /\ note[n].status = "live" /\ seen \in [note : Notes, updated : Times, icon : Times] \union {NothingSeen}
    BY DEF CatalogInv, TypeOK, UpdateNote, MayEdit, Live, Rows
<1>2. r \in Rows /\ r.updated = t /\ r.status = "live"
    BY <1>1 DEF Rows
<1>3. note' = [note EXCEPT ![n] = r] /\ Stamp(n, t) /\ Touch(n) /\ UNCHANGED <<now, share, seen>>
    BY DEF UpdateNote
<1>4. conditional => seen.icon = note[n].icon
    <2> SUFFICES ASSUME conditional PROVE seen.icon = note[n].icon
        OBVIOUS
    <2>1. seen.note = n /\ seen.updated = note[n].updated
        BY DEF UpdateNote, Expected
    <2>2. seen # NothingSeen
        BY <2>1 DEF NothingSeen
    <2> QED
        BY <2>1, <2>2 DEF CatalogInv, SeenOK
<1>5. blind' = blind
    BY <1>4 DEF UpdateNote
<1> HIDE DEF r
<1> QED
    BY <1>2, <1>3, <1>5, WriteStep

LEMMA SaveStep ==
    ASSUME CatalogInv, NEW n \in Notes, NEW t \in {now, now - 1}, t \in Times, SaveDocument(n, t)
    PROVE  CatalogInv'
<1> DEFINE r == [note[n] EXCEPT !.updated = t]
<1>1. note[n] \in Rows /\ note[n].status = "live"
    BY DEF CatalogInv, TypeOK, SaveDocument, Live, Rows
<1>2. r \in Rows /\ r.updated = t /\ r.status = "live"
    BY <1>1 DEF Rows
<1>3. note' = [note EXCEPT ![n] = r] /\ Stamp(n, t) /\ Touch(n) /\ UNCHANGED <<now, share, seen, blind>>
    BY DEF SaveDocument
<1> HIDE DEF r
<1> QED
    BY <1>2, <1>3, WriteStep

\* What does not write a time: the row keeps its version, whoever may see it.
LEMMA KeptVersions ==
    ASSUME CatalogInv, TypeOK', ListingOK', UNCHANGED <<seen, stamps, blind>>,
           \A n \in Notes : /\ note'[n].updated = note[n].updated /\ note'[n].icon = note[n].icon
                            /\ note'[n].status = "none" <=> note[n].status = "none"
    PROVE  CatalogInv'
<1>1. SeenOK'
    <2> SUFFICES ASSUME seen # NothingSeen
                 PROVE  /\ note'[seen.note].status # "none" /\ seen.updated \in stamps'[seen.note]
                        /\ seen.updated = note'[seen.note].updated => seen.icon = note'[seen.note].icon
        BY DEF SeenOK
    <2>1. /\ seen.note \in Notes
          /\ note[seen.note].status # "none" /\ seen.updated \in stamps[seen.note]
          /\ seen.updated = note[seen.note].updated => seen.icon = note[seen.note].icon
        BY DEF CatalogInv, SeenOK, TypeOK
    <2> QED
        BY <2>1
<1>2. \A n \in Notes : note'[n].status # "none" => note'[n].updated \in stamps'[n]
    BY DEF CatalogInv
<1> QED
    BY <1>1, <1>2 DEF CatalogInv, NoIconReplacedUnseen

LEMMA EndStep ==
    ASSUME CatalogInv, NEW n \in Notes,
           \/ DeleteNote(n) \/ HardDeleteOldNotes(n)
           \/ \E permission \in {"none", "view", "edit"} : ChangeShare(n, permission)
    PROVE  CatalogInv'
<1>1. TypeOK /\ note \in [Notes -> Rows] /\ share \in [Notes -> {"none", "view", "edit"}]
    BY DEF CatalogInv, TypeOK, Rows
<1>2. CASE DeleteNote(n)
    <2> DEFINE r == [note[n] EXCEPT !.status = "deleted"]
    <2>1. /\ r \in Rows /\ r.updated = note[n].updated /\ r.icon = note[n].icon /\ r.status = "deleted"
          /\ note[n].status # "none"
        BY <1>1, <1>2 DEF Rows, DeleteNote, Live
    <2>2. note' = [note EXCEPT ![n] = r] /\ Withdraw(n) /\ UNCHANGED <<now, share, seen, stamps, blind>>
        BY <1>2 DEF DeleteNote
    <2> HIDE DEF r
    <2>3. /\ note' \in [Notes -> Rows] /\ note'[n] = r
          /\ \A m \in Notes \ {n} : note'[m] = note[m]
        BY <1>1, <2>1, <2>2
    <2>4. ListingOK' /\ listing' \in Walks
        BY <1>1, <2>2, <2>3, TouchedWalk, OthersStaySteady
    <2>5. TypeOK'
        BY <1>1, <2>2, <2>3, <2>4 DEF TypeOK, Rows, Walks
    <2> QED
        BY <2>1, <2>2, <2>3, <2>4, <2>5, KeptVersions
<1>3. CASE HardDeleteOldNotes(n)
    <2> DEFINE r == [note[n] EXCEPT !.status = "purged"]
    <2>1. /\ r \in Rows /\ r.updated = note[n].updated /\ r.icon = note[n].icon /\ r.status = "purged"
          /\ note[n].status = "deleted"
        BY <1>1, <1>3 DEF Rows, HardDeleteOldNotes
    <2>2. /\ note' = [note EXCEPT ![n] = r] /\ share' = [share EXCEPT ![n] = "none"]
          /\ UNCHANGED <<now, seen, listing, stamps, blind>>
        BY <1>3 DEF HardDeleteOldNotes
    <2> HIDE DEF r
    <2>3. /\ note' \in [Notes -> Rows] /\ note'[n] = r /\ share' \in [Notes -> {"none", "view", "edit"}]
          /\ \A m \in Notes \ {n} : note'[m] = note[m] /\ share'[m] = share[m]
        BY <1>1, <2>1, <2>2
    <2>4. n \notin listing.steady /\ listing \in Walks
        BY <1>1, <2>1 DEF CatalogInv, ListingOK, Visible, Live, TypeOK, Walks
    <2>5. ListingOK'
        BY <2>2, <2>3, <2>4, OthersStaySteady
    <2>6. TypeOK'
        BY <1>1, <2>2, <2>3 DEF TypeOK, Rows
    <2> QED
        BY <2>1, <2>2, <2>3, <2>5, <2>6, KeptVersions
<1>4. ASSUME NEW permission \in {"none", "view", "edit"}, ChangeShare(n, permission)
      PROVE  CatalogInv'
    <2>1. /\ share' \in [Notes -> {"none", "view", "edit"}]
          /\ \A m \in Notes \ {n} : share'[m] = share[m]
          /\ UNCHANGED <<now, note, seen, stamps, blind>>
        BY <1>1, <1>4 DEF ChangeShare
    <2>2. Touch(n) \/ Withdraw(n)
        BY <1>4 DEF ChangeShare
    <2>3. ListingOK' /\ listing' \in Walks
        BY <1>1, <2>1, <2>2, TouchedWalk, OthersStaySteady
    <2>4. TypeOK'
        BY <1>1, <2>1, <2>3 DEF TypeOK, Walks
    <2> QED
        BY <2>1, <2>3, <2>4, KeptVersions
<1> QED
    BY <1>2, <1>3, <1>4

LEMMA TickStep == ASSUME CatalogInv, Tick PROVE CatalogInv'
<1>1. TypeOK'
    <2>1. now' \in Times \ {0}
        BY DEF CatalogInv, TypeOK, Tick, Times
    <2> QED
        BY <2>1 DEF CatalogInv, TypeOK, Tick
<1>2. ListingOK' = ListingOK
    BY DEF Tick, ListingOK, Visible, Live, Behind
<1> QED
    BY <1>1, <1>2, KeptVersions DEF CatalogInv, Tick

LEMMA GetStep ==
    ASSUME CatalogInv, NEW n \in Notes, GetNoteByID(n)
    PROVE  CatalogInv'
<1>1. note[n] \in Rows /\ note[n].status = "live"
    BY DEF CatalogInv, TypeOK, GetNoteByID, Visible, Live, Rows
<1>2. TypeOK'
    BY <1>1 DEF CatalogInv, TypeOK, GetNoteByID, Rows
<1>3. ListingOK' = ListingOK
    BY DEF GetNoteByID, ListingOK, Visible, Live, Behind
<1>4. SeenOK'
    BY <1>1 DEF GetNoteByID, SeenOK, CatalogInv
<1> QED
    BY <1>2, <1>3, <1>4 DEF CatalogInv, NoIconReplacedUnseen, GetNoteByID

\* The walk begins: what is there is to be read.
LEMMA StartStep == ASSUME CatalogInv, StartListing PROVE CatalogInv'
<1> DEFINE there == {n \in Notes : Visible("guest", n)}
<1>1. NotListing \in Walks /\ NotListing.times = [n \in Notes |-> 0]
    BY DEF NotListing, Walks, Times
<1>2. /\ listing' \in Walks /\ listing'.phase = "first" /\ listing'.steady = there
      /\ listing'.times = [n \in Notes |-> 0]
      /\ UNCHANGED <<now, note, share, seen, stamps, blind>>
    <2>1. listing' = [NotListing EXCEPT !.phase = "first", !.steady = there, !.visible = there]
        BY DEF StartListing
    <2>2. there \in SUBSET Notes
        OBVIOUS
    <2> HIDE DEF there
    <2> QED
        BY <1>1, <2>1, <2>2 DEF Walks, StartListing
<1>3. ListingOK'
    BY <1>2 DEF ListingOK, Visible, Live, Behind
<1>4. TypeOK'
    BY <1>2 DEF CatalogInv, TypeOK, Walks
<1> QED
    BY <1>2, <1>3, <1>4, KeptVersions

\* A page is read: what was behind the cursor is on it or behind its last
\* row.
LEMMA PageStep == ASSUME CatalogInv, ReadPage PROVE CatalogInv'
<1> DEFINE rest == {n \in Notes : Visible("guest", n) /\ Behind(n)}
           page == FirstPage(rest)
           last == LastOf(page)
           times == [n \in Notes |-> listing.times[n] + IF n \in page THEN 1 ELSE 0]
<1>1. TypeOK /\ listing \in Walks /\ listing.phase \in {"first", "next"}
    BY DEF CatalogInv, TypeOK, Walks, ReadPage
<1>2. /\ IsFiniteSet(page) /\ page \subseteq rest
      /\ Cardinality(page) < PageSize => page = rest
      /\ page # {} => /\ last \in page
                      /\ \A n \in page : n = last \/ Precedes(n, last)
                      /\ \A n \in rest \ page : Precedes(last, n)
    <2>1. rest \in SUBSET Notes
        OBVIOUS
    <2> QED
        BY <1>1, <2>1, PageLists
<1>3. /\ listing' = IF Cardinality(page) < PageSize
                    THEN [NotListing EXCEPT !.phase = "done", !.times = times,
                                            !.steady = listing.steady, !.visible = listing.visible]
                    ELSE [listing EXCEPT !.phase = "next", !.times = times,
                                         !.cursor = [updated |-> note[last].updated, note |-> last]]
      /\ UNCHANGED <<now, note, share, seen, stamps, blind>>
    BY DEF ReadPage, FirstPage, LastOf, Ahead
<1>4. \A n \in Notes : n \in rest <=> Visible("guest", n) /\ Behind(n)
    OBVIOUS
<1>5. times \in [Notes -> Nat]
    BY <1>1 DEF Walks
<1>6. \A n \in Notes : times[n] = listing.times[n] + IF n \in page THEN 1 ELSE 0
    OBVIOUS
<1>7. rest \subseteq Notes
    OBVIOUS
<1> HIDE DEF rest, page, last, times
<1>8. \A n \in listing.steady :
        /\ n \in Notes /\ Visible("guest", n)
        /\ n \in rest => listing.times[n] = 0
        /\ n \notin rest => listing.times[n] = 1
    BY <1>1, <1>4 DEF CatalogInv, ListingOK, Walks
<1>9. CASE Cardinality(page) < PageSize
    <2>1. NotListing \in Walks
        BY DEF NotListing, Walks, Times
    <2>2. /\ listing' \in Walks /\ listing'.phase = "done" /\ listing'.times = times
          /\ listing'.steady = listing.steady
        BY <1>1, <1>3, <1>5, <1>9, <2>1 DEF Walks
    <2>3. ASSUME NEW n \in listing.steady
          PROVE  times[n] = 1
        BY <1>2, <1>6, <1>8, <1>9
    <2>4. ListingOK'
        BY <1>3, <1>8, <2>2, <2>3 DEF ListingOK, Visible, Live
    <2>5. TypeOK'
        BY <1>1, <1>3, <2>2 DEF TypeOK, Walks
    <2> QED
        BY <1>3, <2>4, <2>5, KeptVersions
<1>10. CASE ~(Cardinality(page) < PageSize)
    <2>1. page # {}
        BY <1>10, FS_EmptySet
    <2>2. last \in Notes /\ note[last].updated \in Times
        BY <1>1, <1>2, <1>7, <2>1 DEF TypeOK
    <2>3. /\ listing' \in Walks /\ listing'.phase = "next" /\ listing'.times = times
          /\ listing'.steady = listing.steady
          /\ listing'.cursor = [updated |-> note[last].updated, note |-> last]
        BY <1>1, <1>3, <1>5, <1>10, <2>2 DEF Walks
    <2>4. \A n \in Notes : Behind(n)' <=> Precedes(last, n)
        <3>1. \A n \in Notes : note[n].updated \in Nat /\ n \in Nat
            BY <1>1 DEF TypeOK, Times
        <3> QED
            BY <1>3, <2>2, <2>3, <3>1 DEF Behind, Precedes
    <2>5. ASSUME NEW n \in listing.steady
          PROVE  times[n] = IF Precedes(last, n) THEN 0 ELSE 1
        <3>1. n \in Notes
            BY <1>8
        <3>2. CASE n \in page
            <4>1. ~Precedes(last, n)
                <5>1. n = last \/ Precedes(n, last)
                    BY <1>2, <2>1, <3>2
                <5> QED
                    BY <1>1, <2>2, <3>1, <5>1, PrecedesIsAnOrder
            <4>2. times[n] = listing.times[n] + 1 /\ listing.times[n] = 0
                BY <1>2, <1>6, <1>8, <3>1, <3>2
            <4> QED
                BY <4>1, <4>2
        <3>3. CASE n \in rest \ page
            <4>1. Precedes(last, n)
                BY <1>2, <2>1, <3>3
            <4>2. times[n] = listing.times[n] + 0 /\ listing.times[n] = 0
                BY <1>6, <1>8, <3>1, <3>3
            <4> QED
                BY <4>1, <4>2
        <3>4. CASE n \notin rest
            <4>1. ~Precedes(last, n)
                <5>1. Behind(last) /\ ~Behind(n)
                    BY <1>2, <1>4, <1>8, <2>1, <2>2, <3>1, <3>4
                <5>2. listing.phase # "first"
                    BY <5>1 DEF Behind
                <5>3. listing.cursor.updated \in Nat /\ listing.cursor.note \in Nat
                    <6>1. listing.cursor \in [updated : Times, note : Notes \union {0}]
                        BY <1>1 DEF Walks
                    <6>2. listing.cursor.updated \in Times /\ listing.cursor.note \in Notes \union {0}
                        BY <6>1
                    <6>3. Times \subseteq Nat /\ Notes \union {0} \subseteq Nat
                        BY DEF Times
                    <6> QED
                        BY <6>2, <6>3
                <5>4. note[n].updated \in Nat /\ note[last].updated \in Nat
                    BY <1>1, <2>2, <3>1 DEF TypeOK, Times
                <5>5. n \in Nat /\ last \in Nat
                    BY <2>2, <3>1
                <5> QED
                    BY <5>1, <5>2, <5>3, <5>4, <5>5 DEF Behind, Precedes
            <4>2. n \notin page
                BY <1>2, <3>4
            <4>3. times[n] = listing.times[n] + 0 /\ listing.times[n] = 1
                BY <1>6, <1>8, <3>1, <3>4, <4>2
            <4> QED
                BY <4>1, <4>3
        <3> QED
            BY <3>2, <3>3, <3>4
    <2>6. ListingOK'
        <3> SUFFICES ASSUME NEW n \in listing.steady
                     PROVE  /\ listing'.phase # "idle" /\ Visible("guest", n)'
                            /\ listing'.times[n] = IF listing'.phase # "done" /\ Behind(n)' THEN 0 ELSE 1
            BY <2>3 DEF ListingOK
        <3>1. n \in Notes /\ Visible("guest", n)
            BY <1>8
        <3>2. Visible("guest", n)'
            BY <1>3, <3>1 DEF Visible, Live
        <3>3. Behind(n)' <=> Precedes(last, n)
            BY <2>4, <3>1
        <3> QED
            BY <2>3, <2>5, <3>2, <3>3
    <2>7. TypeOK'
        BY <1>1, <1>3, <2>3 DEF TypeOK, Walks
    <2> QED
        BY <1>3, <2>6, <2>7, KeptVersions
<1> QED
    BY <1>9, <1>10

LEMMA CatalogStep == ASSUME CatalogInv, [Next]_vars PROVE CatalogInv'
<1>1. \A t \in {now, now - 1} : t \in Times
    BY DEF CatalogInv, TypeOK, Times
<1>2. ASSUME NEW n \in Notes, NEW t \in {now, now - 1},
             \/ CreateNote(n, t) \/ SaveDocument(n, t)
             \/ \E u \in Users, conditional \in BOOLEAN : UpdateNote(u, n, t, conditional)
      PROVE  CatalogInv'
    BY <1>1, <1>2, CreateStep, SaveStep, UpdateStep
<1>3. ASSUME NEW n \in Notes,
             \/ GetNoteByID(n) \/ DeleteNote(n) \/ HardDeleteOldNotes(n)
             \/ \E permission \in {"none", "view", "edit"} : ChangeShare(n, permission)
      PROVE  CatalogInv'
    BY <1>3, GetStep, EndStep
<1>4. CASE Tick \/ StartListing \/ ReadPage
    BY <1>4, TickStep, StartStep, PageStep
<1>5. CASE UNCHANGED vars
    <2>1. TypeOK' /\ ListingOK' = ListingOK
        BY <1>5 DEF vars, CatalogInv, TypeOK, ListingOK, Visible, Live, Behind
    <2> QED
        BY <1>5, <2>1, KeptVersions DEF vars, CatalogInv
<1> QED
    BY <1>2, <1>3, <1>4, <1>5 DEF Next

\* The catalog keeps its invariant: each write brings a time the note never
\* had, and the walk knows of each steady note whether it was read.
THEOREM CatalogInvariant == Spec => []CatalogInv
BY InitCatalog, CatalogStep, PTL DEF Spec

\* However many notes move between the pages of a listing, and however many
\* of them have the same time, one that stayed as it was is listed exactly
\* once.
THEOREM SteadyNotesListedOnce == Spec => []SteadyNotesAreListed
<1>1. CatalogInv => SteadyNotesAreListed
    BY DEF CatalogInv, ListingOK, SteadyNotesAreListed
<1> QED
    BY <1>1, CatalogInvariant, PTL

\* A conditional edit of an icon never replaces one its editor has not seen.
THEOREM NoIconUnseen == Spec => []NoIconReplacedUnseen
<1>1. CatalogInv => NoIconReplacedUnseen
    BY DEF CatalogInv
<1> QED
    BY <1>1, CatalogInvariant, PTL

-------------------------------------------------------------------------------
(* TaskBlocks: metadata.                                                   *)

\* The keys after a patch are those it sets and those it leaves alone.
LEMMA MergedKeys ==
    ASSUME NEW m, NEW patch
    PROVE  /\ \A key : key \in DOMAIN Merge(m, patch) <=>
                IF key \in DOMAIN patch THEN patch[key] # None ELSE key \in DOMAIN m
           /\ \A key \in DOMAIN Merge(m, patch) : Merge(m, patch)[key] =
                IF key \in DOMAIN patch THEN patch[key] ELSE m[key]
BY DEF Merge

Patch(patch) == DOMAIN patch \subseteq Keys /\ \A key \in DOMAIN patch : patch[key] \in Values(key) \union {None}

LEMMA MergedMetadata ==
    ASSUME NEW m, IsMetadata(m), NEW patch, Patch(patch)
    PROVE  IsMetadata(Merge(m, patch))
BY MergedKeys DEF IsMetadata, Patch

LEMMA PutMetadata ==
    ASSUME NEW m, IsMetadata(m), NEW key \in Keys, NEW value \in Values(key)
    PROVE  IsMetadata(With(m, key, value))
BY DEF IsMetadata, With

LEMMA LessMetadata ==
    ASSUME NEW m, IsMetadata(m), NEW keys
    PROVE  IsMetadata(Without(m, keys))
BY DEF IsMetadata, Without

\* An occurrence changes the completions and nothing else.
LEMMA OccurrenceKeys ==
    ASSUME NEW m, NEW o
    PROVE  LET a == ApplyCompleteTaskOccurrence(m, o)
           IN  /\ DOMAIN a = DOMAIN m \union {"completions"}
               /\ \A key \in DOMAIN m : key # "completions" => a[key] = m[key]
               /\ a["completions"] = (SetOf(m, "completions") \ OnDay(m, o.day))
                        \union (IF o.at = None THEN {} ELSE {Record(o.day, o.at)})
BY DEF ApplyCompleteTaskOccurrence, With

Occurrences == {r \in Records : r.day # None}

LEMMA KeyValues ==
    /\ Values("completions") = SUBSET Occurrences /\ Values("completionHistory") = SUBSET Records
    /\ Values("dueDate") = Dates /\ Values("lastCompletedAt") = Instants
    /\ Values("isCompleted") = BOOLEAN /\ Values("recurrenceRule") = {"daily"}
    /\ Values("reminder") = {"on time"}
BY DEF Values, Occurrences

LEMMA RecordSets ==
    ASSUME NEW m, IsMetadata(m)
    PROVE  /\ SetOf(m, "completions") \subseteq Occurrences /\ SetOf(m, "completionHistory") \subseteq Records
           /\ OneOff(m) \subseteq Records /\ ActiveTaskCompletionRecords(m) \subseteq Records
           /\ \A day : OnDay(m, day) \subseteq Records
<1>1. SetOf(m, "completions") \subseteq Occurrences /\ SetOf(m, "completionHistory") \subseteq Records
    BY KeyValues DEF IsMetadata, SetOf
<1>2. OneOff(m) \subseteq Records
    <2>1. Value(m, "dueDate") \in Dates \union {None}
        BY KeyValues DEF IsMetadata, Value
    <2>2. Value(m, "lastCompletedAt") # None => m.lastCompletedAt \in Instants
        BY KeyValues DEF IsMetadata, Value
    <2> QED
        BY <2>1, <2>2 DEF OneOff, Records
<1> QED
    BY <1>1, <1>2 DEF ActiveTaskCompletionRecords, OnDay, Occurrences

LEMMA OccurrenceMetadata ==
    ASSUME NEW m, IsMetadata(m), NEW o, o.day \in Dates, o.at \in Instants \union {None}
    PROVE  IsMetadata(ApplyCompleteTaskOccurrence(m, o))
<1>1. (SetOf(m, "completions") \ OnDay(m, o.day))
        \union (IF o.at = None THEN {} ELSE {Record(o.day, o.at)}) \in SUBSET Occurrences
    <2>1. o.day # None
        BY KeyValues, TaskBlocksAssumption DEF Keys
    <2>2. o.at # None => Record(o.day, o.at) \in Occurrences
        BY <2>1 DEF Records, Record, Occurrences
    <2> QED
        BY <2>2, RecordSets
<1> QED
    BY <1>1, PutMetadata, KeyValues DEF ApplyCompleteTaskOccurrence, Keys

LEMMA ClientMetadata ==
    ASSUME NEW m, IsMetadata(m), NEW o, Operation(o)
    PROVE  IsMetadata(ClientApply(m, o))
BY MergedMetadata, OccurrenceMetadata DEF ClientApply, Operation, Patch

\* What an occurrence means to the completions of a task.
LEMMA OccurrenceCompletes ==
    ASSUME NEW m, NEW o
    PROVE  LET a == ApplyCompleteTaskOccurrence(m, o)
           IN  /\ SetOf(m, "completions") \ OnDay(m, o.day) \subseteq SetOf(a, "completions")
               /\ OnDay(a, o.day) \subseteq SetOf(a, "completions")
               /\ SetOf(a, "completionHistory") = SetOf(m, "completionHistory")
               /\ \A key : key # "completions" => Value(a, key) = Value(m, key)
               /\ OneOff(a) = OneOff(m)
<1> DEFINE a == ApplyCompleteTaskOccurrence(m, o)
<1>1. /\ DOMAIN a = DOMAIN m \union {"completions"}
      /\ \A key \in DOMAIN m : key # "completions" => a[key] = m[key]
      /\ a["completions"] = (SetOf(m, "completions") \ OnDay(m, o.day))
               \union (IF o.at = None THEN {} ELSE {Record(o.day, o.at)})
    BY OccurrenceKeys
<1> HIDE DEF a
<1>2. \A key : key # "completions" => Value(a, key) = Value(m, key)
    BY <1>1 DEF Value
<1>3. SetOf(a, "completionHistory") = SetOf(m, "completionHistory")
    BY <1>1 DEF SetOf
<1>4. SetOf(a, "completions") = a["completions"]
    BY <1>1 DEF SetOf
<1>5. OneOff(a) = OneOff(m)
    <2>1. Value(m, "lastCompletedAt") # None => a.lastCompletedAt = m.lastCompletedAt
        BY <1>1 DEF Value
    <2> QED
        BY <1>2, <2>1 DEF OneOff, IsDone
<1> QED
    BY <1>1, <1>2, <1>3, <1>4, <1>5 DEF OnDay, a

-------------------------------------------------------------------------------
(* TaskBlocks: operations one after the other, on a device and in the      *)
(* server's transaction.                                                   *)

Step(side, s, o) == IF side = "server" THEN ApplyOperation(s, o) ELSE ClientApply(s, o)

Unfolded(side, start, ops, n, p) ==
    p = [i \in 0..n |-> IF i = 0 THEN start ELSE Step(side, p[i - 1], ops[i])]

\* There is such a function for every n: for the smallest without one it
\* would be the one before with a last step.
LEMMA UnfoldExists ==
    ASSUME NEW side, NEW start, NEW ops, NEW n \in Nat
    PROVE  \E p : Unfolded(side, start, ops, n, p)
<1> DEFINE Bad == {m \in Nat : ~\E p : Unfolded(side, start, ops, m, p)}
<1>1. SUFFICES ASSUME Bad # {} PROVE FALSE
    OBVIOUS
<1>2. PICK m \in Bad : \A k \in Bad : m <= k
    BY <1>1, LeastNumber
<1>3. CASE m = 0
    <2> DEFINE p == [i \in 0..0 |-> start]
    <2>1. p = [i \in 0..0 |-> IF i = 0 THEN start ELSE Step(side, p[i - 1], ops[i])]
        OBVIOUS
    <2> HIDE DEF p
    <2> QED
        BY <1>2, <1>3, <2>1 DEF Unfolded
<1>4. CASE m # 0
    <2>1. PICK j \in Nat : m = j + 1
        BY <1>2, <1>4
    <2>2. j \notin Bad
        BY <1>2, <2>1
    <2>3. PICK p : Unfolded(side, start, ops, j, p)
        BY <2>2
    <2> DEFINE q == [i \in 0..m |-> IF i = m THEN Step(side, p[j], ops[m]) ELSE p[i]]
    <2>4. ASSUME NEW i \in 0..m
          PROVE  q[i] = IF i = 0 THEN start ELSE Step(side, q[i - 1], ops[i])
        <3>1. CASE i = m
            BY <2>1, <3>1
        <3>2. CASE i # m
            <4>1. i \in 0..j /\ q[i] = p[i]
                BY <2>1, <3>2
            <4>2. i # 0 => i - 1 \in 0..m /\ q[i - 1] = p[i - 1]
                BY <2>1, <3>2
            <4>3. p[i] = IF i = 0 THEN start ELSE Step(side, p[i - 1], ops[i])
                BY <2>3, <4>1 DEF Unfolded
            <4> QED
                BY <4>1, <4>2, <4>3
        <3> QED
            BY <3>1, <3>2
    <2>5. q = [i \in 0..m |-> q[i]]
        OBVIOUS
    <2> HIDE DEF q
    <2>6. Unfolded(side, start, ops, m, q)
        BY <2>4, <2>5 DEF Unfolded
    <2> QED
        BY <1>2, <2>6
<1> QED
    BY <1>3, <1>4

\* There is only one: nothing differs first.
LEMMA UnfoldUnique ==
    ASSUME NEW side, NEW start, NEW ops, NEW n \in Nat, NEW m \in Nat, n <= m, NEW p, NEW q,
           Unfolded(side, start, ops, n, p), Unfolded(side, start, ops, m, q)
    PROVE  p[n] = q[n]
<1> DEFINE Bad == {k \in 0..n : p[k] # q[k]}
<1>1. SUFFICES ASSUME Bad # {} PROVE FALSE
    OBVIOUS
<1>2. PICK k \in Bad : \A j \in Bad : k <= j
    <2>1. Bad \subseteq Nat
        OBVIOUS
    <2> QED
        BY <1>1, <2>1, LeastNumber
<1>3. p[k] = (IF k = 0 THEN start ELSE Step(side, p[k - 1], ops[k]))
    BY <1>2 DEF Unfolded
<1>4. q[k] = (IF k = 0 THEN start ELSE Step(side, q[k - 1], ops[k]))
    BY <1>2 DEF Unfolded
<1>5. k # 0 => p[k - 1] = q[k - 1]
    <2> SUFFICES ASSUME k # 0 PROVE p[k - 1] = q[k - 1]
        OBVIOUS
    <2>1. k - 1 \in 0..n /\ ~(k <= k - 1)
        BY <1>2
    <2> QED
        BY <1>2, <2>1
<1> QED
    BY <1>2, <1>3, <1>4, <1>5

LEMMA ProjectedUnfolds ==
    ASSUME NEW m, NEW ops, NEW n \in Nat
    PROVE  \E p : Unfolded("client", m, ops, n, p) /\ Projected(m, ops, n) = p[n]
<1> DEFINE at[i \in 0..n] == IF i = 0 THEN m ELSE ClientApply(at[i - 1], ops[i])
<1>1. \E p : p = [i \in 0..n |-> IF i = 0 THEN m ELSE ClientApply(p[i - 1], ops[i])]
    <2>1. PICK p : Unfolded("client", m, ops, n, p)
        BY UnfoldExists
    <2> QED
        BY <2>1 DEF Unfolded, Step
<1>2. at = [i \in 0..n |-> IF i = 0 THEN m ELSE ClientApply(at[i - 1], ops[i])]
    BY <1>1
<1>3. Unfolded("client", m, ops, n, at)
    BY <1>2 DEF Unfolded, Step
<1>4. Projected(m, ops, n) = at[n]
    BY DEF Projected
<1> QED
    BY <1>3, <1>4

LEMMA ProjectedStarts == ASSUME NEW m, NEW ops PROVE Projected(m, ops, 0) = m
<1>1. PICK p : Unfolded("client", m, ops, 0, p) /\ Projected(m, ops, 0) = p[0]
    BY ProjectedUnfolds
<1> QED
    BY <1>1 DEF Unfolded

LEMMA ProjectedSteps ==
    ASSUME NEW m, NEW ops, NEW n \in Nat
    PROVE  Projected(m, ops, n + 1) = ClientApply(Projected(m, ops, n), ops[n + 1])
<1>1. PICK p : Unfolded("client", m, ops, n, p) /\ Projected(m, ops, n) = p[n]
    BY ProjectedUnfolds
<1>2. PICK q : Unfolded("client", m, ops, n + 1, q) /\ Projected(m, ops, n + 1) = q[n + 1]
    BY n + 1 \in Nat, ProjectedUnfolds
<1>3. p[n] = q[n]
    BY n + 1 \in Nat, n <= n + 1, <1>1, <1>2, UnfoldUnique
<1>4. q[n + 1] = Step("client", q[n], ops[n + 1])
    BY n + 1 \in 0..(n + 1), (n + 1) - 1 = n, n + 1 # 0, <1>2 DEF Unfolded
<1> QED
    BY <1>1, <1>2, <1>3, <1>4 DEF Step

\* The first operations, then the others.
LEMMA ProjectedShift ==
    ASSUME NEW m, NEW ops, NEW rest, NEW k \in Nat, NEW n \in Nat, \A i \in 1..n : rest[i] = ops[k + i]
    PROVE  Projected(Projected(m, ops, k), rest, n) = Projected(m, ops, k + n)
<1> DEFINE Bad == {j \in 0..n : Projected(Projected(m, ops, k), rest, j) # Projected(m, ops, k + j)}
<1>1. SUFFICES ASSUME Bad # {} PROVE FALSE
    OBVIOUS
<1>2. PICK j \in Bad : \A i \in Bad : j <= i
    <2>1. Bad \subseteq Nat
        OBVIOUS
    <2> QED
        BY <1>1, <2>1, LeastNumber
<1>3. j # 0
    BY <1>2, ProjectedStarts, k + 0 = k
<1>4. PICK i \in Nat : j = i + 1
    BY <1>2, <1>3
<1>5. Projected(Projected(m, ops, k), rest, i) = Projected(m, ops, k + i)
    BY <1>2, <1>4, i \in 0..n, ~(j <= i)
<1>6. Projected(Projected(m, ops, k), rest, j) = ClientApply(Projected(m, ops, k + i), rest[j])
    BY <1>4, <1>5, ProjectedSteps
<1>7. Projected(m, ops, k + j) = ClientApply(Projected(m, ops, k + i), ops[k + j])
    <2>1. k + i \in Nat /\ k + j = (k + i) + 1
        BY <1>4
    <2>2. Projected(m, ops, (k + i) + 1) = ClientApply(Projected(m, ops, k + i), ops[(k + i) + 1])
        BY <2>1, ProjectedSteps, Zenon
    <2> QED
        BY <2>1, <2>2, Zenon
<1>8. rest[j] = ops[k + j]
    BY <1>2, <1>3
<1> QED
    BY <1>2, <1>6, <1>7, <1>8

\* What comes later does not matter.
LEMMA ProjectedPrefix ==
    ASSUME NEW m, NEW ops, NEW more, NEW n \in Nat, \A i \in 1..n : more[i] = ops[i]
    PROVE  Projected(m, more, n) = Projected(m, ops, n)
<1>1. \A i \in 1..n : more[i] = ops[0 + i]
    OBVIOUS
<1>2. Projected(Projected(m, ops, 0), more, n) = Projected(m, ops, 0 + n)
    BY <1>1, ProjectedShift
<1> QED
    BY <1>2, ProjectedStarts, 0 + n = n

Begun == [ok |-> TRUE, meta |-> block, evidence |-> {}, kept |-> kept]

LEMMA TransactionUnfolds ==
    ASSUME NEW d, NEW n \in Nat
    PROVE  \E p : Unfolded("server", Begun, outbox[d], n, p) /\ Transaction(d, n) = p[n]
<1> DEFINE s[i \in 0..n] == IF i = 0 THEN [ok |-> TRUE, meta |-> block, evidence |-> {}, kept |-> kept]
                            ELSE ApplyOperation(s[i - 1], outbox[d][i])
<1>1. \E p : p = [i \in 0..n |-> IF i = 0 THEN [ok |-> TRUE, meta |-> block, evidence |-> {}, kept |-> kept]
                                 ELSE ApplyOperation(p[i - 1], outbox[d][i])]
    <2>1. PICK p : Unfolded("server", Begun, outbox[d], n, p)
        BY UnfoldExists
    <2> QED
        BY <2>1 DEF Unfolded, Step, Begun
<1>2. s = [i \in 0..n |-> IF i = 0 THEN [ok |-> TRUE, meta |-> block, evidence |-> {}, kept |-> kept]
                          ELSE ApplyOperation(s[i - 1], outbox[d][i])]
    BY <1>1
<1>3. Unfolded("server", Begun, outbox[d], n, s)
    BY <1>2 DEF Unfolded, Step, Begun
<1>4. Transaction(d, n) = s[n]
    BY DEF Transaction
<1> QED
    BY <1>3, <1>4

LEMMA TransactionStarts == ASSUME NEW d PROVE Transaction(d, 0) = Begun
<1>1. PICK p : Unfolded("server", Begun, outbox[d], 0, p) /\ Transaction(d, 0) = p[0]
    BY TransactionUnfolds
<1> QED
    BY <1>1 DEF Unfolded

LEMMA TransactionSteps ==
    ASSUME NEW d, NEW n \in Nat
    PROVE  Transaction(d, n + 1) = ApplyOperation(Transaction(d, n), outbox[d][n + 1])
<1>1. PICK p : Unfolded("server", Begun, outbox[d], n, p) /\ Transaction(d, n) = p[n]
    BY TransactionUnfolds
<1>2. PICK q : Unfolded("server", Begun, outbox[d], n + 1, q) /\ Transaction(d, n + 1) = q[n + 1]
    BY n + 1 \in Nat, TransactionUnfolds
<1>3. p[n] = q[n]
    BY n + 1 \in Nat, n <= n + 1, <1>1, <1>2, UnfoldUnique
<1>4. q[n + 1] = Step("server", q[n], outbox[d][n + 1])
    BY n + 1 \in 0..(n + 1), (n + 1) - 1 = n, n + 1 # 0, <1>2 DEF Unfolded
<1> QED
    BY <1>1, <1>2, <1>3, <1>4 DEF Step

-------------------------------------------------------------------------------
(* TaskBlocks: a transaction keeps the completions.                        *)

\* A transaction that goes on: its metadata, and the completions to be kept.
Keeping(s) ==
    /\ IsMetadata(s.meta) /\ s.kept \subseteq Records
    /\ s.kept \subseteq ActiveTaskCompletionRecords(s.meta) \union SetOf(s.meta, "completionHistory")

LEMMA OccurrenceKeeps ==
    ASSUME NEW s, s.ok, Keeping(s), NEW o, Operation(o), o.kind = "complete_task_occurrence"
    PROVE  Keeping(ApplyOperation(s, o))
<1> DEFINE a == ApplyCompleteTaskOccurrence(s.meta, o)
           t == ApplyOperation(s, o)
<1>1. t.meta = a /\ t.kept = (s.kept \ OnDay(s.meta, o.day)) \union OnDay(a, o.day)
    BY DEF ApplyOperation, TakenBack
<1>2. IsMetadata(a)
    BY OccurrenceMetadata DEF Keeping, Operation
<1>3. /\ SetOf(s.meta, "completions") \ OnDay(s.meta, o.day) \subseteq SetOf(a, "completions")
      /\ OnDay(a, o.day) \subseteq SetOf(a, "completions")
      /\ SetOf(a, "completionHistory") = SetOf(s.meta, "completionHistory")
      /\ OneOff(a) = OneOff(s.meta)
    BY OccurrenceCompletes
<1>4. OnDay(a, o.day) \subseteq Records
    BY <1>2, RecordSets
<1> HIDE DEF a, t
<1>5. t.kept \subseteq ActiveTaskCompletionRecords(a) \union SetOf(a, "completionHistory")
    BY <1>1, <1>3 DEF ActiveTaskCompletionRecords, Keeping
<1>6. Keeping(t)
    BY <1>1, <1>2, <1>4, <1>5 DEF Keeping
<1> QED
    BY <1>6 DEF t

LEMMA PatchKeeps ==
    ASSUME NEW s, s.ok, Keeping(s), NEW o, Operation(o), o.kind = "set_block_metadata",
           ApplyOperation(s, o).ok
    PROVE  Keeping(ApplyOperation(s, o))
<1> DEFINE m == s.meta
           a == Merge(m, o.patch)
           t == ApplyOperation(s, o)
<1>1. /\ t.meta = a /\ t.kept = (s.kept \ TakenBack(m, o)) \union OneOff(a)
      /\ ValidTransition(m, o.patch, s.evidence)
    BY DEF ApplyOperation
<1>2. IsMetadata(a)
    BY MergedMetadata DEF Keeping, Operation, Patch
<1>3. /\ SetOf(m, "completionHistory") \subseteq SetOf(a, "completionHistory")
      /\ \A r \in ActiveTaskCompletionRecords(m) \ SetOf(a, "completionHistory") :
            \/ r \in ActiveTaskCompletionRecords(a)
            \/ Schedule(m) = Schedule(a) /\ r \in OneOff(m) /\ ~IsDone(a)
    <2>1. LegacyCompletion(m, o.patch) => ActiveTaskCompletionRecords(m) = {}
        BY DEF LegacyCompletion, ActiveTaskCompletionRecords, OneOff
    <2> HIDE DEF m, a
    <2> QED
        BY <1>1, <2>1 DEF ValidTransition, IsReopened, a
<1>4. Schedule(a) = Schedule(m) /\ ~IsDone(a) => TakenBack(m, o) = OneOff(m)
    BY DEF TakenBack
<1>5. OneOff(a) \subseteq Records
    BY <1>2, RecordSets
<1> HIDE DEF m, a, t
<1>6. s.kept \subseteq ActiveTaskCompletionRecords(m) \union SetOf(m, "completionHistory") /\ s.kept \subseteq Records
    BY DEF Keeping, m
<1>7. OneOff(a) \subseteq ActiveTaskCompletionRecords(a)
    BY DEF ActiveTaskCompletionRecords
<1>8. t.kept \subseteq ActiveTaskCompletionRecords(a) \union SetOf(a, "completionHistory")
    <2> SUFFICES ASSUME NEW r \in s.kept, r \notin TakenBack(m, o)
                 PROVE  r \in ActiveTaskCompletionRecords(a) \union SetOf(a, "completionHistory")
        BY <1>1, <1>7
    <2>1. CASE r \in SetOf(m, "completionHistory")
        BY <1>3, <2>1
    <2>2. CASE r \in ActiveTaskCompletionRecords(m) \ SetOf(a, "completionHistory")
        BY <1>3, <1>4, <2>2
    <2> QED
        BY <1>6, <2>1, <2>2
<1>9. Keeping(t)
    BY <1>1, <1>2, <1>5, <1>6, <1>8 DEF Keeping
<1> QED
    BY <1>9 DEF t

\* However long the batch: the first operation to lose a completion would be
\* refused, and all that follow.
LEMMA TransactionKeeps ==
    ASSUME BlockInv, NEW d \in Devices, NEW n \in Nat, n <= Len(outbox[d]), Transaction(d, n).ok
    PROVE  Keeping(Transaction(d, n))
<1> DEFINE Bad == {k \in 0..n : Transaction(d, k).ok /\ ~Keeping(Transaction(d, k))}
<1>1. SUFFICES ASSUME Bad # {} PROVE FALSE
    OBVIOUS
<1>2. PICK k \in Bad : \A j \in Bad : k <= j
    <2>1. Bad \subseteq Nat
        OBVIOUS
    <2> QED
        BY <1>1, <2>1, LeastNumber
<1>3. k # 0
    <2>1. Keeping(Begun)
        BY DEF Keeping, Begun, BlockInv, BlockTypeOK, CompletionsSurvive
    <2> QED
        BY <1>2, <2>1, TransactionStarts
<1>4. PICK j \in Nat : k = j + 1
    BY <1>2, <1>3
<1> DEFINE s == Transaction(d, j)
           o == outbox[d][k]
<1>5. Transaction(d, k) = ApplyOperation(s, o)
    BY <1>4, TransactionSteps
<1>6. s.ok
    BY <1>2, <1>5 DEF ApplyOperation
<1>7. Keeping(s)
    BY <1>2, <1>4, <1>6, j \in 0..n, ~(k <= j)
<1>8. Operation(o)
    <2>1. k \in DOMAIN outbox[d]
        BY <1>2, <1>3 DEF BlockInv, BlockTypeOK
    <2> QED
        BY <2>1 DEF BlockInv, BlockTypeOK
<1> HIDE DEF s, o
<1>9. Keeping(ApplyOperation(s, o))
    <2>1. CASE o.kind = "complete_task_occurrence"
        BY <1>6, <1>7, <1>8, <2>1, OccurrenceKeeps
    <2>2. CASE o.kind = "set_block_metadata"
        BY <1>2, <1>5, <1>6, <1>7, <1>8, <2>2, PatchKeeps
    <2> QED
        BY <1>8, <2>1, <2>2 DEF Operation
<1> QED
    BY <1>2, <1>5, <1>9

-------------------------------------------------------------------------------
(* TaskBlocks: what the editors record.                                    *)

LEMMA SequenceOfSet ==
    ASSUME NEW S, IsFiniteSet(S)
    PROVE  SetToSeq(S) \in Seq(S)
<1>1. PICK n \in Nat : ExistsBijection(1..n, S)
    BY FS_NatBijection
<1>2. n = Cardinality(S)
    BY <1>1, FS_CountingElements
<1>3. \E f \in [1..Cardinality(S) -> S] : IsInjective(f)
    BY <1>1, <1>2 DEF ExistsBijection, Bijection, Injection, IsInjective
<1>4. SetToSeq(S) \in [1..Cardinality(S) -> S]
    BY <1>3 DEF SetToSeq
<1> QED
    BY <1>1, <1>2, <1>4

\* The image of a finite set under a function.
LEMMA FiniteImage ==
    ASSUME NEW S, IsFiniteSet(S), NEW f, NEW T, \A y \in T : \E x \in S : f[x] = y
    PROVE  IsFiniteSet(T)
<1> DEFINE Inner == {x \in S : f[x] \in T}
           g == [x \in Inner |-> f[x]]
<1>1. IsFiniteSet(Inner)
    BY FS_Subset
<1>2. g \in [Inner -> T] /\ \A y \in T : \E x \in Inner : g[x] = y
    OBVIOUS
<1> HIDE DEF Inner, g
<1>3. g \in Surjection(Inner, T)
    BY <1>2 DEF Surjection
<1> QED
    BY <1>1, <1>3, FS_Surjection

LEMMA RecordsAreFinite == IsFiniteSet(Records)
<1> DEFINE pairs == (Dates \union {None}) \X Instants
           f == [p \in pairs |-> Record(p[1], p[2])]
<1>1. IsFiniteSet(Dates \union {None})
    BY TaskBlocksAssumption, FS_Singleton, FS_Union
<1>2. IsFiniteSet(pairs)
    BY <1>1, TaskBlocksAssumption, FS_Product
<1>3. ASSUME NEW r \in Records
      PROVE  \E p \in pairs : f[p] = r
    <2>1. PICK day \in Dates \union {None}, at \in Instants : r = Record(day, at)
        BY DEF Records
    <2>2. <<day, at>> \in pairs /\ f[<<day, at>>] = r
        BY <2>1
    <2> QED
        BY <2>2
<1> HIDE DEF pairs, f
<1> QED
    BY <1>2, <1>3, FiniteImage

\* What an outbox may hold.
OperationRows(s) == s \in Seq(ToSet(s)) /\ \A i \in DOMAIN s : Operation(s[i])

LEMMA RowsOf ==
    ASSUME NEW S, NEW s \in Seq(S), \A o \in S : Operation(o)
    PROVE  OperationRows(s)
BY DEF OperationRows, ToSet

LEMMA RowsJoined ==
    ASSUME NEW s, NEW t, OperationRows(s), OperationRows(t)
    PROVE  OperationRows(s \o t)
<1> DEFINE S == ToSet(s) \union ToSet(t)
<1>1. \A o \in S : Operation(o)
    BY DEF OperationRows, ToSet
<1>2. s \in Seq(S) /\ t \in Seq(S)
    BY DEF OperationRows
<1>3. s \o t \in Seq(S)
    BY <1>2
<1> HIDE DEF S
<1> QED
    BY <1>1, <1>3, RowsOf

LEMMA RowsLeft ==
    ASSUME NEW s, OperationRows(s), NEW k \in Nat, k <= Len(s)
    PROVE  OperationRows(SubSeq(s, k + 1, Len(s)))
<1>1. SubSeq(s, k + 1, Len(s)) \in Seq(ToSet(s))
    BY DEF OperationRows
<1>2. \A o \in ToSet(s) : Operation(o)
    BY DEF OperationRows, ToSet
<1> QED
    BY <1>1, <1>2, RowsOf

LEMMA CompletionRows ==
    ASSUME NEW before, NEW after, IsMetadata(before), IsMetadata(after)
    PROVE  /\ OperationRows(CompletionOperations(before, after))
           /\ \A i \in DOMAIN CompletionOperations(before, after) :
                CompletionOperations(before, after)[i].kind = "complete_task_occurrence"
<1> DEFINE old == SetOf(before, "completions")
           new == SetOf(after, "completions")
           gone == {x \in old : OnDay(after, x.day) = {}}
           added == {Complete(r.day, r.at) : r \in new \ old}
           removed == {Complete(r.day, None) : r \in gone}
<1>1. old \subseteq Occurrences /\ new \subseteq Occurrences
    BY RecordSets
<1>2. \A r \in Occurrences : r.day \in Dates /\ r.at \in Instants
    BY DEF Occurrences, Records, Record
<1>3. IsFiniteSet(new \ old) /\ IsFiniteSet(gone)
    BY <1>1, RecordsAreFinite, FS_Subset DEF Occurrences
<1>4. IsFiniteSet(added)
    <2> DEFINE f == [r \in new \ old |-> Complete(r.day, r.at)]
    <2>1. \A o \in added : \E r \in new \ old : f[r] = o
        OBVIOUS
    <2> HIDE DEF f, added, new, old
    <2> QED
        BY <1>3, <2>1, FiniteImage
<1>5. IsFiniteSet(removed)
    <2> DEFINE f == [r \in gone |-> Complete(r.day, None)]
    <2>1. \A o \in removed : \E r \in gone : f[r] = o
        OBVIOUS
    <2> HIDE DEF f, removed, gone
    <2> QED
        BY <1>3, <2>1, FiniteImage
<1>6. \A o \in added \union removed : Operation(o) /\ o.kind = "complete_task_occurrence"
    BY <1>1, <1>2 DEF Operation, Complete
<1>7. SetToSeq(added \union removed) \in Seq(added \union removed)
    <2> HIDE DEF added, removed
    <2> QED
        BY <1>4, <1>5, FS_Union, SequenceOfSet
<1>8. CompletionOperations(before, after) = SetToSeq(added \union removed)
    BY DEF CompletionOperations
<1> HIDE DEF added, removed
<1>9. \A i \in DOMAIN CompletionOperations(before, after) :
        CompletionOperations(before, after)[i] \in added \union removed
    BY <1>7, <1>8
<1> QED
    BY <1>6, <1>7, <1>8, <1>9, RowsOf

LEMMA MetadataRows ==
    ASSUME NEW before, NEW after, IsMetadata(before), IsMetadata(after)
    PROVE  OperationRows(MetadataOperations(before, after))
<1> DEFINE other == (DOMAIN before \union DOMAIN after) \ {"completions"}
           cleared == IF Schedule(before) = Schedule(after) THEN {} ELSE {"completions"}
           patch == [key \in other \union cleared |-> IF key \in cleared THEN None ELSE Value(after, key)]
           o == [kind |-> "set_block_metadata", patch |-> patch]
<1>1. Patch(patch)
    <2>1. \A key \in Keys : Value(after, key) \in Values(key) \union {None}
        BY DEF IsMetadata, Value
    <2>2. other \union cleared \subseteq Keys
        BY DEF IsMetadata, Keys
    <2> HIDE DEF other, cleared
    <2> QED
        BY <2>1, <2>2 DEF Patch
<1>2. Operation(o)
    <2> HIDE DEF patch
    <2> QED
        BY <1>1 DEF Operation, Patch
<1>3. MetadataOperations(before, after) = <<>> \/ MetadataOperations(before, after) = <<o>>
    BY DEF MetadataOperations
<1> HIDE DEF o
<1>4. <<>> \in Seq({o}) /\ <<o>> \in Seq({o})
    OBVIOUS
<1>5. MetadataOperations(before, after) \in Seq({o})
    BY <1>3, <1>4
<1> QED
    BY <1>2, <1>5, RowsOf

LEMMA DiffRows ==
    ASSUME NEW before, NEW after, IsMetadata(before), IsMetadata(after)
    PROVE  OperationRows(Diff(before, after))
<1>1. OperationRows(<<>>)
    BY DEF OperationRows, ToSet
<1> QED
    BY <1>1, CompletionRows, MetadataRows, RowsJoined DEF Diff

\* What the metadata is after a change of some keys, key by key.
LEMMA PutValues ==
    ASSUME NEW m, NEW key, NEW value
    PROVE  LET a == With(m, key, value)
           IN  /\ Value(a, key) = value /\ SetOf(a, key) = value
               /\ \A k : k # key => Value(a, k) = Value(m, k) /\ SetOf(a, k) = SetOf(m, k)
BY DEF With, Value, SetOf

LEMMA LessValues ==
    ASSUME NEW m, NEW keys
    PROVE  LET a == Without(m, keys)
           IN  /\ \A k : Value(a, k) = IF k \in keys THEN None ELSE Value(m, k)
               /\ \A k : SetOf(a, k) = IF k \in keys THEN {} ELSE SetOf(m, k)
BY DEF Without, Value, SetOf

LEMMA MergedValues ==
    ASSUME NEW m, NEW patch
    PROVE  LET a == Merge(m, patch)
           IN  /\ \A k : Value(a, k) = IF k \in DOMAIN patch THEN patch[k] ELSE Value(m, k)
               /\ \A k : SetOf(a, k) = IF k \in DOMAIN patch
                                       THEN IF patch[k] = None THEN {} ELSE patch[k]
                                       ELSE SetOf(m, k)
<1> DEFINE a == Merge(m, patch)
<1>1. /\ \A key : key \in DOMAIN a <=> IF key \in DOMAIN patch THEN patch[key] # None ELSE key \in DOMAIN m
      /\ \A key \in DOMAIN a : a[key] = IF key \in DOMAIN patch THEN patch[key] ELSE m[key]
    BY MergedKeys
<1> HIDE DEF a
<1>2. \A k : Value(a, k) = IF k \in DOMAIN patch THEN patch[k] ELSE Value(m, k)
    BY <1>1 DEF Value
<1>3. \A k : SetOf(a, k) = IF k \in DOMAIN patch THEN IF patch[k] = None THEN {} ELSE patch[k]
                           ELSE SetOf(m, k)
    BY <1>1 DEF SetOf
<1> QED
    BY <1>2, <1>3 DEF a

LEMMA OneOffValues ==
    ASSUME NEW m
    PROVE  OneOff(m) = IF IsDone(m) /\ Value(m, "lastCompletedAt") # None
                       THEN {Record(Value(m, "dueDate"), Value(m, "lastCompletedAt"))} ELSE {}
BY DEF OneOff, Value

LEMMA CanonicalValues ==
    ASSUME NEW m, IsMetadata(m)
    PROVE  Canonical(m) <=> \/ Value(m, "dueDate") # None
                            \/ Value(m, "recurrenceRule") = None /\ Value(m, "reminder") = None
<1>1. \A key \in Keys : key \in DOMAIN m <=> Value(m, key) # None
    BY TaskBlocksAssumption DEF IsMetadata, Value
<1>2. "dueDate" \in Keys /\ "recurrenceRule" \in Keys /\ "reminder" \in Keys
    BY DEF Keys
<1> QED
    BY <1>1, <1>2 DEF Canonical

LEMMA KeyNames ==
    /\ "dueDate" \in Keys /\ "recurrenceRule" \in Keys /\ "reminder" \in Keys /\ "completions" \in Keys
    /\ "isCompleted" \in Keys /\ "lastCompletedAt" \in Keys /\ "completionHistory" \in Keys
BY DEF Keys

\* What the commands of the editor have in common.
Commanded(m, after) ==
    /\ IsMetadata(after)
    /\ SetOf(m, "completionHistory") \subseteq SetOf(after, "completionHistory")
    /\ Canonical(m) => Canonical(after) /\ (DoneOnce(m) => DoneOnce(after))
    /\ Schedule(after) = Schedule(m) /\ DoneOnce(m) =>
        OneOff(m) \subseteq OneOff(after) \/ (~IsDone(after) /\ Value(after, "lastCompletedAt") = None)
    /\ Schedule(after) # Schedule(m) =>
        /\ ActiveTaskCompletionRecords(m) \subseteq SetOf(after, "completionHistory")
        /\ ~IsDone(after) /\ Value(after, "lastCompletedAt") = None

\* The flag of a task is cleared, or set.
LEMMA Unchecked ==
    ASSUME NEW m, IsMetadata(m)
    PROVE  LET a == With(m, "isCompleted", FALSE)
           IN  /\ IsMetadata(a) /\ ~IsDone(a)
               /\ \A k : k # "isCompleted" => Value(a, k) = Value(m, k) /\ SetOf(a, k) = SetOf(m, k)
<1> DEFINE no == FALSE
           a == With(m, "isCompleted", no)
<1>1. no \in Values("isCompleted") /\ no # TRUE
    BY KeyValues
<1> HIDE DEF no
<1>2. IsMetadata(a)
    BY <1>1, PutMetadata, KeyNames
<1>3. /\ Value(a, "isCompleted") = no
      /\ \A k : k # "isCompleted" => Value(a, k) = Value(m, k) /\ SetOf(a, k) = SetOf(m, k)
    BY PutValues
<1>4. ~IsDone(a)
    BY <1>1, <1>3 DEF IsDone
<1> HIDE DEF a
<1> QED
    BY <1>2, <1>3, <1>4 DEF a, no

LEMMA Checked ==
    ASSUME NEW m, IsMetadata(m)
    PROVE  LET a == With(m, "isCompleted", TRUE)
           IN  /\ IsMetadata(a)
               /\ \A k : k # "isCompleted" => Value(a, k) = Value(m, k) /\ SetOf(a, k) = SetOf(m, k)
<1> DEFINE yes == TRUE
           a == With(m, "isCompleted", yes)
<1>1. yes \in Values("isCompleted")
    BY KeyValues
<1> HIDE DEF yes
<1>2. IsMetadata(a)
    BY <1>1, PutMetadata, KeyNames
<1>3. \A k : k # "isCompleted" => Value(a, k) = Value(m, k) /\ SetOf(a, k) = SetOf(m, k)
    BY PutValues
<1> HIDE DEF a
<1> QED
    BY <1>2, <1>3 DEF a, yes

LEMMA CompleteOccurrenceFits ==
    ASSUME NEW m, IsMetadata(m), Value(m, "recurrenceRule") # None, NEW day \in Dates, NEW at \in Instants
    PROVE  Commanded(m, With(ApplyCompleteTaskOccurrence(m, Complete(day, at)), "isCompleted", FALSE))
<1> DEFINE x == ApplyCompleteTaskOccurrence(m, Complete(day, at))
           a == With(x, "isCompleted", FALSE)
<1>1. IsMetadata(x)
    BY OccurrenceMetadata DEF Complete
<1>2. /\ SetOf(x, "completionHistory") = SetOf(m, "completionHistory")
      /\ \A k : k # "completions" => Value(x, k) = Value(m, k)
    BY OccurrenceCompletes
<1> HIDE DEF x
<1>3. /\ IsMetadata(a) /\ ~IsDone(a)
      /\ \A k : k # "isCompleted" => Value(a, k) = Value(x, k) /\ SetOf(a, k) = SetOf(x, k)
    BY <1>1, Unchecked
<1> HIDE DEF a
<1>4. /\ SetOf(a, "completionHistory") = SetOf(m, "completionHistory")
      /\ \A k : k \notin {"completions", "isCompleted"} => Value(a, k) = Value(m, k)
    BY <1>2, <1>3
<1>5. Schedule(a) = Schedule(m)
    BY <1>4 DEF Schedule
<1>6. Canonical(m) => Canonical(a)
    BY <1>3, <1>4, CanonicalValues
<1>7. DoneOnce(m) => OneOff(m) = {}
    BY DEF DoneOnce, OneOff
<1> QED
    BY <1>3, <1>4, <1>5, <1>6, <1>7 DEF Commanded, DoneOnce, a, x

LEMMA CompleteOnceFits ==
    ASSUME NEW m, IsMetadata(m), Value(m, "dueDate") = None \/ Value(m, "recurrenceRule") = None,
           ~IsDone(m), NEW at \in Instants
    PROVE  Commanded(m, With(With(m, "lastCompletedAt", at), "isCompleted", TRUE))
<1> DEFINE x == With(m, "lastCompletedAt", at)
           a == With(x, "isCompleted", TRUE)
<1>1. IsMetadata(x) /\ at # None
    BY PutMetadata, KeyNames, KeyValues, TaskBlocksAssumption
<1>2. /\ Value(x, "lastCompletedAt") = at
      /\ \A k : k # "lastCompletedAt" => Value(x, k) = Value(m, k) /\ SetOf(x, k) = SetOf(m, k)
    BY PutValues
<1> HIDE DEF x
<1>3. /\ IsMetadata(a)
      /\ \A k : k # "isCompleted" => Value(a, k) = Value(x, k) /\ SetOf(a, k) = SetOf(x, k)
    BY <1>1, Checked
<1> HIDE DEF a
<1>4. /\ SetOf(a, "completionHistory") = SetOf(m, "completionHistory")
      /\ \A k : k \notin {"lastCompletedAt", "isCompleted"} => Value(a, k) = Value(m, k)
      /\ Value(a, "lastCompletedAt") = at
    BY <1>2, <1>3
<1>5. Schedule(a) = Schedule(m)
    BY <1>4 DEF Schedule
<1>6. Canonical(m) => Canonical(a)
    BY <1>3, <1>4, CanonicalValues
<1>7. OneOff(m) = {}
    BY DEF OneOff
<1>8. Canonical(m) => Value(a, "recurrenceRule") = None
    BY <1>4, CanonicalValues
<1> QED
    BY <1>1, <1>3, <1>4, <1>5, <1>6, <1>7, <1>8 DEF Commanded, DoneOnce, a, x

LEMMA ReopenedValues ==
    ASSUME NEW m, IsMetadata(m)
    PROVE  LET a == Reopened(m)
           IN  /\ IsMetadata(a) /\ ~IsDone(a) /\ Value(a, "lastCompletedAt") = None
               /\ \A k : k \notin {"isCompleted", "lastCompletedAt"} =>
                    Value(a, k) = Value(m, k) /\ SetOf(a, k) = SetOf(m, k)
<1> DEFINE x == Without(m, {"lastCompletedAt"})
           a == Reopened(m)
<1>1. IsMetadata(x)
    BY LessMetadata
<1>2. /\ \A k : Value(x, k) = IF k \in {"lastCompletedAt"} THEN None ELSE Value(m, k)
      /\ \A k : SetOf(x, k) = IF k \in {"lastCompletedAt"} THEN {} ELSE SetOf(m, k)
    BY LessValues
<1>3. a = With(x, "isCompleted", FALSE)
    BY DEF Reopened
<1> HIDE DEF x, a
<1>4. /\ IsMetadata(a) /\ ~IsDone(a)
      /\ \A k : k # "isCompleted" => Value(a, k) = Value(x, k) /\ SetOf(a, k) = SetOf(x, k)
    BY <1>1, <1>3, Unchecked
<1>5. \A k : k \notin {"isCompleted", "lastCompletedAt"} =>
        Value(a, k) = Value(m, k) /\ SetOf(a, k) = SetOf(m, k)
    BY <1>2, <1>4
<1> QED
    BY <1>2, <1>4, <1>5 DEF a

\* Reopening, of the task or of an occurrence x was made without.
LEMMA ReopenFits ==
    ASSUME NEW m, NEW x, IsMetadata(m), IsMetadata(x),
           SetOf(x, "completionHistory") = SetOf(m, "completionHistory"),
           \A k : k # "completions" => Value(x, k) = Value(m, k)
    PROVE  Commanded(m, Reopened(x))
<1> DEFINE a == Reopened(x)
<1>1. /\ IsMetadata(a) /\ ~IsDone(a) /\ Value(a, "lastCompletedAt") = None
      /\ \A k : k \notin {"isCompleted", "lastCompletedAt"} =>
            Value(a, k) = Value(x, k) /\ SetOf(a, k) = SetOf(x, k)
    BY ReopenedValues
<1> HIDE DEF a
<1>2. /\ SetOf(a, "completionHistory") = SetOf(m, "completionHistory")
      /\ \A k : k \notin {"completions", "lastCompletedAt", "isCompleted"} => Value(a, k) = Value(m, k)
    BY <1>1
<1>3. Schedule(a) = Schedule(m)
    BY <1>2 DEF Schedule
<1>4. Canonical(m) => Canonical(a)
    BY <1>1, <1>2, CanonicalValues
<1> QED
    BY <1>1, <1>2, <1>3, <1>4 DEF Commanded, DoneOnce, a

LEMMA PutHistory ==
    ASSUME NEW m, NEW records
    PROVE  /\ SetOf(With(m, "completionHistory", records), "completionHistory") = records
           /\ \A k : k # "completionHistory" =>
                Value(With(m, "completionHistory", records), k) = Value(m, k)
BY PutValues

LEMMA RescheduleFits ==
    ASSUME NEW m, IsMetadata(m), NEW due \in Dates \union {None}, NEW rule \in {"daily", None},
           NEW reminder \in {"on time", None}, MayChoose(m, due, rule, reminder),
           Schedule(m) # <<due, rule>>
    PROVE  Commanded(m, Scheduled(Archived(m), due, rule, reminder))
<1> DEFINE x == Without(Reopened(m), {"completions"})
           active == SetOf(m, "completionHistory") \union ActiveTaskCompletionRecords(m)
           y == Archived(m)
           patch == [dueDate |-> due, recurrenceRule |-> rule, reminder |-> reminder]
           a == Scheduled(y, due, rule, reminder)
<1>1. /\ IsMetadata(Reopened(m)) /\ ~IsDone(Reopened(m)) /\ Value(Reopened(m), "lastCompletedAt") = None
      /\ \A k : k \notin {"isCompleted", "lastCompletedAt"} => Value(Reopened(m), k) = Value(m, k)
    BY ReopenedValues
<1>2. /\ IsMetadata(x)
      /\ \A k : k # "completions" => Value(x, k) = Value(Reopened(m), k)
    <2>1. IsMetadata(x)
        BY <1>1, LessMetadata
    <2>2. \A k : Value(x, k) = IF k \in {"completions"} THEN None ELSE Value(Reopened(m), k)
        BY LessValues
    <2> QED
        BY <2>1, <2>2
<1>3. active \in SUBSET Records
    BY RecordSets
<1>4. y = With(x, "completionHistory", active)
    BY DEF Archived
<1> HIDE DEF x, active, y
<1>5. /\ IsMetadata(y) /\ SetOf(y, "completionHistory") = active
      /\ \A k : k # "completionHistory" => Value(y, k) = Value(x, k)
    <2>1. active \in Values("completionHistory")
        BY <1>3, KeyValues
    <2>2. IsMetadata(y)
        BY <1>2, <1>4, <2>1, PutMetadata, KeyNames
    <2>3. /\ SetOf(y, "completionHistory") = active
          /\ \A k : k # "completionHistory" => Value(y, k) = Value(x, k)
        BY <1>4, PutHistory
    <2> QED
        BY <2>2, <2>3
<1>6. /\ DOMAIN patch = {"dueDate", "recurrenceRule", "reminder"}
      /\ patch["dueDate"] = due /\ patch["recurrenceRule"] = rule /\ patch["reminder"] = reminder
    OBVIOUS
<1>7. a = Merge(y, patch)
    BY DEF Scheduled
<1> HIDE DEF patch, a
<1>8. Patch(patch)
    <2>1. /\ due \in Values("dueDate") \union {None} /\ rule \in Values("recurrenceRule") \union {None}
          /\ reminder \in Values("reminder") \union {None}
        BY KeyValues
    <2> QED
        BY <1>6, <2>1, KeyNames DEF Patch
<1>9. IsMetadata(a)
    BY <1>5, <1>7, <1>8, MergedMetadata
<1>10. /\ Value(a, "dueDate") = due /\ Value(a, "recurrenceRule") = rule /\ Value(a, "reminder") = reminder
       /\ \A k : k \notin {"dueDate", "recurrenceRule", "reminder"} =>
            Value(a, k) = Value(y, k) /\ SetOf(a, k) = SetOf(y, k)
    BY <1>6, <1>7, MergedValues
<1>11. SetOf(a, "completionHistory") = active
    BY <1>5, <1>10
<1>12. ~IsDone(a) /\ Value(a, "lastCompletedAt") = None
    BY <1>1, <1>2, <1>5, <1>10 DEF IsDone
<1>13. Schedule(a) # Schedule(m)
    BY <1>10 DEF Schedule
<1>14. Canonical(m) => Canonical(a)
    BY <1>9, <1>10, CanonicalValues DEF MayChoose
<1>15. SetOf(m, "completionHistory") \subseteq active /\ ActiveTaskCompletionRecords(m) \subseteq active
    BY DEF active
<1> QED
    BY <1>9, <1>11, <1>12, <1>13, <1>14, <1>15 DEF Commanded, DoneOnce, a, y

LEMMA ReminderFits ==
    ASSUME NEW m, IsMetadata(m), NEW reminder \in {"on time", None},
           MayChoose(m, Value(m, "dueDate"), Value(m, "recurrenceRule"), reminder)
    PROVE  Commanded(m, Merge(m, [reminder |-> reminder]))
<1> DEFINE patch == [reminder |-> reminder]
           a == Merge(m, patch)
<1>1. DOMAIN patch = {"reminder"} /\ patch["reminder"] = reminder
    OBVIOUS
<1> HIDE DEF patch
<1>2. IsMetadata(a)
    <2>1. reminder \in Values("reminder") \union {None}
        BY KeyValues
    <2>2. Patch(patch)
        BY <1>1, <2>1, KeyNames DEF Patch
    <2> QED
        BY <2>2, MergedMetadata
<1>3. /\ Value(a, "reminder") = reminder
      /\ \A k : k # "reminder" => Value(a, k) = Value(m, k) /\ SetOf(a, k) = SetOf(m, k)
    BY <1>1, MergedValues
<1> HIDE DEF a
<1>4. Schedule(a) = Schedule(m)
    BY <1>3 DEF Schedule
<1>5. Canonical(m) => Canonical(a)
    BY <1>2, <1>3, CanonicalValues DEF MayChoose
<1>6. IsDone(a) = IsDone(m) /\ OneOff(a) = OneOff(m)
    <2>1. IsDone(a) = IsDone(m)
        BY <1>3 DEF IsDone
    <2> QED
        BY <1>3, <2>1, OneOffValues
<1>7. DoneOnce(m) => DoneOnce(a)
    BY <1>3, <1>6 DEF DoneOnce
<1> QED
    BY <1>2, <1>3, <1>4, <1>5, <1>6, <1>7 DEF Commanded, a, patch

-------------------------------------------------------------------------------
(* TaskBlocks: the steps keep the types and the completions.               *)

LEMMA ProjectedMetadata ==
    ASSUME BlockTypeOK, NEW d \in Devices, NEW n \in Nat, n <= Len(outbox[d])
    PROVE  IsMetadata(Projected(snapshot[d], outbox[d], n))
<1> DEFINE Bad == {k \in 0..n : ~IsMetadata(Projected(snapshot[d], outbox[d], k))}
<1>1. SUFFICES ASSUME Bad # {} PROVE FALSE
    OBVIOUS
<1>2. PICK k \in Bad : \A j \in Bad : k <= j
    <2>1. Bad \subseteq Nat
        OBVIOUS
    <2> QED
        BY <1>1, <2>1, LeastNumber
<1>3. k # 0
    BY <1>2, ProjectedStarts DEF BlockTypeOK
<1>4. PICK j \in Nat : k = j + 1
    BY <1>2, <1>3
<1>5. IsMetadata(Projected(snapshot[d], outbox[d], j))
    BY <1>2, <1>4, j \in 0..n, ~(k <= j)
<1>6. Operation(outbox[d][k])
    <2>1. k \in DOMAIN outbox[d]
        BY <1>2, <1>3 DEF BlockTypeOK
    <2> QED
        BY <2>1 DEF BlockTypeOK
<1>7. Projected(snapshot[d], outbox[d], k) = ClientApply(Projected(snapshot[d], outbox[d], j), outbox[d][k])
    BY <1>4, ProjectedSteps
<1> QED
    BY <1>2, <1>5, <1>6, <1>7, ClientMetadata

LEMMA LocalMetadata ==
    ASSUME BlockTypeOK, NEW d \in Devices
    PROVE  IsMetadata(Local(d)) /\ Len(outbox[d]) \in Nat /\ OperationRows(outbox[d])
<1>1. OperationRows(outbox[d]) /\ Len(outbox[d]) \in Nat
    BY DEF BlockTypeOK, OperationRows
<1> QED
    BY <1>1, ProjectedMetadata DEF Local

\* Each command records the difference to metadata it is fit for.
LEMMA CommandsFit ==
    ASSUME BlockTypeOK, NEW d \in Devices,
           CompleteTask(d) \/ ReopenTask(d) \/ Reschedule(d) \/ ChangeReminder(d)
    PROVE  used' \subseteq Instants /\ \E after : Edit(d, after) /\ Commanded(Local(d), after)
<1> DEFINE m == Local(d)
<1>1. IsMetadata(m) /\ used \subseteq Instants
    BY LocalMetadata DEF BlockTypeOK
<1>2. CASE CompleteTask(d)
    <2>1. PICK at \in Instants \ used :
            /\ used' = used \union {at}
            /\ IF Value(m, "dueDate") # None /\ Value(m, "recurrenceRule") # None
               THEN \E day \in Dates :
                    /\ OnDay(m, day) = {}
                    /\ Edit(d, With(ApplyCompleteTaskOccurrence(m, Complete(day, at)), "isCompleted", FALSE))
               ELSE /\ ~IsDone(m)
                    /\ Edit(d, With(With(m, "lastCompletedAt", at), "isCompleted", TRUE))
        BY <1>2 DEF CompleteTask
    <2>2. CASE Value(m, "dueDate") # None /\ Value(m, "recurrenceRule") # None
        <3>1. PICK day \in Dates :
                Edit(d, With(ApplyCompleteTaskOccurrence(m, Complete(day, at)), "isCompleted", FALSE))
            BY <2>1, <2>2
        <3> HIDE DEF m
        <3> QED
            BY <1>1, <2>1, <2>2, <3>1, CompleteOccurrenceFits DEF m
    <2>3. CASE ~(Value(m, "dueDate") # None /\ Value(m, "recurrenceRule") # None)
        <3>1. ~IsDone(m) /\ Edit(d, With(With(m, "lastCompletedAt", at), "isCompleted", TRUE))
            BY <2>1, <2>3
        <3>2. Commanded(m, With(With(m, "lastCompletedAt", at), "isCompleted", TRUE))
            BY <1>1, <2>3, <3>1, CompleteOnceFits
        <3> QED
            BY <1>1, <2>1, <3>1, <3>2
    <2> QED
        BY <2>2, <2>3
<1>3. CASE ReopenTask(d)
    <2>1. UNCHANGED used
        BY <1>3 DEF ReopenTask
    <2>2. ASSUME NEW r \in SetOf(m, "completions"),
                 Edit(d, Reopened(ApplyCompleteTaskOccurrence(m, Complete(r.day, None))))
          PROVE  \E after : Edit(d, after) /\ Commanded(m, after)
        <3> DEFINE o == Complete(r.day, None)
                   x == ApplyCompleteTaskOccurrence(m, o)
        <3>1. o.day \in Dates /\ o.at \in Instants \union {None}
            <4>1. r \in Occurrences
                BY <1>1, RecordSets
            <4> QED
                BY <4>1 DEF Occurrences, Records, Record, Complete
        <3> HIDE DEF o
        <3>2. IsMetadata(x)
            BY <1>1, <3>1, OccurrenceMetadata
        <3>3. /\ SetOf(x, "completionHistory") = SetOf(m, "completionHistory")
              /\ \A key : key # "completions" => Value(x, key) = Value(m, key)
            BY OccurrenceCompletes
        <3> HIDE DEF x, m
        <3>4. Commanded(m, Reopened(x))
            BY <1>1, <3>2, <3>3, ReopenFits
        <3> QED
            BY <2>2, <3>4 DEF x, o
    <2>3. ASSUME Edit(d, Reopened(m))
          PROVE  \E after : Edit(d, after) /\ Commanded(m, after)
        BY <1>1, <2>3, ReopenFits
    <2> QED
        BY <1>1, <1>3, <2>1, <2>2, <2>3 DEF ReopenTask
<1>4. CASE Reschedule(d)
    <2>1. PICK due \in Dates \union {None}, rule \in {"daily", None}, reminder \in {"on time", None} :
            /\ MayChoose(m, due, rule, reminder)
            /\ Schedule(m) # <<due, rule>>
            /\ Edit(d, Scheduled(Archived(m), due, rule, reminder))
            /\ UNCHANGED used
        BY <1>4 DEF Reschedule
    <2> HIDE DEF m
    <2> QED
        BY <1>1, <2>1, RescheduleFits DEF m
<1>5. CASE ChangeReminder(d)
    <2>1. PICK reminder \in {"on time", None} :
            /\ MayChoose(m, Value(m, "dueDate"), Value(m, "recurrenceRule"), reminder)
            /\ Edit(d, Merge(m, [reminder |-> reminder]))
            /\ UNCHANGED used
        BY <1>5 DEF ChangeReminder
    <2> HIDE DEF m
    <2> QED
        BY <1>1, <2>1, ReminderFits DEF m
<1> QED
    BY <1>2, <1>3, <1>4, <1>5

LEMMA EditTypes ==
    ASSUME BlockTypeOK, NEW d \in Devices, NEW after, IsMetadata(after), Edit(d, after), used' \subseteq Instants
    PROVE  /\ BlockTypeOK'
           /\ outbox' = [outbox EXCEPT ![d] = outbox[d] \o Diff(Local(d), after)]
           /\ OperationRows(Diff(Local(d), after))
<1> DEFINE more == Diff(Local(d), after)
<1>1. /\ outbox' = [outbox EXCEPT ![d] = outbox[d] \o more]
      /\ edits < MaxEdits /\ edits' = edits + 1
      /\ UNCHANGED <<block, snapshot, sent, stale, kept>>
    BY DEF Edit, history
<1>2. OperationRows(more)
    BY LocalMetadata, DiffRows
<1> HIDE DEF more
<1>3. OperationRows(outbox[d] \o more) /\ Len(outbox[d]) <= Len(outbox[d] \o more)
    <2>1. OperationRows(outbox[d] \o more)
        BY <1>2, LocalMetadata, RowsJoined
    <2> QED
        BY <1>2, <2>1, LocalMetadata DEF OperationRows
<1>4. DOMAIN outbox' = Devices /\ \A e \in Devices : OperationRows(outbox'[e]) /\ Len(outbox[e]) <= Len(outbox'[e])
    <2>1. DOMAIN outbox = Devices
        BY DEF BlockTypeOK
    <2> QED
        BY <1>1, <1>3, <2>1, LocalMetadata
<1>5. edits' \in 0..MaxEdits
    BY <1>1, TaskBlocksAssumption DEF BlockTypeOK
<1>6. \A e \in Devices : sent'[e] <= Len(outbox'[e])
    <2> TAKE e \in Devices
    <2>1. sent[e] \in Nat /\ sent[e] <= Len(outbox[e]) /\ Len(outbox[e]) \in Nat /\ Len(outbox'[e]) \in Nat
        BY <1>4, LocalMetadata DEF BlockTypeOK, OperationRows
    <2> QED
        BY <1>1, <1>4, <2>1
<1>7. BlockTypeOK'
    BY <1>1, <1>4, <1>5, <1>6 DEF BlockTypeOK, OperationRows
<1> QED
    BY <1>1, <1>2, <1>7 DEF more

LEMMA SyncTypes ==
    ASSUME BlockInv, NEW d \in Devices, Sync(d)
    PROVE  BlockInv'
<1> DEFINE s == Synced(d)
           rest == SubSeq(outbox[d], sent[d] + 1, Len(outbox[d]))
<1>1. /\ BlockTypeOK /\ OperationRows(outbox[d]) /\ Len(outbox[d]) \in Nat
      /\ sent[d] \in Nat /\ sent[d] <= Len(outbox[d])
    BY LocalMetadata DEF BlockInv, BlockTypeOK
<1>2. /\ s.ok /\ block' = s.meta /\ kept' = s.kept
      /\ snapshot' = [snapshot EXCEPT ![d] = s.meta]
      /\ outbox' = [outbox EXCEPT ![d] = rest] /\ sent' = [sent EXCEPT ![d] = 0]
      /\ stale' = (IF rest = <<>> THEN stale \ {d} ELSE IF block = snapshot[d] THEN stale ELSE stale \union {d})
      /\ UNCHANGED <<edits, used>>
    BY DEF Sync, Accepts
<1>3. Keeping(s)
    BY <1>1, <1>2, TransactionKeeps DEF Synced
<1>4. OperationRows(rest)
    BY <1>1, RowsLeft
<1>5. CompletionsSurvive'
    BY <1>2, <1>3 DEF Keeping, CompletionsSurvive
<1> HIDE DEF s, rest
<1>6. /\ DOMAIN outbox' = Devices /\ \A e \in Devices : OperationRows(outbox'[e])
      /\ \A e \in Devices \ {d} : outbox'[e] = outbox[e]
      /\ outbox'[d] = rest
    BY <1>1, <1>2, <1>4, LocalMetadata DEF BlockTypeOK
<1>7. /\ sent' \in [Devices -> Nat] /\ sent'[d] = 0
      /\ \A e \in Devices \ {d} : sent'[e] = sent[e]
    BY <1>1, <1>2 DEF BlockTypeOK
<1>8. \A e \in Devices : sent'[e] <= Len(outbox'[e])
    <2>1. 0 <= Len(rest)
        BY <1>4 DEF OperationRows
    <2> QED
        BY <1>1, <1>6, <1>7, <2>1 DEF BlockTypeOK
<1>9. DOMAIN snapshot' = Devices /\ \A e \in Devices : IsMetadata(snapshot'[e])
    BY <1>1, <1>2, <1>3 DEF BlockTypeOK, Keeping
<1>10. BlockTypeOK'
    BY <1>1, <1>2, <1>3, <1>6, <1>7, <1>8, <1>9 DEF BlockTypeOK, OperationRows, Keeping
<1> QED
    BY <1>5, <1>10 DEF BlockInv

LEMMA BlockStarts == BlockInit => BlockInv
<1> SUFFICES ASSUME BlockInit PROVE BlockInv
    OBVIOUS
<1>1. IsMetadata(block)
    <2>1. PICK checked \in BOOLEAN : block = [isCompleted |-> checked]
        BY DEF BlockInit
    <2>2. DOMAIN block = {"isCompleted"} /\ block["isCompleted"] \in Values("isCompleted")
        BY <2>1, KeyValues
    <2> QED
        BY <2>2, KeyNames DEF IsMetadata
<1>2. \A d \in Devices : outbox[d] = <<>> /\ snapshot[d] = block /\ sent[d] = 0
    BY DEF BlockInit
<1>3. BlockTypeOK
    BY <1>1, <1>2, TaskBlocksAssumption DEF BlockInit, BlockTypeOK
<1> QED
    BY <1>3 DEF BlockInit, BlockInv, CompletionsSurvive

LEMMA BlockStep == BlockInv /\ [BlockNext]_blockVars => BlockInv'
<1> SUFFICES ASSUME BlockInv, [BlockNext]_blockVars PROVE BlockInv'
    OBVIOUS
<1>1. BlockTypeOK
    BY DEF BlockInv
<1>2. ASSUME NEW d \in Devices, CompleteTask(d) \/ ReopenTask(d) \/ Reschedule(d) \/ ChangeReminder(d)
      PROVE  BlockInv'
    <2>1. PICK after : Edit(d, after) /\ Commanded(Local(d), after) /\ used' \subseteq Instants
        BY <1>1, <1>2, CommandsFit
    <2>2. BlockTypeOK'
        BY <1>1, <2>1, EditTypes DEF Commanded
    <2>3. UNCHANGED <<block, kept>>
        BY <2>1 DEF Edit, history
    <2> QED
        BY <2>2, <2>3 DEF BlockInv, CompletionsSurvive
<1>3. ASSUME NEW d \in Devices, StartSync(d)
      PROVE  BlockInv'
    <2>1. /\ sent' = [sent EXCEPT ![d] = Len(outbox[d])]
          /\ UNCHANGED <<block, snapshot, outbox, stale, kept, edits, used>>
        BY <1>3 DEF StartSync, history
    <2>2. Len(outbox[d]) \in Nat
        BY <1>1, LocalMetadata
    <2>3. BlockTypeOK'
        BY <1>1, <2>1, <2>2 DEF BlockTypeOK
    <2> QED
        BY <2>1, <2>3 DEF BlockInv, CompletionsSurvive
<1>4. ASSUME NEW d \in Devices, Poll(d)
      PROVE  BlockInv'
    <2>1. /\ snapshot' = [snapshot EXCEPT ![d] = block]
          /\ stale' = (IF outbox[d] = <<>> THEN stale ELSE stale \union {d})
          /\ UNCHANGED <<block, outbox, sent, kept, edits, used>>
        BY <1>4 DEF Poll
    <2>2. BlockTypeOK'
        BY <1>1, <2>1 DEF BlockTypeOK
    <2> QED
        BY <2>1, <2>2 DEF BlockInv, CompletionsSurvive
<1>5. CASE UNCHANGED blockVars
    BY <1>5 DEF blockVars, history, BlockInv, BlockTypeOK, CompletionsSurvive
<1> QED
    BY <1>2, <1>3, <1>4, <1>5, SyncTypes DEF BlockNext

\* Completions that the server accepted and nobody took back are never lost,
\* whatever patches devices make of what metadata, however old.
THEOREM BlockInvariant == BlockSpec => []BlockInv
BY BlockStarts, BlockStep, PTL DEF BlockSpec

-------------------------------------------------------------------------------
(* TaskBlocks: the edits of one device alone are accepted.                 *)

\* Completions apart, two tasks are the same.
Alike(m, n) == \A key \in Keys \ {"completions"} : Value(m, key) = Value(n, key) /\ SetOf(m, key) = SetOf(n, key)

LEMMA AlikeTasks ==
    ASSUME NEW m, NEW n, IsMetadata(m), IsMetadata(n), Alike(m, n)
    PROVE  /\ Schedule(m) = Schedule(n) /\ IsDone(m) = IsDone(n)
           /\ Value(m, "lastCompletedAt") = Value(n, "lastCompletedAt")
           /\ Value(m, "recurrenceRule") = Value(n, "recurrenceRule")
           /\ SetOf(m, "completionHistory") = SetOf(n, "completionHistory")
           /\ OneOff(m) = OneOff(n)
           /\ Canonical(m) <=> Canonical(n)
           /\ DoneOnce(m) <=> DoneOnce(n)
<1>1. /\ \A key \in {"dueDate", "recurrenceRule", "reminder", "isCompleted", "lastCompletedAt"} :
            Value(m, key) = Value(n, key)
      /\ SetOf(m, "completionHistory") = SetOf(n, "completionHistory")
    BY KeyNames DEF Alike
<1>2. IsDone(m) = IsDone(n)
    BY <1>1 DEF IsDone
<1>3. OneOff(m) = OneOff(n)
    BY <1>1, <1>2, OneOffValues
<1>4. Canonical(m) <=> Canonical(n)
    BY <1>1, CanonicalValues
<1> QED
    BY <1>1, <1>2, <1>3, <1>4 DEF Schedule, DoneOnce

LEMMA OccurrenceAlike ==
    ASSUME NEW m, NEW o
    PROVE  Alike(ApplyCompleteTaskOccurrence(m, o), m)
<1> DEFINE a == ApplyCompleteTaskOccurrence(m, o)
<1>1. /\ DOMAIN a = DOMAIN m \union {"completions"}
      /\ \A key \in DOMAIN m : key # "completions" => a[key] = m[key]
    BY OccurrenceKeys
<1> HIDE DEF a
<1>2. \A key \in Keys \ {"completions"} : Value(a, key) = Value(m, key) /\ SetOf(a, key) = SetOf(m, key)
    BY <1>1 DEF Value, SetOf
<1> QED
    BY <1>2 DEF Alike, a

\* What an edit records of the keys of a task, beside its completions.
PatchOf(before, after) ==
    LET other == (DOMAIN before \union DOMAIN after) \ {"completions"}
        cleared == IF Schedule(before) = Schedule(after) THEN {} ELSE {"completions"}
    IN [key \in other \union cleared |-> IF key \in cleared THEN None ELSE Value(after, key)]

Patching(patch) == [kind |-> "set_block_metadata", patch |-> patch]

LEMMA MetadataPatch ==
    ASSUME NEW before, NEW after
    PROVE  \/ Schedule(before) = Schedule(after) /\ MetadataOperations(before, after) = <<>>
           \/ MetadataOperations(before, after) = <<Patching(PatchOf(before, after))>>
BY DEF MetadataOperations, PatchOf, Patching

LEMMA PatchKeys ==
    ASSUME NEW before, NEW after
    PROVE  /\ \A key : key # "completions" =>
                /\ key \in DOMAIN PatchOf(before, after) <=> key \in DOMAIN before \/ key \in DOMAIN after
                /\ key \in DOMAIN PatchOf(before, after) => PatchOf(before, after)[key] = Value(after, key)
           /\ "completions" \in DOMAIN PatchOf(before, after) <=> Schedule(before) # Schedule(after)
           /\ Schedule(before) # Schedule(after) => PatchOf(before, after)["completions"] = None
BY DEF PatchOf

\* The patch makes of the task what the edit made of it.
LEMMA PatchMakes ==
    ASSUME NEW m, IsMetadata(m), NEW after, IsMetadata(after), NEW x, IsMetadata(x), Alike(x, m)
    PROVE  LET a == Merge(x, PatchOf(m, after))
           IN  /\ IsMetadata(a) /\ Alike(a, after)
               /\ Schedule(m) = Schedule(after) => SetOf(a, "completions") = SetOf(x, "completions")
               /\ Schedule(m) # Schedule(after) => "completions" \notin DOMAIN a
<1> DEFINE patch == PatchOf(m, after)
           a == Merge(x, patch)
<1>1. /\ \A key : key # "completions" =>
            /\ key \in DOMAIN patch <=> key \in DOMAIN m \/ key \in DOMAIN after
            /\ key \in DOMAIN patch => patch[key] = Value(after, key)
      /\ "completions" \in DOMAIN patch <=> Schedule(m) # Schedule(after)
      /\ Schedule(m) # Schedule(after) => patch["completions"] = None
    BY PatchKeys
<1> HIDE DEF patch
<1>2. /\ \A k : Value(a, k) = IF k \in DOMAIN patch THEN patch[k] ELSE Value(x, k)
      /\ \A k : SetOf(a, k) = IF k \in DOMAIN patch THEN IF patch[k] = None THEN {} ELSE patch[k]
                              ELSE SetOf(x, k)
    BY MergedValues
<1>3. Patch(patch)
    <2>1. DOMAIN patch \subseteq Keys
        BY <1>1, KeyNames DEF IsMetadata
    <2>2. \A key \in DOMAIN patch : patch[key] \in Values(key) \union {None}
        BY <1>1 DEF IsMetadata, Value
    <2> QED
        BY <2>1, <2>2 DEF Patch
<1>4. IsMetadata(a)
    BY <1>3, MergedMetadata
<1>5. "completions" \in DOMAIN a <=> IF "completions" \in DOMAIN patch THEN patch["completions"] # None
                                     ELSE "completions" \in DOMAIN x
    BY MergedKeys
<1> HIDE DEF a
<1>6. ASSUME NEW key \in Keys \ {"completions"}
      PROVE  Value(a, key) = Value(after, key) /\ SetOf(a, key) = SetOf(after, key)
    <2>1. CASE key \in DOMAIN patch
        <3>1. Value(a, key) = Value(after, key)
            BY <1>1, <1>2, <2>1
        <3>2. Value(after, key) = None <=> key \notin DOMAIN after
            BY TaskBlocksAssumption DEF IsMetadata, Value
        <3>3. SetOf(after, key) = IF Value(after, key) = None THEN {} ELSE Value(after, key)
            BY <3>2 DEF SetOf, Value
        <3> QED
            BY <1>1, <1>2, <2>1, <3>1, <3>3
    <2>2. CASE key \notin DOMAIN patch
        <3>1. key \notin DOMAIN m /\ key \notin DOMAIN after
            BY <1>1, <2>2
        <3>2. Value(x, key) = None /\ SetOf(x, key) = {}
            BY <3>1 DEF Alike, Value, SetOf
        <3> QED
            BY <1>2, <2>2, <3>1, <3>2 DEF Value, SetOf
    <2> QED
        BY <2>1, <2>2
<1> QED
    BY <1>1, <1>2, <1>4, <1>5, <1>6 DEF Alike, a, patch

\* The server finds nothing wrong with it.
LEMMA PatchIsOwn ==
    ASSUME NEW m, IsMetadata(m), Canonical(m), NEW after, Commanded(m, after),
           NEW x, IsMetadata(x), Alike(x, m), Schedule(m) # Schedule(after) => x = m
    PROVE  Own(x, Patching(PatchOf(m, after)))
<1> DEFINE patch == PatchOf(m, after)
           a == Merge(x, patch)
           archived == SetOf(a, "completionHistory")
<1>1. /\ IsMetadata(a) /\ Alike(a, after)
      /\ Schedule(m) = Schedule(after) => SetOf(a, "completions") = SetOf(x, "completions")
      /\ Schedule(m) # Schedule(after) => "completions" \notin DOMAIN a
      /\ "completions" \in DOMAIN patch <=> Schedule(m) # Schedule(after)
    BY PatchMakes, PatchKeys DEF Commanded
<1> HIDE DEF patch
<1>2. /\ Schedule(x) = Schedule(m) /\ OneOff(x) = OneOff(m)
      /\ Value(x, "recurrenceRule") = Value(m, "recurrenceRule")
      /\ IsDone(x) = IsDone(m) /\ Value(x, "lastCompletedAt") = Value(m, "lastCompletedAt")
      /\ SetOf(x, "completionHistory") = SetOf(m, "completionHistory")
      /\ DoneOnce(x) <=> DoneOnce(m)
    BY AlikeTasks
<1>3. /\ Schedule(a) = Schedule(after) /\ OneOff(a) = OneOff(after)
      /\ IsDone(a) = IsDone(after) /\ Value(a, "lastCompletedAt") = Value(after, "lastCompletedAt")
      /\ archived = SetOf(after, "completionHistory")
      /\ Canonical(a) <=> Canonical(after)
      /\ DoneOnce(a) <=> DoneOnce(after)
    BY <1>1, AlikeTasks DEF Commanded
<1> HIDE DEF a
<1>4. /\ SetOf(m, "completionHistory") \subseteq archived
      /\ Canonical(a) /\ (DoneOnce(m) => DoneOnce(a))
      /\ Schedule(a) = Schedule(m) /\ DoneOnce(m) =>
            OneOff(m) \subseteq OneOff(a) \/ (~IsDone(a) /\ Value(a, "lastCompletedAt") = None)
      /\ Schedule(a) # Schedule(m) =>
            /\ ActiveTaskCompletionRecords(m) \subseteq archived
            /\ ~IsDone(a) /\ Value(a, "lastCompletedAt") = None
    BY <1>3 DEF Commanded
<1> HIDE DEF archived
<1>5. ASSUME DoneOnce(x)
      PROVE  ValidTransition(x, patch, {})
    <2>1. ASSUME NEW r \in ActiveTaskCompletionRecords(x) \ archived
          PROVE  \/ r \in ActiveTaskCompletionRecords(a)
                 \/ Schedule(x) = Schedule(a) /\ r \in OneOff(x) /\ IsReopened(x, a)
        <3>1. CASE Schedule(x) # Schedule(a)
            BY <1>2, <1>3, <1>4, <2>1, <3>1
        <3>2. CASE Schedule(x) = Schedule(a) /\ r \in SetOf(x, "completions")
            BY <1>1, <1>2, <1>3, <3>2 DEF ActiveTaskCompletionRecords
        <3>3. CASE Schedule(x) = Schedule(a) /\ r \in OneOff(x)
            <4>1. Value(x, "recurrenceRule") = None
                BY <1>5, <3>3 DEF DoneOnce, OneOff
            <4> QED
                BY <1>2, <1>4, <1>5, <3>3, <4>1 DEF ActiveTaskCompletionRecords, IsReopened
        <3> QED
            BY <3>1, <3>2, <3>3 DEF ActiveTaskCompletionRecords
    <2>2. ~(IsDone(x) /\ Value(x, "lastCompletedAt") = None)
        BY <1>5 DEF DoneOnce
    <2>3. Schedule(x) # Schedule(a) =>
            /\ ActiveTaskCompletionRecords(x) \union {} \subseteq archived
            /\ ~IsDone(a) /\ Value(a, "lastCompletedAt") = None
            /\ "completions" \notin DOMAIN a
        BY <1>1, <1>2, <1>3, <1>4
    <2> QED
        BY <1>2, <1>4, <2>1, <2>2, <2>3 DEF ValidTransition, a, archived
<1>6. ClientApply(x, Patching(patch)) = a /\ Patching(patch).patch = patch
    BY DEF ClientApply, Patching, a
<1>7. /\ Canonical(a)
      /\ Schedule(a) # Schedule(x) => "completions" \in DOMAIN patch
      /\ DoneOnce(x) => DoneOnce(a) /\ ValidTransition(x, patch, {})
    BY <1>1, <1>2, <1>3, <1>4, <1>5
<1> QED
    BY <1>6, <1>7 DEF Own, a, patch

LEMMA OccurrenceIsOwn ==
    ASSUME NEW m, Canonical(m), NEW o, o.kind = "complete_task_occurrence"
    PROVE  Own(m, o)
<1>1. ClientApply(m, o) = ApplyCompleteTaskOccurrence(m, o)
    BY DEF ClientApply
<1>2. DOMAIN ApplyCompleteTaskOccurrence(m, o) = DOMAIN m \union {"completions"}
    BY OccurrenceKeys
<1> QED
    BY <1>1, <1>2 DEF Own, Canonical

\* Each operation of an edit is judged on the metadata the ones before it
\* have left.
LEMMA DiffIsOwn ==
    ASSUME NEW m, IsMetadata(m), Canonical(m), NEW after, Commanded(m, after),
           NEW j \in DOMAIN Diff(m, after)
    PROVE  Own(Projected(m, Diff(m, after), j - 1), Diff(m, after)[j])
<1> DEFINE diff == Diff(m, after)
           o == Patching(PatchOf(m, after))
<1> SUFFICES Own(Projected(m, diff, j - 1), diff[j])
    OBVIOUS
<1>0. j \in DOMAIN diff
    OBVIOUS
<1>1. CASE Schedule(m) # Schedule(after)
    <2>1. diff = <<>> \o <<o>>
        BY <1>1, MetadataPatch DEF Diff
    <2>2. j = 1 /\ diff[j] = o
        BY <2>1
    <2>3. Projected(m, diff, j - 1) = m
        BY <2>2, 1 - 1 = 0, ProjectedStarts
    <2>4. Own(m, o)
        BY <1>1, PatchIsOwn DEF Alike
    <2> QED
        BY <2>2, <2>3, <2>4
<1>2. CASE Schedule(m) = Schedule(after)
    <2> DEFINE comp == CompletionOperations(m, after)
               rest == MetadataOperations(m, after)
    <2>1. /\ comp \in Seq(ToSet(comp))
          /\ \A i \in DOMAIN comp : Operation(comp[i]) /\ comp[i].kind = "complete_task_occurrence"
        BY CompletionRows DEF Commanded, OperationRows
    <2>2. rest = <<>> \/ rest = <<o>>
        BY MetadataPatch
    <2>3. diff = comp \o rest
        BY <1>2 DEF Diff
    <2> HIDE DEF comp, rest, diff, o
    <2> DEFINE c == Len(comp)
    <2>4. /\ c \in Nat
          /\ \A i \in 1..c : diff[i] = comp[i] /\ i \in DOMAIN comp
          /\ j \in 1..c \/ (j = c + 1 /\ diff[j] = o)
        <3>1. c \in Nat /\ DOMAIN comp = 1..c
            BY <2>1
        <3>2. CASE rest = <<>>
            <4>1. DOMAIN diff = 1..c /\ \A i \in 1..c : diff[i] = comp[i]
                BY <2>1, <2>3, <3>1, <3>2
            <4> HIDE DEF c
            <4> QED
                BY <1>0, <3>1, <4>1
        <3>3. CASE rest = <<o>>
            <4>1. DOMAIN diff = 1..(c + 1) /\ diff[c + 1] = o /\ \A i \in 1..c : diff[i] = comp[i]
                BY <2>1, <2>3, <3>1, <3>3
            <4> HIDE DEF c
            <4>2. j \in 1..c \/ j = c + 1
                BY <1>0, <3>1, <4>1
            <4> QED
                BY <3>1, <4>1, <4>2
        <3> QED
            BY <2>2, <3>2, <3>3
    <2> HIDE DEF c
    <2> DEFINE Bad == {k \in 0..c : ~(IsMetadata(Projected(m, diff, k)) /\ Alike(Projected(m, diff, k), m))}
    <2>5. ASSUME Bad # {} PROVE FALSE
        <3>1. PICK k \in Bad : \A i \in Bad : k <= i
            <4>1. Bad \subseteq Nat
                BY <2>4
            <4> QED
                BY <2>5, <4>1, LeastNumber
        <3>2. k # 0
            BY <3>1, ProjectedStarts DEF Alike
        <3>3. PICK i \in Nat : k = i + 1
            BY <2>4, <3>1, <3>2
        <3> DEFINE x == Projected(m, diff, i)
        <3>4. IsMetadata(x) /\ Alike(x, m)
            BY <2>4, <3>1, <3>3, i \in 0..c, ~(k <= i)
        <3>5. Operation(diff[k]) /\ diff[k].kind = "complete_task_occurrence"
            BY <2>1, <2>4, <3>1, <3>2
        <3>6. Projected(m, diff, k) = ClientApply(x, diff[k])
            BY <3>3, ProjectedSteps
        <3> HIDE DEF x
        <3>7. ClientApply(x, diff[k]) = ApplyCompleteTaskOccurrence(x, diff[k])
            BY <3>5 DEF ClientApply
        <3>8. Alike(ApplyCompleteTaskOccurrence(x, diff[k]), m)
            BY <3>4, OccurrenceAlike DEF Alike
        <3>9. IsMetadata(ClientApply(x, diff[k]))
            BY <3>4, <3>5, ClientMetadata
        <3> QED
            BY <3>1, <3>6, <3>7, <3>8, <3>9
    <2> DEFINE x == Projected(m, diff, j - 1)
    <2>6. IsMetadata(x) /\ Alike(x, m)
        <3>1. j - 1 \in 0..c
            BY <2>4
        <3> QED
            BY <2>5, <3>1
    <2>7. Canonical(x)
        BY <2>6, AlikeTasks
    <2> HIDE DEF x
    <2>8. CASE j \in 1..c
        BY <2>1, <2>4, <2>7, <2>8, OccurrenceIsOwn DEF x
    <2>9. CASE j = c + 1 /\ diff[j] = o
        BY <1>2, <2>6, <2>9, PatchIsOwn DEF x, o
    <2> QED
        BY <2>4, <2>8, <2>9 DEF x
<1> QED
    BY <1>1, <1>2

LEMMA OwnIsCanonical ==
    ASSUME BlockTypeOK, OwnEdits, NEW d \in Devices, d \notin stale, NEW n \in Nat, n <= Len(outbox[d])
    PROVE  Canonical(Projected(snapshot[d], outbox[d], n))
<1>1. CASE n = 0
    BY <1>1, ProjectedStarts DEF OwnEdits
<1>2. CASE n # 0
    <2>1. PICK k \in Nat : n = k + 1
        BY <1>2
    <2>2. n \in DOMAIN outbox[d] /\ n - 1 = k
        BY <2>1 DEF BlockTypeOK
    <2>3. Own(Projected(snapshot[d], outbox[d], k), outbox[d][n])
        BY <2>2 DEF OwnEdits
    <2>4. Projected(snapshot[d], outbox[d], n) = ClientApply(Projected(snapshot[d], outbox[d], k), outbox[d][n])
        BY <2>1, ProjectedSteps
    <2> QED
        BY <2>3, <2>4 DEF Own
<1> QED
    BY <1>1, <1>2

\* An edit leaves the outbox as it was, and adds what is its own.
LEMMA EditIsOwn ==
    ASSUME BlockTypeOK, OwnEdits, NEW d \in Devices, NEW after, Commanded(Local(d), after), Edit(d, after)
    PROVE  OwnEdits'
<1> DEFINE m == Local(d)
           ops == outbox[d]
           diff == Diff(m, after)
           new == ops \o diff
           L == Len(ops)
<1>1. UNCHANGED <<block, snapshot, stale>> /\ outbox' = [outbox EXCEPT ![d] = new]
    BY DEF Edit, history
<1>2. L \in Nat /\ OperationRows(ops) /\ IsMetadata(m) /\ OperationRows(diff) /\ Len(diff) \in Nat
    <2>1. L \in Nat /\ OperationRows(ops) /\ IsMetadata(m)
        BY LocalMetadata
    <2>2. OperationRows(diff)
        BY <2>1, DiffRows DEF Commanded
    <2> QED
        BY <2>1, <2>2 DEF OperationRows
<1>3. ASSUME d \notin stale, NEW i \in DOMAIN new
      PROVE  Own(Projected(snapshot[d], new, i - 1), new[i])
    <2>1. i \in 1..(L + Len(diff)) /\ \A k \in 1..L : new[k] = ops[k] /\ k \in DOMAIN ops
        BY <1>2 DEF OperationRows
    <2>2. CASE i <= L
        <3>1. i - 1 \in Nat /\ \A k \in 1..(i - 1) : new[k] = ops[k]
            BY <1>2, <2>1, <2>2
        <3> HIDE DEF new, ops
        <3>2. Projected(snapshot[d], new, i - 1) = Projected(snapshot[d], ops, i - 1)
            BY <3>1, ProjectedPrefix
        <3>3. i \in DOMAIN ops /\ new[i] = ops[i]
            BY <1>2, <2>1, <2>2
        <3>4. Own(Projected(snapshot[d], ops, i - 1), ops[i])
            BY <1>3, <3>3 DEF OwnEdits, ops
        <3> QED
            BY <3>2, <3>3, <3>4
    <2>3. CASE ~(i <= L)
        <3>1. PICK j \in 1..Len(diff) : i = L + j
            <4>1. i - L \in 1..Len(diff) /\ i = L + (i - L)
                BY <1>2, <2>1, <2>3
            <4> QED
                BY <4>1
        <3>2. \A k \in 1..Len(diff) : new[L + k] = diff[k]
            BY <1>2 DEF OperationRows
        <3>3. j - 1 \in Nat /\ i - 1 = L + (j - 1) /\ \A k \in 1..(j - 1) : diff[k] = new[L + k]
            BY <1>2, <3>1, <3>2
        <3>4. m = Projected(snapshot[d], ops, L)
            BY DEF Local
        <3>5. j \in DOMAIN diff
            BY <1>2, <3>1 DEF OperationRows
        <3>6. Canonical(m)
            BY <1>2, <1>3, <3>4, OwnIsCanonical
        <3>7. Own(Projected(m, diff, j - 1), diff[j])
            <4> HIDE DEF m
            <4> QED
                BY <1>2, <3>5, <3>6, DiffIsOwn DEF m
        <3> HIDE DEF m, new, diff, ops, L
        <3>8. Projected(snapshot[d], new, L) = m
            BY <1>2, <2>1, <3>4, ProjectedPrefix
        <3>9. Projected(m, diff, j - 1) = Projected(snapshot[d], new, L + (j - 1))
            <4>1. Projected(Projected(snapshot[d], new, L), diff, j - 1) = Projected(snapshot[d], new, L + (j - 1))
                BY <1>2, <3>3, ProjectedShift
            <4> QED
                BY <3>8, <4>1
        <3> QED
            BY <3>1, <3>2, <3>3, <3>7, <3>9
    <2> QED
        BY <2>2, <2>3
<1> HIDE DEF new
<1>4. DOMAIN outbox = Devices
    BY DEF BlockTypeOK
<1>5. ASSUME NEW e \in Devices \ stale', NEW i \in DOMAIN outbox'[e]
      PROVE  Own(Projected(snapshot'[e], outbox'[e], i - 1), outbox'[e][i])
    <2>1. CASE e = d
        <3>1. outbox'[e] = new /\ snapshot'[e] = snapshot[d] /\ d \notin stale
            BY <1>1, <1>4, <1>5, <2>1
        <3> QED
            BY <1>3, <1>5, <3>1
    <2>2. CASE e # d
        <3>1. outbox'[e] = outbox[e] /\ snapshot'[e] = snapshot[e] /\ e \notin stale
            BY <1>1, <1>4, <1>5, <2>2
        <3> QED
            BY <1>5, <3>1 DEF OwnEdits
    <2> QED
        BY <2>1, <2>2
<1>6. Canonical(block') /\ \A e \in Devices : Canonical(snapshot'[e])
    BY <1>1 DEF OwnEdits
<1> QED
    BY <1>5, <1>6 DEF OwnEdits

\* What the server makes of the operations it accepts is what the device
\* makes of them.
LEMMA TransactionProjects ==
    ASSUME NEW d, NEW n \in Nat, \A i \in 1..n : Operation(outbox[d][i]), Transaction(d, n).ok
    PROVE  Transaction(d, n).meta = Projected(block, outbox[d], n)
<1> DEFINE Bad == {k \in 0..n : Transaction(d, k).ok /\ Transaction(d, k).meta # Projected(block, outbox[d], k)}
<1>1. SUFFICES ASSUME Bad # {} PROVE FALSE
    OBVIOUS
<1>2. PICK k \in Bad : \A j \in Bad : k <= j
    <2>1. Bad \subseteq Nat
        OBVIOUS
    <2> QED
        BY <1>1, <2>1, LeastNumber
<1>3. k # 0
    BY <1>2, TransactionStarts, ProjectedStarts DEF Begun
<1>4. PICK j \in Nat : k = j + 1
    BY <1>2, <1>3
<1> DEFINE s == Transaction(d, j)
           o == outbox[d][k]
<1>5. Transaction(d, k) = ApplyOperation(s, o)
    BY <1>4, TransactionSteps
<1>6. s.ok
    BY <1>2, <1>5 DEF ApplyOperation
<1>7. s.meta = Projected(block, outbox[d], j)
    BY <1>2, <1>4, <1>6, j \in 0..n, ~(j + 1 <= j)
<1>8. Projected(block, outbox[d], k) = ClientApply(s.meta, o)
    BY <1>4, <1>7, ProjectedSteps
<1> HIDE DEF s
<1>9. ApplyOperation(s, o).ok
    BY <1>2, <1>5
<1>10. ApplyOperation(s, o).meta = ClientApply(s.meta, o)
    <2>1. o.kind \in {"complete_task_occurrence", "set_block_metadata"}
        BY <1>2, <1>3 DEF Operation
    <2> HIDE DEF o
    <2>2. CASE o.kind = "complete_task_occurrence"
        BY <1>6, <2>2 DEF ApplyOperation, ClientApply
    <2>3. CASE o.kind = "set_block_metadata"
        BY <1>6, <2>3 DEF ApplyOperation, ClientApply
    <2> QED
        BY <2>1, <2>2, <2>3
<1> QED
    BY <1>2, <1>5, <1>8, <1>10

\* An answer brings the device what it showed, as far as it was sent.
LEMMA SyncIsOwn ==
    ASSUME BlockInv, OwnEdits, NEW d \in Devices, Sync(d)
    PROVE  OwnEdits'
<1> DEFINE s == Synced(d)
           ops == outbox[d]
           n == sent[d]
           rest == SubSeq(ops, n + 1, Len(ops))
<1>1. /\ BlockTypeOK /\ OperationRows(ops) /\ Len(ops) \in Nat /\ n \in Nat /\ n <= Len(ops)
    BY LocalMetadata DEF BlockInv, BlockTypeOK
<1>2. /\ s.ok /\ Canonical(s.meta) /\ block' = s.meta
      /\ snapshot' = [snapshot EXCEPT ![d] = s.meta]
      /\ outbox' = [outbox EXCEPT ![d] = rest]
      /\ stale' = (IF rest = <<>> THEN stale \ {d} ELSE IF block = snapshot[d] THEN stale ELSE stale \union {d})
    BY DEF Sync, Accepts
<1>3. s.meta = Projected(block, ops, n)
    <2>1. \A i \in 1..n : Operation(ops[i])
        BY <1>1 DEF OperationRows
    <2> QED
        BY <1>1, <1>2, <2>1, TransactionProjects DEF Synced
<1>4. DOMAIN outbox = Devices /\ DOMAIN snapshot = Devices
    BY <1>1 DEF BlockTypeOK
<1>5. /\ DOMAIN rest = 1..(Len(ops) - n)
      /\ \A i \in 1..(Len(ops) - n) : rest[i] = ops[n + i] /\ n + i \in DOMAIN ops
    <2> HIDE DEF ops, n
    <2>1. ops \in Seq(ToSet(ops)) /\ Len(ops) \in Nat /\ n \in Nat /\ n <= Len(ops) /\ DOMAIN ops = 1..Len(ops)
        BY <1>1 DEF OperationRows
    <2>2. rest = [i \in 1..((Len(ops) - (n + 1)) + 1) |-> ops[(i + (n + 1)) - 1]]
        BY <2>1
    <2>3. (Len(ops) - (n + 1)) + 1 = Len(ops) - n
        BY <2>1
    <2> HIDE DEF rest
    <2>4. ASSUME NEW i \in 1..(Len(ops) - n)
          PROVE  rest[i] = ops[n + i] /\ n + i \in DOMAIN ops
        <3>1. (i + (n + 1)) - 1 = n + i /\ n + i \in 1..Len(ops)
            BY <2>1
        <3> QED
            BY <2>1, <2>2, <2>3, <3>1
    <2> QED
        BY <2>2, <2>3, <2>4
<1> HIDE DEF s, rest
<1>6. ASSUME d \notin stale', NEW i \in DOMAIN rest
      PROVE  Own(Projected(s.meta, rest, i - 1), rest[i])
    <2>1. rest # <<>>
        BY <1>6
    <2>2. block = snapshot[d] /\ d \notin stale
        BY <1>2, <1>6, <2>1
    <2>3. i - 1 \in Nat /\ n + (i - 1) = (n + i) - 1 /\ \A k \in 1..(i - 1) : rest[k] = ops[n + k]
        <3> HIDE DEF ops, n
        <3>1. i \in 1..(Len(ops) - n) /\ Len(ops) \in Nat /\ n \in Nat
            BY <1>1, <1>5, <1>6
        <3> QED
            BY <1>5, <3>1
    <2> HIDE DEF ops, n
    <2>4. Projected(s.meta, rest, i - 1) = Projected(snapshot[d], ops, n + (i - 1))
        <3>1. Projected(Projected(block, ops, n), rest, i - 1) = Projected(block, ops, n + (i - 1))
            BY <1>1, <2>3, ProjectedShift
        <3> QED
            BY <1>3, <2>2, <3>1
    <2>5. n + i \in DOMAIN ops /\ rest[i] = ops[n + i]
        BY <1>5, <1>6
    <2>6. Own(Projected(snapshot[d], ops, (n + i) - 1), ops[n + i])
        BY <2>2, <2>5 DEF OwnEdits, ops
    <2> QED
        BY <2>3, <2>4, <2>5, <2>6
<1>7. ASSUME NEW e \in Devices \ stale', NEW i \in DOMAIN outbox'[e]
      PROVE  Own(Projected(snapshot'[e], outbox'[e], i - 1), outbox'[e][i])
    <2>1. CASE e = d
        BY <1>2, <1>4, <1>6, <1>7, <2>1
    <2>2. CASE e # d
        <3>1. outbox'[e] = outbox[e] /\ snapshot'[e] = snapshot[e] /\ e \notin stale
            BY <1>2, <1>4, <1>7, <2>2
        <3> QED
            BY <1>7, <3>1 DEF OwnEdits
    <2> QED
        BY <2>1, <2>2
<1>8. Canonical(block') /\ \A e \in Devices : Canonical(snapshot'[e])
    BY <1>2, <1>4 DEF OwnEdits
<1> QED
    BY <1>7, <1>8 DEF OwnEdits

LEMMA OwnStarts == BlockInit => OwnEdits
<1> SUFFICES ASSUME BlockInit PROVE OwnEdits
    OBVIOUS
<1>1. DOMAIN block = {"isCompleted"}
    BY DEF BlockInit
<1>2. \A d \in Devices : snapshot[d] = block /\ DOMAIN outbox[d] = {}
    BY DEF BlockInit
<1> QED
    BY <1>1, <1>2 DEF OwnEdits, Canonical

LEMMA OwnStep == BlockInv /\ OwnEdits /\ [BlockNext]_blockVars => OwnEdits'
<1> SUFFICES ASSUME BlockInv, OwnEdits, [BlockNext]_blockVars PROVE OwnEdits'
    OBVIOUS
<1>1. BlockTypeOK
    BY DEF BlockInv
<1>2. ASSUME NEW d \in Devices, CompleteTask(d) \/ ReopenTask(d) \/ Reschedule(d) \/ ChangeReminder(d)
      PROVE  OwnEdits'
    BY <1>1, <1>2, CommandsFit, EditIsOwn
<1>3. ASSUME NEW d \in Devices, StartSync(d)
      PROVE  OwnEdits'
    BY <1>3 DEF StartSync, history, OwnEdits
<1>4. ASSUME NEW d \in Devices, Poll(d)
      PROVE  OwnEdits'
    <2>1. /\ snapshot' = [snapshot EXCEPT ![d] = block]
          /\ stale' = (IF outbox[d] = <<>> THEN stale ELSE stale \union {d})
          /\ UNCHANGED <<block, outbox>>
        BY <1>4 DEF Poll
    <2>2. DOMAIN snapshot = Devices
        BY <1>1 DEF BlockTypeOK
    <2>3. ASSUME NEW e \in Devices \ stale', NEW i \in DOMAIN outbox'[e]
          PROVE  Own(Projected(snapshot'[e], outbox'[e], i - 1), outbox'[e][i])
        <3>1. e # d
            BY <2>1, <2>3
        <3>2. outbox'[e] = outbox[e] /\ snapshot'[e] = snapshot[e] /\ e \notin stale
            BY <2>1, <2>2, <2>3, <3>1
        <3> QED
            BY <2>3, <3>2 DEF OwnEdits
    <2>4. Canonical(block') /\ \A e \in Devices : Canonical(snapshot'[e])
        BY <2>1, <2>2 DEF OwnEdits
    <2> QED
        BY <2>3, <2>4 DEF OwnEdits
<1>5. CASE UNCHANGED blockVars
    BY <1>5 DEF blockVars, history, OwnEdits
<1> QED
    BY <1>2, <1>3, <1>4, <1>5, SyncIsOwn DEF BlockNext

\* The server goes through an outbox that was made on the metadata it has:
\* what it has removed in this batch, the batch has reopened.
Agreeing(d, n) ==
    /\ Transaction(d, n).ok /\ DoneOnce(Transaction(d, n).meta)
    /\ Transaction(d, n).evidence # {} =>
        \E i \in 1..n : outbox[d][i].kind = "complete_task_occurrence" /\ outbox[d][i].at = None

LEMMA OwnPatchAccepted ==
    ASSUME NEW s, s.ok, DoneOnce(s.meta), NEW o, o.kind = "set_block_metadata", Own(s.meta, o),
           s.evidence = {} \/ "completions" \notin DOMAIN o.patch
    PROVE  LET t == ApplyOperation(s, o)
           IN  t.ok /\ DoneOnce(t.meta) /\ (t.evidence # {} => s.evidence # {})
<1> DEFINE a == Merge(s.meta, o.patch)
<1>1. /\ ApplyOperation(s, o).ok = ValidTransition(s.meta, o.patch, s.evidence)
      /\ ApplyOperation(s, o).meta = a
      /\ ApplyOperation(s, o).evidence = IF Schedule(a) = Schedule(s.meta) THEN s.evidence ELSE {}
    BY DEF ApplyOperation
<1>2. /\ Schedule(a) # Schedule(s.meta) => "completions" \in DOMAIN o.patch
      /\ DoneOnce(a) /\ ValidTransition(s.meta, o.patch, {})
    BY DEF Own
<1>3. ValidTransition(s.meta, o.patch, s.evidence)
    <2>1. CASE s.evidence = {}
        BY <1>2, <2>1
    <2>2. CASE Schedule(a) = Schedule(s.meta)
        <3>1. ~LegacyCompletion(s.meta, o.patch)
            BY <2>2 DEF LegacyCompletion, Schedule
        <3> QED
            BY <1>2, <2>2, <3>1 DEF ValidTransition
    <2> QED
        BY <1>2, <2>1, <2>2
<1> QED
    BY <1>1, <1>2, <1>3

LEMMA OwnOccurrenceAccepted ==
    ASSUME NEW s, s.ok, DoneOnce(s.meta), NEW o, o.kind = "complete_task_occurrence"
    PROVE  LET t == ApplyOperation(s, o)
           IN  t.ok /\ DoneOnce(t.meta) /\ (t.evidence # {} => s.evidence # {} \/ o.at = None)
<1> DEFINE a == ApplyCompleteTaskOccurrence(s.meta, o)
<1>1. /\ ApplyOperation(s, o).ok /\ ApplyOperation(s, o).meta = a
      /\ ApplyOperation(s, o).evidence = s.evidence \union (IF o.at = None THEN OnDay(s.meta, o.day) ELSE {})
    BY DEF ApplyOperation
<1>2. \A key : key # "completions" => Value(a, key) = Value(s.meta, key)
    BY OccurrenceCompletes
<1> HIDE DEF a
<1>3. DoneOnce(a)
    BY <1>2 DEF DoneOnce, IsDone
<1> QED
    BY <1>1, <1>3 DEF a

LEMMA OwnAgree ==
    ASSUME BlockTypeOK, OwnEdits, NEW d \in Devices, d \notin stale, block = snapshot[d], DoneOnce(block),
           ~ReopensAndReschedules(d), NEW n \in Nat, n <= sent[d]
    PROVE  Agreeing(d, n)
<1> DEFINE Bad == {k \in 0..n : ~Agreeing(d, k)}
<1>1. SUFFICES ASSUME Bad # {} PROVE FALSE
    OBVIOUS
<1>2. PICK k \in Bad : \A j \in Bad : k <= j
    <2>1. Bad \subseteq Nat
        OBVIOUS
    <2> QED
        BY <1>1, <2>1, LeastNumber
<1>3. k # 0
    BY <1>2, TransactionStarts DEF Begun, Agreeing
<1>4. PICK j \in Nat : k = j + 1
    BY <1>2, <1>3
<1> DEFINE s == Transaction(d, j)
           o == outbox[d][k]
           t == Transaction(d, k)
<1>5. t = ApplyOperation(s, o)
    BY <1>4, TransactionSteps
<1>6. Agreeing(d, j)
    BY <1>2, <1>4, j \in 0..n, ~(k <= j)
<1>7. k \in 1..sent[d] /\ k \in DOMAIN outbox[d] /\ j \in Nat /\ \A i \in 1..j : i \in 1..sent[d] /\ i < k /\ i \in 1..k
    BY <1>2, <1>3, <1>4 DEF BlockTypeOK
<1>8. Operation(o)
    BY <1>7 DEF BlockTypeOK
<1>9. Own(s.meta, o)
    <2>1. s.meta = Projected(snapshot[d], outbox[d], j)
        <3>1. \A i \in 1..j : Operation(outbox[d][i])
            BY <1>7 DEF BlockTypeOK
        <3> QED
            BY <1>6, <3>1, TransactionProjects DEF Agreeing
    <2> QED
        BY <1>4, <1>7, <2>1, k - 1 = j DEF OwnEdits
<1>10. ~Agreeing(d, k)
    BY <1>2
<1> HIDE DEF s, t
<1>11. s.ok /\ DoneOnce(s.meta) /\ (s.evidence # {} =>
        \E i \in 1..j : outbox[d][i].kind = "complete_task_occurrence" /\ outbox[d][i].at = None)
    BY <1>6 DEF Agreeing, s
<1>12. t.ok /\ DoneOnce(t.meta) /\ (t.evidence # {} =>
        \E i \in 1..k : outbox[d][i].kind = "complete_task_occurrence" /\ outbox[d][i].at = None)
    <2>1. CASE o.kind = "complete_task_occurrence"
        <3>1. t.ok /\ DoneOnce(t.meta) /\ (t.evidence # {} => s.evidence # {} \/ o.at = None)
            BY <1>5, <1>11, <2>1, OwnOccurrenceAccepted
        <3>2. k \in 1..k
            BY <1>7
        <3> QED
            BY <1>7, <1>11, <2>1, <3>1, <3>2
    <2>2. CASE o.kind = "set_block_metadata"
        <3>1. s.evidence = {} \/ "completions" \notin DOMAIN o.patch
            BY <1>7, <1>11, <2>2 DEF ReopensAndReschedules
        <3>2. t.ok /\ DoneOnce(t.meta) /\ (t.evidence # {} => s.evidence # {})
            BY <1>5, <1>9, <1>11, <2>2, <3>1, OwnPatchAccepted
        <3> QED
            BY <1>7, <1>11, <3>2
    <2> QED
        BY <1>8, <2>1, <2>2 DEF Operation
<1> QED
    BY <1>10, <1>12 DEF Agreeing, t

LEMMA OwnAccepted == BlockInv /\ OwnEdits => OwnEditsAreAccepted
<1> SUFFICES ASSUME BlockInv, OwnEdits, NEW d \in Devices, sent[d] > 0, d \notin stale, block = snapshot[d],
                    ~ReopensAndReschedules(d), DoneOnce(block)
             PROVE  Accepts(d)
    BY DEF OwnEditsAreAccepted, DoneOnce
<1>1. BlockTypeOK /\ sent[d] \in Nat /\ sent[d] <= Len(outbox[d])
    BY DEF BlockInv, BlockTypeOK
<1>2. Synced(d).ok
    BY <1>1, OwnAgree, sent[d] <= sent[d] DEF Agreeing, Synced
<1>3. Synced(d).meta = Projected(snapshot[d], outbox[d], sent[d])
    <2>1. \A i \in 1..sent[d] : Operation(outbox[d][i])
        BY <1>1 DEF BlockTypeOK
    <2> QED
        BY <1>1, <1>2, <2>1, TransactionProjects DEF Synced
<1> QED
    BY <1>1, <1>2, <1>3, OwnIsCanonical DEF Accepts

\* What one device makes of a task that nobody else has changed is accepted,
\* however many edits its outbox holds.
THEOREM OwnEditsAccepted == BlockSpec => []OwnEditsAreAccepted
<1>1. BlockInit => BlockInv /\ OwnEdits
    BY BlockStarts, OwnStarts
<1>2. BlockInv /\ OwnEdits /\ [BlockNext]_blockVars => (BlockInv /\ OwnEdits)'
    BY BlockStep, OwnStep
<1> QED
    BY <1>1, <1>2, OwnAccepted, PTL DEF BlockSpec

=============================================================================
