--------------------------- MODULE RemoteSyncProofs ---------------------------
(***************************************************************************)
(* Machine-checked proofs about RemoteSync, for any notes, kinds of change *)
(* and faults, page size, number of changes, and number of transactions    *)
(* under way at once.                                                      *)
(***************************************************************************)
EXTENDS RemoteSync, FiniteSetTheorems, WellFoundedInduction, TLAPS

-------------------------------------------------------------------------------
(* Lemmas about the operators.                                             *)

\* A set of natural numbers has a smallest one: of the initial segments
\* 0..n-1 with n in the set, none is below the smallest.
LEMMA LeastNumber ==
    ASSUME NEW T, T \subseteq Nat, T # {}
    PROVE  \E n \in T : \A m \in T : n <= m
<1> DEFINE Seg(n) == 0..(n - 1)
           Segs == {Seg(n) : n \in T}
<1>1. Segs \subseteq FiniteSubsetsOf(Nat) /\ Segs # {}
    <2>1. ASSUME NEW n \in T
          PROVE  Seg(n) \in FiniteSubsetsOf(Nat)
        BY FS_Interval DEF FiniteSubsetsOf
    <2> QED
        BY <2>1
<1>2. PICK s \in Segs : \A r \in Segs : ~(<<r, s>> \in StrictSubsetOrdering(Nat))
    BY <1>1, WFMin, FS_StrictSubsetOrderingWellFounded
<1>3. PICK n \in T : s = Seg(n)
    BY <1>2
<1>4. ASSUME NEW m \in T, m < n
      PROVE  FALSE
    <2>1. m \in Seg(n) /\ m \notin Seg(m)
        BY <1>4
    <2>2. Seg(m) \subseteq Seg(n) /\ Seg(m) # Seg(n)
        BY <1>4, <2>1
    <2>3. Seg(m) \in SUBSET Nat /\ Seg(n) \in SUBSET Nat
        OBVIOUS
    <2> HIDE DEF Seg
    <2>4. <<Seg(m), Seg(n)>> \in StrictSubsetOrdering(Nat)
        BY <2>2, <2>3 DEF StrictSubsetOrdering
    <2> QED
        BY <2>4, <1>2, <1>3
<1> QED
    BY <1>4

USE BoundsAssumption

\* A set of numbers up to k has a greatest one.
LEMMA GreatestIsLast ==
    ASSUME NEW k \in Nat, NEW S, S \subseteq 0..k, S # {}
    PROVE  Greatest(S) \in S /\ \A t \in S : t <= Greatest(S)
<1> DEFINE T == {k - s : s \in S}
<1>1. T \subseteq Nat /\ T # {}
    <2>1. \A s \in S : k - s \in Nat
        OBVIOUS
    <2> QED
        BY <2>1
<1>2. PICK n \in T : \A m \in T : n <= m
    BY <1>1, LeastNumber
<1>3. PICK s \in S : n = k - s
    BY <1>2
<1>4. \A t \in S : t <= s
    BY <1>2, <1>3
<1> QED
    BY <1>4 DEF Greatest

\* The first change of a set is one of it.
LEMMA FirstIsOne ==
    ASSUME NEW rows_, rows_ # {}, \A ch \in rows_ : ch.seq \in Nat
    PROVE  First(rows_) \in rows_
<1> DEFINE Numbers == {ch.seq : ch \in rows_}
<1>1. Numbers \subseteq Nat /\ Numbers # {}
    OBVIOUS
<1>2. PICK n \in Numbers : \A m \in Numbers : n <= m
    BY <1>1, LeastNumber
<1> QED
    BY <1>2 DEF First

\* The watermark is 0 or the number of a change, and no change is above it.
LEMMA WatermarkCovers ==
    ASSUME sequence \in Nat, \A ch \in changes : ch.seq \in 1..sequence
    PROVE  /\ Watermark(0) \in SeqsAnd(0, changes)
           /\ \A ch \in changes : ch.seq <= Watermark(0)
<1>1. SeqsAnd(0, changes) \subseteq 0..sequence /\ SeqsAnd(0, changes) # {}
    BY DEF SeqsAnd
<1>2. \A t \in SeqsAnd(0, changes) : t <= Watermark(0)
    BY <1>1, GreatestIsLast DEF Watermark
<1> QED
    BY <1>1, <1>2, GreatestIsLast DEF Watermark, SeqsAnd

\* A page holds every committed change between `after` and its cursor: what
\* stands before a row of the page has no more rows before it.
LEMMA PageCovers ==
    ASSUME sequence \in Nat, IsFiniteSet(changes), NEW after \in 0..sequence,
           \A ch \in changes : ch.seq \in 1..sequence
    PROVE  /\ Page(after).page \subseteq changes
           /\ Page(after).cursor \in SeqsAnd(after, changes) /\ after <= Page(after).cursor
           /\ \A ch \in Page(after).page : after < ch.seq /\ ch.seq <= Page(after).cursor
           /\ \A ch \in changes : after < ch.seq /\ ch.seq <= Page(after).cursor
                                    => ch \in Page(after).page
<1> DEFINE newer == {ch \in changes : ch.seq > after}
           before(ch) == {d \in newer : d.seq < ch.seq}
           first == {ch \in newer : Cardinality(before(ch)) < PageSize}
           last == Greatest(SeqsAnd(after, first))
<1>1. Page(after).page = first /\ Page(after).cursor = last
    BY DEF Page
<1>6. first \subseteq changes
    OBVIOUS
<1>2. SeqsAnd(after, first) \subseteq 0..sequence /\ SeqsAnd(after, first) # {}
    <2> HIDE DEF first
    <2>1. \A ch \in first : ch.seq \in 0..sequence
        BY <1>6
    <2> QED
        BY <2>1 DEF SeqsAnd
<1>3. last \in SeqsAnd(after, first) /\ \A t \in SeqsAnd(after, first) : t <= last
    <2> HIDE DEF first
    <2> QED
        BY <1>2, GreatestIsLast
<1>4. after <= last /\ last \in SeqsAnd(after, changes)
    <2> HIDE DEF first, last
    <2> QED
        BY <1>3, <1>6 DEF SeqsAnd
<1>7. ASSUME NEW ch \in first
      PROVE  after < ch.seq /\ ch.seq <= last
    <2>1. ch \in newer
        OBVIOUS
    <2>2. after < ch.seq
        BY <2>1
    <2>3. ch.seq \in SeqsAnd(after, first)
        <3> HIDE DEF first
        <3> QED
            BY <1>7 DEF SeqsAnd
    <2> QED
        BY <1>3, <2>2, <2>3
<1>5. ASSUME NEW ch \in changes, after < ch.seq, ch.seq <= last
      PROVE  ch \in first
    <2>1. PICK f \in first : last = f.seq
        <3> HIDE DEF first, last
        <3>1. last # after
            BY <1>4, <1>5
        <3> QED
            BY <1>3, <3>1 DEF SeqsAnd
    <2>2. before(ch) \subseteq before(f)
        BY <2>1, <1>5
    <2>3. IsFiniteSet(before(f))
        BY FS_Subset
    <2>4. Cardinality(before(ch)) <= Cardinality(before(f)) /\ IsFiniteSet(before(ch))
        BY <2>2, <2>3, FS_Subset
    <2>5. Cardinality(before(ch)) \in Nat /\ Cardinality(before(f)) \in Nat
        BY <2>3, <2>4, FS_CardinalityType
    <2>6. Cardinality(before(f)) < PageSize
        BY <2>1
    <2>7. Cardinality(before(ch)) < PageSize
        BY <2>4, <2>5, <2>6
    <2>8. ch \in newer
        BY <1>5
    <2> QED
        BY <2>7, <2>8
<1> HIDE DEF first, last
<1> QED
    BY <1>1, <1>4, <1>5, <1>6, <1>7

NoteRows == [state : {"absent", "live", "deleted"}, rev : Nat, updated : Nat, role : Roles]

\* The new row is a row and its revision no smaller.
RowGrows(old, new) == new \in NoteRows /\ old.rev <= new.rev /\ new.state # "absent"

\* What a transaction leaves of a row that is as the transaction found it.
LEMMA WrittenRow ==
    ASSUME NEW row \in NoteRows, NEW kind \in Kinds, NEW seq \in Nat,
           Found(row, kind), row.state = "absent" => row.rev = 0
    PROVE  /\ RowGrows(row, Written(row, kind, seq))
           /\ Told(row, kind, seq) \in Nat /\ Told(row, kind, seq) <= Written(row, kind, seq).rev
           /\ OnShare(kind) => Written(row, kind, seq).state = row.state /\ Written(row, kind, seq).rev = row.rev
           /\ kind \in {"edit", "delete"} => Written(row, kind, seq).role = row.role
           /\ kind # "edit" /\ kind # "create" => Written(row, kind, seq).rev = row.rev
           /\ kind = "delete" => Written(row, kind, seq).state = "deleted"
           /\ kind = "revoke" => Written(row, kind, seq).role = "stranger"
           /\ kind = "edit" => Written(row, kind, seq).state = "live"
<1>1. kind \in {"create", "edit", "delete", "share", "revoke"}
    OBVIOUS
<1> DEFINE new == Written(row, kind, seq)
<1>2. row = [state |-> row.state, rev |-> row.rev, updated |-> row.updated, role |-> row.role]
      /\ row.rev \in Nat /\ row.role \in Roles /\ row.updated \in Nat
      /\ row.state \in {"absent", "live", "deleted"}
    BY DEF NoteRows
<1>3. CASE kind = "create"
    <2>1. /\ new = [state |-> "live", rev |-> 0, updated |-> seq, role |-> "owner"]
          /\ row.rev = 0 /\ ~OnShare(kind)
        BY <1>3 DEF Written, Found, Permitted, OnShare, Row
    <2>2. new.state = "live" /\ new.rev = 0 /\ new \in NoteRows
        BY <2>1 DEF NoteRows, Roles
    <2>3. Told(row, kind, seq) = new.rev
        BY <2>1 DEF Told
    <2> HIDE DEF new
    <2> QED
        BY <1>3, <2>1, <2>2, <2>3 DEF RowGrows, new
<1>4. CASE kind = "edit"
    <2>1. /\ new = [row EXCEPT !.rev = @ + 1, !.updated = seq]
          /\ row.state = "live" /\ ~OnShare(kind)
        BY <1>4 DEF Written, Found, Permitted, OnShare
    <2>2. new = [state |-> row.state, rev |-> row.rev + 1, updated |-> seq, role |-> row.role]
        BY <1>2, <2>1
    <2>3. /\ new.state = "live" /\ new.rev = row.rev + 1 /\ new.role = row.role
          /\ new \in NoteRows
        BY <1>2, <2>1, <2>2 DEF NoteRows
    <2>4. Told(row, kind, seq) = new.rev
        BY <2>1 DEF Told
    <2> HIDE DEF new
    <2> QED
        BY <1>2, <1>4, <2>1, <2>3, <2>4 DEF RowGrows, new
<1>5. CASE kind = "delete"
    <2>1. /\ new = [row EXCEPT !.state = "deleted"] /\ ~OnShare(kind)
        BY <1>5 DEF Written, Found, OnShare
    <2>2. new = [state |-> "deleted", rev |-> row.rev, updated |-> row.updated, role |-> row.role]
        BY <1>2, <2>1
    <2>3. /\ new.state = "deleted" /\ new.rev = row.rev /\ new.role = row.role
          /\ new \in NoteRows
        BY <1>2, <2>2 DEF NoteRows
    <2>4. Told(row, kind, seq) = new.rev
        BY <2>1 DEF Told
    <2> HIDE DEF new
    <2> QED
        BY <1>2, <1>5, <2>1, <2>3, <2>4 DEF RowGrows, new
<1>6. CASE kind \in {"share", "revoke"}
    <2> DEFINE to == IF kind = "share" THEN "guest" ELSE "stranger"
    <2>1. /\ new = [row EXCEPT !.role = to] /\ OnShare(kind) /\ row.state # "absent"
        BY <1>6 DEF Written, Found, OnShare
    <2>2. new = [state |-> row.state, rev |-> row.rev, updated |-> row.updated, role |-> to]
        BY <1>2, <2>1
    <2>3. /\ new.state = row.state /\ new.rev = row.rev /\ new.role = to
          /\ new \in NoteRows
        BY <1>2, <2>2 DEF NoteRows, Roles
    <2>4. Told(row, kind, seq) = 0
        BY <2>1 DEF Told
    <2> HIDE DEF new
    <2> QED
        BY <1>2, <1>6, <2>1, <2>3, <2>4 DEF RowGrows, new
<1> QED
    BY <1>1, <1>3, <1>4, <1>5, <1>6

\* What a transaction numbers when it begins.
LEMMA EventRows ==
    ASSUME NEW row \in NoteRows, NEW n \in Notes, NEW kind \in Kinds, NEW seq \in Nat
    PROVE  /\ \A ch \in Event(row, kind, seq, n) :
                /\ ch.seq = seq /\ ch.note = n /\ ch.type = EventType(kind)
                /\ ch.rev = Told(row, kind, seq)
           /\ \A ch, d \in Event(row, kind, seq, n) : ch = d
           /\ Event(row, kind, seq, n) = {} =>
                row.role = "stranger" /\ kind \notin {"create", "share"}
<1> DEFINE one == [seq |-> seq, type |-> EventType(kind), note |-> n,
                   rev |-> Told(row, kind, seq)]
<1>1. /\ one.seq = seq /\ one.note = n /\ one.type = EventType(kind)
      /\ one.rev = Told(row, kind, seq)
    OBVIOUS
<1>2. /\ Event(row, kind, seq, n) \subseteq {one}
      /\ Event(row, kind, seq, n) = {} =>
            row.role = "stranger" /\ kind \notin {"create", "share"}
    BY DEF Event
<1> HIDE DEF one
<1> QED
    BY <1>1, <1>2

LEMMA EventTypes_ ==
    ASSUME NEW kind \in Kinds
    PROVE  /\ EventType(kind) \in EventTypes
           /\ EventType(kind) = "note_deleted" <=> kind = "delete"
           /\ EventType(kind) = "note_access_revoked" <=> kind = "revoke"
           /\ EventType(kind) = "note_access_changed" <=> kind = "share"
<1>1. kind \in {"create", "edit", "delete", "share", "revoke"}
    OBVIOUS
<1> QED
    BY <1>1 DEF EventType, EventTypes

-------------------------------------------------------------------------------
(* The invariant holds at first and is kept by every step.                 *)

LEMMA InitInv ==
    ASSUME Init
    PROVE  DeliveryInv
<1>1. TypeOK
    BY DEF Init, TypeOK, Row, Absent, Roles
<1>2. ServerOK
    BY FS_EmptySet DEF Init, ServerOK, WritersOK, ChangesOK, Row, Absent
<1>3. StoreOK /\ RequestsOK /\ ApplyOK
    BY DEF Init, StoreOK, RequestsOK, ApplyOK, Applying, Settled, Overtaken
<1>4. NothingSkipped /\ SeenIsReflected
    BY DEF Init, NothingSkipped, SeenIsReflected
<1> QED
    BY <1>1, <1>2, <1>3, <1>4 DEF DeliveryInv

\* What the invariant says of the rows of sync_changes, in one place.
LEMMA ChangeFacts ==
    ASSUME DeliveryInv, NEW ch \in changes
    PROVE  /\ sequence \in Nat /\ ch.seq \in 1..sequence /\ ch.seq \in Nat
           /\ ch.note \in Notes /\ ch.rev \in Nat /\ ch.type \in EventTypes
           /\ note[ch.note].rev \in Nat /\ ch.rev <= note[ch.note].rev
           /\ ch.type = "note_access_changed" => ch.rev = 0
           /\ \A w \in writing : ch.seq # w.seq
<1>1. sequence \in Nat /\ ChangeOK(ch)
    BY DEF DeliveryInv, TypeOK
<1>2. ch.seq \in 1..sequence /\ ch.note \in Notes /\ ch.rev \in Nat /\ ch.type \in EventTypes
    BY <1>1 DEF ChangeOK
<1>3. ch.seq \in Nat
    BY <1>1, <1>2
<1>4. note[ch.note].rev \in Nat
    BY <1>2 DEF DeliveryInv, TypeOK
<1>5. /\ ch.rev <= note[ch.note].rev /\ \A w \in writing : ch.seq # w.seq
      /\ ch.type = "note_access_changed" => ch.rev = 0
    <2>1. ChangesOK
        BY DEF DeliveryInv, ServerOK
    <2> QED
        BY <2>1 DEF ChangesOK
<1> QED
    BY <1>1, <1>2, <1>3, <1>4, <1>5

\* A number that counts as seen is settled: who holds it was overlooked.
LEMMA SeenIsSettled ==
    ASSUME DeliveryInv, NEW w \in writing, NEW ch \in changes, Seen(ch), w.seq < ch.seq
    PROVE  w \in overlooked
<1>1. /\ Settled(cursor) /\ cursor \in Nat /\ origin \in Nat \cup {None} /\ w.seq \in Nat
      /\ ch.seq \in Nat /\ sequence \in Nat
    BY ChangeFacts DEF DeliveryInv, StoreOK, TypeOK, WriterOK
<1>2. ch.seq \in applied => ch.seq <= cursor
    BY DEF DeliveryInv, StoreOK
<1>3. origin # None => origin <= cursor
    BY DEF DeliveryInv, StoreOK
<1>4. w.seq <= cursor
    BY <1>1, <1>2, <1>3 DEF Seen
<1> QED
    BY <1>1, <1>4 DEF Settled, Overtaken

\* A step of the server leaves the device's invariant alone as long as what
\* is settled stays settled, and what is new was overlooked or is above.
LEMMA ServerMoves ==
    ASSUME DeliveryInv, TypeOK', ServerOK',
           UNCHANGED <<store, documents, open, pass, reordered>>,
           \A s \in 0..sequence : Settled(s) => Settled(s)',
           \A n \in Notes : note[n].rev <= note'[n].rev,
           changes \subseteq changes',
           \A ch \in changes : Overlooked(ch) => Overlooked(ch)',
           \A ch \in changes' \ changes :
               /\ \A d \in changes : d.seq # ch.seq
               /\ \A s \in 0..sequence : Settled(s) /\ ch.seq <= s => Overlooked(ch)'
    PROVE  DeliveryInv'
<1>1. /\ TypeOK /\ ServerOK /\ StoreOK /\ RequestsOK /\ ApplyOK
      /\ NothingSkipped /\ SeenIsReflected
    BY DEF DeliveryInv
<1>2. /\ \A n \in Notes : note[n].rev \in Nat /\ note'[n].rev \in Nat
      /\ \A n \in Notes : local[n] \in Nat \cup {None}
      /\ sequence \in Nat /\ cursor \in Nat
      /\ \A ch \in changes' : ch.seq \in Nat /\ ch.rev \in Nat /\ ch.note \in Notes
    BY <1>1 DEF TypeOK, ChangeOK
<1>3. UNCHANGED <<cursor, inbox, queue, applied, origin, local, missed, at, fetched>>
    BY DEF store, documents, pass
<1>4. StoreOK'
    <2>1. Settled(cursor)'
        BY <1>1, <1>3 DEF StoreOK, Settled
    <2>2. origin # None => Settled(origin)'
        BY <1>1, <1>3 DEF StoreOK, Settled
    <2>3. \A n \in Notes : local[n] # None => local[n] <= note'[n].rev
        BY <1>1, <1>2 DEF StoreOK
    <2> QED
        BY <1>1, <1>3, <2>1, <2>2, <2>3 DEF StoreOK
<1>5. \A ch \in changes' \ changes : \A s \in 0..sequence :
          Settled(s) /\ ch.seq <= s => Overlooked(ch)'
    OBVIOUS
<1>6. NothingSkipped'
    <2>1. Settled(cursor) /\ cursor \in 0..sequence
        BY <1>1 DEF StoreOK, Settled
    <2> QED
        BY <1>1, <1>3, <1>5, <2>1 DEF NothingSkipped
<1>7. SeenIsReflected'
    <2>1. ASSUME NEW ch \in changes', Seen(ch)', ch \notin changes
          PROVE  Overlooked(ch)'
        <3>1. ch.seq \notin applied
            <4>1. SUFFICES ASSUME NEW d \in inbox, ch.seq = d.seq PROVE FALSE
                BY <1>1 DEF StoreOK
            <4>2. d \in changes
                BY <1>1 DEF StoreOK
            <4> QED
                BY <2>1, <4>1, <4>2
        <3>2. origin # None /\ ch.seq <= origin
            BY <1>3, <2>1, <3>1 DEF Seen
        <3>3. Settled(origin) /\ origin \in 0..sequence
            BY <1>1, <3>2 DEF StoreOK, Settled
        <3> QED
            BY <1>5, <2>1, <3>2, <3>3
    <2>2. ASSUME NEW ch \in changes, Seen(ch)'
          PROVE  Reflected(ch)' \/ ch.note \in missed' \/ Overlooked(ch)'
        <3>1. Reflected(ch) \/ ch.note \in missed \/ Overlooked(ch)
            BY <1>1, <1>3, <2>2 DEF SeenIsReflected, Seen
        <3> QED
            BY <1>3, <3>1 DEF Reflected
    <2> QED
        BY <2>1, <2>2 DEF SeenIsReflected
<1>8. RequestsOK'
    <2>1. ASSUME at \in {"listing", "loading"}, NEW n \in DOMAIN fetched.docs,
                 NEW ch \in changes', ch.note = n, ch.seq <= fetched.mark
          PROVE  fetched.docs[n] >= ch.rev \/ Overlooked(ch)'
        <3>1. at \in {"listing", "loading"} /\ ch.note = n /\ ch.seq <= fetched.mark
            BY <2>1
        <3>2. Settled(fetched.mark) /\ fetched.mark \in 0..sequence
            BY <1>1, <3>1 DEF RequestsOK, Settled
        <3>3. CASE ch \in changes
            BY <1>1, <3>1, <3>3 DEF RequestsOK, AsNewAs
        <3>4. CASE ch \notin changes
            BY <1>5, <3>1, <3>2, <3>4
        <3> QED
            BY <3>3, <3>4
    <2>2. at = "ingesting" => \A ch \in changes' :
              cursor < ch.seq /\ ch.seq <= fetched.cursor => ch \in fetched.page \/ Overlooked(ch)'
        <3>1. at = "ingesting" => Settled(fetched.cursor) /\ fetched.cursor \in 0..sequence
            BY <1>1 DEF RequestsOK, Settled
        <3> QED
            BY <1>1, <1>5, <3>1 DEF RequestsOK
    <2>3. ASSUME at \in {"listing", "loading"}, NEW n \in DOMAIN fetched.docs
          PROVE  n \in Notes /\ fetched.docs[n] \in Nat /\ fetched.docs[n] <= note'[n].rev
        <3>1. n \in Notes /\ fetched.docs[n] \in Nat /\ fetched.docs[n] <= note[n].rev
            BY <1>1, <2>3 DEF RequestsOK
        <3>2. note[n].rev \in Nat /\ note'[n].rev \in Nat /\ note[n].rev <= note'[n].rev
            BY <3>1, <1>2
        <3> QED
            BY <3>1, <3>2
    <2>4. at \in {"listing", "loading"} => Settled(fetched.mark)'
        BY <1>1, <1>3 DEF RequestsOK, Settled
    <2>5. at = "ingesting" => Settled(fetched.cursor)'
        BY <1>1, <1>3 DEF RequestsOK, Settled
    <2>6. RequestsOK
        BY <1>1
    <2> QED
        BY <1>3, <2>1, <2>2, <2>3, <2>4, <2>5, <2>6 DEF RequestsOK, AsNewAs
<1>9. ApplyOK'
    <2>1. Current' = Current
        BY <1>3 DEF Current, First
    <2>2. at \in Applying => Current \in changes
        <3> SUFFICES ASSUME at \in Applying PROVE Current \in changes
            OBVIOUS
        <3>1. queue # {} /\ queue \subseteq changes
            BY <1>1 DEF ApplyOK, StoreOK
        <3>2. \A ch \in queue : ch.seq \in Nat
            BY <1>2, <3>1
        <3> QED
            BY <3>1, <3>2, FirstIsOne DEF Current
    <2>3. at \in {"hydrating", "settling"} =>
              Reflected(Current) \/ Current.note \in missed \/ Overlooked(Current)'
        <3> SUFFICES ASSUME at \in {"hydrating", "settling"}
                     PROVE  Reflected(Current) \/ Current.note \in missed \/ Overlooked(Current)'
            OBVIOUS
        <3>1. Reflected(Current) \/ Current.note \in missed \/ Overlooked(Current)
            BY <1>1 DEF ApplyOK
        <3>2. Overlooked(Current) => Overlooked(Current)'
            BY <2>1, <2>2 DEF Applying, Overlooked
        <3> QED
            BY <3>1, <3>2
    <2> QED
        BY <1>1, <1>3, <2>1, <2>3 DEF ApplyOK, Reflected
<1> QED
    BY <1>4, <1>6, <1>7, <1>8, <1>9 DEF DeliveryInv

LEMMA BeginStep ==
    ASSUME DeliveryInv, NEW n \in Notes, NEW kind \in Kinds, Begin(n, kind)
    PROVE  DeliveryInv'
<1>0. PICK w : w = [note |-> n, kind |-> kind, seq |-> sequence + 1,
                    rows |-> Event(note[n], kind, sequence + 1, n)]
    OBVIOUS
<1>1. TypeOK /\ WritersOK /\ ChangesOK /\ ServerOK
    BY DEF DeliveryInv, ServerOK
<1>2. /\ writing' = writing \cup {w} /\ sequence' = sequence + 1
      /\ UNCHANGED <<note, changes, store, documents, open, pass, faults, history>>
      /\ Permitted(note[n], kind)
      /\ \A v \in writing : v.note = n => OnShare(v.kind) # OnShare(kind)
    BY <1>0 DEF Begin
<1>3. w.note = n /\ w.kind = kind /\ w.seq = sequence + 1
      /\ w.rows = Event(note[n], kind, w.seq, n)
    BY <1>0
<1>4. /\ sequence \in Nat /\ w.seq \in Nat /\ w.seq \in 1..sequence'
      /\ \A v \in writing \cup overlooked : WriterOK(v) /\ v.seq \in Nat /\ v.seq < w.seq
    BY <1>1, <1>2, <1>3 DEF TypeOK, WriterOK
<1>5. note[n] \in NoteRows /\ UNCHANGED <<overlooked, reordered>>
    BY <1>1, <1>2 DEF TypeOK, NoteRows, history
<1>6. /\ \A ch \in w.rows : /\ ch.seq = w.seq /\ ch.note = n /\ ch.type = EventType(kind)
                            /\ ch.rev = Told(note[n], kind, w.seq)
      /\ \A ch, d \in w.rows : ch = d
      /\ w.rows = {} => note[n].role = "stranger" /\ kind \notin {"create", "share"}
    BY <1>3, <1>4, <1>5, EventRows
<1>7. Found(note[n], kind) /\ (w.rows = {} => kind \in {"edit", "delete"})
    <2>1. kind \in {"create", "edit", "delete", "share", "revoke"}
        OBVIOUS
    <2> QED
        BY <1>2, <1>6, <2>1 DEF Found, Permitted, OnShare
<1>8. /\ Told(note[n], kind, w.seq) \in Nat
      /\ EventType(kind) \in EventTypes
    BY <1>1, <1>4, <1>5, <1>7, WrittenRow, EventTypes_ DEF ServerOK
<1>9. \A ch \in changes \cup inbox \cup queue : ChangeOK(ch)'
    <2>1. \A ch : ChangeOK(ch) => ChangeOK(ch)'
        BY <1>2, <1>4 DEF ChangeOK
    <2> QED
        BY <1>1, <2>1 DEF TypeOK
<1>10. TypeOK'
    <2>1. UNCHANGED <<inbox, queue, cursor, origin, local, missed, open, faults>>
        BY <1>2 DEF store, pass, documents
    <2>2. \A v \in writing' \cup overlooked' : WriterOK(v)'
        BY <1>2, <1>3, <1>4, <1>5 DEF WriterOK
    <2> QED
        BY <1>1, <1>2, <1>4, <1>5, <1>9, <2>1, <2>2 DEF TypeOK
<1>11. WritersOK'
    <2>1. ASSUME NEW v \in writing \cup overlooked
          PROVE  RowsOK(v)'
        <3>1. RowsOK(v) /\ \A ch : ChangeOK(ch) => ChangeOK(ch)'
            BY <1>1, <1>2, <1>4 DEF WritersOK, ChangeOK
        <3> QED
            BY <3>1 DEF RowsOK
    <2>2. RowsOK(w)'
        <3>1. \A ch \in w.rows : ChangeOK(ch)'
            BY <1>2, <1>4, <1>6, <1>8 DEF ChangeOK
        <3> QED
            BY <1>3, <1>6, <3>1 DEF RowsOK
    <2>3. ASSUME NEW v \in writing', NEW u \in writing', v # u
          PROVE  v.seq # u.seq /\ (v.note = u.note => (OnShare(v.kind) <=> ~OnShare(u.kind)))
        <3>1. CASE v \in writing /\ u \in writing
            BY <1>1, <2>3, <3>1 DEF WritersOK
        <3>2. CASE v = w /\ u \in writing
            BY <1>2, <1>3, <1>4, <3>2 DEF OnShare
        <3>3. CASE u = w /\ v \in writing
            BY <1>2, <1>3, <1>4, <3>3 DEF OnShare
        <3> QED
            BY <1>2, <2>3, <3>1, <3>2, <3>3
    <2>4. ASSUME NEW v \in writing'
          PROVE  /\ Found(note[v.note], v.kind)
                 /\ \A ch \in v.rows : ch.rev = Told(note[v.note], v.kind, v.seq)
                 /\ v.rows = {} => /\ v.kind \in {"edit", "delete"}
                                   /\ note[v.note].role = "stranger" \/ v \in overlooked
        <3>1. CASE v \in writing
            BY <1>1, <3>1 DEF WritersOK
        <3>2. CASE v = w
            BY <1>3, <1>6, <1>7, <3>2
        <3> QED
            BY <1>2, <3>1, <3>2
    <2> QED
        <3>1. \A v \in writing' \cup overlooked' : RowsOK(v)'
            BY <1>2, <1>5, <2>1, <2>2
        <3>2. UNCHANGED <<note, overlooked>>
            BY <1>2, <1>5
        <3> QED
            BY <2>3, <2>4, <3>1, <3>2 DEF WritersOK
<1>12. ChangesOK'
    <2>1. \A ch \in changes : \A v \in writing' : ch.seq # v.seq
        BY <1>2, <1>3, <1>4, ChangeFacts
    <2> QED
        BY <1>1, <1>2, <2>1 DEF ChangesOK
<1>13. ServerOK'
    BY <1>1, <1>2, <1>11, <1>12 DEF ServerOK
<1>14. \A m \in Notes : note[m].rev <= note'[m].rev
    BY <1>1, <1>2 DEF TypeOK
<1>15. \A s \in 0..sequence : Settled(s) => Settled(s)'
    <2> SUFFICES ASSUME NEW s \in 0..sequence, Overtaken(s) \subseteq overlooked
                 PROVE  s \in 0..sequence' /\ Overtaken(s)' \subseteq overlooked'
        BY DEF Settled
    <2>1. s \in 0..sequence' /\ ~(w.seq <= s)
        BY <1>2, <1>3, <1>4
    <2> QED
        BY <1>2, <1>5, <2>1 DEF Overtaken
<1>16. \A ch \in changes : Overlooked(ch) => Overlooked(ch)'
    BY <1>5 DEF Overlooked
<1> QED
    BY <1>2, <1>5, <1>10, <1>13, <1>14, <1>15, <1>16, ServerMoves

LEMMA CommitStep ==
    ASSUME DeliveryInv, Commit
    PROVE  DeliveryInv'
<1>1. TypeOK /\ WritersOK /\ ChangesOK /\ ServerOK
    BY DEF DeliveryInv, ServerOK
<1>2. PICK w \in writing :
        /\ note' = [note EXCEPT ![w.note] = Written(@, w.kind, w.seq)]
        /\ changes' = changes \cup w.rows
        /\ writing' = writing \ {w}
        /\ overlooked' = overlooked \cup Unaddressed(w)
        /\ UNCHANGED <<sequence, store, documents, open, pass, faults, reordered>>
    BY DEF Commit
<1>3. /\ w.note \in Notes /\ w.kind \in Kinds /\ w.seq \in Nat /\ sequence \in Nat
      /\ Found(note[w.note], w.kind) /\ RowsOK(w)
      /\ note[w.note].state = "absent" => note[w.note].rev = 0
    <2>1. sequence \in Nat
        BY <1>1 DEF TypeOK
    <2>2. WriterOK(w) /\ RowsOK(w)
        BY <1>1 DEF WritersOK, TypeOK
    <2>3. w.note \in Notes /\ w.kind \in Kinds /\ w.seq \in Nat
        BY <2>1, <2>2 DEF WriterOK
    <2>4. Found(note[w.note], w.kind)
        BY <1>1 DEF WritersOK
    <2> QED
        BY <1>1, <2>1, <2>2, <2>3, <2>4 DEF ServerOK
<1>4. PICK new : new = Written(note[w.note], w.kind, w.seq)
    OBVIOUS
<1>5. note[w.note] \in NoteRows /\ note \in [Notes -> NoteRows]
    BY <1>1, <1>3 DEF TypeOK, NoteRows
<1>6. /\ RowGrows(note[w.note], new)
      /\ Told(note[w.note], w.kind, w.seq) <= new.rev
      /\ OnShare(w.kind) => new.state = note[w.note].state /\ new.rev = note[w.note].rev
      /\ w.kind \in {"edit", "delete"} => new.role = note[w.note].role
      /\ w.kind = "revoke" => new.role = "stranger"
    <2>1. /\ note[w.note] \in NoteRows /\ w.kind \in Kinds /\ w.seq \in Nat
          /\ Found(note[w.note], w.kind)
          /\ note[w.note].state = "absent" => note[w.note].rev = 0
        BY <1>3, <1>5
    <2> QED
        BY ONLY <1>4, <2>1, WrittenRow
<1>7. note' = [note EXCEPT ![w.note] = new]
    BY <1>2, <1>4
<1>8. /\ note'[w.note] = new /\ note' \in [Notes -> NoteRows]
      /\ \A m \in Notes \ {w.note} : note'[m] = note[m]
      /\ \A m \in Notes : note[m].rev \in Nat /\ note'[m].rev \in Nat /\ note[m].rev <= note'[m].rev
    BY <1>3, <1>5, <1>6, <1>7 DEF RowGrows, NoteRows
<1>9. \A ch \in w.rows : /\ ch.seq = w.seq /\ ch.note = w.note /\ ChangeOK(ch)
                          /\ ch.type = EventType(w.kind)
                          /\ ch.rev = Told(note[w.note], w.kind, w.seq)
    BY <1>1, <1>3 DEF RowsOK, WritersOK
<1>10. Unaddressed(w) \subseteq writing \ {w}
       /\ \A v \in Unaddressed(w) : v.note = w.note /\ v.rows = {} /\ w.kind = "share"
    <2>1. w \notin Unaddressed(w)
        BY <1>1 DEF Unaddressed, WritersOK
    <2> QED
        BY <2>1 DEF Unaddressed
<1>11. TypeOK'
    <2>1. UNCHANGED <<sequence, inbox, queue, cursor, origin, local, missed, open, reordered, faults>>
        BY <1>2 DEF store, pass, documents
    <2>2. \A ch \in changes' \cup inbox' \cup queue' : ChangeOK(ch)'
        <3>1. \A ch \in changes' \cup inbox' \cup queue' : ChangeOK(ch)
            BY <1>1, <1>2, <1>9, <2>1 DEF TypeOK
        <3> QED
            BY <2>1, <3>1 DEF ChangeOK
    <2>3. \A v \in writing' \cup overlooked' : WriterOK(v)'
        <3>1. \A v \in writing' \cup overlooked' : WriterOK(v)
            BY <1>1, <1>2, <1>10 DEF TypeOK
        <3> QED
            BY <2>1, <3>1 DEF WriterOK
    <2> QED
        BY <1>1, <1>8, <2>1, <2>2, <2>3 DEF TypeOK, NoteRows
<1>12. ChangesOK'
    <2>1. IsFiniteSet(changes')
        <3>1. \A ch, d \in w.rows : ch = d
            BY <1>3 DEF RowsOK
        <3>2. w.rows = {} \/ \E ch \in w.rows : w.rows = {ch}
            BY <3>1
        <3>3. CASE \E ch \in w.rows : w.rows = {ch}
            <4>1. PICK ch \in w.rows : w.rows = {ch}
                BY <3>3
            <4>2. IsFiniteSet({ch})
                BY FS_Singleton
            <4>3. IsFiniteSet(w.rows)
                BY <4>1, <4>2
            <4> QED
                BY <1>1, <1>2, <4>3, FS_Union DEF ChangesOK
        <3> QED
            BY <1>1, <1>2, <3>2, <3>3 DEF ChangesOK
    <2>2. ASSUME NEW ch \in changes'
          PROVE  /\ ch.rev <= note'[ch.note].rev
                 /\ ch.type = "note_access_changed" => ch.rev = 0
                 /\ \A v \in writing' : ch.seq # v.seq
        <3>1. CASE ch \in changes
            <4>1. /\ ch.note \in Notes /\ ch.rev \in Nat /\ ch.rev <= note[ch.note].rev
                  /\ ch.type = "note_access_changed" => ch.rev = 0
                  /\ \A v \in writing' : ch.seq # v.seq
                BY <1>2, <3>1, ChangeFacts
            <4>2. /\ note[ch.note].rev \in Nat /\ note'[ch.note].rev \in Nat
                  /\ note[ch.note].rev <= note'[ch.note].rev
                BY <4>1, <1>8
            <4>3. ch.rev <= note'[ch.note].rev
                BY <4>1, <4>2
            <4> QED
                BY <4>1, <4>3
        <3>2. CASE ch \in w.rows
            <4>1. ch.rev <= note'[ch.note].rev
                BY <1>6, <1>8, <1>9, <3>2
            <4>2. ASSUME ch.type = "note_access_changed"
                  PROVE  ch.rev = 0
                <5>1. OnShare(w.kind)
                    BY <1>3, <1>9, <3>2, <4>2, EventTypes_ DEF OnShare
                <5> QED
                    BY <1>9, <3>2, <5>1 DEF Told
            <4>3. \A v \in writing' : ch.seq # v.seq
                BY <1>1, <1>2, <1>9, <3>2 DEF WritersOK
            <4> QED
                BY <4>1, <4>2, <4>3
        <3> QED
            BY <1>2, <3>1, <3>2
    <2>3. ASSUME NEW ch \in changes', NEW d \in changes', ch.seq = d.seq
          PROVE  ch = d
        <3>1. \A e \in changes : e.seq # w.seq
            BY ChangeFacts
        <3>2. (ch \in changes /\ d \in changes) \/ (ch \in w.rows /\ d \in w.rows)
            BY <1>2, <1>9, <2>3, <3>1
        <3> QED
            BY <1>1, <1>3, <2>3, <3>2 DEF ChangesOK, RowsOK
    <2> QED
        BY <2>1, <2>2, <2>3 DEF ChangesOK
<1>13. WritersOK'
    <2>1. ASSUME NEW v \in writing', NEW u \in writing', v # u
          PROVE  v.seq # u.seq /\ (v.note = u.note => (OnShare(v.kind) <=> ~OnShare(u.kind)))
        BY <1>1, <1>2, <2>1 DEF WritersOK
    <2>2. ASSUME NEW v \in writing' \cup overlooked'
          PROVE  RowsOK(v)'
        <3>1. RowsOK(v)
            BY <1>1, <1>2, <1>10 DEF WritersOK
        <3> QED
            BY <1>2, <3>1 DEF RowsOK, ChangeOK
    <2>3. ASSUME NEW v \in writing'
          PROVE  /\ Found(note'[v.note], v.kind)
                 /\ \A ch \in v.rows : ch.rev = Told(note'[v.note], v.kind, v.seq)
                 /\ v.rows = {} => /\ v.kind \in {"edit", "delete"}
                                   /\ note'[v.note].role = "stranger" \/ v \in overlooked'
        <3>1. /\ v \in writing /\ v # w /\ v.note \in Notes /\ v.kind \in Kinds
              /\ Found(note[v.note], v.kind)
              /\ \A ch \in v.rows : ch.rev = Told(note[v.note], v.kind, v.seq)
              /\ v.rows = {} => /\ v.kind \in {"edit", "delete"}
                                /\ note[v.note].role = "stranger" \/ v \in overlooked
            BY <1>1, <1>2 DEF WritersOK, TypeOK, WriterOK
        <3>2. CASE v.note # w.note
            <4>1. note'[v.note] = note[v.note]
                BY <1>8, <3>1, <3>2
            <4> QED
                BY <1>2, <3>1, <4>1
        <3>3. CASE v.note = w.note /\ OnShare(v.kind)
            <4>1. ~OnShare(w.kind) /\ w.kind \in {"create", "edit", "delete"}
                BY <1>1, <1>3, <3>1, <3>3 DEF WritersOK, OnShare
            <4>2. w.kind # "create"
                BY <1>3, <3>1, <3>3, <4>1 DEF Found, Permitted
            <4>3. new.role = note[w.note].role /\ new.state # "absent"
                BY <1>6, <4>1, <4>2 DEF RowGrows
            <4>4. Found(note'[v.note], v.kind)
                BY <1>8, <3>1, <3>3, <4>3 DEF Found
            <4>5. \A ch \in v.rows : ch.rev = Told(note'[v.note], v.kind, v.seq)
                BY <3>1, <3>3 DEF Told
            <4>6. v.rows # {}
                BY <3>1, <3>3 DEF OnShare
            <4> QED
                BY <4>4, <4>5, <4>6
        <3>4. CASE v.note = w.note /\ ~OnShare(v.kind)
            <4>1. OnShare(w.kind) /\ w.kind \in {"share", "revoke"}
                BY <1>1, <3>1, <3>4 DEF WritersOK, OnShare
            <4>2. new.state = note[w.note].state /\ new.rev = note[w.note].rev
                BY <1>6, <4>1
            <4>3. v.kind \in {"edit", "delete"} /\ note[w.note].state = "live"
                BY <1>3, <3>1, <3>4, <4>1 DEF Found, Permitted, OnShare
            <4>4. Found(note'[v.note], v.kind)
                BY <1>8, <3>4, <4>2, <4>3 DEF Found, Permitted
            <4>5. Told(note'[v.note], v.kind, v.seq) = Told(note[v.note], v.kind, v.seq)
                <5> DEFINE old == note[v.note]
                <5>1. /\ old \in NoteRows /\ new \in NoteRows /\ old.rev = new.rev
                      /\ note'[v.note] = new
                    BY <1>5, <1>6, <1>8, <3>4, <4>2 DEF RowGrows
                <5> HIDE DEF old
                <5>2. Told(old, v.kind, v.seq) = Told(new, v.kind, v.seq)
                    <6>1. CASE v.kind = "edit"
                        BY <3>4, <5>1, <6>1 DEF Told, Written, NoteRows
                    <6>2. CASE v.kind = "delete"
                        BY <3>4, <5>1, <6>2 DEF Told, Written, NoteRows
                    <6> QED
                        BY <4>3, <6>1, <6>2
                <5> QED
                    BY <5>1, <5>2 DEF old
            <4>6. ASSUME v.rows = {}
                  PROVE  note'[v.note].role = "stranger" \/ v \in overlooked'
                <5>1. CASE w.kind = "share"
                    BY <1>2, <3>1, <3>4, <4>6, <5>1 DEF Unaddressed
                <5>2. CASE w.kind = "revoke"
                    BY <1>6, <1>8, <3>4, <5>2
                <5> QED
                    BY <4>1, <5>1, <5>2
            <4> QED
                BY <3>1, <4>3, <4>4, <4>5, <4>6
        <3> QED
            BY <3>2, <3>3, <3>4
    <2> QED
        BY <2>1, <2>2, <2>3 DEF WritersOK
<1>14. ServerOK'
    <2>1. \A n \in Notes : note'[n].state = "absent" => note'[n].rev = 0
        BY <1>1, <1>6, <1>8 DEF ServerOK, RowGrows
    <2> QED
        BY <1>12, <1>13, <2>1 DEF ServerOK
<1>15. \A s \in 0..sequence : Settled(s) => Settled(s)'
    BY <1>2 DEF Settled, Overtaken
<1>16. \A ch \in changes : Overlooked(ch) => Overlooked(ch)'
    BY <1>2 DEF Overlooked
<1>17. ASSUME NEW ch \in changes' \ changes
       PROVE  /\ \A d \in changes : d.seq # ch.seq
              /\ \A s \in 0..sequence : Settled(s) /\ ch.seq <= s => Overlooked(ch)'
    <2>1. ch \in w.rows /\ ch.seq = w.seq
        BY <1>2, <1>9
    <2>2. \A d \in changes : d.seq # ch.seq
        BY <2>1, ChangeFacts
    <2>3. ASSUME NEW s \in 0..sequence, Settled(s), ch.seq <= s
          PROVE  Overlooked(ch)'
        <3>1. w \in overlooked
            BY <2>1, <2>3 DEF Settled, Overtaken
        <3> QED
            BY <1>2, <2>1, <3>1 DEF Overlooked
    <2> QED
        BY <2>2, <2>3
<1> QED
    BY <1>2, <1>8, <1>11, <1>14, <1>15, <1>16, <1>17, ServerMoves

LEMMA AbortStep ==
    ASSUME DeliveryInv, Abort
    PROVE  DeliveryInv'
<1>1. TypeOK /\ WritersOK /\ ChangesOK /\ ServerOK
    BY DEF DeliveryInv, ServerOK
<1>2. PICK w \in writing :
        /\ writing' = writing \ {w} /\ overlooked' = overlooked \ {w}
        /\ UNCHANGED <<note, changes, sequence, store, documents, open, pass, faults, reordered>>
    BY DEF Abort
<1>3. TypeOK'
    <2>1. UNCHANGED <<note, changes, sequence, inbox, queue, cursor, origin, local, missed, open,
                      reordered, faults>>
        BY <1>2 DEF store, documents, pass
    <2>2. \A ch \in changes \cup inbox \cup queue : ChangeOK(ch)'
        BY <1>1, <2>1 DEF TypeOK, ChangeOK
    <2>3. \A v \in writing' \cup overlooked' : WriterOK(v)'
        BY <1>1, <1>2, <2>1 DEF TypeOK, WriterOK
    <2> QED
        BY <1>1, <2>1, <2>2, <2>3 DEF TypeOK
<1>4. WritersOK'
    <2>1. \A v \in writing' \cup overlooked' : RowsOK(v)'
        BY <1>1, <1>2 DEF WritersOK, RowsOK, ChangeOK
    <2>2. \A v \in writing' : v \in overlooked => v \in overlooked'
        BY <1>2
    <2> QED
        BY <1>1, <1>2, <2>1, <2>2 DEF WritersOK
<1>5. ChangesOK'
    BY <1>1, <1>2 DEF ChangesOK
<1>6. ServerOK'
    BY <1>1, <1>2, <1>4, <1>5 DEF ServerOK
<1>7. \A m \in Notes : note[m].rev <= note'[m].rev
    BY <1>1, <1>2 DEF TypeOK
<1>8. \A s \in 0..sequence : Settled(s) => Settled(s)'
    BY <1>2 DEF Settled, Overtaken
<1>9. \A ch \in changes : Overlooked(ch) => Overlooked(ch)'
    <2>1. \A ch \in changes : ch \notin w.rows
        BY <1>1, ChangeFacts DEF WritersOK, RowsOK
    <2> QED
        BY <1>2, <2>1 DEF Overlooked
<1> QED
    BY <1>2, <1>3, <1>6, <1>7, <1>8, <1>9, ServerMoves

-------------------------------------------------------------------------------
(* The device's steps.                                                     *)

\* A document stays, with its mark of a missed pull, or goes, or becomes the
\* server's.
Freshened ==
    /\ local' \in [Notes -> Nat \cup {None}] /\ missed' \subseteq Notes
    /\ \A n \in Notes : \/ local'[n] = local[n] /\ (n \in missed => n \in missed')
                        \/ local'[n] = None
                        \/ local'[n] = note[n].rev

LEMMA Kept ==
    ASSUME DeliveryInv, NEW n \in Notes, NEW rev \in {None, note[n].rev}, Keep(n, rev)
    PROVE  Freshened /\ local'[n] = rev
<1>1. /\ local \in [Notes -> Nat \cup {None}] /\ missed \subseteq Notes
      /\ rev \in Nat \cup {None}
    BY DEF DeliveryInv, TypeOK
<1> QED
    BY <1>1 DEF Keep, Freshened

LEMMA Untouched ==
    ASSUME DeliveryInv, UNCHANGED documents
    PROVE  Freshened
BY DEF DeliveryInv, TypeOK, documents, Freshened

\* A document that is as new as a change stays so.
LEMMA StaysReflected ==
    ASSUME DeliveryInv, Freshened, NEW ch \in changes, Reflected(ch) \/ ch.note \in missed
    PROVE  Reflected(ch)' \/ ch.note \in missed'
<1>1. /\ ch.note \in Notes /\ ch.rev \in Nat /\ note[ch.note].rev \in Nat
      /\ ch.rev <= note[ch.note].rev
    BY ChangeFacts
<1> DEFINE n == ch.note
<1>2. CASE local'[n] = local[n] /\ (n \in missed => n \in missed')
    BY <1>2 DEF Reflected
<1>3. CASE local'[n] = None
    BY <1>3 DEF Reflected
<1>4. CASE local'[n] = note[n].rev
    BY <1>1, <1>4 DEF Reflected
<1> QED
    BY <1>1, <1>2, <1>3, <1>4 DEF Freshened

\* What a reader of the feed overlooks: more while the bootstrap is over, and
\* before it what is under way stays overlooked.
Watched ==
    /\ overlooked' \subseteq overlooked \cup writing
    /\ overlooked \cap writing \subseteq overlooked'
    /\ origin # None => overlooked \subseteq overlooked'

\* A step of the device that leaves the inbox as it is.
LEMMA ReadingStep ==
    ASSUME DeliveryInv, UNCHANGED <<server, store, reordered>>, Freshened, Watched,
           origin = None => local' = local,
           open' \subseteq Notes, faults' \in Nat, queue' \subseteq inbox,
           \A ch \in queue' : ch.seq \notin applied, RequestsOK', ApplyOK'
    PROVE  DeliveryInv'
<1>1. /\ TypeOK /\ ServerOK /\ StoreOK /\ NothingSkipped /\ SeenIsReflected
    BY DEF DeliveryInv
<1>2. UNCHANGED <<note, writing, changes, sequence, origin, cursor, inbox, applied, reordered>>
    BY DEF server, store
<1>3. TypeOK'
    <2>1. \A w \in writing' \cup overlooked' : WriterOK(w)'
        BY <1>1, <1>2 DEF Watched, TypeOK, WriterOK
    <2> QED
        BY <1>1, <1>2, <2>1 DEF TypeOK, ChangeOK, Freshened
<1>4. ServerOK'
    <2>1. \A w \in writing' \cup overlooked' : RowsOK(w)'
        BY <1>1, <1>2 DEF Watched, ServerOK, WritersOK, RowsOK, ChangeOK
    <2>2. \A w \in writing : w \in overlooked => w \in overlooked'
        BY DEF Watched
    <2>3. WritersOK'
        BY <1>1, <1>2, <2>1, <2>2 DEF ServerOK, WritersOK
    <2> QED
        BY <1>1, <1>2, <2>3 DEF ServerOK, ChangesOK
<1>5. StoreOK'
    <2>1. ASSUME NEW n \in Notes, local'[n] # None
          PROVE  local'[n] <= note[n].rev
        <3>1. note[n].rev \in Nat
            BY <1>1 DEF TypeOK
        <3>2. local[n] # None => local[n] <= note[n].rev
            BY <1>1 DEF StoreOK
        <3>3. local'[n] = local[n] \/ local'[n] = note[n].rev
            BY <2>1 DEF Freshened
        <3> QED
            BY <2>1, <3>1, <3>2, <3>3
    <2>2. \A s : Settled(s) => Settled(s)'
        BY <1>2 DEF Settled, Overtaken, Watched
    <2>3. Settled(cursor)' /\ (origin # None => Settled(origin)')
        BY <1>1, <1>2, <2>2 DEF StoreOK, Settled, Overtaken
    <2> QED
        BY <1>1, <1>2, <2>1, <2>3 DEF StoreOK
<1>6. origin # None => \A ch \in changes : Overlooked(ch) => Overlooked(ch)'
    BY DEF Watched, Overlooked
<1>7. NothingSkipped'
    <2>1. origin = None => \A ch \in changes : ~(ch.seq <= cursor)
        <3> SUFFICES ASSUME origin = None, NEW ch \in changes
                     PROVE  ~(ch.seq <= cursor)
            OBVIOUS
        <3>1. cursor = 0
            BY <1>1 DEF StoreOK
        <3>2. ch.seq \in 1..sequence /\ sequence \in Nat
            BY ChangeFacts
        <3> QED
            BY <3>1, <3>2
    <2> QED
        BY <1>1, <1>2, <1>6, <2>1 DEF NothingSkipped
<1>8. SeenIsReflected'
    <2>1. \A ch \in changes' : ch \in changes /\ (Seen(ch)' <=> Seen(ch))
        BY <1>2 DEF Seen
    <2>2. \A ch \in changes : Seen(ch) => origin # None
        BY <1>1 DEF Seen, StoreOK
    <2> QED
        BY <1>1, <1>6, <2>1, <2>2, StaysReflected DEF SeenIsReflected
<1> QED
    BY <1>3, <1>4, <1>5, <1>7, <1>8 DEF DeliveryInv

\* A step of the device that leaves the inbox and the history as they are.
LEMMA DeviceStep ==
    ASSUME DeliveryInv, UNCHANGED <<server, store, history>>, Freshened,
           origin = None => local' = local,
           open' \subseteq Notes, faults' \in Nat, queue' \subseteq inbox,
           \A ch \in queue' : ch.seq \notin applied, RequestsOK', ApplyOK'
    PROVE  DeliveryInv'
<1>1. Watched /\ UNCHANGED reordered
    BY DEF Watched, history
<1> QED
    BY <1>1, ReadingStep

\* The same, of a step that takes its queue from the one before it.
LEMMA QueueStep ==
    ASSUME DeliveryInv, UNCHANGED <<server, store, history, open>>, Freshened,
           origin = None => local' = local,
           faults' \in {faults, faults + 1}, queue' \subseteq queue, RequestsOK', ApplyOK'
    PROVE  DeliveryInv'
<1>1. /\ queue \subseteq inbox /\ \A ch \in queue : ch.seq \notin applied
      /\ open \subseteq Notes /\ faults \in Nat
    BY DEF DeliveryInv, StoreOK, TypeOK
<1> QED
    BY <1>1, DeviceStep

\* The change being applied is a committed one, and the bootstrap is over.
LEMMA CurrentFacts ==
    ASSUME DeliveryInv, at \in Applying
    PROVE  /\ Current \in queue /\ Current \in inbox /\ Current \in changes
           /\ Current.note \in Notes /\ Current.rev \in Nat /\ Current.seq \in Nat
           /\ Current.seq \notin applied
           /\ origin # None
<1>1. queue # {} /\ queue \subseteq inbox /\ inbox \subseteq changes
    BY DEF DeliveryInv, ApplyOK, StoreOK
<1>2. \A ch \in queue : ch.seq \in Nat
    BY <1>1, ChangeFacts
<1>3. Current \in queue
    BY <1>1, <1>2, FirstIsOne DEF Current
<1>4. Current \in changes /\ Current.seq \notin applied
    BY <1>1, <1>3 DEF DeliveryInv, StoreOK
<1>5. origin # None
    BY <1>1 DEF DeliveryInv, StoreOK
<1> QED
    BY <1>1, <1>3, <1>4, <1>5, ChangeFacts

\* Ending the pass asks nothing of the requests and of the change in hand.
LEMMA EndedPass ==
    ASSUME EndPass
    PROVE  queue' = {} /\ RequestsOK' /\ ApplyOK'
BY DEF EndPass, RequestsOK, ApplyOK, Applying

LEMMA StartPassStep ==
    ASSUME DeliveryInv, StartPass
    PROVE  DeliveryInv'
<1>1. UNCHANGED <<server, store, documents, open, faults, history>>
    BY DEF StartPass
<1>2. TypeOK /\ StoreOK /\ RequestsOK
    BY DEF DeliveryInv
<1>3. CASE origin = None
    <2>1. at' = "marking" /\ queue' = queue
        BY <1>3 DEF StartPass, GoTo
    <2>2. RequestsOK' /\ ApplyOK'
        BY <1>1, <1>3, <2>1 DEF RequestsOK, ApplyOK, Applying, store
    <2> QED
        BY <1>1, <2>1, <2>2, QueueStep, Untouched DEF documents
<1>4. CASE origin # None
    <2>1. at' = "draining" /\ queue' = Pending
        BY <1>4 DEF StartPass, StartDrain
    <2>2. RequestsOK' /\ ApplyOK'
        BY <1>1, <1>4, <2>1 DEF RequestsOK, ApplyOK, Applying, store
    <2>3. queue' \subseteq inbox /\ \A ch \in queue' : ch.seq \notin applied
        BY <2>1 DEF Pending
    <2> QED
        BY <1>1, <1>2, <1>4, <2>2, <2>3, DeviceStep, Untouched DEF TypeOK
<1> QED
    BY <1>3, <1>4

LEMMA FetchMarkerStep ==
    ASSUME DeliveryInv, FetchMarker
    PROVE  DeliveryInv'
<1>1. /\ UNCHANGED <<server, store, documents, open, queue, faults, reordered>>
      /\ at = "marking" /\ at' = "listing"
      /\ fetched' = [mark |-> Watermark(0), above |-> None, todo |-> {}, docs |-> <<>>]
      /\ overlooked' = (overlooked \cap writing) \cup Overtaken(Watermark(0))
    BY DEF FetchMarker
<1>2. TypeOK /\ StoreOK /\ RequestsOK
    BY DEF DeliveryInv
<1>3. origin = None
    BY <1>1, <1>2 DEF RequestsOK
<1>4. Watermark(0) \in 0..sequence
    <2>1. sequence \in Nat /\ \A ch \in changes : ch.seq \in 1..sequence
        BY <1>2 DEF TypeOK, ChangeOK
    <2>2. Watermark(0) \in SeqsAnd(0, changes)
        BY <2>1, WatermarkCovers
    <2> QED
        BY <2>1, <2>2 DEF SeqsAnd
<1>5. RequestsOK'
    <2>1. /\ DOMAIN fetched' = {"mark", "above", "todo", "docs"}
          /\ fetched'.mark = Watermark(0) /\ fetched'.docs = <<>>
        BY <1>1
    <2>2. DOMAIN fetched'.docs = {}
        BY <2>1
    <2>3. Settled(fetched.mark)'
        BY <1>1, <1>4, <2>1 DEF Settled, Overtaken, server
    <2> QED
        BY <1>1, <1>3, <2>1, <2>2, <2>3 DEF RequestsOK, store
<1>6. ApplyOK'
    BY <1>1 DEF ApplyOK, Applying
<1>7. Watched
    BY <1>1, <1>3 DEF Watched, Overtaken
<1> QED
    BY <1>1, <1>2, <1>5, <1>6, <1>7, ReadingStep, Untouched DEF StoreOK, TypeOK, documents

LEMMA ListNotesStep ==
    ASSUME DeliveryInv, ListNotes
    PROVE  DeliveryInv'
<1>1. UNCHANGED <<server, store, documents, open, queue, faults, history>> /\ at = "listing"
      /\ at' \in {"listing", "loading"}
    BY DEF ListNotes
<1>2. RequestsOK
    BY DEF DeliveryInv
<1>3. DOMAIN fetched' = DOMAIN fetched /\ fetched'.mark = fetched.mark
      /\ fetched'.docs = fetched.docs
    BY <1>1, <1>2 DEF ListNotes, RequestsOK
<1>4. RequestsOK'
    <2>1. UNCHANGED <<origin, note, changes, sequence, writing, overlooked>>
        BY <1>1 DEF server, store, history
    <2>2. Settled(fetched.mark) => Settled(fetched.mark)'
        BY <1>3, <2>1 DEF Settled, Overtaken
    <2> QED
        BY <1>1, <1>2, <1>3, <2>1, <2>2 DEF RequestsOK, AsNewAs, Overlooked
<1>5. ApplyOK'
    BY <1>1 DEF ApplyOK, Applying
<1> QED
    BY <1>1, <1>4, <1>5, QueueStep, Untouched DEF documents

LEMMA LoadDocumentStep ==
    ASSUME DeliveryInv, LoadDocument
    PROVE  DeliveryInv'
<1>1. UNCHANGED <<server, store, documents, open, faults, history>> /\ at = "loading"
    BY DEF LoadDocument
<1>2. TypeOK /\ StoreOK /\ RequestsOK
    BY DEF DeliveryInv
<1>3. PICK n \in Notes :
        /\ n \in fetched.todo
        /\ IF Accessible(n)
           THEN /\ fetched' = [fetched EXCEPT !.todo = @ \ {n},
                       !.docs = [m \in DOMAIN @ \cup {n} |-> IF m = n THEN note[n].rev ELSE @[m]]]
                /\ UNCHANGED <<at, queue, ends>>
           ELSE EndPass
    BY DEF LoadDocument
<1>4. CASE EndPass
    BY <1>1, <1>4, EndedPass, QueueStep, Untouched DEF documents
<1>5. CASE Accessible(n)
    <2>1. at' = "loading" /\ queue' = queue
        BY <1>1, <1>3, <1>5
    <2>0. PICK old, docs :
            /\ old = fetched.docs
            /\ docs = [m \in DOMAIN old \cup {n} |-> IF m = n THEN note[n].rev ELSE old[m]]
        OBVIOUS
    <2>2. /\ DOMAIN fetched = {"mark", "above", "todo", "docs"}
          /\ Settled(fetched.mark) /\ DOMAIN old \subseteq Notes
          /\ \A m \in DOMAIN old :
              /\ old[m] \in Nat /\ old[m] <= note[m].rev
              /\ AsNewAs(m, old[m], fetched.mark)
        BY <1>1, <1>2, <2>0 DEF RequestsOK
    <2>3. fetched' = [fetched EXCEPT !.todo = @ \ {n}, !.docs = docs]
        BY <1>3, <1>5, <2>0
    <2>4. DOMAIN fetched' = DOMAIN fetched /\ fetched'.mark = fetched.mark /\ fetched'.docs = docs
        BY <2>2, <2>3
    <2>5. note[n].rev \in Nat /\ note[n].rev <= note[n].rev
        BY <1>2 DEF TypeOK
    <2>6. AsNewAs(n, note[n].rev, fetched.mark)
        <3>1. \A ch \in changes : ch.rev \in Nat /\ ch.rev <= note[ch.note].rev
            BY ChangeFacts
        <3> QED
            BY <2>5, <3>1 DEF AsNewAs
    <2>7. /\ DOMAIN docs \subseteq Notes
          /\ \A m \in DOMAIN docs : /\ docs[m] \in Nat /\ docs[m] <= note[m].rev
                                    /\ AsNewAs(m, docs[m], fetched.mark)
        BY <2>0, <2>2, <2>5, <2>6
    <2>8. RequestsOK'
        <3>1. origin = None
            BY <1>1, <1>2 DEF RequestsOK
        <3>2. UNCHANGED <<origin, note, changes, sequence, writing, overlooked>>
            BY <1>1 DEF server, store, history
        <3>3. Settled(fetched.mark)'
            BY <2>2, <2>4, <3>2 DEF Settled, Overtaken
        <3>4. \A m \in DOMAIN docs : /\ docs[m] \in Nat /\ docs[m] <= note'[m].rev
                                     /\ AsNewAs(m, docs[m], fetched.mark)'
            BY <2>4, <2>7, <3>2 DEF AsNewAs, Overlooked
        <3> QED
            BY <1>1, <2>1, <2>2, <2>4, <2>7, <3>1, <3>2, <3>3, <3>4 DEF RequestsOK
    <2>9. ApplyOK'
        BY <2>1 DEF ApplyOK, Applying
    <2> QED
        BY <1>1, <2>1, <2>8, <2>9, QueueStep, Untouched DEF documents
<1> QED
    BY <1>3, <1>4, <1>5

LEMMA CompleteBootstrapStep ==
    ASSUME DeliveryInv, CompleteBootstrap
    PROVE  DeliveryInv'
<1>1. /\ UNCHANGED <<server, inbox, applied, missed, open, faults, history>>
      /\ at = "loading" /\ at' = "draining" /\ queue' = Pending
      /\ cursor' = Larger(cursor, fetched.mark) /\ origin' = fetched.mark
      /\ local' = [n \in Notes |-> IF n \in DOMAIN fetched.docs THEN fetched.docs[n] ELSE local[n]]
    BY DEF CompleteBootstrap, StartDrain
<1>2. /\ TypeOK /\ ServerOK /\ StoreOK /\ RequestsOK
    BY DEF DeliveryInv
<1>3. UNCHANGED <<note, writing, changes, sequence, overlooked, reordered>>
    BY <1>1 DEF server, history
<1>4. /\ origin = None /\ cursor = 0 /\ inbox = {} /\ applied = {}
      /\ \A n \in Notes : local[n] = None
    BY <1>1, <1>2 DEF RequestsOK, StoreOK
<1>5. /\ Settled(fetched.mark) /\ DOMAIN fetched.docs \subseteq Notes
      /\ \A n \in DOMAIN fetched.docs :
          /\ fetched.docs[n] \in Nat /\ fetched.docs[n] <= note[n].rev
          /\ AsNewAs(n, fetched.docs[n], fetched.mark)
    BY <1>1, <1>2 DEF RequestsOK
<1>6. fetched.mark \in Nat /\ sequence \in Nat
    BY <1>2, <1>5 DEF Settled, TypeOK
<1>7. cursor' = fetched.mark
    BY <1>1, <1>4, <1>6 DEF Larger
<1>8. \A n \in Notes : \/ local'[n] = None
                       \/ n \in DOMAIN fetched.docs /\ local'[n] = fetched.docs[n]
    BY <1>1, <1>4
<1>9. TypeOK'
    <2>1. local' \in [Notes -> Nat \cup {None}]
        BY <1>1, <1>4, <1>5
    <2>2. queue' \subseteq inbox
        BY <1>1 DEF Pending
    <2> QED
        BY <1>1, <1>2, <1>3, <1>6, <1>7, <2>1, <2>2 DEF TypeOK, ChangeOK, WriterOK
<1>10. ServerOK'
    BY <1>2, <1>3 DEF ServerOK, WritersOK, RowsOK, ChangeOK, ChangesOK
<1>11. StoreOK'
    <2>1. Settled(cursor)' /\ Settled(origin)'
        BY <1>1, <1>3, <1>5, <1>7 DEF Settled, Overtaken
    <2>2. inbox' = {} /\ queue' = {} /\ applied' = {}
        BY <1>1, <1>4 DEF Pending
    <2>3. origin' # None /\ origin' <= cursor'
        BY <1>1, <1>6, <1>7
    <2>4. \A n \in Notes : local'[n] # None => local'[n] <= note'[n].rev
        BY <1>3, <1>5, <1>8
    <2> QED
        BY <2>1, <2>2, <2>3, <2>4 DEF StoreOK
<1>12. RequestsOK' /\ ApplyOK'
    BY <1>1, <1>6 DEF RequestsOK, ApplyOK, Applying
<1>13. NothingSkipped'
    BY <1>1, <1>3, <1>6, <1>7 DEF NothingSkipped
<1>14. SeenIsReflected'
    <2>1. ASSUME NEW ch \in changes', Seen(ch)'
          PROVE  Reflected(ch)' \/ Overlooked(ch)'
        <3>1. ch \in changes /\ ch.seq <= fetched.mark
            BY <1>1, <1>3, <1>4, <2>1 DEF Seen
        <3>2. ch.note \in Notes
            BY <3>1, ChangeFacts
        <3>3. CASE local'[ch.note] = None
            BY <3>3 DEF Reflected
        <3>4. CASE ch.note \in DOMAIN fetched.docs /\ local'[ch.note] = fetched.docs[ch.note]
            BY <1>3, <1>5, <3>1, <3>4 DEF Reflected, AsNewAs, Overlooked
        <3> QED
            BY <1>8, <3>2, <3>3, <3>4
    <2> QED
        BY <2>1 DEF SeenIsReflected
<1> QED
    BY <1>9, <1>10, <1>11, <1>12, <1>13, <1>14 DEF DeliveryInv

LEMMA FetchPageStep ==
    ASSUME DeliveryInv, FetchPage
    PROVE  DeliveryInv'
<1>1. /\ UNCHANGED <<server, store, documents, open, queue, faults, reordered>>
      /\ at = "fetching" /\ at' = "ingesting" /\ fetched' = Page(cursor)
      /\ overlooked' = overlooked \cup Overtaken(Page(cursor).cursor)
    BY DEF FetchPage
<1>2. TypeOK /\ ServerOK /\ StoreOK /\ RequestsOK
    BY DEF DeliveryInv
<1>3. UNCHANGED <<note, writing, changes, sequence, cursor, origin>>
    BY <1>1 DEF server, store
<1> DEFINE page == Page(cursor)
<1>4. /\ page.page \subseteq changes
      /\ page.cursor \in SeqsAnd(cursor, changes)
      /\ \A ch \in page.page : cursor < ch.seq /\ ch.seq <= page.cursor
      /\ \A ch \in changes : cursor < ch.seq /\ ch.seq <= page.cursor => ch \in page.page
      /\ cursor \in 0..sequence /\ sequence \in Nat
    <2>1. /\ sequence \in Nat /\ IsFiniteSet(changes) /\ cursor \in 0..sequence
          /\ \A ch \in changes : ch.seq \in 1..sequence
        BY <1>2 DEF TypeOK, ChangeOK, ServerOK, ChangesOK, StoreOK, Settled
    <2> QED
        BY <2>1, PageCovers
<1> HIDE DEF page
<1>5. page.cursor \in 0..sequence
    <2>1. \A ch \in changes : ch.seq \in 1..sequence
        BY ChangeFacts
    <2> QED
        BY <1>4, <2>1 DEF SeqsAnd
<1>6. fetched' = page /\ overlooked' = overlooked \cup Overtaken(page.cursor)
    BY <1>1 DEF page
<1>7. RequestsOK'
    <2>1. origin' # None
        BY <1>1, <1>2, <1>3 DEF RequestsOK
    <2>2. Settled(fetched.cursor)'
        BY <1>3, <1>5, <1>6 DEF Settled, Overtaken
    <2> QED
        BY <1>1, <1>3, <1>4, <1>6, <2>1, <2>2 DEF RequestsOK
<1>8. ApplyOK'
    BY <1>1 DEF ApplyOK, Applying
<1>9. Watched
    BY <1>6 DEF Watched, Overtaken
<1> QED
    BY <1>1, <1>2, <1>7, <1>8, <1>9, ReadingStep, Untouched DEF StoreOK, TypeOK, documents

LEMMA IngestStep ==
    ASSUME DeliveryInv, Ingest
    PROVE  DeliveryInv'
<1> DEFINE rows_ == inbox \cup fetched.page
<1>1. /\ UNCHANGED <<server, origin, applied, documents, open, faults, history>>
      /\ at = "ingesting" /\ at' = "draining"
      /\ inbox' = rows_ /\ cursor' = Larger(cursor, fetched.cursor)
      /\ queue' = {ch \in rows_ : ch.seq \notin applied}
    BY DEF Ingest, StartDrain
<1>2. TypeOK /\ ServerOK /\ StoreOK /\ RequestsOK /\ NothingSkipped /\ SeenIsReflected
    BY DEF DeliveryInv
<1>3. UNCHANGED <<note, writing, changes, sequence, local, missed, overlooked, reordered>>
    BY <1>1 DEF server, documents, history
<1>4. /\ origin # None /\ fetched.page \subseteq changes /\ Settled(fetched.cursor)
      /\ \A ch \in fetched.page : cursor < ch.seq /\ ch.seq <= fetched.cursor
      /\ \A ch \in changes : cursor < ch.seq /\ ch.seq <= fetched.cursor
                                => ch \in fetched.page \/ Overlooked(ch)
    BY <1>1, <1>2 DEF RequestsOK
<1>5. /\ rows_ \subseteq changes /\ inbox \subseteq rows_
      /\ \A ch \in rows_ : ch \in inbox \/ ch \in fetched.page
    BY <1>2, <1>4 DEF StoreOK
<1> HIDE DEF rows_
<1>6. /\ cursor' \in {cursor, fetched.cursor} /\ sequence \in Nat
      /\ cursor \in 0..sequence /\ fetched.cursor \in 0..sequence
      /\ cursor <= cursor' /\ fetched.cursor <= cursor'
    BY <1>1, <1>2, <1>4 DEF Larger, Settled, StoreOK, TypeOK
<1>7. TypeOK'
    <2>1. \A ch \in changes' \cup inbox' \cup queue' : ChangeOK(ch)'
        BY <1>1, <1>2, <1>3, <1>5 DEF TypeOK, ChangeOK
    <2> QED
        BY <1>1, <1>2, <1>3, <1>6, <2>1 DEF TypeOK, WriterOK
<1>8. ServerOK'
    BY <1>2, <1>3 DEF ServerOK, WritersOK, RowsOK, ChangeOK, ChangesOK
<1>9. StoreOK'
    <2>1. Settled(cursor)' /\ Settled(origin)'
        BY <1>1, <1>2, <1>3, <1>4, <1>6 DEF Settled, Overtaken, StoreOK
    <2>2. applied' \subseteq {ch.seq : ch \in inbox'}
        BY <1>1, <1>2, <1>5 DEF StoreOK
    <2>3. ASSUME NEW ch \in rows_
          PROVE  ch.seq <= cursor' /\ origin < ch.seq
        <3>1. ch.seq \in Nat /\ origin \in Nat /\ origin <= cursor /\ cursor \in Nat
            BY <1>2, <1>4, <1>5, ChangeFacts DEF StoreOK, TypeOK
        <3>2. CASE ch \in inbox
            BY <1>2, <1>4, <1>6, <3>1, <3>2 DEF StoreOK
        <3>3. CASE ch \in fetched.page
            BY <1>4, <1>6, <3>1, <3>3
        <3> QED
            BY <1>5, <3>2, <3>3
    <2>4. origin \in Nat /\ origin <= cursor'
        BY <1>2, <1>4, <1>6 DEF StoreOK, TypeOK
    <2> QED
        BY <1>1, <1>2, <1>3, <1>4, <1>5, <2>1, <2>2, <2>3, <2>4 DEF StoreOK
<1>10. RequestsOK' /\ ApplyOK'
    BY <1>1, <1>4 DEF RequestsOK, ApplyOK, Applying
<1>11. NothingSkipped'
    <2>1. ASSUME NEW ch \in changes, ch.seq <= cursor'
          PROVE  ch \in rows_ \/ ch.seq <= origin \/ Overlooked(ch)
        <3>1. ch.seq \in Nat
            BY ChangeFacts
        <3>2. CASE ch.seq <= cursor
            BY <1>2, <1>5, <3>2 DEF NothingSkipped
        <3>3. CASE cursor < ch.seq
            <4>1. ch.seq <= fetched.cursor
                BY <1>6, <2>1, <3>1, <3>3
            <4> QED
                BY <1>4, <3>3, <4>1 DEF rows_
        <3> QED
            BY <1>6, <3>1, <3>2, <3>3
    <2> QED
        BY <1>1, <1>3, <1>4, <2>1 DEF NothingSkipped, Overlooked
<1>12. SeenIsReflected'
    BY <1>1, <1>2, <1>3 DEF SeenIsReflected, Seen, Reflected, Overlooked
<1> QED
    BY <1>7, <1>8, <1>9, <1>10, <1>11, <1>12 DEF DeliveryInv

LEMMA MarkAppliedStep ==
    ASSUME DeliveryInv, MarkApplied
    PROVE  DeliveryInv'
<1>1. /\ UNCHANGED <<server, origin, cursor, inbox, documents, open, faults, overlooked>>
      /\ at = "settling" /\ at' = "draining"
      /\ applied' = applied \cup {Current.seq} /\ queue' = queue \ {Current}
      /\ reordered' \subseteq reordered \cup {Current.note}
    BY DEF MarkApplied
<1>2. TypeOK /\ ServerOK /\ StoreOK /\ ApplyOK /\ NothingSkipped /\ SeenIsReflected
    BY DEF DeliveryInv
<1>3. UNCHANGED <<note, writing, changes, sequence, local, missed>>
    BY <1>1 DEF server, documents
<1>4. /\ Current \in inbox /\ Current \in changes /\ Current \in queue /\ origin # None
      /\ Current.note \in Notes
    BY <1>1, CurrentFacts DEF Applying
<1>5. PICK one : one = Current
    OBVIOUS
<1>6. /\ one \in inbox /\ one \in changes /\ one.note \in Notes
      /\ applied' = applied \cup {one.seq} /\ queue' = queue \ {one}
      /\ reordered' \subseteq reordered \cup {one.note}
    BY <1>1, <1>4, <1>5
<1>7. Reflected(one) \/ one.note \in missed \/ Overlooked(one)
    BY <1>1, <1>2, <1>5 DEF ApplyOK
<1>8. TypeOK'
    <2>1. \A ch \in changes' \cup inbox' \cup queue' : ChangeOK(ch)'
        BY <1>1, <1>2, <1>3, <1>6 DEF TypeOK, ChangeOK
    <2> QED
        BY <1>1, <1>2, <1>3, <1>6, <2>1 DEF TypeOK, WriterOK
<1>9. ServerOK'
    BY <1>1, <1>2, <1>3 DEF ServerOK, WritersOK, RowsOK, ChangeOK, ChangesOK
<1>10. StoreOK'
    <2>1. ASSUME NEW ch \in queue'
          PROVE  ch.seq \notin applied'
        <3>1. ch \in queue /\ ch # one /\ ch \in changes
            BY <1>2, <1>6 DEF StoreOK
        <3>2. ch.seq # one.seq
            BY <1>2, <1>6, <3>1 DEF ServerOK, ChangesOK
        <3> QED
            BY <1>2, <1>6, <3>1, <3>2 DEF StoreOK
    <2>2. Settled(cursor)' /\ Settled(origin)'
        BY <1>1, <1>2, <1>3, <1>4 DEF StoreOK, Settled, Overtaken
    <2>3. applied' \subseteq {ch.seq : ch \in inbox'}
        BY <1>1, <1>2, <1>6 DEF StoreOK
    <2> QED
        BY <1>1, <1>2, <1>3, <1>4, <1>6, <2>1, <2>2, <2>3 DEF StoreOK
<1>11. RequestsOK' /\ ApplyOK'
    BY <1>1, <1>4 DEF RequestsOK, ApplyOK, Applying
<1>12. NothingSkipped'
    BY <1>1, <1>2, <1>3 DEF NothingSkipped, Overlooked
<1>13. SeenIsReflected'
    <2>1. ASSUME NEW ch \in changes, Seen(ch)'
          PROVE  Reflected(ch) \/ ch.note \in missed \/ Overlooked(ch)
        <3>1. CASE Seen(ch)
            BY <1>2, <3>1 DEF SeenIsReflected
        <3>2. CASE ch.seq = one.seq
            BY <1>2, <1>6, <1>7, <3>2 DEF ServerOK, ChangesOK
        <3> QED
            BY <1>1, <1>6, <2>1, <3>1, <3>2 DEF Seen
    <2> QED
        BY <1>1, <1>3, <2>1 DEF SeenIsReflected, Reflected, Overlooked
<1> QED
    BY <1>8, <1>9, <1>10, <1>11, <1>12, <1>13 DEF DeliveryInv

\* A step with the change in hand, which leaves the queue as it is.
LEMMA ApplyStep ==
    ASSUME DeliveryInv, at \in Applying, UNCHANGED <<server, store, open, queue, history>>,
           faults' \in {faults, faults + 1}, Freshened,
           at' \in Applying \ {"reconciling", "deleting"},
           at' = "polling" => Current.type = "note_changed",
           at' \in {"hydrating", "hydratingDocument"} =>
               Current.type \in {"note_changed", "note_access_changed"},
           at' \in {"hydrating", "settling"} =>
               \/ local'[Current.note] = None \/ local'[Current.note] >= Current.rev
               \/ Current.note \in missed' \/ Overlooked(Current)
    PROVE  DeliveryInv'
<1>1. queue # {} /\ origin # None
    BY CurrentFacts
<1>2. RequestsOK'
    BY DEF RequestsOK, Applying
<1>3. Current' = Current /\ overlooked' = overlooked
    BY DEF Current, First, history
<1>4. ApplyOK'
    BY <1>1, <1>3 DEF ApplyOK, Reflected, Overlooked
<1> QED
    BY <1>1, <1>2, <1>4, QueueStep

LEMMA BeginApplyStep ==
    ASSUME DeliveryInv, BeginApply
    PROVE  DeliveryInv'
<1> DEFINE left == queue \ Skipped
           ch == First(left)
<1>1. /\ UNCHANGED <<server, store, documents, open, faults, history>>
      /\ left # {} /\ queue' = left
      /\ at' = CASE ch.type = "note_changed" ->
                        IF ch.note \in open THEN "reconciling" ELSE "polling"
                [] ch.type = "note_access_changed" -> "hydrating"
                [] OTHER -> "deleting"
    BY DEF BeginApply, Skipped
<1>2. TypeOK /\ StoreOK
    BY DEF DeliveryInv
<1>3. left \subseteq queue /\ left \subseteq changes
    BY <1>2 DEF StoreOK
<1> HIDE DEF left
<1>4. ch \in left
    BY <1>1, <1>3, ChangeFacts, FirstIsOne
<1>5. /\ ch.note \in Notes /\ ch.rev \in Nat
      /\ ch.type = "note_access_changed" => ch.rev = 0
    BY <1>3, <1>4, ChangeFacts
<1>6. Current' = ch
    BY <1>1 DEF Current, First
<1> HIDE DEF ch
<1>7. /\ at' \in {"reconciling", "polling", "hydrating", "deleting"}
      /\ at' \in {"reconciling", "polling"} => ch.type = "note_changed"
      /\ at' = "hydrating" => ch.type = "note_access_changed"
    BY <1>1
<1>8. RequestsOK'
    BY <1>7 DEF RequestsOK
<1>9. at' = "hydrating" => Reflected(Current)'
    <2>1. local' = local /\ local[ch.note] \in Nat \cup {None}
        BY <1>1, <1>2, <1>5 DEF TypeOK, documents
    <2> QED
        BY <1>5, <1>6, <1>7, <2>1 DEF Reflected
<1>10. ApplyOK'
    BY <1>1, <1>6, <1>7, <1>9 DEF ApplyOK
<1> QED
    BY <1>1, <1>3, <1>8, <1>10, QueueStep, Untouched DEF documents

LEMMA FinishDrainStep ==
    ASSUME DeliveryInv, FinishDrain
    PROVE  DeliveryInv'
<1>1. UNCHANGED <<server, store, documents, open, faults, history>> /\ at = "draining"
    BY DEF FinishDrain
<1>2. CASE EndPass
    BY <1>1, <1>2, EndedPass, QueueStep, Untouched DEF documents
<1>3. CASE ~ends
    <2>1. at' = "fetching" /\ queue' = {} /\ ApplyOK'
        BY <1>3 DEF FinishDrain, ApplyOK, Applying
    <2>2. origin # None
        BY <1>1 DEF DeliveryInv, RequestsOK
    <2>3. RequestsOK'
        BY <1>1, <2>1, <2>2 DEF RequestsOK, store
    <2> QED
        BY <1>1, <2>1, <2>2, <2>3, QueueStep, Untouched
<1> QED
    BY <1>2, <1>3 DEF FinishDrain

\* The current document, pulled, is as new as the change.
LEMMA Pulled ==
    ASSUME DeliveryInv, at \in Applying, Pull(Current.note)
    PROVE  /\ Freshened
           /\ local'[Current.note] = None \/ local'[Current.note] >= Current.rev
<1>1. /\ Current \in changes /\ Current.note \in Notes /\ Current.rev \in Nat
      /\ note[Current.note].rev \in Nat /\ Current.rev <= note[Current.note].rev
    BY CurrentFacts, ChangeFacts
<1>2. CASE local[Current.note] = None
    BY <1>2, Untouched DEF Pull, documents
<1>3. CASE local[Current.note] # None
    <2>1. Keep(Current.note, note[Current.note].rev)
        BY <1>3 DEF Pull
    <2>2. Freshened /\ local'[Current.note] = note[Current.note].rev
        BY <1>1, <2>1, Kept
    <2> QED
        BY <1>1, <2>2
<1> QED
    BY <1>2, <1>3

LEMMA ReconcileActiveStep ==
    ASSUME DeliveryInv, ReconcileActive
    PROVE  DeliveryInv'
<1>1. /\ UNCHANGED <<server, store, open, queue, faults, history>>
      /\ at \in Applying /\ Current.type = "note_changed"
    BY DEF DeliveryInv, ApplyOK, ReconcileActive, GoTo, Applying
<1>2. CASE Pull(Current.note) /\ at' = "hydrating"
    BY <1>1, <1>2, Pulled, ApplyStep DEF Applying
<1>3. CASE UNCHANGED documents /\ at' = "polling"
    BY <1>1, <1>3, Untouched, ApplyStep DEF Applying
<1> QED
    BY <1>2, <1>3 DEF ReconcileActive, GoTo

LEMMA PollNoteStep ==
    ASSUME DeliveryInv, PollNote
    PROVE  DeliveryInv'
<1>1. /\ UNCHANGED <<server, store, open, faults, history>>
      /\ at \in Applying /\ Current.type = "note_changed"
    BY DEF DeliveryInv, ApplyOK, PollNote, Applying
<1>2. CASE /\ local[Current.note] = None \/ local[Current.note] >= Current.rev
           /\ UNCHANGED documents /\ GoTo("hydrating")
    BY <1>1, <1>2, Untouched, ApplyStep DEF Applying, GoTo, documents
<1>3. CASE Pull(Current.note) /\ GoTo("hydrating")
    BY <1>1, <1>3, Pulled, ApplyStep DEF Applying, GoTo
<1>4. CASE UNCHANGED documents /\ EndPass
    BY <1>1, <1>4, EndedPass, QueueStep, Untouched DEF documents
<1> QED
    BY <1>2, <1>3, <1>4 DEF PollNote

LEMMA HydrateStep ==
    ASSUME DeliveryInv, Hydrate
    PROVE  DeliveryInv'
<1>1. /\ UNCHANGED <<server, store, open, faults, history>> /\ at \in Applying
      /\ Reflected(Current) \/ Current.note \in missed \/ Overlooked(Current)
      /\ Current.type \in {"note_changed", "note_access_changed"}
    BY DEF DeliveryInv, ApplyOK, Hydrate, Applying
<1>2. CASE Keep(Current.note, None) /\ GoTo("settling")
    BY <1>1, <1>2, CurrentFacts, Kept, ApplyStep DEF Applying, GoTo
<1>3. CASE UNCHANGED documents /\ GoTo(IF local[Current.note] = None THEN "hydratingDocument"
                                                                    ELSE "settling")
    BY <1>1, <1>3, Untouched, ApplyStep DEF Applying, GoTo, documents, Reflected
<1> QED
    BY <1>2, <1>3 DEF Hydrate

LEMMA HydrateDocumentStep ==
    ASSUME DeliveryInv, HydrateDocument
    PROVE  DeliveryInv'
<1>1. UNCHANGED <<server, store, open, faults, history>> /\ at \in Applying
    BY DEF HydrateDocument, Applying
<1>2. CASE Keep(Current.note, note[Current.note].rev) /\ GoTo("settling")
    <2>1. /\ Current \in changes /\ Current.note \in Notes /\ Current.rev \in Nat
          /\ note[Current.note].rev \in Nat /\ Current.rev <= note[Current.note].rev
        BY <1>1, CurrentFacts, ChangeFacts
    <2>2. Freshened /\ local'[Current.note] = note[Current.note].rev
        BY <1>2, <2>1, Kept
    <2> QED
        BY <1>1, <1>2, <2>1, <2>2, ApplyStep DEF Applying, GoTo
<1>3. CASE UNCHANGED documents /\ EndPass
    BY <1>1, <1>3, EndedPass, QueueStep, Untouched DEF documents
<1> QED
    BY <1>2, <1>3 DEF HydrateDocument

LEMMA DeleteLocalStep ==
    ASSUME DeliveryInv, DeleteLocal
    PROVE  DeliveryInv'
<1>1. /\ UNCHANGED <<server, store, open, faults, history>> /\ at \in Applying
      /\ Keep(Current.note, None) /\ GoTo("settling")
    BY DEF DeleteLocal, Applying
<1> QED
    BY <1>1, CurrentFacts, Kept, ApplyStep DEF Applying, GoTo

LEMMA SessionErrorStep ==
    ASSUME DeliveryInv, SessionError
    PROVE  DeliveryInv'
<1>1. /\ UNCHANGED <<server, store, local, open, history>> /\ at \in Applying
      /\ GoTo("hydrating") /\ missed' = missed \cup {Current.note}
      /\ Current.type = "note_changed" /\ faults' = faults + 1
    BY DEF SessionError, FaultOf, Applying, DeliveryInv, ApplyOK
<1>2. Freshened
    BY <1>1, CurrentFacts DEF Freshened, DeliveryInv, TypeOK
<1> QED
    BY <1>1, <1>2, ApplyStep DEF Applying, GoTo

\* Requests and the change in hand stay as they are.
LEMMA PassUntouched ==
    ASSUME DeliveryInv, UNCHANGED <<server, store, documents, pass, history>>
    PROVE  RequestsOK' /\ ApplyOK'
<1>1. /\ UNCHANGED <<origin, cursor, note, changes, sequence, writing, overlooked, local, missed>>
      /\ UNCHANGED <<at, queue, fetched>>
    BY DEF server, store, documents, pass, history
<1>2. RequestsOK /\ ApplyOK
    BY DEF DeliveryInv
<1>3. RequestsOK'
    BY <1>1, <1>2 DEF RequestsOK, Settled, Overtaken, AsNewAs, Overlooked
<1>4. ApplyOK'
    BY <1>1, <1>2 DEF ApplyOK, Reflected, Overlooked, Current, First
<1> QED
    BY <1>3, <1>4

\* Opening and closing a note.
LEMMA UserStep ==
    ASSUME DeliveryInv, NEW n \in Notes, Open(n) \/ Close(n)
    PROVE  DeliveryInv'
<1>1. UNCHANGED <<server, store, documents, pass, faults, history>> /\ open' \subseteq Notes
    BY DEF DeliveryInv, TypeOK, Open, Close
<1>2. TypeOK /\ StoreOK
    BY DEF DeliveryInv
<1> QED
    BY <1>1, <1>2, PassUntouched, DeviceStep, Untouched DEF StoreOK, TypeOK, documents, pass

\* A request that fails, and the end of the application.
LEMMA EndStep ==
    ASSUME DeliveryInv, NetworkError \/ Crash
    PROVE  DeliveryInv'
<1>1. /\ UNCHANGED <<server, store, documents, history>> /\ EndPass /\ open' \subseteq Notes
      /\ faults' = faults + 1 /\ faults \in Nat
    BY DEF DeliveryInv, TypeOK, NetworkError, Crash, FaultOf
<1> QED
    BY <1>1, EndedPass, DeviceStep, Untouched DEF documents

LEMMA NextInv ==
    ASSUME DeliveryInv, [Next]_vars
    PROVE  DeliveryInv'
<1>1. CASE Writer
    BY <1>1, BeginStep, CommitStep, AbortStep DEF Writer
<1>2. CASE PassStep
    BY <1>2, StartPassStep, FetchMarkerStep, ListNotesStep, LoadDocumentStep,
       CompleteBootstrapStep, FetchPageStep, IngestStep, FinishDrainStep, BeginApplyStep,
       ReconcileActiveStep, PollNoteStep, HydrateStep, HydrateDocumentStep, DeleteLocalStep,
       MarkAppliedStep DEF PassStep
<1>3. CASE User
    BY <1>3, UserStep DEF User
<1>4. CASE Fault
    BY <1>4, SessionErrorStep, EndStep DEF Fault
<1>5. CASE UNCHANGED vars
    <2>1. UNCHANGED <<server, store, documents, open, pass, faults, history>>
        BY <1>5 DEF vars
    <2>2. TypeOK /\ StoreOK
        BY DEF DeliveryInv
    <2> QED
        BY <2>1, <2>2, PassUntouched, DeviceStep, Untouched DEF TypeOK, StoreOK, documents, pass
<1> QED
    BY <1>1, <1>2, <1>3, <1>4, <1>5 DEF Next

-------------------------------------------------------------------------------
(* A page of the listing.                                                  *)

\* The notes of `rest` that a listing puts before n.
Ahead(rest, n) == {m \in rest : Later(m, n)}

FirstPage(rest) == {n \in rest : Cardinality(Ahead(rest, n)) < PageSize}

LastOf(page) == CHOOSE n \in page : \A m \in page : ~Later(n, m)

\* The listing is a total order, and the number of notes before one rises
\* along it.
LEMMA LaterIsAnOrder ==
    ASSUME TypeOK, NEW m \in Notes, NEW n \in Notes
    PROVE  /\ m = n \/ Later(m, n) \/ Later(n, m)
           /\ ~Later(n, n)
           /\ \A k \in Notes : Later(k, m) /\ Later(m, n) => Later(k, n)
<1> DEFINE U(k) == note[k].updated
<1>1. \A k \in Notes : k \in Nat /\ U(k) \in Nat
    BY DEF TypeOK
<1>2. \A k \in Notes, l \in Notes : Later(k, l) <=> (U(k) > U(l) \/ (U(k) = U(l) /\ k > l))
    BY DEF Later
<1> HIDE DEF U
<1>3. /\ m \in Nat /\ n \in Nat /\ U(m) \in Nat /\ U(n) \in Nat
      /\ Later(m, n) <=> (U(m) > U(n) \/ (U(m) = U(n) /\ m > n))
      /\ Later(n, m) <=> (U(n) > U(m) \/ (U(n) = U(m) /\ n > m))
      /\ Later(n, n) <=> (U(n) > U(n) \/ (U(n) = U(n) /\ n > n))
    BY <1>1, <1>2
<1>4. (m = n \/ Later(m, n) \/ Later(n, m)) /\ ~Later(n, n)
    BY <1>3
<1>5. ASSUME NEW k \in Notes, Later(k, m), Later(m, n)
      PROVE  Later(k, n)
    <2>1. /\ k \in Nat /\ U(k) \in Nat
          /\ Later(k, m) <=> (U(k) > U(m) \/ (U(k) = U(m) /\ k > m))
          /\ Later(k, n) <=> (U(k) > U(n) \/ (U(k) = U(n) /\ k > n))
        BY <1>1, <1>2
    <2> QED
        BY <1>3, <1>5, <2>1
<1> QED
    BY <1>4, <1>5

LEMMA AheadRises ==
    ASSUME TypeOK, NEW rest \in SUBSET Notes
    PROVE  /\ \A n \in rest : Cardinality(Ahead(rest, n)) \in Nat /\ IsFiniteSet(Ahead(rest, n))
           /\ \A m, n \in rest : Later(m, n) =>
                Cardinality(Ahead(rest, m)) < Cardinality(Ahead(rest, n))
<1>1. ASSUME NEW n \in rest
      PROVE  Cardinality(Ahead(rest, n)) \in Nat /\ IsFiniteSet(Ahead(rest, n))
    <2>1. Ahead(rest, n) \in SUBSET Notes
        BY DEF Ahead
    <2>2. IsFiniteSet(Ahead(rest, n))
        BY <2>1, FS_Subset
    <2> QED
        BY <2>2, FS_CardinalityType
<1>2. ASSUME NEW m \in rest, NEW n \in rest, Later(m, n)
      PROVE  Cardinality(Ahead(rest, m)) < Cardinality(Ahead(rest, n))
    <2>1. /\ Ahead(rest, m) \in SUBSET Ahead(rest, n)
          /\ m \in Ahead(rest, n) /\ m \notin Ahead(rest, m)
        BY <1>2, LaterIsAnOrder DEF Ahead
    <2>2. /\ Cardinality(Ahead(rest, m)) <= Cardinality(Ahead(rest, n))
          /\ Cardinality(Ahead(rest, n)) = Cardinality(Ahead(rest, m)) =>
                Ahead(rest, n) = Ahead(rest, m)
        BY <1>1, <2>1, FS_Subset
    <2> QED
        BY <1>1, <2>1, <2>2
<1> QED
    BY <1>1, <1>2

\* A page that is not full holds all the rest; below a full one comes what
\* is not on it.
LEMMA PageLists ==
    ASSUME TypeOK, NEW rest \in SUBSET Notes
    PROVE  LET page == FirstPage(rest)
           IN  /\ IsFiniteSet(page) /\ page \subseteq rest
               /\ Cardinality(page) < PageSize => page = rest
               /\ page # {} => /\ LastOf(page) \in page
                               /\ \A n \in rest \ page : Later(LastOf(page), n)
<1> DEFINE page == {n \in rest : Cardinality(Ahead(rest, n)) < PageSize}
           last == CHOOSE n \in page : \A m \in page : ~Later(n, m)
           rank == [n \in rest |-> Cardinality(Ahead(rest, n))]
<1>1. /\ \A n \in rest : rank[n] \in Nat /\ IsFiniteSet(Ahead(rest, n))
      /\ \A m, n \in rest : Later(m, n) => rank[m] < rank[n]
    BY AheadRises
<1>2. IsFiniteSet(page) /\ page \subseteq rest /\ Cardinality(page) \in Nat
    <2>1. page \in SUBSET Notes
        OBVIOUS
    <2> QED
        BY <2>1, FS_Subset, FS_CardinalityType
<1>3. \A n \in rest : n \in page <=> rank[n] < PageSize
    OBVIOUS
<1>7. \A n \in rest : rank[n] = Cardinality(Ahead(rest, n))
    OBVIOUS
<1> HIDE DEF rank, page
<1>4. ASSUME Cardinality(page) < PageSize, NEW k \in rest \ page
      PROVE  FALSE
    <2> DEFINE R == {rank[n] : n \in rest \ page}
    <2>1. R \subseteq Nat /\ R # {}
        <3>1. \A n \in rest \ page : rank[n] \in Nat
            BY <1>1
        <3> QED
            BY <1>4, <3>1
    <2>2. PICK r \in R : \A t \in R : r <= t
        <3> HIDE DEF R
        <3> QED
            BY <2>1, LeastNumber
    <2>3. PICK n \in rest \ page : r = rank[n]
        BY <2>2
    <2>4. \A m \in rest \ page : rank[n] <= rank[m]
        BY <2>2, <2>3
    <2>5. Ahead(rest, n) \in SUBSET page
        <3> SUFFICES ASSUME NEW m \in Ahead(rest, n), m \notin page PROVE FALSE
            OBVIOUS
        <3>1. m \in rest \ page /\ Later(m, n)
            BY DEF Ahead
        <3>2. m \in rest /\ n \in rest
            BY <3>1
        <3>3. rank[m] < rank[n]
            BY <1>1, <3>1, <3>2, Zenon
        <3>4. rank[n] <= rank[m] /\ rank[m] \in Nat /\ rank[n] \in Nat
            BY <1>1, <2>4, <3>1, <3>2
        <3> QED
            BY <3>3, <3>4
    <2>6. rank[n] <= Cardinality(page)
        BY <1>2, <1>7, <2>5, FS_Subset
    <2> QED
        BY <1>1, <1>2, <1>3, <1>4, <2>3, <2>6
<1>5. ASSUME page # {}
      PROVE  last \in page /\ \A m \in page : ~Later(last, m)
    <2> DEFINE R == {PageSize - rank[n] : n \in page}
    <2>1. R \subseteq Nat /\ R # {}
        <3>1. \A n \in page : rank[n] \in Nat /\ rank[n] < PageSize
            BY <1>1, <1>2, <1>3
        <3>2. \A n \in page : PageSize - rank[n] \in Nat
            BY <3>1
        <3> QED
            BY <1>5, <3>2
    <2>2. PICK r \in R : \A t \in R : r <= t
        <3> HIDE DEF R
        <3> QED
            BY <2>1, LeastNumber
    <2>3. PICK n \in page : r = PageSize - rank[n]
        BY <2>2
    <2>4. \A m \in page : PageSize - rank[n] <= PageSize - rank[m]
        BY <2>2, <2>3
    <2>5. \A m \in page : ~Later(n, m)
        <3> SUFFICES ASSUME NEW m \in page, Later(n, m) PROVE FALSE
            OBVIOUS
        <3>1. rank[n] < rank[m] /\ rank[n] \in Nat /\ rank[m] \in Nat
            BY <1>1, <1>2
        <3> QED
            BY <2>4, <3>1
    <2> QED
        BY <2>5
<1>6. ASSUME page # {}, NEW n \in rest \ page
      PROVE  Later(last, n)
    <2>1. last \in page /\ last \in rest
        BY <1>2, <1>5, <1>6
    <2>2. rank[last] \in Nat /\ rank[n] \in Nat
        BY <1>1, <2>1
    <2>3. rank[last] < PageSize /\ ~(rank[n] < PageSize)
        BY <1>3, <2>1
    <2>5. Later(n, last) => rank[n] < rank[last]
        BY <1>1, <2>1
    <2>6. ~Later(n, last)
        <3> SUFFICES ASSUME rank[n] < rank[last] PROVE FALSE
            BY <2>5
        <3> QED
            BY <2>2, <2>3
    <2>7. n # last
        BY <2>1
    <2>4. n \in Notes /\ last \in Notes
        BY <1>6, <2>1
    <2> QED
        BY <2>4, <2>6, <2>7, LaterIsAnOrder
<1> QED
    BY <1>2, <1>4, <1>5, <1>6 DEF FirstPage, LastOf, page
-------------------------------------------------------------------------------
(* In sync: the server's steps.                                            *)

LEMMA InSyncInit ==
    ASSUME Init
    PROVE  InSyncInv
<1>1. changes = {} /\ origin = None /\ at = "waiting" /\ \A n \in Notes : local[n] = None
    BY DEF Init
<1> QED
    BY <1>1 DEF InSyncInv, HistoryOK, DocumentsOK, OrderOK, MissingOK, BootstrapOK

\* The excepted notes stay the same unless a transaction that was overlooked
\* commits or a share passes a revocation.
LEMMA SameExcepted ==
    ASSUME overlooked' \ writing' = overlooked \ writing, reordered' = reordered
    PROVE  Excepted' = Excepted
BY DEF Excepted

\* A step that moves neither notes, changes and documents nor what the
\* device is at.
LEMMA Unmoved ==
    ASSUME InSyncInv, UNCHANGED <<note, changes, origin, applied, local, pass>>,
           Excepted' = Excepted, HistoryOK'
    PROVE  InSyncInv'
<1>1. UNCHANGED <<at, queue, fetched>> /\ Current' = Current
    BY DEF pass, Current, First
<1>2. \A n : (RemovalPending(n)' <=> RemovalPending(n)) /\ (Accessible(n)' <=> Accessible(n))
    BY DEF RemovalPending, Seen, Accessible
<1>3. DocumentsOK'
    BY <1>1, <1>2 DEF InSyncInv, DocumentsOK, Announced
<1>4. MissingOK'
    BY <1>1, <1>2 DEF InSyncInv, MissingOK, Seen
<1>5. BootstrapOK'
    BY <1>1, <1>2 DEF InSyncInv, BootstrapOK, Unlisted, Announced
<1>6. OrderOK'
    BY DEF InSyncInv, OrderOK, Seen
<1> QED
    BY <1>3, <1>4, <1>5, <1>6 DEF InSyncInv

LEMMA BeginInSync ==
    ASSUME DeliveryInv, InSyncInv, NEW n \in Notes, NEW kind \in Kinds, Begin(n, kind)
    PROVE  InSyncInv'
<1>1. PICK w : /\ writing' = writing \cup {w} /\ w.seq = sequence + 1
               /\ UNCHANGED <<note, changes, store, documents, open, pass, faults, history>>
    BY DEF Begin
<1>2. /\ sequence \in Nat /\ \A v \in overlooked : v.seq \in 1..sequence
      /\ \A ch \in changes : ch.seq \in 1..sequence
    BY ChangeFacts DEF DeliveryInv, TypeOK, WriterOK
<1>3. overlooked' = overlooked /\ reordered' = reordered /\ w \notin overlooked
    BY <1>1, <1>2 DEF history
<1>4. Excepted' = Excepted
    BY <1>1, <1>3, SameExcepted
<1>5. \A ch \in changes : ch.seq < w.seq
    BY <1>1, <1>2
<1>6. HistoryOK'
    BY <1>1, <1>5 DEF InSyncInv, HistoryOK
<1> QED
    BY <1>1, <1>4, <1>6, Unmoved DEF store, documents

LEMMA AbortInSync ==
    ASSUME DeliveryInv, InSyncInv, Abort
    PROVE  InSyncInv'
<1>1. PICK w \in writing :
        /\ writing' = writing \ {w} /\ overlooked' = overlooked \ {w}
        /\ UNCHANGED <<note, changes, sequence, store, documents, open, pass, faults, reordered>>
    BY DEF Abort
<1>2. Excepted' = Excepted
    <2>1. overlooked' \ writing' = overlooked \ writing
        BY <1>1
    <2> QED
        BY <1>1, <2>1, SameExcepted
<1>3. HistoryOK'
    BY <1>1 DEF InSyncInv, HistoryOK
<1> QED
    BY <1>1, <1>2, <1>3, Unmoved DEF store, documents

\* What the transaction w commits: the row of its note, and the changes that
\* tell of it, which nobody has seen unless w was overlooked.
Commits(w) ==
    LET old == note[w.note]
        new == note'[w.note]
    IN  /\ w.note \in Notes /\ w.seq \in Nat
        /\ w.kind \in {"create", "edit", "delete", "share", "revoke"}
        /\ changes' = changes \cup w.rows /\ writing' = writing \ {w}
        /\ \A n \in Notes \ {w.note} : note'[n] = note[n]
        /\ Found(old, w.kind) /\ new.state # "absent"
        /\ OnShare(w.kind) => new.state = old.state
        /\ w.kind \in {"edit", "delete"} => new.role = old.role
        /\ w.kind \notin {"create", "edit"} => new.rev = old.rev
        /\ w.kind = "edit" => new.state = "live"
        /\ w.kind = "delete" => new.state = "deleted"
        /\ w.kind = "revoke" => new.role = "stranger"
        /\ \A ch \in w.rows :
            /\ ch.seq = w.seq /\ ch.note = w.note /\ ch \notin changes
            /\ ch.type = "note_deleted" <=> w.kind = "delete"
            /\ ch.type = "note_access_revoked" <=> w.kind = "revoke"
            /\ ch.type = "note_access_changed" <=> w.kind = "share"
            /\ ~OnShare(w.kind) => ch.rev = new.rev
            /\ Seen(ch)' => w \in overlooked
            /\ at \in {"listing", "loading"} /\ ~(ch.seq > fetched.mark) => w \in overlooked
        /\ w.rows = {} => /\ w.kind \in {"edit", "delete"}
                          /\ old.role = "stranger" \/ w \in overlooked
        /\ Excepted \subseteq Excepted'
        /\ w \in overlooked => w.note \in Excepted'

LEMMA CommitWrites ==
    ASSUME DeliveryInv, Commit
    PROVE  /\ \E w \in writing : Commits(w)
           /\ UNCHANGED <<origin, applied, local, at, queue, fetched>>
<1>1. TypeOK /\ WritersOK /\ ChangesOK /\ StoreOK /\ RequestsOK
    BY DEF DeliveryInv, ServerOK
<1>2. PICK w \in writing :
        /\ note' = [note EXCEPT ![w.note] = Written(@, w.kind, w.seq)]
        /\ changes' = changes \cup w.rows
        /\ writing' = writing \ {w}
        /\ overlooked' = overlooked \cup Unaddressed(w)
        /\ UNCHANGED <<sequence, store, documents, open, pass, faults, reordered>>
    BY DEF Commit
<1>3. UNCHANGED <<origin, applied, local, at, queue, fetched>>
    BY <1>2 DEF store, documents, pass
<1>4. /\ w.note \in Notes /\ w.kind \in Kinds /\ w.seq \in Nat
      /\ w.kind \in {"create", "edit", "delete", "share", "revoke"}
      /\ Found(note[w.note], w.kind) /\ RowsOK(w)
      /\ note[w.note] \in NoteRows /\ note \in [Notes -> NoteRows]
      /\ note[w.note].state = "absent" => note[w.note].rev = 0
    <2>1. w.note \in Notes /\ w.kind \in Kinds /\ w.seq \in Nat
        BY <1>1 DEF TypeOK, WriterOK
    <2>2. w.kind \in {"create", "edit", "delete", "share", "revoke"}
        BY <2>1
    <2>3. Found(note[w.note], w.kind) /\ RowsOK(w)
        BY <1>1 DEF WritersOK
    <2>4. note \in [Notes -> NoteRows] /\ note[w.note] \in NoteRows
        BY <1>1, <2>1 DEF TypeOK, NoteRows
    <2>5. note[w.note].state = "absent" => note[w.note].rev = 0
        BY <2>1 DEF DeliveryInv, ServerOK
    <2> QED
        BY <2>1, <2>2, <2>3, <2>4, <2>5
<1>5. PICK new : new = Written(note[w.note], w.kind, w.seq)
    OBVIOUS
<1>6. /\ RowGrows(note[w.note], new)
      /\ OnShare(w.kind) => new.state = note[w.note].state /\ new.rev = note[w.note].rev
      /\ w.kind \in {"edit", "delete"} => new.role = note[w.note].role
      /\ w.kind # "edit" /\ w.kind # "create" => new.rev = note[w.note].rev
      /\ w.kind = "delete" => new.state = "deleted"
      /\ w.kind = "revoke" => new.role = "stranger"
      /\ w.kind = "edit" => new.state = "live"
    BY ONLY <1>4, <1>5, WrittenRow
<1>7. /\ note'[w.note] = new /\ new.state # "absent"
      /\ \A n \in Notes \ {w.note} : note'[n] = note[n]
    BY <1>2, <1>4, <1>5, <1>6 DEF RowGrows
<1>8. \A ch \in w.rows :
        /\ ch.seq = w.seq /\ ch.note = w.note /\ ch \notin changes
        /\ ch.type = EventType(w.kind)
        /\ ~OnShare(w.kind) => ch.rev = new.rev
    <2>1. \A ch \in changes : ch.seq # w.seq
        BY ChangeFacts
    <2>2. \A ch \in w.rows : ch.rev = Told(note[w.note], w.kind, w.seq)
        BY <1>1 DEF WritersOK
    <2> QED
        BY <1>4, <1>5, <2>1, <2>2 DEF RowsOK, Told
<1>9. /\ EventType(w.kind) = "note_deleted" <=> w.kind = "delete"
      /\ EventType(w.kind) = "note_access_revoked" <=> w.kind = "revoke"
      /\ EventType(w.kind) = "note_access_changed" <=> w.kind = "share"
    BY <1>4, EventTypes_
<1>10. ASSUME NEW ch \in w.rows, Seen(ch)'
       PROVE  w \in overlooked
    <2>1. ch.seq = w.seq /\ (w.seq \in applied \/ (origin # None /\ w.seq <= origin))
        BY <1>3, <1>8, <1>10 DEF Seen
    <2>2. w.seq \notin applied
        <3> SUFFICES ASSUME NEW d \in inbox, d.seq = w.seq PROVE FALSE
            BY <1>1 DEF StoreOK
        <3>1. d \in changes
            BY <1>1 DEF StoreOK
        <3> QED
            BY <3>1, ChangeFacts
    <2>3. Settled(origin) /\ w.seq <= origin
        BY <1>1, <2>1, <2>2 DEF StoreOK
    <2> QED
        BY <2>3 DEF Settled, Overtaken
<1>11. ASSUME NEW ch \in w.rows, at \in {"listing", "loading"}, ~(ch.seq > fetched.mark)
       PROVE  w \in overlooked
    <2>1. Settled(fetched.mark) /\ fetched.mark \in 0..sequence /\ sequence \in Nat
        BY <1>1, <1>11 DEF RequestsOK, Settled, TypeOK
    <2>2. w.seq <= fetched.mark
        BY <1>4, <1>8, <1>11, <2>1
    <2> QED
        BY <2>1, <2>2 DEF Settled, Overtaken
<1>12. w.rows = {} => /\ w.kind \in {"edit", "delete"}
                      /\ note[w.note].role = "stranger" \/ w \in overlooked
    BY <1>1 DEF WritersOK
<1>13. /\ Excepted \subseteq Excepted'
       /\ w \in overlooked => w.note \in Excepted'
    <2>1. /\ overlooked \ writing \subseteq overlooked' \ writing'
          /\ w \in overlooked => w \in overlooked' \ writing'
        BY <1>2
    <2> QED
        BY <1>2, <2>1 DEF Excepted
<1>14. Commits(w)
    BY <1>2, <1>4, <1>6, <1>7, <1>8, <1>9, <1>10, <1>11, <1>12, <1>13 DEF Commits
<1> QED
    BY <1>3, <1>14

\* Whoever could see a note still can, and hears of its new revision; or it
\* is being removed.
LEMMA StaysAnnounced ==
    ASSUME NEW w \in writing, Commits(w), NEW n \in Notes \ Excepted', Accessible(n)
    PROVE  \/ /\ Accessible(n)'
              /\ \A rev \in Nat : Announced(n, rev) => Announced(n, rev)'
           \/ \E ch \in w.rows : Removal(ch, n)
<1>1. CASE n # w.note
    <2>1. note'[n] = note[n] /\ changes \subseteq changes'
        BY <1>1 DEF Commits
    <2> QED
        BY <2>1 DEF Accessible, Announced
<1>2. CASE n = w.note
    <2>1. /\ note[n].state = "live" /\ note[n].role # "stranger" /\ w \notin overlooked
          /\ w.rows # {} /\ changes' = changes \cup w.rows
        BY <1>2 DEF Commits, Accessible
    <2>2. PICK ch \in w.rows : TRUE
        BY <2>1
    <2>3. w.kind # "create" /\ w.kind # "share"
        BY <1>2, <2>1 DEF Commits, Found, Permitted, OnShare
    <2>4. CASE w.kind = "edit"
        <3>1. /\ note'[n].state = "live" /\ note'[n].role = note[n].role
              /\ ch.note = n /\ ch.rev = note'[n].rev
            BY <1>2, <2>2, <2>4 DEF Commits, OnShare
        <3> QED
            BY <2>1, <2>2, <3>1 DEF Accessible, Announced
    <2>5. CASE w.kind \in {"delete", "revoke"}
        BY <1>2, <2>2, <2>5 DEF Commits, Removal, Lost
    <2> QED
        BY <2>3, <2>4, <2>5 DEF Commits
<1> QED
    BY <1>1, <1>2

\* Whoever sees a note for the first time, hears of it.
LEMMA NewsArrives ==
    ASSUME NEW w \in writing, Commits(w), NEW n \in Notes \ Excepted', Accessible(n)',
           n = w.note
    PROVE  w \notin overlooked /\ \E ch \in w.rows : ch.note = n
<1>1. w \notin overlooked
    BY DEF Commits
<1>2. ASSUME w.rows = {}
      PROVE  FALSE
    <2>1. /\ w.kind \in {"edit", "delete"} /\ note[n].role = "stranger"
          /\ note'[n].role = note[n].role
        BY <1>1, <1>2 DEF Commits
    <2> QED
        BY <2>1 DEF Accessible
<1>3. \A ch \in w.rows : ch.note = n
    BY DEF Commits
<1> QED
    BY <1>1, <1>2, <1>3

LEMMA CommitHistory ==
    ASSUME DeliveryInv, HistoryOK, NEW w \in writing, Commits(w)
    PROVE  HistoryOK'
<1>1. \A ch \in changes : ch.note \in Notes
    BY ChangeFacts
<1>2. WritersOK
    BY DEF DeliveryInv, ServerOK
<1>3. ASSUME NEW ch \in changes, ch.note = w.note
      PROVE  w.kind # "create"
    <2>1. note[w.note].state # "absent"
        BY <1>3 DEF HistoryOK
    <2> QED
        BY <2>1 DEF Commits, Found, Permitted, OnShare
<1>4. ASSUME NEW ch \in changes'
      PROVE  note'[ch.note].state # "absent"
    <2>1. CASE ch.note = w.note
        BY <2>1 DEF Commits
    <2>2. CASE ch.note # w.note
        <3>1. ch \in changes
            BY <2>2 DEF Commits
        <3> QED
            BY <1>1, <2>2, <3>1 DEF Commits, HistoryOK
    <2> QED
        BY <2>1, <2>2
<1>5. ASSUME NEW ch \in changes', ch.type = "note_deleted"
      PROVE  note'[ch.note].state = "deleted"
    <2>1. CASE ch \in w.rows
        BY <1>5, <2>1 DEF Commits
    <2>2. CASE ch \in changes /\ ch.note # w.note
        BY <1>1, <1>5, <2>2 DEF Commits, HistoryOK
    <2>3. CASE ch \in changes /\ ch.note = w.note
        <3>1. note[w.note].state = "deleted"
            BY <1>5, <2>3 DEF HistoryOK
        <3>2. OnShare(w.kind)
            BY <3>1 DEF Commits, Found, Permitted, OnShare
        <3> QED
            BY <2>3, <3>1, <3>2 DEF Commits
    <2> QED
        BY <2>1, <2>2, <2>3 DEF Commits
<1>6. ASSUME NEW ch \in changes', ch.type = "note_access_revoked",
             NEW v \in writing', v.note = ch.note, v.kind = "share"
      PROVE  ch.seq < v.seq
    <2>1. v \in writing /\ v # w
        BY DEF Commits
    <2>2. CASE ch \in changes
        BY <1>6, <2>1, <2>2 DEF HistoryOK
    <2>3. CASE ch \in w.rows
        <3>1. w.kind = "revoke" /\ v.note = w.note
            BY <1>6, <2>3 DEF Commits
        <3> QED
            BY <1>2, <1>6, <2>1, <3>1 DEF WritersOK, OnShare
    <2> QED
        BY <2>2, <2>3 DEF Commits
<1>7. ASSUME NEW ch \in changes', ch.type = "note_access_revoked",
             note'[ch.note].role # "stranger"
      PROVE  \E d \in changes' : /\ d.note = ch.note /\ d.type = "note_access_changed"
                                 /\ ch.seq < d.seq
    <2>1. ch \in changes
        BY <1>7 DEF Commits
    <2>2. CASE w.kind = "share" /\ ch.note = w.note
        <3>1. ch.seq < w.seq
            BY <1>7, <2>1, <2>2 DEF HistoryOK
        <3>2. PICK d \in w.rows : TRUE
            BY <2>2 DEF Commits
        <3> QED
            BY <2>2, <3>1, <3>2 DEF Commits
    <2>3. CASE ~(w.kind = "share" /\ ch.note = w.note)
        <3>1. note[ch.note].role # "stranger"
            <4>1. CASE ch.note # w.note
                BY <1>1, <1>7, <2>1, <4>1 DEF Commits
            <4>2. CASE ch.note = w.note
                <5>1. w.kind \in {"edit", "delete"}
                    BY <1>3, <1>7, <2>1, <2>3, <4>2 DEF Commits
                <5> QED
                    BY <1>7, <4>2, <5>1 DEF Commits
            <4> QED
                BY <4>1, <4>2
        <3>2. PICK d \in changes : /\ d.note = ch.note /\ d.type = "note_access_changed"
                                   /\ ch.seq < d.seq
            BY <1>7, <2>1, <3>1 DEF HistoryOK
        <3> QED
            BY <3>2 DEF Commits
    <2> QED
        BY <2>2, <2>3
<1> QED
    BY <1>4, <1>5, <1>6, <1>7 DEF HistoryOK

LEMMA CommitInSync ==
    ASSUME DeliveryInv, InSyncInv, Commit
    PROVE  InSyncInv'
<1>1. /\ HistoryOK /\ DocumentsOK /\ OrderOK /\ MissingOK /\ BootstrapOK
      /\ TypeOK /\ StoreOK /\ RequestsOK
    BY DEF InSyncInv, DeliveryInv
<1>2. UNCHANGED <<origin, applied, local, at, queue, fetched>>
    BY CommitWrites
<1>3. PICK w \in writing : Commits(w)
    BY CommitWrites
<1>4. /\ changes' = changes \cup w.rows /\ w.note \in Notes
      /\ \A n \in Notes \ {w.note} : note'[n] = note[n]
      /\ \A ch \in w.rows : ch.seq = w.seq /\ ch.note = w.note /\ ch \notin changes
      /\ \A n \in Notes \ Excepted' : n \notin Excepted
      /\ w.note \notin Excepted' => w \notin overlooked
    BY <1>3 DEF Commits
<1>5. w \notin overlooked => \A ch \in w.rows :
          ~Seen(ch)' /\ (at \in {"listing", "loading"} => ch.seq > fetched.mark)
    BY <1>3 DEF Commits
<1>6. \A ch \in changes : (Seen(ch)' <=> Seen(ch)) /\ ch.note \in Notes
    BY <1>2, ChangeFacts DEF Seen
<1>7. Current' = Current /\ (at \in Applying => Current \in changes /\ Current.note \in Notes)
    BY <1>2, CurrentFacts DEF Current, First
<1>8. \A n \in Notes : RemovalPending(n) => RemovalPending(n)'
    BY <1>4, <1>6 DEF RemovalPending
<1>9. \A n \in Notes \ Excepted' : (\E ch \in w.rows : Removal(ch, n)) => RemovalPending(n)'
    BY <1>4, <1>5 DEF RemovalPending, Removal
<1>10. HistoryOK'
    BY <1>1, <1>3, CommitHistory
<1>11. DocumentsOK'
    <2>1. ASSUME NEW n \in Notes \ Excepted', local[n] # None
          PROVE  (Accessible(n)' /\ Announced(n, local[n])') \/ RemovalPending(n)'
        <3>1. local[n] \in Nat /\ n \in Notes \ Excepted
            BY <1>1, <1>4, <2>1 DEF TypeOK
        <3>2. (Accessible(n) /\ Announced(n, local[n])) \/ RemovalPending(n)
            BY <1>1, <2>1, <3>1 DEF DocumentsOK
        <3>3. CASE RemovalPending(n)
            BY <1>8, <3>3
        <3>4. CASE Accessible(n) /\ Announced(n, local[n])
            <4>1. CASE \E ch \in w.rows : Removal(ch, n)
                BY <1>9, <4>1
            <4>2. CASE /\ Accessible(n)'
                       /\ \A rev \in Nat : Announced(n, rev) => Announced(n, rev)'
                BY <1>2, <3>1, <3>4, <4>2 DEF Announced
            <4> QED
                BY <1>3, <3>4, <4>1, <4>2, StaysAnnounced
        <3> QED
            BY <3>2, <3>3, <3>4
    <2>2. ASSUME at = "hydratingDocument"
          PROVE  \/ Current.note \in Excepted' \/ Accessible(Current.note)'
                 \/ RemovalPending(Current.note)'
        <3>1. PICK n \in Notes : n = Current.note
            BY <1>7, <2>2 DEF Applying
        <3>2. n \notin Excepted' => Accessible(n) \/ RemovalPending(n)
            BY <1>1, <1>4, <2>2, <3>1 DEF DocumentsOK
        <3>3. n \notin Excepted' /\ Accessible(n) =>
                Accessible(n)' \/ \E ch \in w.rows : Removal(ch, n)
            BY <1>3, StaysAnnounced
        <3>4. n \in Excepted' \/ Accessible(n)' \/ RemovalPending(n)'
            BY <1>8, <1>9, <3>2, <3>3
        <3> QED
            BY <1>7, <3>1, <3>4 DEF Accessible, RemovalPending
    <2> QED
        BY <1>1, <1>2, <1>7, <2>1, <2>2 DEF DocumentsOK, Announced, Accessible, RemovalPending
<1>12. OrderOK'
    <2> SUFFICES ASSUME NEW r \in changes', NEW ch \in changes',
                        r.type = "note_access_revoked", ch.type = "note_access_changed",
                        r.note = ch.note, r.note \notin Excepted', r.seq < ch.seq, Seen(ch)'
                 PROVE  Seen(r)'
        BY DEF OrderOK
    <2>1. ch \in changes
        BY <1>4, <1>5
    <2>2. r \in changes
        <3> SUFFICES ASSUME r \in w.rows PROVE FALSE
            BY <1>4
        <3>1. w.seq < ch.seq /\ w \notin overlooked /\ Seen(ch)
            BY <1>4, <1>6, <2>1
        <3> QED
            BY <2>1, <3>1, SeenIsSettled
    <2>3. r.note \notin Excepted
        BY <1>4, <1>6, <2>2
    <2> QED
        BY <1>1, <1>6, <2>1, <2>2, <2>3 DEF OrderOK
<1>13. MissingOK'
    <2> SUFFICES ASSUME NEW n \in Notes \ Excepted', Accessible(n)', local[n] = None, origin # None
                 PROVE  \E ch \in changes' : /\ ch.note = n /\ ~Seen(ch)'
                                             /\ ~(at = "settling" /\ ch = Current)
        BY <1>2, <1>7 DEF MissingOK
    <2>1. CASE n = w.note
        <3>1. w \notin overlooked /\ \E ch \in w.rows : ch.note = n
            BY <1>3, <2>1, NewsArrives
        <3>2. PICK ch \in w.rows : ch.note = n
            BY <3>1
        <3>3. ~(at = "settling" /\ ch = Current)
            BY <1>4, <1>7, <3>2 DEF Applying
        <3> QED
            BY <1>4, <1>5, <3>1, <3>2, <3>3
    <2>2. CASE n # w.note
        <3>1. Accessible(n) /\ n \notin Excepted
            BY <1>4, <2>2 DEF Accessible
        <3>2. PICK ch \in changes : /\ ch.note = n /\ ~Seen(ch)
                                    /\ ~(at = "settling" /\ ch = Current)
            BY <1>1, <3>1 DEF MissingOK
        <3> QED
            BY <1>4, <1>6, <3>2
    <2> QED
        BY <2>1, <2>2
<1>14. BootstrapOK'
    <2> SUFFICES ASSUME at \in {"listing", "loading"} PROVE BootstrapOK'
        BY <1>2 DEF BootstrapOK
    <2>1. /\ DOMAIN fetched.docs \subseteq Notes
          /\ \A n \in DOMAIN fetched.docs : fetched.docs[n] \in Nat
        BY <1>1 DEF RequestsOK
    <2>2. ASSUME NEW n \in Notes \ Excepted', Accessible(n)'
          PROVE  \/ n \in fetched.todo \cup DOMAIN fetched.docs
                 \/ at = "listing" /\ Unlisted(n)'
                 \/ \E ch \in changes' : ch.note = n /\ ch.seq > fetched.mark
        <3>1. CASE n = w.note
            <4>1. w \notin overlooked /\ \E ch \in w.rows : ch.note = n
                BY <1>3, <2>2, <3>1, NewsArrives
            <4> QED
                BY <1>4, <1>5, <4>1
        <3>2. CASE n # w.note
            <4>1. note'[n] = note[n] /\ n \notin Excepted
                BY <1>4, <3>2
            <4>2. Accessible(n) /\ (Unlisted(n)' <=> Unlisted(n))
                BY <1>2, <2>2, <4>1 DEF Accessible, Unlisted
            <4> QED
                BY <1>1, <1>4, <4>1, <4>2 DEF BootstrapOK
        <3> QED
            BY <3>1, <3>2
    <2>3. ASSUME NEW n \in DOMAIN fetched.docs, n \notin Excepted'
          PROVE  \/ Accessible(n)' /\ Announced(n, fetched.docs[n])'
                 \/ \E ch \in changes' : Removal(ch, n) /\ ch.seq > fetched.mark
        <3>1. n \in Notes /\ n \notin Excepted /\ fetched.docs[n] \in Nat
            BY <1>4, <2>1, <2>3
        <3>2. CASE \E ch \in changes : Removal(ch, n) /\ ch.seq > fetched.mark
            BY <1>4, <3>2
        <3>3. CASE \E ch \in w.rows : Removal(ch, n)
            BY <1>4, <1>5, <2>3, <3>3 DEF Removal
        <3>4. CASE /\ Accessible(n)' /\ Announced(n, fetched.docs[n])
                   /\ \A rev \in Nat : Announced(n, rev) => Announced(n, rev)'
            BY <1>2, <3>1, <3>4 DEF Announced
        <3>5. \/ Accessible(n) /\ Announced(n, fetched.docs[n])
              \/ \E ch \in changes : Removal(ch, n) /\ ch.seq > fetched.mark
            BY <1>1, <2>3, <3>1 DEF BootstrapOK
        <3> QED
            BY <1>3, <2>3, <3>1, <3>2, <3>3, <3>4, <3>5, StaysAnnounced
    <2> QED
        BY <1>2, <2>2, <2>3 DEF BootstrapOK, Announced
<1> QED
    BY <1>10, <1>11, <1>12, <1>13, <1>14 DEF InSyncInv

-------------------------------------------------------------------------------
(* In sync: the steps of the pass.                                         *)

\* What a step of the device leaves alone.
Still == UNCHANGED <<note, changes, writing, origin, applied, local>>

\* No step of the device but the fetching of a marker and the applying of a
\* share moves the history that counts.
LEMMA StillExcepted ==
    ASSUME UNCHANGED <<server, history>>
    PROVE  Excepted' = Excepted
BY SameExcepted DEF server, history

\* What the user may see, and what is pending, depends on the server and on
\* what is marked applied.
LEMMA SameView ==
    ASSUME UNCHANGED <<note, changes, writing, origin, applied>>
    PROVE  /\ \A ch : Seen(ch)' <=> Seen(ch)
           /\ \A n : /\ RemovalPending(n)' <=> RemovalPending(n)
                     /\ Accessible(n)' <=> Accessible(n)
                     /\ \A rev : Announced(n, rev)' <=> Announced(n, rev)
           /\ HistoryOK' <=> HistoryOK
<1>1. \A ch : Seen(ch)' <=> Seen(ch)
    BY DEF Seen
<1>2. \A n : /\ RemovalPending(n)' <=> RemovalPending(n)
             /\ Accessible(n)' <=> Accessible(n)
             /\ \A rev : Announced(n, rev)' <=> Announced(n, rev)
    BY DEF RemovalPending, Seen, Accessible, Announced
<1>3. HistoryOK' <=> HistoryOK
    BY DEF HistoryOK
<1> QED
    BY <1>1, <1>2, <1>3

\* A step that moves no document and marks nothing applied, outside of a
\* bootstrap.
LEMMA QuietStep ==
    ASSUME DeliveryInv, InSyncInv, Still, Excepted' = Excepted,
           at' \notin {"listing", "loading", "settling"},
           at' = "deleting" => Lost(Current)',
           at' = "hydratingDocument" => Accessible(Current.note)'
    PROVE  InSyncInv'
<1>1. UNCHANGED <<note, changes, writing, origin, applied, local>>
    BY DEF Still
<1>2. /\ \A ch : Seen(ch)' <=> Seen(ch)
      /\ \A n : (RemovalPending(n)' <=> RemovalPending(n)) /\ (Accessible(n)' <=> Accessible(n))
      /\ HistoryOK' <=> HistoryOK
    BY <1>1, SameView
<1>3. DocumentsOK'
    BY <1>1, <1>2 DEF InSyncInv, DocumentsOK, Announced
<1>4. MissingOK'
    BY <1>1, <1>2 DEF InSyncInv, MissingOK
<1>5. BootstrapOK'
    BY DEF BootstrapOK
<1>6. OrderOK'
    BY <1>1, <1>2 DEF InSyncInv, OrderOK
<1> QED
    BY <1>2, <1>3, <1>4, <1>5, <1>6 DEF InSyncInv

\* The note in hand is taken to the server's revision.
LEMMA Brought ==
    ASSUME DeliveryInv, InSyncInv, at \in Applying, Accessible(Current.note),
           Keep(Current.note, note[Current.note].rev),
           UNCHANGED <<server, store, queue, history>>,
           at' \in {"hydrating", "settling"}, at' = "settling" => ~Lost(Current)
    PROVE  InSyncInv'
<1>1. PICK n \in Notes : /\ n = Current.note /\ Accessible(n) /\ Keep(n, note[n].rev)
    BY CurrentFacts
<1>2. /\ local'[n] = note[n].rev /\ local'[n] # None /\ note[n].rev \in Nat
      /\ \A m \in Notes \ {n} : local'[m] = local[m]
    <2>1. local \in [Notes -> Nat \cup {None}] /\ note[n].rev \in Nat
        BY <1>1 DEF DeliveryInv, TypeOK
    <2> QED
        BY <1>1, <2>1, BoundsAssumption DEF Keep
<1>3. Current' = Current /\ UNCHANGED <<note, changes, writing, origin, applied>>
    BY DEF Current, First, server, store
<1>4. /\ \A ch : Seen(ch)' <=> Seen(ch)
      /\ \A m : (RemovalPending(m)' <=> RemovalPending(m)) /\ (Accessible(m)' <=> Accessible(m))
      /\ HistoryOK' <=> HistoryOK
    BY <1>3, SameView
<1>5. Excepted' = Excepted
    BY StillExcepted
<1>6. DocumentsOK'
    <2>1. ASSUME NEW m \in Notes \ Excepted, local'[m] # None
          PROVE  (Accessible(m)' /\ Announced(m, local[m])') \/ RemovalPending(m)'
        <3>1. CASE m = n
            BY <1>1, <1>2, <1>3, <1>4, <3>1 DEF Announced
        <3>2. CASE m # n
            BY <1>2, <1>3, <1>4, <2>1, <3>2 DEF InSyncInv, DocumentsOK, Announced
        <3> QED
            BY <3>1, <3>2
    <2>2. at' \notin {"deleting", "hydratingDocument"} /\ (at' = "settling" => ~Lost(Current)')
        BY <1>3 DEF Lost
    <2> QED
        BY <1>5, <2>1, <2>2 DEF DocumentsOK
<1>7. MissingOK'
    <2> SUFFICES ASSUME NEW m \in Notes \ Excepted, Accessible(m), local'[m] = None, origin # None
                 PROVE  \E ch \in changes : /\ ch.note = m /\ ~Seen(ch)
                                            /\ ~(at' = "settling" /\ ch = Current)
        BY <1>3, <1>4, <1>5 DEF MissingOK
    <2>1. m # n /\ local[m] = None
        BY <1>2
    <2>2. PICK ch \in changes : ch.note = m /\ ~Seen(ch)
        BY <2>1 DEF InSyncInv, MissingOK
    <2>3. ch # Current
        BY <1>1, <2>1, <2>2
    <2> QED
        BY <2>2, <2>3
<1>8. BootstrapOK'
    BY DEF BootstrapOK
<1>9. OrderOK'
    BY <1>3, <1>4, <1>5 DEF InSyncInv, OrderOK
<1> QED
    BY <1>4, <1>6, <1>7, <1>8, <1>9 DEF InSyncInv

\* The note in hand leaves the device: the user may not see it, or it was
\* withdrawn and what came after is still to be applied.
LEMMA Removed ==
    ASSUME DeliveryInv, InSyncInv, at \in Applying, ~Accessible(Current.note) \/ Lost(Current),
           Keep(Current.note, None),
           UNCHANGED <<server, store, queue, history>>, at' = "settling"
    PROVE  InSyncInv'
<1>1. PICK one \in changes : one = Current
    BY CurrentFacts
<1>2. PICK n \in Notes : n = one.note
    BY <1>1, ChangeFacts
<1>3. /\ local'[n] = None /\ \A m \in Notes \ {n} : local'[m] = local[m]
      /\ ~Accessible(n) \/ Lost(one)
    BY <1>1, <1>2 DEF Keep, DeliveryInv, TypeOK
<1>4. Current' = one /\ UNCHANGED <<note, changes, writing, origin, applied>>
    BY <1>1 DEF Current, First, server, store
<1>5. /\ \A ch : Seen(ch)' <=> Seen(ch)
      /\ \A m : (RemovalPending(m)' <=> RemovalPending(m)) /\ (Accessible(m)' <=> Accessible(m))
      /\ HistoryOK' <=> HistoryOK
    BY <1>4, SameView
<1>6. Excepted' = Excepted
    BY StillExcepted
<1>7. ~Seen(one) /\ one.seq \in Nat
    <2>1. one.seq \notin applied /\ one \in inbox /\ one.seq \in Nat /\ origin # None
        BY <1>1, CurrentFacts
    <2>2. origin < one.seq /\ origin \in Nat
        BY <2>1 DEF DeliveryInv, StoreOK, TypeOK
    <2> QED
        BY <2>1, <2>2 DEF Seen
<1>8. DocumentsOK'
    <2>1. ASSUME NEW m \in Notes \ Excepted, local'[m] # None
          PROVE  (Accessible(m)' /\ Announced(m, local[m])') \/ RemovalPending(m)'
        BY <1>3, <1>4, <1>5, <2>1 DEF InSyncInv, DocumentsOK, Announced
    <2>2. local[Current.note]' = None
        BY <1>2, <1>3, <1>4
    <2> QED
        BY <1>6, <2>1, <2>2 DEF DocumentsOK
<1>9. MissingOK'
    <2> SUFFICES ASSUME NEW m \in Notes \ Excepted, Accessible(m), local'[m] = None, origin # None
                 PROVE  \E ch \in changes : ch.note = m /\ ~Seen(ch) /\ ch # one
        BY <1>4, <1>5, <1>6 DEF MissingOK
    <2>1. CASE m # n
        <3>1. PICK ch \in changes : ch.note = m /\ ~Seen(ch)
            BY <1>3, <2>1 DEF InSyncInv, MissingOK
        <3> QED
            BY <1>2, <2>1, <3>1
    <2>2. CASE m = n
        <3>1. one.type = "note_access_revoked"
            BY <1>2, <1>3, <2>2 DEF Lost, InSyncInv, HistoryOK, Accessible
        <3>2. PICK d \in changes : /\ d.note = one.note /\ d.type = "note_access_changed"
                                   /\ one.seq < d.seq
            BY <1>2, <2>2, <3>1 DEF InSyncInv, HistoryOK, Accessible
        <3>3. ~Seen(d)
            BY <1>2, <1>7, <2>2, <3>1, <3>2 DEF InSyncInv, OrderOK
        <3> QED
            BY <1>2, <2>2, <3>1, <3>2, <3>3
    <2> QED
        BY <2>1, <2>2
<1>10. BootstrapOK'
    BY DEF BootstrapOK
<1>11. OrderOK'
    BY <1>4, <1>5, <1>6 DEF InSyncInv, OrderOK
<1> QED
    BY <1>5, <1>8, <1>9, <1>10, <1>11 DEF InSyncInv

LEMMA PullInSync ==
    ASSUME DeliveryInv, InSyncInv, at \in Applying, Accessible(Current.note),
           Pull(Current.note), UNCHANGED <<server, store, history>>, GoTo("hydrating")
    PROVE  InSyncInv'
<1>1. UNCHANGED queue /\ at' = "hydrating"
    BY DEF GoTo
<1>2. CASE local[Current.note] = None
    <2>1. Still /\ Excepted' = Excepted
        BY <1>2, StillExcepted DEF Pull, Still, server, store, documents
    <2> QED
        BY <1>1, <2>1, QuietStep
<1>3. CASE local[Current.note] # None
    BY <1>1, <1>3, Brought DEF Pull
<1> QED
    BY <1>2, <1>3

LEMMA FetchMarkerInSync ==
    ASSUME DeliveryInv, InSyncInv, FetchMarker
    PROVE  InSyncInv'
<1>1. /\ UNCHANGED <<note, changes, writing, origin, applied, local, reordered>>
      /\ at = "marking" /\ at' = "listing"
      /\ fetched' = [mark |-> Watermark(0), above |-> None, todo |-> {}, docs |-> <<>>]
      /\ overlooked' = (overlooked \cap writing) \cup Overtaken(Watermark(0))
    BY DEF FetchMarker, server, store, documents
<1>2. /\ origin = None /\ applied = {} /\ \A n \in Notes : local[n] = None
    BY <1>1 DEF DeliveryInv, RequestsOK, StoreOK
<1>3. \A ch : ~Seen(ch)'
    BY <1>1, <1>2 DEF Seen
<1>4. HistoryOK'
    BY <1>1 DEF InSyncInv, HistoryOK
<1>5. DocumentsOK' /\ MissingOK' /\ OrderOK'
    BY <1>1, <1>2, <1>3 DEF DocumentsOK, MissingOK, OrderOK
<1>6. BootstrapOK'
    <2>1. fetched'.above = None /\ fetched'.docs = <<>> /\ DOMAIN fetched'.docs = {}
        BY <1>1
    <2>2. \A n \in Notes : Unlisted(n)'
        BY <2>1 DEF Unlisted
    <2> QED
        BY <1>1, <2>1, <2>2 DEF BootstrapOK
<1> QED
    BY <1>4, <1>5, <1>6 DEF InSyncInv

\* A step of the bootstrap that only fetches.
LEMMA FetchingStep ==
    ASSUME DeliveryInv, InSyncInv, Still, Excepted' = Excepted,
           at' \in {"listing", "loading"}, BootstrapOK'
    PROVE  InSyncInv'
<1>1. UNCHANGED <<note, changes, writing, origin, applied, local>>
    BY DEF Still
<1>2. /\ \A ch : Seen(ch)' <=> Seen(ch)
      /\ \A n : (RemovalPending(n)' <=> RemovalPending(n)) /\ (Accessible(n)' <=> Accessible(n))
      /\ HistoryOK' <=> HistoryOK
    BY <1>1, SameView
<1>3. DocumentsOK'
    BY <1>1, <1>2 DEF InSyncInv, DocumentsOK, Announced
<1>4. MissingOK'
    BY <1>1, <1>2 DEF InSyncInv, MissingOK
<1>5. OrderOK'
    BY <1>1, <1>2 DEF InSyncInv, OrderOK
<1> QED
    BY <1>2, <1>3, <1>4, <1>5 DEF InSyncInv

LEMMA ListNotesInSync ==
    ASSUME DeliveryInv, InSyncInv, ListNotes
    PROVE  InSyncInv'
<1> DEFINE rest == {n \in Notes : Accessible(n) /\ Unlisted(n)}
           page == FirstPage(rest)
           last == LastOf(page)
<1>1. /\ UNCHANGED <<server, store, documents, history>> /\ at = "listing"
      /\ at' = IF Cardinality(page) < PageSize THEN "loading" ELSE "listing"
      /\ fetched' = [fetched EXCEPT !.todo = @ \cup page,
             !.above = IF page = {} THEN @ ELSE [updated |-> note[last].updated, id |-> last]]
    BY DEF ListNotes, FirstPage, LastOf, Ahead
<1>2. TypeOK /\ DOMAIN fetched = {"mark", "above", "todo", "docs"}
    BY <1>1 DEF DeliveryInv, RequestsOK
<1>3. rest \in SUBSET Notes
    OBVIOUS
<1>4. /\ IsFiniteSet(page) /\ page \subseteq rest
      /\ Cardinality(page) < PageSize => page = rest
      /\ page # {} => last \in page /\ \A n \in rest \ page : Later(last, n)
    <2> HIDE DEF rest
    <2> QED
        BY <1>2, <1>3, PageLists
<1>5. \A n \in Notes : n \in rest <=> Accessible(n) /\ Unlisted(n)
    OBVIOUS
<1> HIDE DEF rest, page, last
<1>6. page = {} => Cardinality(page) < PageSize
    BY FS_EmptySet, BoundsAssumption
<1>7. /\ fetched'.mark = fetched.mark /\ fetched'.docs = fetched.docs
      /\ fetched'.todo = fetched.todo \cup page
      /\ page # {} => fetched'.above = [updated |-> note[last].updated, id |-> last]
    BY <1>1, <1>2
<1>8. Still /\ Excepted' = Excepted /\ UNCHANGED <<note, changes>>
    BY <1>1, StillExcepted DEF Still, server, store, documents
<1>9. BootstrapOK'
    <2>1. ASSUME NEW n \in Notes \ Excepted, Accessible(n)
          PROVE  \/ n \in fetched'.todo \cup DOMAIN fetched'.docs
                 \/ at' = "listing" /\ Unlisted(n)'
                 \/ \E ch \in changes : ch.note = n /\ ch.seq > fetched'.mark
        <3>1. CASE n \in fetched.todo \cup DOMAIN fetched.docs
            BY <1>7, <3>1
        <3>2. CASE \E ch \in changes : ch.note = n /\ ch.seq > fetched.mark
            BY <1>7, <3>2
        <3>3. CASE Unlisted(n) /\ n \in page
            BY <1>7, <3>3
        <3>4. CASE Unlisted(n) /\ n \notin page
            <4>1. n \in rest \ page
                BY <1>5, <2>1, <3>4
            <4>2. ~(Cardinality(page) < PageSize) /\ page # {}
                BY <1>4, <1>6, <4>1
            <4>3. Later(last, n) /\ at' = "listing"
                BY <1>1, <1>4, <4>1, <4>2
            <4>4. /\ fetched'.above.updated = note[last].updated /\ fetched'.above.id = last
                  /\ note' = note
                BY <1>7, <1>8, <4>2
            <4>5. last \in Nat /\ n \in Nat /\ note[last].updated \in Nat /\ note[n].updated \in Nat
                BY <1>2, <1>3, <1>4, <4>2 DEF TypeOK
            <4>6. Unlisted(n)'
                BY <4>3, <4>4, <4>5 DEF Later, Unlisted
            <4> QED
                BY <4>3, <4>6
        <3> QED
            BY <1>1, <2>1, <3>1, <3>2, <3>3, <3>4 DEF InSyncInv, BootstrapOK
    <2> QED
        BY <1>1, <1>7, <1>8, <2>1 DEF InSyncInv, BootstrapOK, Accessible, Announced
<1>10. at' \in {"listing", "loading"}
    BY <1>1
<1> QED
    BY <1>8, <1>9, <1>10, FetchingStep

LEMMA LoadDocumentInSync ==
    ASSUME DeliveryInv, InSyncInv, LoadDocument
    PROVE  InSyncInv'
<1>1. UNCHANGED <<server, store, documents, history>> /\ at = "loading"
    BY DEF LoadDocument
<1>2. PICK n \in Notes :
        /\ n \in fetched.todo
        /\ IF Accessible(n)
           THEN /\ fetched' = [fetched EXCEPT !.todo = @ \ {n},
                       !.docs = [m \in DOMAIN @ \cup {n} |-> IF m = n THEN note[n].rev ELSE @[m]]]
                /\ UNCHANGED <<at, queue, ends>>
           ELSE EndPass
    BY DEF LoadDocument
<1>3. Still /\ Excepted' = Excepted /\ UNCHANGED <<note, changes>>
    BY <1>1, StillExcepted DEF Still, server, store, documents
<1>4. CASE ~Accessible(n)
    BY <1>2, <1>3, <1>4, QuietStep DEF EndPass
<1>5. CASE Accessible(n)
    <2>1. PICK old, docs :
            /\ old = fetched.docs
            /\ docs = [m \in DOMAIN old \cup {n} |-> IF m = n THEN note[n].rev ELSE old[m]]
        OBVIOUS
    <2>2. DOMAIN fetched = {"mark", "above", "todo", "docs"} /\ note[n].rev \in Nat
        BY <1>1 DEF DeliveryInv, RequestsOK, TypeOK
    <2>3. /\ fetched' = [fetched EXCEPT !.todo = @ \ {n}, !.docs = docs]
          /\ at' = "loading"
        BY <1>1, <1>2, <1>5, <2>1
    <2>4. /\ fetched'.mark = fetched.mark /\ fetched'.docs = docs
          /\ fetched'.todo = fetched.todo \ {n}
        BY <2>2, <2>3
    <2>5. /\ DOMAIN docs = DOMAIN old \cup {n} /\ docs[n] = note[n].rev
          /\ \A m \in DOMAIN old \ {n} : docs[m] = old[m]
        BY <2>1
    <2>6. BootstrapOK'
        <3>1. ASSUME NEW m \in DOMAIN docs \ Excepted
              PROVE  \/ Accessible(m) /\ Announced(m, docs[m])
                     \/ \E ch \in changes : Removal(ch, m) /\ ch.seq > fetched.mark
            <4>1. CASE m = n
                BY <1>5, <2>2, <2>5, <4>1 DEF Announced
            <4>2. CASE m # n
                <5>1. m \in DOMAIN fetched.docs \ Excepted /\ docs[m] = fetched.docs[m]
                    BY <2>1, <2>5, <4>2
                <5> QED
                    BY <1>1, <5>1 DEF InSyncInv, BootstrapOK
            <4> QED
                BY <4>1, <4>2
        <3>2. ASSUME NEW m \in Notes \ Excepted, Accessible(m)
              PROVE  \/ m \in fetched'.todo \cup DOMAIN docs
                     \/ \E ch \in changes : ch.note = m /\ ch.seq > fetched.mark
            BY <1>1, <2>1, <2>4, <2>5, <3>2 DEF InSyncInv, BootstrapOK
        <3> QED
            BY <1>3, <2>3, <2>4, <3>1, <3>2 DEF BootstrapOK, Accessible, Announced
    <2> QED
        BY <1>3, <2>3, <2>6, FetchingStep
<1> QED
    BY <1>4, <1>5

LEMMA CompleteBootstrapInSync ==
    ASSUME DeliveryInv, InSyncInv, CompleteBootstrap
    PROVE  InSyncInv'
<1>1. /\ UNCHANGED <<server, applied, history>>
      /\ at = "loading" /\ at' = "draining" /\ fetched.todo = {} /\ origin' = fetched.mark
      /\ local' = [n \in Notes |-> IF n \in DOMAIN fetched.docs THEN fetched.docs[n] ELSE local[n]]
    BY DEF CompleteBootstrap, StartDrain
<1>2. /\ applied = {} /\ \A n \in Notes : local[n] = None
      /\ DOMAIN fetched.docs \subseteq Notes
      /\ \A n \in DOMAIN fetched.docs : fetched.docs[n] \in Nat
      /\ fetched.mark \in Nat
    BY <1>1 DEF DeliveryInv, StoreOK, RequestsOK, Settled, TypeOK
<1>3. /\ \A n \in DOMAIN fetched.docs : local'[n] = fetched.docs[n] /\ local'[n] # None
      /\ \A n \in Notes \ DOMAIN fetched.docs : local'[n] = None
    BY <1>1, <1>2, BoundsAssumption
<1>4. \A ch \in changes : /\ Seen(ch)' <=> ch.seq <= fetched.mark
                          /\ ch.note \in Notes /\ ch.seq \in Nat
    BY <1>1, <1>2, ChangeFacts, BoundsAssumption DEF Seen
<1>5. Excepted' = Excepted /\ UNCHANGED <<note, changes, writing>>
    BY <1>1, StillExcepted DEF server
<1>6. HistoryOK'
    BY <1>5 DEF InSyncInv, HistoryOK
<1>7. DocumentsOK'
    <2>1. ASSUME NEW n \in Notes \ Excepted, local'[n] # None
          PROVE  (Accessible(n)' /\ Announced(n, local[n])') \/ RemovalPending(n)'
        <3>1. n \in DOMAIN fetched.docs /\ local'[n] = fetched.docs[n]
            BY <1>3, <2>1
        <3>2. CASE Accessible(n) /\ Announced(n, fetched.docs[n])
            BY <1>5, <3>1, <3>2 DEF Accessible, Announced
        <3>3. CASE \E ch \in changes : Removal(ch, n) /\ ch.seq > fetched.mark
            <4>1. PICK ch \in changes : Removal(ch, n) /\ ch.seq > fetched.mark
                BY <3>3
            <4>2. ~(ch.seq <= fetched.mark)
                BY <1>2, <1>4, <4>1
            <4> QED
                BY <1>4, <1>5, <4>1, <4>2 DEF RemovalPending
        <3> QED
            BY <1>1, <3>1, <3>2, <3>3 DEF InSyncInv, BootstrapOK
    <2> QED
        BY <1>1, <1>5, <2>1 DEF DocumentsOK
<1>8. MissingOK'
    <2> SUFFICES ASSUME NEW n \in Notes \ Excepted, Accessible(n), local'[n] = None
                 PROVE  \E ch \in changes : ch.note = n /\ ~Seen(ch)'
        BY <1>1, <1>5 DEF MissingOK, Accessible
    <2>1. PICK ch \in changes : ch.note = n /\ ch.seq > fetched.mark
        BY <1>1, <1>3 DEF InSyncInv, BootstrapOK
    <2> QED
        BY <1>2, <1>4, <2>1
<1>9. OrderOK'
    <2> SUFFICES ASSUME NEW r \in changes, NEW ch \in changes, r.seq < ch.seq, Seen(ch)'
                 PROVE  Seen(r)'
        BY <1>5 DEF OrderOK
    <2> QED
        BY <1>2, <1>4
<1>10. BootstrapOK'
    BY <1>1 DEF BootstrapOK
<1> QED
    BY <1>6, <1>7, <1>8, <1>9, <1>10 DEF InSyncInv

LEMMA BeginApplyInSync ==
    ASSUME DeliveryInv, InSyncInv, BeginApply
    PROVE  InSyncInv'
<1> DEFINE rows == queue \ Skipped
           one == First(rows)
<1>1. /\ UNCHANGED <<server, store, documents, history>>
      /\ queue' = rows /\ rows # {}
      /\ at' = CASE one.type = "note_changed" ->
                        IF one.note \in open THEN "reconciling" ELSE "polling"
                 [] one.type = "note_access_changed" -> "hydrating"
                 [] OTHER -> "deleting"
    BY DEF BeginApply, Skipped
<1>2. one \in changes
    <2>1. rows \subseteq changes
        BY DEF DeliveryInv, StoreOK
    <2>2. \A ch \in rows : ch.seq \in Nat
        BY <2>1, ChangeFacts
    <2>3. one \in rows
        <3> HIDE DEF rows
        <3> QED
            BY <1>1, <2>2, FirstIsOne
    <2> QED
        BY <2>1, <2>3
<1>3. Current' = one
    BY <1>1 DEF Current, First
<1>4. one.type \in EventTypes
    <2> HIDE DEF one
    <2> QED
        BY <1>2, ChangeFacts
<1> HIDE DEF one
<1>5. /\ at' \in {"reconciling", "polling", "hydrating", "deleting"}
      /\ at' = "deleting" => Lost(one)
    BY <1>1, <1>4 DEF EventTypes, Lost
<1>6. at' = "deleting" => Lost(Current)'
    BY <1>3, <1>5 DEF Lost
<1>7. Still /\ Excepted' = Excepted
    BY <1>1, StillExcepted DEF Still, server, store, documents
<1> QED
    BY <1>5, <1>6, <1>7, QuietStep

LEMMA HydrateInSync ==
    ASSUME DeliveryInv, InSyncInv, Hydrate
    PROVE  InSyncInv'
<1>1. /\ UNCHANGED <<server, store, queue, history>> /\ at \in Applying
      /\ Current.type \in {"note_changed", "note_access_changed"}
    BY DEF Hydrate, Applying, GoTo, DeliveryInv, ApplyOK
<1>2. Excepted' = Excepted /\ UNCHANGED <<note, changes, writing, origin, applied>>
    BY <1>1, StillExcepted DEF server, store
<1>3. Current' = Current
    BY <1>1 DEF Current, First
<1>4. CASE ~Accessible(Current.note)
    BY <1>1, <1>4, Removed DEF Hydrate, GoTo
<1>5. CASE Accessible(Current.note) /\ local[Current.note] = None
    <2>1. at' = "hydratingDocument" /\ local' = local
        BY <1>5 DEF Hydrate, GoTo, documents
    <2>2. Still
        BY <1>2, <2>1 DEF Still
    <2>3. Accessible(Current.note)'
        BY <1>2, <1>3, <1>5 DEF Accessible
    <2> QED
        BY <1>2, <2>1, <2>2, <2>3, QuietStep
<1>6. CASE Accessible(Current.note) /\ local[Current.note] # None
    <2>1. local' = local /\ at' = "settling" /\ at = "hydrating"
        BY <1>6 DEF Hydrate, GoTo, documents
    <2>2. /\ \A ch : Seen(ch)' <=> Seen(ch)
          /\ \A n : (RemovalPending(n)' <=> RemovalPending(n)) /\ (Accessible(n)' <=> Accessible(n))
          /\ HistoryOK' <=> HistoryOK
        BY <1>2, SameView
    <2>3. ~Lost(Current)'
        BY <1>1, <1>3 DEF Lost
    <2>4. DocumentsOK'
        BY <1>2, <2>1, <2>2, <2>3 DEF InSyncInv, DocumentsOK, Announced
    <2>5. MissingOK'
        <3> SUFFICES ASSUME NEW m \in Notes \ Excepted, Accessible(m), local[m] = None, origin # None
                     PROVE  \E ch \in changes : ch.note = m /\ ~Seen(ch) /\ ch # Current
            BY <1>2, <1>3, <2>1, <2>2 DEF MissingOK
        <3>1. PICK ch \in changes : ch.note = m /\ ~Seen(ch)
            BY DEF InSyncInv, MissingOK
        <3> QED
            BY <1>6, <3>1
    <2>6. BootstrapOK'
        BY <2>1 DEF BootstrapOK
    <2>7. OrderOK'
        BY <1>2, <2>2 DEF InSyncInv, OrderOK
    <2> QED
        BY <2>2, <2>4, <2>5, <2>6, <2>7 DEF InSyncInv
<1> QED
    BY <1>4, <1>5, <1>6

LEMMA MarkAppliedInSync ==
    ASSUME DeliveryInv, InSyncInv, MarkApplied
    PROVE  InSyncInv'
<1>1. PICK one \in changes : one = Current /\ one \in inbox
    BY CurrentFacts DEF MarkApplied, Applying
<1>2. /\ UNCHANGED <<note, changes, writing, origin, local, overlooked>>
      /\ at = "settling" /\ at' = "draining" /\ applied' = applied \cup {one.seq}
      /\ reordered' = IF PassesRevocation(one) THEN reordered \cup {one.note} ELSE reordered
    BY <1>1 DEF MarkApplied, server, documents
<1>3. /\ MissingOK /\ HistoryOK /\ DocumentsOK /\ OrderOK
      /\ ServerOK /\ StoreOK /\ NothingSkipped
    BY DEF InSyncInv, DeliveryInv
<1>4. Excepted \subseteq Excepted' /\ (PassesRevocation(one) => one.note \in Excepted')
    BY <1>2 DEF Excepted
<1>5. /\ Lost(one) => local[one.note] = None
      /\ \A m \in Notes \ Excepted : Accessible(m) /\ local[m] = None /\ origin # None =>
            \E ch \in changes : ch.note = m /\ ~Seen(ch) /\ ch # one
    BY <1>1, <1>2, <1>3 DEF DocumentsOK, MissingOK
<1>6. \A ch \in changes : Seen(ch)' <=> Seen(ch) \/ ch = one
    BY <1>1, <1>2, <1>3 DEF Seen, ServerOK, ChangesOK
<1>7. HistoryOK'
    BY <1>2, <1>3 DEF HistoryOK
<1>8. DocumentsOK'
    <2>1. ASSUME NEW n \in Notes \ Excepted', local[n] # None
          PROVE  (Accessible(n) /\ Announced(n, local[n])) \/ RemovalPending(n)'
        <3>1. (Accessible(n) /\ Announced(n, local[n])) \/ RemovalPending(n)
            BY <1>3, <1>4, <2>1 DEF DocumentsOK
        <3>2. ASSUME RemovalPending(n)
              PROVE  RemovalPending(n)'
            <4>1. PICK ch \in changes : Removal(ch, n) /\ ~Seen(ch)
                BY <3>2 DEF RemovalPending
            <4>2. ch # one
                BY <1>5, <2>1, <4>1 DEF Removal
            <4> QED
                BY <1>2, <1>6, <4>1, <4>2 DEF RemovalPending
        <3> QED
            BY <3>1, <3>2
    <2> QED
        BY <1>2, <2>1 DEF DocumentsOK, Accessible, Announced
<1>9. MissingOK'
    BY <1>2, <1>4, <1>5, <1>6 DEF MissingOK, Accessible
<1>10. BootstrapOK'
    BY <1>2 DEF BootstrapOK
<1>11. OrderOK'
    <2> SUFFICES ASSUME NEW r \in changes, NEW ch \in changes,
                        r.type = "note_access_revoked", ch.type = "note_access_changed",
                        r.note = ch.note, r.note \notin Excepted', r.seq < ch.seq, Seen(ch)',
                        ~Seen(r)
                 PROVE  FALSE
        BY <1>2, <1>6 DEF OrderOK
    <2>1. ch = one
        BY <1>3, <1>4, <1>6 DEF OrderOK
    <2>2. r.seq <= cursor
        <3>1. one.seq <= cursor
            BY <1>1, <1>3 DEF StoreOK
        <3>2. r.seq \in Nat /\ one.seq \in Nat /\ cursor \in Nat
            BY <1>1, ChangeFacts DEF DeliveryInv, TypeOK
        <3> QED
            BY <2>1, <3>1, <3>2
    <2>3. r \in inbox \/ Overlooked(r)
        BY <1>3, <2>2 DEF NothingSkipped, Seen
    <2>4. CASE r \in inbox
        <3>1. r \in Pending
            BY <2>4 DEF Pending, Seen
        <3>2. PassesRevocation(one)
            BY <2>1, <3>1 DEF PassesRevocation
        <3> QED
            BY <1>4, <2>1, <3>2
    <2>5. CASE Overlooked(r)
        <3>1. PICK w \in overlooked : r \in w.rows
            BY <2>5 DEF Overlooked
        <3>2. r.seq = w.seq /\ r.note = w.note
            BY <1>3, <3>1 DEF ServerOK, WritersOK, RowsOK
        <3>3. w \notin writing
            BY <3>2, ChangeFacts
        <3> QED
            BY <1>4, <3>2, <3>3 DEF Excepted
    <2> QED
        BY <2>3, <2>4, <2>5
<1> QED
    BY <1>7, <1>8, <1>9, <1>10, <1>11 DEF InSyncInv

LEMMA PassInSync ==
    ASSUME DeliveryInv, InSyncInv, PassStep
    PROVE  InSyncInv'
<1>1. CASE StartPass \/ FetchPage \/ Ingest \/ FinishDrain
    <2>1. Still /\ at' \notin {"listing", "loading", "settling", "deleting", "hydratingDocument"}
        <3>1. CASE StartPass
            BY <3>1 DEF StartPass, GoTo, StartDrain, Still, server, store, documents
        <3>2. CASE FetchPage
            BY <3>2 DEF FetchPage, Still, server, store, documents
        <3>3. CASE Ingest
            BY <3>3 DEF Ingest, StartDrain, Still, server, documents
        <3>4. CASE FinishDrain
            BY <3>4 DEF FinishDrain, EndPass, Still, server, store, documents
        <3> QED
            BY <1>1, <3>1, <3>2, <3>3, <3>4
    <2>2. Excepted' = Excepted
        <3>1. CASE FetchPage
            <4>1. overlooked' \ writing' = overlooked \ writing
                BY <3>1 DEF FetchPage, Overtaken, server
            <4> QED
                BY <3>1, <4>1, SameExcepted DEF FetchPage
        <3>2. CASE StartPass \/ Ingest \/ FinishDrain
            BY <3>2, StillExcepted DEF StartPass, Ingest, FinishDrain
        <3> QED
            BY <1>1, <3>1, <3>2
    <2> QED
        BY <2>1, <2>2, QuietStep
<1>2. CASE ReconcileActive
    <2>1. UNCHANGED <<server, store, history>> /\ at \in Applying
        BY <1>2 DEF ReconcileActive, Applying
    <2>2. CASE Accessible(Current.note) /\ Pull(Current.note) /\ GoTo("hydrating")
        BY <2>1, <2>2, PullInSync
    <2>3. CASE UNCHANGED documents /\ GoTo("polling")
        <3>1. Still /\ at' = "polling" /\ Excepted' = Excepted
            BY <2>1, <2>3, StillExcepted DEF GoTo, Still, server, store, documents
        <3> QED
            BY <3>1, QuietStep
    <2> QED
        BY <1>2, <2>2, <2>3 DEF ReconcileActive
<1>3. CASE PollNote
    <2>1. UNCHANGED <<server, store, history>> /\ at \in Applying
        BY <1>3 DEF PollNote, Applying
    <2>2. CASE Accessible(Current.note) /\ Pull(Current.note) /\ GoTo("hydrating")
        BY <2>1, <2>2, PullInSync
    <2>3. CASE UNCHANGED documents /\ (GoTo("hydrating") \/ EndPass)
        <3>1. Still /\ at' \in {"hydrating", "waiting"} /\ Excepted' = Excepted
            BY <2>1, <2>3, StillExcepted DEF GoTo, EndPass, Still, server, store, documents
        <3>2. at' \notin {"listing", "loading", "settling", "deleting", "hydratingDocument"}
            BY <3>1
        <3> QED
            BY <3>1, <3>2, QuietStep
    <2> QED
        BY <1>3, <2>2, <2>3 DEF PollNote
<1>4. CASE HydrateDocument
    <2>1. UNCHANGED <<server, store, history>> /\ at \in Applying
        BY <1>4 DEF HydrateDocument, Applying
    <2>2. CASE /\ Accessible(Current.note) /\ Keep(Current.note, note[Current.note].rev)
               /\ GoTo("settling")
        <3>1. ~Lost(Current)
            BY <1>4 DEF HydrateDocument, DeliveryInv, ApplyOK, Lost
        <3> QED
            BY <2>1, <2>2, <3>1, Brought DEF GoTo
    <2>3. CASE UNCHANGED documents /\ EndPass
        <3>1. Still /\ at' = "waiting" /\ Excepted' = Excepted
            BY <2>1, <2>3, StillExcepted DEF EndPass, Still, server, store, documents
        <3> QED
            BY <3>1, QuietStep
    <2> QED
        BY <1>4, <2>2, <2>3 DEF HydrateDocument
<1>5. CASE DeleteLocal
    <2>1. /\ UNCHANGED <<server, store, history, queue>> /\ at \in Applying
          /\ at = "deleting" /\ at' = "settling" /\ Keep(Current.note, None)
        BY <1>5 DEF DeleteLocal, Applying, GoTo
    <2>2. Lost(Current)
        BY <2>1 DEF InSyncInv, DocumentsOK
    <2> QED
        BY <2>1, <2>2, Removed
<1> QED
    BY <1>1, <1>2, <1>3, <1>4, <1>5, FetchMarkerInSync, ListNotesInSync, LoadDocumentInSync,
       CompleteBootstrapInSync, BeginApplyInSync, HydrateInSync, MarkAppliedInSync DEF PassStep

LEMMA NextInSync ==
    ASSUME DeliveryInv, InSyncInv, [Next]_vars
    PROVE  InSyncInv'
<1>1. CASE Writer
    BY <1>1, BeginInSync, CommitInSync, AbortInSync DEF Writer
<1>2. CASE User \/ UNCHANGED vars
    <2>1. UNCHANGED <<server, store, local, pass, history>>
        BY <1>2 DEF User, Open, Close, vars, documents
    <2>2. Excepted' = Excepted /\ UNCHANGED <<note, changes, writing, origin, applied>>
        BY <2>1, StillExcepted DEF server, store
    <2>3. HistoryOK'
        BY <2>2, SameView DEF InSyncInv
    <2> QED
        BY <2>1, <2>2, <2>3, Unmoved
<1>3. CASE PassStep
    BY <1>3, PassInSync
<1>4. CASE Fault
    <2>1. /\ UNCHANGED <<server, store, local, history>>
          /\ at' \in {"hydrating", "waiting"}
        BY <1>4 DEF Fault, NetworkError, SessionError, Crash, EndPass, GoTo, documents
    <2>2. Still /\ Excepted' = Excepted
        BY <2>1, StillExcepted DEF Still, server, store
    <2>3. at' \notin {"listing", "loading", "settling", "deleting", "hydratingDocument"}
        BY <2>1
    <2> QED
        BY <2>2, <2>3, QuietStep
<1> QED
    BY <1>1, <1>2, <1>3, <1>4 DEF Next

\* What the invariant says of a device with nothing left to do.
LEMMA InSyncWhenQuiet ==
    ASSUME DeliveryInv, InSyncInv
    PROVE  QuietIsInSync
<1> SUFFICES ASSUME Quiet, NEW n \in Notes \ (missed \cup Excepted)
             PROVE  local[n] = IF Accessible(n) THEN note[n].rev ELSE None
    BY DEF QuietIsInSync
<1>1. /\ origin # None /\ at = "waiting" /\ n \in Notes /\ n \notin Excepted
      /\ local[n] \in Nat \cup {None} /\ note[n].rev \in Nat
      /\ local[n] # None => local[n] <= note[n].rev
    BY DEF Quiet, DeliveryInv, TypeOK, StoreOK
<1>2. \A ch \in changes : ch.note = n => Seen(ch) /\ ~Overlooked(ch)
    <2> SUFFICES ASSUME NEW ch \in changes, ch.note = n
                 PROVE  Seen(ch) /\ ~Overlooked(ch)
        OBVIOUS
    <2>1. ASSUME Overlooked(ch)
          PROVE  FALSE
        <3>1. PICK w \in overlooked : ch \in w.rows
            BY <2>1 DEF Overlooked
        <3>2. w.note = n /\ w \notin writing
            BY <3>1 DEF Quiet, DeliveryInv, ServerOK, WritersOK, RowsOK
        <3> QED
            BY <1>1, <3>2 DEF Excepted
    <2> QED
        BY <2>1 DEF Quiet, Pending, Seen, DeliveryInv, NothingSkipped
<1>3. ~RemovalPending(n)
    BY <1>2 DEF RemovalPending, Removal
<1>4. CASE Accessible(n)
    <2>1. local[n] # None
        BY <1>1, <1>2, <1>4 DEF InSyncInv, MissingOK
    <2>2. ASSUME local[n] < note[n].rev
          PROVE  FALSE
        <3>1. PICK ch \in changes : ch.note = n /\ ch.rev = note[n].rev
            BY <1>1, <1>3, <2>1, <2>2 DEF InSyncInv, DocumentsOK, Announced
        <3>2. local[n] >= ch.rev
            BY <1>2, <2>1, <3>1 DEF DeliveryInv, SeenIsReflected, Reflected
        <3> QED
            BY <1>1, <2>1, <2>2, <3>1, <3>2
    <2> QED
        BY <1>1, <1>4, <2>1, <2>2
<1>5. CASE ~Accessible(n)
    BY <1>1, <1>3, <1>5 DEF InSyncInv, DocumentsOK
<1> QED
    BY <1>4, <1>5

\* What refuses a change for good.
LEMMA RefusalIsOfTheServer ==
    ASSUME DeliveryInv, InSyncInv, [Next]_vars, Refused
    PROVE  Current.note \in open \cup Excepted \/ RemovalPending(Current.note)
<1>1. at \in Applying /\ Current.note \in Notes /\ faults \in Nat
    BY CurrentFacts DEF Refused, Applying, DeliveryInv, TypeOK
<1>2. CASE PollNote
    <2>1. local[Current.note] # None /\ ~Accessible(Current.note)
        BY <1>2 DEF Refused, PollNote, GoTo
    <2> QED
        BY <1>1, <2>1 DEF InSyncInv, DocumentsOK
<1>3. CASE HydrateDocument
    <2>1. Current.note \in open \/ ~Accessible(Current.note)
        BY <1>3 DEF Refused, HydrateDocument, GoTo
    <2> QED
        BY <1>1, <1>3, <2>1 DEF HydrateDocument, InSyncInv, DocumentsOK
<1>4. ~(Writer \/ User \/ UNCHANGED vars)
    BY DEF Refused, Writer, Begin, Commit, Abort, User, Open, Close, vars, pass
<1>5. ~Fault
    BY <1>1 DEF Refused, Fault, NetworkError, SessionError, Crash, FaultOf
<1>6. PassStep => PollNote \/ HydrateDocument
    BY DEF Refused, PassStep, StartPass, FetchMarker, ListNotes, LoadDocument, CompleteBootstrap,
           FetchPage, Ingest, FinishDrain, BeginApply, ReconcileActive, Hydrate, DeleteLocal,
           MarkApplied
<1> QED
    BY <1>2, <1>3, <1>4, <1>5, <1>6 DEF Next

-------------------------------------------------------------------------------
(* The theorems.                                                           *)

\* The whole invariant, whatever the number of notes and changes, of
\* transactions under way at once, the size of the pages, and the faults.
THEOREM InvariantHolds == Spec => []FeedInv
<1>1. Init => FeedInv
    BY InitInv, InSyncInit DEF FeedInv
<1>2. FeedInv /\ [Next]_vars => FeedInv'
    BY NextInv, NextInSync DEF FeedInv
<1> QED
    BY <1>1, <1>2, PTL DEF Spec

\* Every variable has its type.
THEOREM TypeCorrect == Spec => []TypeOK
<1>1. FeedInv => TypeOK
    BY DEF FeedInv, DeliveryInv
<1> QED
    BY <1>1, InvariantHolds, PTL

\* SyncInboxStore never moves the cursor over a committed change that the
\* inbox does not hold and the bootstrap did not read: but for one whose
\* number was overtaken before it was committed.
THEOREM NoChangeSkipped == Spec => []NothingSkipped
<1>1. FeedInv => NothingSkipped
    BY DEF FeedInv, DeliveryInv
<1> QED
    BY <1>1, InvariantHolds, PTL

\* A change marked applied, or under the watermark of the bootstrap, is in
\* the local documents, unless an open session hid the failure of its pull,
\* or its number was overtaken before it was committed.
THEOREM SeenChangesReflected == Spec => []SeenIsReflected
<1>1. FeedInv => SeenIsReflected
    BY DEF FeedInv, DeliveryInv
<1> QED
    BY <1>1, InvariantHolds, PTL

\* A device that has nothing left to write, fetch or apply holds exactly the
\* notes that the user may see, each at the revision of the server: but for
\* hidden failures, changes that were overlooked and revocations that were
\* applied late.
THEOREM QuietDevicesAreInSync == Spec => []QuietIsInSync
<1>1. FeedInv => QuietIsInSync
    BY InSyncWhenQuiet DEF FeedInv
<1> QED
    BY <1>1, InvariantHolds, PTL

\* The pass never gives up a change that could have been applied: where the
\* server's answer ends it, the note is open or its removal is in the feed.
THEOREM RefusalsAreRemovals == Spec => OnlyRemovalsStop
<1>1. FeedInv /\ [Next]_vars =>
        [Refused => Current.note \in open \cup Excepted \/ RemovalPending(Current.note)]_vars
    BY RefusalIsOfTheServer DEF FeedInv
<1> QED
    BY <1>1, InvariantHolds, PTL DEF Spec, OnlyRemovalsStop
=============================================================================
