---------------------------- MODULE NoteSyncProofs ----------------------------
(***************************************************************************)
(* Machine-checked proofs about NoteSync, for any clients, operations,     *)
(* document and number of faults, and about the rebase of NoteTransform,   *)
(* for any texts and edits of them.                                        *)
(***************************************************************************)
EXTENDS NoteSyncInvariant, FiniteSetTheorems, FunctionTheorems,
        WellFoundedInduction, TLAPS

-------------------------------------------------------------------------------
(* Part 1: the rebase of text operations.  It concerns the operators of    *)
(* NoteTransform alone, whatever the clients and the faults.               *)

\* A set of natural numbers has a smallest one: of the initial segments
\* 0..n-1 with n in the set, none is below the smallest.
LEMMA LeastNumber ==
    ASSUME NEW T, T \subseteq Nat, T # {}
    PROVE  \E n \in T : \A m \in T : n <= m
<1> DEFINE Seg(n) == 0..(n - 1)
           Segs == {Seg(n) : n \in T}
<1>1. Segs \subseteq FiniteSubsetsOf(Nat) /\ Segs # {}
    <2>1. ASSUME NEW n \in T
          PROVE  Seg(n) \in FiniteSubsetsOf(Nat)
        BY FS_Interval DEF FiniteSubsetsOf
    <2> QED
        BY <2>1
<1>2. PICK s \in Segs : \A r \in Segs : ~(<<r, s>> \in StrictSubsetOrdering(Nat))
    BY <1>1, WFMin, FS_StrictSubsetOrderingWellFounded
<1>3. PICK n \in T : s = Seg(n)
    BY <1>2
<1>4. ASSUME NEW m \in T, m < n
      PROVE  FALSE
    <2>1. m \in Seg(n) /\ m \notin Seg(m)
        BY <1>4
    <2>2. Seg(m) \subseteq Seg(n) /\ Seg(m) # Seg(n)
        BY <1>4, <2>1
    <2>3. Seg(m) \in FiniteSubsetsOf(Nat) /\ Seg(n) \in FiniteSubsetsOf(Nat)
        BY <1>1
    <2>4. <<Seg(m), Seg(n)>> \in StrictSubsetOrdering(Nat)
        <3> HIDE DEF Seg
        <3> QED
            BY <2>2, <2>3 DEF StrictSubsetOrdering, FiniteSubsetsOf
    <2> QED
        BY <2>4, <1>2, <1>3
<1> QED
    BY <1>4

LEMMA OwnElements ==
    ASSUME NEW X, NEW s \in Seq(X)
    PROVE  s \in Seq({s[i] : i \in DOMAIN s})
<1>1. Len(s) \in Nat /\ DOMAIN s = 1..Len(s) /\ s = [i \in 1..Len(s) |-> s[i]]
    OBVIOUS
<1> DEFINE E == {s[i] : i \in DOMAIN s}
<1>2. \A i \in 1..Len(s) : s[i] \in E
    BY <1>1
<1> HIDE DEF E
<1>3. s \in Seq(E)
    BY <1>1, <1>2
<1> QED
    BY <1>3 DEF E

\* The pass of one pending operation over the first N remote rows.
RowPassTo(p, op, actor, remote, N) ==
    p = [n \in 0..N |-> IF n = 0 THEN [op |-> op, rows |-> <<>>]
                        ELSE RebaseStep(p[n - 1], remote[n], actor)]

LEMMA RowPassExists ==
    ASSUME NEW op, NEW actor, NEW remote, NEW N \in Nat
    PROVE  \E p : RowPassTo(p, op, actor, remote, N)
<1> DEFINE Next1(x, n) == RebaseStep(x, remote[n], actor)
           Runs(p, M) == p = [n \in 0..M |-> IF n = 0 THEN [op |-> op, rows |-> <<>>] ELSE Next1(p[n - 1], n)]
           Bad == {M \in Nat : ~\E p : Runs(p, M)}
<1>1. SUFFICES ASSUME Bad # {} PROVE FALSE
    BY DEF RowPassTo
<1>2. PICK m \in Bad : \A k \in Bad : m <= k
    BY <1>1, LeastNumber
<1> HIDE DEF Next1
<1>3. CASE m = 0
    <2> DEFINE p == [k \in 0..0 |-> [op |-> op, rows |-> <<>>]]
    <2>1. p = [n \in 0..0 |-> IF n = 0 THEN [op |-> op, rows |-> <<>>] ELSE Next1(p[n - 1], n)]
        OBVIOUS
    <2> HIDE DEF p
    <2> QED
        BY <1>2, <1>3, <2>1
<1>4. CASE m # 0
    <2>1. PICK j \in Nat : m = j + 1
        BY <1>2, <1>4
    <2>2. j \notin Bad
        <3> HIDE DEF Bad
        <3> QED
            BY <1>2, <2>1
    <2>3. PICK p : Runs(p, j)
        BY <2>2
    <2> DEFINE q == [n \in 0..m |-> IF n = m THEN Next1(p[j], m) ELSE p[n]]
    <2>4. ASSUME NEW n \in 0..m
          PROVE  q[n] = IF n = 0 THEN [op |-> op, rows |-> <<>>] ELSE Next1(q[n - 1], n)
        <3>1. CASE n = m
            BY <2>1, <3>1
        <3>2. CASE n # m
            <4>1. n \in 0..j /\ q[n] = p[n]
                BY <2>1, <3>2
            <4>2. n # 0 => n - 1 \in 0..m /\ q[n - 1] = p[n - 1]
                BY <2>1, <3>2
            <4>3. p[n] = IF n = 0 THEN [op |-> op, rows |-> <<>>] ELSE Next1(p[n - 1], n)
                BY <2>3, <4>1
            <4> QED
                BY <4>1, <4>2, <4>3
        <3> QED
            BY <3>1, <3>2
    <2>5. q = [n \in 0..m |-> q[n]]
        OBVIOUS
    <2> HIDE DEF q
    <2>6. Runs(q, m)
        BY <2>4, <2>5
    <2> QED
        BY <1>2, <2>6
<1> QED
    BY <1>3, <1>4

\* p is what RebaseOne goes through, row by row.
RowRun(p, op, actor, log) ==
    /\ p[0] = [op |-> op, rows |-> <<>>]
    /\ \A n \in 1..Len(log) : p[n] = RebaseStep(p[n - 1], log[n], actor)
    /\ RebaseOne(op, actor, log) = p[Len(log)]

LEMMA RowRunExists ==
    ASSUME NEW op, NEW actor, NEW log, Len(log) \in Nat
    PROVE  \E p : RowRun(p, op, actor, log)
<1> DEFINE p == CHOOSE q : RowPassTo(q, op, actor, log, Len(log))
<1>1. RowPassTo(p, op, actor, log, Len(log))
    BY RowPassExists
<1>2. RebaseOne(op, actor, log) = p[Len(log)]
    BY DEF RebaseOne, RowPassTo
<1> HIDE DEF p
<1>3. p[0] = [op |-> op, rows |-> <<>>]
    BY <1>1 DEF RowPassTo
<1>4. \A n \in 1..Len(log) : p[n] = RebaseStep(p[n - 1], log[n], actor)
    BY <1>1 DEF RowPassTo
<1> QED
    BY <1>2, <1>3, <1>4 DEF RowRun

\* The pass over the first N pending operations.
PendingPassTo(p, pending, actor, remote, N) ==
    p = [n \in 0..N |-> IF n = 0 THEN [kept |-> <<>>, rows |-> remote]
                        ELSE RebaseNext(p[n - 1], pending[n], actor)]

LEMMA PendingPassExists ==
    ASSUME NEW pending, NEW actor, NEW remote, NEW N \in Nat
    PROVE  \E p : PendingPassTo(p, pending, actor, remote, N)
<1> DEFINE Next1(x, n) == RebaseNext(x, pending[n], actor)
           Runs(p, M) == p = [n \in 0..M |-> IF n = 0 THEN [kept |-> <<>>, rows |-> remote] ELSE Next1(p[n - 1], n)]
           Bad == {M \in Nat : ~\E p : Runs(p, M)}
<1>1. SUFFICES ASSUME Bad # {} PROVE FALSE
    BY DEF PendingPassTo
<1>2. PICK m \in Bad : \A k \in Bad : m <= k
    BY <1>1, LeastNumber
<1> HIDE DEF Next1
<1>3. CASE m = 0
    <2> DEFINE p == [k \in 0..0 |-> [kept |-> <<>>, rows |-> remote]]
    <2>1. p = [n \in 0..0 |-> IF n = 0 THEN [kept |-> <<>>, rows |-> remote] ELSE Next1(p[n - 1], n)]
        OBVIOUS
    <2> HIDE DEF p
    <2> QED
        BY <1>2, <1>3, <2>1
<1>4. CASE m # 0
    <2>1. PICK j \in Nat : m = j + 1
        BY <1>2, <1>4
    <2>2. j \notin Bad
        <3> HIDE DEF Bad
        <3> QED
            BY <1>2, <2>1
    <2>3. PICK p : Runs(p, j)
        BY <2>2
    <2> DEFINE q == [n \in 0..m |-> IF n = m THEN Next1(p[j], m) ELSE p[n]]
    <2>4. ASSUME NEW n \in 0..m
          PROVE  q[n] = IF n = 0 THEN [kept |-> <<>>, rows |-> remote] ELSE Next1(q[n - 1], n)
        <3>1. CASE n = m
            BY <2>1, <3>1
        <3>2. CASE n # m
            <4>1. n \in 0..j /\ q[n] = p[n]
                BY <2>1, <3>2
            <4>2. n # 0 => n - 1 \in 0..m /\ q[n - 1] = p[n - 1]
                BY <2>1, <3>2
            <4>3. p[n] = IF n = 0 THEN [kept |-> <<>>, rows |-> remote] ELSE Next1(p[n - 1], n)
                BY <2>3, <4>1
            <4> QED
                BY <4>1, <4>2, <4>3
        <3> QED
            BY <3>1, <3>2
    <2>5. q = [n \in 0..m |-> q[n]]
        OBVIOUS
    <2> HIDE DEF q
    <2>6. Runs(q, m)
        BY <2>4, <2>5
    <2> QED
        BY <1>2, <2>6
<1> QED
    BY <1>3, <1>4

\* p is what RebaseAll goes through, pending operation by pending operation.
PendingRun(p, pending, actor, remote) ==
    /\ p[0] = [kept |-> <<>>, rows |-> remote]
    /\ \A n \in 1..Len(pending) : p[n] = RebaseNext(p[n - 1], pending[n], actor)
    /\ RebaseAll(pending, actor, remote) = p[Len(pending)]

LEMMA PendingRunExists ==
    ASSUME NEW pending, NEW actor, NEW remote, Len(pending) \in Nat
    PROVE  \E p : PendingRun(p, pending, actor, remote)
<1> DEFINE p == CHOOSE q : PendingPassTo(q, pending, actor, remote, Len(pending))
<1>1. PendingPassTo(p, pending, actor, remote, Len(pending))
    BY PendingPassExists
<1>2. RebaseAll(pending, actor, remote) = p[Len(pending)]
    BY DEF RebaseAll, PendingPassTo
<1> HIDE DEF p
<1>3. p[0] = [kept |-> <<>>, rows |-> remote]
    BY <1>1 DEF PendingPassTo
<1>4. \A n \in 1..Len(pending) : p[n] = RebaseNext(p[n - 1], pending[n], actor)
    BY <1>1 DEF PendingPassTo
<1> QED
    BY <1>2, <1>3, <1>4 DEF PendingRun

-------------------------------------------------------------------------------
(* Single changes of a text: where every letter goes, and the square of    *)
(* two concurrent ones.                                                    *)

Deltas == [edit : {"insert", "remove", "keep"}, at : Nat]

LEMMA Inserted ==
    ASSUME NEW L, NEW text \in Seq(L), NEW x \in L, NEW p \in Nat, p <= Len(text)
    PROVE  InsertAt(text, p + 1, x) =
               [i \in 1..(Len(text) + 1) |-> IF i <= p THEN text[i]
                                             ELSE IF i = p + 1 THEN x ELSE text[i - 1]]
<1> DEFINE left == SubSeq(text, 1, p)
           right == SubSeq(text, p + 1, Len(text))
<1>1. /\ left \in Seq(L) /\ Len(left) = p
      /\ \A i \in 1..p : left[i] = text[i]
    OBVIOUS
<1>2. /\ right \in Seq(L) /\ Len(right) = Len(text) - p
      /\ \A i \in 1..(Len(text) - p) : right[i] = text[p + i]
    OBVIOUS
<1>3. InsertAt(text, p + 1, x) = left \o <<x>> \o right
    <2>1. (p + 1) - 1 = p
        OBVIOUS
    <2> QED
        BY ONLY <2>1 DEF InsertAt
<1> HIDE DEF left, right
<1> DEFINE lx == left \o <<x>>
<1>4. /\ lx \in Seq(L) /\ Len(lx) = p + 1 /\ lx[p + 1] = x
      /\ \A i \in 1..p : lx[i] = text[i]
    BY <1>1
<1> HIDE DEF lx
<1> DEFINE whole == lx \o right
<1>5. /\ whole \in Seq(L) /\ Len(whole) = Len(text) + 1
      /\ \A i \in 1..(p + 1) : whole[i] = lx[i]
      /\ \A i \in (p + 2)..(Len(text) + 1) : whole[i] = right[i - (p + 1)]
    <2>1. /\ lx \in Seq(L) /\ right \in Seq(L)
          /\ Len(lx) = p + 1 /\ Len(right) = Len(text) - p
          /\ Len(text) \in Nat /\ p \in Nat /\ p <= Len(text)
        BY <1>2, <1>4
    <2> QED
        BY ONLY <2>1
<1> HIDE DEF whole
<1>6. whole = [i \in 1..Len(whole) |-> whole[i]]
    BY <1>5
<1>7. ASSUME NEW i \in 1..(Len(text) + 1)
      PROVE  whole[i] = IF i <= p THEN text[i] ELSE IF i = p + 1 THEN x ELSE text[i - 1]
    <2>1. CASE i <= p
        BY <1>4, <1>5, <2>1
    <2>2. CASE i = p + 1
        BY <1>4, <1>5, <2>2
    <2>3. CASE i > p + 1
        <3> DEFINE k == i - (p + 1)
        <3>1. whole[i] = right[k] /\ k \in 1..(Len(text) - p) /\ p + k = i - 1
            BY <1>5, <2>3
        <3> HIDE DEF k
        <3>2. right[k] = text[p + k]
            BY ONLY <1>2, <3>1
        <3> QED
            BY <2>3, <3>1, <3>2
    <2> QED
        BY <2>1, <2>2, <2>3
<1> QED
    BY <1>3, <1>5, <1>6, <1>7 DEF lx, whole

LEMMA Removed ==
    ASSUME NEW L, NEW text \in Seq(L), NEW p \in Nat, p < Len(text)
    PROVE  RemoveAt(text, p + 1) =
               [i \in 1..(Len(text) - 1) |-> IF i <= p THEN text[i] ELSE text[i + 1]]
<1> DEFINE left == SubSeq(text, 1, p)
           right == SubSeq(text, p + 2, Len(text))
<1>1. /\ left \in Seq(L) /\ Len(left) = p
      /\ \A i \in 1..p : left[i] = text[i]
    OBVIOUS
<1>2. /\ right \in Seq(L) /\ Len(right) = Len(text) - (p + 1)
      /\ \A i \in 1..(Len(text) - (p + 1)) : right[i] = text[p + 1 + i]
    OBVIOUS
<1>3. RemoveAt(text, p + 1) = left \o right
    <2>1. (p + 1) - 1 = p /\ (p + 1) + 1 = p + 2
        OBVIOUS
    <2> QED
        BY ONLY <2>1 DEF RemoveAt
<1> HIDE DEF left, right
<1> DEFINE whole == left \o right
<1>4. /\ whole \in Seq(L) /\ Len(whole) = Len(text) - 1
      /\ \A i \in 1..p : whole[i] = left[i]
      /\ \A i \in (p + 1)..(Len(text) - 1) : whole[i] = right[i - p]
    <2>0. whole \in Seq(L) /\ Len(whole) = Len(left) + Len(right)
        <3>1. left \in Seq(L) /\ right \in Seq(L)
            BY <1>1, <1>2
        <3> QED
            BY ONLY <3>1
    <2>1. Len(whole) = Len(text) - 1
        <3> HIDE DEF whole
        <3> QED
            BY <1>1, <1>2, <2>0
    <2>2. \A i \in 1..(p + Len(right)) :
              whole[i] = IF i <= p THEN left[i] ELSE right[i - p]
        BY <1>1, <1>2
    <2> QED
        BY <1>1, <1>2, <2>0, <2>1, <2>2
<1> HIDE DEF whole
<1>5. whole = [i \in 1..Len(whole) |-> whole[i]]
    BY <1>4
<1>6. ASSUME NEW i \in 1..(Len(text) - 1)
      PROVE  whole[i] = IF i <= p THEN text[i] ELSE text[i + 1]
    <2>1. CASE i <= p
        BY <1>1, <1>4, <2>1
    <2>2. CASE i > p
        <3>1. whole[i] = right[i - p] /\ i - p \in 1..(Len(text) - (p + 1))
            <4>1. Len(text) \in Nat /\ i \in (p + 1)..(Len(text) - 1)
                BY <2>2
            <4> QED
                BY <1>4, <4>1
        <3>2. right[i - p] = text[p + 1 + (i - p)] /\ p + 1 + (i - p) = i + 1
            BY <1>2, <3>1
        <3> QED
            BY <2>2, <3>1, <3>2
    <2> QED
        BY <2>1, <2>2
<1> QED
    BY <1>3, <1>4, <1>5, <1>6 DEF whole

\* The letters of a text after a change that fits, one by one.
LEMMA Composed ==
    ASSUME NEW L, NEW text \in Seq(L), NEW x \in L, NEW d \in Deltas, Fits(text, d)
    PROVE  LET now == Compose(text, d, x) IN
           /\ now \in Seq(L)
           /\ d.edit = "insert" =>
                /\ Len(now) = Len(text) + 1
                /\ \A i \in 1..Len(now) :
                     now[i] = IF i <= d.at THEN text[i]
                              ELSE IF i = d.at + 1 THEN x ELSE text[i - 1]
           /\ d.edit = "remove" =>
                /\ Len(now) = Len(text) - 1
                /\ \A i \in 1..Len(now) : now[i] = IF i <= d.at THEN text[i] ELSE text[i + 1]
           /\ d.edit = "keep" => now = text
<1> DEFINE now == Compose(text, d, x)
<1>0. Len(text) \in Nat /\ d.at \in Nat /\ \A i \in 1..Len(text) : text[i] \in L
    BY DEF Deltas
<1>1. CASE d.edit = "insert"
    <2> DEFINE f == [i \in 1..(Len(text) + 1) |->
                        IF i <= d.at THEN text[i] ELSE IF i = d.at + 1 THEN x ELSE text[i - 1]]
    <2>1. d.at <= Len(text) /\ now = InsertAt(text, d.at + 1, x)
        BY <1>1 DEF Fits, Compose
    <2>2. now = f
        BY <1>0, <2>1, Inserted
    <2>3. ASSUME NEW i \in 1..(Len(text) + 1)
          PROVE  f[i] \in L
        <3>1. i > d.at /\ i # d.at + 1 => i - 1 \in 1..Len(text)
            BY <1>0, <2>1
        <3>2. i <= d.at => i \in 1..Len(text)
            BY <1>0, <2>1
        <3> QED
            BY <1>0, <3>1, <3>2
    <2> HIDE DEF now
    <2>4. f \in Seq(L) /\ Len(f) = Len(text) + 1
        BY <1>0, <2>3
    <2> QED
        BY <1>1, <2>2, <2>4 DEF now
<1>2. CASE d.edit = "remove"
    <2> DEFINE f == [i \in 1..(Len(text) - 1) |-> IF i <= d.at THEN text[i] ELSE text[i + 1]]
    <2>1. d.at < Len(text) /\ now = RemoveAt(text, d.at + 1)
        BY <1>2 DEF Fits, Compose
    <2>2. now = f
        BY <1>0, <2>1, Removed
    <2>3. ASSUME NEW i \in 1..(Len(text) - 1)
          PROVE  f[i] \in L
        BY <1>0
    <2> HIDE DEF now
    <2>4. f \in Seq(L) /\ Len(f) = Len(text) - 1
        BY <1>0, <2>1, <2>3
    <2> QED
        BY <1>2, <2>2, <2>4 DEF now
<1>3. CASE d.edit = "keep"
    BY <1>3 DEF Compose
<1> QED
    BY <1>1, <1>2, <1>3 DEF Deltas

LEMMA SameText ==
    ASSUME NEW L, NEW s \in Seq(L), NEW t \in Seq(L), Len(s) = Len(t),
           \A i \in 1..Len(s) : s[i] = t[i]
    PROVE  s = t
<1>1. s = [i \in 1..Len(s) |-> s[i]] /\ t = [i \in 1..Len(t) |-> t[i]]
    OBVIOUS
<1> QED
    BY <1>1

\* Two concurrent changes, each rewritten over the other with opposite
\* priorities, meet: whichever comes first, the text is the same.
SquareCloses(text, d, x, e, y, dd, ee) ==
    /\ dd \in Deltas /\ Fits(Compose(text, e, y), dd)
    /\ ee \in Deltas /\ Fits(Compose(text, d, x), ee)
    /\ Compose(Compose(text, e, y), dd, x) = Compose(Compose(text, d, x), ee, y)

LEMMA SquareInsertInsert ==
    ASSUME NEW L, NEW text \in Seq(L), NEW x \in L, NEW y \in L,
           NEW d \in Deltas, NEW e \in Deltas, Fits(text, d), Fits(text, e),
           d.edit = "insert", e.edit = "insert", d.at <= e.at,
           NEW dd, dd = d, NEW ee, ee = [e EXCEPT !.at = @ + 1]
    PROVE  SquareCloses(text, d, x, e, y, dd, ee)
<1> DEFINE left == Compose(text, d, x)
           right == Compose(text, e, y)
           one == Compose(right, dd, x)
           two == Compose(left, ee, y)
<1>1. /\ dd \in Deltas /\ dd.edit = "insert" /\ dd.at = d.at
      /\ ee \in Deltas /\ ee.edit = "insert" /\ ee.at = e.at + 1
      /\ d.at \in Nat /\ e.at \in Nat /\ Len(text) \in Nat
      /\ d.at <= Len(text) /\ e.at <= Len(text)
    BY DEF Deltas, Fits
<1>2. /\ left \in Seq(L) /\ Len(left) = Len(text) + 1
      /\ \A i \in 1..(Len(text) + 1) :
           left[i] = IF i <= d.at THEN text[i] ELSE IF i = d.at + 1 THEN x ELSE text[i - 1]
    <2>1. text \in Seq(L) /\ d \in Deltas /\ d.edit = "insert" /\ Fits(text, d) /\ x \in L
        OBVIOUS
    <2>2. /\ left \in Seq(L) /\ Len(left) = Len(text) + 1
          /\ \A i \in 1..Len(left) :
               left[i] = IF i <= d.at THEN text[i] ELSE IF i = d.at + 1 THEN x ELSE text[i - 1]
        BY ONLY <2>1, Composed
    <2> HIDE DEF left
    <2> QED
        BY ONLY <2>2
<1>3. /\ right \in Seq(L) /\ Len(right) = Len(text) + 1
      /\ \A i \in 1..(Len(text) + 1) :
           right[i] = IF i <= e.at THEN text[i] ELSE IF i = e.at + 1 THEN y ELSE text[i - 1]
    <2>1. text \in Seq(L) /\ e \in Deltas /\ e.edit = "insert" /\ Fits(text, e) /\ y \in L
        OBVIOUS
    <2>2. /\ right \in Seq(L) /\ Len(right) = Len(text) + 1
          /\ \A i \in 1..Len(right) :
               right[i] = IF i <= e.at THEN text[i] ELSE IF i = e.at + 1 THEN y ELSE text[i - 1]
        BY ONLY <2>1, Composed
    <2> HIDE DEF right
    <2> QED
        BY ONLY <2>2
<1> HIDE DEF left, right
<1>4. Fits(right, dd) /\ Fits(left, ee)
    BY <1>1, <1>2, <1>3 DEF Fits
<1>5. /\ one \in Seq(L) /\ Len(one) = Len(text) + 2
      /\ \A i \in 1..(Len(text) + 2) :
           one[i] = IF i <= d.at THEN right[i] ELSE IF i = d.at + 1 THEN x ELSE right[i - 1]
    <2>1. /\ one \in Seq(L) /\ Len(one) = Len(right) + 1
          /\ \A i \in 1..Len(one) :
               one[i] = IF i <= dd.at THEN right[i] ELSE IF i = dd.at + 1 THEN x ELSE right[i - 1]
        <3>1. /\ right \in Seq(L) /\ dd \in Deltas /\ dd.edit = "insert"
              /\ Fits(right, dd) /\ x \in L
            BY <1>1, <1>3, <1>4
        <3> QED
            BY ONLY <3>1, Composed
    <2>2. Len(one) = Len(text) + 2
        BY <1>1, <1>3, <2>1
    <2> HIDE DEF one
    <2> QED
        BY <1>1, <2>1, <2>2
<1>6. /\ two \in Seq(L) /\ Len(two) = Len(text) + 2
      /\ \A i \in 1..(Len(text) + 2) :
           two[i] = IF i <= e.at + 1 THEN left[i] ELSE IF i = e.at + 1 + 1 THEN y ELSE left[i - 1]
    <2>1. /\ two \in Seq(L) /\ Len(two) = Len(left) + 1
          /\ \A i \in 1..Len(two) :
               two[i] = IF i <= ee.at THEN left[i] ELSE IF i = ee.at + 1 THEN y ELSE left[i - 1]
        <3>1. /\ left \in Seq(L) /\ ee \in Deltas /\ ee.edit = "insert"
              /\ Fits(left, ee) /\ y \in L
            BY <1>1, <1>2, <1>4
        <3> QED
            BY ONLY <3>1, Composed
    <2>2. Len(two) = Len(text) + 2
        BY <1>1, <1>2, <2>1
    <2> HIDE DEF two
    <2> QED
        BY <1>1, <2>1, <2>2
<1> HIDE DEF one, two
<1>7. ASSUME NEW i \in 1..(Len(text) + 2)
      PROVE  one[i] = two[i]
    <2>1. CASE i <= d.at
        <3>1. one[i] = right[i]
            BY <1>1, <1>5, <2>1
        <3>2. right[i] = text[i]
            <4>1. i \in 1..(Len(text) + 1)
                BY <1>1, <2>1
            <4> QED
                BY <1>1, <1>3, <2>1, <4>1
        <3>3. two[i] = left[i]
            BY <1>1, <1>6, <2>1
        <3>4. left[i] = text[i]
            <4>1. i \in 1..(Len(text) + 1)
                BY <1>1, <2>1
            <4> QED
                BY <1>1, <1>2, <2>1, <4>1
        <3> QED
            BY <3>1, <3>2, <3>3, <3>4
    <2>2. CASE i = d.at + 1
        <3>1. one[i] = x
            BY <1>1, <1>5, <2>2
        <3>2. two[i] = left[i]
            BY <1>1, <1>6, <2>2
        <3>3. left[i] = x
            <4>1. i \in 1..(Len(text) + 1)
                BY <1>1, <2>2
            <4> QED
                BY <1>1, <1>2, <2>2, <4>1
        <3> QED
            BY <3>1, <3>2, <3>3
    <2>3. CASE d.at + 1 < i /\ i <= e.at + 1
        <3>1. one[i] = right[i - 1]
            BY <1>1, <1>5, <2>3
        <3>2. right[i - 1] = text[i - 1]
            <4>1. i - 1 \in 1..(Len(text) + 1)
                BY <1>1, <2>3
            <4> QED
                BY <1>1, <1>3, <2>3, <4>1
        <3>3. two[i] = left[i]
            BY <1>1, <1>6, <2>3
        <3>4. left[i] = text[i - 1]
            <4>1. i \in 1..(Len(text) + 1)
                BY <1>1, <2>3
            <4> QED
                BY <1>1, <1>2, <2>3, <4>1
        <3> QED
            BY <3>1, <3>2, <3>3, <3>4
    <2>4. CASE i = (e.at + 1) + 1
        <3>1. one[i] = right[i - 1]
            BY <1>1, <1>5, <2>4
        <3>2. right[i - 1] = y
            <4>1. i - 1 \in 1..(Len(text) + 1)
                BY <1>1, <2>4
            <4> QED
                BY <1>1, <1>3, <2>4, <4>1
        <3>3. two[i] = y
            BY <1>1, <1>6, <2>4
        <3> QED
            BY <3>1, <3>2, <3>3
    <2>5. CASE i > (e.at + 1) + 1
        <3>1. one[i] = right[i - 1]
            BY <1>1, <1>5, <2>5
        <3>2. right[i - 1] = text[(i - 1) - 1]
            <4> DEFINE k == i - 1
            <4>1. k \in 1..(Len(text) + 1) /\ ~(k <= e.at) /\ k # e.at + 1
                BY <1>1, <2>5
            <4> HIDE DEF k
            <4>2. right[k] = text[k - 1]
                BY ONLY <1>3, <4>1
            <4> QED
                BY <4>2 DEF k
        <3>3. two[i] = left[i - 1]
            BY <1>1, <1>6, <2>5
        <3>4. left[i - 1] = text[(i - 1) - 1]
            <4> DEFINE k == i - 1
            <4>1. k \in 1..(Len(text) + 1) /\ ~(k <= d.at) /\ k # d.at + 1
                BY <1>1, <2>5
            <4> HIDE DEF k
            <4>2. left[k] = text[k - 1]
                BY ONLY <1>2, <4>1
            <4> QED
                BY <4>2 DEF k
        <3> QED
            BY <3>1, <3>2, <3>3, <3>4
    <2> QED
        BY <1>1, <2>1, <2>2, <2>3, <2>4, <2>5
<1>8. one = two
    BY <1>5, <1>6, <1>7, SameText
<1> QED
    BY <1>1, <1>4, <1>8 DEF SquareCloses, one, two, left, right

LEMMA SquareInsertBeforeRemoved ==
    ASSUME NEW L, NEW text \in Seq(L), NEW x \in L, NEW y \in L,
           NEW d \in Deltas, NEW e \in Deltas, Fits(text, d), Fits(text, e),
           d.edit = "insert", e.edit = "remove", d.at <= e.at,
           NEW dd, dd = d, NEW ee, ee = [e EXCEPT !.at = @ + 1]
    PROVE  SquareCloses(text, d, x, e, y, dd, ee)
<1> DEFINE left == Compose(text, d, x)
           right == Compose(text, e, y)
           one == Compose(right, dd, x)
           two == Compose(left, ee, y)
<1>1. /\ dd \in Deltas /\ dd.edit = "insert" /\ dd.at = d.at
      /\ ee \in Deltas /\ ee.edit = "remove" /\ ee.at = e.at + 1
      /\ d.at \in Nat /\ e.at \in Nat /\ Len(text) \in Nat
      /\ d.at <= Len(text) /\ e.at < Len(text)
    BY DEF Deltas, Fits
<1>2. /\ left \in Seq(L) /\ Len(left) = Len(text) + 1
      /\ \A i \in 1..(Len(text) + 1) :
           left[i] = IF i <= d.at THEN text[i] ELSE IF i = d.at + 1 THEN x ELSE text[i - 1]
    <2>1. text \in Seq(L) /\ d \in Deltas /\ d.edit = "insert" /\ Fits(text, d) /\ x \in L
        OBVIOUS
    <2>2. /\ left \in Seq(L) /\ Len(left) = Len(text) + 1
          /\ \A i \in 1..Len(left) :
               left[i] = IF i <= d.at THEN text[i] ELSE IF i = d.at + 1 THEN x ELSE text[i - 1]
        BY ONLY <2>1, Composed
    <2> HIDE DEF left
    <2> QED
        BY ONLY <2>2
<1>3. /\ right \in Seq(L) /\ Len(right) = Len(text) - 1
      /\ \A i \in 1..(Len(text) - 1) :
           right[i] = IF i <= e.at THEN text[i] ELSE text[i + 1]
    <2>1. text \in Seq(L) /\ e \in Deltas /\ e.edit = "remove" /\ Fits(text, e) /\ y \in L
        OBVIOUS
    <2>2. /\ right \in Seq(L) /\ Len(right) = Len(text) - 1
          /\ \A i \in 1..Len(right) :
               right[i] = IF i <= e.at THEN text[i] ELSE text[i + 1]
        BY ONLY <2>1, Composed
    <2> HIDE DEF right
    <2> QED
        BY ONLY <2>2
<1> HIDE DEF left, right
<1>4. Fits(right, dd) /\ Fits(left, ee)
    BY <1>1, <1>2, <1>3 DEF Fits
<1>5. /\ one \in Seq(L) /\ Len(one) = Len(text)
      /\ \A i \in 1..Len(text) :
           one[i] = IF i <= d.at THEN right[i] ELSE IF i = d.at + 1 THEN x ELSE right[i - 1]
    <2>1. /\ one \in Seq(L) /\ Len(one) = Len(right) + 1
          /\ \A i \in 1..Len(one) :
               one[i] = IF i <= dd.at THEN right[i] ELSE IF i = dd.at + 1 THEN x ELSE right[i - 1]
        <3>1. /\ right \in Seq(L) /\ dd \in Deltas /\ dd.edit = "insert"
              /\ Fits(right, dd) /\ x \in L
            BY <1>1, <1>3, <1>4
        <3> QED
            BY ONLY <3>1, Composed
    <2>2. Len(one) = Len(text)
        BY <1>1, <1>3, <2>1
    <2> HIDE DEF one
    <2> QED
        BY <1>1, <2>1, <2>2
<1>6. /\ two \in Seq(L) /\ Len(two) = Len(text)
      /\ \A i \in 1..Len(text) :
           two[i] = IF i <= e.at + 1 THEN left[i] ELSE left[i + 1]
    <2>1. /\ two \in Seq(L) /\ Len(two) = Len(left) - 1
          /\ \A i \in 1..Len(two) :
               two[i] = IF i <= ee.at THEN left[i] ELSE left[i + 1]
        <3>1. /\ left \in Seq(L) /\ ee \in Deltas /\ ee.edit = "remove"
              /\ Fits(left, ee) /\ y \in L
            BY <1>1, <1>2, <1>4
        <3> QED
            BY ONLY <3>1, Composed
    <2>2. Len(two) = Len(text)
        BY <1>1, <1>2, <2>1
    <2> HIDE DEF two
    <2> QED
        BY <1>1, <2>1, <2>2
<1> HIDE DEF one, two
<1>7. ASSUME NEW i \in 1..Len(text)
      PROVE  one[i] = two[i]
    <2>1. CASE i <= d.at
        <3>1. one[i] = right[i]
            BY <1>1, <1>5, <2>1
        <3>2. right[i] = text[i]
            <4>1. i \in 1..(Len(text) - 1)
                BY <1>1, <2>1
            <4> QED
                BY <1>1, <1>3, <2>1, <4>1
        <3>3. two[i] = left[i]
            BY <1>1, <1>6, <2>1
        <3>4. left[i] = text[i]
            <4>1. i \in 1..(Len(text) + 1)
                BY <1>1, <2>1
            <4> QED
                BY <1>1, <1>2, <2>1, <4>1
        <3> QED
            BY <3>1, <3>2, <3>3, <3>4
    <2>2. CASE i = d.at + 1
        <3>1. one[i] = x
            BY <1>1, <1>5, <2>2
        <3>2. two[i] = left[i]
            BY <1>1, <1>6, <2>2
        <3>3. left[i] = x
            <4>1. i \in 1..(Len(text) + 1)
                BY <1>1, <2>2
            <4> QED
                BY <1>1, <1>2, <2>2, <4>1
        <3> QED
            BY <3>1, <3>2, <3>3
    <2>3. CASE d.at + 1 < i /\ i <= e.at + 1
        <3>1. one[i] = right[i - 1]
            BY <1>1, <1>5, <2>3
        <3>2. right[i - 1] = text[i - 1]
            <4>1. i - 1 \in 1..(Len(text) - 1)
                BY <1>1, <2>3
            <4> QED
                BY <1>1, <1>3, <2>3, <4>1
        <3>3. two[i] = left[i]
            BY <1>1, <1>6, <2>3
        <3>4. left[i] = text[i - 1]
            <4>1. i \in 1..(Len(text) + 1)
                BY <1>1, <2>3
            <4> QED
                BY <1>1, <1>2, <2>3, <4>1
        <3> QED
            BY <3>1, <3>2, <3>3, <3>4
    <2>4. CASE i > e.at + 1
        <3>1. one[i] = right[i - 1]
            BY <1>1, <1>5, <2>4
        <3>2. right[i - 1] = text[(i - 1) + 1]
            <4>1. i - 1 \in 1..(Len(text) - 1)
                BY <1>1, <2>4
            <4> QED
                BY <1>1, <1>3, <2>4, <4>1
        <3>3. two[i] = left[i + 1]
            BY <1>1, <1>6, <2>4
        <3>4. left[i + 1] = text[(i + 1) - 1]
            <4>1. i + 1 \in 1..(Len(text) + 1)
                BY <1>1, <2>4
            <4> QED
                BY <1>1, <1>2, <2>4, <4>1
        <3>5. (i - 1) + 1 = (i + 1) - 1
            OBVIOUS
        <3> QED
            BY <3>1, <3>2, <3>3, <3>4, <3>5
    <2> QED
        BY <1>1, <2>1, <2>2, <2>3, <2>4
<1>8. one = two
    BY <1>5, <1>6, <1>7, SameText
<1> QED
    BY <1>1, <1>4, <1>8 DEF SquareCloses, one, two, left, right

LEMMA SquareInsertAfterRemoved ==
    ASSUME NEW L, NEW text \in Seq(L), NEW x \in L, NEW y \in L,
           NEW d \in Deltas, NEW e \in Deltas, Fits(text, d), Fits(text, e),
           d.edit = "insert", e.edit = "remove", e.at < d.at,
           NEW dd, dd = [d EXCEPT !.at = @ - 1], NEW ee, ee = e
    PROVE  SquareCloses(text, d, x, e, y, dd, ee)
<1> DEFINE left == Compose(text, d, x)
           right == Compose(text, e, y)
           one == Compose(right, dd, x)
           two == Compose(left, ee, y)
<1>1. /\ dd \in Deltas /\ dd.edit = "insert" /\ dd.at = d.at - 1
      /\ ee \in Deltas /\ ee.edit = "remove" /\ ee.at = e.at
      /\ d.at \in Nat /\ e.at \in Nat /\ Len(text) \in Nat
      /\ d.at <= Len(text) /\ e.at < Len(text)
    BY DEF Deltas, Fits
<1>2. /\ left \in Seq(L) /\ Len(left) = Len(text) + 1
      /\ \A i \in 1..(Len(text) + 1) :
           left[i] = IF i <= d.at THEN text[i] ELSE IF i = d.at + 1 THEN x ELSE text[i - 1]
    <2>1. text \in Seq(L) /\ d \in Deltas /\ d.edit = "insert" /\ Fits(text, d) /\ x \in L
        OBVIOUS
    <2>2. /\ left \in Seq(L) /\ Len(left) = Len(text) + 1
          /\ \A i \in 1..Len(left) :
               left[i] = IF i <= d.at THEN text[i] ELSE IF i = d.at + 1 THEN x ELSE text[i - 1]
        BY ONLY <2>1, Composed
    <2> HIDE DEF left
    <2> QED
        BY ONLY <2>2
<1>3. /\ right \in Seq(L) /\ Len(right) = Len(text) - 1
      /\ \A i \in 1..(Len(text) - 1) :
           right[i] = IF i <= e.at THEN text[i] ELSE text[i + 1]
    <2>1. text \in Seq(L) /\ e \in Deltas /\ e.edit = "remove" /\ Fits(text, e) /\ y \in L
        OBVIOUS
    <2>2. /\ right \in Seq(L) /\ Len(right) = Len(text) - 1
          /\ \A i \in 1..Len(right) :
               right[i] = IF i <= e.at THEN text[i] ELSE text[i + 1]
        BY ONLY <2>1, Composed
    <2> HIDE DEF right
    <2> QED
        BY ONLY <2>2
<1> HIDE DEF left, right
<1>4. Fits(right, dd) /\ Fits(left, ee)
    BY <1>1, <1>2, <1>3 DEF Fits
<1>5. /\ one \in Seq(L) /\ Len(one) = Len(text)
      /\ \A i \in 1..Len(text) :
           one[i] = IF i <= d.at - 1 THEN right[i] ELSE IF i = d.at - 1 + 1 THEN x ELSE right[i - 1]
    <2>1. /\ one \in Seq(L) /\ Len(one) = Len(right) + 1
          /\ \A i \in 1..Len(one) :
               one[i] = IF i <= dd.at THEN right[i] ELSE IF i = dd.at + 1 THEN x ELSE right[i - 1]
        <3>1. /\ right \in Seq(L) /\ dd \in Deltas /\ dd.edit = "insert"
              /\ Fits(right, dd) /\ x \in L
            BY <1>1, <1>3, <1>4
        <3> QED
            BY ONLY <3>1, Composed
    <2>2. Len(one) = Len(text)
        BY <1>1, <1>3, <2>1
    <2> HIDE DEF one
    <2> QED
        BY <1>1, <2>1, <2>2
<1>6. /\ two \in Seq(L) /\ Len(two) = Len(text)
      /\ \A i \in 1..Len(text) :
           two[i] = IF i <= e.at THEN left[i] ELSE left[i + 1]
    <2>1. /\ two \in Seq(L) /\ Len(two) = Len(left) - 1
          /\ \A i \in 1..Len(two) :
               two[i] = IF i <= ee.at THEN left[i] ELSE left[i + 1]
        <3>1. /\ left \in Seq(L) /\ ee \in Deltas /\ ee.edit = "remove"
              /\ Fits(left, ee) /\ y \in L
            BY <1>1, <1>2, <1>4
        <3> QED
            BY ONLY <3>1, Composed
    <2>2. Len(two) = Len(text)
        BY <1>1, <1>2, <2>1
    <2> HIDE DEF two
    <2> QED
        BY <1>1, <2>1, <2>2
<1> HIDE DEF one, two
<1>7. ASSUME NEW i \in 1..Len(text)
      PROVE  one[i] = two[i]
    <2>1. CASE i <= e.at
        <3>1. one[i] = right[i]
            BY <1>1, <1>5, <2>1
        <3>2. right[i] = text[i]
            <4>1. i \in 1..(Len(text) - 1)
                BY <1>1, <2>1
            <4> QED
                BY <1>1, <1>3, <2>1, <4>1
        <3>3. two[i] = left[i]
            BY <1>1, <1>6, <2>1
        <3>4. left[i] = text[i]
            <4>1. i \in 1..(Len(text) + 1)
                BY <1>1, <2>1
            <4> QED
                BY <1>1, <1>2, <2>1, <4>1
        <3> QED
            BY <3>1, <3>2, <3>3, <3>4
    <2>2. CASE e.at < i /\ i <= d.at - 1
        <3>1. one[i] = right[i]
            BY <1>1, <1>5, <2>2
        <3>2. right[i] = text[i + 1]
            <4>1. i \in 1..(Len(text) - 1)
                BY <1>1, <2>2
            <4> QED
                BY <1>1, <1>3, <2>2, <4>1
        <3>3. two[i] = left[i + 1]
            BY <1>1, <1>6, <2>2
        <3>4. left[i + 1] = text[i + 1]
            <4>1. i + 1 \in 1..(Len(text) + 1)
                BY <1>1, <2>2
            <4> QED
                BY <1>1, <1>2, <2>2, <4>1
        <3> QED
            BY <3>1, <3>2, <3>3, <3>4
    <2>3. CASE i = (d.at - 1) + 1
        <3>1. one[i] = x
            BY <1>1, <1>5, <2>3
        <3>2. two[i] = left[i + 1]
            BY <1>1, <1>6, <2>3
        <3>3. left[i + 1] = x
            <4>1. i + 1 \in 1..(Len(text) + 1)
                BY <1>1, <2>3
            <4> QED
                BY <1>1, <1>2, <2>3, <4>1
        <3> QED
            BY <3>1, <3>2, <3>3
    <2>4. CASE i > (d.at - 1) + 1
        <3>1. one[i] = right[i - 1]
            BY <1>1, <1>5, <2>4
        <3>2. right[i - 1] = text[(i - 1) + 1]
            <4>1. i - 1 \in 1..(Len(text) - 1)
                BY <1>1, <2>4
            <4> QED
                BY <1>1, <1>3, <2>4, <4>1
        <3>3. two[i] = left[i + 1]
            BY <1>1, <1>6, <2>4
        <3>4. left[i + 1] = text[(i + 1) - 1]
            <4>1. i + 1 \in 1..(Len(text) + 1)
                BY <1>1, <2>4
            <4> QED
                BY <1>1, <1>2, <2>4, <4>1
        <3>5. (i - 1) + 1 = (i + 1) - 1
            OBVIOUS
        <3> QED
            BY <3>1, <3>2, <3>3, <3>4, <3>5
    <2> QED
        BY <1>1, <2>1, <2>2, <2>3, <2>4
<1>8. one = two
    BY <1>5, <1>6, <1>7, SameText
<1> QED
    BY <1>1, <1>4, <1>8 DEF SquareCloses, one, two, left, right

LEMMA SquareRemoveRemove ==
    ASSUME NEW L, NEW text \in Seq(L), NEW x \in L, NEW y \in L,
           NEW d \in Deltas, NEW e \in Deltas, Fits(text, d), Fits(text, e),
           d.edit = "remove", e.edit = "remove", d.at < e.at,
           NEW dd, dd = d, NEW ee, ee = [e EXCEPT !.at = @ - 1]
    PROVE  SquareCloses(text, d, x, e, y, dd, ee)
<1> DEFINE left == Compose(text, d, x)
           right == Compose(text, e, y)
           one == Compose(right, dd, x)
           two == Compose(left, ee, y)
<1>1. /\ dd \in Deltas /\ dd.edit = "remove" /\ dd.at = d.at
      /\ ee \in Deltas /\ ee.edit = "remove" /\ ee.at = e.at - 1
      /\ d.at \in Nat /\ e.at \in Nat /\ Len(text) \in Nat
      /\ d.at < Len(text) /\ e.at < Len(text)
    BY DEF Deltas, Fits
<1>2. /\ left \in Seq(L) /\ Len(left) = Len(text) - 1
      /\ \A i \in 1..(Len(text) - 1) :
           left[i] = IF i <= d.at THEN text[i] ELSE text[i + 1]
    <2>1. text \in Seq(L) /\ d \in Deltas /\ d.edit = "remove" /\ Fits(text, d) /\ x \in L
        OBVIOUS
    <2>2. /\ left \in Seq(L) /\ Len(left) = Len(text) - 1
          /\ \A i \in 1..Len(left) :
               left[i] = IF i <= d.at THEN text[i] ELSE text[i + 1]
        BY ONLY <2>1, Composed
    <2> HIDE DEF left
    <2> QED
        BY ONLY <2>2
<1>3. /\ right \in Seq(L) /\ Len(right) = Len(text) - 1
      /\ \A i \in 1..(Len(text) - 1) :
           right[i] = IF i <= e.at THEN text[i] ELSE text[i + 1]
    <2>1. text \in Seq(L) /\ e \in Deltas /\ e.edit = "remove" /\ Fits(text, e) /\ y \in L
        OBVIOUS
    <2>2. /\ right \in Seq(L) /\ Len(right) = Len(text) - 1
          /\ \A i \in 1..Len(right) :
               right[i] = IF i <= e.at THEN text[i] ELSE text[i + 1]
        BY ONLY <2>1, Composed
    <2> HIDE DEF right
    <2> QED
        BY ONLY <2>2
<1> HIDE DEF left, right
<1>4. Fits(right, dd) /\ Fits(left, ee)
    BY <1>1, <1>2, <1>3 DEF Fits
<1>5. /\ one \in Seq(L) /\ Len(one) = Len(text) - 2
      /\ \A i \in 1..(Len(text) - 2) :
           one[i] = IF i <= d.at THEN right[i] ELSE right[i + 1]
    <2>1. /\ one \in Seq(L) /\ Len(one) = Len(right) - 1
          /\ \A i \in 1..Len(one) :
               one[i] = IF i <= dd.at THEN right[i] ELSE right[i + 1]
        <3>1. /\ right \in Seq(L) /\ dd \in Deltas /\ dd.edit = "remove"
              /\ Fits(right, dd) /\ x \in L
            BY <1>1, <1>3, <1>4
        <3> QED
            BY ONLY <3>1, Composed
    <2>2. Len(one) = Len(text) - 2
        BY <1>1, <1>3, <2>1
    <2> HIDE DEF one
    <2> QED
        BY <1>1, <2>1, <2>2
<1>6. /\ two \in Seq(L) /\ Len(two) = Len(text) - 2
      /\ \A i \in 1..(Len(text) - 2) :
           two[i] = IF i <= e.at - 1 THEN left[i] ELSE left[i + 1]
    <2>1. /\ two \in Seq(L) /\ Len(two) = Len(left) - 1
          /\ \A i \in 1..Len(two) :
               two[i] = IF i <= ee.at THEN left[i] ELSE left[i + 1]
        <3>1. /\ left \in Seq(L) /\ ee \in Deltas /\ ee.edit = "remove"
              /\ Fits(left, ee) /\ y \in L
            BY <1>1, <1>2, <1>4
        <3> QED
            BY ONLY <3>1, Composed
    <2>2. Len(two) = Len(text) - 2
        BY <1>1, <1>2, <2>1
    <2> HIDE DEF two
    <2> QED
        BY <1>1, <2>1, <2>2
<1> HIDE DEF one, two
<1>7. ASSUME NEW i \in 1..(Len(text) - 2)
      PROVE  one[i] = two[i]
    <2>1. CASE i <= d.at
        <3>1. one[i] = right[i]
            BY <1>1, <1>5, <2>1
        <3>2. right[i] = text[i]
            <4>1. i \in 1..(Len(text) - 1)
                BY <1>1, <2>1
            <4> QED
                BY <1>1, <1>3, <2>1, <4>1
        <3>3. two[i] = left[i]
            BY <1>1, <1>6, <2>1
        <3>4. left[i] = text[i]
            <4>1. i \in 1..(Len(text) - 1)
                BY <1>1, <2>1
            <4> QED
                BY <1>1, <1>2, <2>1, <4>1
        <3> QED
            BY <3>1, <3>2, <3>3, <3>4
    <2>2. CASE d.at < i /\ i <= e.at - 1
        <3>1. one[i] = right[i + 1]
            BY <1>1, <1>5, <2>2
        <3>2. right[i + 1] = text[i + 1]
            <4>1. i + 1 \in 1..(Len(text) - 1)
                BY <1>1, <2>2
            <4> QED
                BY <1>1, <1>3, <2>2, <4>1
        <3>3. two[i] = left[i]
            BY <1>1, <1>6, <2>2
        <3>4. left[i] = text[i + 1]
            <4>1. i \in 1..(Len(text) - 1)
                BY <1>1, <2>2
            <4> QED
                BY <1>1, <1>2, <2>2, <4>1
        <3> QED
            BY <3>1, <3>2, <3>3, <3>4
    <2>3. CASE i > e.at - 1
        <3>1. one[i] = right[i + 1]
            BY <1>1, <1>5, <2>3
        <3>2. right[i + 1] = text[(i + 1) + 1]
            <4>1. i + 1 \in 1..(Len(text) - 1)
                BY <1>1, <2>3
            <4> QED
                BY <1>1, <1>3, <2>3, <4>1
        <3>3. two[i] = left[i + 1]
            BY <1>1, <1>6, <2>3
        <3>4. left[i + 1] = text[(i + 1) + 1]
            <4>1. i + 1 \in 1..(Len(text) - 1)
                BY <1>1, <2>3
            <4> QED
                BY <1>1, <1>2, <2>3, <4>1
        <3> QED
            BY <3>1, <3>2, <3>3, <3>4
    <2> QED
        BY <1>1, <2>1, <2>2, <2>3
<1>8. one = two
    BY <1>5, <1>6, <1>7, SameText
<1> QED
    BY <1>1, <1>4, <1>8 DEF SquareCloses, one, two, left, right

LEMMA SquareTurned ==
    ASSUME NEW text, NEW d, NEW x, NEW e, NEW y, NEW dd, NEW ee,
           SquareCloses(text, e, y, d, x, ee, dd)
    PROVE  SquareCloses(text, d, x, e, y, dd, ee)
BY DEF SquareCloses

\* TransformDelta closes the square of any two concurrent changes of a text,
\* when exactly one of the two has priority.
LEMMA TransformDeltaMeets ==
    ASSUME NEW L, NEW text \in Seq(L), NEW x \in L, NEW y \in L,
           NEW d \in Deltas, NEW e \in Deltas, Fits(text, d), Fits(text, e),
           NEW priority \in BOOLEAN
    PROVE  SquareCloses(text, d, x, e, y, TransformDelta(d, e, ~priority),
                        TransformDelta(e, d, priority))
<1> DEFINE dd == TransformDelta(d, e, ~priority)
           ee == TransformDelta(e, d, priority)
           Goal == SquareCloses(text, d, x, e, y, dd, ee)
<1>1. d.at \in Nat /\ e.at \in Nat
    BY DEF Deltas
<1>2. CASE d.edit = "keep" \/ e.edit = "keep"
    <2>1. dd = d /\ ee = e
        <3>1. \A b : TransformDelta(d, e, b) = d
            BY ONLY <1>2 DEF TransformDelta
        <3>2. \A b : TransformDelta(e, d, b) = e
            BY ONLY <1>2 DEF TransformDelta
        <3> QED
            BY ONLY <3>1, <3>2
    <2> HIDE DEF dd, ee
    <2>2. ASSUME d.edit = "keep" PROVE Goal
        <3>1. \A t : Compose(t, d, x) = t /\ Fits(t, d)
            BY <2>2 DEF Compose, Fits
        <3> QED
            BY <2>1, <3>1 DEF SquareCloses
    <2>3. ASSUME e.edit = "keep" PROVE Goal
        <3>1. \A t : Compose(t, e, y) = t /\ Fits(t, e)
            BY <2>3 DEF Compose, Fits
        <3> QED
            BY <2>1, <3>1 DEF SquareCloses
    <2> QED
        BY <1>2, <2>2, <2>3 DEF dd, ee
<1>3. CASE d.edit = "insert" /\ e.edit = "insert"
    <2>1. CASE d.at < e.at \/ (d.at = e.at /\ priority)
        <3>1. dd = d /\ ee = [e EXCEPT !.at = @ + 1]
            BY <1>1, <1>3, <2>1 DEF TransformDelta
        <3>2. d.at <= e.at
            BY <1>1, <2>1
        <3> HIDE DEF dd, ee
        <3>3. Goal
            BY <1>3, <3>1, <3>2, SquareInsertInsert
        <3> QED
            BY <3>3 DEF dd, ee
    <2>2. CASE ~(d.at < e.at \/ (d.at = e.at /\ priority))
        <3>1. ee = e /\ dd = [d EXCEPT !.at = @ + 1]
            BY <1>1, <1>3, <2>2 DEF TransformDelta
        <3>2. e.at <= d.at
            BY <1>1, <2>2
        <3> HIDE DEF dd, ee
        <3>3. SquareCloses(text, e, y, d, x, ee, dd)
            BY <1>3, <3>1, <3>2, SquareInsertInsert
        <3> QED
            BY <3>3, SquareTurned DEF dd, ee
    <2> QED
        BY <2>1, <2>2
<1>4. CASE d.edit = "insert" /\ e.edit = "remove"
    <2>1. CASE d.at <= e.at
        <3>1. dd = d /\ ee = [e EXCEPT !.at = @ + 1]
            BY <1>1, <1>4, <2>1 DEF TransformDelta
        <3> HIDE DEF dd, ee
        <3>3. Goal
            BY <1>4, <2>1, <3>1, SquareInsertBeforeRemoved
        <3> QED
            BY <3>3 DEF dd, ee
    <2>2. CASE e.at < d.at
        <3>1. ee = e /\ dd = [d EXCEPT !.at = @ - 1]
            BY <1>1, <1>4, <2>2 DEF TransformDelta
        <3> HIDE DEF dd, ee
        <3>3. Goal
            BY <1>4, <2>2, <3>1, SquareInsertAfterRemoved
        <3> QED
            BY <3>3 DEF dd, ee
    <2> QED
        BY <1>1, <2>1, <2>2
<1>5. CASE d.edit = "remove" /\ e.edit = "insert"
    <2>1. CASE e.at <= d.at
        <3>1. ee = e /\ dd = [d EXCEPT !.at = @ + 1]
            BY <1>1, <1>5, <2>1 DEF TransformDelta
        <3> HIDE DEF dd, ee
        <3>3. SquareCloses(text, e, y, d, x, ee, dd)
            BY <1>5, <2>1, <3>1, SquareInsertBeforeRemoved
        <3> QED
            BY <3>3, SquareTurned DEF dd, ee
    <2>2. CASE d.at < e.at
        <3>1. dd = d /\ ee = [e EXCEPT !.at = @ - 1]
            BY <1>1, <1>5, <2>2 DEF TransformDelta
        <3> HIDE DEF dd, ee
        <3>3. SquareCloses(text, e, y, d, x, ee, dd)
            BY <1>5, <2>2, <3>1, SquareInsertAfterRemoved
        <3> QED
            BY <3>3, SquareTurned DEF dd, ee
    <2> QED
        BY <1>1, <2>1, <2>2
<1>6. CASE d.edit = "remove" /\ e.edit = "remove"
    <2>1. CASE d.at < e.at
        <3>1. dd = d /\ ee = [e EXCEPT !.at = @ - 1]
            BY <1>1, <1>6, <2>1 DEF TransformDelta
        <3> HIDE DEF dd, ee
        <3>3. Goal
            BY <1>6, <2>1, <3>1, SquareRemoveRemove
        <3> QED
            BY <3>3 DEF dd, ee
    <2>2. CASE e.at < d.at
        <3>1. ee = e /\ dd = [d EXCEPT !.at = @ - 1]
            BY <1>1, <1>6, <2>2 DEF TransformDelta
        <3> HIDE DEF dd, ee
        <3>3. SquareCloses(text, e, y, d, x, ee, dd)
            BY <1>6, <2>2, <3>1, SquareRemoveRemove
        <3> QED
            BY <3>3, SquareTurned DEF dd, ee
    <2>3. CASE d.at = e.at
        <3>1. dd = Keep /\ ee = Keep
            BY <1>1, <1>6, <2>3 DEF TransformDelta
        <3>2. Keep \in Deltas /\ \A t, z : Compose(t, Keep, z) = t /\ Fits(t, Keep)
            BY DEF Keep, Deltas, Compose, Fits
        <3>3. Compose(text, d, x) = Compose(text, e, y)
            BY <1>6, <2>3 DEF Compose
        <3> HIDE DEF dd, ee
        <3>4. Goal
            BY <3>1, <3>2, <3>3 DEF SquareCloses
        <3> QED
            BY <3>4 DEF dd, ee
    <2> QED
        BY <1>1, <2>1, <2>2, <2>3
<1>7. d.edit \in {"insert", "remove", "keep"} /\ e.edit \in {"insert", "remove", "keep"}
    BY DEF Deltas
<1> QED
    BY <1>2, <1>3, <1>4, <1>5, <1>6, <1>7

-------------------------------------------------------------------------------
(* Text operations on a document, which is for them a text for every       *)
(* block.                                                                  *)

IsTextOp(op, B, L) ==
    /\ {"id", "kind", "block", "delta"} \subseteq DOMAIN op
    /\ op.kind = "text_delta" /\ op.block \in B /\ op.id \in L /\ op.delta \in Deltas

Suits(texts, op) == Fits(texts[op.block], op.delta)

Played(texts, op) ==
    [texts EXCEPT ![op.block] = Compose(texts[op.block], op.delta, op.id)]

\* t and o are one operation but for what the delta says.
SameEdit(t, o) == t.id = o.id /\ t.block = o.block

LEMMA PlayedIsTexts ==
    ASSUME NEW B, NEW L, NEW texts \in [B -> Seq(L)],
           NEW op, IsTextOp(op, B, L), Suits(texts, op)
    PROVE  Played(texts, op) \in [B -> Seq(L)]
<1>1. Compose(texts[op.block], op.delta, op.id) \in Seq(L)
    BY Composed DEF IsTextOp, Suits
<1> QED
    BY <1>1 DEF Played, IsTextOp

\* What TransformOp makes of a text operation over another.
LEMMA TextTransformed ==
    ASSUME NEW B, NEW L, NEW op, IsTextOp(op, B, L), NEW row, IsTextOp(row, B, L),
           NEW wins \in BOOLEAN
    PROVE  TransformOp(op, row, wins) =
               IF op.block = row.block
               THEN [op EXCEPT !.delta = TransformDelta(op.delta, row.delta, ~wins)]
               ELSE op
BY DEF TransformOp, IsTextOp

LEMMA DeltaReplaced ==
    ASSUME NEW B, NEW L, NEW op, IsTextOp(op, B, L), NEW d \in Deltas
    PROVE  LET t == [op EXCEPT !.delta = d] IN
           IsTextOp(t, B, L) /\ SameEdit(t, op) /\ t.delta = d
BY DEF IsTextOp, SameEdit

\* mine and rest are op and row, each rewritten to follow the other.
Meet(texts, op, row, mine, rest, B, L) ==
    /\ IsTextOp(mine, B, L) /\ SameEdit(mine, op)
    /\ IsTextOp(rest, B, L) /\ SameEdit(rest, row)
    /\ Suits(Played(texts, row), mine) /\ Suits(Played(texts, op), rest)
    /\ Played(Played(texts, row), mine) = Played(Played(texts, op), rest)

\* Two concurrent text operations, each rewritten over the other, meet.
LEMMA OpsMeet ==
    ASSUME NEW B, NEW L, NEW texts \in [B -> Seq(L)], NEW wins \in BOOLEAN,
           NEW op, IsTextOp(op, B, L), Suits(texts, op),
           NEW row, IsTextOp(row, B, L), Suits(texts, row)
    PROVE  Meet(texts, op, row, TransformOp(op, row, wins), TransformOp(row, op, ~wins), B, L)
<1> DEFINE mine == TransformOp(op, row, wins)
           rest == TransformOp(row, op, ~wins)
           b == op.block
           c == row.block
<1>0. b \in B /\ c \in B /\ op.id \in L /\ row.id \in L /\ op.delta \in Deltas /\ row.delta \in Deltas
    BY DEF IsTextOp
<1>1. CASE b = c
    <2> DEFINE dd == TransformDelta(op.delta, row.delta, ~wins)
               ee == TransformDelta(row.delta, op.delta, wins)
               text == texts[b]
    <2>1. mine = [op EXCEPT !.delta = dd]
        BY <1>1, TextTransformed
    <2>2. rest = [row EXCEPT !.delta = ee]
        <3> DEFINE loses == ~wins
        <3>1. loses \in BOOLEAN /\ ~loses = wins
            OBVIOUS
        <3> HIDE DEF loses
        <3>2. TransformOp(row, op, loses) =
                  [row EXCEPT !.delta = TransformDelta(row.delta, op.delta, ~loses)]
            BY <1>1, <3>1, TextTransformed
        <3> QED
            BY <3>1, <3>2 DEF loses
    <2>3. text \in Seq(L) /\ Fits(text, op.delta) /\ Fits(text, row.delta)
        BY <1>0, <1>1 DEF Suits
    <2>4. SquareCloses(text, op.delta, op.id, row.delta, row.id, dd, ee)
        BY <1>0, <2>3, TransformDeltaMeets
    <2> HIDE DEF mine, rest, dd, ee
    <2>5. dd \in Deltas /\ ee \in Deltas
        BY <2>4 DEF SquareCloses
    <2>6. /\ IsTextOp(mine, B, L) /\ mine.id = op.id /\ mine.block = b /\ mine.delta = dd
          /\ IsTextOp(rest, B, L) /\ rest.id = row.id /\ rest.block = b /\ rest.delta = ee
        BY <1>1, <2>1, <2>2, <2>5, DeltaReplaced DEF SameEdit
    <2>7. /\ Played(texts, row) = [texts EXCEPT ![b] = Compose(text, row.delta, row.id)]
          /\ Played(texts, op) = [texts EXCEPT ![b] = Compose(text, op.delta, op.id)]
        BY <1>1 DEF Played
    <2>8. /\ Played(texts, row)[b] = Compose(text, row.delta, row.id)
          /\ Played(texts, op)[b] = Compose(text, op.delta, op.id)
        BY <1>0, <2>7
    <2>9. Suits(Played(texts, row), mine) /\ Suits(Played(texts, op), rest)
        BY <2>4, <2>6, <2>8 DEF Suits, SquareCloses
    <2>10. Played(Played(texts, row), mine) = Played(Played(texts, op), rest)
        <3> DEFINE u == Compose(text, row.delta, row.id)
                   v == Compose(text, op.delta, op.id)
                   w == Compose(u, dd, op.id)
        <3>1. w = Compose(v, ee, row.id)
            BY <2>4 DEF SquareCloses
        <3>2. Played(Played(texts, row), mine) = [Played(texts, row) EXCEPT ![b] = w]
            BY <2>6, <2>8 DEF Played
        <3>3. Played(Played(texts, op), rest) = [Played(texts, op) EXCEPT ![b] = w]
            BY <2>6, <2>8, <3>1 DEF Played
        <3> HIDE DEF u, v, w
        <3>4. [[texts EXCEPT ![b] = u] EXCEPT ![b] = w] = [[texts EXCEPT ![b] = v] EXCEPT ![b] = w]
            BY <1>0
        <3> QED
            BY <2>7, <3>2, <3>3, <3>4 DEF u, v
    <2> QED
        BY <1>1, <2>6, <2>9, <2>10 DEF Meet, SameEdit, mine, rest
<1>2. CASE b # c
    <2>1. mine = op
        BY <1>2, TextTransformed
    <2>2. rest = row
        <3> DEFINE loses == ~wins
        <3>1. loses \in BOOLEAN
            OBVIOUS
        <3> HIDE DEF loses
        <3>2. TransformOp(row, op, loses) = row
            BY <1>2, <3>1, TextTransformed
        <3> QED
            BY <3>2 DEF loses
    <2> HIDE DEF mine, rest
    <2>3. Played(texts, row)[b] = texts[b] /\ Played(texts, op)[c] = texts[c]
        BY <1>0, <1>2 DEF Played
    <2>4. Suits(Played(texts, row), op) /\ Suits(Played(texts, op), row)
        BY <2>3 DEF Suits
    <2>5. Played(Played(texts, row), op) = Played(Played(texts, op), row)
        <3> DEFINE x == Compose(texts[b], op.delta, op.id)
                   y == Compose(texts[c], row.delta, row.id)
        <3>1. /\ Played(Played(texts, row), op) = [[texts EXCEPT ![c] = y] EXCEPT ![b] = x]
              /\ Played(Played(texts, op), row) = [[texts EXCEPT ![b] = x] EXCEPT ![c] = y]
            BY <2>3 DEF Played
        <3> HIDE DEF x, y
        <3>2. [[texts EXCEPT ![c] = y] EXCEPT ![b] = x] = [[texts EXCEPT ![b] = x] EXCEPT ![c] = y]
            BY <1>0, <1>2
        <3> QED
            BY <3>1, <3>2
    <2> QED
        BY <2>1, <2>2, <2>4, <2>5 DEF Meet, SameEdit, mine, rest
<1> QED
    BY <1>1, <1>2

\* A document's blocks have different identifiers; the texts of its blocks.
IsDocument(doc, L) ==
    /\ doc \in Seq({doc[i] : i \in DOMAIN doc})
    /\ \A i \in DOMAIN doc : {"id", "text"} \subseteq DOMAIN doc[i] /\ doc[i].text \in Seq(L)
    /\ \A i, j \in DOMAIN doc : doc[i].id = doc[j].id => i = j

TextsOf(doc) == [b \in BlockIds(doc) |-> TextOf(doc, b)]

\* Server and client play a text operation that fits in the same way, and it
\* changes the texts as Played says.
LEMMA TextOpApplies ==
    ASSUME NEW L, NEW doc, IsDocument(doc, L),
           NEW op, IsTextOp(op, BlockIds(doc), L), Suits(TextsOf(doc), op)
    PROVE  /\ ClientApply(doc, op) = ServerApply(doc, op)
           /\ IsDocument(ServerApply(doc, op), L)
           /\ TextsOf(doc) \in [BlockIds(doc) -> Seq(L)]
           /\ TextsOf(ServerApply(doc, op)) = Played(TextsOf(doc), op)
<1> DEFINE at == PositionOf(doc, op.block)
           text == Compose(doc[at].text, op.delta, op.id)
           block == [doc[at] EXCEPT !.text = text]
           next == [doc EXCEPT ![at] = block]
<1>1. \A b \in BlockIds(doc) :
           PositionOf(doc, b) \in DOMAIN doc /\ doc[PositionOf(doc, b)].id = b
    BY DEF BlockIds, PositionOf
<1>2. op.block \in BlockIds(doc) /\ op.kind = "text_delta"
    BY DEF IsTextOp
<1>3. at \in DOMAIN doc /\ doc[at].id = op.block
    BY <1>1, <1>2
<1>4. Fits(doc[at].text, op.delta)
    BY <1>2 DEF Suits, TextsOf, TextOf
<1>5. text \in Seq(L)
    BY <1>3, <1>4, Composed DEF IsTextOp, IsDocument
<1>6. ServerApply(doc, op) = next
    BY <1>2, <1>4 DEF ServerApply, ServerTextDelta, ServerCompose, WithBlock
<1>7. ClientApply(doc, op) = next
    BY <1>2, <1>4 DEF ClientApply, ClientTextDelta, Present, WithBlock
<1> HIDE DEF text, at
<1>8. /\ block.id = op.block /\ block.text = text /\ {"id", "text"} \subseteq DOMAIN block
    BY <1>3 DEF IsDocument
<1> HIDE DEF block
<1>9. DOMAIN next = DOMAIN doc /\ \A i \in DOMAIN doc : next[i] = IF i = at THEN block ELSE doc[i]
    OBVIOUS
<1>10. \A i \in DOMAIN doc : next[i].id = doc[i].id
    BY <1>3, <1>8, <1>9
<1>11. IsDocument(next, L)
    <2>1. next \in Seq({next[i] : i \in DOMAIN next})
        <3>1. DOMAIN next = 1..Len(doc) /\ Len(doc) \in Nat
            BY <1>9 DEF IsDocument
        <3>2. next = [i \in 1..Len(doc) |-> next[i]]
            BY <3>1
        <3> DEFINE X == {next[i] : i \in DOMAIN next}
        <3>3. \A i \in 1..Len(doc) : next[i] \in X
            BY <3>1
        <3> HIDE DEF next, X
        <3>4. next \in Seq(X)
            BY <3>1, <3>2, <3>3
        <3> QED
            BY <3>4 DEF X
    <2> HIDE DEF next
    <2> QED
        BY <1>5, <1>8, <1>9, <1>10, <2>1 DEF IsDocument
<1>12. BlockIds(next) = BlockIds(doc)
    <2> HIDE DEF next
    <2> QED
        BY <1>9, <1>10 DEF BlockIds
<1>13. \A b \in BlockIds(doc) : PositionOf(next, b) = PositionOf(doc, b)
    <2> HIDE DEF next
    <2> TAKE b \in BlockIds(doc)
    <2>1. \A i \in DOMAIN doc : next[i].id = b <=> i = PositionOf(doc, b)
        BY <1>1, <1>10 DEF IsDocument
    <2>2. PositionOf(next, b) \in DOMAIN doc /\ next[PositionOf(next, b)].id = b
        BY <1>1, <1>9, <2>1 DEF PositionOf
    <2> QED
        BY <2>1, <2>2
<1>14. TextsOf(doc) \in [BlockIds(doc) -> Seq(L)]
    BY <1>1 DEF TextsOf, TextOf, IsDocument
<1>15. TextsOf(next) = Played(TextsOf(doc), op)
    <2> HIDE DEF next
    <2>1. \A b \in BlockIds(doc) : PositionOf(doc, b) = at <=> b = op.block
        BY <1>1, <1>3 DEF at
    <2>2. \A b \in BlockIds(doc) :
              TextOf(next, b) = IF b = op.block THEN text ELSE TextOf(doc, b)
        BY <1>1, <1>8, <1>9, <1>13, <2>1 DEF TextOf
    <2>3. TextsOf(doc)[op.block] = doc[at].text
        BY <1>2 DEF TextsOf, TextOf, at
    <2> QED
        BY <1>2, <1>12, <2>2, <2>3 DEF TextsOf, Played, text
<1> QED
    BY <1>6, <1>7, <1>11, <1>14, <1>15

-------------------------------------------------------------------------------
(* Lists of text operations, and the documents they lead to.               *)

TextOps(ops, B, L) ==
    /\ ops \in Seq({ops[i] : i \in DOMAIN ops})
    /\ \A i \in DOMAIN ops : IsTextOp(ops[i], B, L)

SameEdits(ops, others) ==
    /\ Len(ops) = Len(others)
    /\ \A i \in 1..Len(ops) : SameEdit(ops[i], others[i])

\* trace holds the document before ops, between any two of them and after them;
\* each operation fits where it is played.
Plays(trace, texts, ops, B, L) ==
    /\ trace \in [0..Len(ops) -> [B -> Seq(L)]]
    /\ trace[0] = texts
    /\ \A i \in 1..Len(ops) :
            Suits(trace[i - 1], ops[i]) /\ trace[i] = Played(trace[i - 1], ops[i])

Leads(texts, ops, now, B, L) ==
    \E trace : Plays(trace, texts, ops, B, L) /\ trace[Len(ops)] = now

LEMMA TextOpsOneMore ==
    ASSUME NEW B, NEW L, NEW ops, TextOps(ops, B, L), NEW op, IsTextOp(op, B, L)
    PROVE  LET more == Append(ops, op) IN
           /\ TextOps(more, B, L) /\ Len(ops) \in Nat /\ Len(more) = Len(ops) + 1
           /\ \A i \in 1..Len(ops) : more[i] = ops[i]
           /\ more[Len(ops) + 1] = op
<1> DEFINE X == {ops[i] : i \in DOMAIN ops} \cup {op}
           more == Append(ops, op)
<1>1. ops \in Seq({ops[i] : i \in DOMAIN ops})
    BY DEF TextOps
<1>2. ops \in Seq(X)
    BY <1>1
<1>3. op \in X
    OBVIOUS
<1> HIDE DEF X
<1>4. /\ more \in Seq(X) /\ Len(more) = Len(ops) + 1 /\ Len(ops) \in Nat
      /\ DOMAIN more = 1..Len(more) /\ DOMAIN ops = 1..Len(ops)
      /\ more[Len(ops) + 1] = op /\ \A i \in 1..Len(ops) : more[i] = ops[i]
    BY <1>2, <1>3
<1> HIDE DEF more
<1>5. \A i \in DOMAIN more : IsTextOp(more[i], B, L)
    <2> TAKE i \in DOMAIN more
    <2>1. CASE i = Len(ops) + 1
        BY <1>4, <2>1
    <2>2. CASE i \in 1..Len(ops)
        BY <1>4, <2>2 DEF TextOps
    <2> QED
        BY <1>4, <2>1, <2>2
<1>6. more \in Seq({more[i] : i \in DOMAIN more})
    BY <1>4, OwnElements
<1> QED
    BY <1>4, <1>5, <1>6 DEF TextOps, more

LEMMA LeadsOn ==
    ASSUME NEW B, NEW L, NEW texts, NEW ops, TextOps(ops, B, L),
           NEW now, Leads(texts, ops, now, B, L),
           NEW op, IsTextOp(op, B, L), Suits(now, op)
    PROVE  Leads(texts, Append(ops, op), Played(now, op), B, L)
<1> DEFINE more == Append(ops, op)
<1>1. /\ Len(ops) \in Nat /\ Len(more) = Len(ops) + 1
      /\ \A i \in 1..Len(ops) : more[i] = ops[i]
      /\ more[Len(ops) + 1] = op
    BY TextOpsOneMore
<1>2. PICK trace : Plays(trace, texts, ops, B, L) /\ trace[Len(ops)] = now
    BY DEF Leads
<1> DEFINE after == Played(now, op)
           longer == [i \in 0..Len(more) |-> IF i = Len(more) THEN after ELSE trace[i]]
<1>3. now \in [B -> Seq(L)]
    BY <1>1, <1>2 DEF Plays
<1>4. after \in [B -> Seq(L)]
    BY <1>3, PlayedIsTexts
<1> HIDE DEF more, after
<1>5. longer \in [0..Len(more) -> [B -> Seq(L)]] /\ longer[0] = texts
    BY <1>1, <1>2, <1>4 DEF Plays
<1>6. ASSUME NEW i \in 1..Len(more)
      PROVE  Suits(longer[i - 1], more[i]) /\ longer[i] = Played(longer[i - 1], more[i])
    <2>1. CASE i = Len(ops) + 1
        <3>1. longer[i - 1] = now /\ longer[i] = after /\ more[i] = op
            BY <1>1, <1>2, <2>1
        <3> HIDE DEF longer
        <3> QED
            BY <3>1 DEF after
    <2>2. CASE i \in 1..Len(ops)
        <3>1. longer[i - 1] = trace[i - 1] /\ longer[i] = trace[i] /\ more[i] = ops[i]
            BY <1>1, <2>2
        <3> HIDE DEF longer
        <3> QED
            BY <1>2, <2>2, <3>1 DEF Plays
    <2> QED
        BY <1>1, <2>1, <2>2
<1>7. longer[Len(more)] = after
    BY <1>1
<1> HIDE DEF longer
<1>8. Plays(longer, texts, more, B, L)
    BY <1>5, <1>6 DEF Plays
<1> QED
    BY <1>7, <1>8 DEF Leads, more, after

LEMMA LeadsNowhere ==
    ASSUME NEW B, NEW L, NEW texts \in [B -> Seq(L)]
    PROVE  TextOps(<<>>, B, L) /\ Leads(texts, <<>>, texts, B, L)
<1>1. Len(<<>>) = 0 /\ DOMAIN <<>> = {}
    OBVIOUS
<1>2. TextOps(<<>>, B, L)
    BY <1>1 DEF TextOps
<1> DEFINE trace == [i \in 0..0 |-> texts]
<1>3. trace \in [0..0 -> [B -> Seq(L)]] /\ trace[0] = texts
    OBVIOUS
<1> HIDE DEF trace
<1>4. Plays(trace, texts, <<>>, B, L)
    BY <1>1, <1>3 DEF Plays
<1> QED
    BY <1>1, <1>2, <1>3, <1>4 DEF Leads

-------------------------------------------------------------------------------
(* What a reader sees of a text: its letters and their order.              *)

LettersOf(text) == {text[i] : i \in 1..Len(text)}

ShownBefore(text, x, y) ==
    \E i, j \in 1..Len(text) : i < j /\ text[i] = x /\ text[j] = y

\* No letter stands in text twice.
Single(text) == \A i, j \in 1..Len(text) : text[i] = text[j] => i = j

\* now is text with letters taken out and x put in at `place`, if anywhere;
\* `from` says where each other letter stood.
Descends(now, text, x) ==
    \E place \in Nat, from \in [1..Len(now) -> Nat] :
        /\ \A i \in 1..Len(now) :
             IF i = place THEN now[i] = x
             ELSE from[i] \in 1..Len(text) /\ now[i] = text[from[i]]
        /\ \A i, j \in 1..Len(now) : i < j /\ i # place /\ j # place => from[i] < from[j]

LEMMA ComposedDescends ==
    ASSUME NEW L, NEW text \in Seq(L), NEW x \in L, NEW d \in Deltas, Fits(text, d)
    PROVE  Descends(Compose(text, d, x), text, x)
<1> DEFINE now == Compose(text, d, x)
<1>0. d.at \in Nat /\ Len(text) \in Nat
    BY DEF Deltas
<1>1. CASE d.edit = "insert"
    <2> DEFINE from == [i \in 1..Len(now) |-> IF i <= d.at THEN i ELSE i - 1]
    <2>1. /\ Len(now) = Len(text) + 1 /\ d.at <= Len(text)
          /\ \A i \in 1..Len(now) :
               now[i] = IF i <= d.at THEN text[i] ELSE IF i = d.at + 1 THEN x ELSE text[i - 1]
        BY <1>1, Composed DEF Fits
    <2> HIDE DEF now
    <2>2. from \in [1..Len(now) -> Nat] /\ d.at + 1 \in Nat
        BY <1>0, <2>1
    <2>3. ASSUME NEW i \in 1..Len(now)
          PROVE  IF i = d.at + 1 THEN now[i] = x
                 ELSE from[i] \in 1..Len(text) /\ now[i] = text[from[i]]
        <3>1. CASE i <= d.at
            BY <1>0, <2>1, <3>1
        <3>2. CASE i = d.at + 1
            BY <1>0, <2>1, <3>2
        <3>3. CASE i > d.at + 1
            <4>1. from[i] = i - 1 /\ i - 1 \in 1..Len(text) /\ now[i] = text[i - 1]
                BY <1>0, <2>1, <3>3
            <4> QED
                BY <1>0, <3>3, <4>1
        <3> QED
            BY <1>0, <3>1, <3>2, <3>3
    <2>4. \A i, j \in 1..Len(now) :
              i < j /\ i # d.at + 1 /\ j # d.at + 1 => from[i] < from[j]
        BY <1>0, <2>1
    <2> HIDE DEF from
    <2>5. Descends(now, text, x)
        BY <2>2, <2>3, <2>4 DEF Descends
    <2> QED
        BY <2>5 DEF now
<1>2. CASE d.edit = "remove"
    <2> DEFINE from == [i \in 1..Len(now) |-> IF i <= d.at THEN i ELSE i + 1]
    <2>1. /\ Len(now) = Len(text) - 1 /\ d.at < Len(text)
          /\ \A i \in 1..Len(now) : now[i] = IF i <= d.at THEN text[i] ELSE text[i + 1]
        BY <1>2, Composed DEF Fits
    <2> HIDE DEF now
    <2>2. from \in [1..Len(now) -> Nat] /\ 0 \in Nat
        BY <1>0, <2>1
    <2>3. ASSUME NEW i \in 1..Len(now)
          PROVE  IF i = 0 THEN now[i] = x
                 ELSE from[i] \in 1..Len(text) /\ now[i] = text[from[i]]
        BY <1>0, <2>1
    <2>4. \A i, j \in 1..Len(now) : i < j /\ i # 0 /\ j # 0 => from[i] < from[j]
        BY <1>0, <2>1
    <2> HIDE DEF from
    <2>5. Descends(now, text, x)
        BY <2>2, <2>3, <2>4 DEF Descends
    <2> QED
        BY <2>5 DEF now
<1>3. CASE d.edit = "keep"
    <2> DEFINE from == [i \in 1..Len(text) |-> i]
    <2>1. now = text
        BY <1>3 DEF Compose
    <2>2. from \in [1..Len(text) -> Nat] /\ 0 \in Nat
        BY <1>0
    <2>3. /\ \A i \in 1..Len(text) : IF i = 0 THEN text[i] = x
                                     ELSE from[i] \in 1..Len(text) /\ text[i] = text[from[i]]
          /\ \A i, j \in 1..Len(text) : i < j /\ i # 0 /\ j # 0 => from[i] < from[j]
        BY <1>0
    <2> HIDE DEF from
    <2>4. Descends(text, text, x)
        BY <2>2, <2>3 DEF Descends
    <2> QED
        BY <2>1, <2>4
<1> QED
    BY <1>1, <1>2, <1>3 DEF Deltas

\* Every letter of now is one of text or new, no new one is there before, none
\* stands twice, and the old ones are in their old order.
KeepsOrder(now, text, new) ==
    /\ LettersOf(now) \subseteq LettersOf(text) \cup new
    /\ Single(text) => Single(now)
    /\ \A a, b \in LettersOf(text) : ShownBefore(now, a, b) => ShownBefore(text, a, b)

LEMMA DescentKeepsOrder ==
    ASSUME NEW L, NEW text \in Seq(L), NEW now \in Seq(L), NEW x,
           Descends(now, text, x), x \notin LettersOf(text)
    PROVE  KeepsOrder(now, text, {x})
<1>0. Len(now) \in Nat /\ Len(text) \in Nat
    OBVIOUS
<1>1. PICK place \in Nat, from \in [1..Len(now) -> Nat] :
        /\ \A i \in 1..Len(now) :
             IF i = place THEN now[i] = x
             ELSE from[i] \in 1..Len(text) /\ now[i] = text[from[i]]
        /\ \A i, j \in 1..Len(now) : i < j /\ i # place /\ j # place => from[i] < from[j]
    BY DEF Descends
<1>2. LettersOf(now) \subseteq LettersOf(text) \cup {x}
    <2>1. ASSUME NEW i \in 1..Len(now)
          PROVE  now[i] \in LettersOf(text) \cup {x}
        BY <1>1 DEF LettersOf
    <2> QED
        BY <2>1 DEF LettersOf
<1>3. ASSUME NEW i \in 1..Len(now), now[i] \in LettersOf(text)
      PROVE  i # place /\ from[i] \in 1..Len(text) /\ now[i] = text[from[i]]
    BY <1>1, <1>3
<1>4. ASSUME NEW a \in LettersOf(text), NEW b \in LettersOf(text), ShownBefore(now, a, b)
      PROVE  ShownBefore(text, a, b)
    <2>1. PICK i, j \in 1..Len(now) : i < j /\ now[i] = a /\ now[j] = b
        BY <1>4 DEF ShownBefore
    <2>2. /\ i # place /\ from[i] \in 1..Len(text) /\ text[from[i]] = a
          /\ j # place /\ from[j] \in 1..Len(text) /\ text[from[j]] = b
        BY <1>3, <2>1
    <2>3. from[i] < from[j]
        BY <1>1, <2>1, <2>2
    <2> QED
        BY <2>2, <2>3 DEF ShownBefore
<1>5. ASSUME Single(text) PROVE Single(now)
    <2> SUFFICES ASSUME NEW i \in 1..Len(now), NEW j \in 1..Len(now),
                        now[i] = now[j], i < j
                 PROVE  FALSE
        BY DEF Single
    <2>1. CASE now[i] \in LettersOf(text)
        <3>1. /\ i # place /\ from[i] \in 1..Len(text) /\ now[i] = text[from[i]]
              /\ j # place /\ from[j] \in 1..Len(text) /\ now[j] = text[from[j]]
            BY <1>3, <2>1
        <3>2. from[i] = from[j]
            BY <1>5, <3>1 DEF Single
        <3>3. from[i] < from[j] /\ from[i] \in Nat
            BY <1>1, <3>1
        <3> QED
            BY <3>2, <3>3
    <2>2. CASE now[i] \notin LettersOf(text)
        <3>1. i = place /\ j = place
            BY <1>1, <2>2 DEF LettersOf
        <3> QED
            BY <3>1
    <2> QED
        BY <2>1, <2>2
<1> QED
    BY <1>2, <1>4, <1>5 DEF KeepsOrder

LEMMA OrderKeptTwice ==
    ASSUME NEW text, NEW then, NEW now, NEW new, NEW newer,
           KeepsOrder(then, text, new), KeepsOrder(now, then, newer),
           newer \cap LettersOf(text) = {}
    PROVE  KeepsOrder(now, text, new \cup newer)
<1>1. LettersOf(now) \subseteq LettersOf(text) \cup new \cup newer
    BY DEF KeepsOrder
<1>2. Single(text) => Single(now)
    BY DEF KeepsOrder
<1>3. ASSUME NEW a \in LettersOf(text), NEW b \in LettersOf(text), ShownBefore(now, a, b)
      PROVE  ShownBefore(text, a, b)
    <2>1. a \in LettersOf(now) /\ b \in LettersOf(now)
        BY <1>3 DEF ShownBefore, LettersOf
    <2>2. a \in LettersOf(then) /\ b \in LettersOf(then)
        BY <2>1 DEF KeepsOrder
    <2> QED
        BY <1>3, <2>2 DEF KeepsOrder
<1> QED
    BY <1>1, <1>2, <1>3 DEF KeepsOrder

LEMMA NeverReversed ==
    ASSUME NEW text, NEW now, NEW new, KeepsOrder(now, text, new), Single(text),
           NEW x, NEW y, ShownBefore(now, x, y), ShownBefore(text, y, x)
    PROVE  FALSE
<1>1. x \in LettersOf(text) /\ y \in LettersOf(text)
    BY DEF ShownBefore, LettersOf
<1>2. ShownBefore(text, x, y)
    BY <1>1 DEF KeepsOrder
<1>3. PICK i, j \in 1..Len(text) : i < j /\ text[i] = x /\ text[j] = y
    BY <1>2 DEF ShownBefore
<1>4. PICK k, m \in 1..Len(text) : k < m /\ text[k] = y /\ text[m] = x
    BY DEF ShownBefore
<1>5. i = m /\ j = k
    BY <1>3, <1>4 DEF Single
<1> QED
    BY <1>3, <1>4, <1>5

IdsUpTo(ops, n) == {ops[i].id : i \in 1..n}

\* ops bring letters of their own, each once, that texts do not show.
BringNew(ops, texts, B) ==
    /\ \A i, j \in 1..Len(ops) : ops[i].id = ops[j].id => i = j
    /\ \A i \in 1..Len(ops), b \in B : ops[i].id \notin LettersOf(texts[b])

LEMMA PlayedKeepsOrder ==
    ASSUME NEW B, NEW L, NEW texts \in [B -> Seq(L)],
           NEW op, IsTextOp(op, B, L), Suits(texts, op),
           NEW b \in B, op.id \notin LettersOf(texts[b])
    PROVE  KeepsOrder(Played(texts, op)[b], texts[b], {op.id})
<1>1. texts[b] \in Seq(L) /\ op.block \in B /\ op.id \in L /\ op.delta \in Deltas
    BY DEF IsTextOp
<1>2. CASE b = op.block
    <2>1. Played(texts, op)[b] = Compose(texts[b], op.delta, op.id)
        BY <1>2 DEF Played
    <2>2. Fits(texts[b], op.delta)
        BY <1>2 DEF Suits
    <2>3. Compose(texts[b], op.delta, op.id) \in Seq(L)
        BY <1>1, <2>2, Composed
    <2>4. Descends(Compose(texts[b], op.delta, op.id), texts[b], op.id)
        BY <1>1, <2>2, ComposedDescends
    <2> QED
        BY <1>1, <2>1, <2>3, <2>4, DescentKeepsOrder
<1>3. CASE b # op.block
    <2>1. Played(texts, op)[b] = texts[b]
        BY <1>3 DEF Played
    <2> QED
        BY <2>1 DEF KeepsOrder
<1> QED
    BY <1>2, <1>3

\* A list of operations with letters of their own keeps the order of what
\* was there, on the way and at the end.
LEMMA PlaysKeepOrder ==
    ASSUME NEW B, NEW L, NEW texts, NEW ops, TextOps(ops, B, L), BringNew(ops, texts, B),
           NEW trace, Plays(trace, texts, ops, B, L), NEW b \in B
    PROVE  \A n \in 0..Len(ops) : KeepsOrder(trace[n][b], texts[b], IdsUpTo(ops, n))
<1> DEFINE Good(n) == KeepsOrder(trace[n][b], texts[b], IdsUpTo(ops, n))
           Bad == {n \in 0..Len(ops) : ~Good(n)}
<1>1. Len(ops) \in Nat /\ DOMAIN ops = 1..Len(ops)
    BY DEF TextOps
<1>2. Good(0)
    <2>1. trace[0] = texts
        BY DEF Plays
    <2> QED
        BY <2>1 DEF KeepsOrder
<1>3. Bad = {}
    <2>1. SUFFICES ASSUME Bad # {} PROVE FALSE
        OBVIOUS
    <2>2. PICK n \in Bad : \A k \in Bad : n <= k
        <3>1. Bad \subseteq Nat
            BY <1>1
        <3> HIDE DEF Bad
        <3> QED
            BY <2>1, <3>1, LeastNumber
    <2>3. n # 0 /\ n \in 0..Len(ops) /\ ~Good(n)
        BY <1>2, <2>2
    <2>4. PICK j \in Nat : n = j + 1
        <3>1. n - 1 \in Nat /\ n = (n - 1) + 1
            BY <1>1, <2>3
        <3> QED
            BY ONLY <3>1
    <2>5. j \in 0..Len(ops) /\ j \notin Bad /\ n \in 1..Len(ops) /\ 1..j \subseteq 1..Len(ops)
        BY <1>1, <2>2, <2>3, <2>4
    <2>6. Good(j)
        BY <2>5
    <2>7. /\ trace[j] \in [B -> Seq(L)] /\ Suits(trace[j], ops[n])
          /\ trace[n] = Played(trace[j], ops[n])
        <3>1. n - 1 = j
            BY <2>4
        <3> QED
            BY <2>5, <3>1 DEF Plays
    <2>8. IsTextOp(ops[n], B, L)
        BY <1>1, <2>5 DEF TextOps
    <2>9. ops[n].id \notin LettersOf(texts[b]) /\ ops[n].id \notin IdsUpTo(ops, j)
        <3>1. \A i \in 1..j : i # n
            BY <2>4
        <3> QED
            BY <2>5, <3>1 DEF BringNew, IdsUpTo
    <2>10. ops[n].id \notin LettersOf(trace[j][b])
        BY <2>6, <2>9 DEF KeepsOrder
    <2>11. KeepsOrder(trace[n][b], trace[j][b], {ops[n].id})
        BY <2>7, <2>8, <2>10, PlayedKeepsOrder
    <2>12. IdsUpTo(ops, n) = IdsUpTo(ops, j) \cup {ops[n].id}
        <3>1. 1..n = 1..j \cup {n}
            BY <2>4
        <3> QED
            BY <3>1 DEF IdsUpTo
    <2>13. {ops[n].id} \cap LettersOf(texts[b]) = {}
        BY <2>9
    <2>14. KeepsOrder(trace[n][b], texts[b], IdsUpTo(ops, j) \cup {ops[n].id})
        BY <2>6, <2>11, <2>13, OrderKeptTwice
    <2> QED
        BY <2>3, <2>12, <2>14
<1> QED
    BY <1>3

LEMMA LeadsKeepsOrder ==
    ASSUME NEW B, NEW L, NEW texts, NEW ops, TextOps(ops, B, L), BringNew(ops, texts, B),
           NEW now, Leads(texts, ops, now, B, L), NEW b \in B
    PROVE  KeepsOrder(now[b], texts[b], IdsUpTo(ops, Len(ops)))
<1>1. PICK trace : Plays(trace, texts, ops, B, L) /\ trace[Len(ops)] = now
    BY DEF Leads
<1>2. Len(ops) \in 0..Len(ops)
    BY DEF TextOps
<1> QED
    BY <1>1, <1>2, PlaysKeepOrder

-------------------------------------------------------------------------------
(* What an edit takes out and what it puts in, and that its rewriting does *)
(* the same.                                                               *)

Taken(text, d) == IF d.edit = "remove" THEN {text[d.at + 1]} ELSE {}

Added(d, x) == IF d.edit = "insert" THEN {x} ELSE {}

LEMMA ComposedLetters ==
    ASSUME NEW L, NEW text \in Seq(L), Single(text), NEW x \in L,
           NEW d \in Deltas, Fits(text, d)
    PROVE  LettersOf(Compose(text, d, x)) = (LettersOf(text) \ Taken(text, d)) \cup Added(d, x)
<1> DEFINE now == Compose(text, d, x)
<1>0. d.at \in Nat /\ Len(text) \in Nat
    BY DEF Deltas
<1>1. CASE d.edit = "insert"
    <2>1. /\ Len(now) = Len(text) + 1 /\ d.at <= Len(text)
          /\ \A i \in 1..Len(now) :
               now[i] = IF i <= d.at THEN text[i] ELSE IF i = d.at + 1 THEN x ELSE text[i - 1]
        BY <1>1, Composed DEF Fits
    <2>2. Taken(text, d) = {} /\ Added(d, x) = {x}
        BY <1>1 DEF Taken, Added
    <2> HIDE DEF now
    <2>3. ASSUME NEW i \in 1..Len(now)
          PROVE  now[i] \in LettersOf(text) \cup {x}
        <3>1. i <= d.at => i \in 1..Len(text) /\ now[i] = text[i]
            BY <1>0, <2>1
        <3>2. i = d.at + 1 => now[i] = x
            BY <1>0, <2>1
        <3>3. i > d.at + 1 => i - 1 \in 1..Len(text) /\ now[i] = text[i - 1]
            BY <1>0, <2>1
        <3> QED
            BY <1>0, <3>1, <3>2, <3>3 DEF LettersOf
    <2>4. ASSUME NEW i \in 1..Len(text)
          PROVE  text[i] \in LettersOf(now)
        <3>1. i <= d.at => i \in 1..Len(now) /\ now[i] = text[i]
            BY <1>0, <2>1
        <3>2. i > d.at => i + 1 \in 1..Len(now) /\ now[i + 1] = text[i]
            <4>1. ASSUME i > d.at
                  PROVE  i + 1 \in 1..Len(now) /\ i + 1 > d.at + 1 /\ (i + 1) - 1 = i
                BY <1>0, <2>1, <4>1
            <4> QED
                BY <1>0, <2>1, <4>1
        <3> QED
            BY <1>0, <3>1, <3>2 DEF LettersOf
    <2>5. x \in LettersOf(now)
        <3>1. d.at + 1 \in 1..Len(now) /\ now[d.at + 1] = x
            BY <1>0, <2>1
        <3> QED
            BY <3>1 DEF LettersOf
    <2>6. LettersOf(now) \subseteq LettersOf(text) \cup {x}
        BY <2>3 DEF LettersOf
    <2>7. LettersOf(text) \subseteq LettersOf(now)
        BY <2>4 DEF LettersOf
    <2>8. LettersOf(now) = (LettersOf(text) \ Taken(text, d)) \cup Added(d, x)
        BY <2>2, <2>5, <2>6, <2>7
    <2> QED
        BY <2>8 DEF now
<1>2. CASE d.edit = "remove"
    <2>1. /\ Len(now) = Len(text) - 1 /\ d.at < Len(text)
          /\ \A i \in 1..Len(now) : now[i] = IF i <= d.at THEN text[i] ELSE text[i + 1]
        BY <1>2, Composed DEF Fits
    <2>2. Taken(text, d) = {text[d.at + 1]} /\ Added(d, x) = {} /\ d.at + 1 \in 1..Len(text)
        BY <1>0, <1>2, <2>1 DEF Taken, Added
    <2> HIDE DEF now
    <2>3. ASSUME NEW i \in 1..Len(now)
          PROVE  now[i] \in LettersOf(text) \ {text[d.at + 1]}
        <3>1. i <= d.at => i \in 1..Len(text) /\ i # d.at + 1 /\ now[i] = text[i]
            BY <1>0, <2>1
        <3>2. i > d.at => i + 1 \in 1..Len(text) /\ i + 1 # d.at + 1 /\ now[i] = text[i + 1]
            BY <1>0, <2>1
        <3>3. PICK k \in 1..Len(text) : k # d.at + 1 /\ now[i] = text[k]
            BY <1>0, <3>1, <3>2
        <3>4. text[k] # text[d.at + 1]
            BY <2>2, <3>3 DEF Single
        <3> QED
            BY <3>3, <3>4 DEF LettersOf
    <2>4. ASSUME NEW i \in 1..Len(text), i # d.at + 1
          PROVE  text[i] \in LettersOf(now)
        <3>1. i <= d.at => i \in 1..Len(now) /\ now[i] = text[i]
            BY <1>0, <2>1
        <3>2. i > d.at => i - 1 \in 1..Len(now) /\ now[i - 1] = text[i]
            <4>1. ASSUME i > d.at
                  PROVE  i - 1 \in 1..Len(now) /\ i - 1 > d.at /\ (i - 1) + 1 = i
                BY <1>0, <2>1, <2>4, <4>1
            <4> QED
                BY <1>0, <2>1, <4>1
        <3> QED
            BY <1>0, <3>1, <3>2 DEF LettersOf
    <2>5. LettersOf(now) \subseteq LettersOf(text) \ {text[d.at + 1]}
        BY <2>3 DEF LettersOf
    <2>6. LettersOf(text) \ {text[d.at + 1]} \subseteq LettersOf(now)
        BY <2>4 DEF LettersOf
    <2>7. LettersOf(now) = (LettersOf(text) \ Taken(text, d)) \cup Added(d, x)
        BY <2>2, <2>5, <2>6
    <2> QED
        BY <2>7 DEF now
<1>3. CASE d.edit = "keep"
    BY <1>3 DEF Compose, Taken, Added
<1> QED
    BY <1>1, <1>2, <1>3 DEF Deltas

\* dd does to right what d does to text.
SameTouch(text, d, x, right, dd) ==
    /\ Added(dd, x) = Added(d, x)
    /\ Taken(right, dd) = Taken(text, d) \cap LettersOf(right)

\* Rewritten over a concurrent change, a change puts in the same letter and
\* takes out the same one, unless that is gone already.
LEMMA TransformTouches ==
    ASSUME NEW L, NEW text \in Seq(L), Single(text), NEW x, NEW y \in L,
           NEW d \in Deltas, NEW e \in Deltas, Fits(text, d), Fits(text, e),
           NEW priority \in BOOLEAN
    PROVE  SameTouch(text, d, x, Compose(text, e, y), TransformDelta(d, e, priority))
<1> DEFINE dd == TransformDelta(d, e, priority)
           right == Compose(text, e, y)
<1>0. /\ d.at \in Nat /\ e.at \in Nat /\ Len(text) \in Nat
      /\ d.edit \in {"insert", "remove", "keep"} /\ e.edit \in {"insert", "remove", "keep"}
    BY DEF Deltas
<1>1. CASE d.edit # "remove"
    <2>1. dd.edit = d.edit
        <3>1. dd = d \/ dd = [d EXCEPT !.at = @ + 1] \/ dd = [d EXCEPT !.at = @ - 1]
            BY <1>1 DEF TransformDelta
        <3> HIDE DEF dd
        <3> QED
            BY <3>1 DEF Deltas
    <2> HIDE DEF dd, right
    <2>2. Added(dd, x) = Added(d, x) /\ Taken(right, dd) = {} /\ Taken(text, d) = {}
        BY <1>1, <2>1 DEF Added, Taken
    <2> QED
        BY <2>2 DEF SameTouch, dd, right
<1>2. CASE d.edit = "remove" /\ e.edit = "remove" /\ d.at = e.at
    <2>1. dd = Keep
        BY <1>0, <1>2 DEF TransformDelta
    <2>2. LettersOf(right) = (LettersOf(text) \ Taken(text, e)) \cup Added(e, y)
        BY ComposedLetters
    <2> HIDE DEF dd, right
    <2>3. Added(e, y) = {} /\ Taken(text, e) = Taken(text, d)
        BY <1>2 DEF Added, Taken
    <2>4. Added(dd, x) = Added(d, x) /\ Taken(right, dd) = {}
        BY <1>2, <2>1 DEF Added, Taken, Keep
    <2>5. Taken(text, d) \cap LettersOf(right) = {}
        BY <2>2, <2>3
    <2> QED
        BY <2>4, <2>5 DEF SameTouch, dd, right
<1>3. CASE d.edit = "remove" /\ ~(e.edit = "remove" /\ d.at = e.at)
    <2>1. d.at < Len(text)
        BY <1>3 DEF Fits
    <2>2. dd.edit = "remove" /\ dd.at + 1 \in 1..Len(right) /\ right[dd.at + 1] = text[d.at + 1]
        <3>1. CASE e.edit = "keep"
            <4>1. dd = d
                BY <1>3, <3>1 DEF TransformDelta
            <4>2. right = text
                BY <3>1 DEF Compose
            <4> HIDE DEF dd, right
            <4> QED
                BY <1>0, <1>3, <2>1, <4>1, <4>2
        <3>2. CASE e.edit = "insert"
            <4>1. /\ Len(right) = Len(text) + 1
                  /\ \A i \in 1..Len(right) :
                       right[i] = IF i <= e.at THEN text[i]
                                  ELSE IF i = e.at + 1 THEN y ELSE text[i - 1]
                BY <3>2, Composed
            <4>2. CASE e.at <= d.at
                <5>1. dd = [d EXCEPT !.at = @ + 1]
                    BY <1>0, <1>3, <3>2, <4>2 DEF TransformDelta
                <5> HIDE DEF dd, right
                <5>2. dd.edit = "remove" /\ dd.at + 1 = d.at + 2
                    BY <1>0, <1>3, <5>1 DEF Deltas
                <5>3. d.at + 2 \in 1..Len(right) /\ d.at + 2 > e.at + 1 /\ (d.at + 2) - 1 = d.at + 1
                    BY <1>0, <2>1, <4>1, <4>2
                <5>4. right[d.at + 2] = text[d.at + 1]
                    BY <1>0, <4>1, <5>3
                <5> QED
                    BY <5>2, <5>3, <5>4
            <4>3. CASE d.at < e.at
                <5>1. dd = d
                    BY <1>0, <1>3, <3>2, <4>3 DEF TransformDelta
                <5> HIDE DEF dd, right
                <5>2. d.at + 1 \in 1..Len(right) /\ d.at + 1 <= e.at
                    BY <1>0, <2>1, <4>1, <4>3
                <5> QED
                    BY <1>0, <1>3, <4>1, <5>1, <5>2
            <4> QED
                BY <1>0, <4>2, <4>3
        <3>3. CASE e.edit = "remove"
            <4>1. /\ Len(right) = Len(text) - 1 /\ e.at < Len(text)
                  /\ \A i \in 1..Len(right) :
                       right[i] = IF i <= e.at THEN text[i] ELSE text[i + 1]
                BY <3>3, Composed DEF Fits
            <4>2. CASE e.at < d.at
                <5>1. dd = [d EXCEPT !.at = @ - 1]
                    BY <1>0, <1>3, <3>3, <4>2 DEF TransformDelta
                <5> HIDE DEF dd, right
                <5>2. dd.edit = "remove" /\ dd.at + 1 = d.at
                    BY <1>0, <1>3, <4>2, <5>1 DEF Deltas
                <5>3. d.at \in 1..Len(right) /\ d.at > e.at
                    BY <1>0, <2>1, <4>1, <4>2
                <5>4. right[d.at] = text[d.at + 1]
                    BY <1>0, <4>1, <5>3
                <5> QED
                    BY <5>2, <5>3, <5>4
            <4>3. CASE d.at < e.at
                <5>1. dd = d
                    BY <1>0, <1>3, <3>3, <4>3 DEF TransformDelta
                <5> HIDE DEF dd, right
                <5>2. d.at + 1 \in 1..Len(right) /\ d.at + 1 <= e.at
                    BY <1>0, <2>1, <4>1, <4>3
                <5> QED
                    BY <1>0, <1>3, <4>1, <5>1, <5>2
            <4> QED
                BY <1>0, <1>3, <3>3, <4>2, <4>3
        <3> QED
            BY <1>0, <3>1, <3>2, <3>3
    <2> HIDE DEF dd, right
    <2>3. Added(dd, x) = Added(d, x)
        BY <1>3, <2>2 DEF Added
    <2>4. Taken(right, dd) = {text[d.at + 1]} /\ Taken(text, d) = {text[d.at + 1]}
        BY <1>3, <2>2 DEF Taken
    <2>5. text[d.at + 1] \in LettersOf(right)
        BY <2>2 DEF LettersOf
    <2>6. Taken(right, dd) = Taken(text, d) \cap LettersOf(right)
        BY <2>4, <2>5
    <2> QED
        BY <2>3, <2>6 DEF SameTouch, dd, right
<1> QED
    BY <1>1, <1>2, <1>3

\* The letters op takes out of the text of block b, and those it puts in.
LettersLost(texts, op, b) == IF b = op.block THEN Taken(texts[b], op.delta) ELSE {}

LettersWon(op, b) == IF b = op.block THEN Added(op.delta, op.id) ELSE {}

LEMMA LostWasShown ==
    ASSUME NEW B, NEW L, NEW texts \in [B -> Seq(L)],
           NEW op, IsTextOp(op, B, L), Suits(texts, op), NEW b \in B
    PROVE  LettersLost(texts, op, b) \subseteq LettersOf(texts[b]) /\ LettersWon(op, b) \subseteq {op.id}
<1>1. LettersWon(op, b) \subseteq {op.id}
    BY DEF LettersWon, Added
<1>2. CASE b = op.block /\ op.delta.edit = "remove"
    <2>1. op.delta.at < Len(texts[b]) /\ op.delta.at \in Nat /\ Len(texts[b]) \in Nat
        BY <1>2 DEF Suits, Fits, IsTextOp, Deltas
    <2>2. op.delta.at + 1 \in 1..Len(texts[b])
        BY <2>1
    <2>3. LettersLost(texts, op, b) = {texts[b][op.delta.at + 1]}
        BY <1>2 DEF LettersLost, Taken
    <2> QED
        BY <1>1, <2>2, <2>3 DEF LettersOf
<1>3. CASE ~(b = op.block /\ op.delta.edit = "remove")
    BY <1>1, <1>3 DEF LettersLost, Taken
<1> QED
    BY <1>2, <1>3

\* The letters of block b after op are those from before, touched by edit.
Touched(now, texts, edit, b) ==
    LettersOf(now[b]) = (LettersOf(texts[b]) \ edit.lost) \cup edit.won

Edit(texts, op, b) == [lost |-> LettersLost(texts, op, b), won |-> LettersWon(op, b)]

LEMMA PlayedLetters ==
    ASSUME NEW B, NEW L, NEW texts \in [B -> Seq(L)],
           NEW op, IsTextOp(op, B, L), Suits(texts, op), NEW b \in B, Single(texts[b])
    PROVE  Touched(Played(texts, op), texts, Edit(texts, op, b), b)
<1>0. Edit(texts, op, b).lost = LettersLost(texts, op, b) /\ Edit(texts, op, b).won = LettersWon(op, b)
    BY DEF Edit
<1>1. texts[b] \in Seq(L) /\ op.block \in B /\ op.id \in L /\ op.delta \in Deltas
    BY DEF IsTextOp
<1>2. CASE b = op.block
    <2>1. Played(texts, op)[b] = Compose(texts[b], op.delta, op.id)
        BY <1>2 DEF Played
    <2>2. Fits(texts[b], op.delta)
        BY <1>2 DEF Suits
    <2>3. LettersOf(Compose(texts[b], op.delta, op.id)) =
              (LettersOf(texts[b]) \ Taken(texts[b], op.delta)) \cup Added(op.delta, op.id)
        BY <1>1, <2>2, ComposedLetters
    <2> QED
        BY <1>0, <1>2, <2>1, <2>3 DEF LettersLost, LettersWon, Touched
<1>3. CASE b # op.block
    <2>1. Played(texts, op)[b] = texts[b]
        BY <1>3 DEF Played
    <2> QED
        BY <1>0, <1>3, <2>1 DEF LettersLost, LettersWon, Touched
<1> QED
    BY <1>2, <1>3

\* mine, played on later, touches the letters op touches on texts, but for one
\* that is gone.
SameTouches(mine, later, op, texts, b) ==
    /\ LettersWon(mine, b) = LettersWon(op, b)
    /\ LettersLost(later, mine, b) = LettersLost(texts, op, b) \cap LettersOf(later[b])

\* A text operation rewritten over another touches the same letters, but for
\* one the other took out as well.
LEMMA OpTouches ==
    ASSUME NEW B, NEW L, NEW texts \in [B -> Seq(L)], NEW wins \in BOOLEAN,
           NEW op, IsTextOp(op, B, L), Suits(texts, op),
           NEW row, IsTextOp(row, B, L), Suits(texts, row), NEW b \in B, Single(texts[b])
    PROVE  SameTouches(TransformOp(op, row, wins), Played(texts, row), op, texts, b)
<1> DEFINE mine == TransformOp(op, row, wins)
           later == Played(texts, row)
<1>0. /\ op.block \in B /\ row.block \in B /\ op.id \in L /\ row.id \in L
      /\ op.delta \in Deltas /\ row.delta \in Deltas /\ texts[b] \in Seq(L)
    BY DEF IsTextOp
<1>1. CASE op.block = row.block
    <2> DEFINE loses == ~wins
               dd == TransformDelta(op.delta, row.delta, loses)
               right == Compose(texts[b], row.delta, row.id)
    <2>1. mine = [op EXCEPT !.delta = dd]
        BY <1>1, TextTransformed
    <2>2. dd \in Deltas
        <3>1. SquareCloses(texts[op.block], op.delta, op.id, row.delta, row.id, dd,
                           TransformDelta(row.delta, op.delta, wins))
            <4>1. Fits(texts[op.block], op.delta) /\ Fits(texts[op.block], row.delta)
                BY <1>1 DEF Suits
            <4> QED
                BY <1>0, <4>1, TransformDeltaMeets
        <3> QED
            BY <3>1 DEF SquareCloses
    <2>3. loses \in BOOLEAN
        OBVIOUS
    <2> HIDE DEF mine, loses
    <2>4. CASE b = op.block
        <3>1. Fits(texts[b], op.delta) /\ Fits(texts[b], row.delta)
            BY <1>1, <2>4 DEF Suits
        <3>2. /\ Added(dd, op.id) = Added(op.delta, op.id)
              /\ Taken(right, dd) = Taken(texts[b], op.delta) \cap LettersOf(right)
            <4>1. SameTouch(texts[b], op.delta, op.id, right, dd)
                BY <1>0, <2>3, <3>1, TransformTouches
            <4> QED
                BY <4>1 DEF SameTouch
        <3>3. later[b] = right
            BY <1>0, <1>1, <2>4 DEF Played
        <3> HIDE DEF dd, right, later
        <3>4. mine.block = b /\ mine.id = op.id /\ mine.delta = dd
            BY <2>1, <2>2, <2>4, DeltaReplaced DEF SameEdit
        <3>5. LettersWon(mine, b) = LettersWon(op, b) /\ LettersLost(later, mine, b) = Taken(right, dd)
            BY <2>4, <3>2, <3>3, <3>4 DEF LettersWon, LettersLost
        <3>6. LettersLost(texts, op, b) = Taken(texts[b], op.delta)
            BY <2>4 DEF LettersLost
        <3> QED
            BY <3>2, <3>3, <3>5, <3>6 DEF SameTouches, later, mine
    <2>5. CASE b # op.block
        <3> HIDE DEF dd
        <3>1. mine.block = op.block
            BY <2>1, <2>2, DeltaReplaced DEF SameEdit
        <3>2. LettersWon(mine, b) = {} /\ LettersWon(op, b) = {} /\ LettersLost(later, mine, b) = {} /\ LettersLost(texts, op, b) = {}
            BY <2>5, <3>1 DEF LettersWon, LettersLost
        <3> QED
            BY <3>2 DEF SameTouches, mine
    <2> QED
        BY <2>4, <2>5
<1>2. CASE op.block # row.block
    <2>1. mine = op
        BY <1>2, TextTransformed
    <2> HIDE DEF mine
    <2>2. b = op.block => later[b] = texts[b]
        BY <1>0, <1>2 DEF Played
    <2>3. LettersLost(texts, op, b) \subseteq LettersOf(texts[b])
        BY LostWasShown
    <2> HIDE DEF later
    <2>4. CASE b = op.block
        BY <2>1, <2>2, <2>3, <2>4 DEF SameTouches, LettersLost, LettersWon, mine, later
    <2>5. CASE b # op.block
        BY <2>1, <2>5 DEF SameTouches, LettersLost, LettersWon, mine, later
    <2> QED
        BY <2>4, <2>5
<1> QED
    BY <1>1, <1>2

-------------------------------------------------------------------------------
(* The rebase of text operations.                                          *)

\* acc is a pass of op over the rows that led from texts to now.
Carried(acc, op, log, texts, now, B, L) ==
    /\ IsTextOp(acc.op, B, L) /\ SameEdit(acc.op, op) /\ Suits(now, acc.op)
    /\ TextOps(acc.rows, B, L) /\ SameEdits(acc.rows, log)
    /\ Leads(Played(texts, op), acc.rows, Played(now, acc.op), B, L)

LEMMA TextNotDropped ==
    ASSUME NEW B, NEW L, NEW op, IsTextOp(op, B, L)
    PROVE  op # Dropped
BY DEF IsTextOp, Dropped

LEMMA CarriedOneMore ==
    ASSUME NEW B, NEW L, NEW actor, NEW texts, NEW now \in [B -> Seq(L)],
           NEW op, NEW log, TextOps(log, B, L), NEW n \in Nat, n + 1 \in 1..Len(log),
           NEW acc, Carried(acc, op, SubSeq(log, 1, n), texts, now, B, L),
           Suits(now, log[n + 1])
    PROVE  Carried(RebaseStep(acc, log[n + 1], actor), op, SubSeq(log, 1, n + 1),
                   texts, Played(now, log[n + 1]), B, L)
<1> DEFINE row == log[n + 1]
           wins == LocalWins(actor, acc.op, row)
           mine == TransformOp(acc.op, row, wins)
           rest == TransformOp(row, acc.op, ~wins)
           next == RebaseStep(acc, row, actor)
<1>1. IsTextOp(row, B, L) /\ Len(log) \in Nat
    BY DEF TextOps
<1>2. IsTextOp(acc.op, B, L) /\ SameEdit(acc.op, op) /\ Suits(now, acc.op)
    BY DEF Carried
<1>3. wins \in BOOLEAN
    BY DEF LocalWins, Before
<1> HIDE DEF wins
<1>4. /\ IsTextOp(mine, B, L) /\ SameEdit(mine, acc.op)
      /\ IsTextOp(rest, B, L) /\ SameEdit(rest, row)
      /\ Suits(Played(now, row), mine) /\ Suits(Played(now, acc.op), rest)
      /\ Played(Played(now, row), mine) = Played(Played(now, acc.op), rest)
    <2>1. now \in [B -> Seq(L)] /\ Suits(now, row)
        OBVIOUS
    <2> HIDE DEF row, mine, rest
    <2>2. Meet(now, acc.op, row, mine, rest, B, L)
        BY ONLY <1>1, <1>2, <1>3, <2>1, OpsMeet DEF mine, rest
    <2> QED
        BY ONLY <2>2 DEF Meet
<1>5. next.op = mine /\ next.rows = Append(acc.rows, rest)
    <2>1. acc.op # Dropped /\ rest # Dropped
        BY <1>2, <1>4, TextNotDropped
    <2> HIDE DEF row
    <2> QED
        BY <2>1 DEF RebaseStep, wins
<1> HIDE DEF next, mine, rest, row
<1>6. TextOps(acc.rows, B, L) /\ SameEdits(acc.rows, SubSeq(log, 1, n))
    BY DEF Carried
<1>7. Leads(Played(texts, op), next.rows, Played(Played(now, acc.op), rest), B, L)
    BY <1>4, <1>5, <1>6, LeadsOn DEF Carried
<1>8. TextOps(next.rows, B, L)
    BY <1>4, <1>5, <1>6, TextOpsOneMore
<1>9. SameEdits(next.rows, SubSeq(log, 1, n + 1))
    <2>1. /\ Len(SubSeq(log, 1, n)) = n /\ Len(SubSeq(log, 1, n + 1)) = n + 1
          /\ \A i \in 1..n : SubSeq(log, 1, n)[i] = log[i]
          /\ \A i \in 1..(n + 1) : SubSeq(log, 1, n + 1)[i] = log[i]
        <3>1. log \in Seq({log[i] : i \in DOMAIN log})
            BY DEF TextOps
        <3> QED
            BY <1>1, <3>1
    <2>2. /\ Len(acc.rows) = n /\ Len(next.rows) = n + 1 /\ next.rows[n + 1] = rest
          /\ \A i \in 1..n : next.rows[i] = acc.rows[i]
        <3>1. Len(acc.rows) = n
            BY <1>6, <2>1 DEF SameEdits
        <3>2. /\ Len(next.rows) = Len(acc.rows) + 1 /\ next.rows[Len(acc.rows) + 1] = rest
              /\ \A i \in 1..Len(acc.rows) : next.rows[i] = acc.rows[i]
            <4>1. TextOps(acc.rows, B, L) /\ IsTextOp(rest, B, L) /\ next.rows = Append(acc.rows, rest)
                BY <1>4, <1>5, <1>6
            <4> QED
                BY ONLY <4>1, TextOpsOneMore
        <3> QED
            BY <3>1, <3>2
    <2>3. \A i \in 1..n : SameEdit(acc.rows[i], log[i])
        BY <1>6, <2>1, <2>2 DEF SameEdits
    <2>4. ASSUME NEW i \in 1..(n + 1)
          PROVE  SameEdit(next.rows[i], SubSeq(log, 1, n + 1)[i])
        <3>1. CASE i = n + 1
            BY <1>4, <2>1, <2>2, <3>1 DEF row
        <3>2. CASE i \in 1..n
            BY <2>1, <2>2, <2>3, <3>2
        <3> QED
            BY <3>1, <3>2
    <2> QED
        BY <2>1, <2>2, <2>4 DEF SameEdits
<1>10. SameEdit(next.op, op)
    BY <1>2, <1>4, <1>5 DEF SameEdit
<1> QED
    BY <1>4, <1>5, <1>7, <1>8, <1>9, <1>10 DEF Carried, next, row

\* p is the pass of op over log, and trace the documents the log leads through.
RowPassOver(p, trace, op, actor, log, texts, now, B, L) ==
    /\ Plays(trace, texts, log, B, L) /\ trace[Len(log)] = now
    /\ p[0] = [op |-> op, rows |-> <<>>]
    /\ \A n \in 1..Len(log) : p[n] = RebaseStep(p[n - 1], log[n], actor)
    /\ RebaseOne(op, actor, log) = p[Len(log)]
    /\ \A n \in 0..Len(log) : Carried(p[n], op, SubSeq(log, 1, n), texts, trace[n], B, L)

LEMMA RowPassRuns ==
    ASSUME NEW B, NEW L, NEW actor, NEW texts \in [B -> Seq(L)], NEW now,
           NEW op, IsTextOp(op, B, L), Suits(texts, op),
           NEW log, TextOps(log, B, L), Leads(texts, log, now, B, L)
    PROVE  \E p, trace : RowPassOver(p, trace, op, actor, log, texts, now, B, L)
<1>1. Len(log) \in Nat /\ DOMAIN log = 1..Len(log)
      /\ log \in Seq({log[i] : i \in DOMAIN log})
    BY DEF TextOps
<1>2. PICK p : RowRun(p, op, actor, log)
    BY <1>1, RowRunExists
<1>3. RebaseOne(op, actor, log) = p[Len(log)]
    BY <1>2 DEF RowRun
<1>4. PICK trace : Plays(trace, texts, log, B, L) /\ trace[Len(log)] = now
    BY DEF Leads
<1> DEFINE Good(n) == Carried(p[n], op, SubSeq(log, 1, n), texts, trace[n], B, L)
           Bad == {n \in 0..Len(log) : ~Good(n)}
<1>5. Good(0)
    <2>1. p[0] = [op |-> op, rows |-> <<>>] /\ trace[0] = texts /\ SubSeq(log, 1, 0) = <<>>
        BY <1>1, <1>2, <1>4 DEF Plays, RowRun
    <2>2. Played(texts, op) \in [B -> Seq(L)]
        BY PlayedIsTexts
    <2>3. TextOps(<<>>, B, L) /\ Leads(Played(texts, op), <<>>, Played(texts, op), B, L)
        BY <2>2, LeadsNowhere
    <2>4. SameEdit(op, op) /\ SameEdits(<<>>, <<>>)
        BY DEF SameEdit, SameEdits
    <2>5. p[0].op = op /\ p[0].rows = <<>>
        BY <2>1
    <2>6. Carried(p[0], op, <<>>, texts, texts, B, L)
        BY <2>3, <2>4, <2>5 DEF Carried
    <2> QED
        BY <2>1, <2>6
<1>6. Bad = {}
    <2>1. SUFFICES ASSUME Bad # {} PROVE FALSE
        OBVIOUS
    <2>2. PICK n \in Bad : \A k \in Bad : n <= k
        <3>1. Bad \subseteq Nat
            BY <1>1
        <3> HIDE DEF Bad
        <3> QED
            BY <2>1, <3>1, LeastNumber
    <2>3. n # 0 /\ n \in 0..Len(log) /\ ~Good(n)
        BY <1>5, <2>2
    <2>4. PICK j \in Nat : n = j + 1
        <3>1. n - 1 \in Nat /\ n = (n - 1) + 1
            BY <1>1, <2>3
        <3> QED
            BY ONLY <3>1
    <2>5. j \in 0..Len(log) /\ j \notin Bad /\ j + 1 \in 1..Len(log)
        BY <1>1, <2>2, <2>3, <2>4
    <2>6. p[j + 1] = RebaseStep(p[j], log[j + 1], actor)
        <3>1. (j + 1) - 1 = j
            OBVIOUS
        <3> QED
            BY <1>2, <2>5, <3>1 DEF RowRun
    <2>7. Good(j)
        BY <2>5
    <2>8. /\ trace[j] \in [B -> Seq(L)] /\ Suits(trace[j], log[j + 1])
          /\ trace[j + 1] = Played(trace[j], log[j + 1])
        <3>1. (j + 1) - 1 = j
            OBVIOUS
        <3> QED
            BY <1>4, <2>5, <3>1 DEF Plays
    <2>9. Carried(RebaseStep(p[j], log[j + 1], actor), op, SubSeq(log, 1, j + 1), texts,
                  Played(trace[j], log[j + 1]), B, L)
        BY <2>5, <2>7, <2>8, CarriedOneMore
    <2> QED
        BY <2>3, <2>4, <2>6, <2>8, <2>9
<1>7. p[0] = [op |-> op, rows |-> <<>>]
    BY <1>2 DEF RowRun
<1>8. \A n \in 1..Len(log) : p[n] = RebaseStep(p[n - 1], log[n], actor)
    BY <1>2 DEF RowRun
<1>9. \A n \in 0..Len(log) : Good(n)
    BY <1>6
<1> QED
    BY <1>3, <1>4, <1>7, <1>8, <1>9 DEF RowPassOver

LEMMA RowPassMeets ==
    ASSUME NEW B, NEW L, NEW actor, NEW texts \in [B -> Seq(L)], NEW now,
           NEW op, IsTextOp(op, B, L), Suits(texts, op),
           NEW log, TextOps(log, B, L), Leads(texts, log, now, B, L)
    PROVE  Carried(RebaseOne(op, actor, log), op, log, texts, now, B, L)
<1>1. PICK p, trace : RowPassOver(p, trace, op, actor, log, texts, now, B, L)
    BY RowPassRuns
<1>2. Len(log) \in Nat /\ SubSeq(log, 1, Len(log)) = log
    <2>1. log \in Seq({log[i] : i \in DOMAIN log})
        BY DEF TextOps
    <2> QED
        BY <2>1
<1>3. Carried(p[Len(log)], op, SubSeq(log, 1, Len(log)), texts, trace[Len(log)], B, L)
    BY <1>1, <1>2 DEF RowPassOver
<1> QED
    BY <1>1, <1>2, <1>3 DEF RowPassOver

\* Rewritten over rows that bring letters of their own, op puts in the letter it
\* put in, and takes out the one it took out, unless that is gone.
LEMMA RowPassTouches ==
    ASSUME NEW B, NEW L, NEW actor, NEW texts \in [B -> Seq(L)], NEW now,
           NEW op, IsTextOp(op, B, L), Suits(texts, op),
           NEW log, TextOps(log, B, L), Leads(texts, log, now, B, L),
           BringNew(log, texts, B), NEW b \in B, Single(texts[b])
    PROVE  Touched(Played(now, RebaseOne(op, actor, log).op), now, Edit(texts, op, b), b)
<1>1. PICK p, trace : RowPassOver(p, trace, op, actor, log, texts, now, B, L)
    BY RowPassRuns
<1>2. Len(log) \in Nat /\ DOMAIN log = 1..Len(log)
    BY DEF TextOps
<1> DEFINE Good(n) == SameTouches(p[n].op, trace[n], op, texts, b)
           Bad == {n \in 0..Len(log) : ~Good(n)}
<1>3. LettersLost(texts, op, b) \subseteq LettersOf(texts[b])
    BY LostWasShown
<1>4. Good(0)
    <2>1. p[0].op = op /\ trace[0] = texts
        BY <1>1 DEF RowPassOver, Plays
    <2> QED
        BY <1>3, <2>1 DEF SameTouches
<1>5. ASSUME NEW n \in 0..Len(log)
      PROVE  /\ trace[n] \in [B -> Seq(L)] /\ Single(trace[n][b])
             /\ IsTextOp(p[n].op, B, L) /\ Suits(trace[n], p[n].op)
    <2>1. trace[n] \in [B -> Seq(L)]
        BY <1>1 DEF RowPassOver, Plays
    <2>2. KeepsOrder(trace[n][b], texts[b], IdsUpTo(log, n))
        BY <1>1, PlaysKeepOrder DEF RowPassOver
    <2>3. Carried(p[n], op, SubSeq(log, 1, n), texts, trace[n], B, L)
        BY <1>1 DEF RowPassOver
    <2> QED
        BY <2>1, <2>2, <2>3 DEF KeepsOrder, Carried
<1>6. Bad = {}
    <2>1. SUFFICES ASSUME Bad # {} PROVE FALSE
        OBVIOUS
    <2>2. PICK n \in Bad : \A k \in Bad : n <= k
        <3>1. Bad \subseteq Nat
            BY <1>2
        <3> HIDE DEF Bad
        <3> QED
            BY <2>1, <3>1, LeastNumber
    <2>3. n # 0 /\ n \in 0..Len(log) /\ ~Good(n)
        BY <1>4, <2>2
    <2>4. PICK j \in Nat : n = j + 1
        <3>1. n \in Nat /\ n # 0
            BY <1>2, <2>3
        <3> HIDE DEF Bad
        <3>2. n - 1 \in Nat /\ n = (n - 1) + 1
            BY <3>1
        <3> QED
            BY <3>2
    <2>5. j \in 0..Len(log) /\ j \notin Bad /\ n \in 1..Len(log) /\ n - 1 = j
        BY <1>2, <2>2, <2>3, <2>4
    <2>6. Good(j)
        BY <2>5
    <2> DEFINE row == log[n]
               acc == p[j]
               wins == LocalWins(actor, acc.op, row)
               later == trace[n]
    <2>7. Suits(trace[j], row) /\ later = Played(trace[j], row)
        BY <1>1, <2>5 DEF RowPassOver, Plays
    <2>8. IsTextOp(row, B, L)
        BY <1>2, <2>5 DEF TextOps
    <2>9. p[n].op = TransformOp(acc.op, row, wins)
        <3>1. p[n] = RebaseStep(acc, row, actor)
            BY <1>1, <2>5 DEF RowPassOver
        <3>2. acc.op # Dropped
            BY <1>5, <2>5, TextNotDropped
        <3> HIDE DEF acc, row
        <3> QED
            BY <3>1, <3>2 DEF RebaseStep
    <2>10. wins \in BOOLEAN
        BY DEF LocalWins, Before
    <2> HIDE DEF wins
    <2>11. SameTouches(p[n].op, later, acc.op, trace[j], b)
        <3>1. /\ trace[j] \in [B -> Seq(L)] /\ Single(trace[j][b])
              /\ IsTextOp(acc.op, B, L) /\ Suits(trace[j], acc.op)
            BY <1>5, <2>5
        <3> HIDE DEF acc, row, later
        <3> QED
            BY <2>7, <2>8, <2>9, <2>10, <3>1, OpTouches
    <2>12. LettersOf(later[b]) \subseteq LettersOf(trace[j][b]) \cup {row.id}
        <3>1. Touched(Played(trace[j], row), trace[j], Edit(trace[j], row, b), b)
            BY <1>5, <2>5, <2>7, <2>8, PlayedLetters
        <3>2. LettersWon(row, b) \subseteq {row.id}
            BY DEF LettersWon, Added
        <3> QED
            BY <2>7, <3>1, <3>2 DEF Touched, Edit
    <2>13. row.id \notin LettersOf(texts[b])
        BY <2>5 DEF BringNew
    <2>14. LettersLost(texts, op, b) \cap LettersOf(trace[j][b]) \cap LettersOf(later[b]) =
               LettersLost(texts, op, b) \cap LettersOf(later[b])
        BY <1>3, <2>12, <2>13
    <2> QED
        BY <2>3, <2>6, <2>11, <2>14 DEF SameTouches
<1>7. Good(Len(log))
    BY <1>2, <1>6
<1> DEFINE last == p[Len(log)].op
<1>8. /\ now \in [B -> Seq(L)] /\ Single(now[b]) /\ IsTextOp(last, B, L) /\ Suits(now, last)
      /\ trace[Len(log)] = now /\ RebaseOne(op, actor, log).op = last
    <2>1. Len(log) \in 0..Len(log)
        BY <1>2
    <2> QED
        BY <1>1, <1>5, <2>1 DEF RowPassOver
<1>9. LettersWon(last, b) = LettersWon(op, b) /\ LettersLost(now, last, b) = LettersLost(texts, op, b) \cap LettersOf(now[b])
    BY <1>7, <1>8 DEF SameTouches
<1> HIDE DEF last
<1>10. Touched(Played(now, last), now, Edit(now, last, b), b)
    BY <1>8, PlayedLetters
<1>11. Touched(Played(now, last), now, Edit(texts, op, b), b)
    BY <1>9, <1>10 DEF Touched, Edit
<1> QED
    BY <1>8, <1>11

\* What became of the first n pending operations, in order.
KeptOps(kept, pending, n) == [i \in 1..n |-> kept[pending[i].id]]

\* Two users edit texts that show no letter twice, each adding letters of
\* their own.
Apart(texts, pending, remote, B) ==
    /\ \A b \in B : Single(texts[b])
    /\ BringNew(pending, texts, B) /\ BringNew(remote, texts, B)
    /\ \A i \in 1..Len(pending), j \in 1..Len(remote) : pending[i].id # remote[j].id

\* In block b, meet shows what both users still show and what either added.
KeepsLetters(meet, texts, mine, theirs, b) ==
    /\ LettersOf(mine[b]) \cap LettersOf(theirs[b]) \subseteq LettersOf(meet[b])
    /\ LettersOf(mine[b]) \ LettersOf(texts[b]) \subseteq LettersOf(meet[b])
    /\ LettersOf(theirs[b]) \ LettersOf(texts[b]) \subseteq LettersOf(meet[b])

\* acc is the pass of the first n pending operations, which led from texts to
\* mine, over the remote rows, which led from texts to theirs.
AllCarried(acc, pending, n, remote, texts, mine, theirs, B, L) ==
    /\ DOMAIN acc.kept = {pending[i].id : i \in 1..n}
    /\ TextOps(KeptOps(acc.kept, pending, n), B, L)
    /\ \A i \in 1..n : SameEdit(acc.kept[pending[i].id], pending[i])
    /\ TextOps(acc.rows, B, L) /\ SameEdits(acc.rows, remote)
    /\ \E meet : /\ Leads(mine, acc.rows, meet, B, L)
                 /\ Leads(theirs, KeptOps(acc.kept, pending, n), meet, B, L)
                 /\ Apart(texts, pending, remote, B) =>
                        \A b \in B : KeepsLetters(meet, texts, mine, theirs, b)

LEMMA SameRange ==
    ASSUME NEW a \in Nat, NEW b \in Nat, 1..a = 1..b
    PROVE  a = b
<1>1. a # 0 => a \in 1..b
    <2>1. a # 0 => a \in 1..a
        OBVIOUS
    <2> QED
        BY ONLY <2>1, 1..a = 1..b
<1>2. b # 0 => b \in 1..a
    <2>1. b # 0 => b \in 1..b
        OBVIOUS
    <2> QED
        BY ONLY <2>1, 1..a = 1..b
<1>3. a <= b /\ b <= a
    BY <1>1, <1>2
<1> QED
    BY <1>3

\* kept and more agree on the first n pending operations.
Agrees(more, kept, pending, n) == \A i \in 1..n : more[pending[i].id] = kept[pending[i].id]

\* more says of the next pending operation what kept does not yet.
OneMore(more, kept, pending, n) ==
    KeptOps(more, pending, n + 1) =
        Append(KeptOps(kept, pending, n), more[pending[n + 1].id])

LEMMA KeptOneMore ==
    ASSUME NEW B, NEW L, NEW pending, NEW n \in Nat, NEW kept, NEW more,
           TextOps(KeptOps(kept, pending, n), B, L),
           IsTextOp(more[pending[n + 1].id], B, L),
           Agrees(more, kept, pending, n)
    PROVE  OneMore(more, kept, pending, n)
<1> DEFINE op == more[pending[n + 1].id]
           old == KeptOps(kept, pending, n)
           new == Append(old, op)
           goal == KeptOps(more, pending, n + 1)
<1>1. old = [i \in 1..n |-> kept[pending[i].id]]
    BY DEF KeptOps
<1>2. goal = [i \in 1..(n + 1) |-> more[pending[i].id]]
    BY DEF KeptOps
<1> HIDE DEF old, goal
<1>3. Len(old) = n
    <2>1. Len(old) \in Nat /\ DOMAIN old = 1..Len(old)
        BY DEF TextOps, old
    <2>2. DOMAIN old = 1..n
        BY <1>1
    <2> QED
        BY <2>1, <2>2, SameRange
<1>4. /\ TextOps(new, B, L) /\ Len(new) = n + 1 /\ new[n + 1] = op
      /\ \A i \in 1..n : new[i] = old[i]
    <2>1. TextOps(old, B, L)
        BY DEF old
    <2>2. /\ TextOps(new, B, L) /\ Len(new) = Len(old) + 1 /\ new[Len(old) + 1] = op
          /\ \A i \in 1..Len(old) : new[i] = old[i]
        BY <2>1, TextOpsOneMore
    <2> HIDE DEF new
    <2> QED
        BY <1>3, <2>2
<1> HIDE DEF new
<1>5. new = [i \in 1..(n + 1) |-> new[i]]
    <2>1. new \in Seq({new[i] : i \in DOMAIN new})
        BY <1>4 DEF TextOps
    <2> QED
        BY <1>4, <2>1
<1>6. ASSUME NEW i \in 1..(n + 1)
      PROVE  new[i] = more[pending[i].id]
    <2>1. CASE i = n + 1
        BY <1>4, <2>1
    <2>2. CASE i \in 1..n
        BY <1>1, <1>4, <2>2 DEF Agrees
    <2> QED
        BY <2>1, <2>2
<1> QED
    BY <1>2, <1>5, <1>6 DEF OneMore, new, old, goal

LEMMA SameEditsTwice ==
    ASSUME NEW a, NEW b, NEW c, SameEdits(a, b), SameEdits(b, c)
    PROVE  SameEdits(a, c)
BY DEF SameEdits, SameEdit

LEMMA AllCarriedOneMore ==
    ASSUME NEW B, NEW L, NEW actor, NEW pending, NEW n \in Nat,
           \A i \in 1..n : pending[i].id # pending[n + 1].id,
           NEW remote, TextOps(remote, B, L), NEW texts,
           NEW theirs, Leads(texts, remote, theirs, B, L), n + 1 \in 1..Len(pending),
           NEW mine \in [B -> Seq(L)],
           BringNew(pending, texts, B) =>
                \A b \in B : KeepsOrder(mine[b], texts[b], IdsUpTo(pending, n)),
           NEW acc, AllCarried(acc, pending, n, remote, texts, mine, theirs, B, L),
           IsTextOp(pending[n + 1], B, L), Suits(mine, pending[n + 1])
    PROVE  AllCarried(RebaseNext(acc, pending[n + 1], actor), pending, n + 1, remote,
                      texts, Played(mine, pending[n + 1]), theirs, B, L)
<1> DEFINE op == pending[n + 1]
           one == RebaseOne(op, actor, acc.rows)
           next == RebaseNext(acc, op, actor)
           old == KeptOps(acc.kept, pending, n)
           new == KeptOps(next.kept, pending, n + 1)
<1>1. PICK meet : /\ Leads(mine, acc.rows, meet, B, L)
                  /\ Leads(theirs, old, meet, B, L)
                  /\ Apart(texts, pending, remote, B) =>
                        \A b \in B : KeepsLetters(meet, texts, mine, theirs, b)
    BY DEF AllCarried
<1>2. TextOps(acc.rows, B, L) /\ SameEdits(acc.rows, remote) /\ TextOps(old, B, L)
    BY DEF AllCarried
<1> HIDE DEF old
<1>3. Carried(one, op, acc.rows, mine, meet, B, L)
    BY <1>1, <1>2, RowPassMeets
<1>4. /\ IsTextOp(one.op, B, L) /\ SameEdit(one.op, op) /\ Suits(meet, one.op)
      /\ TextOps(one.rows, B, L) /\ SameEdits(one.rows, acc.rows)
      /\ Leads(Played(mine, op), one.rows, Played(meet, one.op), B, L)
    BY <1>3 DEF Carried
<1>5. one.op # Dropped
    BY <1>4, TextNotDropped
<1>6. /\ next.kept = [id \in DOMAIN acc.kept \cup {op.id} |->
                        IF id = op.id THEN one.op ELSE acc.kept[id]]
      /\ next.rows = one.rows
    <2> HIDE DEF op
    <2> QED
        BY <1>5 DEF RebaseNext
<1> HIDE DEF one, next
<1>7. DOMAIN acc.kept = {pending[i].id : i \in 1..n}
    BY DEF AllCarried
<1>8. /\ \A i \in 1..n : next.kept[pending[i].id] = acc.kept[pending[i].id]
      /\ next.kept[op.id] = one.op
    BY <1>6, <1>7
<1>9. DOMAIN next.kept = {pending[i].id : i \in 1..(n + 1)}
    <2>1. DOMAIN next.kept = {pending[i].id : i \in 1..n} \cup {op.id}
        BY <1>6, <1>7
    <2>2. 1..(n + 1) = 1..n \cup {n + 1}
        OBVIOUS
    <2> QED
        BY <2>1, <2>2
<1>10. new = Append(old, one.op)
    <2>1. TextOps(KeptOps(acc.kept, pending, n), B, L) /\ IsTextOp(one.op, B, L)
        BY <1>2, <1>4 DEF old
    <2>2. next.kept[pending[n + 1].id] = one.op
        BY <1>8
    <2>3. Agrees(next.kept, acc.kept, pending, n)
        BY <1>8 DEF Agrees
    <2>4. IsTextOp(next.kept[pending[n + 1].id], B, L)
        BY <2>1, <2>2
    <2>5. OneMore(next.kept, acc.kept, pending, n)
        BY <2>1, <2>3, <2>4, KeptOneMore
    <2> QED
        BY <2>2, <2>5 DEF OneMore, old
<1> HIDE DEF new
<1>11. TextOps(new, B, L)
    BY <1>2, <1>4, <1>10, TextOpsOneMore
<1>12. Leads(theirs, new, Played(meet, one.op), B, L)
    BY <1>1, <1>2, <1>4, <1>10, LeadsOn
<1>13. SameEdits(next.rows, remote)
    BY <1>2, <1>4, <1>6, SameEditsTwice
<1>14. \A i \in 1..(n + 1) : SameEdit(next.kept[pending[i].id], pending[i])
    <2> TAKE i \in 1..(n + 1)
    <2>1. CASE i = n + 1
        BY <1>4, <1>8, <2>1
    <2>2. CASE i \in 1..n
        BY <1>8, <2>2 DEF AllCarried
    <2> QED
        BY <2>1, <2>2
<1>15. TextOps(next.rows, B, L) /\ Leads(Played(mine, op), next.rows, Played(meet, one.op), B, L)
    BY <1>4, <1>6
<1>16. ASSUME Apart(texts, pending, remote, B), NEW b \in B
       PROVE  KeepsLetters(Played(meet, one.op), texts, Played(mine, op), theirs, b)
    <2>1. \A c \in B : KeepsOrder(mine[c], texts[c], IdsUpTo(pending, n))
        BY <1>16 DEF Apart
    <2>2. KeepsOrder(theirs[b], texts[b], IdsUpTo(remote, Len(remote)))
        BY <1>16, LeadsKeepsOrder DEF Apart
    <2>3. BringNew(acc.rows, mine, B)
        <3>1. /\ Len(acc.rows) = Len(remote)
              /\ \A i \in 1..Len(remote) : acc.rows[i].id = remote[i].id
            BY <1>2 DEF SameEdits, SameEdit
        <3>2. \A i, j \in 1..Len(acc.rows) : acc.rows[i].id = acc.rows[j].id => i = j
            BY <1>16, <3>1 DEF Apart, BringNew
        <3>3. ASSUME NEW i \in 1..Len(remote), NEW c \in B
              PROVE  remote[i].id \notin LettersOf(mine[c])
            <4>1. remote[i].id \notin LettersOf(texts[c])
                BY <1>16 DEF Apart, BringNew
            <4>2. remote[i].id \notin IdsUpTo(pending, n)
                <5>1. \A k \in 1..n : k \in 1..Len(pending)
                    OBVIOUS
                <5> QED
                    BY <1>16, <5>1 DEF Apart, IdsUpTo
            <4> QED
                BY <2>1, <4>1, <4>2 DEF KeepsOrder
        <3> QED
            BY <3>1, <3>2, <3>3 DEF BringNew
    <2>4. Single(mine[b])
        BY <1>16, <2>1 DEF Apart, KeepsOrder
    <2>5. Touched(Played(meet, one.op), meet, Edit(mine, op, b), b)
        BY <1>1, <1>2, <2>3, <2>4, RowPassTouches DEF one
    <2>6. Touched(Played(mine, op), mine, Edit(mine, op, b), b)
        BY <2>4, PlayedLetters
    <2>7. KeepsLetters(meet, texts, mine, theirs, b)
        BY <1>1, <1>16
    <2> DEFINE out == LettersLost(mine, op, b)
               in == LettersWon(op, b)
               T == LettersOf(texts[b])
               M == LettersOf(mine[b])
               H == LettersOf(theirs[b])
               W == LettersOf(meet[b])
               M2 == LettersOf(Played(mine, op)[b])
               W2 == LettersOf(Played(meet, one.op)[b])
    <2>8. out \subseteq M
        BY LostWasShown
    <2>9. M \subseteq T \cup IdsUpTo(pending, n) /\ H \subseteq T \cup IdsUpTo(remote, Len(remote))
        BY <2>1, <2>2 DEF KeepsOrder
    <2>10. IdsUpTo(pending, n) \cap IdsUpTo(remote, Len(remote)) = {}
        <3>1. \A k \in 1..n : k \in 1..Len(pending)
            OBVIOUS
        <3> QED
            BY <1>16, <3>1 DEF Apart, IdsUpTo
    <2>11. M2 = (M \ out) \cup in /\ W2 = (W \ out) \cup in
        BY <2>5, <2>6 DEF Touched, Edit
    <2>12. M \cap H \subseteq W /\ M \ T \subseteq W /\ H \ T \subseteq W
        BY <2>7 DEF KeepsLetters
    <2> HIDE DEF out, in, T, M, H, W, M2, W2
    <2>13. M2 \cap H \subseteq W2 /\ M2 \ T \subseteq W2 /\ H \ T \subseteq W2
        BY <2>8, <2>9, <2>10, <2>11, <2>12
    <2> QED
        BY <2>13 DEF KeepsLetters, T, H, M2, W2
<1> QED
    BY <1>9, <1>11, <1>12, <1>13, <1>14, <1>15, <1>16 DEF AllCarried, new, next

LEMMA RebaseAllMeets ==
    ASSUME NEW B, NEW L, NEW actor, NEW texts \in [B -> Seq(L)],
           NEW pending, TextOps(pending, B, L),
           \A i, j \in 1..Len(pending) : pending[i].id = pending[j].id => i = j,
           NEW mine, Leads(texts, pending, mine, B, L),
           NEW remote, TextOps(remote, B, L),
           NEW theirs, Leads(texts, remote, theirs, B, L)
    PROVE  AllCarried(RebaseAll(pending, actor, remote), pending, Len(pending), remote,
                      texts, mine, theirs, B, L)
<1>1. Len(pending) \in Nat
    BY DEF TextOps
<1>2. PICK p : PendingRun(p, pending, actor, remote)
    BY <1>1, PendingRunExists
<1>3. RebaseAll(pending, actor, remote) = p[Len(pending)]
    BY <1>2 DEF PendingRun
<1>4. PICK trace : Plays(trace, texts, pending, B, L) /\ trace[Len(pending)] = mine
    BY DEF Leads
<1> DEFINE Good(n) == AllCarried(p[n], pending, n, remote, texts, trace[n], theirs, B, L)
           Bad == {n \in 0..Len(pending) : ~Good(n)}
<1>5. Good(0)
    <2>1. p[0] = [kept |-> <<>>, rows |-> remote] /\ trace[0] = texts
        BY <1>1, <1>2, <1>4 DEF Plays, PendingRun
    <2>2. p[0].kept = <<>> /\ p[0].rows = remote
        BY <2>1
    <2>3. KeptOps(p[0].kept, pending, 0) = <<>>
        BY DEF KeptOps
    <2>4. theirs \in [B -> Seq(L)]
        <3>1. PICK there : Plays(there, texts, remote, B, L) /\ there[Len(remote)] = theirs
            BY DEF Leads
        <3>2. Len(remote) \in Nat
            BY DEF TextOps
        <3> QED
            BY <3>1, <3>2 DEF Plays
    <2>5. TextOps(<<>>, B, L) /\ Leads(theirs, <<>>, theirs, B, L)
        BY <2>4, LeadsNowhere
    <2>6. SameEdits(remote, remote)
        BY DEF SameEdits, SameEdit
    <2>7. DOMAIN p[0].kept = {pending[i].id : i \in 1..0}
        BY <2>2
    <2>8. \A b \in B : KeepsLetters(theirs, texts, texts, theirs, b)
        BY DEF KeepsLetters
    <2>9. AllCarried(p[0], pending, 0, remote, texts, texts, theirs, B, L)
        BY <2>2, <2>3, <2>5, <2>6, <2>7, <2>8 DEF AllCarried
    <2> QED
        BY <2>1, <2>9
<1>6. Bad = {}
    <2>1. SUFFICES ASSUME Bad # {} PROVE FALSE
        OBVIOUS
    <2>2. PICK n \in Bad : \A k \in Bad : n <= k
        <3>1. Bad \subseteq Nat
            BY <1>1
        <3> HIDE DEF Bad
        <3> QED
            BY <2>1, <3>1, LeastNumber
    <2>3. n # 0 /\ n \in 0..Len(pending) /\ ~Good(n)
        BY <1>5, <2>2
    <2>4. PICK j \in Nat : n = j + 1
        <3>1. n - 1 \in Nat /\ n = (n - 1) + 1
            BY <1>1, <2>3
        <3> QED
            BY ONLY <3>1
    <2>5. j \in 0..Len(pending) /\ j \notin Bad /\ j + 1 \in 1..Len(pending)
        BY <1>1, <2>2, <2>3, <2>4
    <2>6. p[j + 1] = RebaseNext(p[j], pending[j + 1], actor)
        <3>1. (j + 1) - 1 = j
            OBVIOUS
        <3> QED
            BY <1>2, <2>5, <3>1 DEF PendingRun
    <2>7. Good(j)
        BY <2>5
    <2>8. /\ trace[j] \in [B -> Seq(L)] /\ Suits(trace[j], pending[j + 1])
          /\ trace[j + 1] = Played(trace[j], pending[j + 1])
        <3>1. (j + 1) - 1 = j
            OBVIOUS
        <3> QED
            BY <1>4, <2>5, <3>1 DEF Plays
    <2>9. IsTextOp(pending[j + 1], B, L)
        BY <1>1, <2>5 DEF TextOps
    <2>10. \A i \in 1..j : pending[i].id # pending[j + 1].id
        BY <1>1, <2>5
    <2>11. BringNew(pending, texts, B) =>
               \A b \in B : KeepsOrder(trace[j][b], texts[b], IdsUpTo(pending, j))
        BY <1>4, <2>5, PlaysKeepOrder
    <2>12. AllCarried(RebaseNext(p[j], pending[j + 1], actor), pending, j + 1, remote,
                      texts, Played(trace[j], pending[j + 1]), theirs, B, L)
        BY <2>5, <2>7, <2>8, <2>9, <2>10, <2>11, AllCarriedOneMore
    <2> QED
        BY <2>3, <2>4, <2>6, <2>8, <2>12
<1>7. Good(Len(pending))
    BY <1>1, <1>6
<1> QED
    BY <1>3, <1>4, <1>7

\* What the rebase makes of pending, in order.
RewrittenOps(pending, actor, remote) ==
    KeptOps(Rebase(pending, actor, remote), pending, Len(pending))

\* The document a list of operations leads to is determined.
LEMMA LeadsOnce ==
    ASSUME NEW B, NEW L, NEW texts, NEW ops, TextOps(ops, B, L),
           NEW x, Leads(texts, ops, x, B, L), NEW y, Leads(texts, ops, y, B, L)
    PROVE  x = y
<1>1. Len(ops) \in Nat
    BY DEF TextOps
<1>2. PICK s : Plays(s, texts, ops, B, L) /\ s[Len(ops)] = x
    BY DEF Leads
<1>3. PICK t : Plays(t, texts, ops, B, L) /\ t[Len(ops)] = y
    BY DEF Leads
<1> DEFINE Bad == {n \in 0..Len(ops) : s[n] # t[n]}
<1>4. Bad = {}
    <2>1. SUFFICES ASSUME Bad # {} PROVE FALSE
        OBVIOUS
    <2>2. PICK n \in Bad : \A k \in Bad : n <= k
        <3>1. Bad \subseteq Nat
            BY <1>1
        <3> HIDE DEF Bad
        <3> QED
            BY <2>1, <3>1, LeastNumber
    <2>3. n # 0
        BY <1>2, <1>3, <2>2 DEF Plays
    <2>4. n \in 1..Len(ops) /\ n - 1 \in 0..Len(ops) /\ n - 1 \notin Bad
        BY <1>1, <2>2, <2>3
    <2>5. s[n - 1] = t[n - 1]
        BY <2>4
    <2> QED
        BY <1>2, <1>3, <2>2, <2>4, <2>5 DEF Plays
<1> QED
    BY <1>1, <1>2, <1>3, <1>4

\* The rebase of note_operation_rebaser.dart converges on texts: whatever
\* letters two users insert into and remove from any blocks, the operations
\* rebase() leaves fit, one after the other, what the other user made of the
\* document, the remote rows it carried along fit what this user made of it,
\* and both orders end with the same texts.
THEOREM RebaseMeets ==
    ASSUME NEW B, NEW L, NEW actor, NEW texts \in [B -> Seq(L)],
           NEW pending, TextOps(pending, B, L),
           \A i, j \in 1..Len(pending) : pending[i].id = pending[j].id => i = j,
           NEW remote, TextOps(remote, B, L),
           NEW mine, Leads(texts, pending, mine, B, L),
           NEW theirs, Leads(texts, remote, theirs, B, L)
    PROVE  /\ SameEdits(RewrittenOps(pending, actor, remote), pending)
           /\ \E merged :
                /\ Leads(theirs, RewrittenOps(pending, actor, remote), merged, B, L)
                /\ Leads(mine, RebaseAll(pending, actor, remote).rows, merged, B, L)
<1> DEFINE all == RebaseAll(pending, actor, remote)
           rewritten == KeptOps(all.kept, pending, Len(pending))
<1>1. AllCarried(all, pending, Len(pending), remote, texts, mine, theirs, B, L)
    BY RebaseAllMeets
<1>2. RewrittenOps(pending, actor, remote) = rewritten
    BY DEF RewrittenOps, Rebase
<1> HIDE DEF all
<1>3. SameEdits(rewritten, pending)
    <2>1. Len(rewritten) = Len(pending)
        <3>1. Len(rewritten) \in Nat /\ DOMAIN rewritten = 1..Len(rewritten)
            BY <1>1 DEF AllCarried, TextOps
        <3>2. DOMAIN rewritten = 1..Len(pending) /\ Len(pending) \in Nat
            BY DEF KeptOps, TextOps
        <3> QED
            BY <3>1, <3>2, SameRange
    <2>2. \A i \in 1..Len(pending) : rewritten[i] = all.kept[pending[i].id]
        BY DEF KeptOps
    <2>3. \A i \in 1..Len(pending) : SameEdit(all.kept[pending[i].id], pending[i])
        BY <1>1 DEF AllCarried
    <2> HIDE DEF rewritten
    <2> QED
        BY <2>1, <2>2, <2>3 DEF SameEdits
<1> QED
    BY <1>1, <1>2, <1>3 DEF AllCarried, all

\* The merge keeps what both users meant: when each adds letters of their own
\* and no letter stands twice in a text, the merged text of every block shows
\* exactly what both still show and what either added, and no two letters
\* stand in an order that one of them saw reversed.
THEOREM MergeKeepsIntentions ==
    ASSUME NEW B, NEW L, NEW actor, NEW texts \in [B -> Seq(L)],
           NEW pending, TextOps(pending, B, L), NEW remote, TextOps(remote, B, L),
           Apart(texts, pending, remote, B),
           NEW mine, Leads(texts, pending, mine, B, L),
           NEW theirs, Leads(texts, remote, theirs, B, L),
           NEW merged, Leads(theirs, RewrittenOps(pending, actor, remote), merged, B, L),
           NEW b \in B
    PROVE  /\ LettersOf(merged[b]) =
                    (LettersOf(mine[b]) \cap LettersOf(theirs[b]))
                    \cup (LettersOf(mine[b]) \ LettersOf(texts[b]))
                    \cup (LettersOf(theirs[b]) \ LettersOf(texts[b]))
           /\ \A x, y : ShownBefore(merged[b], x, y) =>
                    ~ShownBefore(mine[b], y, x) /\ ~ShownBefore(theirs[b], y, x)
<1> DEFINE all == RebaseAll(pending, actor, remote)
           rewritten == RewrittenOps(pending, actor, remote)
<1>1. AllCarried(all, pending, Len(pending), remote, texts, mine, theirs, B, L)
    BY RebaseAllMeets DEF Apart, BringNew
<1>2. rewritten = KeptOps(all.kept, pending, Len(pending))
    BY DEF RewrittenOps, Rebase
<1>3. SameEdits(rewritten, pending)
    BY RebaseMeets DEF Apart, BringNew
<1> HIDE DEF all, rewritten
<1>4. /\ TextOps(rewritten, B, L) /\ TextOps(all.rows, B, L) /\ SameEdits(all.rows, remote)
      /\ Leads(mine, all.rows, merged, B, L)
      /\ KeepsLetters(merged, texts, mine, theirs, b)
    <2>1. PICK meet : /\ Leads(mine, all.rows, meet, B, L)
                      /\ Leads(theirs, rewritten, meet, B, L)
                      /\ \A c \in B : KeepsLetters(meet, texts, mine, theirs, c)
        BY <1>1, <1>2 DEF AllCarried
    <2>2. /\ TextOps(rewritten, B, L) /\ TextOps(all.rows, B, L)
          /\ SameEdits(all.rows, remote)
        BY <1>1, <1>2 DEF AllCarried
    <2>3. merged = meet
        BY <2>1, <2>2, LeadsOnce DEF rewritten
    <2> QED
        BY <2>1, <2>2, <2>3
<1>5. \A c \in B : /\ KeepsOrder(mine[c], texts[c], IdsUpTo(pending, Len(pending)))
                   /\ KeepsOrder(theirs[c], texts[c], IdsUpTo(remote, Len(remote)))
    BY LeadsKeepsOrder DEF Apart
<1>6. IdsUpTo(pending, Len(pending)) \cap IdsUpTo(remote, Len(remote)) = {}
    BY DEF Apart, IdsUpTo
<1>7. \A c \in B : /\ IdsUpTo(pending, Len(pending)) \cap LettersOf(texts[c]) = {}
                   /\ IdsUpTo(remote, Len(remote)) \cap LettersOf(texts[c]) = {}
    BY DEF Apart, BringNew, IdsUpTo
<1>8. BringNew(rewritten, theirs, B) /\ IdsUpTo(rewritten, Len(rewritten)) = IdsUpTo(pending, Len(pending))
    <2>1. /\ Len(rewritten) = Len(pending)
          /\ \A i \in 1..Len(pending) : rewritten[i].id = pending[i].id
        BY <1>3 DEF SameEdits, SameEdit
    <2>2. ASSUME NEW i \in 1..Len(pending), NEW c \in B
          PROVE  pending[i].id \notin LettersOf(theirs[c])
        <3>1. pending[i].id \in IdsUpTo(pending, Len(pending))
            BY DEF IdsUpTo
        <3> QED
            BY <1>5, <1>6, <1>7, <3>1 DEF KeepsOrder
    <2>3. \A i, j \in 1..Len(pending) : pending[i].id = pending[j].id => i = j
        BY DEF Apart, BringNew
    <2>4. BringNew(rewritten, theirs, B)
        BY ONLY <2>1, <2>2, <2>3 DEF BringNew
    <2>5. IdsUpTo(rewritten, Len(rewritten)) = IdsUpTo(pending, Len(pending))
        BY ONLY <2>1 DEF IdsUpTo
    <2> QED
        BY <2>4, <2>5
<1>9. BringNew(all.rows, mine, B) /\ IdsUpTo(all.rows, Len(all.rows)) = IdsUpTo(remote, Len(remote))
    <2>1. /\ Len(all.rows) = Len(remote)
          /\ \A i \in 1..Len(remote) : all.rows[i].id = remote[i].id
        BY <1>4 DEF SameEdits, SameEdit
    <2>2. ASSUME NEW i \in 1..Len(remote), NEW c \in B
          PROVE  remote[i].id \notin LettersOf(mine[c])
        <3>1. remote[i].id \in IdsUpTo(remote, Len(remote))
            BY DEF IdsUpTo
        <3> QED
            BY <1>5, <1>6, <1>7, <3>1 DEF KeepsOrder
    <2>3. \A i, j \in 1..Len(remote) : remote[i].id = remote[j].id => i = j
        BY DEF Apart, BringNew
    <2>4. BringNew(all.rows, mine, B)
        BY ONLY <2>1, <2>2, <2>3 DEF BringNew
    <2>5. IdsUpTo(all.rows, Len(all.rows)) = IdsUpTo(remote, Len(remote))
        BY ONLY <2>1 DEF IdsUpTo
    <2> QED
        BY <2>4, <2>5
<1>10. KeepsOrder(merged[b], theirs[b], IdsUpTo(pending, Len(pending)))
    BY <1>4, <1>8, LeadsKeepsOrder DEF rewritten
<1>11. KeepsOrder(merged[b], mine[b], IdsUpTo(remote, Len(remote)))
    BY <1>4, <1>9, LeadsKeepsOrder
<1>12. LettersOf(merged[b]) =
           (LettersOf(mine[b]) \cap LettersOf(theirs[b]))
           \cup (LettersOf(mine[b]) \ LettersOf(texts[b]))
           \cup (LettersOf(theirs[b]) \ LettersOf(texts[b]))
    BY <1>4, <1>6, <1>7, <1>10, <1>11 DEF KeepsOrder, KeepsLetters
<1>13. \A x, y : ShownBefore(merged[b], x, y) /\ ShownBefore(mine[b], y, x) => FALSE
    <2>1. Single(mine[b])
        BY <1>5 DEF KeepsOrder, Apart
    <2> QED
        BY <1>11, <2>1, NeverReversed
<1>14. \A x, y : ShownBefore(merged[b], x, y) /\ ShownBefore(theirs[b], y, x) => FALSE
    <2>1. Single(theirs[b])
        BY <1>5 DEF KeepsOrder, Apart
    <2> QED
        BY <1>10, <2>1, NeverReversed
<1> QED
    BY <1>12, <1>13, <1>14

\* What RebaseMeets and MergeKeepsIntentions say of texts, document.go and
\* note_blocks.dart do to documents: a document on which server or client
\* applies a list of text operations one after the other ends with the texts
\* that list leads to.
THEOREM DocumentsFollowTexts ==
    ASSUME NEW L, NEW doc, IsDocument(doc, L),
           NEW ops, TextOps(ops, BlockIds(doc), L),
           NEW now, Leads(TextsOf(doc), ops, now, BlockIds(doc), L),
           NEW docs, docs[0] = doc,
           \A i \in 1..Len(ops) : \/ docs[i] = ServerApply(docs[i - 1], ops[i])
                                  \/ docs[i] = ClientApply(docs[i - 1], ops[i])
    PROVE  IsDocument(docs[Len(ops)], L) /\ TextsOf(docs[Len(ops)]) = now
<1> DEFINE B == BlockIds(doc)
<1>1. Len(ops) \in Nat /\ \A i \in 1..Len(ops) : IsTextOp(ops[i], B, L)
    BY DEF TextOps
<1>2. PICK trace : Plays(trace, TextsOf(doc), ops, B, L) /\ trace[Len(ops)] = now
    BY DEF Leads
<1> DEFINE Good(n) == IsDocument(docs[n], L) /\ BlockIds(docs[n]) = B /\ TextsOf(docs[n]) = trace[n]
           Bad == {n \in 0..Len(ops) : ~Good(n)}
<1>3. Good(0)
    BY <1>2 DEF Plays
<1>4. Bad = {}
    <2>1. SUFFICES ASSUME Bad # {} PROVE FALSE
        OBVIOUS
    <2>2. PICK n \in Bad : \A k \in Bad : n <= k
        <3>1. Bad \subseteq Nat
            BY <1>1
        <3> HIDE DEF Bad
        <3> QED
            BY <2>1, <3>1, LeastNumber
    <2>3. n \in 1..Len(ops) /\ n - 1 \in 0..Len(ops) /\ n - 1 \notin Bad
        BY <1>1, <1>3, <2>2
    <2>4. Good(n - 1)
        BY <2>3
    <2> DEFINE old == docs[n - 1]
               op == ops[n]
    <2>5. Suits(trace[n - 1], op) /\ trace[n] = Played(trace[n - 1], op)
        BY <1>2, <2>3 DEF Plays
    <2>6. IsTextOp(op, BlockIds(old), L) /\ Suits(TextsOf(old), op)
        BY <1>1, <2>3, <2>4, <2>5
    <2>7. docs[n] = ServerApply(old, op) \/ docs[n] = ClientApply(old, op)
        BY <2>3
    <2> HIDE DEF old, op
    <2>8. /\ docs[n] = ServerApply(old, op)
          /\ IsDocument(docs[n], L)
          /\ TextsOf(docs[n]) = Played(TextsOf(old), op)
        BY <2>4, <2>6, <2>7, TextOpApplies DEF old
    <2>9. BlockIds(docs[n]) = BlockIds(old)
        <3>1. BlockIds(docs[n]) = DOMAIN TextsOf(docs[n]) /\ BlockIds(old) = DOMAIN TextsOf(old)
            BY DEF TextsOf
        <3>2. DOMAIN Played(TextsOf(old), op) = DOMAIN TextsOf(old)
            BY DEF Played
        <3> QED
            BY <2>8, <3>1, <3>2
    <2>10. Good(n)
        BY <2>4, <2>5, <2>8, <2>9 DEF old, op
    <2> QED
        BY <2>2, <2>10
<1> QED
    BY <1>1, <1>2, <1>4

-------------------------------------------------------------------------------
(* Part 2: the sync protocol.                                              *)

USE ClientsAssumption, OpIdsAssumption, FaultsAssumption

-------------------------------------------------------------------------------
(* Lemmas about finite sets of rows, where a row has a natural number as   *)
(* its place (the field "ord"): the first row, the last row, and the rank  *)
(* of a row, which is how the outbox is read in order and renumbered.      *)

\* The rows of S before r, and r's rank among them.
Below(S, r) == {q \in S : q.ord < r.ord}

\* Some row of a set comes first.
LEMMA FirstRow ==
    ASSUME NEW S, S # {}, \A r \in S : r.ord \in Nat
    PROVE  \E r \in S : \A q \in S : r.ord <= q.ord
<1> DEFINE Places == {r.ord : r \in S}
<1>1. Places \subseteq Nat /\ Places # {}
    OBVIOUS
<1>2. PICK n \in Places : \A m \in Places : n <= m
    BY <1>1, LeastNumber
<1> QED
    BY <1>2

\* Some row of a finite set comes last: a smallest subset without a last row
\* would have one row less, hence a last row, and that or the missing one is
\* the last.
LEMMA LastRow ==
    ASSUME NEW S, IsFiniteSet(S), S # {}, \A r \in S : r.ord \in Nat
    PROVE  \E r \in S : \A q \in S : q.ord <= r.ord
<1> DEFINE HasLast(U) == \E r \in U : \A q \in U : q.ord <= r.ord
           Bad == {U \in SUBSET S : U # {} /\ ~HasLast(U)}
<1>1. SUFFICES ASSUME Bad # {} PROVE FALSE
    BY DEF Bad
<1>2. Bad \subseteq FiniteSubsetsOf(S)
    BY FS_Subset DEF FiniteSubsetsOf
<1>3. PICK U \in Bad : \A V \in Bad : ~(<<V, U>> \in StrictSubsetOrdering(S))
    BY <1>1, <1>2, WFMin, FS_StrictSubsetOrderingWellFounded
<1>4. PICK x \in U : TRUE
    BY <1>3
<1> DEFINE V == U \ {x}
<1>5. <<V, U>> \in StrictSubsetOrdering(S)
    BY <1>3, <1>4 DEF StrictSubsetOrdering
<1>6. V = {} \/ HasLast(V)
    BY <1>3, <1>5
<1>7. CASE V = {}
    <2>1. \A q \in U : q = x
        BY <1>7
    <2>2. x.ord \in Nat
        BY <1>3, <1>4
    <2> QED
        BY <2>1, <2>2, <1>3, <1>4
<1>8. CASE HasLast(V)
    <2>1. PICK m \in V : \A q \in V : q.ord <= m.ord
        BY <1>8
    <2>2. m \in U /\ m.ord \in Nat /\ x.ord \in Nat
        BY <2>1, <1>3, <1>4
    <2>3. CASE x.ord <= m.ord
        BY <2>1, <2>2, <2>3, <1>3
    <2>4. CASE m.ord <= x.ord
        <3>1. \A q \in U : q.ord \in Nat
            BY <1>3
        <3>2. \A q \in U : q.ord <= x.ord
            BY <2>1, <2>2, <2>4, <3>1
        <3> QED
            BY <3>2, <1>3, <1>4
    <2> QED
        BY <2>2, <2>3, <2>4
<1> QED
    BY <1>6, <1>7, <1>8

\* The members of S that f puts before r.
Lower(S, f, r) == {q \in S : f[q] < f[r]}

\* The members of a finite set at different places have the ranks 0, 1, ...,
\* each taken once: rank is an injection into as many numbers.
LEMMA EveryRankIsTaken ==
    ASSUME NEW S, IsFiniteSet(S), NEW f, \A r \in S : f[r] \in Nat,
           \A r, q \in S : f[r] = f[q] => r = q
    PROVE  /\ \A r \in S : Cardinality(Lower(S, f, r)) \in 0..(Cardinality(S) - 1)
           /\ \A r, q \in S : Cardinality(Lower(S, f, r)) = Cardinality(Lower(S, f, q)) => r = q
           /\ \A r, q \in S :
                f[r] < f[q] <=> Cardinality(Lower(S, f, r)) < Cardinality(Lower(S, f, q))
           /\ {Cardinality(Lower(S, f, r)) : r \in S} = 0..(Cardinality(S) - 1)
<1> DEFINE rank == [r \in S |-> Cardinality(Lower(S, f, r))]
           n == Cardinality(S)
<1>0. n \in Nat
    BY FS_CardinalityType
<1>1. ASSUME NEW r \in S
      PROVE  IsFiniteSet(Lower(S, f, r)) /\ rank[r] \in 0..(n - 1)
    <2>1. Lower(S, f, r) \in SUBSET S /\ r \notin Lower(S, f, r)
        BY DEF Lower
    <2>2. /\ IsFiniteSet(Lower(S, f, r))
          /\ Cardinality(Lower(S, f, r)) <= n
          /\ n = Cardinality(Lower(S, f, r)) => S = Lower(S, f, r)
        BY <2>1, FS_Subset
    <2>3. Cardinality(Lower(S, f, r)) \in Nat
        BY <2>2, FS_CardinalityType
    <2> QED
        BY <2>1, <2>2, <2>3, <1>0
<1>2. ASSUME NEW r \in S, NEW q \in S, f[r] < f[q]
      PROVE  rank[r] < rank[q]
    <2>1. Lower(S, f, r) \in SUBSET Lower(S, f, q) /\ r \in Lower(S, f, q) /\ r \notin Lower(S, f, r)
        BY <1>2 DEF Lower
    <2>2. /\ Cardinality(Lower(S, f, r)) <= Cardinality(Lower(S, f, q))
          /\ Cardinality(Lower(S, f, q)) = Cardinality(Lower(S, f, r)) => Lower(S, f, q) = Lower(S, f, r)
        BY <2>1, <1>1, FS_Subset
    <2> QED
        BY <2>1, <2>2, <1>1
<1>3. ASSUME NEW r \in S, NEW q \in S
      PROVE  f[r] < f[q] <=> rank[r] < rank[q]
    <2>1. f[r] < f[q] \/ f[q] < f[r] \/ r = q
        OBVIOUS
    <2> QED
        BY <2>1, <1>2, <1>1
<1>4. ASSUME NEW r \in S, NEW q \in S, rank[r] = rank[q]
      PROVE  r = q
    <2>1. f[r] < f[q] \/ f[q] < f[r] \/ r = q
        OBVIOUS
    <2> QED
        BY <2>1, <1>2, <1>4, <1>1
<1>5. {rank[r] : r \in S} = 0..(n - 1)
    <2>1. rank \in [S -> 0..(n - 1)]
        BY <1>1
    <2>2. rank \in Injection(S, 0..(n - 1))
        BY <2>1, <1>4 DEF Injection, IsInjective
    <2>3. IsFiniteSet(0..(n - 1)) /\ Cardinality(0..(n - 1)) = n
        <3> DEFINE m == n - 1
        <3>1. m \in Int /\ 0 \in Int /\ (IF 0 > m THEN 0 ELSE m - 0 + 1) = n
            BY ONLY <1>0
        <3> HIDE DEF m
        <3>2. IsFiniteSet(0..m) /\ Cardinality(0..m) = n
            BY ONLY <3>1, FS_Interval
        <3> QED
            BY ONLY <3>2 DEF m
    <2>4. rank \in Surjection(S, 0..(n - 1))
        BY <2>2, <2>3, FS_Injection
    <2>5. \A k \in 0..(n - 1) : \E r \in S : rank[r] = k
        BY <2>4 DEF Surjection
    <2> QED
        BY <1>1, <2>5
<1> QED
    BY <1>1, <1>3, <1>4, <1>5

\* In particular by their places.
LEMMA RanksAreDense ==
    ASSUME NEW S, IsFiniteSet(S), \A r \in S : r.ord \in Nat,
           \A r, q \in S : r.ord = q.ord => r = q
    PROVE  /\ \A r \in S : Cardinality(Below(S, r)) \in 0..(Cardinality(S) - 1)
           /\ \A r, q \in S : Cardinality(Below(S, r)) = Cardinality(Below(S, q)) => r = q
           /\ \A r, q \in S : r.ord < q.ord <=> Cardinality(Below(S, r)) < Cardinality(Below(S, q))
           /\ {Cardinality(Below(S, r)) : r \in S} = 0..(Cardinality(S) - 1)
<1> DEFINE place == [r \in S |-> r.ord]
<1>1. \A r \in S : Lower(S, place, r) = Below(S, r)
    BY DEF Lower, Below
<1>2. (\A r \in S : place[r] = r.ord /\ place[r] \in Nat) /\ \A r, q \in S : place[r] = place[q] => r = q
    OBVIOUS
<1> HIDE DEF place
<1>3. /\ \A r \in S : Cardinality(Lower(S, place, r)) \in 0..(Cardinality(S) - 1)
      /\ \A r, q \in S : Cardinality(Lower(S, place, r)) = Cardinality(Lower(S, place, q)) => r = q
      /\ \A r, q \in S :
            place[r] < place[q] <=> Cardinality(Lower(S, place, r)) < Cardinality(Lower(S, place, q))
      /\ {Cardinality(Lower(S, place, r)) : r \in S} = 0..(Cardinality(S) - 1)
    BY <1>2, EveryRankIsTaken
<1> QED
    BY <1>1, <1>2, <1>3

\* The member with k - 1 others before it.
Nth(S, f, k) == CHOOSE r \in S : Cardinality(Lower(S, f, r)) = k - 1

\* Taken by rank, every member of S comes up, and nothing else.
LEMMA NthListsAll ==
    ASSUME NEW S, IsFiniteSet(S), NEW f, \A r \in S : f[r] \in Nat,
           \A r, q \in S : f[r] = f[q] => r = q
    PROVE  /\ Cardinality(S) \in Nat
           /\ \A k \in 1..Cardinality(S) : Nth(S, f, k) \in S
           /\ \A r \in S : \E k \in 1..Cardinality(S) : Nth(S, f, k) = r
           /\ \A j, k \in 1..Cardinality(S) : Nth(S, f, j) = Nth(S, f, k) => j = k
<1> DEFINE rank(r) == Cardinality(Lower(S, f, r))
           n == Cardinality(S)
<1>1. n \in Nat
    BY FS_CardinalityType
<1>2. /\ \A r \in S : rank(r) \in 0..(n - 1)
      /\ \A r, q \in S : rank(r) = rank(q) => r = q
      /\ {rank(r) : r \in S} = 0..(n - 1)
    BY EveryRankIsTaken
<1> HIDE DEF n
<1>3. ASSUME NEW k \in 1..n
      PROVE  Nth(S, f, k) \in S /\ rank(Nth(S, f, k)) = k - 1
    <2>1. k - 1 \in 0..(n - 1)
        BY <1>1
    <2>2. \E r \in S : rank(r) = k - 1
        BY <2>1, <1>2
    <2> QED
        BY <2>2 DEF Nth
<1>4. ASSUME NEW r \in S
      PROVE  \E k \in 1..n : Nth(S, f, k) = r
    <2>1. rank(r) \in 0..(n - 1)
        BY <1>2
    <2>2. PICK k \in 1..n : k - 1 = rank(r)
        <3>1. rank(r) + 1 \in 1..n /\ (rank(r) + 1) - 1 = rank(r)
            BY <2>1, <1>1
        <3> QED
            BY <3>1
    <2> QED
        BY <2>2, <1>3, <1>2
<1>5. ASSUME NEW j \in 1..n, NEW k \in 1..n, Nth(S, f, j) = Nth(S, f, k)
      PROVE  j = k
    BY <1>3, <1>5
<1> QED
    BY <1>1, <1>3, <1>4, <1>5 DEF n

LEMMA InOrderLists ==
    ASSUME NEW S, IsFiniteSet(S), \A r \in S : r.ord \in Nat,
           \A r, q \in S : r.ord = q.ord => r = q
    PROVE  /\ InOrder(S) \in Seq(S)
           /\ \A r \in S : \E k \in 1..Len(InOrder(S)) : InOrder(S)[k] = r
           /\ \A j, k \in 1..Len(InOrder(S)) : InOrder(S)[j] = InOrder(S)[k] => j = k
<1> DEFINE f == [r \in S |-> r.ord]
           n == Cardinality(S)
           list == [k \in 1..n |-> Nth(S, f, k)]
<1>1. \A r \in S : Lower(S, f, r) = {q \in S : q.ord < r.ord}
    BY DEF Lower
<1>2. \A k \in 1..n : Nth(S, f, k) = CHOOSE r \in S : Cardinality({q \in S : q.ord < r.ord}) = k - 1
    BY <1>1 DEF Nth
<1>3. InOrder(S) = list
    BY <1>2 DEF InOrder
<1>4. /\ n \in Nat
      /\ \A k \in 1..n : Nth(S, f, k) \in S
      /\ \A r \in S : \E k \in 1..n : Nth(S, f, k) = r
      /\ \A j, k \in 1..n : Nth(S, f, j) = Nth(S, f, k) => j = k
    <2>1. \A r \in S : f[r] \in Nat
        OBVIOUS
    <2>2. \A r, q \in S : f[r] = f[q] => r = q
        OBVIOUS
    <2> HIDE DEF f
    <2> QED
        BY <2>1, <2>2, NthListsAll
<1> HIDE DEF f, n
<1>5. list \in Seq(S) /\ Len(list) = n
    BY <1>4
<1> QED
    BY <1>3, <1>4, <1>5

LEMMA ByRevisionLists ==
    ASSUME NEW S, IsFiniteSet(S), \A r \in S : r.rev \in Nat,
           \A r, q \in S : r.rev = q.rev => r = q
    PROVE  ByRevision(S) \in Seq(S)
<1> DEFINE f == [r \in S |-> r.rev]
           n == Cardinality(S)
           list == [k \in 1..n |-> Nth(S, f, k)]
<1>1. \A r \in S : Lower(S, f, r) = {q \in S : q.rev < r.rev}
    BY DEF Lower
<1>2. \A k \in 1..n : Nth(S, f, k) = CHOOSE r \in S : Cardinality({q \in S : q.rev < r.rev}) = k - 1
    BY <1>1 DEF Nth
<1>3. ByRevision(S) = list
    BY <1>2 DEF ByRevision
<1>4. n \in Nat /\ \A k \in 1..n : Nth(S, f, k) \in S
    <2>1. \A r \in S : f[r] \in Nat
        OBVIOUS
    <2>2. \A r, q \in S : f[r] = f[q] => r = q
        OBVIOUS
    <2> HIDE DEF f
    <2> QED
        BY <2>1, <2>2, NthListsAll
<1> HIDE DEF f, n
<1>5. list \in Seq(S)
    BY <1>4
<1> QED
    BY <1>3, <1>5

\* What survives in a list was in it and was not dropped.
LEMMA SurvivorsRemain ==
    ASSUME NEW X, NEW s \in Seq(X)
    PROVE  Survivors(s) \in Seq({s[i] : i \in 1..Len(s)} \ {Dropped})
<1> DEFINE kept == {i \in DOMAIN s : s[i] # Dropped}
           f == [i \in kept |-> i]
           n == Cardinality(kept)
<1>1. DOMAIN s = 1..Len(s) /\ Len(s) \in Nat
    OBVIOUS
<1>2. IsFiniteSet(kept) /\ kept \subseteq Nat
    <2>1. kept \in SUBSET (1..Len(s)) /\ IsFiniteSet(1..Len(s))
        BY <1>1, FS_Interval
    <2> QED
        BY <2>1, FS_Subset
<1>3. \A i \in kept : Lower(kept, f, i) = {j \in kept : j < i}
    BY DEF Lower
<1>4. \A k \in 1..n : Nth(kept, f, k) = CHOOSE i \in kept : Cardinality({j \in kept : j < i}) = k - 1
    BY <1>3 DEF Nth
<1>5. Survivors(s) = [k \in 1..n |-> s[Nth(kept, f, k)]]
    <2>1. Survivors(s) =
            [k \in 1..n |-> s[CHOOSE i \in kept : Cardinality({j \in kept : j < i}) = k - 1]]
        BY DEF Survivors
    <2> HIDE DEF f, n, kept
    <2> QED
        BY <1>4, <2>1
<1>6. n \in Nat /\ \A k \in 1..n : Nth(kept, f, k) \in kept
    <2>1. (\A i \in kept : f[i] \in Nat) /\ \A i, j \in kept : f[i] = f[j] => i = j
        BY <1>2
    <2> HIDE DEF f, kept
    <2> QED
        BY <2>1, <1>2, NthListsAll
<1>7. \A k \in 1..n : s[Nth(kept, f, k)] \in {s[i] : i \in 1..Len(s)} \ {Dropped}
    BY <1>1, <1>6
<1> DEFINE X2 == {s[i] : i \in 1..Len(s)} \ {Dropped}
           list == [k \in 1..n |-> s[Nth(kept, f, k)]]
<1>8. list \in Seq(X2)
    <2> HIDE DEF f, n, kept, X2
    <2>1. \A k \in 1..n : s[Nth(kept, f, k)] \in X2
        BY <1>7 DEF X2
    <2> QED
        BY <1>6, <2>1
<1> QED
    BY <1>5, <1>8

-------------------------------------------------------------------------------
(* Lemmas about the operators.                                             *)

\* An edit carries the identifier it was given.
LEMMA EditHasItsId ==
    ASSUME NEW doc, NEW id, NEW actions, NEW op \in LocalEdits(doc, id, actions)
    PROVE  op.id = id
BY DEF LocalEdits

\* Appending keeps a sequence a sequence over its own elements.
LEMMA AppendIsSequence ==
    ASSUME NEW s, s \in Seq(ToSet(s)), NEW e
    PROVE  /\ Append(s, e) \in Seq(ToSet(Append(s, e)))
           /\ \A i \in DOMAIN Append(s, e) :
                  Append(s, e)[i] = e \/ \E j \in DOMAIN s : Append(s, e)[i] = s[j]
<1> DEFINE S == ToSet(s) \cup {e}
           t == Append(s, e)
<1>1. s \in Seq(S)
    BY DEF ToSet
<1>2. t \in Seq(S) /\ Len(t) = Len(s) + 1 /\ t[Len(s) + 1] = e
    BY <1>1
<1>3. \A i \in 1..Len(s) : t[i] = s[i]
    BY <1>1
<1>4. \A i \in DOMAIN t : t[i] \in ToSet(t)
    BY DEF ToSet
<1>5. t \in Seq(ToSet(t))
    BY <1>2, <1>4
<1> QED
    BY <1>1, <1>2, <1>3, <1>5

\* The rows made from a batch, and the rows after them.
LEMMA EnqueuedRows ==
    ASSUME NEW S, IsFiniteSet(S), \A r \in S : OutboxRowOK(r),
           NEW ops, ops \in Seq(ToSet(ops)), \A i \in DOMAIN ops : ops[i].id \in OpIds,
           NEW revision \in Nat
    PROVE  /\ IsFiniteSet(Enqueued(S, ops, revision))
           /\ \A r \in Enqueued(S, ops, revision) : OutboxRowOK(r)
           /\ S \subseteq Enqueued(S, ops, revision)
           /\ \A r \in Enqueued(S, ops, revision) \ S : r.status = "pending"
<1> DEFINE last == CHOOSE r \in S : \A q \in S : q.ord <= r.ord
           ord0 == IF S = {} THEN 0 ELSE last.ord + 1
           base0 == IF S = {} THEN revision ELSE last.base + 1
           row(i) == OutboxRow(ops[i], ord0 + i - 1, base0 + i - 1)
           new == {row(i) : i \in DOMAIN ops}
<1>1. Enqueued(S, ops, revision) = S \cup new
    BY DEF Enqueued
<1>2. ord0 \in Nat /\ base0 \in Nat
    <2>1. CASE S = {}
        BY <2>1
    <2>2. CASE S # {}
        <3>1. \E r \in S : \A q \in S : q.ord <= r.ord
            BY <2>2, LastRow DEF OutboxRowOK
        <3>2. last \in S
            BY <3>1
        <3> QED
            BY <2>2, <3>2 DEF OutboxRowOK
    <2> QED
        BY <2>1, <2>2
<1>3. DOMAIN ops = 1..Len(ops) /\ Len(ops) \in Nat
    OBVIOUS
<1>4. \A i \in DOMAIN ops : OutboxRowOK(row(i)) /\ row(i).status = "pending"
    <2> SUFFICES ASSUME NEW i \in DOMAIN ops
                 PROVE  OutboxRowOK(row(i)) /\ row(i).status = "pending"
        OBVIOUS
    <2>1. ord0 + i - 1 \in Nat /\ base0 + i - 1 \in Nat
        BY <1>2, <1>3
    <2> HIDE DEF ord0, base0
    <2> QED
        BY <2>1 DEF OutboxRow, OutboxRowOK, RowFields
<1>5. IsFiniteSet(new)
    <2> DEFINE f == [i \in DOMAIN ops |-> row(i)]
    <2>1. f \in Surjection(DOMAIN ops, new)
        BY DEF Surjection
    <2>2. IsFiniteSet(DOMAIN ops)
        BY <1>3, FS_Interval
    <2> QED
        BY <2>1, <2>2, FS_Surjection
<1> HIDE DEF new
<1>6. IsFiniteSet(S \cup new)
    BY <1>5, FS_Union
<1> USE DEF new
<1> HIDE DEF row
<1> QED
    BY <1>1, <1>4, <1>6

\* A rebase leaves pending rows only, each one a rewritten pending row, and
\* renumbers them by rank.
LEMMA RebasedRows ==
    ASSUME NEW S, IsFiniteSet(S), \A r \in S : OutboxRowOK(r),
           NEW actor, NEW remote, NEW revision \in Nat
    PROVE  /\ IsFiniteSet(Rebased(S, actor, remote, revision))
           /\ \A r \in Rebased(S, actor, remote, revision) :
                  OutboxRowOK(r) /\ r.status = "pending"
           /\ Ids(Rebased(S, actor, remote, revision)) \subseteq Ids(S)
<1> DEFINE now  == Rebase(InOrder(S), actor, remote)
           kept == {r \in S : now[r.id] # Dropped}
           rank(r) == Cardinality({q \in kept : q.ord < r.ord})
           row(r) == [r EXCEPT !.delta = now[r.id].delta, !.after = now[r.id].after,
                               !.ord = rank(r), !.base = revision + rank(r),
                               !.status = "pending"]
<1>1. Rebased(S, actor, remote, revision) = {row(r) : r \in kept}
    BY DEF Rebased, Renumbered
<1>2. kept \in SUBSET S /\ IsFiniteSet(kept)
    BY FS_Subset
<1> HIDE DEF kept, now
<1>3. \A r \in kept : rank(r) \in Nat
    <2> TAKE r \in kept
    <2>1. {q \in kept : q.ord < r.ord} \in SUBSET kept
        OBVIOUS
    <2> QED
        BY <2>1, <1>2, FS_Subset, FS_CardinalityType
<1> HIDE DEF rank
<1>4. ASSUME NEW r \in kept
      PROVE  OutboxRowOK(row(r)) /\ row(r).status = "pending" /\ row(r).id = r.id
    <2>1. OutboxRowOK(r)
        BY <1>2
    <2>2. rank(r) \in Nat /\ revision + rank(r) \in Nat
        BY <1>3
    <2> QED
        BY <2>1, <2>2 DEF OutboxRowOK, RowFields
<1>5. IsFiniteSet({row(r) : r \in kept})
    <2> DEFINE f == [r \in kept |-> row(r)]
    <2> HIDE DEF row
    <2>1. f \in Surjection(kept, {row(r) : r \in kept})
        BY DEF Surjection
    <2> QED
        BY <2>1, <1>2, FS_Surjection
<1> HIDE DEF row
<1> QED
    BY <1>1, <1>2, <1>4, <1>5 DEF Ids

-------------------------------------------------------------------------------
(* The invariant holds initially and every action keeps it.                *)

LEMMA InitInv == Init => LogInv
<1> SUFFICES ASSUME Init PROVE LogInv
    OBVIOUS
<1>1. ClientsOK
    BY FS_EmptySet DEF Init, ClientsOK, NoSession, ToSet
<1>2. CallsOK
    BY DEF Init, CallsOK, Idle, SyncPhases, PollPhases
<1>3. LogOK
    BY DEF Init, LogOK
<1>4. TxOK
    BY DEF Init, TxOK
<1>5. GateOK /\ SessionOwnsInFlight
    BY DEF Init, GateOK, SessionOwnsInFlight, Idle, SyncPhases, PollPhases, NoSession,
           WithStatus, Ids
<1>6. ReadersOK
    BY DEF Init, ReadersOK, Idle
<1> QED
    BY <1>1, <1>2, <1>3, <1>4, <1>5, <1>6 DEF LogInv

\* A step that leaves the server alone and lets every serving client serve
\* keeps the log and the transaction as they are.
LEMMA ServerUntouched ==
    ASSUME LogInv, UNCHANGED server, CallsOK',
           \A c \in Clients : call[c].phase = "serving" => call'[c].phase = "serving"
    PROVE  LogOK' /\ TxOK'
<1>1. LogOK'
    BY DEF LogInv, LogOK, server
<1>2. TxOK'
    BY DEF LogInv, TxOK, server, Visible
<1> QED
    BY <1>1, <1>2

LEMMA TypeStep ==
    ASSUME LogInv, NEW c \in Clients, Type(c)
    PROVE  LogInv'
<1>0. PICK id \in OpIds : \E op \in LocalEdits(mirror[c].doc, id, Actions) :
        /\ typed' = [typed EXCEPT ![c] = Append(@, op)]
        /\ used' = used \cup {id}
        /\ UNCHANGED <<server, outbox, session, confirmed, call, result, faults>>
    BY DEF Type
<1>1. PICK op \in LocalEdits(mirror[c].doc, id, Actions) :
        /\ typed' = [typed EXCEPT ![c] = Append(@, op)]
        /\ used' = used \cup {id}
        /\ UNCHANGED <<server, outbox, session, confirmed, call, result, faults>>
    BY <1>0
<1>2. op.id \in OpIds
    BY <1>1, EditHasItsId
<1>3. /\ typed'[c] \in Seq(ToSet(typed'[c]))
      /\ \A i \in DOMAIN typed'[c] : typed'[c][i].id \in OpIds
    <2>1. typed[c] \in Seq(ToSet(typed[c])) /\ \A i \in DOMAIN typed[c] : typed[c][i].id \in OpIds
        BY DEF LogInv, ClientsOK
    <2>2. typed'[c] = Append(typed[c], op)
        BY <1>1 DEF LogInv, ClientsOK
    <2> QED
        BY <2>1, <2>2, <1>2, AppendIsSequence
<1>4. ClientsOK'
    BY <1>1, <1>3 DEF LogInv, ClientsOK, NoSession
<1>5. CallsOK'
    BY <1>1 DEF LogInv, CallsOK, server, RequestOK
<1>6. LogOK' /\ TxOK'
    BY <1>1, <1>5, ServerUntouched
<1>7. GateOK' /\ SessionOwnsInFlight' /\ ReadersOK'
    BY <1>1 DEF LogInv, GateOK, SessionOwnsInFlight, ReadersOK, server, NoSession
<1> QED
    BY <1>4, <1>5, <1>6, <1>7 DEF LogInv

\* Putting a batch behind an outbox adds pending rows only.
LEMMA EnqueueKeepsOutbox ==
    ASSUME LogInv, NEW c \in Clients
    PROVE  LET box == Enqueued(outbox[c], typed[c], confirmed[c].rev) IN
           /\ IsFiniteSet(box)
           /\ \A r \in box : OutboxRowOK(r)
           /\ WithStatus(box, "in_flight") = WithStatus(outbox[c], "in_flight")
<1>1. /\ IsFiniteSet(outbox[c]) /\ \A r \in outbox[c] : OutboxRowOK(r)
      /\ typed[c] \in Seq(ToSet(typed[c])) /\ \A i \in DOMAIN typed[c] : typed[c][i].id \in OpIds
      /\ confirmed[c].rev \in Nat
    BY DEF LogInv, ClientsOK
<1> QED
    BY <1>1, EnqueuedRows DEF WithStatus

LEMMA EnqueueStep ==
    ASSUME LogInv, NEW c \in Clients,
           outbox' = [outbox EXCEPT ![c] = Enqueued(@, typed[c], confirmed[c].rev)],
           typed' = [typed EXCEPT ![c] = <<>>],
           UNCHANGED <<server, session, confirmed, call, used, faults>>
    PROVE  LogInv'
<1> DEFINE box == Enqueued(outbox[c], typed[c], confirmed[c].rev)
<1>1. /\ IsFiniteSet(box) /\ \A r \in box : OutboxRowOK(r)
      /\ WithStatus(box, "in_flight") = WithStatus(outbox[c], "in_flight")
    BY EnqueueKeepsOutbox
<1>2. outbox' = [outbox EXCEPT ![c] = box] /\ DOMAIN outbox = Clients /\ DOMAIN typed = Clients
    BY DEF LogInv, ClientsOK
<1> HIDE DEF box
<1>3. ClientsOK'
    <2>1. \A d \in Clients : /\ typed'[d] \in Seq(ToSet(typed'[d]))
                             /\ \A i \in DOMAIN typed'[d] : typed'[d][i].id \in OpIds
        <3>1. typed'[c] = <<>> /\ \A d \in Clients \ {c} : typed'[d] = typed[d]
            BY <1>2
        <3>2. <<>> \in Seq(ToSet(<<>>)) /\ DOMAIN <<>> = {}
            OBVIOUS
        <3> QED
            BY <3>1, <3>2 DEF LogInv, ClientsOK
    <2>2. \A d \in Clients : /\ IsFiniteSet(outbox'[d])
                             /\ \A r \in outbox'[d] : OutboxRowOK(r)
        BY <1>1, <1>2 DEF LogInv, ClientsOK
    <2> QED
        BY <1>2, <2>1, <2>2 DEF LogInv, ClientsOK, NoSession
<1>4. CallsOK'
    BY DEF LogInv, CallsOK, server, RequestOK
<1>5. LogOK' /\ TxOK'
    BY <1>4, ServerUntouched
<1>6. SessionOwnsInFlight'
    BY <1>1, <1>2 DEF LogInv, SessionOwnsInFlight, NoSession
<1>7. GateOK' /\ ReadersOK'
    BY DEF LogInv, GateOK, ReadersOK, server, NoSession
<1> QED
    BY <1>3, <1>4, <1>5, <1>6, <1>7 DEF LogInv

LEMMA FlushStep ==
    ASSUME LogInv, NEW c \in Clients, Flush(c)
    PROVE  LogInv'
BY EnqueueStep DEF Flush

LEMMA ReconcileStep ==
    ASSUME LogInv, NEW c \in Clients, Reconcile(c)
    PROVE  LogInv'
<1>1. outbox' = [outbox EXCEPT ![c] = Enqueued(@, typed[c], confirmed[c].rev)]
    BY DEF Reconcile, LogInv, ClientsOK
<1> QED
    BY <1>1, EnqueueStep DEF Reconcile

\* Only what the screen shows changes.
LEMMA RebuildStep ==
    ASSUME LogInv, NEW c \in Clients, Rebuild(c)
    PROVE  LogInv'
<1>1. UNCHANGED <<server, typed, outbox, session, confirmed, call, used, faults>>
    BY DEF Rebuild
<1>2. ClientsOK' /\ CallsOK'
    BY <1>1 DEF LogInv, ClientsOK, CallsOK, server, RequestOK, NoSession
<1>3. LogOK' /\ TxOK'
    BY <1>1, <1>2, ServerUntouched
<1>4. GateOK' /\ SessionOwnsInFlight' /\ ReadersOK'
    BY <1>1 DEF LogInv, GateOK, SessionOwnsInFlight, ReadersOK, server, NoSession
<1> QED
    BY <1>2, <1>3, <1>4 DEF LogInv

\* Opening a session sends a set of outbox rows and marks exactly them.
LEMMA OpenSessionStep ==
    ASSUME LogInv, NEW c \in Clients, call[c] = Idle,
           NEW ops, ops \in SUBSET outbox[c],
           WithStatus(outbox[c], "in_flight") \subseteq ops,
           OpenSession(c, ops),
           UNCHANGED <<server, typed, confirmed, used, faults>>
    PROVE  LogInv'
<1> DEFINE sent == {[r EXCEPT !.status = "in_flight"] : r \in ops}
           box == (outbox[c] \ ops) \cup sent
           request == [from |-> c, known |-> confirmed[c].rev, ops |-> sent]
<1>1. /\ outbox' = [outbox EXCEPT ![c] = box]
      /\ session' = [session EXCEPT ![c] = [known |-> confirmed[c].rev, ids |-> Ids(ops)]]
      /\ call' = [call EXCEPT ![c] = [phase |-> "syncing", request |-> request]]
    BY DEF OpenSession, Send, LogInv, ClientsOK
<1>2. IsFiniteSet(outbox[c]) /\ \A r \in outbox[c] : OutboxRowOK(r)
    BY DEF LogInv, ClientsOK
<1>3. \A r \in sent : OutboxRowOK(r) /\ r.status = "in_flight"
    BY <1>2 DEF OutboxRowOK, RowFields
<1>4. Ids(sent) = Ids(ops)
    <2>1. \A r \in ops : [r EXCEPT !.status = "in_flight"].id = r.id
        BY <1>2 DEF OutboxRowOK, RowFields
    <2>2. \A r \in ops : \E q \in sent : q.id = r.id
        BY <2>1
    <2>3. \A q \in sent : \E r \in ops : q.id = r.id
        BY <2>1
    <2> HIDE DEF sent
    <2> QED
        BY <2>2, <2>3 DEF Ids
<1>5. IsFiniteSet(box)
    <2>1. IsFiniteSet(ops) /\ IsFiniteSet(outbox[c] \ ops)
        BY <1>2, FS_Subset
    <2> DEFINE f == [r \in ops |-> [r EXCEPT !.status = "in_flight"]]
    <2>2. f \in Surjection(ops, sent)
        BY DEF Surjection
    <2>3. IsFiniteSet(sent)
        BY <2>1, <2>2, FS_Surjection
    <2> QED
        BY <2>1, <2>3, FS_Union
<1>6. WithStatus(box, "in_flight") = sent
    BY <1>3 DEF WithStatus
<1>7. \A r \in box : OutboxRowOK(r)
    BY <1>2, <1>3
<1>8. Ids(ops) \subseteq OpIds
    BY <1>2 DEF Ids, OutboxRowOK
<1>9. RequestOK(request)
    BY <1>3 DEF RequestOK, OutboxRowOK
<1> HIDE DEF sent, box
<1>10. ClientsOK'
    BY <1>1, <1>5, <1>7, <1>8 DEF LogInv, ClientsOK, NoSession
<1>11. CallsOK'
    BY <1>1, <1>9 DEF LogInv, ClientsOK, CallsOK, server, SyncPhases, PollPhases
<1>12. LogOK' /\ TxOK'
    BY <1>1, <1>11, ServerUntouched DEF LogInv, ClientsOK, Idle
<1>13. SessionOwnsInFlight'
    BY <1>1, <1>4, <1>6 DEF LogInv, ClientsOK, SessionOwnsInFlight, NoSession
<1>14. GateOK'
    BY <1>1, <1>4 DEF LogInv, ClientsOK, GateOK, NoSession, SyncPhases, PollPhases
<1>15. ReadersOK'
    BY <1>1 DEF LogInv, ClientsOK, ReadersOK, server
<1> QED
    BY <1>10, <1>11, <1>12, <1>13, <1>14, <1>15 DEF LogInv

LEMMA StartSyncStep ==
    ASSUME LogInv, NEW c \in Clients, StartSync(c)
    PROVE  LogInv'
<1>1. WithStatus(outbox[c], "in_flight") = {}
    BY DEF StartSync, LogInv, SessionOwnsInFlight, Ids
<1>2. WithStatus(outbox[c], "pending") \in SUBSET outbox[c]
    BY DEF WithStatus
<1> QED
    BY <1>1, <1>2, OpenSessionStep DEF StartSync

\* A retry only repeats the request: the in-flight rows are the session's.
LEMMA ResumeStep ==
    ASSUME LogInv, NEW c \in Clients, Resume(c)
    PROVE  LogInv'
<1> DEFINE ops == WithStatus(outbox[c], "in_flight")
           request == [from |-> c, known |-> session[c].known, ops |-> ops]
<1>1. Ids(ops) = session[c].ids /\ session[c] # NoSession
    BY DEF Resume, LogInv, SessionOwnsInFlight
<1>2. /\ call' = [call EXCEPT ![c] = [phase |-> "syncing", request |-> request]]
      /\ call[c] = Idle
      /\ UNCHANGED <<server, typed, outbox, session, confirmed, used, faults>>
    BY <1>1 DEF Resume, Send
<1>3. RequestOK(request)
    BY DEF RequestOK, LogInv, ClientsOK, OutboxRowOK, WithStatus
<1>4. request.ops = ops /\ request.from = c
    OBVIOUS
<1> HIDE DEF ops, request
<1>5. ClientsOK'
    BY <1>2 DEF LogInv, ClientsOK, NoSession
<1>6. CallsOK'
    BY <1>2, <1>3, <1>4 DEF LogInv, ClientsOK, CallsOK, server, SyncPhases, PollPhases
<1>7. LogOK' /\ TxOK'
    BY <1>2, <1>6, ServerUntouched DEF LogInv, ClientsOK, Idle
<1>8. SessionOwnsInFlight'
    BY <1>2 DEF LogInv, SessionOwnsInFlight, NoSession
<1>9. GateOK'
    BY <1>1, <1>2, <1>4 DEF LogInv, ClientsOK, GateOK, NoSession, SyncPhases, PollPhases
<1>10. ReadersOK'
    BY <1>2 DEF LogInv, ClientsOK, ReadersOK, server
<1> QED
    BY <1>5, <1>6, <1>7, <1>8, <1>9, <1>10 DEF LogInv

\* A response or a poll is persisted: the outbox becomes what the rebase left
\* of its pending rows, the snapshot becomes the received one, and no session
\* remains.
LEMMA PersistStep ==
    ASSUME LogInv, NEW c \in Clients, call[c].phase \in {"answered", "polled"},
           NEW remote,
           outbox' = [outbox EXCEPT ![c] =
                Rebased(WithStatus(outbox[c], "pending"), c, remote, call[c].reply.rev)],
           confirmed' = [confirmed EXCEPT ![c] =
                [rev |-> call[c].reply.rev, doc |-> call[c].reply.doc]],
           DOMAIN session' = Clients, session'[c] = NoSession,
           \A d \in Clients \ {c} : session'[d] = session[d],
           call' = [call EXCEPT ![c] = Idle],
           UNCHANGED <<server, typed, used, faults>>
    PROVE  LogInv'
<1> DEFINE pending == WithStatus(outbox[c], "pending")
           rev == call[c].reply.rev
           box == Rebased(pending, c, remote, rev)
<1>1. IsFiniteSet(pending) /\ \A r \in pending : OutboxRowOK(r)
    <2>1. pending \in SUBSET outbox[c]
        BY DEF WithStatus
    <2> QED
        BY <2>1, FS_Subset DEF LogInv, ClientsOK
<1>2. rev \in Nat /\ rev <= note.rev
    BY DEF LogInv, CallsOK, ReadersOK
<1>3. IsFiniteSet(box) /\ \A r \in box : OutboxRowOK(r) /\ r.status = "pending"
    BY <1>1, <1>2, RebasedRows
<1>4. WithStatus(box, "in_flight") = {}
    BY <1>3 DEF WithStatus
<1>5. outbox' = [outbox EXCEPT ![c] = box]
    OBVIOUS
<1>6. confirmed' = [confirmed EXCEPT ![c] = [rev |-> rev, doc |-> call[c].reply.doc]]
    OBVIOUS
<1> HIDE DEF box, rev
<1>7. ClientsOK'
    <2>1. \A d \in Clients : IsFiniteSet(outbox'[d]) /\ \A r \in outbox'[d] : OutboxRowOK(r)
        BY <1>3, <1>5 DEF LogInv, ClientsOK
    <2>2. \A d \in Clients : confirmed'[d].rev \in Nat
        <3>1. confirmed'[c].rev = rev
            BY <1>6 DEF LogInv, ClientsOK
        <3>2. \A d \in Clients \ {c} : confirmed'[d] = confirmed[d]
            BY <1>6 DEF LogInv, ClientsOK
        <3> QED
            BY <1>2, <3>1, <3>2 DEF LogInv, ClientsOK
    <2> QED
        BY <1>5, <1>6, <2>1, <2>2 DEF LogInv, ClientsOK, NoSession
<1>8. CallsOK'
    BY DEF LogInv, ClientsOK, CallsOK, server, Idle, SyncPhases, PollPhases
<1>9. LogOK' /\ TxOK'
    BY <1>8, ServerUntouched DEF LogInv, ClientsOK
<1>10. SessionOwnsInFlight'
    <2>1. outbox'[c] = box /\ \A d \in Clients \ {c} : outbox'[d] = outbox[d]
        BY <1>5 DEF LogInv, ClientsOK
    <2>2. Ids(WithStatus(outbox'[c], "in_flight")) = {}
        BY <1>4, <2>1 DEF Ids
    <2>3. \A d \in Clients \ {c} : Ids(WithStatus(outbox'[d], "in_flight")) =
                IF session'[d] = NoSession THEN {} ELSE session'[d].ids
        BY <2>1 DEF LogInv, SessionOwnsInFlight
    <2> QED
        BY <2>2, <2>3 DEF SessionOwnsInFlight, NoSession
<1>11. GateOK'
    BY DEF LogInv, ClientsOK, GateOK, NoSession, Idle, SyncPhases, PollPhases
<1>12. ReadersOK'
    BY <1>2, <1>6 DEF LogInv, ClientsOK, ReadersOK, Idle, server
<1> QED
    BY <1>7, <1>8, <1>9, <1>10, <1>11, <1>12 DEF LogInv

\* A call ends without a change to the durable state.
LEMMA CallEndsStep ==
    ASSUME LogInv, NEW c \in Clients, call[c].phase # "serving",
           call' = [call EXCEPT ![c] = Idle],
           UNCHANGED <<server, typed, outbox, session, confirmed, used, faults>>
    PROVE  LogInv'
<1>1. ClientsOK'
    BY DEF LogInv, ClientsOK, NoSession
<1>2. CallsOK'
    BY DEF LogInv, ClientsOK, CallsOK, server, Idle, SyncPhases, PollPhases
<1>3. LogOK' /\ TxOK'
    BY <1>2, ServerUntouched DEF LogInv, ClientsOK
<1>4. SessionOwnsInFlight'
    BY DEF LogInv, SessionOwnsInFlight, NoSession
<1>5. GateOK'
    BY DEF LogInv, ClientsOK, GateOK, NoSession, Idle, SyncPhases, PollPhases
<1>6. ReadersOK'
    BY DEF LogInv, ClientsOK, ReadersOK, Idle, server
<1> QED
    BY <1>1, <1>2, <1>3, <1>4, <1>5, <1>6 DEF LogInv

LEMMA ProcessResponseStep ==
    ASSUME LogInv, NEW c \in Clients, ProcessResponse(c)
    PROVE  LogInv'
<1>1. CASE Ids(call[c].reply.accepted) = Ids(call[c].request.ops)
    BY <1>1, PersistStep DEF ProcessResponse, LogInv, ClientsOK
<1>2. CASE Ids(call[c].reply.accepted) # Ids(call[c].request.ops)
    BY <1>2, CallEndsStep DEF ProcessResponse
<1> QED
    BY <1>1, <1>2

LEMMA ProcessErrorStep ==
    ASSUME LogInv, NEW c \in Clients, ProcessError(c)
    PROVE  LogInv'
BY CallEndsStep DEF ProcessError

LEMMA StartPollStep ==
    ASSUME LogInv, NEW c \in Clients, StartPoll(c)
    PROVE  LogInv'
<1> USE DEF StartPoll
<1>1. ClientsOK'
    BY DEF LogInv, ClientsOK, NoSession
<1>2. CallsOK'
    BY DEF LogInv, ClientsOK, CallsOK, server, SyncPhases, PollPhases
<1>3. LogOK' /\ TxOK'
    BY <1>2, ServerUntouched DEF LogInv, ClientsOK, Idle
<1>4. SessionOwnsInFlight'
    BY DEF LogInv, SessionOwnsInFlight, NoSession
<1>5. GateOK'
    BY DEF LogInv, ClientsOK, GateOK, NoSession, SyncPhases, PollPhases
<1>6. ReadersOK'
    BY DEF LogInv, ClientsOK, ReadersOK, server
<1> QED
    BY <1>1, <1>2, <1>3, <1>4, <1>5, <1>6 DEF LogInv

LEMMA ProcessPollStep ==
    ASSUME LogInv, NEW c \in Clients, ProcessPoll(c)
    PROVE  LogInv'
<1>1. session[c] = NoSession /\ session' = session /\ DOMAIN session = Clients
    BY DEF ProcessPoll, LogInv, ClientsOK, GateOK, PollPhases
<1>3. CASE call[c].reply.remote # {} /\ call[c].reply.rev >= confirmed[c].rev
    BY <1>1, <1>3, PersistStep DEF ProcessPoll, LogInv, ClientsOK
<1>4. CASE ~(call[c].reply.remote # {} /\ call[c].reply.rev >= confirmed[c].rev)
    BY <1>4, CallEndsStep DEF ProcessPoll
<1> QED
    BY <1>3, <1>4

\* The transaction starts from the note with nothing added.
LEMMA BeginWithStep ==
    ASSUME LogInv, NEW request, RequestOK(request), NEW live \in BOOLEAN,
           BeginWith(request, live), UNCHANGED <<note, rows>>,
           live => call'[request.from].phase = "serving"
    PROVE  LogOK' /\ TxOK'
<1>1. LogOK'
    BY DEF LogInv, LogOK
<1>2. /\ DOMAIN tx' = TxFields
      /\ tx'.from = request.from /\ tx'.live = live /\ tx'.todo = request.ops
      /\ tx'.accepted = {} /\ tx'.rev = note.rev /\ tx'.added = {}
    BY DEF BeginWith, TxFields
<1>3. Visible' = rows
    BY <1>2 DEF Visible
<1>4. (note.rev + 1)..note.rev = {} /\ note.rev \in Nat
    BY DEF LogInv, LogOK
<1>5. TxOK'
    BY <1>2, <1>3, <1>4 DEF LogInv, LogOK, TxOK, RequestOK, Ids
<1> QED
    BY <1>1, <1>5

LEMMA BeginSyncStep ==
    ASSUME LogInv, NEW c \in Clients, BeginSync(c)
    PROVE  LogInv'
<1>1. /\ call[c].phase = "syncing" /\ RequestOK(call[c].request)
      /\ DOMAIN call[c] = {"phase", "request"} /\ DOMAIN call = Clients
    BY DEF BeginSync, LogInv, ClientsOK, CallsOK, SyncPhases
<1>2. /\ DOMAIN call' = Clients
      /\ call'[c].phase = "serving" /\ call'[c].request = call[c].request
      /\ \A d \in Clients \ {c} : call'[d] = call[d]
    BY <1>1 DEF BeginSync
<1>3. ClientsOK'
    BY <1>2 DEF BeginSync, LogInv, ClientsOK, NoSession
<1>4. CallsOK'
    BY <1>1, <1>2 DEF BeginSync, LogInv, CallsOK, SyncPhases, PollPhases, RequestOK
<1>5. GateOK'
    BY <1>1, <1>2 DEF BeginSync, LogInv, GateOK, SyncPhases, PollPhases, NoSession
<1>6. SessionOwnsInFlight'
    BY DEF BeginSync, LogInv, SessionOwnsInFlight, NoSession
<1>7. ReadersOK'
    BY <1>2 DEF BeginSync, LogInv, ReadersOK
<1>8. call[c].request.from = c
    BY <1>1 DEF LogInv, CallsOK, SyncPhases
<1>9. LogOK' /\ TxOK'
    BY <1>1, <1>2, <1>8, BeginWithStep DEF BeginSync
<1> QED
    BY <1>3, <1>4, <1>5, <1>6, <1>7, <1>9 DEF LogInv

\* What the clients hold does not depend on the server's tables, as long as
\* these grow and the calls stay.
LEMMA ClientsUntouched ==
    ASSUME LogInv, UNCHANGED <<client, used, faults>>,
           \A q \in late' : RequestOK(q),
           note'.rev \in Nat, note.rev <= note'.rev, rows \subseteq rows'
    PROVE  ClientsOK' /\ CallsOK' /\ GateOK' /\ SessionOwnsInFlight' /\ ReadersOK'
<1>1. ClientsOK'
    BY DEF LogInv, ClientsOK, client, NoSession
<1>2. CallsOK'
    BY DEF LogInv, CallsOK, client, RequestOK
<1>3. GateOK' /\ SessionOwnsInFlight'
    BY DEF LogInv, GateOK, SessionOwnsInFlight, client, NoSession
<1>4. ReadersOK'
    <2>1. /\ note.rev \in Nat
          /\ \A c \in Clients : /\ confirmed[c].rev \in Nat
                                /\ call[c].phase \in {"answered", "polled"} =>
                                        call[c].reply.rev \in Nat
        BY DEF LogInv, ClientsOK, CallsOK, LogOK
    <2>2. UNCHANGED <<confirmed, call>> /\ Ids(rows) \subseteq Ids(rows')
        BY DEF client, Ids
    <2>3. ReadersOK
        BY DEF LogInv
    <2> SUFFICES ASSUME NEW c \in Clients
                 PROVE  /\ confirmed[c].rev <= note'.rev
                        /\ call[c].phase \in {"answered", "polled"} =>
                                call[c].reply.rev <= note'.rev
                        /\ call[c].phase = "answered" =>
                            /\ confirmed[c].rev <= call[c].reply.rev
                            /\ Ids(call[c].reply.accepted) \subseteq Ids(rows')
        BY <2>2 DEF ReadersOK
    <2>4. /\ confirmed[c].rev <= note.rev
          /\ call[c].phase \in {"answered", "polled"} => call[c].reply.rev <= note.rev
          /\ call[c].phase = "answered" =>
                /\ confirmed[c].rev <= call[c].reply.rev
                /\ Ids(call[c].reply.accepted) \subseteq Ids(rows)
        BY <2>3 DEF ReadersOK
    <2>5. confirmed[c].rev <= note'.rev
        BY <2>1, <2>4
    <2>6. call[c].phase \in {"answered", "polled"} => call[c].reply.rev <= note'.rev
        BY <2>1, <2>4
    <2> QED
        BY <2>2, <2>4, <2>5, <2>6
<1> QED
    BY <1>1, <1>2, <1>3, <1>4

LEMMA BeginLateStep ==
    ASSUME LogInv, BeginLate
    PROVE  LogInv'
<1>1. PICK request \in late : /\ tx = NoTx
                              /\ BeginWith(request, FALSE)
                              /\ late' = late \ {request}
                              /\ UNCHANGED <<note, rows, client, used, faults>>
    BY DEF BeginLate
<1>2. RequestOK(request)
    BY DEF LogInv, CallsOK
<1>3. LogOK' /\ TxOK'
    BY <1>1, <1>2, BeginWithStep
<1>4. ClientsOK' /\ CallsOK' /\ GateOK' /\ SessionOwnsInFlight' /\ ReadersOK'
    <2>1. \A q \in late' : RequestOK(q)
        BY <1>1 DEF LogInv, CallsOK
    <2>2. note'.rev \in Nat /\ note.rev <= note'.rev /\ rows \subseteq rows'
        BY <1>1 DEF LogInv, LogOK
    <2>3. UNCHANGED <<client, used, faults>>
        BY <1>1
    <2> QED
        BY <2>1, <2>2, <2>3, ClientsUntouched
<1> QED
    BY <1>3, <1>4 DEF LogInv

LEMMA NextOpIsQueued ==
    ASSUME LogInv, Serving
    PROVE  NextOp \in tx.todo
<1>1. tx.todo # {} /\ \A op \in tx.todo : op.ord \in Nat
    BY DEF Serving, LogInv, TxOK, OutboxRowOK
<1>2. \E op \in tx.todo : \A q \in tx.todo : op.ord <= q.ord
    BY <1>1, FirstRow
<1> QED
    BY <1>2 DEF NextOp

LEMMA ServeReplayStep ==
    ASSUME LogInv, ServeReplay
    PROVE  LogInv'
<1> DEFINE ack == [id |-> NextOp.id, rev |-> LogRow(NextOp).rev]
<1>1. TxOK /\ tx # NoTx /\ DOMAIN tx = TxFields
    BY DEF ServeReplay, Serving, LogInv, TxOK
<1>2. /\ tx' = [tx EXCEPT !.todo = @ \ {NextOp}, !.accepted = @ \cup {ack}]
      /\ UNCHANGED <<note, rows, late, client, used, faults>>
    BY DEF ServeReplay
<1>3. NextOp.id \in Ids(Visible)
    BY DEF ServeReplay, Known, Ids
<1>4. ack.id = NextOp.id
    OBVIOUS
<1> HIDE DEF ack
<1>5. /\ DOMAIN tx' = TxFields /\ tx'.from = tx.from /\ tx'.live = tx.live
      /\ tx'.rev = tx.rev /\ tx'.added = tx.added
      /\ tx'.todo = tx.todo \ {NextOp} /\ tx'.accepted = tx.accepted \cup {ack}
    BY <1>1, <1>2 DEF TxFields
<1>6. Visible' = Visible
    BY <1>2, <1>5 DEF Visible
<1>7. LogOK'
    BY <1>2 DEF LogInv, LogOK
<1>8. TxOK'
    <2>1. Ids(tx'.accepted) \subseteq Ids(Visible)
        BY <1>1, <1>3, <1>4, <1>5 DEF TxOK, Ids
    <2> QED
        BY <1>1, <1>2, <1>5, <1>6, <2>1 DEF TxOK, client
<1>9. ClientsOK' /\ CallsOK' /\ GateOK' /\ SessionOwnsInFlight' /\ ReadersOK'
    BY <1>2, ClientsUntouched DEF LogInv, CallsOK, LogOK
<1> QED
    BY <1>7, <1>8, <1>9 DEF LogInv

\* The new row gets the next revision and a fresh identifier.
LEMMA ServeOperationStep ==
    ASSUME LogInv, ServeOperation
    PROVE  LogInv'
<1> DEFINE op == NextOp
           row == [id |-> op.id, actor |-> tx.from, rev |-> tx.rev + 1,
                   base |-> op.base, kind |-> op.kind, block |-> op.block,
                   delta |-> TransformedDelta, after |-> op.after,
                   form |-> Stored(tx.from)]
           ack == [id |-> op.id, rev |-> tx.rev + 1]
           doc == ServerApply(tx.doc, [op EXCEPT !.delta = TransformedDelta])
<1>1. TxOK /\ LogOK /\ tx # NoTx /\ DOMAIN tx = TxFields
    BY DEF ServeOperation, Serving, LogInv, TxOK
<1>2. /\ tx' = [tx EXCEPT !.todo = @ \ {op}, !.accepted = @ \cup {ack}, !.rev = @ + 1,
                          !.doc = doc, !.added = @ \cup {row}]
      /\ UNCHANGED <<note, rows, late, client, used, faults>>
    BY <1>1 DEF ServeOperation, NewRow, TxFields
<1>3. op \in tx.todo /\ op.id \in OpIds
    BY <1>1, NextOpIsQueued DEF ServeOperation, TxOK, OutboxRowOK
<1>4. \A r \in Visible : r.id # op.id
    BY DEF ServeOperation, Known
<1>5. row.id = op.id /\ row.rev = tx.rev + 1 /\ row.actor = tx.from /\ ack.id = op.id
    OBVIOUS
<1> HIDE DEF row, ack, doc, op
<1>6. /\ DOMAIN tx' = TxFields /\ tx'.from = tx.from /\ tx'.live = tx.live
      /\ tx'.rev = tx.rev + 1 /\ tx'.added = tx.added \cup {row}
      /\ tx'.todo = tx.todo \ {op} /\ tx'.accepted = tx.accepted \cup {ack}
    BY <1>1, <1>2 DEF TxFields
<1>7. Visible' = Visible \cup {row}
    BY <1>2, <1>6 DEF Visible
<1>8. LogOK'
    BY <1>2 DEF LogInv, LogOK
<1>9. tx.rev \in Nat /\ note.rev \in Nat /\ note.rev <= tx.rev
    BY <1>1 DEF TxOK, LogOK
<1>10. \A r \in Visible : r.rev <= tx.rev /\ r.rev \in Nat
    <2>1. \A r \in rows : r.rev \in 1..note.rev
        BY <1>1 DEF LogOK
    <2>2. \A r \in tx.added : r.rev \in (note.rev + 1)..tx.rev
        BY <1>1 DEF TxOK
    <2> QED
        BY <2>1, <2>2, <1>9 DEF Visible
<1>11. TxOK'
    <2>1. \A r, s \in Visible' : r.id = s.id \/ r.rev = s.rev => r = s
        BY <1>1, <1>4, <1>5, <1>7, <1>9, <1>10 DEF TxOK
    <2>2. {r.rev : r \in tx'.added} = (note'.rev + 1)..tx'.rev
        <3>1. {r.rev : r \in tx'.added} = {r.rev : r \in tx.added} \cup {tx.rev + 1}
            BY <1>5, <1>6
        <3>2. {r.rev : r \in tx.added} = (note.rev + 1)..tx.rev
            BY <1>1 DEF TxOK
        <3> QED
            BY <1>2, <1>6, <1>9, <3>1, <3>2
    <2>3. Ids(tx'.accepted) \subseteq Ids(Visible')
        BY <1>1, <1>5, <1>6, <1>7 DEF TxOK, Ids
    <2>4. \A r \in tx'.added : r.rev \in Nat /\ r.id \in OpIds /\ r.actor \in Clients
        BY <1>1, <1>3, <1>5, <1>6, <1>9 DEF TxOK
    <2>5. \A o \in tx'.todo : OutboxRowOK(o)
        BY <1>1, <1>6 DEF TxOK
    <2>6. tx'.live => call'[tx'.from].phase = "serving"
        BY <1>1, <1>2, <1>6 DEF TxOK, client
    <2>7. tx'.from \in Clients /\ tx'.rev \in Nat /\ note'.rev <= tx'.rev
        BY <1>1, <1>2, <1>6, <1>9 DEF TxOK
    <2> QED
        BY <1>6, <2>1, <2>2, <2>3, <2>4, <2>5, <2>6, <2>7 DEF TxOK
<1>12. ClientsOK' /\ CallsOK' /\ GateOK' /\ SessionOwnsInFlight' /\ ReadersOK'
    BY <1>2, <1>9, ClientsUntouched DEF LogInv, CallsOK, LogOK
<1> QED
    BY <1>8, <1>11, <1>12 DEF LogInv

\* The transaction ends, with or without a caller to tell.
LEMMA AnswerEffect ==
    ASSUME LogInv, tx # NoTx, NEW phase, NEW reply, Answer(phase, reply)
    PROVE  /\ tx.from \in Clients /\ DOMAIN call' = Clients
           /\ \A d \in Clients \ {tx.from} : call'[d] = call[d]
           /\ call'[tx.from] = call[tx.from] \/
                /\ call[tx.from].phase = "serving"
                /\ call'[tx.from].phase = phase
                /\ call'[tx.from].reply = reply
                /\ call'[tx.from].request = call[tx.from].request
<1>1. /\ tx.from \in Clients /\ DOMAIN call = Clients
      /\ tx.live => call[tx.from].phase = "serving"
    BY DEF LogInv, TxOK, ClientsOK
<1>2. CASE tx.live
    <2> DEFINE answer == [phase |-> phase, reply |-> reply, request |-> call[tx.from].request]
    <2>1. call' = [call EXCEPT ![tx.from] = answer]
        BY <1>2 DEF Answer
    <2>2. answer.phase = phase /\ answer.reply = reply /\ answer.request = call[tx.from].request
        OBVIOUS
    <2> HIDE DEF answer
    <2>3. /\ call'[tx.from] = answer /\ DOMAIN call' = Clients
          /\ \A d \in Clients \ {tx.from} : call'[d] = call[d]
        BY <1>1, <2>1
    <2> QED
        BY <1>1, <1>2, <2>2, <2>3
<1>3. CASE ~tx.live
    <2>1. call' = call
        BY <1>3 DEF Answer
    <2> QED
        BY <1>1, <2>1
<1> QED
    BY <1>2, <1>3

LEMMA RollbackStep ==
    ASSUME LogInv, tx # NoTx, NEW status, Rollback(status)
    PROVE  LogInv'
<1> DEFINE c == tx.from
<1>1. /\ c \in Clients /\ DOMAIN call' = Clients
      /\ \A d \in Clients \ {c} : call'[d] = call[d]
      /\ call'[c] = call[c] \/
            /\ call[c].phase = "serving"
            /\ call'[c].phase = "failed" /\ call'[c].request = call[c].request
    <2>1. Answer("failed", [status |-> status])
        BY DEF Rollback
    <2> QED
        BY <2>1, AnswerEffect
<1>2. UNCHANGED <<note, rows, late, typed, outbox, session, confirmed, used, faults>> /\ tx' = NoTx
    BY DEF Rollback
<1> HIDE DEF c
<1>3. ClientsOK'
    BY <1>1, <1>2 DEF LogInv, ClientsOK, NoSession
<1>4. CallsOK'
    BY <1>1, <1>2 DEF LogInv, CallsOK, SyncPhases, PollPhases
<1>5. LogOK' /\ TxOK'
    BY <1>2 DEF LogInv, LogOK, TxOK, NoTx
<1>6. GateOK'
    <2>1. \A d \in Clients :
            /\ call'[d].phase \in PollPhases => call[d].phase \in PollPhases
            /\ call'[d].phase \in SyncPhases => call[d].phase \in SyncPhases
            /\ call'[d].request = call[d].request
        BY <1>1 DEF SyncPhases, PollPhases
    <2> QED
        BY <1>2, <2>1 DEF LogInv, GateOK
<1>8. SessionOwnsInFlight'
    BY <1>2 DEF LogInv, SessionOwnsInFlight
<1>7. ReadersOK'
    BY <1>1, <1>2 DEF LogInv, ReadersOK
<1> QED
    BY <1>3, <1>4, <1>5, <1>6, <1>7, <1>8 DEF LogInv

\* A commit appends the transaction's rows, which carry on where the log ends.
LEMMA CommitStep ==
    ASSUME LogInv, Commit
    PROVE  LogInv'
<1> DEFINE c == tx.from
           remote == {r \in Visible : r.rev > tx.known /\ r.id \notin Ids(tx.accepted)}
           reply == [accepted |-> tx.accepted, rev |-> tx.rev, doc |-> tx.doc,
                     remote |-> remote]
<1>1. TxOK /\ LogOK /\ tx # NoTx
    BY DEF Commit, LogInv
<1>2. /\ rows' = rows \cup tx.added /\ tx' = NoTx /\ note'.rev = tx.rev
      /\ UNCHANGED <<late, typed, outbox, session, confirmed, used, faults>>
      /\ Answer("answered", reply)
    BY DEF Commit, Visible
<1>3. reply.rev = tx.rev /\ reply.accepted = tx.accepted
    OBVIOUS
<1> HIDE DEF reply
<1>4. /\ c \in Clients /\ DOMAIN call' = Clients
      /\ \A d \in Clients \ {c} : call'[d] = call[d]
      /\ call'[c] = call[c] \/
            /\ call[c].phase = "serving"
            /\ call'[c].phase = "answered" /\ call'[c].request = call[c].request
            /\ call'[c].reply = reply
    BY <1>1, <1>2, AnswerEffect
<1>5. /\ tx.rev \in Nat /\ note.rev \in Nat /\ note.rev <= tx.rev
      /\ Ids(tx.accepted) \subseteq Ids(rows')
    BY <1>1, <1>2 DEF TxOK, LogOK, Visible
<1> HIDE DEF c
<1>6. ClientsOK'
    BY <1>2, <1>4 DEF LogInv, ClientsOK, NoSession
<1>7. CallsOK'
    <2>1. CallsOK
        BY DEF LogInv
    <2>2. \A q \in late' : RequestOK(q)
        BY <1>2, <2>1 DEF CallsOK
    <2>3. ASSUME NEW d \in Clients
          PROVE  /\ call'[d].phase \in {"idle"} \cup SyncPhases \cup PollPhases
                 /\ call'[d].phase = "syncing" => DOMAIN call'[d] = {"phase", "request"}
                 /\ call'[d].phase \in SyncPhases =>
                        RequestOK(call'[d].request) /\ call'[d].request.from = d
                 /\ call'[d].phase \in {"answered", "polled"} => call'[d].reply.rev \in Nat
        <3>1. CASE call'[d] = call[d]
            BY <2>1, <3>1 DEF CallsOK
        <3>2. CASE call'[d] # call[d]
            <4>1. /\ d = c /\ call[d].phase = "serving" /\ call'[d].phase = "answered"
                  /\ call'[d].request = call[d].request /\ call'[d].reply = reply
                BY <1>4, <3>2
            <4> QED
                BY <1>3, <1>5, <2>1, <4>1 DEF CallsOK, SyncPhases
        <3> QED
            BY <3>1, <3>2
    <2> QED
        BY <2>2, <2>3 DEF CallsOK
<1>8. LogOK'
    <2>1. {r.rev : r \in rows'} = 1..tx.rev
        <3>1. {r.rev : r \in rows'} = {r.rev : r \in rows} \cup {r.rev : r \in tx.added}
            BY <1>2
        <3>2. {r.rev : r \in rows} = 1..note.rev /\ {r.rev : r \in tx.added} = (note.rev + 1)..tx.rev
            BY <1>1 DEF LogOK, TxOK
        <3> QED
            BY <1>5, <3>1, <3>2
    <2>2. \A r, s \in rows' : r.id = s.id \/ r.rev = s.rev => r = s
        BY <1>1, <1>2 DEF TxOK, Visible
    <2>3. \A r \in rows' : r.rev \in Nat /\ r.id \in OpIds /\ r.actor \in Clients
        BY <1>1, <1>2 DEF TxOK, LogOK
    <2> QED
        BY <1>2, <1>5, <2>1, <2>2, <2>3 DEF LogOK
<1>9. TxOK'
    BY <1>2 DEF TxOK
<1>10. GateOK' /\ SessionOwnsInFlight'
    BY <1>2, <1>4 DEF LogInv, GateOK, SessionOwnsInFlight, SyncPhases, PollPhases, NoSession
<1>11. ReadersOK'
    <2>1. Ids(rows) \subseteq Ids(rows')
        BY <1>2 DEF Ids
    <2> SUFFICES ASSUME NEW d \in Clients
                 PROVE  /\ confirmed[d].rev <= tx.rev
                        /\ call'[d].phase \in {"answered", "polled"} =>
                                call'[d].reply.rev <= tx.rev
                        /\ call'[d].phase = "answered" =>
                            /\ confirmed[d].rev <= call'[d].reply.rev
                            /\ Ids(call'[d].reply.accepted) \subseteq Ids(rows')
        BY <1>2 DEF ReadersOK
    <2>2. /\ confirmed[d].rev \in Nat /\ confirmed[d].rev <= note.rev
          /\ call[d].phase \in {"answered", "polled"} =>
                call[d].reply.rev \in Nat /\ call[d].reply.rev <= note.rev
          /\ call[d].phase = "answered" =>
                /\ confirmed[d].rev <= call[d].reply.rev
                /\ Ids(call[d].reply.accepted) \subseteq Ids(rows)
        BY DEF LogInv, ClientsOK, CallsOK, ReadersOK
    <2>3. CASE call'[d] = call[d]
        BY <1>5, <2>1, <2>2, <2>3
    <2>4. CASE call'[d] # call[d]
        <3>1. call'[d].phase = "answered" /\ call'[d].reply = reply
            BY <1>4, <2>4
        <3> QED
            BY <1>3, <1>5, <2>2, <3>1
    <2> QED
        BY <2>3, <2>4
<1> QED
    BY <1>6, <1>7, <1>8, <1>9, <1>10, <1>11 DEF LogInv

LEMMA ServePollStep ==
    ASSUME LogInv, NEW c \in Clients, ServePoll(c)
    PROVE  LogInv'
<1>1. /\ call[c].phase = "polling" /\ DOMAIN call' = Clients
      /\ call'[c].phase = "polled" /\ call'[c].reply.rev = note.rev
      /\ \A d \in Clients \ {c} : call'[d] = call[d]
      /\ UNCHANGED <<server, typed, outbox, session, confirmed, used, faults>>
    BY DEF ServePoll, LogInv, ClientsOK
<1>2. ClientsOK'
    BY <1>1 DEF LogInv, ClientsOK, NoSession
<1>3. CallsOK'
    BY <1>1 DEF LogInv, CallsOK, LogOK, server, SyncPhases, PollPhases
<1>4. LogOK' /\ TxOK'
    BY <1>1, <1>3, ServerUntouched
<1>5. GateOK' /\ SessionOwnsInFlight'
    BY <1>1 DEF LogInv, GateOK, SessionOwnsInFlight, SyncPhases, PollPhases, NoSession
<1>6. ReadersOK'
    BY <1>1 DEF LogInv, ReadersOK, LogOK, server
<1> QED
    BY <1>2, <1>3, <1>4, <1>5, <1>6 DEF LogInv

\* A call is given up; whatever of it still runs has no caller any more.
LEMMA OrphanedStep ==
    ASSUME LogInv, NEW c \in Clients, Orphaned(c),
           DOMAIN typed' = Clients,
           \A d \in Clients : typed'[d] = typed[d] \/ typed'[d] = <<>>,
           faults' \in 0..MaxFaults,
           UNCHANGED <<note, rows, outbox, session, confirmed, used>>
    PROVE  LogInv'
<1>1. /\ DOMAIN call' = Clients /\ call'[c] = Idle
      /\ \A d \in Clients \ {c} : call'[d] = call[d]
    BY DEF Orphaned, LogInv, ClientsOK
<1>2. ClientsOK'
    <2>1. <<>> \in Seq(ToSet(<<>>)) /\ DOMAIN <<>> = {}
        OBVIOUS
    <2> QED
        BY <1>1, <2>1 DEF LogInv, ClientsOK, NoSession
<1>3. \A q \in late' : RequestOK(q)
    BY DEF Orphaned, LogInv, CallsOK, SyncPhases
<1>4. CallsOK'
    BY <1>1, <1>3 DEF LogInv, CallsOK, Idle, SyncPhases, PollPhases
<1>5. LogOK'
    BY DEF LogInv, LogOK
<1>6. TxOK'
    <2>1. CASE tx = NoTx
        <3>1. call[c].phase # "serving" \/ tx' = NoTx
            BY <2>1 DEF Orphaned, NoTx
        <3> QED
            BY <2>1, <3>1 DEF Orphaned, TxOK
    <2>2. CASE tx # NoTx /\ call[c].phase = "serving"
        <3>1. tx' = [tx EXCEPT !.live = FALSE] /\ DOMAIN tx = TxFields
            BY <2>2 DEF Orphaned, LogInv, TxOK
        <3>2. /\ DOMAIN tx' = TxFields /\ tx'.live = FALSE
              /\ tx'.from = tx.from /\ tx'.rev = tx.rev /\ tx'.todo = tx.todo
              /\ tx'.added = tx.added /\ tx'.accepted = tx.accepted
            BY <3>1 DEF TxFields
        <3>3. Visible' = Visible
            BY <3>2 DEF Visible
        <3> QED
            BY <2>2, <3>2, <3>3 DEF LogInv, TxOK
    <2>3. CASE tx # NoTx /\ call[c].phase # "serving"
        <3>1. tx' = tx
            BY <2>3 DEF Orphaned
        <3>2. tx.live => call'[tx.from].phase = "serving"
            BY <1>1, <2>3 DEF LogInv, TxOK
        <3>3. Visible' = Visible
            BY <3>1 DEF Visible
        <3> QED
            BY <2>3, <3>1, <3>2, <3>3 DEF LogInv, TxOK
    <2> QED
        BY <2>1, <2>2, <2>3
<1>7. GateOK' /\ SessionOwnsInFlight'
    BY <1>1 DEF LogInv, GateOK, SessionOwnsInFlight, Idle, SyncPhases, PollPhases, NoSession
<1>8. ReadersOK'
    <2>1. ReadersOK /\ Idle.phase = "idle"
        BY DEF LogInv, Idle
    <2> QED
        BY <1>1, <2>1 DEF ReadersOK
<1> QED
    BY <1>2, <1>4, <1>5, <1>6, <1>7, <1>8 DEF LogInv

LEMMA FaultStep ==
    ASSUME LogInv, Fault
    PROVE  LogInv'
<1>1. CASE Lose
    <2>1. PICK request \in late : late' = late \ {request}
                                  /\ UNCHANGED <<note, rows, tx, client, used, faults>>
        BY <1>1 DEF Lose
    <2>2. ClientsOK' /\ CallsOK' /\ GateOK' /\ SessionOwnsInFlight' /\ ReadersOK'
        <3>1. \A q \in late' : RequestOK(q)
            BY <2>1 DEF LogInv, CallsOK
        <3>2. note'.rev \in Nat /\ note.rev <= note'.rev /\ rows \subseteq rows'
            BY <2>1 DEF LogInv, LogOK
        <3>3. UNCHANGED <<client, used, faults>>
            BY <2>1
        <3> QED
            BY <3>1, <3>2, <3>3, ClientsUntouched
    <2>3. LogOK' /\ TxOK'
        BY <2>1 DEF LogInv, LogOK, TxOK, Visible, client
    <2> QED
        BY <2>2, <2>3 DEF LogInv
<1>2. ASSUME NEW c \in Clients, Abandon(c)
      PROVE  LogInv'
    <2>1. Orphaned(c) /\ faults' \in 0..MaxFaults
          /\ UNCHANGED <<note, rows, typed, outbox, session, confirmed, used>>
        BY <1>2 DEF Abandon, LogInv, ClientsOK
    <2>2. DOMAIN typed' = Clients /\ \A d \in Clients : typed'[d] = typed[d] \/ typed'[d] = <<>>
        BY <2>1 DEF LogInv, ClientsOK
    <2> QED
        BY <2>1, <2>2, OrphanedStep
<1>3. ASSUME NEW c \in Clients, Crash(c)
      PROVE  LogInv'
    <2>1. Orphaned(c) /\ faults' \in 0..MaxFaults
          /\ UNCHANGED <<note, rows, outbox, session, confirmed, used>>
        BY <1>3 DEF Crash, LogInv, ClientsOK
    <2>2. DOMAIN typed' = Clients /\ \A d \in Clients : typed'[d] = typed[d] \/ typed'[d] = <<>>
        BY <1>3 DEF Crash, LogInv, ClientsOK
    <2> QED
        BY <2>1, <2>2, OrphanedStep
<1> QED
    BY <1>1, <1>2, <1>3 DEF Fault

LEMMA NextStep ==
    ASSUME LogInv, Next
    PROVE  LogInv'
<1>1. ASSUME NEW c \in Clients, ClientStep(c)
      PROVE  LogInv'
    BY <1>1, TypeStep, FlushStep, ReconcileStep, RebuildStep, StartSyncStep, ResumeStep,
       ProcessResponseStep, ProcessErrorStep, StartPollStep, ProcessPollStep DEF ClientStep
<1>2. CASE ServerStep
    <2>1. CASE ServeConflict
        BY <2>1, RollbackStep DEF ServeConflict, Serving
    <2>2. CASE ServeInvalid
        BY <2>2, RollbackStep DEF ServeInvalid, Serving
    <2>3. CASE ServeNotCanonical
        BY <2>3, RollbackStep DEF ServeNotCanonical
    <2> QED
        BY <1>2, <2>1, <2>2, <2>3, BeginLateStep, ServeReplayStep, ServeOperationStep,
           CommitStep, BeginSyncStep, ServePollStep DEF ServerStep
<1> QED
    BY <1>1, <1>2, FaultStep DEF Next

LEMMA StutterStep ==
    ASSUME LogInv, UNCHANGED vars
    PROVE  LogInv'
<1>1. UNCHANGED <<client, used, faults>> /\ UNCHANGED server
    BY DEF vars
<1>2. ClientsOK' /\ CallsOK' /\ GateOK' /\ SessionOwnsInFlight' /\ ReadersOK'
    BY <1>1, ClientsUntouched DEF LogInv, CallsOK, LogOK, server
<1>3. LogOK' /\ TxOK'
    BY <1>1 DEF LogInv, LogOK, TxOK, server, client, Visible
<1> QED
    BY <1>2, <1>3 DEF LogInv

LEMMA LogInvHolds == Spec => []LogInv
<1>1. LogInv /\ [Next]_vars => LogInv'
    BY NextStep, StutterStep
<1> QED
    BY InitInv, <1>1, PTL DEF Spec

-------------------------------------------------------------------------------
(* The numbering of the queues.                                            *)

\* Rows whose places are 0..n-1, each taken once, are n rows.
LEMMA PlacesCount ==
    ASSUME NEW S, NEW n \in Nat, \A p, q \in S : p.ord = q.ord => p = q,
           {r.ord : r \in S} = 0..(n - 1)
    PROVE  IsFiniteSet(S) /\ Cardinality(S) = n
<1> DEFINE f == [r \in S |-> r.ord]
<1>1. f \in Injection(S, 0..(n - 1)) /\ f \in Surjection(S, 0..(n - 1))
    BY DEF Injection, Surjection, IsInjective
<1>2. IsFiniteSet(0..(n - 1)) /\ Cardinality(0..(n - 1)) = n
    BY FS_Interval
<1> HIDE DEF f
<1> QED
    BY <1>1, <1>2, FS_Injection

\* The base of a row counts on from the revision.
ChainFrom(S, revision) ==
    /\ {r.ord : r \in S} = 0..(Cardinality(S) - 1)
    /\ \A r \in S : r.base = revision + r.ord

\* A batch that is put behind a chain continues it.
LEMMA EnqueuedChain ==
    ASSUME NEW S, IsFiniteSet(S), \A r \in S : OutboxRowOK(r), DistinctOps(S),
           NEW revision \in Nat, ChainFrom(S, revision),
           NEW ops, ops \in Seq(ToSet(ops)), \A i \in DOMAIN ops : ops[i].id \in OpIds,
           \A i, j \in DOMAIN ops : ops[i].id = ops[j].id => i = j,
           \A i \in DOMAIN ops : ops[i].id \notin Ids(S)
    PROVE  LET box == Enqueued(S, ops, revision) IN
           /\ ChainFrom(box, revision) /\ DistinctOps(box)
           /\ WithStatus(box, "in_flight") = WithStatus(S, "in_flight")
           /\ Ids(WithStatus(box, "pending")) =
                Ids(WithStatus(S, "pending")) \cup {ops[i].id : i \in DOMAIN ops}
<1> DEFINE n == Cardinality(S)
           k == Len(ops)
           last == CHOOSE r \in S : \A q \in S : q.ord <= r.ord
           ord0 == IF S = {} THEN 0 ELSE last.ord + 1
           base0 == IF S = {} THEN revision ELSE last.base + 1
           row(i) == OutboxRow(ops[i], ord0 + i - 1, base0 + i - 1)
           new == {row(i) : i \in DOMAIN ops}
           box == Enqueued(S, ops, revision)
<1>1. box = S \cup new
    BY DEF Enqueued
<1>2. n \in Nat /\ k \in Nat /\ DOMAIN ops = 1..k
    BY FS_CardinalityType
<1>3. ord0 = n /\ base0 = revision + n
    <2>1. CASE S = {}
        BY <2>1, FS_EmptySet
    <2>2. CASE S # {}
        <3>1. \E r \in S : \A q \in S : q.ord <= r.ord
            BY <2>2, LastRow DEF OutboxRowOK
        <3>2. last \in S /\ \A q \in S : q.ord <= last.ord
            BY <3>1
        <3>3. n # 0
            BY <2>2, FS_EmptySet
        <3>4. n - 1 \in {r.ord : r \in S}
            <4>1. {r.ord : r \in S} = 0..(n - 1)
                BY DEF ChainFrom
            <4>2. n - 1 \in 0..(n - 1)
                BY <1>2, <3>3
            <4> QED
                BY <4>1, <4>2
        <3>5. PICK r \in S : r.ord = n - 1
            BY <3>4
        <3>6. last.ord \in 0..(n - 1)
            BY <3>2 DEF ChainFrom
        <3> HIDE DEF last, n
        <3>7. last.ord = n - 1
            BY <1>2, <3>2, <3>3, <3>5, <3>6
        <3>8. last.base = revision + last.ord
            BY <3>2 DEF ChainFrom
        <3> QED
            BY <1>2, <2>2, <3>7, <3>8
    <2> QED
        BY <2>1, <2>2
<1>4. \A i \in 1..k : /\ row(i).id = ops[i].id /\ row(i).status = "pending"
                      /\ row(i).ord = n + i - 1 /\ row(i).base = revision + (n + i - 1)
    <2> HIDE DEF ord0, base0
    <2>1. ASSUME NEW i \in 1..k
          PROVE  /\ row(i).id = ops[i].id /\ row(i).status = "pending"
                 /\ row(i).ord = ord0 + i - 1 /\ row(i).base = base0 + i - 1
        BY DEF OutboxRow
    <2> QED
        BY <1>2, <1>3, <2>1
<1> HIDE DEF row, ord0, base0
<1>5. \A r \in S : r.ord \in 0..(n - 1) /\ r.base = revision + r.ord
    BY DEF ChainFrom
<1>6. {r.ord : r \in box} = 0..((n + k) - 1)
    <2>1. ASSUME NEW m \in 0..((n + k) - 1)
          PROVE  \E r \in box : r.ord = m
        <3>1. CASE m \in 0..(n - 1)
            BY <1>1, <3>1 DEF ChainFrom
        <3>2. CASE m \notin 0..(n - 1)
            <4> DEFINE i == m - n + 1
            <4>1. i \in 1..k /\ m = n + i - 1
                BY <1>2, <3>2
            <4> HIDE DEF i
            <4>2. row(i) \in box /\ row(i).ord = m
                BY <1>1, <1>2, <1>4, <4>1
            <4> QED
                BY <4>2
        <3> QED
            BY <3>1, <3>2
    <2>2. ASSUME NEW r \in box
          PROVE  r.ord \in 0..((n + k) - 1)
        <3>1. CASE r \in S
            BY <1>2, <1>5, <3>1
        <3>2. CASE r \in new
            BY <1>2, <1>4, <3>2
        <3> QED
            BY <1>1, <3>1, <3>2
    <2> QED
        BY <2>1, <2>2
<1>7. \A r \in box : r.base = revision + r.ord
    BY <1>1, <1>2, <1>4, <1>5
<1>8. DistinctOps(box)
    <2> SUFFICES ASSUME NEW p \in box, NEW q \in box, p.ord = q.ord \/ p.id = q.id
                 PROVE  p = q
        BY DEF DistinctOps
    <2>1. CASE p \in S /\ q \in S
        BY <2>1 DEF DistinctOps
    <2>2. ASSUME NEW r \in S, NEW i \in 1..k
          PROVE  r.ord # row(i).ord /\ r.id # row(i).id
        <3>1. r.ord # row(i).ord
            BY <1>2, <1>4, <1>5
        <3>2. r.id # row(i).id
            BY <1>2, <1>4 DEF Ids
        <3> QED
            BY <3>1, <3>2
    <2>3. ASSUME NEW i \in 1..k, NEW j \in 1..k, row(i).ord = row(j).ord \/ row(i).id = row(j).id
          PROVE  i = j
        <3>1. CASE row(i).ord = row(j).ord
            BY <1>2, <1>4, <3>1
        <3>2. CASE row(i).id = row(j).id
            <4>1. ops[i].id = ops[j].id
                BY <1>4, <3>2
            <4> QED
                BY <1>2, <4>1
        <3> QED
            BY <2>3, <3>1, <3>2
    <2>4. ASSUME NEW r \in new, NEW t \in new, r.ord = t.ord \/ r.id = t.id
          PROVE  r = t
        <3>1. PICK i \in 1..k : r = row(i)
            BY <1>2
        <3>2. PICK j \in 1..k : t = row(j)
            BY <1>2
        <3> QED
            BY <2>3, <2>4, <3>1, <3>2
    <2>5. ASSUME NEW r \in S, NEW t \in new
          PROVE  r.ord # t.ord /\ r.id # t.id
        BY <1>2, <2>2
    <2>6. p \in S \/ p \in new
        BY <1>1
    <2>7. q \in S \/ q \in new
        BY <1>1
    <2> HIDE DEF new, box
    <2> QED
        BY <2>1, <2>4, <2>5, <2>6, <2>7
<1>9. Cardinality(box) = n + k
    <2>1. PICK m \in Nat : m = n + k
        BY <1>2
    <2>2. {r.ord : r \in box} = 0..(m - 1)
        BY <1>6, <2>1
    <2>3. \A p, q \in box : p.ord = q.ord => p = q
        BY <1>8 DEF DistinctOps
    <2> HIDE DEF n, k, box
    <2>4. Cardinality(box) = m
        BY <2>2, <2>3, PlacesCount
    <2> QED
        BY <2>1, <2>4
<1>10. ChainFrom(box, revision)
    BY <1>6, <1>7, <1>9 DEF ChainFrom
<1>11. /\ WithStatus(box, "in_flight") = WithStatus(S, "in_flight")
       /\ WithStatus(box, "pending") = WithStatus(S, "pending") \cup new
    BY <1>1, <1>2, <1>4 DEF WithStatus
<1>12. Ids(new) = {ops[i].id : i \in DOMAIN ops}
    <2>1. (\A r \in new : \E i \in 1..k : r = row(i)) /\ \A i \in 1..k : row(i) \in new
        BY <1>2
    <2>2. DOMAIN ops = 1..k /\ \A i \in 1..k : row(i).id = ops[i].id
        BY <1>2, <1>4
    <2> HIDE DEF new, k
    <2> QED
        BY <2>1, <2>2 DEF Ids
<1> QED
    BY <1>8, <1>10, <1>11, <1>12 DEF Ids

\* A rebase numbers what it leaves from 0 on, above the new revision.
LEMMA RebasedChain ==
    ASSUME NEW S, IsFiniteSet(S), \A r \in S : OutboxRowOK(r), DistinctOps(S),
           NEW actor, NEW remote, NEW revision \in Nat
    PROVE  LET box == Rebased(S, actor, remote, revision) IN
           ChainFrom(box, revision) /\ DistinctOps(box)
<1> DEFINE now  == Rebase(InOrder(S), actor, remote)
           kept == {r \in S : now[r.id] # Dropped}
           rank(r) == Cardinality({q \in kept : q.ord < r.ord})
           row(r) == [r EXCEPT !.delta = now[r.id].delta, !.after = now[r.id].after,
                               !.ord = rank(r), !.base = revision + rank(r),
                               !.status = "pending"]
           box == Rebased(S, actor, remote, revision)
           n == Cardinality(kept)
<1>1. box = {row(r) : r \in kept}
    BY DEF Rebased, Renumbered
<1>2. kept \in SUBSET S /\ IsFiniteSet(kept)
    BY FS_Subset
<1> HIDE DEF kept, now
<1>3. \A r \in kept : OutboxRowOK(r) /\ r.ord \in Nat
    BY <1>2 DEF OutboxRowOK
<1>4. /\ \A r, q \in kept : rank(r) = rank(q) => r = q
      /\ {rank(r) : r \in kept} = 0..(n - 1)
    <2>1. \A r, q \in kept : r.ord = q.ord => r = q
        BY <1>2 DEF DistinctOps
    <2> QED
        BY <1>2, <1>3, <2>1, RanksAreDense DEF Below
<1>5. n \in Nat
    BY <1>2, FS_CardinalityType
<1> HIDE DEF rank
<1>6. \A r \in kept : row(r).ord = rank(r) /\ row(r).base = revision + rank(r) /\ row(r).id = r.id
    <2> TAKE r \in kept
    <2>1. DOMAIN r = RowFields
        BY <1>3 DEF OutboxRowOK
    <2> QED
        BY <2>1 DEF RowFields
<1> HIDE DEF row
<1>7. {q.ord : q \in box} = 0..(n - 1)
    <2>1. {q.ord : q \in box} = {rank(r) : r \in kept}
        BY <1>1, <1>6
    <2> QED
        BY <1>4, <2>1
<1>8. DistinctOps(box)
    <2> SUFFICES ASSUME NEW r \in kept, NEW q \in kept,
                        row(r).ord = row(q).ord \/ row(r).id = row(q).id
                 PROVE  r = q
        BY <1>1 DEF DistinctOps
    <2> QED
        BY <1>2, <1>4, <1>6 DEF DistinctOps
<1>9. Cardinality(box) = n
    <2> HIDE DEF box, n
    <2> QED
        BY <1>5, <1>7, <1>8, PlacesCount DEF DistinctOps
<1> QED
    BY <1>1, <1>6, <1>7, <1>8, <1>9 DEF ChainFrom

-------------------------------------------------------------------------------
(* The queues and the server, step by step.                                *)

LEMMA InitQueues == Init => QueueInv
<1> SUFFICES ASSUME Init PROVE QueueInv
    OBVIOUS
<1>1. /\ \A c \in Clients : outbox[c] = {} /\ session[c] = NoSession /\ typed[c] = <<>>
                             /\ call[c].phase = "idle"
      /\ late = {} /\ rows = {} /\ tx = NoTx /\ used = {}
    BY DEF Init, Idle
<1>2. BaseChain
    <2> SUFFICES ASSUME NEW c \in Clients
                 PROVE  /\ {r.ord : r \in outbox[c]} = 0..(Cardinality(outbox[c]) - 1)
                        /\ \A r \in outbox[c] : r.base = confirmed[c].rev + r.ord
        BY DEF BaseChain
    <2>1. outbox[c] = {}
        BY <1>1
    <2>2. Cardinality(outbox[c]) = 0
        BY <2>1, FS_EmptySet
    <2>3. 0..(0 - 1) = {}
        OBVIOUS
    <2>4. {r.ord : r \in outbox[c]} = {}
        BY <2>1
    <2> QED
        BY <2>1, <2>2, <2>3, <2>4
<1>3. SessionsFollow
    BY <1>1 DEF SessionsFollow, SyncPhases
<1>4. Batches = {} /\ Sent = {}
    <2>1. Batches = {} /\ Ids(rows) = {} /\ InTx = {}
        BY <1>1 DEF Batches, InTx, Ids
    <2> QED
        BY <2>1 DEF Sent
<1>5. BatchesFollow
    BY <1>4 DEF BatchesFollow
<1>6. UnsentIsUnknown
    <2>1. ASSUME NEW c \in Clients
          PROVE  DistinctOps(outbox[c]) /\ InMemory(c) = {} /\ Ids(Pending(c)) = {}
        <3>1. outbox[c] = {} /\ typed[c] = <<>>
            BY <1>1
        <3>2. Pending(c) = {}
            BY <3>1 DEF Pending, WithStatus
        <3> QED
            BY <3>1, <3>2 DEF DistinctOps, InMemory, Ids
    <2>2. \A c \in Clients : Unsent(c) = {}
        BY <2>1 DEF Unsent
    <2>3. \A c \in Clients : DOMAIN typed[c] = {}
        BY <1>1
    <2> QED
        BY <1>1, <1>4, <2>1, <2>2, <2>3 DEF UnsentIsUnknown
<1>7. TxFollows
    BY <1>1 DEF TxFollows
<1> QED
    BY <1>2, <1>3, <1>5, <1>6, <1>7 DEF QueueInv

\* What is said of a chain in parts.
LEMMA ChainOfOutbox ==
    ASSUME QueueInv, NEW c \in Clients
    PROVE  ChainFrom(outbox[c], confirmed[c].rev)
BY DEF QueueInv, BaseChain, ChainFrom

\* The types of the rows of an outbox, and of those in flight or pending.
LEMMA OutboxRows ==
    ASSUME LogInv, QueueInv, NEW c \in Clients
    PROVE  /\ IsFiniteSet(outbox[c]) /\ \A r \in outbox[c] : OutboxRowOK(r)
           /\ DistinctOps(outbox[c])
           /\ confirmed[c].rev \in Nat /\ confirmed[c].rev <= note.rev
           /\ outbox[c] = InFlight(c) \cup Pending(c)
           /\ session[c] = NoSession => InFlight(c) = {} /\ outbox[c] = Pending(c)
           /\ Ids(InFlight(c)) \cap Ids(Pending(c)) = {}
           /\ IsFiniteSet(Pending(c)) /\ DistinctOps(Pending(c))
<1>1. /\ IsFiniteSet(outbox[c]) /\ \A r \in outbox[c] : OutboxRowOK(r)
      /\ confirmed[c].rev \in Nat /\ confirmed[c].rev <= note.rev
    BY DEF LogInv, ClientsOK, ReadersOK
<1>2. DistinctOps(outbox[c])
    BY DEF QueueInv, UnsentIsUnknown
<1>3. outbox[c] = InFlight(c) \cup Pending(c)
    BY <1>1 DEF OutboxRowOK, InFlight, Pending, WithStatus
<1>4. session[c] = NoSession => InFlight(c) = {}
    BY DEF LogInv, SessionOwnsInFlight, InFlight, Ids
<1>5. Ids(InFlight(c)) \cap Ids(Pending(c)) = {}
    <2> SUFFICES ASSUME NEW p \in InFlight(c), NEW q \in Pending(c), p.id = q.id PROVE FALSE
        BY DEF Ids
    <2>1. p = q
        BY <1>2 DEF DistinctOps, InFlight, Pending, WithStatus
    <2> QED
        BY <2>1 DEF InFlight, Pending, WithStatus
<1>6. Pending(c) \in SUBSET outbox[c]
    BY DEF Pending, WithStatus
<1>7. IsFiniteSet(Pending(c)) /\ DistinctOps(Pending(c))
    BY <1>1, <1>2, <1>6, FS_Subset DEF DistinctOps
<1> QED
    BY <1>1, <1>2, <1>3, <1>4, <1>5, <1>7

\* Whatever comes of the requests and of the transaction, as long as no new
\* identifier is sent, what is said of the outboxes and the memory stays.
LEMMA UnsentKept ==
    ASSUME QueueInv, UNCHANGED <<outbox, used>>,
           \A c \in Clients : typed'[c] = typed[c] \/ typed'[c] = <<>>,
           Sent' \subseteq Sent
    PROVE  UnsentIsUnknown'
<1> SUFFICES ASSUME NEW c \in Clients
             PROVE  /\ DistinctOps(outbox'[c])
                    /\ \A i, j \in DOMAIN typed'[c] : typed'[c][i].id = typed'[c][j].id => i = j
                    /\ InMemory(c)' \cap Ids(Pending(c)') = {}
                    /\ Unsent(c)' \subseteq used' /\ Unsent(c)' \cap Sent' = {}
                    /\ \A d \in Clients \ {c} : Unsent(c)' \cap Unsent(d)' = {}
    <2>1. Sent' \subseteq used'
        BY DEF QueueInv, UnsentIsUnknown
    <2> QED
        BY <2>1 DEF UnsentIsUnknown, Ids, DistinctOps
<1>1. \A d \in Clients : Pending(d)' = Pending(d) /\ InMemory(d)' \subseteq InMemory(d)
    BY DEF Pending, InMemory
<1>2. \A d \in Clients : Unsent(d)' \subseteq Unsent(d)
    BY <1>1 DEF Unsent, Ids
<1>3. /\ DistinctOps(outbox[c])
      /\ \A i, j \in DOMAIN typed[c] : typed[c][i].id = typed[c][j].id => i = j
      /\ InMemory(c) \cap Ids(Pending(c)) = {}
      /\ Unsent(c) \subseteq used /\ Unsent(c) \cap Sent = {}
      /\ \A d \in Clients \ {c} : Unsent(c) \cap Unsent(d) = {}
    BY DEF QueueInv, UnsentIsUnknown
<1>4. \A i, j \in DOMAIN typed'[c] : typed'[c][i].id = typed'[c][j].id => i = j
    <2>1. CASE typed'[c] = typed[c]
        BY <1>3, <2>1
    <2>2. CASE typed'[c] = <<>>
        <3>1. DOMAIN typed'[c] = {}
            BY <2>2
        <3> QED
            BY <3>1
    <2> QED
        BY <2>1, <2>2
<1> QED
    BY <1>1, <1>2, <1>3, <1>4

\* The batches of an invariant state: a session's is one, and what they hold
\* is sent.
LEMMA BatchFacts ==
    ASSUME QueueInv
    PROVE  /\ \A c \in Clients : session[c] # NoSession => SessionBatch(c) \in Batches
           /\ late \subseteq Batches
           /\ \A b \in Batches : BatchFollows(b) /\ Ids(b.ops) \subseteq Sent
           /\ Ids(rows) \subseteq Sent /\ InTx \subseteq Sent
<1>1. \A b \in Batches : BatchFollows(b)
    BY DEF QueueInv, BatchesFollow
<1>2. (\A c \in Clients : session[c] # NoSession => SessionBatch(c) \in Batches) /\ late \subseteq Batches
    BY DEF Batches
<1>3. (\A b \in Batches : Ids(b.ops) \subseteq Sent) /\ Ids(rows) \subseteq Sent /\ InTx \subseteq Sent
    <2> HIDE DEF Batches
    <2>1. Ids(rows) \subseteq Sent /\ InTx \subseteq Sent
        BY DEF Sent
    <2>2. ASSUME NEW b \in Batches
          PROVE  Ids(b.ops) \subseteq Sent
        <3>1. Ids(b.ops) \in {Ids(a.ops) : a \in Batches}
            OBVIOUS
        <3> QED
            BY <3>1 DEF Sent
    <2> QED
        BY <2>1, <2>2
<1> QED
    BY <1>1, <1>2, <1>3

\* Fewer batches, over the same log.
LEMMA BatchesKept ==
    ASSUME QueueInv, UNCHANGED <<note, rows>>, Batches' \subseteq Batches
    PROVE  BatchesFollow'
<1>1. BatchesFollow
    BY DEF QueueInv
<1>2. \A b \in Batches' : BatchFollows(b)'
    BY <1>1 DEF BatchesFollow, BatchFollows
<1>3. \A p, q \in Batches' : Ids(p.ops) \cap Ids(q.ops) # {} => p.ops = q.ops
    BY <1>1 DEF BatchesFollow
<1> QED
    BY <1>2, <1>3 DEF BatchesFollow, Ids

\* What is sent after a step: rows, batches and the transaction.
LEMMA SentInParts ==
    ASSUME QueueInv, Batches' \subseteq Batches, Ids(rows)' \subseteq Sent, InTx' \subseteq Sent
    PROVE  Sent' \subseteq Sent
<1> DEFINE IdsOf(b) == Ids(b.ops)
<1>1. Sent' = Ids(rows)' \cup (UNION {IdsOf(b) : b \in Batches'}) \cup InTx'
    BY DEF Sent, Ids
<1>2. UNION {IdsOf(b) : b \in Batches} \subseteq Sent
    BY DEF Sent
<1> HIDE DEF IdsOf
<1>3. UNION {IdsOf(b) : b \in Batches'} \subseteq UNION {IdsOf(b) : b \in Batches}
    OBVIOUS
<1> QED
    BY <1>1, <1>2, <1>3

\* A step that leaves the durable tables alone, forgets requests or keeps
\* those of open sessions, and sends no new identifier.
LEMMA QueuesUntouched ==
    ASSUME LogInv, QueueInv,
           UNCHANGED <<note, rows, outbox, session, confirmed, used>>,
           \A c \in Clients : typed'[c] = typed[c] \/ typed'[c] = <<>>,
           late' \subseteq Batches, InTx' \subseteq Sent, TxFollows',
           \A c \in Clients : call'[c].phase \in SyncPhases => call'[c].request = SessionBatch(c)
    PROVE  QueueInv'
<1>1. \A c \in Clients : SessionBatch(c)' = SessionBatch(c)
    BY DEF SessionBatch, InFlight, WithStatus
<1>2. Batches' \subseteq Batches
    BY <1>1 DEF Batches, NoSession
<1>3. Sent' \subseteq Sent
    <2>1. Ids(rows)' \subseteq Sent
        BY BatchFacts DEF Ids
    <2> QED
        BY <1>2, <2>1, SentInParts
<1>4. BaseChain'
    BY DEF QueueInv, BaseChain
<1>5. SessionsFollow'
    BY <1>1 DEF QueueInv, SessionsFollow, NoSession
<1>6. BatchesFollow'
    BY <1>2, BatchesKept
<1>7. UnsentIsUnknown'
    BY <1>3, UnsentKept
<1> QED
    BY <1>4, <1>5, <1>6, <1>7 DEF QueueInv

\* A new identifier is in one memory only.
LEMMA TypeQueues ==
    ASSUME LogInv, QueueInv, NEW c \in Clients, Type(c)
    PROVE  QueueInv'
<1>1. PICK id \in OpIds \ used : \E op \in LocalEdits(mirror[c].doc, id, Actions) :
        /\ typed' = [typed EXCEPT ![c] = Append(@, op)]
        /\ used' = used \cup {id}
        /\ UNCHANGED <<server, outbox, session, confirmed, call, result, faults>>
    BY DEF Type
<1>2. PICK op : /\ op.id = id
                /\ typed' = [typed EXCEPT ![c] = Append(@, op)]
                /\ used' = used \cup {id}
                /\ UNCHANGED <<server, outbox, session, confirmed, call, result, faults>>
    BY <1>1, EditHasItsId
<1>3. UNCHANGED <<note, rows, tx, late, outbox, session, confirmed, call>>
    BY <1>2 DEF server
<1>4. /\ typed'[c] = Append(typed[c], op)
      /\ \A d \in Clients \ {c} : typed'[d] = typed[d]
      /\ typed[c] \in Seq(ToSet(typed[c]))
    BY <1>2 DEF LogInv, ClientsOK
<1>5. BaseChain'
    BY <1>3 DEF QueueInv, BaseChain
<1>6. \A d \in Clients : SessionBatch(d)' = SessionBatch(d) /\ Pending(d)' = Pending(d)
    BY <1>3 DEF SessionBatch, InFlight, Pending
<1>7. SessionsFollow'
    BY <1>3, <1>6 DEF QueueInv, SessionsFollow, NoSession
<1>8. Batches' = Batches
    BY <1>3, <1>6 DEF Batches, NoSession
<1>9. BatchesFollow'
    BY <1>3, <1>8, BatchesKept
<1>10. TxFollows'
    BY <1>3 DEF QueueInv, TxFollows, Visible
<1>11. Sent' \subseteq Sent
    <2>1. Ids(rows)' \subseteq Sent /\ InTx' \subseteq Sent
        BY <1>3, BatchFacts DEF Ids, InTx
    <2> QED
        BY <1>8, <2>1, SentInParts
<1>12. UnsentIsUnknown'
    <2>1. /\ InMemory(c)' = InMemory(c) \cup {id}
          /\ \A i, j \in DOMAIN typed'[c] : typed'[c][i].id = typed'[c][j].id => i = j
        <3> DEFINE n == Len(typed[c])
                   t == typed'[c]
        <3>1. /\ n \in Nat /\ DOMAIN typed[c] = 1..n /\ DOMAIN t = 1..(n + 1)
              /\ t[n + 1] = op /\ \A i \in 1..n : t[i] = typed[c][i]
            BY <1>4
        <3>2. \A i \in 1..n : typed[c][i].id \in used
            BY <3>1 DEF QueueInv, UnsentIsUnknown, Unsent, InMemory
        <3>3. \A i, j \in 1..n : typed[c][i].id = typed[c][j].id => i = j
            BY <3>1 DEF QueueInv, UnsentIsUnknown
        <3>4. InMemory(c) = {typed[c][i].id : i \in 1..n}
            BY <3>1 DEF InMemory
        <3>5. InMemory(c)' = {t[i].id : i \in 1..(n + 1)}
            BY <3>1 DEF InMemory
        <3> HIDE DEF n, t
        <3>6. \A i \in 1..(n + 1) : i \in 1..n \/ i = n + 1
            BY <3>1
        <3>7. \A i \in 1..n : i \in 1..(n + 1)
            BY <3>1
        <3>8. n + 1 \in 1..(n + 1)
            BY <3>1
        <3>9. InMemory(c)' = InMemory(c) \cup {id}
            BY <1>2, <3>1, <3>4, <3>5, <3>6, <3>7, <3>8
        <3>10. \A i, j \in 1..(n + 1) : t[i].id = t[j].id => i = j
            BY <1>1, <1>2, <3>1, <3>2, <3>3, <3>6
        <3> QED
            BY <3>1, <3>9, <3>10 DEF t
    <2>2. \A d \in Clients \ {c} : InMemory(d)' = InMemory(d)
        BY <1>4 DEF InMemory
    <2>3. Unsent(c)' = Unsent(c) \cup {id} /\ \A d \in Clients \ {c} : Unsent(d)' = Unsent(d)
        BY <1>6, <2>1, <2>2 DEF Unsent, Ids
    <2>4. /\ Sent' \subseteq used
          /\ \A d \in Clients :
              /\ DistinctOps(outbox[d])
              /\ \A i, j \in DOMAIN typed[d] : typed[d][i].id = typed[d][j].id => i = j
              /\ InMemory(d) \cap Ids(Pending(d)) = {}
              /\ Unsent(d) \subseteq used /\ Unsent(d) \cap Sent' = {}
              /\ \A e \in Clients \ {d} : Unsent(d) \cap Unsent(e) = {}
        BY <1>11 DEF QueueInv, UnsentIsUnknown
    <2>5. \A d \in Clients : DistinctOps(outbox'[d])
        BY <1>3, <2>4
    <2>6. \A d \in Clients : \A i, j \in DOMAIN typed'[d] :
                typed'[d][i].id = typed'[d][j].id => i = j
        BY <1>4, <2>1, <2>4
    <2>7. \A d \in Clients : InMemory(d)' \cap Ids(Pending(d)') = {}
        BY <1>1, <1>6, <2>1, <2>2, <2>4 DEF Unsent
    <2>8. id \notin used /\ used' = used \cup {id}
        BY <1>1, <1>2
    <2>9. \A d \in Clients : Unsent(d)' \subseteq used' /\ Unsent(d)' \cap Sent' = {}
        BY <2>3, <2>4, <2>8
    <2>10. \A d \in Clients : \A e \in Clients \ {d} : Unsent(d)' \cap Unsent(e)' = {}
        BY <2>3, <2>4, <2>8
    <2>11. Sent' \subseteq used'
        BY <2>4, <2>8
    <2> QED
        BY <2>5, <2>6, <2>7, <2>9, <2>10, <2>11 DEF UnsentIsUnknown, Ids, DistinctOps
<1> QED
    BY <1>5, <1>7, <1>9, <1>10, <1>12 DEF QueueInv

\* What was in memory is pending, behind the chain.
LEMMA EnqueueQueues ==
    ASSUME LogInv, QueueInv, NEW c \in Clients,
           outbox' = [outbox EXCEPT ![c] = Enqueued(@, typed[c], confirmed[c].rev)],
           typed' = [typed EXCEPT ![c] = <<>>],
           UNCHANGED <<server, session, confirmed, call, used, faults>>
    PROVE  QueueInv'
<1> DEFINE box == Enqueued(outbox[c], typed[c], confirmed[c].rev)
<1>1. /\ ChainFrom(box, confirmed[c].rev) /\ DistinctOps(box)
      /\ WithStatus(box, "in_flight") = InFlight(c)
      /\ Ids(WithStatus(box, "pending")) = Unsent(c)
    <2>1. /\ typed[c] \in Seq(ToSet(typed[c]))
          /\ \A i \in DOMAIN typed[c] : typed[c][i].id \in OpIds
        BY DEF LogInv, ClientsOK
    <2>2. /\ \A i, j \in DOMAIN typed[c] : typed[c][i].id = typed[c][j].id => i = j
          /\ \A i \in DOMAIN typed[c] : typed[c][i].id \notin Ids(outbox[c])
        <3>1. /\ \A i, j \in DOMAIN typed[c] : typed[c][i].id = typed[c][j].id => i = j
              /\ InMemory(c) \cap Ids(Pending(c)) = {} /\ Unsent(c) \cap Sent = {}
            BY DEF QueueInv, UnsentIsUnknown
        <3>2. Ids(InFlight(c)) \subseteq Sent
            <4>1. CASE session[c] = NoSession
                BY <4>1, OutboxRows DEF Ids
            <4>2. CASE session[c] # NoSession
                <5>1. SessionBatch(c).ops = InFlight(c)
                    BY DEF SessionBatch
                <5> QED
                    BY <4>2, <5>1, BatchFacts
            <4> QED
                BY <4>1, <4>2
        <3>3. Ids(outbox[c]) = Ids(InFlight(c)) \cup Ids(Pending(c))
            BY OutboxRows DEF Ids
        <3>4. \A i \in DOMAIN typed[c] : typed[c][i].id \in InMemory(c)
            BY DEF InMemory
        <3> QED
            BY <3>1, <3>2, <3>3, <3>4 DEF Unsent
    <2>3. /\ IsFiniteSet(outbox[c]) /\ \A r \in outbox[c] : OutboxRowOK(r)
          /\ DistinctOps(outbox[c]) /\ confirmed[c].rev \in Nat
        BY OutboxRows
    <2>4. ChainFrom(outbox[c], confirmed[c].rev)
        BY ChainOfOutbox
    <2>5. PICK revision \in Nat : revision = confirmed[c].rev
        BY <2>3
    <2>6. LET b == Enqueued(outbox[c], typed[c], revision) IN
           /\ ChainFrom(b, revision) /\ DistinctOps(b)
           /\ WithStatus(b, "in_flight") = WithStatus(outbox[c], "in_flight")
           /\ Ids(WithStatus(b, "pending")) =
                Ids(WithStatus(outbox[c], "pending")) \cup {typed[c][i].id : i \in DOMAIN typed[c]}
        <3>1. ChainFrom(outbox[c], revision)
            BY <2>4, <2>5
        <3> QED
            BY <2>1, <2>2, <2>3, <3>1, EnqueuedChain
    <2> QED
        BY <2>5, <2>6 DEF InFlight, Pending, Unsent, InMemory
<1>2. /\ outbox'[c] = box /\ \A d \in Clients \ {c} : outbox'[d] = outbox[d]
      /\ typed'[c] = <<>> /\ \A d \in Clients \ {c} : typed'[d] = typed[d]
    BY DEF LogInv, ClientsOK
<1> HIDE DEF box
<1>3. UNCHANGED <<note, rows, tx, late>>
    BY DEF server
<1>4. BaseChain'
    BY <1>1, <1>2 DEF QueueInv, BaseChain, ChainFrom
<1>5. \A d \in Clients : InFlight(d)' = InFlight(d)
    BY <1>1, <1>2 DEF InFlight
<1>6. \A d \in Clients : SessionBatch(d)' = SessionBatch(d)
    BY <1>5 DEF SessionBatch
<1>7. SessionsFollow'
    BY <1>6 DEF QueueInv, SessionsFollow, NoSession
<1>8. Batches' = Batches
    BY <1>3, <1>6 DEF Batches, NoSession
<1>9. BatchesFollow'
    BY <1>3, <1>8, BatchesKept
<1>10. TxFollows'
    BY <1>3 DEF QueueInv, TxFollows, Visible
<1>11. Sent' \subseteq Sent
    <2>1. Ids(rows)' \subseteq Sent /\ InTx' \subseteq Sent
        BY <1>3, BatchFacts DEF Ids, InTx
    <2> QED
        BY <1>8, <2>1, SentInParts
<1>12. UnsentIsUnknown'
    <2>1. InMemory(c)' = {} /\ Ids(Pending(c)') = Unsent(c)
        BY <1>1, <1>2 DEF InMemory, Pending
    <2>2. \A d \in Clients \ {c} : InMemory(d)' = InMemory(d) /\ Pending(d)' = Pending(d)
        BY <1>2 DEF InMemory, Pending
    <2>3. \A d \in Clients : Unsent(d)' = Unsent(d)
        BY <2>1, <2>2 DEF Unsent, Ids
    <2>4. /\ Sent' \subseteq used
          /\ \A d \in Clients :
              /\ DistinctOps(outbox[d])
              /\ \A i, j \in DOMAIN typed[d] : typed[d][i].id = typed[d][j].id => i = j
              /\ InMemory(d) \cap Ids(Pending(d)) = {}
              /\ Unsent(d) \subseteq used /\ Unsent(d) \cap Sent' = {}
              /\ \A e \in Clients \ {d} : Unsent(d) \cap Unsent(e) = {}
        BY <1>11 DEF QueueInv, UnsentIsUnknown
    <2>5. \A d \in Clients : DistinctOps(outbox'[d])
        BY <1>1, <1>2, <2>4
    <2>6. \A d \in Clients : \A i, j \in DOMAIN typed'[d] :
                typed'[d][i].id = typed'[d][j].id => i = j
        <3>1. DOMAIN typed'[c] = {}
            BY <1>2
        <3> QED
            BY <1>2, <2>4, <3>1
    <2>7. \A d \in Clients : InMemory(d)' \cap Ids(Pending(d)') = {}
        BY <2>1, <2>2, <2>4
    <2>8. Sent' \subseteq used'
        BY <2>4
    <2> QED
        BY <2>3, <2>4, <2>5, <2>6, <2>7, <2>8 DEF UnsentIsUnknown, Ids, DistinctOps
<1> QED
    BY <1>4, <1>7, <1>9, <1>10, <1>12 DEF QueueInv

\* The whole outbox, pending so far, becomes the batch of a new session.
LEMMA StartSyncQueues ==
    ASSUME LogInv, QueueInv, NEW c \in Clients, StartSync(c)
    PROVE  QueueInv'
<1> DEFINE flight(r) == [r EXCEPT !.status = "in_flight"]
           sent == {flight(r) : r \in outbox[c]}
           batch == [from |-> c, known |-> confirmed[c].rev, ops |-> sent]
<1>1. /\ session[c] = NoSession /\ call[c] = Idle /\ outbox[c] = Pending(c)
      /\ IsFiniteSet(outbox[c]) /\ \A r \in outbox[c] : OutboxRowOK(r)
      /\ DistinctOps(outbox[c])
      /\ confirmed[c].rev \in Nat /\ confirmed[c].rev <= note.rev
    BY OutboxRows DEF StartSync
<1>2. /\ outbox' = [outbox EXCEPT ![c] = sent]
      /\ session' = [session EXCEPT ![c] = [known |-> confirmed[c].rev, ids |-> Ids(outbox[c])]]
      /\ call' = [call EXCEPT ![c] = [phase |-> "syncing", request |-> batch]]
      /\ UNCHANGED <<server, typed, confirmed, used>>
    <2>1. WithStatus(outbox[c], "pending") = outbox[c]
        BY <1>1 DEF Pending
    <2>2. (outbox[c] \ outbox[c]) \cup sent = sent
        OBVIOUS
    <2>3. OpenSession(c, outbox[c])
        BY <2>1 DEF StartSync
    <2>4. outbox' = [outbox EXCEPT ![c] = sent]
        BY <2>2, <2>3 DEF OpenSession, LogInv, ClientsOK
    <2> QED
        BY <2>3, <2>4 DEF OpenSession, Send, StartSync
<1>3. /\ outbox'[c] = sent /\ \A d \in Clients \ {c} : outbox'[d] = outbox[d]
      /\ session'[c] = [known |-> confirmed[c].rev, ids |-> Ids(outbox[c])]
      /\ \A d \in Clients \ {c} : session'[d] = session[d]
      /\ call'[c].phase = "syncing" /\ call'[c].request = batch
      /\ \A d \in Clients \ {c} : call'[d] = call[d]
    BY <1>2 DEF LogInv, ClientsOK
<1>4. session'[c] # NoSession /\ session'[c].known = confirmed[c].rev
    BY <1>3 DEF NoSession
<1>5. UNCHANGED <<note, rows, tx, late, typed, confirmed, used>>
    BY <1>2 DEF server
<1>6. \A r \in outbox[c] : /\ flight(r).id = r.id /\ flight(r).ord = r.ord
                          /\ flight(r).base = r.base /\ flight(r).status = "in_flight"
    BY <1>1 DEF OutboxRowOK, RowFields
<1> HIDE DEF flight
<1>7. /\ Ids(sent) = Ids(outbox[c]) /\ {r.ord : r \in sent} = {r.ord : r \in outbox[c]}
      /\ \A r \in sent : r.status = "in_flight"
    BY <1>6 DEF Ids
<1>8. DistinctOps(sent)
    BY <1>1, <1>6 DEF DistinctOps
<1>9. \A r \in sent : r.base = confirmed[c].rev + r.ord
    <2>1. \A r \in outbox[c] : r.base = confirmed[c].rev + r.ord
        BY DEF QueueInv, BaseChain
    <2> QED
        BY <1>6, <2>1
<1>10. IsFiniteSet(sent) /\ Cardinality(sent) = Cardinality(outbox[c])
    <2>1. PICK n \in Nat : n = Cardinality(outbox[c])
        BY <1>1, FS_CardinalityType
    <2>2. {r.ord : r \in sent} = 0..(n - 1)
        BY <1>7, <2>1 DEF QueueInv, BaseChain
    <2>3. \A p, q \in sent : p.ord = q.ord => p = q
        BY <1>8 DEF DistinctOps
    <2> HIDE DEF sent
    <2> QED
        BY <2>1, <2>2, <2>3, PlacesCount
<1>11. {r.ord : r \in sent} = 0..(Cardinality(sent) - 1)
    BY <1>7, <1>10 DEF QueueInv, BaseChain
<1>12. batch.ops = sent /\ batch.known = confirmed[c].rev /\ batch.from = c
    OBVIOUS
<1>13. InFlight(c)' = sent /\ Pending(c)' = {}
    BY <1>3, <1>7 DEF InFlight, Pending, WithStatus
<1>14. SessionBatch(c)' = batch
    BY <1>4, <1>13 DEF SessionBatch
<1>15. \A d \in Clients \ {c} : SessionBatch(d)' = SessionBatch(d) /\ Pending(d)' = Pending(d)
    BY <1>3 DEF SessionBatch, InFlight, Pending
<1> HIDE DEF sent, batch
<1>16. BaseChain'
    BY <1>3, <1>5, <1>9, <1>11 DEF QueueInv, BaseChain
<1>17. SessionsFollow'
    BY <1>3, <1>4, <1>5, <1>14, <1>15 DEF QueueInv, SessionsFollow, NoSession
<1>18. Batches' = Batches \cup {batch}
    <2>1. \A b : b \in Batches' <=> \/ b \in late'
                                     \/ \E d \in Clients : session'[d] # NoSession /\ b = SessionBatch(d)'
        BY DEF Batches, SessionBatch, InFlight, WithStatus, NoSession
    <2>2. \A b : b \in Batches <=> \/ b \in late
                                    \/ \E d \in Clients : session[d] # NoSession /\ b = SessionBatch(d)
        BY DEF Batches
    <2>3. \A d \in Clients \ {c} : session'[d] = session[d] /\ SessionBatch(d)' = SessionBatch(d)
        BY <1>3, <1>15
    <2>4. ASSUME NEW b
          PROVE  b \in Batches' <=> b \in Batches \/ b = batch
        <3>1. (\E d \in Clients : session'[d] # NoSession /\ b = SessionBatch(d)') <=>
                \/ b = batch
                \/ \E d \in Clients \ {c} : session'[d] # NoSession /\ b = SessionBatch(d)'
            BY <1>4, <1>14, Zenon
        <3>2. (\E d \in Clients : session[d] # NoSession /\ b = SessionBatch(d)) <=>
                \E d \in Clients \ {c} : session[d] # NoSession /\ b = SessionBatch(d)
            BY <1>1
        <3>3. (\E d \in Clients \ {c} : session'[d] # NoSession /\ b = SessionBatch(d)') <=>
                \E d \in Clients \ {c} : session[d] # NoSession /\ b = SessionBatch(d)
            BY <2>3
        <3> QED
            BY <1>5, <2>1, <2>2, <3>1, <3>2, <3>3
    <2> QED
        BY <2>4
<1>19. Ids(sent) \cap Sent = {}
    BY <1>1, <1>7 DEF QueueInv, UnsentIsUnknown, Unsent
<1>20. BatchesFollow'
    <2>1. \A r \in rows : r.id \notin Ids(sent)
        <3>1. \A r \in rows : r.id \in Sent
            BY BatchFacts DEF Ids
        <3> QED
            BY <1>19, <3>1
    <2>2. BatchFollows(batch)
        BY <1>1, <1>8, <1>9, <1>10, <1>11, <1>12, <2>1 DEF BatchFollows
    <2>3. \A b \in Batches : BatchFollows(b) /\ Ids(b.ops) \cap Ids(sent) = {}
        BY <1>19, BatchFacts
    <2>4. \A b \in Batches' : BatchFollows(b)
        BY <1>18, <2>2, <2>3
    <2>5. \A b : BatchFollows(b) => BatchFollows(b)'
        BY <1>5 DEF BatchFollows
    <2>6. \A p, q \in Batches' : Ids(p.ops) \cap Ids(q.ops) # {} => p.ops = q.ops
        BY <1>12, <1>18, <2>3 DEF QueueInv, BatchesFollow
    <2>7. \A b \in Batches' : BatchFollows(b)'
        BY <2>4, <2>5
    <2> QED
        BY <2>6, <2>7 DEF BatchesFollow, Ids
<1>21. TxFollows'
    BY <1>5 DEF QueueInv, TxFollows, Visible
<1>22. Sent' = Sent \cup Ids(sent)
    <2>1. Ids(rows)' = Ids(rows) /\ InTx' = InTx
        BY <1>5 DEF Ids, InTx
    <2> DEFINE IdsOf(b) == Ids(b.ops)
    <2>2. IdsOf(batch) = Ids(sent)
        BY <1>12
    <2>3. Sent = Ids(rows) \cup (UNION {IdsOf(b) : b \in Batches}) \cup InTx
        BY DEF Sent
    <2>4. Sent' = Ids(rows) \cup (UNION {IdsOf(b) : b \in Batches'}) \cup InTx
        BY <2>1 DEF Sent, Ids
    <2> HIDE DEF IdsOf
    <2>5. UNION {IdsOf(b) : b \in Batches'} = (UNION {IdsOf(b) : b \in Batches}) \cup Ids(sent)
        BY <1>18, <2>2
    <2> QED
        BY <2>3, <2>4, <2>5
<1>23. UnsentIsUnknown'
    <2>1. Ids(Pending(c)') = {}
        BY <1>13 DEF Ids
    <2>2. \A d \in Clients : InMemory(d)' = InMemory(d)
        BY <1>5 DEF InMemory
    <2>3. Unsent(c)' = InMemory(c)
        BY <2>1, <2>2 DEF Unsent, Ids
    <2>4. \A d \in Clients \ {c} : Unsent(d)' = Unsent(d)
        BY <1>15, <2>2 DEF Unsent, Ids
    <2>5. /\ Sent \subseteq used
          /\ \A d \in Clients :
              /\ DistinctOps(outbox[d])
              /\ \A i, j \in DOMAIN typed[d] : typed[d][i].id = typed[d][j].id => i = j
              /\ InMemory(d) \cap Ids(Pending(d)) = {}
              /\ Unsent(d) \subseteq used /\ Unsent(d) \cap Sent = {}
              /\ \A e \in Clients \ {d} : Unsent(d) \cap Unsent(e) = {}
        BY DEF QueueInv, UnsentIsUnknown
    <2>6. InMemory(c) \subseteq Unsent(c) /\ Ids(sent) \subseteq Unsent(c) /\ InMemory(c) \cap Ids(sent) = {}
        BY <1>1, <1>7, <2>5 DEF Unsent
    <2>7. Sent' \subseteq used'
        BY <1>5, <1>22, <2>5, <2>6
    <2>8. \A d \in Clients : DistinctOps(outbox'[d])
        BY <1>3, <1>8, <2>5
    <2>9. \A d \in Clients : \A i, j \in DOMAIN typed'[d] :
                typed'[d][i].id = typed'[d][j].id => i = j
        BY <1>5, <2>5
    <2>10. \A d \in Clients : InMemory(d)' \cap Ids(Pending(d)') = {}
        BY <1>15, <2>1, <2>2, <2>5
    <2>11. \A d \in Clients : Unsent(d)' \subseteq used' /\ Unsent(d)' \cap Sent' = {}
        BY <1>5, <1>22, <2>3, <2>4, <2>5, <2>6
    <2>12. \A d \in Clients : \A e \in Clients \ {d} : Unsent(d)' \cap Unsent(e)' = {}
        BY <2>3, <2>4, <2>5, <2>6
    <2> QED
        BY <2>7, <2>8, <2>9, <2>10, <2>11, <2>12 DEF UnsentIsUnknown, Ids, DistinctOps
<1> QED
    BY <1>16, <1>17, <1>20, <1>21, <1>23 DEF QueueInv

\* A reply is persisted: what is left is pending, numbered from the revision
\* of the reply, and the session's batch is gone.
LEMMA PersistQueues ==
    ASSUME LogInv, QueueInv, NEW c \in Clients, call[c].phase \in {"answered", "polled"},
           NEW remote,
           outbox' = [outbox EXCEPT ![c] =
                Rebased(WithStatus(outbox[c], "pending"), c, remote, call[c].reply.rev)],
           confirmed' = [confirmed EXCEPT ![c] =
                [rev |-> call[c].reply.rev, doc |-> call[c].reply.doc]],
           session'[c] = NoSession,
           \A d \in Clients \ {c} : session'[d] = session[d],
           call' = [call EXCEPT ![c] = Idle],
           UNCHANGED <<server, typed, used, faults>>
    PROVE  QueueInv'
<1> DEFINE rev == call[c].reply.rev
           box == Rebased(WithStatus(outbox[c], "pending"), c, remote, rev)
<1>1. rev \in Nat /\ rev <= note.rev
    BY DEF LogInv, CallsOK, ReadersOK
<1>2. /\ ChainFrom(box, rev) /\ DistinctOps(box)
      /\ \A r \in box : r.status = "pending"
      /\ Ids(box) \subseteq Ids(Pending(c))
    <2>1. IsFiniteSet(Pending(c)) /\ DistinctOps(Pending(c)) /\ \A r \in Pending(c) : OutboxRowOK(r)
        BY OutboxRows
    <2>2. box = Rebased(Pending(c), c, remote, rev)
        BY DEF Pending
    <2> HIDE DEF rev
    <2>3. ChainFrom(box, rev) /\ DistinctOps(box)
        BY <1>1, <2>1, <2>2, RebasedChain
    <2>4. (\A r \in box : r.status = "pending") /\ Ids(box) \subseteq Ids(Pending(c))
        BY <1>1, <2>1, <2>2, RebasedRows
    <2> QED
        BY <2>3, <2>4
<1>3. outbox' = [outbox EXCEPT ![c] = box]
    OBVIOUS
<1>4. confirmed' = [confirmed EXCEPT ![c] = [rev |-> rev, doc |-> call[c].reply.doc]]
    OBVIOUS
<1> HIDE DEF box, rev
<1>5. /\ outbox'[c] = box /\ \A d \in Clients \ {c} : outbox'[d] = outbox[d]
      /\ confirmed'[c].rev = rev /\ \A d \in Clients \ {c} : confirmed'[d] = confirmed[d]
      /\ call'[c].phase = "idle" /\ \A d \in Clients \ {c} : call'[d] = call[d]
    BY <1>3, <1>4 DEF LogInv, ClientsOK, Idle
<1>6. UNCHANGED <<note, rows, tx, late, typed, used>>
    BY DEF server
<1>7. \A d \in Clients \ {c} : SessionBatch(d)' = SessionBatch(d) /\ Pending(d)' = Pending(d)
    BY <1>5 DEF SessionBatch, InFlight, Pending
<1>8. BaseChain'
    BY <1>2, <1>5 DEF QueueInv, BaseChain, ChainFrom
<1>9. SessionsFollow'
    BY <1>5, <1>7 DEF QueueInv, SessionsFollow, NoSession, SyncPhases
<1>10. Batches' \subseteq Batches
    BY <1>6, <1>7 DEF Batches, NoSession
<1>11. BatchesFollow'
    BY <1>6, <1>10, BatchesKept
<1>12. TxFollows'
    BY <1>6 DEF QueueInv, TxFollows, Visible
<1>13. Sent' \subseteq Sent
    <2>1. Ids(rows)' \subseteq Sent /\ InTx' \subseteq Sent
        BY <1>6, BatchFacts DEF Ids, InTx
    <2> QED
        BY <1>10, <2>1, SentInParts
<1>14. UnsentIsUnknown'
    <2>1. Pending(c)' = box
        BY <1>2, <1>5 DEF Pending, WithStatus
    <2>2. \A d \in Clients : InMemory(d)' = InMemory(d)
        BY <1>6 DEF InMemory
    <2>3. \A d \in Clients : Ids(Pending(d)') \subseteq Ids(Pending(d))
        BY <1>2, <1>7, <2>1
    <2>4. \A d \in Clients : Unsent(d)' \subseteq Unsent(d)
        BY <2>2, <2>3 DEF Unsent, Ids
    <2>5. /\ Sent' \subseteq used
          /\ \A d \in Clients :
              /\ DistinctOps(outbox[d])
              /\ \A i, j \in DOMAIN typed[d] : typed[d][i].id = typed[d][j].id => i = j
              /\ InMemory(d) \cap Ids(Pending(d)) = {}
              /\ Unsent(d) \subseteq used /\ Unsent(d) \cap Sent' = {}
              /\ \A e \in Clients \ {d} : Unsent(d) \cap Unsent(e) = {}
        BY <1>13 DEF QueueInv, UnsentIsUnknown
    <2>6. \A d \in Clients : DistinctOps(outbox'[d])
        BY <1>2, <1>5, <2>5
    <2>7. \A d \in Clients : \A i, j \in DOMAIN typed'[d] :
                typed'[d][i].id = typed'[d][j].id => i = j
        BY <1>6, <2>5
    <2>8. \A d \in Clients : InMemory(d)' \cap Ids(Pending(d)') = {}
        BY <2>2, <2>3, <2>5
    <2>9. \A d \in Clients : Unsent(d)' \subseteq used' /\ Unsent(d)' \cap Sent' = {}
        BY <1>6, <2>4, <2>5
    <2>10. \A d \in Clients : \A e \in Clients \ {d} : Unsent(d)' \cap Unsent(e)' = {}
        BY <2>4, <2>5
    <2>11. Sent' \subseteq used'
        BY <1>6, <2>5
    <2> QED
        BY <2>6, <2>7, <2>8, <2>9, <2>10, <2>11 DEF UnsentIsUnknown, Ids, DistinctOps
<1> QED
    BY <1>8, <1>9, <1>11, <1>12, <1>14 DEF QueueInv

\* A step of one client's call: nothing else but the editor changes.
LEMMA CallQueues ==
    ASSUME LogInv, QueueInv, NEW c \in Clients,
           UNCHANGED <<server, typed, outbox, session, confirmed, used>>,
           \A d \in Clients \ {c} : call'[d] = call[d],
           call'[c].phase \in SyncPhases => call'[c].request = SessionBatch(c)
    PROVE  QueueInv'
<1>1. UNCHANGED <<note, rows, tx, late>>
    BY DEF server
<1>2. late' \subseteq Batches /\ InTx' \subseteq Sent
    BY <1>1, BatchFacts DEF InTx, Ids
<1>3. TxFollows'
    BY <1>1 DEF QueueInv, TxFollows, Visible
<1>4. \A d \in Clients : call'[d].phase \in SyncPhases => call'[d].request = SessionBatch(d)
    BY DEF QueueInv, SessionsFollow
<1> QED
    BY <1>1, <1>2, <1>3, <1>4, QueuesUntouched

LEMMA ResumeQueues ==
    ASSUME LogInv, QueueInv, NEW c \in Clients, Resume(c)
    PROVE  QueueInv'
<1>1. Ids(InFlight(c)) = session[c].ids /\ session[c] # NoSession
    BY DEF Resume, LogInv, SessionOwnsInFlight, InFlight
<1>2. /\ call' = [call EXCEPT ![c] = [phase |-> "syncing", request |-> SessionBatch(c)]]
      /\ UNCHANGED <<server, typed, outbox, session, confirmed, used>>
    BY <1>1 DEF Resume, Send, InFlight, SessionBatch
<1>3. /\ call'[c].request = SessionBatch(c)
      /\ \A d \in Clients \ {c} : call'[d] = call[d]
    BY <1>2 DEF LogInv, ClientsOK
<1> QED
    BY <1>2, <1>3, CallQueues

\* A call that ends brings no request.
LEMMA CallEndsQueues ==
    ASSUME LogInv, QueueInv, NEW c \in Clients, call' = [call EXCEPT ![c] = Idle],
           UNCHANGED <<server, typed, outbox, session, confirmed, used>>
    PROVE  QueueInv'
<1>1. /\ call'[c].phase \notin SyncPhases
      /\ \A d \in Clients \ {c} : call'[d] = call[d]
    BY DEF LogInv, ClientsOK, Idle, SyncPhases
<1> QED
    BY <1>1, CallQueues

LEMMA ClientQueues ==
    ASSUME LogInv, QueueInv, NEW c \in Clients, ClientStep(c)
    PROVE  QueueInv'
<1>1. CASE Reconcile(c)
    <2>1. outbox' = [outbox EXCEPT ![c] = Enqueued(@, typed[c], confirmed[c].rev)]
        BY <1>1 DEF Reconcile, LogInv, ClientsOK
    <2> QED
        BY <1>1, <2>1, EnqueueQueues DEF Reconcile
<1>7. CASE Rebuild(c)
    <2>1. UNCHANGED <<server, typed, outbox, session, confirmed, call, used>>
        BY <1>7 DEF Rebuild
    <2>2. call[c].phase \in SyncPhases => call[c].request = SessionBatch(c)
        BY DEF QueueInv, SessionsFollow
    <2>3. SessionBatch(c)' = SessionBatch(c)
        BY <2>1 DEF SessionBatch, InFlight
    <2> QED
        BY <2>1, <2>2, <2>3, CallQueues
<1>2. CASE Flush(c)
    BY <1>2, EnqueueQueues DEF Flush
<1>3. CASE ProcessResponse(c)
    <2>1. CASE Ids(call[c].reply.accepted) = Ids(call[c].request.ops)
        BY <1>3, <2>1, PersistQueues DEF ProcessResponse, LogInv, ClientsOK
    <2>2. CASE Ids(call[c].reply.accepted) # Ids(call[c].request.ops)
        BY <1>3, <2>2, CallEndsQueues DEF ProcessResponse
    <2> QED
        BY <2>1, <2>2
<1>4. CASE ProcessError(c)
    BY <1>4, CallEndsQueues DEF ProcessError
<1>5. CASE StartPoll(c)
    <2>1. /\ call'[c].phase = "polling"
          /\ \A d \in Clients \ {c} : call'[d] = call[d]
          /\ UNCHANGED <<server, typed, outbox, session, confirmed, used>>
        BY <1>5 DEF StartPoll, LogInv, ClientsOK
    <2> QED
        BY <2>1, CallQueues DEF SyncPhases
<1>6. CASE ProcessPoll(c)
    <2>1. session[c] = NoSession /\ session' = session
        BY <1>6 DEF ProcessPoll, LogInv, GateOK, PollPhases
    <2>2. CASE call[c].reply.remote # {} /\ call[c].reply.rev >= confirmed[c].rev
        BY <1>6, <2>1, <2>2, PersistQueues DEF ProcessPoll
    <2>3. CASE ~(call[c].reply.remote # {} /\ call[c].reply.rev >= confirmed[c].rev)
        BY <1>6, <2>3, CallEndsQueues DEF ProcessPoll
    <2> QED
        BY <2>2, <2>3
<1> QED
    BY <1>1, <1>2, <1>3, <1>4, <1>5, <1>6, <1>7, TypeQueues, StartSyncQueues, ResumeQueues
    DEF ClientStep

\* A transaction starts on a batch with nothing done.
LEMMA BeginWithQueues ==
    ASSUME LogInv, QueueInv, NEW batch \in Batches, NEW live, BeginWith(batch, live),
           UNCHANGED <<note, rows>>
    PROVE  TxFollows' /\ InTx' \subseteq Sent
<1>1. /\ tx' # NoTx /\ tx'.known = batch.known /\ tx'.todo = batch.ops
      /\ tx'.accepted = {} /\ tx'.added = {}
    BY DEF BeginWith, NoTx
<1>2. BatchFollows(batch) /\ Ids(batch.ops) \subseteq Sent
    BY BatchFacts
<1>3. IsFiniteSet({}) /\ Cardinality({}) = 0
    BY FS_EmptySet
<1>4. PICK n \in Nat : n = Cardinality(batch.ops)
    BY <1>2, FS_CardinalityType DEF BatchFollows
<1>5. {op.ord : op \in batch.ops} = 0..(0 + n - 1)
    BY <1>2, <1>4 DEF BatchFollows
<1>6. TxFollows'
    <2>1. \A r \in rows' : r.id \in Ids(batch.ops) => r.rev > batch.known
        BY <1>2 DEF BatchFollows
    <2>2. Ids(tx'.accepted) = {}
        BY <1>1 DEF Ids
    <2>3. Ids(tx'.todo) = Ids(batch.ops)
        BY <1>1 DEF Ids
    <2>4. {op.ord : op \in tx'.todo} =
             Cardinality(tx'.accepted)..(Cardinality(tx'.accepted) + Cardinality(tx'.todo) - 1)
        BY <1>1, <1>3, <1>4, <1>5
    <2>5. /\ tx'.known \in Nat /\ tx'.known <= note'.rev
          /\ IsFiniteSet(tx'.todo) /\ IsFiniteSet(tx'.accepted) /\ DistinctOps(tx'.todo)
          /\ \A op \in tx'.todo : op.base = tx'.known + op.ord
          /\ \A a \in tx'.accepted : \E r \in Visible' :
                a = [id |-> r.id, rev |-> r.rev] /\ r.rev > tx'.known
        BY <1>1, <1>2, <1>3 DEF BatchFollows
    <2>6. \A r \in rows' : r.id \in Ids(tx'.todo) => r.rev > tx'.known
        BY <1>1, <2>1, <2>3
    <2> QED
        BY <2>2, <2>4, <2>5, <2>6 DEF TxFollows, DistinctOps, Ids
<1>7. InTx' \subseteq Sent
    BY <1>1, <1>2 DEF InTx, Ids
<1> QED
    BY <1>6, <1>7

LEMMA BeginSyncQueues ==
    ASSUME LogInv, QueueInv, NEW c \in Clients, BeginSync(c)
    PROVE  QueueInv'
<1>1. /\ call[c].phase = "syncing" /\ session[c] # NoSession
      /\ DOMAIN call = Clients /\ DOMAIN call[c] = {"phase", "request"}
      /\ call[c].request = SessionBatch(c)
    BY DEF BeginSync, LogInv, ClientsOK, CallsOK, GateOK, QueueInv, SessionsFollow, SyncPhases
<1>2. /\ call'[c].request = call[c].request /\ \A d \in Clients \ {c} : call'[d] = call[d]
      /\ UNCHANGED <<note, rows, late, typed, outbox, session, confirmed, used>>
      /\ BeginWith(SessionBatch(c), TRUE)
    BY <1>1 DEF BeginSync
<1>3. TxFollows' /\ InTx' \subseteq Sent
    BY <1>1, <1>2, BatchFacts, BeginWithQueues
<1>4. \A d \in Clients : call'[d].phase \in SyncPhases => call'[d].request = SessionBatch(d)
    BY <1>1, <1>2 DEF QueueInv, SessionsFollow
<1> QED
    BY <1>2, <1>3, <1>4, BatchFacts, QueuesUntouched

LEMMA BeginLateQueues ==
    ASSUME LogInv, QueueInv, BeginLate
    PROVE  QueueInv'
<1>1. PICK request \in late : /\ BeginWith(request, FALSE)
                              /\ late' = late \ {request}
                              /\ UNCHANGED <<note, rows, client, used>>
    BY DEF BeginLate
<1>2. UNCHANGED <<typed, outbox, session, confirmed, call>>
    BY <1>1 DEF client
<1>3. TxFollows' /\ InTx' \subseteq Sent
    BY <1>1, BatchFacts, BeginWithQueues
<1>4. late' \subseteq Batches
    BY <1>1, BatchFacts
<1>5. \A d \in Clients : call'[d].phase \in SyncPhases => call'[d].request = SessionBatch(d)
    BY <1>2 DEF QueueInv, SessionsFollow
<1> QED
    BY <1>1, <1>2, <1>3, <1>4, <1>5, QueuesUntouched

\* A transaction goes on or ends while nothing but the answer changes.
LEMMA ServingQueues ==
    ASSUME LogInv, QueueInv, UNCHANGED <<note, rows, late, client, used>>,
           TxFollows', InTx' \subseteq Sent
    PROVE  QueueInv'
<1>1. UNCHANGED <<typed, outbox, session, confirmed, call>>
    BY DEF client
<1>2. \A d \in Clients : call'[d].phase \in SyncPhases => call'[d].request = SessionBatch(d)
    BY <1>1 DEF QueueInv, SessionsFollow
<1> QED
    BY <1>1, <1>2, BatchFacts, QueuesUntouched

\* The next operation is the first of the batch that is not accepted.
LEMMA NextOpFollows ==
    ASSUME LogInv, QueueInv, Serving
    PROVE  /\ NextOp \in tx.todo /\ NextOp.ord = Cardinality(tx.accepted)
           /\ Cardinality(tx.accepted) \in Nat
           /\ IsFiniteSet(tx.todo \ {NextOp})
           /\ {op.ord : op \in tx.todo \ {NextOp}} =
                (Cardinality(tx.accepted) + 1)..
                    (Cardinality(tx.accepted) + 1 + Cardinality(tx.todo \ {NextOp}) - 1)
<1> DEFINE op == NextOp
           rest == tx.todo \ {op}
<1>1. /\ TxFollows /\ tx # NoTx /\ tx.todo # {}
      /\ \A o \in tx.todo : o.ord \in Nat
    BY DEF QueueInv, Serving, LogInv, TxOK, OutboxRowOK
<1>2. \E o \in tx.todo : \A q \in tx.todo : o.ord <= q.ord
    BY <1>1, FirstRow
<1>3. op \in tx.todo /\ \A q \in tx.todo : op.ord <= q.ord
    BY <1>2 DEF NextOp
<1>4. PICK n \in Nat : n = Cardinality(tx.accepted)
    BY <1>1, FS_CardinalityType DEF TxFollows
<1>5. PICK m \in Nat : m = Cardinality(rest) /\ Cardinality(tx.todo) = m + 1 /\ IsFiniteSet(rest)
    <2>1. IsFiniteSet(tx.todo)
        BY <1>1 DEF TxFollows
    <2>2. IsFiniteSet(rest) /\ Cardinality(rest) = Cardinality(tx.todo) - 1
        BY <1>3, <2>1, FS_RemoveElement
    <2> HIDE DEF rest
    <2> QED
        BY <2>1, <2>2, FS_CardinalityType
<1>6. {o.ord : o \in tx.todo} = n..(n + (m + 1) - 1)
    BY <1>1, <1>4, <1>5 DEF TxFollows
<1>7. op.ord = n
    <2> HIDE DEF op
    <2>1. n \in {o.ord : o \in tx.todo} /\ op.ord \in n..(n + m)
        BY <1>3, <1>6
    <2> QED
        BY <1>3, <2>1
<1>8. {o.ord : o \in rest} = (n + 1)..(n + 1 + m - 1)
    <2>1. \A o \in rest : o.ord # n
        BY <1>1, <1>3, <1>7 DEF TxFollows, DistinctOps
    <2> HIDE DEF op
    <2>2. ASSUME NEW o \in rest
          PROVE  o.ord \in (n + 1)..(n + 1 + m - 1)
        BY <1>6, <2>1
    <2>3. ASSUME NEW k \in (n + 1)..(n + 1 + m - 1)
          PROVE  \E o \in rest : o.ord = k
        <3>1. k \in n..(n + (m + 1) - 1) /\ k # n
            BY <1>4, <1>5
        <3>2. k \in {o.ord : o \in tx.todo}
            BY <1>6, <3>1
        <3>3. PICK o \in tx.todo : o.ord = k
            BY <3>2
        <3> QED
            BY <1>7, <3>1, <3>3
    <2> QED
        BY <2>2, <2>3
<1> QED
    BY <1>3, <1>4, <1>5, <1>7, <1>8

\* One more operation of the batch is accepted, at a revision above the one
\* the batch knows.
LEMMA AcceptedFollows ==
    ASSUME LogInv, QueueInv, Serving, UNCHANGED <<note, rows>>,
           tx' # NoTx, tx'.known = tx.known,
           tx'.todo = tx.todo \ {NextOp},
           NEW ack, tx'.accepted = tx.accepted \cup {ack}, ack.id = NextOp.id,
           Visible \subseteq Visible',
           \E r \in Visible' : ack = [id |-> r.id, rev |-> r.rev] /\ r.rev > tx.known
    PROVE  TxFollows'
<1>1. TxFollows /\ tx # NoTx
    BY DEF QueueInv, Serving
<1>2. /\ NextOp \in tx.todo /\ Cardinality(tx.accepted) \in Nat
      /\ IsFiniteSet(tx'.todo)
      /\ {op.ord : op \in tx'.todo} =
            (Cardinality(tx.accepted) + 1)..(Cardinality(tx.accepted) + 1 + Cardinality(tx'.todo) - 1)
    BY NextOpFollows
<1>3. Ids(tx'.accepted) = Ids(tx.accepted) \cup {NextOp.id}
    BY DEF Ids
<1>4. Ids(tx'.todo) = Ids(tx.todo) \ {NextOp.id}
    BY <1>1, <1>2 DEF TxFollows, DistinctOps, Ids
<1>5. IsFiniteSet(tx'.accepted) /\ Cardinality(tx'.accepted) = Cardinality(tx.accepted) + 1
    <2>1. ack \notin tx.accepted
        BY <1>1, <1>2 DEF TxFollows, Ids
    <2>2. IsFiniteSet(tx.accepted)
        BY <1>1 DEF TxFollows
    <2>3. /\ IsFiniteSet(tx.accepted \cup {ack})
          /\ Cardinality(tx.accepted \cup {ack}) = Cardinality(tx.accepted) + 1
        BY <2>1, <2>2, FS_AddElement
    <2> QED
        BY <2>3
<1>6. \A a \in tx'.accepted : \E r \in Visible' :
         a = [id |-> r.id, rev |-> r.rev] /\ r.rev > tx'.known
    BY <1>1 DEF TxFollows
<1>7. /\ tx'.known \in Nat /\ tx'.known <= note'.rev /\ DistinctOps(tx'.todo)
      /\ \A op \in tx'.todo : op.base = tx'.known + op.ord
      /\ Ids(tx'.accepted) \cap Ids(tx'.todo) = {}
      /\ \A r \in rows' : r.id \in Ids(tx'.todo) => r.rev > tx'.known
    BY <1>1, <1>3, <1>4 DEF TxFollows, DistinctOps
<1> QED
    BY <1>2, <1>5, <1>6, <1>7 DEF TxFollows, DistinctOps, Ids

LEMMA ServeReplayQueues ==
    ASSUME LogInv, QueueInv, ServeReplay
    PROVE  QueueInv'
<1> DEFINE ack == [id |-> NextOp.id, rev |-> LogRow(NextOp).rev]
<1>1. TxFollows /\ tx # NoTx /\ DOMAIN tx = TxFields /\ Serving /\ TxOK /\ LogOK
    BY DEF QueueInv, ServeReplay, Serving, LogInv, TxOK
<1>2. /\ tx' = [tx EXCEPT !.todo = @ \ {NextOp}, !.accepted = @ \cup {ack}]
      /\ UNCHANGED <<note, rows, late, client, used>>
    BY DEF ServeReplay
<1>3. /\ LogRow(NextOp) \in Visible /\ LogRow(NextOp).id = NextOp.id
    BY DEF ServeReplay, Known, LogRow
<1>4. ack.id = NextOp.id /\ ack = [id |-> LogRow(NextOp).id, rev |-> LogRow(NextOp).rev]
    BY <1>3
<1> HIDE DEF ack
<1>5. /\ DOMAIN tx' = TxFields /\ tx'.known = tx.known /\ tx'.added = tx.added
      /\ tx'.todo = tx.todo \ {NextOp} /\ tx'.accepted = tx.accepted \cup {ack}
    BY <1>1, <1>2 DEF TxFields
<1>6. tx' # NoTx /\ Visible' = Visible
    BY <1>2, <1>5 DEF NoTx, TxFields, Visible
<1>7. LogRow(NextOp).rev > tx.known
    <2>1. NextOp \in tx.todo
        BY <1>1, NextOpFollows
    <2>2. CASE LogRow(NextOp) \in rows
        BY <1>1, <1>3, <2>1, <2>2 DEF TxFollows, Ids
    <2>3. CASE LogRow(NextOp) \in tx.added
        <3>1. LogRow(NextOp).rev \in (note.rev + 1)..tx.rev
            BY <1>1, <2>3 DEF TxOK
        <3> QED
            BY <1>1, <3>1 DEF TxFollows, LogOK, TxOK
    <2> QED
        BY <1>3, <2>2, <2>3 DEF Visible
<1>8. TxFollows'
    BY <1>1, <1>2, <1>3, <1>4, <1>5, <1>6, <1>7, AcceptedFollows
<1>9. InTx' \subseteq Sent
    <2>1. InTx' \subseteq InTx
        BY <1>1, <1>5, <1>6 DEF InTx, Ids
    <2> QED
        BY <2>1, BatchFacts
<1> QED
    BY <1>2, <1>8, <1>9, ServingQueues

LEMMA ServeOperationQueues ==
    ASSUME LogInv, QueueInv, ServeOperation
    PROVE  QueueInv'
<1> DEFINE op == NextOp
           row == NewRow(op, TransformedDelta)
           ack == [id |-> op.id, rev |-> tx.rev + 1]
           doc == ServerApply(tx.doc, [op EXCEPT !.delta = TransformedDelta])
<1>1. TxFollows /\ tx # NoTx /\ DOMAIN tx = TxFields /\ Serving /\ TxOK /\ LogOK
    BY DEF QueueInv, ServeOperation, Serving, LogInv, TxOK
<1>2. /\ tx' = [tx EXCEPT !.todo = @ \ {op}, !.accepted = @ \cup {ack}, !.rev = @ + 1,
                          !.doc = doc, !.added = @ \cup {row}]
      /\ UNCHANGED <<note, rows, late, client, used>>
    BY <1>1 DEF ServeOperation, TxFields
<1>3. row.id = op.id /\ row.rev = tx.rev + 1
    BY DEF NewRow
<1>4. ack.id = NextOp.id /\ ack = [id |-> row.id, rev |-> row.rev]
    BY <1>3
<1> HIDE DEF row, ack, doc
<1>5. /\ DOMAIN tx' = TxFields /\ tx'.known = tx.known /\ tx'.added = tx.added \cup {row}
      /\ tx'.todo = tx.todo \ {NextOp} /\ tx'.accepted = tx.accepted \cup {ack}
    BY <1>1, <1>2 DEF TxFields
<1>6. tx' # NoTx /\ Visible' = Visible \cup {row}
    BY <1>2, <1>5 DEF NoTx, TxFields, Visible
<1>7. row.rev > tx.known
    BY <1>1, <1>3 DEF TxFollows, TxOK, LogOK
<1>8. TxFollows'
    BY <1>1, <1>2, <1>4, <1>5, <1>6, <1>7, AcceptedFollows
<1>9. InTx' \subseteq Sent
    <2>1. op \in tx.todo
        BY <1>1, NextOpFollows
    <2>2. InTx' \subseteq InTx
        BY <1>1, <1>3, <1>5, <1>6, <2>1 DEF InTx, Ids
    <2> QED
        BY <2>2, BatchFacts
<1> QED
    BY <1>2, <1>8, <1>9, ServingQueues

\* Requests survive the answers to them.
LEMMA AnswerQueues ==
    ASSUME LogInv, QueueInv, tx # NoTx, NEW phase, NEW reply, Answer(phase, reply),
           UNCHANGED <<outbox, session>>
    PROVE  \A d \in Clients : call'[d].phase \in SyncPhases => call'[d].request = SessionBatch(d)
<1> SUFFICES ASSUME NEW d \in Clients, call'[d].phase \in SyncPhases
             PROVE  call'[d].request = SessionBatch(d)
    OBVIOUS
<1>1. \/ call'[d] = call[d]
      \/ call[d].phase = "serving" /\ call'[d].request = call[d].request
    BY AnswerEffect
<1> QED
    BY <1>1 DEF QueueInv, SessionsFollow, SyncPhases

LEMMA RollbackQueues ==
    ASSUME LogInv, QueueInv, tx # NoTx, NEW status, Rollback(status)
    PROVE  QueueInv'
<1>1. /\ tx' = NoTx /\ Answer("failed", [status |-> status])
      /\ UNCHANGED <<note, rows, late, typed, outbox, session, confirmed, used>>
    BY DEF Rollback
<1>2. TxFollows' /\ InTx' \subseteq Sent
    BY <1>1 DEF TxFollows, InTx
<1>3. \A d \in Clients : call'[d].phase \in SyncPhases => call'[d].request = SessionBatch(d)
    BY <1>1, AnswerQueues
<1> QED
    BY <1>1, <1>2, <1>3, BatchFacts, QueuesUntouched

\* What a commit adds to the log was sent, and is above whatever any batch
\* knows.
LEMMA CommitQueues ==
    ASSUME LogInv, QueueInv, Commit
    PROVE  QueueInv'
<1>1. /\ tx # NoTx /\ tx' = NoTx /\ rows' = rows \cup tx.added /\ note'.rev = tx.rev
      /\ UNCHANGED <<late, typed, outbox, session, confirmed, used>>
    BY DEF Commit, Visible
<1>2. TxOK /\ LogOK
    BY DEF LogInv
<1>3. \A d \in Clients : call'[d].phase \in SyncPhases => call'[d].request = SessionBatch(d)
    <2>1. \E reply : Answer("answered", reply)
        BY DEF Commit
    <2> QED
        BY <1>1, <2>1, AnswerQueues
<1>4. \A d \in Clients : SessionBatch(d)' = SessionBatch(d)
    BY <1>1 DEF SessionBatch, InFlight
<1>5. BaseChain'
    BY <1>1 DEF QueueInv, BaseChain
<1>6. SessionsFollow'
    BY <1>1, <1>3, <1>4 DEF QueueInv, SessionsFollow, NoSession
<1>7. Batches' = Batches
    BY <1>1, <1>4 DEF Batches, NoSession
<1>8. BatchesFollow'
    <2>1. ASSUME NEW b \in Batches
          PROVE  BatchFollows(b)'
        <3>1. BatchFollows(b)
            BY BatchFacts
        <3>2. b.known \in Nat /\ b.known <= note.rev
            BY <3>1 DEF BatchFollows
        <3>3. note.rev \in Nat /\ tx.rev \in Nat /\ note.rev <= tx.rev
              /\ \A r \in tx.added : r.rev \in (note.rev + 1)..tx.rev
            BY <1>1, <1>2 DEF TxOK, LogOK
        <3>4. b.known <= tx.rev /\ \A r \in tx.added : r.rev > b.known
            BY <3>2, <3>3
        <3>5. \A r \in rows' : r.id \in Ids(b.ops) => r.rev > b.known
            BY <1>1, <3>1, <3>4 DEF BatchFollows
        <3> QED
            BY <1>1, <3>1, <3>4, <3>5 DEF BatchFollows
    <2>2. \A b \in Batches' : BatchFollows(b)'
        BY <1>7, <2>1
    <2>3. \A p, q \in Batches' : Ids(p.ops) \cap Ids(q.ops) # {} => p.ops = q.ops
        BY <1>7 DEF QueueInv, BatchesFollow
    <2> QED
        BY <2>2, <2>3 DEF BatchesFollow, Ids
<1>9. TxFollows'
    BY <1>1 DEF TxFollows
<1>10. Sent' \subseteq Sent
    <2>1. Ids(rows)' = Ids(rows) \cup Ids(tx.added)
        BY <1>1 DEF Ids
    <2>2. Ids(tx.added) \subseteq InTx /\ InTx' = {}
        BY <1>1 DEF InTx
    <2> QED
        BY <1>7, <2>1, <2>2, BatchFacts, SentInParts
<1>11. UnsentIsUnknown'
    BY <1>1, <1>10, UnsentKept
<1> QED
    BY <1>5, <1>6, <1>8, <1>9, <1>11 DEF QueueInv

LEMMA ServePollQueues ==
    ASSUME LogInv, QueueInv, NEW c \in Clients, ServePoll(c)
    PROVE  QueueInv'
<1>1. /\ call'[c].phase = "polled"
      /\ \A d \in Clients \ {c} : call'[d] = call[d]
      /\ UNCHANGED <<server, typed, outbox, session, confirmed, used>>
    BY DEF ServePoll, LogInv, ClientsOK
<1> QED
    BY <1>1, CallQueues DEF SyncPhases

\* A request that nobody waits for was that of an open session.
LEMMA OrphanedQueues ==
    ASSUME LogInv, QueueInv, NEW c \in Clients, Orphaned(c),
           \A d \in Clients : typed'[d] = typed[d] \/ typed'[d] = <<>>,
           UNCHANGED <<note, rows, outbox, session, confirmed, used>>
    PROVE  QueueInv'
<1>1. late' \subseteq Batches
    <2>1. CASE call[c].phase = "syncing"
        <3>1. late' = late \cup {call[c].request}
            BY <2>1 DEF Orphaned
        <3>2. call[c].request = SessionBatch(c) /\ session[c] # NoSession
            BY <2>1 DEF QueueInv, SessionsFollow, LogInv, GateOK, SyncPhases
        <3> QED
            BY <3>1, <3>2, BatchFacts
    <2>2. CASE call[c].phase # "syncing"
        BY <2>2, BatchFacts DEF Orphaned
    <2> QED
        BY <2>1, <2>2
<1>2. TxFollows' /\ InTx' \subseteq Sent
    <2>1. CASE tx = NoTx
        <3>1. tx' = NoTx
            BY <2>1 DEF Orphaned, NoTx
        <3> QED
            BY <3>1 DEF TxFollows, InTx
    <2>2. CASE tx # NoTx
        <3>1. DOMAIN tx = TxFields
            BY <2>2 DEF LogInv, TxOK
        <3>2. tx' # NoTx /\ tx'.known = tx.known /\ tx'.todo = tx.todo
              /\ tx'.accepted = tx.accepted /\ tx'.added = tx.added
            BY <2>2, <3>1 DEF Orphaned, TxFields, NoTx
        <3>3. Visible' = Visible /\ InTx' = InTx
            BY <2>2, <3>2 DEF Visible, InTx, Ids
        <3>4. TxFollows'
            BY <2>2, <3>2, <3>3 DEF QueueInv, TxFollows
        <3> QED
            BY <3>3, <3>4, BatchFacts
    <2> QED
        BY <2>1, <2>2
<1>3. /\ call'[c].phase = "idle"
      /\ \A d \in Clients \ {c} : call'[d] = call[d]
    BY DEF Orphaned, LogInv, ClientsOK, Idle
<1>4. \A d \in Clients : call'[d].phase \in SyncPhases => call'[d].request = SessionBatch(d)
    BY <1>3 DEF QueueInv, SessionsFollow, SyncPhases
<1> QED
    BY <1>1, <1>2, <1>4, QueuesUntouched

LEMMA NextQueues ==
    ASSUME LogInv, QueueInv, Next
    PROVE  QueueInv'
<1>1. CASE ServerStep
    <2>1. CASE ServeConflict
        BY <2>1, RollbackQueues DEF ServeConflict, Serving
    <2>2. CASE ServeInvalid
        BY <2>2, RollbackQueues DEF ServeInvalid, Serving
    <2>3. CASE ServeNotCanonical
        BY <2>3, RollbackQueues DEF ServeNotCanonical
    <2> QED
        BY <1>1, <2>1, <2>2, <2>3, BeginLateQueues, ServeReplayQueues, ServeOperationQueues,
           CommitQueues, BeginSyncQueues, ServePollQueues DEF ServerStep
<1>2. CASE Lose
    <2>1. late' \subseteq late /\ UNCHANGED <<note, rows, tx, client, used>>
        BY <1>2 DEF Lose
    <2>2. UNCHANGED <<typed, outbox, session, confirmed, call>>
        BY <2>1 DEF client
    <2>3. TxFollows' /\ InTx' \subseteq Sent
        BY <2>1, BatchFacts DEF QueueInv, TxFollows, Visible, InTx, Ids
    <2>4. \A d \in Clients : call'[d].phase \in SyncPhases => call'[d].request = SessionBatch(d)
        BY <2>2 DEF QueueInv, SessionsFollow
    <2>5. late' \subseteq Batches
        BY <2>1, BatchFacts
    <2> QED
        BY <2>1, <2>2, <2>3, <2>4, <2>5, QueuesUntouched
<1>3. ASSUME NEW c \in Clients, Abandon(c) \/ Crash(c)
      PROVE  QueueInv'
    <2>1. /\ Orphaned(c) /\ UNCHANGED <<note, rows, outbox, session, confirmed, used>>
          /\ typed' = typed \/ typed' = [typed EXCEPT ![c] = <<>>]
        BY <1>3 DEF Abandon, Crash
    <2>2. \A d \in Clients : typed'[d] = typed[d] \/ typed'[d] = <<>>
        BY <2>1 DEF LogInv, ClientsOK
    <2> QED
        BY <2>1, <2>2, OrphanedQueues
<1> QED
    BY <1>1, <1>2, <1>3, ClientQueues DEF Next, Fault

LEMMA StutterQueues ==
    ASSUME LogInv, QueueInv, UNCHANGED vars
    PROVE  QueueInv'
<1>1. UNCHANGED <<note, rows, tx, late, client, used>>
    BY DEF vars, server
<1>2. TxFollows' /\ InTx' \subseteq Sent
    BY <1>1, BatchFacts DEF QueueInv, TxFollows, Visible, InTx, Ids
<1> QED
    BY <1>1, <1>2, ServingQueues

LEMMA QueueInvHolds == Spec => []QueueInv
<1>1. QueueInv /\ LogInv /\ LogInv' /\ [Next]_vars => QueueInv'
    BY NextQueues, StutterQueues
<1> QED
    BY InitQueues, LogInvHolds, <1>1, PTL DEF Spec

-------------------------------------------------------------------------------
(* The snapshots: a replay is a recursive function on 0..n.                *)

\* p is the replay of S up to revision n.
Unfolded(S, n, p) ==
    p = [k \in 0..n |-> IF k = 0 THEN InitDoc ELSE ServerApply(p[k - 1], RevisionRow(S, k))]

\* There is one: the least revision without a replay would follow on one that
\* has one.
LEMMA ReplayExists ==
    ASSUME NEW S, NEW n \in Nat
    PROVE  \E p : Unfolded(S, n, p)
<1> DEFINE Bad == {m \in Nat : ~\E p : Unfolded(S, m, p)}
<1>1. SUFFICES ASSUME Bad # {} PROVE FALSE
    OBVIOUS
<1>2. PICK m \in Bad : \A k \in Bad : m <= k
    BY <1>1, LeastNumber
<1>3. CASE m = 0
    <2> DEFINE p == [k \in 0..0 |-> InitDoc]
    <2>1. p = [k \in 0..0 |-> IF k = 0 THEN InitDoc ELSE ServerApply(p[k - 1], RevisionRow(S, k))]
        OBVIOUS
    <2> HIDE DEF p
    <2> QED
        BY <1>2, <1>3, <2>1 DEF Unfolded
<1>4. CASE m # 0
    <2>1. PICK j \in Nat : m = j + 1
        BY <1>2, <1>4
    <2>2. j \notin Bad
        BY <1>2, <2>1
    <2>3. PICK p : Unfolded(S, j, p)
        BY <2>2
    <2> DEFINE q == [k \in 0..m |-> IF k = m THEN ServerApply(p[j], RevisionRow(S, m)) ELSE p[k]]
    <2>4. ASSUME NEW k \in 0..m
          PROVE  q[k] = IF k = 0 THEN InitDoc ELSE ServerApply(q[k - 1], RevisionRow(S, k))
        <3>1. CASE k = m
            BY <2>1, <3>1
        <3>2. CASE k # m
            <4>1. k \in 0..j /\ q[k] = p[k]
                BY <2>1, <3>2
            <4>2. k # 0 => k - 1 \in 0..m /\ q[k - 1] = p[k - 1]
                BY <2>1, <3>2
            <4>3. p[k] = IF k = 0 THEN InitDoc ELSE ServerApply(p[k - 1], RevisionRow(S, k))
                BY <2>3, <4>1 DEF Unfolded
            <4> QED
                BY <4>1, <4>2, <4>3
        <3> QED
            BY <3>1, <3>2
    <2>5. q = [k \in 0..m |-> q[k]]
        OBVIOUS
    <2> HIDE DEF q
    <2>6. Unfolded(S, m, q)
        BY <2>4, <2>5 DEF Unfolded
    <2> QED
        BY <1>2, <2>6
<1> QED
    BY <1>3, <1>4

\* Over the same rows there is only one, as far as both go: nothing differs
\* first.
LEMMA ReplayUnique ==
    ASSUME NEW S, NEW T, NEW n \in Nat, NEW m \in Nat, NEW p, NEW q,
           Unfolded(S, n, p), Unfolded(T, m, q), n <= m,
           \A k \in 1..n : RevisionRow(S, k) = RevisionRow(T, k)
    PROVE  p[n] = q[n]
<1> DEFINE Bad == {k \in 0..n : p[k] # q[k]}
<1>1. SUFFICES ASSUME Bad # {} PROVE FALSE
    OBVIOUS
<1>2. PICK k \in Bad : \A j \in Bad : k <= j
    <2>1. Bad \subseteq Nat
        OBVIOUS
    <2> QED
        BY <1>1, <2>1, LeastNumber
<1>3. p[k] = (IF k = 0 THEN InitDoc ELSE ServerApply(p[k - 1], RevisionRow(S, k)))
    BY <1>2 DEF Unfolded
<1>4. q[k] = (IF k = 0 THEN InitDoc ELSE ServerApply(q[k - 1], RevisionRow(T, k)))
    BY <1>2 DEF Unfolded
<1>5. k # 0 => p[k - 1] = q[k - 1] /\ RevisionRow(S, k) = RevisionRow(T, k)
    <2> SUFFICES ASSUME k # 0 PROVE p[k - 1] = q[k - 1] /\ RevisionRow(S, k) = RevisionRow(T, k)
        OBVIOUS
    <2>1. k - 1 \in 0..n /\ ~(k <= k - 1) /\ k \in 1..n
        BY <1>2
    <2> QED
        BY <1>2, <2>1
<1> QED
    BY <1>2, <1>3, <1>4, <1>5

LEMMA ReplayedUnfolds ==
    ASSUME NEW S, NEW n \in Nat
    PROVE  \E p : Unfolded(S, n, p) /\ Replayed(S, n) = p[n]
<1> DEFINE doc[k \in 0..n] ==
            IF k = 0 THEN InitDoc ELSE ServerApply(doc[k - 1], RevisionRow(S, k))
<1>1. Unfolded(S, n, doc)
    BY ReplayExists DEF Unfolded
<1>2. Replayed(S, n) = doc[n]
    BY DEF Replayed
<1> QED
    BY <1>1, <1>2

\* A replay starts from the initial document and takes one row at a time.
LEMMA ReplayStarts ==
    ASSUME NEW S
    PROVE  Replayed(S, 0) = InitDoc
<1>1. PICK p : Unfolded(S, 0, p) /\ Replayed(S, 0) = p[0]
    BY ReplayedUnfolds
<1> QED
    BY <1>1 DEF Unfolded

LEMMA ReplaySteps ==
    ASSUME NEW S, NEW n \in Nat
    PROVE  Replayed(S, n + 1) = ServerApply(Replayed(S, n), RevisionRow(S, n + 1))
<1>1. PICK p : Unfolded(S, n, p) /\ Replayed(S, n) = p[n]
    BY ReplayedUnfolds
<1>2. PICK q : Unfolded(S, n + 1, q) /\ Replayed(S, n + 1) = q[n + 1]
    <2>1. n + 1 \in Nat
        OBVIOUS
    <2> QED
        BY <2>1, ReplayedUnfolds
<1>3. p[n] = q[n]
    <2>1. n + 1 \in Nat /\ n <= n + 1
        OBVIOUS
    <2> QED
        BY <1>1, <1>2, <2>1, ReplayUnique
<1>4. q[n + 1] = ServerApply(q[n], RevisionRow(S, n + 1))
    <2>1. n + 1 \in 0..(n + 1) /\ n + 1 # 0 /\ (n + 1) - 1 = n
        OBVIOUS
    <2> QED
        BY <1>2, <2>1 DEF Unfolded
<1> QED
    BY <1>1, <1>2, <1>3, <1>4

\* More rows, all at later revisions, do not change a replay.
LEMMA ReplayKept ==
    ASSUME NEW S, NEW T, S \subseteq T, NEW n \in Nat,
           \A k \in 1..n : \E r \in S : r.rev = k,
           \A r, s \in T : r.rev = s.rev => r = s
    PROVE  Replayed(S, n) = Replayed(T, n)
<1>1. PICK p : Unfolded(S, n, p) /\ Replayed(S, n) = p[n]
    BY ReplayedUnfolds
<1>2. PICK q : Unfolded(T, n, q) /\ Replayed(T, n) = q[n]
    BY ReplayedUnfolds
<1>3. \A k \in 1..n : RevisionRow(S, k) = RevisionRow(T, k)
    <2> TAKE k \in 1..n
    <2>1. \E r \in S : r.rev = k
        OBVIOUS
    <2>2. RevisionRow(S, k) \in S /\ RevisionRow(S, k).rev = k
        BY <2>1 DEF RevisionRow
    <2>3. RevisionRow(T, k) \in T /\ RevisionRow(T, k).rev = k
        BY <2>1 DEF RevisionRow
    <2> QED
        BY <2>2, <2>3
<1>4. p[n] = q[n]
    BY <1>1, <1>2, <1>3, ReplayUnique
<1> QED
    BY <1>1, <1>2, <1>4

\* The server looks at the edit of a row or operation only.
LEMMA ServerAppliesEdits ==
    ASSUME NEW doc, NEW p, NEW q,
           p.id = q.id, p.kind = q.kind, p.block = q.block, p.delta = q.delta, p.after = q.after
    PROVE  ServerApply(doc, p) = ServerApply(doc, q)
BY DEF ServerApply, ServerTextDelta, ServerCreateBlock, ServerDeleteBlock, ServerMoveBlock,
       SetBlockType

\* In an invariant state every revision up to the note's is replayed, and a
\* running transaction replays it the same way.
LEMMA LogIsReplayed ==
    ASSUME LogInv
    PROVE  /\ note.rev \in Nat
           /\ \A n \in 0..note.rev : \A k \in 1..n : \E r \in rows : r.rev = k
           /\ \A r, s \in rows : r.rev = s.rev => r = s
           /\ tx # NoTx =>
                /\ tx.rev \in Nat /\ note.rev <= tx.rev
                /\ \A k \in 1..tx.rev : \E r \in Visible : r.rev = k
                /\ \A r \in Visible : r.rev \in Nat /\ r.rev <= tx.rev
                /\ \A r, s \in Visible : r.rev = s.rev => r = s
<1>1. LogOK /\ TxOK
    BY DEF LogInv
<1>2. note.rev \in Nat /\ {r.rev : r \in rows} = 1..note.rev
    BY <1>1 DEF LogOK
<1>3. ASSUME NEW n \in 0..note.rev, NEW k \in 1..n
      PROVE  \E r \in rows : r.rev = k
    <2>1. k \in 1..note.rev
        BY <1>2
    <2>2. k \in {r.rev : r \in rows}
        BY <1>2, <2>1
    <2> QED
        BY <2>2
<1>4. ASSUME tx # NoTx
      PROVE  /\ tx.rev \in Nat /\ note.rev <= tx.rev
             /\ \A k \in 1..tx.rev : \E r \in Visible : r.rev = k
             /\ \A r \in Visible : r.rev \in Nat /\ r.rev <= tx.rev
             /\ \A r, s \in Visible : r.rev = s.rev => r = s
    <2>1. /\ tx.rev \in Nat /\ note.rev <= tx.rev
          /\ {r.rev : r \in tx.added} = (note.rev + 1)..tx.rev
          /\ \A r, s \in Visible : r.rev = s.rev => r = s
        BY <1>1, <1>4 DEF TxOK
    <2>2. ASSUME NEW k \in 1..tx.rev
          PROVE  \E r \in Visible : r.rev = k
        <3>1. k \in 1..note.rev \/ k \in (note.rev + 1)..tx.rev
            BY <1>2, <2>1
        <3>2. k \in {r.rev : r \in rows} \/ k \in {r.rev : r \in tx.added}
            BY <1>2, <2>1, <3>1
        <3> QED
            BY <3>2 DEF Visible
    <2>3. ASSUME NEW r \in Visible
          PROVE  r.rev \in Nat /\ r.rev <= tx.rev
        <3>1. r.rev \in 1..note.rev \/ r.rev \in (note.rev + 1)..tx.rev
            BY <1>2, <2>1 DEF Visible
        <3> QED
            BY <1>2, <2>1, <3>1
    <2> QED
        BY <2>1, <2>2, <2>3
<1> QED
    BY <1>1, <1>2, <1>3, <1>4 DEF LogOK

\* A step of the clients: the log stays, replies are those that were under
\* way or the note as it is, and a snapshot is one of them.
LEMMA ReadersReplay ==
    ASSUME LogInv, ReplayInv, UNCHANGED <<note, rows>>,
           tx' # NoTx => tx'.doc = Replayed(Visible', tx'.rev),
           \A c \in Clients : call'[c].phase \in {"answered", "polled"} =>
                \/ call'[c] = call[c]
                \/ call'[c].reply.doc = Replayed(rows, call'[c].reply.rev),
           \A c \in Clients :
                \/ confirmed'[c] = confirmed[c]
                \/ /\ call[c].phase \in {"answered", "polled"}
                   /\ confirmed'[c].rev = call[c].reply.rev
                   /\ confirmed'[c].doc = call[c].reply.doc
    PROVE  ReplayInv'
BY DEF ReplayInv, SnapshotsAreReplays

LEMMA PersistReplays ==
    ASSUME LogInv, ReplayInv, NEW c \in Clients, call[c].phase \in {"answered", "polled"},
           UNCHANGED server, call' = [call EXCEPT ![c] = Idle],
           \/ UNCHANGED confirmed
           \/ confirmed' = [confirmed EXCEPT ![c] =
                                [rev |-> call[c].reply.rev, doc |-> call[c].reply.doc]]
    PROVE  ReplayInv'
<1>1. UNCHANGED <<note, rows, tx>> /\ Visible' = Visible
    BY DEF server, Visible
<1>2. \A d \in Clients : call'[d].phase \in {"answered", "polled"} => call'[d] = call[d]
    BY DEF LogInv, ClientsOK, Idle
<1>3. \A d \in Clients :
            \/ confirmed'[d] = confirmed[d]
            \/ /\ call[d].phase \in {"answered", "polled"}
               /\ confirmed'[d].rev = call[d].reply.rev
               /\ confirmed'[d].doc = call[d].reply.doc
    BY DEF LogInv, ClientsOK
<1>4. tx' # NoTx => tx'.doc = Replayed(Visible', tx'.rev)
    BY <1>1 DEF ReplayInv
<1> QED
    BY <1>1, <1>2, <1>3, <1>4, ReadersReplay

LEMMA ClientReplays ==
    ASSUME LogInv, ReplayInv, NEW c \in Clients, ClientStep(c)
    PROVE  ReplayInv'
<1>1. CASE ProcessResponse(c)
    BY <1>1, PersistReplays DEF ProcessResponse
<1>2. CASE ProcessPoll(c)
    BY <1>2, PersistReplays DEF ProcessPoll
<1>3. ASSUME UNCHANGED <<server, confirmed>>,
             \A d \in Clients : call'[d].phase \in {"answered", "polled"} => call'[d] = call[d]
      PROVE  ReplayInv'
    <2>1. UNCHANGED <<note, rows, tx>> /\ Visible' = Visible
        BY <1>3 DEF server, Visible
    <2>2. tx' # NoTx => tx'.doc = Replayed(Visible', tx'.rev)
        BY <2>1 DEF ReplayInv
    <2> QED
        BY <1>3, <2>1, <2>2, ReadersReplay
<1>4. CASE Type(c) \/ Flush(c) \/ Reconcile(c) \/ Rebuild(c)
    BY <1>3, <1>4 DEF Type, Flush, Reconcile, Rebuild
<1>5. CASE StartSync(c) \/ Resume(c) \/ ProcessError(c) \/ StartPoll(c)
    <2>1. UNCHANGED <<server, confirmed>>
        BY <1>5 DEF StartSync, Resume, ProcessError, StartPoll
    <2>2. \A d \in Clients : call'[d].phase \in {"answered", "polled"} => call'[d] = call[d]
        BY <1>5 DEF StartSync, Resume, ProcessError, StartPoll, OpenSession, Send, Idle,
                    LogInv, ClientsOK
    <2> QED
        BY <1>3, <2>1, <2>2
<1> QED
    BY <1>1, <1>2, <1>4, <1>5 DEF ClientStep

\* The row of a new operation is the operation that was applied.
LEMMA ServeOperationReplays ==
    ASSUME LogInv, ReplayInv, ServeOperation
    PROVE  ReplayInv'
<1> DEFINE op == NextOp
           row == NewRow(op, TransformedDelta)
           edit == [op EXCEPT !.delta = TransformedDelta]
           ack == [id |-> op.id, rev |-> tx.rev + 1]
<1>1. TxOK /\ tx # NoTx /\ DOMAIN tx = TxFields
    BY DEF ServeOperation, Serving, LogInv, TxOK
<1>2. /\ tx' = [tx EXCEPT !.todo = @ \ {op}, !.accepted = @ \cup {ack}, !.rev = @ + 1,
                          !.doc = ServerApply(tx.doc, edit), !.added = @ \cup {row}]
      /\ UNCHANGED <<note, rows, late, client, used, faults>>
    BY <1>1 DEF ServeOperation, TxFields
<1>3. OutboxRowOK(op)
    BY <1>1, NextOpIsQueued DEF ServeOperation, TxOK
<1>4. /\ row.id = edit.id /\ row.kind = edit.kind /\ row.block = edit.block
      /\ row.delta = edit.delta /\ row.after = edit.after /\ row.rev = tx.rev + 1
    BY <1>3 DEF NewRow, OutboxRowOK, RowFields
<1>5. ServerApply(tx.doc, edit) = ServerApply(tx.doc, row)
    BY <1>4, ServerAppliesEdits
<1> HIDE DEF row, edit, op, ack
<1>6. /\ tx' # NoTx /\ tx'.rev = tx.rev + 1 /\ tx'.doc = ServerApply(tx.doc, row)
      /\ Visible' = Visible \cup {row}
    BY <1>1, <1>2, <1>5 DEF TxFields, NoTx, Visible
<1>7. /\ tx.rev \in Nat
      /\ \A k \in 1..tx.rev : \E r \in Visible : r.rev = k
      /\ \A r \in Visible : r.rev \in Nat /\ r.rev <= tx.rev
      /\ \A r, s \in Visible : r.rev = s.rev => r = s
    BY <1>1, LogIsReplayed
<1>8. tx'.doc = Replayed(Visible', tx'.rev)
    <2> DEFINE T == Visible \cup {row}
    <2>1. \A r, s \in T : r.rev = s.rev => r = s
        BY <1>4, <1>7
    <2>2. Replayed(Visible, tx.rev) = Replayed(T, tx.rev)
        BY <1>7, <2>1, ReplayKept
    <2>3. RevisionRow(T, tx.rev + 1) = row
        BY <1>4, <2>1 DEF RevisionRow
    <2> HIDE DEF T
    <2>4. Replayed(T, tx.rev + 1) = ServerApply(Replayed(T, tx.rev), RevisionRow(T, tx.rev + 1))
        BY <1>7, ReplaySteps
    <2>5. tx.doc = Replayed(Visible, tx.rev)
        BY <1>1 DEF ReplayInv
    <2>6. tx'.doc = Replayed(T, tx.rev + 1)
        BY <1>6, <2>2, <2>3, <2>4, <2>5
    <2> QED
        BY <1>6, <2>6 DEF T
<1>9. UNCHANGED <<note, rows, call, confirmed>>
    BY <1>2 DEF client
<1> QED
    BY <1>8, <1>9, ReadersReplay

\* A commit publishes the transaction's replay; the earlier ones stay.
LEMMA CommitReplays ==
    ASSUME LogInv, ReplayInv, Commit
    PROVE  ReplayInv'
<1>1. /\ tx # NoTx /\ tx' = NoTx /\ rows' = Visible
      /\ note'.rev = tx.rev /\ note'.doc = tx.doc /\ UNCHANGED confirmed
    BY DEF Commit
<1>2. /\ note.rev \in Nat
      /\ \A n \in 0..note.rev : \A k \in 1..n : \E r \in rows : r.rev = k
      /\ \A r, s \in Visible : r.rev = s.rev => r = s
    BY <1>1, LogIsReplayed
<1>3. \A n \in 0..note.rev : Replayed(rows', n) = Replayed(rows, n)
    <2> TAKE n \in 0..note.rev
    <2>1. n \in Nat /\ rows \subseteq Visible
        BY <1>2 DEF Visible
    <2>2. Replayed(rows, n) = Replayed(Visible, n)
        BY <1>2, <2>1, ReplayKept
    <2> QED
        BY <1>1, <2>2
<1>4. note'.doc = Replayed(rows', note'.rev)
    BY <1>1 DEF ReplayInv
<1>5. \A c \in Clients : confirmed'[c].doc = Replayed(rows', confirmed'[c].rev)
    <2> TAKE c \in Clients
    <2>1. confirmed[c].rev \in 0..note.rev
        BY <1>2 DEF LogInv, ClientsOK, ReadersOK
    <2> QED
        BY <1>1, <1>3, <2>1 DEF ReplayInv, SnapshotsAreReplays
<1>6. \A c \in Clients : call'[c].phase \in {"answered", "polled"} =>
            call'[c].reply.doc = Replayed(rows', call'[c].reply.rev)
    <2> SUFFICES ASSUME NEW c \in Clients, call'[c].phase \in {"answered", "polled"}
                 PROVE  call'[c].reply.doc = Replayed(rows', call'[c].reply.rev)
        OBVIOUS
    <2> DEFINE reply == [accepted |-> tx.accepted, rev |-> tx.rev, doc |-> tx.doc,
                 remote |-> {r \in Visible : r.rev > tx.known /\ r.id \notin Ids(tx.accepted)}]
    <2>1. Answer("answered", reply)
        BY DEF Commit
    <2>2. reply.rev = tx.rev /\ reply.doc = tx.doc
        OBVIOUS
    <2> HIDE DEF reply
    <2>3. call'[c] = call[c] \/ call'[c].reply = reply
        BY <1>1, <2>1, AnswerEffect
    <2>4. CASE call'[c].reply = reply
        BY <1>1, <1>4, <2>2, <2>4
    <2>5. CASE call'[c] = call[c]
        <3>1. call[c].reply.rev \in 0..note.rev
            BY <1>2, <2>5 DEF LogInv, CallsOK, ReadersOK
        <3> QED
            BY <1>3, <2>5, <3>1 DEF ReplayInv
    <2> QED
        BY <2>3, <2>4, <2>5
<1> QED
    BY <1>1, <1>4, <1>5, <1>6 DEF ReplayInv, SnapshotsAreReplays

\* A transaction starts from the stored document.
LEMMA BeginReplays ==
    ASSUME LogInv, ReplayInv, NEW request, NEW live, BeginWith(request, live),
           UNCHANGED <<note, rows>>
    PROVE  tx'.doc = Replayed(Visible', tx'.rev)
<1>1. tx'.doc = note.doc /\ tx'.rev = note.rev /\ tx'.added = {}
    BY DEF BeginWith
<1>2. Visible' = rows
    BY <1>1 DEF Visible
<1> QED
    BY <1>1, <1>2 DEF ReplayInv, SnapshotsAreReplays

LEMMA ServerReplays ==
    ASSUME LogInv, ReplayInv, ServerStep
    PROVE  ReplayInv'
<1>1. CASE BeginLate
    <2>1. \E request \in late : BeginWith(request, FALSE)
        BY <1>1 DEF BeginLate
    <2>2. UNCHANGED <<note, rows, call, confirmed>>
        BY <1>1 DEF BeginLate, client
    <2> QED
        BY <2>1, <2>2, BeginReplays, ReadersReplay
<1>2. CASE ServeReplay
    <2>1. tx # NoTx /\ DOMAIN tx = TxFields
        BY <1>2 DEF ServeReplay, Serving, LogInv, TxOK
    <2>2. /\ tx'.rev = tx.rev /\ tx'.doc = tx.doc /\ tx'.added = tx.added
          /\ UNCHANGED <<note, rows, call, confirmed>>
        BY <1>2, <2>1 DEF ServeReplay, TxFields, client
    <2>3. Visible' = Visible
        BY <2>2 DEF Visible
    <2>4. tx'.doc = Replayed(Visible', tx'.rev)
        BY <2>1, <2>2, <2>3 DEF ReplayInv
    <2> QED
        BY <2>2, <2>4, ReadersReplay
<1>3. ASSUME NEW status, Rollback(status), tx # NoTx
      PROVE  ReplayInv'
    <2>1. /\ UNCHANGED <<note, rows, confirmed>> /\ tx' = NoTx
          /\ Answer("failed", [status |-> status])
        BY <1>3 DEF Rollback
    <2>2. \A c \in Clients : call'[c] = call[c] \/ call'[c].phase = "failed"
        BY <1>3, <2>1, AnswerEffect
    <2>3. \A c \in Clients : call'[c].phase \in {"answered", "polled"} => call'[c] = call[c]
        BY <2>2
    <2> QED
        BY <2>1, <2>3, ReadersReplay
<1>4. CASE ServeConflict \/ ServeInvalid \/ ServeNotCanonical
    BY <1>3, <1>4 DEF ServeConflict, ServeInvalid, ServeNotCanonical, Serving
<1>5. ASSUME NEW c \in Clients, BeginSync(c)
      PROVE  ReplayInv'
    <2>1. /\ UNCHANGED <<note, rows, confirmed>> /\ BeginWith(call[c].request, TRUE)
          /\ call[c].phase = "syncing" /\ call' = [call EXCEPT ![c].phase = "serving"]
        BY <1>5 DEF BeginSync
    <2>2. \A d \in Clients : call'[d].phase \in {"answered", "polled"} => call'[d] = call[d]
        <3>1. DOMAIN call = Clients /\ DOMAIN call[c] = {"phase", "request"}
            BY <2>1 DEF LogInv, ClientsOK, CallsOK
        <3>2. call'[c].phase = "serving" /\ \A d \in Clients \ {c} : call'[d] = call[d]
            BY <2>1, <3>1
        <3> QED
            BY <3>2
    <2> QED
        BY <2>1, <2>2, BeginReplays, ReadersReplay
<1>6. ASSUME NEW c \in Clients, ServePoll(c)
      PROVE  ReplayInv'
    <2>1. /\ UNCHANGED <<note, rows, tx, confirmed>>
          /\ call'[c].reply.doc = note.doc /\ call'[c].reply.rev = note.rev
          /\ \A d \in Clients \ {c} : call'[d] = call[d]
        BY <1>6 DEF ServePoll, server, LogInv, ClientsOK
    <2>2. call'[c].reply.doc = Replayed(rows, call'[c].reply.rev)
        BY <2>1 DEF ReplayInv, SnapshotsAreReplays
    <2>3. tx' # NoTx => tx'.doc = Replayed(Visible', tx'.rev)
        BY <2>1 DEF ReplayInv, Visible
    <2> QED
        BY <2>1, <2>2, <2>3, ReadersReplay
<1> QED
    BY <1>1, <1>2, <1>4, <1>5, <1>6, ServeOperationReplays, CommitReplays DEF ServerStep

LEMMA FaultReplays ==
    ASSUME LogInv, ReplayInv, Fault
    PROVE  ReplayInv'
<1>1. CASE Lose
    <2>1. UNCHANGED <<note, rows, tx, call, confirmed>>
        BY <1>1 DEF Lose, client
    <2>2. tx' # NoTx => tx'.doc = Replayed(Visible', tx'.rev)
        BY <2>1 DEF ReplayInv, Visible
    <2> QED
        BY <2>1, <2>2, ReadersReplay
<1>2. ASSUME NEW c \in Clients, Orphaned(c), UNCHANGED <<note, rows, confirmed>>
      PROVE  ReplayInv'
    <2>1. tx' # NoTx => tx'.doc = Replayed(Visible', tx'.rev)
        <3>1. CASE tx = NoTx
            BY <1>2, <3>1 DEF Orphaned, NoTx
        <3>2. CASE tx # NoTx
            <4>1. DOMAIN tx = TxFields
                BY <3>2 DEF LogInv, TxOK
            <4>2. tx'.doc = tx.doc /\ tx'.rev = tx.rev /\ tx'.added = tx.added
                BY <1>2, <4>1 DEF Orphaned, TxFields
            <4>3. Visible' = Visible
                BY <1>2, <4>2 DEF Visible
            <4> QED
                BY <3>2, <4>2, <4>3 DEF ReplayInv
        <3> QED
            BY <3>1, <3>2
    <2>2. \A d \in Clients : call'[d].phase \in {"answered", "polled"} => call'[d] = call[d]
        BY <1>2 DEF Orphaned, Idle, LogInv, ClientsOK
    <2> QED
        BY <1>2, <2>1, <2>2, ReadersReplay
<1> QED
    BY <1>1, <1>2 DEF Fault, Abandon, Crash

LEMMA ReplayInvHolds == Spec => []ReplayInv
<1>1. Init => ReplayInv
    <2> SUFFICES ASSUME Init PROVE ReplayInv
        OBVIOUS
    <2>1. /\ note.rev = 0 /\ note.doc = InitDoc /\ tx = NoTx
          /\ \A c \in Clients : /\ confirmed[c].rev = 0 /\ confirmed[c].doc = InitDoc
                                /\ call[c].phase = "idle"
        BY DEF Init, Idle
    <2> QED
        BY <2>1, ReplayStarts DEF ReplayInv, SnapshotsAreReplays
<1>2. LogInv /\ ReplayInv /\ [Next]_vars => ReplayInv'
    <2> SUFFICES ASSUME LogInv, ReplayInv, [Next]_vars PROVE ReplayInv'
        OBVIOUS
    <2>1. CASE Next
        BY <2>1, ClientReplays, ServerReplays, FaultReplays DEF Next
    <2>2. CASE UNCHANGED vars
        <3>1. UNCHANGED <<note, rows, tx, call, confirmed>>
            BY <2>2 DEF vars, server, client
        <3>2. tx' # NoTx => tx'.doc = Replayed(Visible', tx'.rev)
            BY <3>1 DEF ReplayInv, Visible
        <3> QED
            BY <3>1, <3>2, ReadersReplay
    <2> QED
        BY <2>1, <2>2
<1> QED
    BY <1>1, <1>2, LogInvHolds, PTL DEF Spec

-------------------------------------------------------------------------------
(* What a rebase makes of operations and rows.                             *)

Target == {"kind", "block"}

\* t is o but for the text change and the anchor.
Keeps(t, o) ==
    /\ DOMAIN t = DOMAIN o
    /\ \A f \in DOMAIN o \ {"delta", "after"} : t[f] = o[f]

\* row is a deletion or a move of the block of op.
Voids(row, op) == row.kind \in {"delete_block", "move_block"} /\ row.block = op.block

\* t is what is left of o next to rows made from those of R.
Outcome(t, o, R) ==
    IF t = Dropped THEN \E r \in R : Voids(r, o) ELSE Keeps(t, o)

\* A list of rows made from those of R.
Rewrites(list, R) ==
    /\ list \in Seq({list[i] : i \in DOMAIN list})
    /\ \A i \in DOMAIN list : \E r \in R : Keeps(list[i], r)

LEMMA KeptTarget ==
    ASSUME NEW o, Target \subseteq DOMAIN o, NEW t, Keeps(t, o)
    PROVE  t # Dropped /\ t.kind = o.kind /\ t.block = o.block /\ Target \subseteq DOMAIN t
BY DEF Keeps, Dropped, Target

LEMMA KeptTwice ==
    ASSUME NEW o, NEW t, NEW u, Keeps(t, o), Keeps(u, t)
    PROVE  Keeps(u, o)
BY DEF Keeps

\* A transformation drops an operation only over a deletion or a move of its
\* own block, and else leaves its kind and block.
LEMMA TransformOutcome ==
    ASSUME NEW o, Target \subseteq DOMAIN o, NEW applied, NEW priority
    PROVE  LET t == TransformOp(o, applied, priority) IN
           \/ t = Dropped /\ Voids(applied, o)
           \/ t # Dropped /\ Keeps(t, o)
<1> DEFINE t == TransformOp(o, applied, priority)
<1>1. (t = Dropped /\ Voids(applied, o)) \/ Keeps(t, o)
    BY DEF TransformOp, Voids, Keeps
<1> QED
    BY <1>1, KeptTarget

LEMMA RowAppended ==
    ASSUME NEW R, NEW rs, Rewrites(rs, R), NEW t, NEW r \in R, Keeps(t, r)
    PROVE  Rewrites(Append(rs, t), R)
<1> DEFINE X == {rs[i] : i \in DOMAIN rs}
           ys == Append(rs, t)
<1>1. rs \in Seq(X)
    BY DEF Rewrites
<1>2. rs \in Seq(X \cup {t})
    BY <1>1
<1>3. /\ ys \in Seq(X \cup {t}) /\ Len(ys) = Len(rs) + 1 /\ Len(rs) \in Nat
      /\ DOMAIN ys = 1..Len(ys) /\ DOMAIN rs = 1..Len(rs)
      /\ ys[Len(rs) + 1] = t /\ \A i \in 1..Len(rs) : ys[i] = rs[i]
    BY <1>2
<1> HIDE DEF X, ys
<1>4. \A i \in DOMAIN ys : \E q \in R : Keeps(ys[i], q)
    <2> TAKE i \in DOMAIN ys
    <2>1. CASE i = Len(rs) + 1
        BY <1>3, <2>1
    <2>2. CASE i \in 1..Len(rs)
        BY <1>3, <2>2 DEF Rewrites
    <2> QED
        BY <1>3, <2>1, <2>2
<1>5. ys \in Seq({ys[i] : i \in DOMAIN ys})
    BY <1>3, OwnElements
<1> QED
    BY <1>4, <1>5 DEF Rewrites, ys

LEMMA RowsCarried ==
    ASSUME NEW R, \A r \in R : Target \subseteq DOMAIN r,
           NEW rs, Rewrites(rs, R), NEW op, NEW actor, NEW accepted
    PROVE  Rewrites(CarriedOver(rs, op, actor, accepted), R)
<1> DEFINE t(i) == TransformOp(rs[i], op, ~LocalWins(actor, op, rs[i]))
           moved == [i \in DOMAIN rs |-> IF rs[i].rev < accepted THEN t(i) ELSE rs[i]]
           X == {moved[i] : i \in DOMAIN moved}
           ys == Survivors(moved)
<1>1. CarriedOver(rs, op, actor, accepted) = ys
    BY DEF CarriedOver
<1>2. DOMAIN rs = 1..Len(rs) /\ Len(rs) \in Nat
    BY DEF Rewrites
<1>3. ASSUME NEW i \in DOMAIN moved, moved[i] # Dropped
      PROVE  \E r \in R : Keeps(moved[i], r)
    <2>1. PICK r \in R : Keeps(rs[i], r)
        BY DEF Rewrites
    <2>2. Target \subseteq DOMAIN rs[i]
        BY <2>1, KeptTarget
    <2>3. t(i) # Dropped => Keeps(t(i), rs[i])
        BY <2>2, TransformOutcome
    <2>4. moved[i] = rs[i] \/ moved[i] = t(i)
        OBVIOUS
    <2> HIDE DEF moved, t
    <2> QED
        BY <1>3, <2>1, <2>3, <2>4, KeptTwice
<1>4. moved \in Seq(X) /\ DOMAIN moved = DOMAIN rs /\ Len(moved) = Len(rs)
    <2>1. moved = [i \in 1..Len(rs) |-> moved[i]] /\ \A i \in 1..Len(rs) : moved[i] \in X
        BY <1>2
    <2> HIDE DEF moved, X
    <2>2. moved \in Seq(X) /\ Len(moved) = Len(rs)
        BY <1>2, <2>1
    <2> QED
        BY <1>2, <2>2
<1> HIDE DEF moved, t
<1>5. ys \in Seq({moved[i] : i \in 1..Len(moved)} \ {Dropped})
    BY <1>4, SurvivorsRemain
<1>6. ys \in Seq({ys[i] : i \in DOMAIN ys})
    BY <1>5, OwnElements
<1>7. \A i \in DOMAIN ys : \E r \in R : Keeps(ys[i], r)
    <2> TAKE i \in DOMAIN ys
    <2>1. ys[i] \in {moved[j] : j \in 1..Len(moved)} \ {Dropped}
        BY <1>5
    <2>2. PICK j \in 1..Len(moved) : ys[i] = moved[j] /\ moved[j] # Dropped
        BY <2>1
    <2> QED
        BY <1>2, <1>3, <1>4, <2>2
<1> HIDE DEF ys
<1> QED
    BY <1>1, <1>6, <1>7 DEF Rewrites

-------------------------------------------------------------------------------
(* The three passes, each a recursive function on the places of a list.    *)

\* Up to n of the in-flight operations there is such a p: the least n without
\* one would follow on one that has one.
LEMMA InFlightPassExists ==
    ASSUME NEW remote, NEW actor, NEW inFlight, NEW revisionOf, NEW N \in Nat
    PROVE  \E p : p = [n \in 0..N |->
                IF n = 0 THEN remote
                ELSE CarriedOver(p[n - 1], inFlight[n], actor, revisionOf[inFlight[n].id])]
<1> DEFINE Next1(x, n) == CarriedOver(x, inFlight[n], actor, revisionOf[inFlight[n].id])
           Runs(p, M) == p = [n \in 0..M |-> IF n = 0 THEN remote ELSE Next1(p[n - 1], n)]
           Bad == {M \in Nat : ~\E p : Runs(p, M)}
<1>1. SUFFICES ASSUME Bad # {} PROVE FALSE
    OBVIOUS
<1>2. PICK m \in Bad : \A k \in Bad : m <= k
    BY <1>1, LeastNumber
<1> HIDE DEF Next1
<1>3. CASE m = 0
    <2> DEFINE p == [k \in 0..0 |-> remote]
    <2>1. p = [n \in 0..0 |-> IF n = 0 THEN remote ELSE Next1(p[n - 1], n)]
        OBVIOUS
    <2> HIDE DEF p
    <2> QED
        BY <1>2, <1>3, <2>1
<1>4. CASE m # 0
    <2>1. PICK j \in Nat : m = j + 1
        BY <1>2, <1>4
    <2>2. j \notin Bad
        <3> HIDE DEF Bad
        <3> QED
            BY <1>2, <2>1
    <2>3. PICK p : Runs(p, j)
        BY <2>2
    <2> DEFINE q == [n \in 0..m |-> IF n = m THEN Next1(p[j], m) ELSE p[n]]
    <2>4. ASSUME NEW n \in 0..m
          PROVE  q[n] = IF n = 0 THEN remote ELSE Next1(q[n - 1], n)
        <3>1. CASE n = m
            BY <2>1, <3>1
        <3>2. CASE n # m
            <4>1. n \in 0..j /\ q[n] = p[n]
                BY <2>1, <3>2
            <4>2. n # 0 => n - 1 \in 0..m /\ q[n - 1] = p[n - 1]
                BY <2>1, <3>2
            <4>3. p[n] = IF n = 0 THEN remote ELSE Next1(p[n - 1], n)
                BY <2>3, <4>1
            <4> QED
                BY <4>1, <4>2, <4>3
        <3> QED
            BY <3>1, <3>2
    <2>5. q = [n \in 0..m |-> q[n]]
        OBVIOUS
    <2> HIDE DEF q
    <2>6. Runs(q, m)
        BY <2>4, <2>5
    <2> QED
        BY <1>2, <2>6
<1> QED
    BY <1>3, <1>4

\* The rows that come out of the pass over the in-flight operations are made
\* from those that go in.
LEMMA InFlightPass ==
    ASSUME NEW R, \A r \in R : Target \subseteq DOMAIN r,
           NEW remote, Rewrites(remote, R), NEW actor, NEW revisionOf,
           NEW X, NEW inFlight \in Seq(X)
    PROVE  Rewrites(RemoteAfterInFlight(remote, actor, inFlight, revisionOf), R)
<1> DEFINE p[n \in 0..Len(inFlight)] ==
            IF n = 0 THEN remote
            ELSE CarriedOver(p[n - 1], inFlight[n], actor, revisionOf[inFlight[n].id])
<1>1. Len(inFlight) \in Nat
    OBVIOUS
<1>2. p = [n \in 0..Len(inFlight) |->
            IF n = 0 THEN remote
            ELSE CarriedOver(p[n - 1], inFlight[n], actor, revisionOf[inFlight[n].id])]
    BY <1>1, InFlightPassExists
<1>3. RemoteAfterInFlight(remote, actor, inFlight, revisionOf) = p[Len(inFlight)]
    BY DEF RemoteAfterInFlight
<1> HIDE DEF p
<1> DEFINE Bad == {n \in 0..Len(inFlight) : ~Rewrites(p[n], R)}
<1>4. Bad = {}
    <2>1. SUFFICES ASSUME Bad # {} PROVE FALSE
        OBVIOUS
    <2>2. PICK n \in Bad : \A k \in Bad : n <= k
        <3>1. Bad \subseteq Nat
            BY <1>1
        <3> HIDE DEF Bad
        <3> QED
            BY <2>1, <3>1, LeastNumber
    <2>3. n # 0
        BY <1>2, <2>2
    <2>4. PICK j \in Nat : n = j + 1
        BY <1>1, <2>2, <2>3
    <2>5. j \in 0..Len(inFlight) /\ j \notin Bad
        BY <1>1, <2>2, <2>4
    <2>6. p[n] = CarriedOver(p[j], inFlight[n], actor, revisionOf[inFlight[n].id])
        BY <1>2, <2>2, <2>3, <2>4
    <2>7. Rewrites(p[j], R)
        BY <2>5
    <2> QED
        BY <2>2, <2>6, <2>7, RowsCarried
<1> QED
    BY <1>1, <1>3, <1>4

\* One step keeps what the pass promises: the rows come from those of R, and
\* the operation is what it was, or void.
LEMMA RowPassStep ==
    ASSUME NEW R, \A r \in R : Target \subseteq DOMAIN r,
           NEW op, Target \subseteq DOMAIN op, NEW actor,
           NEW acc, Rewrites(acc.rows, R), Outcome(acc.op, op, R),
           NEW row, NEW r \in R, Keeps(row, r)
    PROVE  LET next == RebaseStep(acc, row, actor) IN
           Rewrites(next.rows, R) /\ Outcome(next.op, op, R)
<1> DEFINE wins == LocalWins(actor, acc.op, row)
           rest == TransformOp(row, acc.op, ~wins)
           mine == TransformOp(acc.op, row, wins)
           next == RebaseStep(acc, row, actor)
<1>1. CASE acc.op = Dropped
    BY <1>1 DEF RebaseStep
<1>2. CASE acc.op # Dropped
    <2>1. /\ next.op = mine
          /\ next.rows = IF rest = Dropped THEN acc.rows ELSE Append(acc.rows, rest)
        BY <1>2 DEF RebaseStep
    <2> HIDE DEF next
    <2>2. Keeps(acc.op, op) /\ Target \subseteq DOMAIN acc.op /\ acc.op.block = op.block
        BY <1>2, KeptTarget DEF Outcome
    <2>3. Target \subseteq DOMAIN row /\ row.kind = r.kind /\ row.block = r.block
        BY KeptTarget
    <2>4. Outcome(mine, op, R)
        <3>1. \/ mine = Dropped /\ Voids(row, acc.op)
              \/ mine # Dropped /\ Keeps(mine, acc.op)
            BY <2>2, TransformOutcome
        <3>2. Voids(row, acc.op) => Voids(r, op)
            BY <2>2, <2>3 DEF Voids
        <3>3. Keeps(mine, acc.op) => Keeps(mine, op)
            BY <2>2, KeptTwice
        <3> QED
            BY <3>1, <3>2, <3>3 DEF Outcome
    <2>5. rest # Dropped => Keeps(rest, r)
        <3>1. rest # Dropped => Keeps(rest, row)
            BY <2>3, TransformOutcome
        <3> QED
            BY <3>1, KeptTwice
    <2>6. Rewrites(next.rows, R)
        <3>1. CASE rest = Dropped
            BY <2>1, <3>1
        <3>2. CASE rest # Dropped
            <4> HIDE DEF rest
            <4> QED
                BY <2>1, <2>5, <3>2, RowAppended
        <3> QED
            BY <3>1, <3>2
    <2> HIDE DEF mine
    <2> QED
        BY <2>1, <2>4, <2>6 DEF next
<1> QED
    BY <1>1, <1>2

LEMMA RowPass ==
    ASSUME NEW R, \A r \in R : Target \subseteq DOMAIN r,
           NEW op, Target \subseteq DOMAIN op, NEW actor,
           NEW remote, Rewrites(remote, R)
    PROVE  LET one == RebaseOne(op, actor, remote) IN
           Rewrites(one.rows, R) /\ Outcome(one.op, op, R)
<1>1. Len(remote) \in Nat /\ DOMAIN remote = 1..Len(remote)
    BY DEF Rewrites
<1>2. PICK p : RowRun(p, op, actor, remote)
    BY <1>1, RowRunExists
<1>3. RebaseOne(op, actor, remote) = p[Len(remote)]
    BY <1>2 DEF RowRun
<1> DEFINE Good(n) == Rewrites(p[n].rows, R) /\ Outcome(p[n].op, op, R)
<1>4. Good(0)
    <2>1. p[0] = [op |-> op, rows |-> <<>>]
        BY <1>2 DEF RowRun
    <2>2. Rewrites(<<>>, R)
        BY DEF Rewrites
    <2>3. op # Dropped /\ Keeps(op, op)
        BY KeptTarget DEF Keeps
    <2> QED
        BY <2>1, <2>2, <2>3 DEF Outcome
<1> DEFINE Bad == {n \in 0..Len(remote) : ~Good(n)}
<1>5. Bad = {}
    <2>1. SUFFICES ASSUME Bad # {} PROVE FALSE
        OBVIOUS
    <2>2. PICK n \in Bad : \A k \in Bad : n <= k
        <3>1. Bad \subseteq Nat
            BY <1>1
        <3> HIDE DEF Bad
        <3> QED
            BY <2>1, <3>1, LeastNumber
    <2>3. n # 0
        BY <1>4, <2>2
    <2>4. PICK j \in Nat : n = j + 1
        BY <1>1, <2>2, <2>3
    <2>5. j \in 0..Len(remote) /\ j \notin Bad
        BY <1>1, <2>2, <2>4
    <2>6. p[n] = RebaseStep(p[j], remote[n], actor)
        <3>1. n - 1 = j /\ n \in 1..Len(remote)
            BY <1>1, <2>2, <2>4
        <3> QED
            BY <1>2, <3>1 DEF RowRun
    <2>7. Good(j)
        BY <2>5
    <2>8. PICK r \in R : Keeps(remote[n], r)
        <3>1. n \in DOMAIN remote
            BY <1>1, <2>2, <2>3
        <3> QED
            BY <3>1 DEF Rewrites
    <2> QED
        BY <2>2, <2>6, <2>7, <2>8, RowPassStep
<1> QED
    BY <1>1, <1>3, <1>5

\* After n pending operations: each has its outcome, and the rows still come
\* from those of R.
PendingDone(acc, pending, n, R) ==
    /\ Rewrites(acc.rows, R)
    /\ \A k \in 1..n : /\ pending[k].id \in DOMAIN acc.kept
                      /\ Outcome(acc.kept[pending[k].id], pending[k], R)

LEMMA PendingPass ==
    ASSUME NEW R, \A r \in R : Target \subseteq DOMAIN r,
           NEW X, NEW pending \in Seq(X), NEW actor, NEW remote, Rewrites(remote, R),
           \A k \in 1..Len(pending) : Target \subseteq DOMAIN pending[k],
           \A j, k \in 1..Len(pending) : pending[j].id = pending[k].id => j = k
    PROVE  \A k \in 1..Len(pending) :
                Outcome(Rebase(pending, actor, remote)[pending[k].id], pending[k], R)
<1>1. Len(pending) \in Nat
    OBVIOUS
<1>2. PICK p : PendingRun(p, pending, actor, remote)
    BY <1>1, PendingRunExists
<1>3. Rebase(pending, actor, remote) = p[Len(pending)].kept
    BY <1>2 DEF Rebase, PendingRun
<1> DEFINE Bad == {n \in 0..Len(pending) : ~PendingDone(p[n], pending, n, R)}
<1>4. Bad = {}
    <2>1. SUFFICES ASSUME Bad # {} PROVE FALSE
        OBVIOUS
    <2>2. PICK n \in Bad : \A k \in Bad : n <= k
        <3>1. Bad \subseteq Nat
            BY <1>1
        <3> HIDE DEF Bad
        <3> QED
            BY <2>1, <3>1, LeastNumber
    <2>3. n # 0
        <3>1. p[0] = [kept |-> <<>>, rows |-> remote]
            BY <1>2 DEF PendingRun
        <3>2. PendingDone(p[0], pending, 0, R)
            BY <3>1 DEF PendingDone
        <3> QED
            BY <2>2, <3>2
    <2>4. PICK j \in Nat : n = j + 1
        BY <1>1, <2>2, <2>3
    <2>5. j \in 0..Len(pending) /\ j \notin Bad /\ n \in 1..Len(pending)
        BY <1>1, <2>2, <2>4
    <2> DEFINE op == pending[n]
               one == RebaseOne(op, actor, p[j].rows)
    <2>6. PendingDone(p[j], pending, j, R)
        BY <2>5
    <2>7. p[n] = RebaseNext(p[j], op, actor)
        <3>1. n - 1 = j
            BY <2>4
        <3> QED
            BY <1>2, <2>5, <3>1 DEF PendingRun
    <2>8. Rewrites(one.rows, R) /\ Outcome(one.op, op, R)
        BY <2>5, <2>6, RowPass DEF PendingDone
    <2> HIDE DEF one
    <2>9. /\ p[n].rows = IF one.op = Dropped THEN p[j].rows ELSE one.rows
          /\ p[n].kept = [id \in DOMAIN p[j].kept \cup {op.id} |->
                            IF id = op.id THEN one.op ELSE p[j].kept[id]]
        BY <2>7 DEF RebaseNext, one
    <2>10. ASSUME NEW k \in 1..n
           PROVE  /\ pending[k].id \in DOMAIN p[n].kept
                  /\ Outcome(p[n].kept[pending[k].id], pending[k], R)
        <3>1. CASE k = n
            BY <2>8, <2>9, <3>1
        <3>2. CASE k # n
            <4>1. k \in 1..j /\ k \in 1..Len(pending)
                BY <2>4, <2>5, <3>2
            <4>2. pending[k].id # op.id
                BY <2>5, <3>2, <4>1
            <4>3. /\ pending[k].id \in DOMAIN p[j].kept
                  /\ Outcome(p[j].kept[pending[k].id], pending[k], R)
                BY <2>6, <4>1 DEF PendingDone
            <4> QED
                BY <2>9, <4>2, <4>3
        <3> QED
            BY <3>1, <3>2
    <2>11. Rewrites(p[n].rows, R)
        BY <2>6, <2>8, <2>9 DEF PendingDone
    <2> QED
        BY <2>2, <2>10, <2>11 DEF PendingDone
<1>5. PendingDone(p[Len(pending)], pending, Len(pending), R)
    BY <1>1, <1>4
<1> QED
    BY <1>3, <1>5 DEF PendingDone

-------------------------------------------------------------------------------
(* What a rebased outbox loses.                                            *)

\* A set of log rows, in order, is a list of rows.
LEMMA RowsInOrder ==
    ASSUME NEW R, IsFiniteSet(R), \A r \in R : r.rev \in Nat,
           \A r, q \in R : r.rev = q.rev => r = q
    PROVE  Rewrites(ByRevision(R), R)
<1>1. ByRevision(R) \in Seq(R)
    BY ByRevisionLists
<1>2. \A i \in DOMAIN ByRevision(R) : ByRevision(R)[i] \in R
    BY <1>1
<1>3. \A r \in R : Keeps(r, r)
    BY DEF Keeps
<1> QED
    BY <1>1, <1>2, <1>3, OwnElements DEF Rewrites

\* A rebase drops a pending operation only when a remote row deletes or moves
\* its block.
LEMMA RebaseLoses ==
    ASSUME NEW R, \A r \in R : Target \subseteq DOMAIN r,
           NEW S, IsFiniteSet(S), \A r \in S : OutboxRowOK(r), DistinctOps(S),
           NEW actor, NEW remote, Rewrites(remote, R), NEW revision,
           NEW id \in Ids(S) \ Ids(Rebased(S, actor, remote, revision))
    PROVE  \E op \in S : op.id = id /\ \E r \in R : Voids(r, op)
<1> DEFINE now  == Rebase(InOrder(S), actor, remote)
           kept == {r \in S : now[r.id] # Dropped}
           rank(r) == Cardinality({q \in kept : q.ord < r.ord})
<1>1. PICK op \in S : op.id = id
    BY DEF Ids
<1>2. now[op.id] = Dropped
    <2> SUFFICES ASSUME op \in kept PROVE FALSE
        BY DEF kept
    <2>1. Rebased(S, actor, remote, revision) =
            {Renumbered(r, now[r.id], rank(r), revision) : r \in kept}
        BY DEF Rebased
    <2> HIDE DEF now, kept, rank
    <2>2. \A a, b, c : Renumbered(op, a, b, c).id = op.id
        BY DEF Renumbered, OutboxRowOK, RowFields
    <2>3. Renumbered(op, now[op.id], rank(op), revision) \in Rebased(S, actor, remote, revision)
        BY <2>1
    <2> QED
        BY <1>1, <2>2, <2>3 DEF Ids
<1>3. /\ InOrder(S) \in Seq(S)
      /\ \A r \in S : \E k \in 1..Len(InOrder(S)) : InOrder(S)[k] = r
      /\ \A j, k \in 1..Len(InOrder(S)) : InOrder(S)[j] = InOrder(S)[k] => j = k
    BY InOrderLists DEF DistinctOps, OutboxRowOK
<1>4. \A k \in 1..Len(InOrder(S)) : InOrder(S)[k] \in S
    BY <1>3
<1>5. \A k \in 1..Len(InOrder(S)) : Target \subseteq DOMAIN InOrder(S)[k]
    BY <1>4 DEF OutboxRowOK, RowFields, Target
<1>6. \A j, k \in 1..Len(InOrder(S)) : InOrder(S)[j].id = InOrder(S)[k].id => j = k
    BY <1>3, <1>4 DEF DistinctOps
<1>7. \A k \in 1..Len(InOrder(S)) : Outcome(now[InOrder(S)[k].id], InOrder(S)[k], R)
    BY <1>3, <1>5, <1>6, PendingPass
<1>8. Outcome(now[op.id], op, R)
    BY <1>3, <1>7
<1> QED
    BY <1>1, <1>2, <1>8 DEF Outcome

-------------------------------------------------------------------------------
(* A client's own operations in the log.                                   *)

\* A step that adds nothing to the log and ends no session.
LEMMA OwnUntouched ==
    ASSUME OwnInv, UNCHANGED <<rows, session, confirmed>>, Written' \subseteq Written,
           OwnRequests',
           \A c \in Clients : call'[c].phase \in {"answered", "polled"} => call'[c] = call[c]
    PROVE  OwnInv'
<1>1. \A c : Mine(c)' = Mine(c)
    BY DEF Mine, NoSession
<1>2. OwnRows'
    BY <1>1 DEF OwnInv, OwnRows
<1>3. OwnAnswers'
    BY <1>1 DEF OwnInv, OwnAnswers
<1> QED
    BY <1>2, <1>3 DEF OwnInv

\* One of a client that leaves the server alone.
LEMMA OwnServerUntouched ==
    ASSUME OwnInv, UNCHANGED <<server, session, confirmed>>,
           \A c \in Clients : call'[c].phase \in {"answered", "polled"} => call'[c] = call[c]
    PROVE  OwnInv'
<1>1. UNCHANGED <<rows, late, tx, session, confirmed>> /\ Visible' = Visible /\ Written' = Written
    BY DEF server, Visible, Written
<1>2. \A c : Mine(c)' = Mine(c)
    BY DEF Mine, NoSession
<1>3. OwnRequests'
    BY <1>1, <1>2 DEF OwnInv, OwnRequests
<1> QED
    BY <1>1, <1>3, OwnUntouched

\* A session starts where there was none.
LEMMA StartSyncOwn ==
    ASSUME LogInv, OwnInv, NEW c \in Clients, StartSync(c)
    PROVE  OwnInv'
<1>1. /\ UNCHANGED <<rows, late, tx, confirmed>> /\ Visible' = Visible /\ Written' = Written
      /\ session[c] = NoSession /\ call[c].phase = "idle"
      /\ call'[c].phase = "syncing"
      /\ \A d \in Clients \ {c} : call'[d] = call[d] /\ session'[d] = session[d]
    BY DEF StartSync, OpenSession, Send, server, Visible, Written, Idle, LogInv, ClientsOK
<1>2. Mine(c) = {} /\ \A d \in Clients \ {c} : Mine(d)' = Mine(d)
    BY <1>1 DEF Mine, NoSession
<1>3. OwnRows'
    BY <1>1, <1>2 DEF OwnInv, OwnRows
<1>4. OwnRequests'
    <2>1. \A q \in late : q.from \in Clients
        BY DEF LogInv, CallsOK, RequestOK
    <2>2. tx # NoTx => tx.from \in Clients /\ (tx.live => tx.from # c)
        BY <1>1 DEF LogInv, TxOK
    <2>3. \A d \in Clients : Mine(d) \subseteq Mine(d)'
        BY <1>2
    <2> QED
        BY <1>1, <1>2, <2>1, <2>2, <2>3 DEF OwnInv, OwnRequests
<1>5. OwnAnswers'
    BY <1>1, <1>2 DEF OwnInv, OwnAnswers
<1> QED
    BY <1>3, <1>4, <1>5 DEF OwnInv

\* A session, if any, ends with all it waited for in the log.
LEMMA PersistOwn ==
    ASSUME LogInv, OwnInv, NEW c \in Clients, call[c].phase \in {"answered", "polled"},
           confirmed[c].rev <= call[c].reply.rev, Mine(c) \subseteq Ids(rows),
           \A r \in rows : r.id \in Mine(c) => r.rev <= call[c].reply.rev,
           confirmed' = [confirmed EXCEPT ![c] =
                [rev |-> call[c].reply.rev, doc |-> call[c].reply.doc]],
           session'[c] = NoSession, \A d \in Clients \ {c} : session'[d] = session[d],
           call' = [call EXCEPT ![c] = Idle], UNCHANGED server
    PROVE  OwnInv'
<1>1. /\ UNCHANGED <<rows, late, tx>> /\ Visible' = Visible /\ Written' = Written
      /\ call'[c].phase = "idle" /\ confirmed'[c].rev = call[c].reply.rev
      /\ \A d \in Clients \ {c} : call'[d] = call[d] /\ confirmed'[d] = confirmed[d]
    BY DEF server, Visible, Written, Idle, LogInv, ClientsOK
<1>2. Mine(c)' = {} /\ \A d \in Clients \ {c} : Mine(d)' = Mine(d)
    BY DEF Mine, NoSession
<1>3. Ids(rows) \subseteq Ids(Visible)
    BY DEF Ids, Visible
<1>4. OwnRows'
    <2>1. ASSUME NEW r \in Written, r.actor = c, r.rev > confirmed'[c].rev
          PROVE  FALSE
        <3>1. r.rev \in Nat /\ confirmed[c].rev \in Nat /\ call[c].reply.rev \in Nat
            BY DEF Written, Visible, LogInv, LogOK, TxOK, ClientsOK, CallsOK
        <3>2. r.rev > confirmed[c].rev
            BY <1>1, <2>1, <3>1
        <3>3. r.id \in Mine(c)
            BY <2>1, <3>2 DEF OwnInv, OwnRows
        <3>4. PICK s \in rows : s.id = r.id
            BY <3>3 DEF Ids
        <3>5. r \in rows
            BY <3>4 DEF Written, Visible, LogInv, TxOK
        <3> QED
            BY <1>1, <2>1, <3>1, <3>3, <3>5
    <2> QED
        BY <1>1, <1>2, <2>1 DEF OwnInv, OwnRows
<1>5. OwnRequests'
    <2>1. \A q \in late : q.from \in Clients
        BY DEF LogInv, CallsOK, RequestOK
    <2>2. tx # NoTx => tx.from \in Clients /\ (tx.live => tx.from # c)
        BY DEF LogInv, TxOK
    <2> DEFINE after(d) == IF session'[d] = NoSession THEN {} ELSE session'[d].ids
    <2>3. \A d \in Clients : Mine(d) \subseteq Ids(rows) \cup after(d)
        BY DEF Mine
    <2>4. \A d \in Clients \ {c} : Mine(d) = after(d)
        BY DEF Mine
    <2> HIDE DEF after
    <2>5. \A q \in late : Ids(q.ops) \subseteq Ids(rows) \cup after(q.from)
        BY <2>1, <2>3 DEF OwnInv, OwnRequests
    <2>6. ASSUME tx # NoTx
          PROVE  Ids(tx.todo) \subseteq Ids(Visible) \cup after(tx.from)
        BY <1>3, <2>2, <2>3, <2>6 DEF OwnInv, OwnRequests
    <2>7. ASSUME tx # NoTx, tx.live
          PROVE  /\ tx.known = confirmed'[tx.from].rev
                 /\ Ids(tx.accepted) \cup Ids(tx.todo) = after(tx.from)
        BY <1>1, <2>2, <2>4, <2>7 DEF OwnInv, OwnRequests
    <2> QED
        BY <1>1, <2>5, <2>6, <2>7 DEF OwnRequests, Mine, NoSession, Ids, after, Visible
<1>6. OwnAnswers'
    <2>1. \A d \in Clients : call'[d].phase \in {"answered", "polled"} => d # c
        BY <1>1
    <2>2. \A d \in Clients : d # c => call'[d] = call[d] /\ Mine(d)' = Mine(d)
        BY <1>1, <1>2
    <2>3. \A d \in Clients : call'[d].phase = "answered" =>
              call'[d].phase \in {"answered", "polled"}
        OBVIOUS
    <2> QED
        BY <1>1, <2>1, <2>2, <2>3 DEF OwnInv, OwnAnswers
<1> QED
    BY <1>4, <1>5, <1>6 DEF OwnInv

LEMMA ProcessResponseOwn ==
    ASSUME LogInv, OwnInv, NEW c \in Clients, ProcessResponse(c)
    PROVE  OwnInv'
<1>1. call[c].phase = "answered" /\ UNCHANGED server
    BY DEF ProcessResponse
<1>2. CASE Ids(call[c].reply.accepted) = Ids(call[c].request.ops)
    <2>1. /\ confirmed[c].rev <= call[c].reply.rev /\ Mine(c) \subseteq Ids(rows)
          /\ \A r \in rows : r.id \in Mine(c) => r.rev <= call[c].reply.rev
        BY <1>1 DEF LogInv, ReadersOK, OwnInv, OwnAnswers
    <2>2. session'[c] = NoSession /\ \A d \in Clients \ {c} : session'[d] = session[d]
        BY <1>2 DEF ProcessResponse, LogInv, ClientsOK
    <2>3. /\ confirmed' = [confirmed EXCEPT ![c] =
                [rev |-> call[c].reply.rev, doc |-> call[c].reply.doc]]
          /\ call' = [call EXCEPT ![c] = Idle]
        BY <1>2 DEF ProcessResponse
    <2> QED
        BY <1>1, <2>1, <2>2, <2>3, PersistOwn
<1>3. CASE Ids(call[c].reply.accepted) # Ids(call[c].request.ops)
    <2>1. UNCHANGED <<session, confirmed>> /\ call' = [call EXCEPT ![c] = Idle]
        BY <1>3 DEF ProcessResponse
    <2>2. \A d \in Clients : call'[d].phase \in {"answered", "polled"} => call'[d] = call[d]
        BY <2>1 DEF LogInv, ClientsOK, Idle
    <2> QED
        BY <1>1, <2>1, <2>2, OwnServerUntouched
<1> QED
    BY <1>2, <1>3

LEMMA ProcessPollOwn ==
    ASSUME LogInv, OwnInv, NEW c \in Clients, ProcessPoll(c)
    PROVE  OwnInv'
<1>1. call[c].phase = "polled" /\ UNCHANGED <<server, session>> /\ session[c] = NoSession
    BY DEF ProcessPoll, LogInv, GateOK, PollPhases
<1>2. CASE call[c].reply.remote # {} /\ call[c].reply.rev >= confirmed[c].rev
    <2>1. confirmed[c].rev <= call[c].reply.rev
        BY <1>1, <1>2 DEF LogInv, ClientsOK, CallsOK
    <2>2. Mine(c) = {}
        BY <1>1 DEF Mine
    <2>3. /\ confirmed' = [confirmed EXCEPT ![c] =
                [rev |-> call[c].reply.rev, doc |-> call[c].reply.doc]]
          /\ call' = [call EXCEPT ![c] = Idle]
        BY <1>2 DEF ProcessPoll
    <2> QED
        BY <1>1, <2>1, <2>2, <2>3, PersistOwn
<1>3. CASE ~(call[c].reply.remote # {} /\ call[c].reply.rev >= confirmed[c].rev)
    <2>1. UNCHANGED confirmed /\ call' = [call EXCEPT ![c] = Idle]
        BY <1>3 DEF ProcessPoll
    <2>2. \A d \in Clients : call'[d].phase \in {"answered", "polled"} => call'[d] = call[d]
        BY <2>1 DEF LogInv, ClientsOK, Idle
    <2> QED
        BY <1>1, <2>1, <2>2, OwnServerUntouched
<1> QED
    BY <1>2, <1>3

LEMMA ClientOwn ==
    ASSUME LogInv, OwnInv, NEW c \in Clients, ClientStep(c)
    PROVE  OwnInv'
<1>1. CASE Type(c) \/ Flush(c) \/ Reconcile(c) \/ Rebuild(c)
    BY <1>1, OwnServerUntouched DEF Type, Flush, Reconcile, Rebuild
<1>2. CASE ProcessError(c) \/ StartPoll(c)
    <2>1. UNCHANGED <<server, session, confirmed>>
        BY <1>2 DEF ProcessError, StartPoll
    <2>2. \A d \in Clients : call'[d].phase \in {"answered", "polled"} => call'[d] = call[d]
        BY <1>2 DEF ProcessError, StartPoll, Idle, LogInv, ClientsOK
    <2> QED
        BY <2>1, <2>2, OwnServerUntouched
<1>3. CASE Resume(c)
    <2>1. Ids(WithStatus(outbox[c], "in_flight")) = session[c].ids
        BY <1>3 DEF Resume, LogInv, SessionOwnsInFlight
    <2>2. UNCHANGED <<server, session, confirmed>>
        BY <1>3, <2>1 DEF Resume
    <2>3. \A d \in Clients : call'[d].phase \in {"answered", "polled"} => call'[d] = call[d]
        BY <1>3, <2>1 DEF Resume, Send, LogInv, ClientsOK
    <2> QED
        BY <2>2, <2>3, OwnServerUntouched
<1> QED
    BY <1>1, <1>2, <1>3, StartSyncOwn, ProcessResponseOwn, ProcessPollOwn DEF ClientStep

\* A transaction starts on a request of an open session, or on a late one.
LEMMA BeginOwn ==
    ASSUME LogInv, OwnInv, tx = NoTx, NEW request, NEW live, BeginWith(request, live),
           UNCHANGED <<rows, session, confirmed>>, late' \subseteq late,
           Ids(request.ops) \subseteq Ids(rows) \cup Mine(request.from),
           live => /\ request.known = confirmed[request.from].rev
                   /\ Ids(request.ops) = Mine(request.from),
           \A c \in Clients : call'[c].phase \in {"answered", "polled"} => call'[c] = call[c]
    PROVE  OwnInv'
<1>1. /\ tx'.from = request.from /\ tx'.live = live /\ tx'.known = request.known
      /\ tx'.todo = request.ops /\ tx'.accepted = {} /\ tx'.added = {}
    BY DEF BeginWith
<1>2. Visible' = rows /\ Written' = Written
    BY <1>1 DEF Visible, Written
<1>3. \A c : Mine(c)' = Mine(c)
    BY DEF Mine, NoSession
<1>4. OwnRequests'
    BY <1>1, <1>2, <1>3 DEF OwnInv, OwnRequests, Ids
<1> QED
    BY <1>2, <1>4, OwnUntouched

LEMMA BeginSyncOwn ==
    ASSUME LogInv, QueueInv, OwnInv, NEW c \in Clients, BeginSync(c)
    PROVE  OwnInv'
<1> DEFINE request == call[c].request
<1>1. /\ call[c].phase = "syncing" /\ DOMAIN call[c] = {"phase", "request"}
      /\ request.from = c /\ session[c] # NoSession
      /\ Ids(request.ops) = session[c].ids /\ request = SessionBatch(c)
    BY DEF BeginSync, LogInv, CallsOK, GateOK, QueueInv, SessionsFollow, SyncPhases
<1>2. Ids(request.ops) = Mine(c) /\ request.known = confirmed[c].rev
    BY <1>1 DEF Mine, SessionBatch, QueueInv, SessionsFollow
<1>3. \A d \in Clients : call'[d].phase \in {"answered", "polled"} => call'[d] = call[d]
    <2>1. call' = [call EXCEPT ![c].phase = "serving"] /\ DOMAIN call = Clients
        BY DEF BeginSync, LogInv, ClientsOK
    <2>2. call'[c].phase = "serving" /\ \A d \in Clients \ {c} : call'[d] = call[d]
        BY <1>1, <2>1
    <2> QED
        BY <2>2
<1>4. /\ tx = NoTx /\ BeginWith(request, TRUE)
      /\ UNCHANGED <<rows, late, session, confirmed>>
    BY DEF BeginSync
<1> HIDE DEF request
<1> QED
    BY <1>1, <1>2, <1>3, <1>4, BeginOwn

LEMMA BeginLateOwn ==
    ASSUME LogInv, OwnInv, BeginLate
    PROVE  OwnInv'
<1>1. PICK request \in late :
        /\ tx = NoTx /\ BeginWith(request, FALSE) /\ late' = late \ {request}
        /\ UNCHANGED <<rows, client>>
    BY DEF BeginLate
<1>2. UNCHANGED <<session, confirmed, call>>
    BY <1>1 DEF client
<1>3. Ids(request.ops) \subseteq Ids(rows) \cup Mine(request.from)
    BY DEF OwnInv, OwnRequests
<1> QED
    BY <1>1, <1>2, <1>3, BeginOwn

LEMMA ServeReplayOwn ==
    ASSUME LogInv, OwnInv, ServeReplay
    PROVE  OwnInv'
<1> DEFINE ack == [id |-> NextOp.id, rev |-> LogRow(NextOp).rev]
<1>1. tx # NoTx /\ DOMAIN tx = TxFields /\ NextOp \in tx.todo
    BY NextOpIsQueued DEF ServeReplay, Serving, LogInv, TxOK
<1>2. /\ tx' = [tx EXCEPT !.todo = @ \ {NextOp}, !.accepted = @ \cup {ack}]
      /\ UNCHANGED <<rows, late, session, confirmed, call>>
    BY DEF ServeReplay, client
<1>3. ack.id = NextOp.id
    OBVIOUS
<1> HIDE DEF ack
<1>4. /\ tx'.from = tx.from /\ tx'.live = tx.live /\ tx'.known = tx.known
      /\ tx'.added = tx.added
      /\ tx'.todo = tx.todo \ {NextOp} /\ tx'.accepted = tx.accepted \cup {ack}
    BY <1>1, <1>2 DEF TxFields
<1>5. tx' # NoTx /\ Visible' = Visible /\ Written' = Written
    <2>1. DOMAIN tx' = TxFields
        BY <1>1, <1>2
    <2> QED
        BY <1>1, <1>2, <1>4, <2>1 DEF NoTx, TxFields, Visible, Written
<1>6. Ids(tx'.accepted) \cup Ids(tx'.todo) = Ids(tx.accepted) \cup Ids(tx.todo)
    BY <1>1, <1>3, <1>4 DEF Ids
<1>7. Ids(tx'.todo) \subseteq Ids(tx.todo)
    BY <1>4 DEF Ids
<1>8. \A c : Mine(c)' = Mine(c)
    BY <1>2 DEF Mine, NoSession
<1>9. OwnRequests'
    BY <1>1, <1>2, <1>4, <1>5, <1>6, <1>7, <1>8 DEF OwnInv, OwnRequests
<1> QED
    BY <1>2, <1>5, <1>9, OwnUntouched

\* The new row is of the transaction's client, whose session waits for it.
LEMMA ServeOperationOwn ==
    ASSUME LogInv, OwnInv, ServeOperation
    PROVE  OwnInv'
<1> DEFINE op == NextOp
           row == NewRow(op, TransformedDelta)
           ack == [id |-> op.id, rev |-> tx.rev + 1]
           doc == ServerApply(tx.doc, [op EXCEPT !.delta = TransformedDelta])
<1>1. tx # NoTx /\ DOMAIN tx = TxFields /\ op \in tx.todo /\ tx.from \in Clients
    BY NextOpIsQueued DEF ServeOperation, Serving, LogInv, TxOK
<1>2. /\ tx' = [tx EXCEPT !.todo = @ \ {op}, !.accepted = @ \cup {ack}, !.rev = @ + 1,
                          !.doc = doc, !.added = @ \cup {row}]
      /\ UNCHANGED <<rows, late, session, confirmed, call>>
    BY <1>1 DEF ServeOperation, TxFields, client
<1>3. /\ row.id = op.id /\ row.actor = tx.from /\ ack.id = op.id
      /\ {"kind", "block", "actor"} \subseteq DOMAIN row
    BY DEF NewRow
<1>4. op.id \notin Ids(Visible)
    BY DEF ServeOperation, Known, Ids
<1> HIDE DEF row, ack, doc, op
<1>5. /\ tx'.from = tx.from /\ tx'.live = tx.live /\ tx'.known = tx.known
      /\ tx'.added = tx.added \cup {row} /\ DOMAIN tx' = TxFields
      /\ tx'.todo = tx.todo \ {op} /\ tx'.accepted = tx.accepted \cup {ack}
    BY <1>1, <1>2 DEF TxFields
<1>6. /\ tx' # NoTx /\ Visible' = Visible \cup {row}
      /\ Written = Visible /\ Written' = Visible'
    <2>1. tx' # NoTx /\ tx # NoTx
        BY <1>1, <1>5 DEF NoTx, TxFields
    <2>2. Visible' = Visible \cup {row}
        BY <1>2, <1>5, <2>1 DEF Visible
    <2> QED
        BY <1>2, <2>1, <2>2 DEF Written
<1>7. \A c : Mine(c)' = Mine(c)
    BY <1>2 DEF Mine, NoSession
<1>8. row.id \in Mine(tx.from)
    <2>1. op.id \in Ids(tx.todo)
        BY <1>1 DEF Ids
    <2> QED
        BY <1>1, <1>3, <1>4, <2>1 DEF OwnInv, OwnRequests
<1>9. OwnRows'
    BY <1>2, <1>3, <1>6, <1>7, <1>8 DEF OwnInv, OwnRows
<1>10. OwnRequests'
    <2>1. Ids(tx'.accepted) \cup Ids(tx'.todo) = Ids(tx.accepted) \cup Ids(tx.todo)
        BY <1>1, <1>3, <1>5 DEF Ids
    <2>2. Ids(tx'.todo) \subseteq Ids(tx.todo) /\ Ids(Visible) \subseteq Ids(Visible')
        BY <1>5, <1>6 DEF Ids
    <2> QED
        BY <1>1, <1>2, <1>5, <1>6, <1>7, <2>1, <2>2 DEF OwnInv, OwnRequests
<1>11. OwnAnswers'
    BY <1>2, <1>7 DEF OwnInv, OwnAnswers
<1> QED
    BY <1>9, <1>10, <1>11 DEF OwnInv

LEMMA RollbackOwn ==
    ASSUME LogInv, OwnInv, tx # NoTx, NEW status, Rollback(status)
    PROVE  OwnInv'
<1>1. /\ UNCHANGED <<rows, late, session, confirmed>> /\ tx' = NoTx
      /\ Answer("failed", [status |-> status])
    BY DEF Rollback
<1>2. \A c \in Clients : call'[c] = call[c] \/ call'[c].phase = "failed"
    BY <1>1, AnswerEffect
<1>3. \A c \in Clients : call'[c].phase \in {"answered", "polled"} => call'[c] = call[c]
    BY <1>2
<1>4. Written' \subseteq Written
    BY <1>1 DEF Written, Visible
<1>5. \A c : Mine(c)' = Mine(c)
    BY <1>1 DEF Mine, NoSession
<1>6. OwnRequests'
    BY <1>1, <1>5 DEF OwnInv, OwnRequests
<1> QED
    BY <1>1, <1>3, <1>4, <1>6, OwnUntouched

\* A caller that still waits has its whole session acknowledged, and what is
\* not acknowledged above its revision is of others.
LEMMA CommitOwn ==
    ASSUME LogInv, OwnInv, Commit
    PROVE  OwnInv'
<1> DEFINE remote == {r \in Visible : r.rev > tx.known /\ r.id \notin Ids(tx.accepted)}
           reply == [accepted |-> tx.accepted, rev |-> tx.rev, doc |-> tx.doc,
                     remote |-> remote]
<1>1. /\ tx # NoTx /\ tx.todo = {} /\ tx' = NoTx /\ rows' = Visible /\ rows \subseteq Visible
      /\ UNCHANGED <<late, session, confirmed>> /\ Answer("answered", reply)
    BY DEF Commit, Visible
<1>2. reply.rev = tx.rev /\ reply.accepted = tx.accepted /\ reply.remote = remote
    OBVIOUS
<1> HIDE DEF reply
<1>3. Written' = Written /\ Written = Visible
    BY <1>1 DEF Written
<1>4. \A c : Mine(c)' = Mine(c)
    BY <1>1 DEF Mine, NoSession
<1>5. OwnRows'
    BY <1>1, <1>3, <1>4 DEF OwnInv, OwnRows
<1>6. OwnRequests'
    BY <1>1, <1>4 DEF OwnInv, OwnRequests, Ids
<1>7. ASSUME NEW c \in Clients
      PROVE  /\ call'[c].phase = "answered" =>
                /\ Ids(call'[c].reply.accepted) = Mine(c)
                /\ \A r \in rows' : r.id \in Mine(c) => r.rev <= call'[c].reply.rev
             /\ call'[c].phase \in {"answered", "polled"} =>
                /\ call'[c].reply.remote \subseteq rows'
                /\ \A r \in call'[c].reply.remote : r.actor # c
    <2>1. CASE call'[c] = call[c]
        <3>1. ASSUME call[c].phase = "answered", NEW r \in rows', r.id \in Mine(c)
              PROVE  r \in rows
            <4>1. PICK s \in rows : s.id = r.id
                BY <3>1 DEF OwnInv, OwnAnswers, LogInv, ReadersOK, Ids
            <4> QED
                BY <1>1, <3>1, <4>1 DEF LogInv, TxOK
        <3> QED
            BY <1>1, <2>1, <3>1 DEF OwnInv, OwnAnswers
    <2>2. CASE call'[c] # call[c]
        <3>1. c = tx.from /\ call'[c].phase = "answered" /\ call'[c].reply = reply
            BY <1>1, <2>2, AnswerEffect
        <3>2. tx.live
            BY <1>1, <2>2 DEF Answer
        <3>3. tx.known = confirmed[c].rev /\ Ids(tx.accepted) = Mine(c)
            BY <1>1, <3>1, <3>2 DEF OwnInv, OwnRequests, Ids
        <3>4. \A r \in Visible : r.rev <= tx.rev
            BY <1>1, LogIsReplayed
        <3>5. \A r \in remote : r.actor # c
            BY <1>3, <3>3 DEF OwnInv, OwnRows
        <3> QED
            BY <1>1, <1>2, <3>1, <3>3, <3>4, <3>5
    <2> QED
        BY <2>1, <2>2
<1>8. OwnAnswers'
    BY <1>4, <1>7 DEF OwnAnswers, Ids
<1> QED
    BY <1>5, <1>6, <1>8 DEF OwnInv

\* Who polls has no session, so nothing of its own is above its revision.
LEMMA ServePollOwn ==
    ASSUME LogInv, OwnInv, NEW c \in Clients, ServePoll(c)
    PROVE  OwnInv'
<1>1. /\ UNCHANGED <<rows, late, tx, session, confirmed>>
      /\ call[c].phase = "polling" /\ call'[c].phase = "polled"
      /\ call'[c].reply.remote = {r \in rows : r.rev > confirmed[c].rev}
      /\ \A d \in Clients \ {c} : call'[d] = call[d]
    BY DEF ServePoll, server, LogInv, ClientsOK
<1>2. Mine(c) = {}
    BY <1>1 DEF Mine, LogInv, GateOK, PollPhases
<1>3. (\A d : Mine(d)' = Mine(d)) /\ Visible' = Visible /\ Written' = Written
    BY <1>1 DEF Mine, NoSession, Visible, Written
<1>4. rows \subseteq Written
    BY DEF Written, Visible
<1>5. OwnRows' /\ OwnRequests'
    BY <1>1, <1>3 DEF OwnInv, OwnRows, OwnRequests
<1>6. OwnAnswers'
    BY <1>1, <1>2, <1>3, <1>4 DEF OwnInv, OwnRows, OwnAnswers
<1> QED
    BY <1>5, <1>6 DEF OwnInv

LEMMA ServerOwn ==
    ASSUME LogInv, QueueInv, OwnInv, ServerStep
    PROVE  OwnInv'
<1>1. CASE ServeConflict \/ ServeInvalid \/ ServeNotCanonical
    BY <1>1, RollbackOwn DEF ServeConflict, ServeInvalid, ServeNotCanonical, Serving
<1> QED
    BY <1>1, BeginLateOwn, ServeReplayOwn, ServeOperationOwn, CommitOwn, BeginSyncOwn,
       ServePollOwn DEF ServerStep

\* A request that nobody waits for is still that of its session.
LEMMA OrphanedOwn ==
    ASSUME LogInv, OwnInv, NEW c \in Clients, Orphaned(c),
           UNCHANGED <<rows, session, confirmed>>
    PROVE  OwnInv'
<1>1. \A d \in Clients : call'[d].phase \in {"answered", "polled"} => call'[d] = call[d]
    BY DEF Orphaned, LogInv, ClientsOK, Idle
<1>2. \A d : Mine(d)' = Mine(d)
    BY DEF Mine, NoSession
<1>3. \A q \in late' : Ids(q.ops) \subseteq Ids(rows) \cup Mine(q.from)
    <2>1. CASE call[c].phase = "syncing"
        <3>1. late' = late \cup {call[c].request}
            BY <2>1 DEF Orphaned
        <3>2. call[c].request.from = c /\ Ids(call[c].request.ops) = Mine(c)
            BY <2>1 DEF LogInv, CallsOK, GateOK, SyncPhases, Mine
        <3> QED
            BY <3>1, <3>2 DEF OwnInv, OwnRequests
    <2>2. CASE call[c].phase # "syncing"
        BY <2>2 DEF Orphaned, OwnInv, OwnRequests
    <2> QED
        BY <2>1, <2>2
<1>4. CASE tx' = tx
    <2>1. Visible' = Visible /\ Written' = Written
        BY <1>4 DEF Visible, Written
    <2>2. OwnRequests'
        BY <1>2, <1>3, <1>4, <2>1 DEF OwnInv, OwnRequests, Ids
    <2> QED
        BY <1>1, <2>1, <2>2, OwnUntouched
<1>5. CASE tx # NoTx /\ tx' = [tx EXCEPT !.live = FALSE]
    <2>1. DOMAIN tx = TxFields
        BY <1>5 DEF LogInv, TxOK
    <2>2. /\ DOMAIN tx' = TxFields /\ tx'.live = FALSE /\ tx'.from = tx.from
          /\ tx'.todo = tx.todo /\ tx'.added = tx.added
        BY <1>5, <2>1 DEF TxFields
    <2>3. tx' # NoTx /\ Visible' = Visible /\ Written' = Written
        BY <1>5, <2>2 DEF NoTx, TxFields, Visible, Written
    <2>4. OwnRequests'
        BY <1>2, <1>3, <1>5, <2>2, <2>3 DEF OwnInv, OwnRequests, Ids
    <2> QED
        BY <1>1, <2>3, <2>4, OwnUntouched
<1>6. tx' = tx \/ (tx # NoTx /\ tx' = [tx EXCEPT !.live = FALSE])
    <2>1. [NoTx EXCEPT !.live = FALSE] = NoTx
        BY DEF NoTx
    <2> QED
        BY <2>1 DEF Orphaned
<1> QED
    BY <1>4, <1>5, <1>6

LEMMA FaultOwn ==
    ASSUME LogInv, OwnInv, Fault
    PROVE  OwnInv'
<1>1. CASE Lose
    <2>1. UNCHANGED <<rows, tx, session, confirmed, call>> /\ late' \subseteq late
        BY <1>1 DEF Lose, client
    <2>2. (\A d : Mine(d)' = Mine(d)) /\ Visible' = Visible /\ Written' = Written
        BY <2>1 DEF Mine, NoSession, Visible, Written
    <2>3. OwnRequests'
        BY <2>1, <2>2 DEF OwnInv, OwnRequests
    <2> QED
        BY <2>1, <2>2, <2>3, OwnUntouched
<1>2. CASE \E c \in Clients : Abandon(c) \/ Crash(c)
    BY <1>2, OrphanedOwn DEF Abandon, Crash
<1> QED
    BY <1>1, <1>2 DEF Fault

LEMMA OwnInvHolds == Spec => []OwnInv
<1>1. Init => OwnInv
    BY DEF Init, OwnInv, OwnRows, OwnRequests, OwnAnswers, Written, Idle
<1>2. LogInv /\ QueueInv /\ OwnInv /\ [Next]_vars => OwnInv'
    <2> SUFFICES ASSUME LogInv, QueueInv, OwnInv, [Next]_vars PROVE OwnInv'
        OBVIOUS
    <2>1. CASE Next
        BY <2>1, ClientOwn, ServerOwn, FaultOwn DEF Next
    <2>2. CASE UNCHANGED vars
        BY <2>2, OwnServerUntouched DEF vars, client
    <2> QED
        BY <2>1, <2>2
<1> QED
    BY <1>1, <1>2, LogInvHolds, QueueInvHolds, PTL DEF Spec

-------------------------------------------------------------------------------
(* What can leave an outbox.                                               *)

\* The remote rows of an answer are finitely many, each with its revision.
LEMMA RemoteRows ==
    ASSUME LogInv, OwnInv, NEW c \in Clients, call[c].phase \in {"answered", "polled"}
    PROVE  LET R == call[c].reply.remote IN
           /\ \A r \in R : Target \subseteq DOMAIN r /\ r \in rows /\ r.actor # c
           /\ Rewrites(ByRevision(R), R)
<1> DEFINE R == call[c].reply.remote
<1>1. R \in SUBSET rows /\ \A r \in R : r.actor # c
    BY DEF OwnInv, OwnAnswers
<1>2. \A r \in rows : Target \subseteq DOMAIN r
    BY DEF OwnInv, OwnRows, Written, Visible, Target
<1>3. /\ note.rev \in Nat /\ \A r \in rows : r.rev \in 1..note.rev /\ r.rev \in Nat
      /\ \A r, q \in rows : r.rev = q.rev => r = q
    BY DEF LogInv, LogOK
<1>4. IsFiniteSet(rows)
    <2> DEFINE f == [r \in rows |-> r.rev]
    <2>1. f \in Injection(rows, 1..note.rev)
        BY <1>3 DEF Injection, IsInjective
    <2>2. IsFiniteSet(1..note.rev)
        BY <1>3, FS_Interval
    <2> HIDE DEF f
    <2> QED
        BY <2>1, <2>2, FS_Injection
<1>5. IsFiniteSet(R)
    BY <1>1, <1>4, FS_Subset
<1> HIDE DEF R
<1>6. Rewrites(ByRevision(R), R)
    BY <1>1, <1>3, <1>5, RowsInOrder
<1> QED
    BY <1>1, <1>2, <1>6 DEF R

\* What a rebase takes out of an outbox is in the log or void.
LEMMA PersistLoses ==
    ASSUME LogInv, QueueInv, OwnInv, NEW c \in Clients,
           call[c].phase \in {"answered", "polled"}, Ids(InFlight(c)) \subseteq Ids(rows),
           NEW remote, Rewrites(remote, call[c].reply.remote), NEW revision,
           NEW id \in Ids(outbox[c]) \ Ids(Rebased(Pending(c), c, remote, revision))
    PROVE  id \in Ids(rows) \/ Voided(c, id)
<1> DEFINE R == call[c].reply.remote
<1>1. /\ IsFiniteSet(Pending(c)) /\ DistinctOps(Pending(c))
      /\ outbox[c] = InFlight(c) \cup Pending(c) /\ \A r \in outbox[c] : OutboxRowOK(r)
    BY OutboxRows
<1>2. CASE id \in Ids(InFlight(c))
    BY <1>2
<1>3. CASE id \in Ids(Pending(c))
    <2>1. \A r \in R : Target \subseteq DOMAIN r /\ r \in rows /\ r.actor # c
        BY RemoteRows
    <2>2. \A r \in Pending(c) : OutboxRowOK(r)
        BY <1>1
    <2> HIDE DEF R
    <2>3. Rewrites(remote, R)
        BY DEF R
    <2>4. PICK op \in Pending(c) : op.id = id /\ \E r \in R : Voids(r, op)
        BY <1>1, <1>3, <2>1, <2>2, <2>3, RebaseLoses
    <2>5. PICK r \in R : Voids(r, op)
        BY <2>4
    <2>6. op \in outbox[c] /\ op.id = id /\ op.block = r.block
        BY <1>1, <2>4, <2>5 DEF Voids
    <2>7. r \in rows /\ r.actor # c /\ r.kind \in {"delete_block", "move_block"}
        BY <2>1, <2>5 DEF Voids
    <2> QED
        BY <2>6, <2>7 DEF Voided
<1>4. Ids(outbox[c]) = Ids(InFlight(c)) \cup Ids(Pending(c))
    BY <1>1 DEF Ids
<1> QED
    BY <1>2, <1>3, <1>4

LEMMA ClientLoses ==
    ASSUME LogInv, QueueInv, OwnInv, NEW d \in Clients, ClientStep(d),
           NEW c \in Clients, NEW id \in Ids(outbox[c]) \ Ids(outbox'[c])
    PROVE  id \in Ids(rows) \/ Voided(c, id)
<1> DEFINE Lost == id \in Ids(rows) \/ Voided(c, id)
<1>1. DOMAIN outbox = Clients
    BY DEF LogInv, ClientsOK
<1>2. CASE Flush(d) \/ Reconcile(d)
    <2>1. outbox' = [outbox EXCEPT ![d] = Enqueued(outbox[d], typed[d], confirmed[d].rev)]
        BY <1>1, <1>2 DEF Flush, Reconcile
    <2>2. outbox[d] \subseteq Enqueued(outbox[d], typed[d], confirmed[d].rev)
        BY EnqueuedRows DEF LogInv, ClientsOK
    <2>3. outbox[c] \subseteq outbox'[c]
        BY <1>1, <2>1, <2>2
    <2> QED
        BY <2>3 DEF Ids
<1>3. ASSUME NEW ops, ops \in SUBSET outbox[d], OpenSession(d, ops)
      PROVE  Lost
    <2> DEFINE sent == {[r EXCEPT !.status = "in_flight"] : r \in ops}
    <2>1. outbox' = [outbox EXCEPT ![d] = (outbox[d] \ ops) \cup sent]
        BY <1>1, <1>3 DEF OpenSession
    <2>2. \A r \in ops : \E q \in sent : q.id = r.id
        <3> TAKE r \in ops
        <3>1. DOMAIN r = RowFields
            BY <1>3 DEF LogInv, ClientsOK, OutboxRowOK
        <3>2. [r EXCEPT !.status = "in_flight"].id = r.id
            BY <3>1 DEF RowFields
        <3>3. [r EXCEPT !.status = "in_flight"] \in sent
            OBVIOUS
        <3> HIDE DEF sent
        <3> QED
            BY <3>2, <3>3
    <2> HIDE DEF sent
    <2>3. \A r \in outbox[d] : \E q \in (outbox[d] \ ops) \cup sent : q.id = r.id
        BY <2>2
    <2>4. \A r \in outbox[c] : \E q \in outbox'[c] : q.id = r.id
        BY <1>1, <2>1, <2>3
    <2> QED
        BY <2>4 DEF Ids
<1>4. CASE StartSync(d)
    <2>1. WithStatus(outbox[d], "pending") \in SUBSET outbox[d]
        BY DEF WithStatus
    <2> QED
        BY <1>3, <1>4, <2>1 DEF StartSync
<1>5. CASE Resume(d)
    <2>1. UNCHANGED outbox
        BY <1>5 DEF Resume, LogInv, SessionOwnsInFlight
    <2> QED
        BY <2>1
<1>6. CASE ProcessResponse(d)
    <2> DEFINE reply == call[d].reply
               revisionOf == [i \in Ids(reply.accepted) |->
                                (CHOOSE a \in reply.accepted : a.id = i).rev]
               remote == RemoteAfterInFlight(ByRevision(reply.remote), d, InOrder(InFlight(d)), revisionOf)
    <2>1. call[d].phase = "answered" /\ call[d].request.ops = InFlight(d)
        <3>1. call[d].phase = "answered"
            BY <1>6 DEF ProcessResponse
        <3>2. call[d].request = SessionBatch(d)
            BY <3>1 DEF QueueInv, SessionsFollow, SyncPhases
        <3> QED
            BY <3>1, <3>2 DEF SessionBatch
    <2>2. c = d /\ outbox'[c] = Rebased(Pending(d), d, remote, reply.rev)
        BY <1>1, <1>6, <2>1 DEF ProcessResponse, Pending
    <2>3. Ids(InFlight(d)) \subseteq Ids(rows)
        <3>1. Ids(reply.accepted) = Ids(call[d].request.ops)
            BY <1>6 DEF ProcessResponse
        <3> QED
            BY <2>1, <3>1 DEF LogInv, ReadersOK
    <2>4. InOrder(InFlight(d)) \in Seq(InFlight(d))
        <3>1. /\ InFlight(d) \in SUBSET outbox[d] /\ IsFiniteSet(outbox[d])
              /\ DistinctOps(outbox[d]) /\ \A r \in outbox[d] : r.ord \in Nat
            BY OutboxRows DEF InFlight, WithStatus, OutboxRowOK
        <3>2. IsFiniteSet(InFlight(d))
            BY <3>1, FS_Subset
        <3>3. /\ \A r \in InFlight(d) : r.ord \in Nat
              /\ \A r, q \in InFlight(d) : r.ord = q.ord => r = q
            BY <3>1 DEF DistinctOps
        <3> QED
            BY <3>2, <3>3, InOrderLists
    <2> HIDE DEF revisionOf
    <2>5. Rewrites(remote, reply.remote)
        <3>1. /\ \A r \in reply.remote : Target \subseteq DOMAIN r
              /\ Rewrites(ByRevision(reply.remote), reply.remote)
            BY <2>1, RemoteRows
        <3> HIDE DEF reply
        <3> QED
            BY <2>4, <3>1, InFlightPass
    <2> HIDE DEF remote
    <2> QED
        BY <2>1, <2>2, <2>3, <2>5, PersistLoses
<1>7. CASE ProcessPoll(d)
    <2> DEFINE reply == call[d].reply
    <2>1. call[d].phase = "polled" /\ session[d] = NoSession
        BY <1>7 DEF ProcessPoll, LogInv, GateOK, PollPhases
    <2>2. c = d /\ outbox'[c] = Rebased(Pending(d), d, ByRevision(reply.remote), reply.rev)
        BY <1>1, <1>7 DEF ProcessPoll, Pending
    <2>3. Ids(InFlight(d)) \subseteq Ids(rows)
        BY <2>1, OutboxRows DEF Ids
    <2>4. Rewrites(ByRevision(reply.remote), reply.remote)
        BY <2>1, RemoteRows
    <2> QED
        BY <2>1, <2>2, <2>3, <2>4, PersistLoses
<1>8. CASE Type(d) \/ Rebuild(d) \/ ProcessError(d) \/ StartPoll(d)
    <2>1. UNCHANGED outbox
        BY <1>8 DEF Type, Rebuild, ProcessError, StartPoll
    <2> QED
        BY <2>1
<1> QED
    BY <1>2, <1>4, <1>5, <1>6, <1>7, <1>8 DEF ClientStep

-------------------------------------------------------------------------------
(* The properties.                                                         *)

\* The parts of the inductive invariant hold together in every reachable state.
THEOREM InvariantHolds == Spec => []IndInv
BY LogInvHolds, QueueInvHolds, ReplayInvHolds, OwnInvHolds, PTL DEF IndInv

\* Every variable has its type in every reachable state.
THEOREM TypeCorrect == Spec => []TypeOK
<1>1. LogInv => TypeOK
    <2> SUFFICES ASSUME LogInv PROVE TypeOK
        OBVIOUS
    <2>1. /\ note.rev \in Nat
          /\ \A r \in rows : r.rev \in Nat /\ r.id \in OpIds /\ r.actor \in Clients
        BY DEF LogInv, LogOK
    <2>2. tx # NoTx => tx.from \in Clients /\ tx.rev \in Nat
        BY DEF LogInv, TxOK
    <2>3. \A c \in Clients : call[c].phase \in {"idle", "syncing", "serving", "answered",
                                                "failed", "polling", "polled"}
        BY DEF LogInv, CallsOK, SyncPhases, PollPhases
    <2> QED
        BY <2>1, <2>2, <2>3 DEF TypeOK, LogInv, ClientsOK, OutboxRowOK
<1> QED
    BY LogInvHolds, <1>1, PTL

\* However often requests are repeated, lost, delayed or cut off, the log
\* holds every operation at most once and its revisions have no gap.
THEOREM ExactlyOnce == Spec => []LogIsExactlyOnce
<1>1. LogInv => LogIsExactlyOnce
    BY DEF LogInv, LogOK, LogIsExactlyOnce
<1> QED
    BY LogInvHolds, <1>1, PTL

\* No operation is ever in flight outside the session that sent it, so a poll
\* never finds one to delete and a retry never recovers a foreign session.
THEOREM GateHolds == Spec => []SessionOwnsInFlight
<1>1. LogInv => SessionOwnsInFlight
    BY DEF LogInv
<1> QED
    BY LogInvHolds, <1>1, PTL

\* As many revisions lie between the known one and the transaction's as
\* operations were accepted, at least.
LEMMA AcceptedFits ==
    ASSUME IndInv, tx # NoTx
    PROVE  tx.known + Cardinality(tx.accepted) <= tx.rev
<1> DEFINE A == tx.accepted
           T == (tx.known + 1)..tx.rev
           f == [a \in A |-> a.rev]
<1>1. /\ TxFollows /\ TxOK /\ LogOK
    BY DEF IndInv, LogInv, QueueInv
<1>2. /\ tx.known \in Nat /\ tx.rev \in Nat /\ note.rev \in Nat
      /\ tx.known <= note.rev /\ note.rev <= tx.rev /\ IsFiniteSet(A)
    BY <1>1 DEF TxFollows, TxOK, LogOK
<1>3. \A r \in Visible : r.rev \in Nat /\ r.rev <= tx.rev
    <2>1. \A r \in rows : r.rev \in 1..note.rev
        BY <1>1 DEF LogOK
    <2>2. \A r \in tx.added : r.rev \in (note.rev + 1)..tx.rev
        BY <1>1 DEF TxOK
    <2> QED
        BY <1>2, <2>1, <2>2 DEF Visible
<1>4. \A a \in A : \E r \in Visible : a = [id |-> r.id, rev |-> r.rev] /\ r.rev > tx.known
    BY <1>1 DEF TxFollows
<1>5. \A a \in A : a.rev \in T
    BY <1>2, <1>3, <1>4
<1>6. \A a, b \in A : a.rev = b.rev => a = b
    <2> SUFFICES ASSUME NEW a \in A, NEW b \in A, a.rev = b.rev PROVE a = b
        OBVIOUS
    <2>1. PICK r \in Visible : a = [id |-> r.id, rev |-> r.rev]
        BY <1>4
    <2>2. PICK s \in Visible : b = [id |-> s.id, rev |-> s.rev]
        BY <1>4
    <2>3. r.rev = s.rev
        BY <2>1, <2>2
    <2>4. r = s
        BY <1>1, <2>3 DEF TxOK
    <2> QED
        BY <2>1, <2>2, <2>4
<1>7. IsFiniteSet(T) /\ Cardinality(T) = tx.rev - tx.known
    <2>1. PICK m, n \in Nat : m = tx.known /\ n = tx.rev /\ m <= n
        BY <1>2
    <2>2. /\ IsFiniteSet((m + 1)..n)
          /\ Cardinality((m + 1)..n) = IF m + 1 > n THEN 0 ELSE n - (m + 1) + 1
        BY FS_Interval
    <2> QED
        BY <2>1, <2>2
<1>8. Cardinality(A) \in Nat /\ Cardinality(T) \in Nat
    BY <1>2, <1>7, FS_CardinalityType
<1>9. ~(Cardinality(T) < Cardinality(A))
    <2>1. f \in [A -> T] /\ \A a, b \in A : a # b => f[a] # f[b]
        BY <1>5, <1>6
    <2> HIDE DEF A, T, f
    <2> QED
        BY <1>2, <1>7, <2>1, FS_PigeonHole
<1> QED
    BY <1>2, <1>7, <1>8, <1>9

\* Retries repeat a request, the outbox is a chain, and no operation is ahead
\* of the server when its turn comes.
THEOREM RequestsFollow == Spec => []RequestsFollowTheLog
<1>1. ASSUME IndInv
      PROVE  RequestsFollowTheLog
    <2>1. RetriesAreIdentical
        <3>1. \A c \in Clients : RequestsOf(c) \subseteq Batches
            <4>1. ASSUME NEW c \in Clients, call[c].phase \in {"syncing", "serving"}
                  PROVE  call[c].request \in Batches
                <5>1. call[c].request = SessionBatch(c) /\ session[c] # NoSession
                    BY <1>1, <4>1 DEF IndInv, LogInv, QueueInv, GateOK, SessionsFollow, SyncPhases
                <5> QED
                    BY <1>1, <5>1, BatchFacts DEF IndInv
            <4>2. late \subseteq Batches
                BY <1>1, BatchFacts DEF IndInv
            <4> QED
                BY <4>1, <4>2 DEF RequestsOf
        <3>2. \A p, q \in Batches : Ids(p.ops) \cap Ids(q.ops) # {} => p.ops = q.ops
            BY <1>1 DEF IndInv, QueueInv, BatchesFollow
        <3> QED
            BY <3>1, <3>2 DEF RetriesAreIdentical
    <2>2. BaseChain
        BY <1>1 DEF IndInv, QueueInv
    <2>3. NeverAheadOfServer
        <3> SUFFICES ASSUME Serving PROVE NextOp.base <= tx.rev
            BY DEF NeverAheadOfServer
        <3>1. NextOp \in tx.todo /\ NextOp.ord = Cardinality(tx.accepted)
            BY <1>1, NextOpFollows DEF IndInv
        <3>2. tx # NoTx /\ \A op \in tx.todo : op.base = tx.known + op.ord
            BY <1>1 DEF IndInv, QueueInv, TxFollows, Serving
        <3>3. NextOp.base = tx.known + Cardinality(tx.accepted)
            BY <3>1, <3>2
        <3> QED
            BY <1>1, <3>2, <3>3, AcceptedFits
    <2> QED
        BY <2>1, <2>2, <2>3 DEF RequestsFollowTheLog
<1> QED
    BY InvariantHolds, <1>1, PTL

\* The stored document and every snapshot a client holds are the replay of
\* the log up to the revision they carry, however requests, answers, polls
\* and commits interleave.
THEOREM Replays == Spec => []SnapshotsAreReplays
<1>1. ReplayInv => SnapshotsAreReplays
    BY DEF ReplayInv
<1> QED
    BY ReplayInvHolds, <1>1, PTL

\* An operation that was made durable on its device leaves the outbox only
\* when it is in the log, or when someone else's deletion or move of its block
\* made it void, whatever is typed, lost, retried, resumed or rebased.
THEOREM NothingIsLost == Spec => NothingLost
<1>1. LogInv /\ QueueInv /\ OwnInv /\ [Next]_vars =>
            [\A c \in Clients : \A id \in Ids(outbox[c]) \ Ids(outbox'[c]) :
                id \in Ids(rows) \/ Voided(c, id)]_vars
    <2> SUFFICES ASSUME LogInv, QueueInv, OwnInv, [Next]_vars, NEW c \in Clients,
                        NEW id \in Ids(outbox[c]) \ Ids(outbox'[c])
                 PROVE  id \in Ids(rows) \/ Voided(c, id)
        OBVIOUS
    <2>1. CASE ServerStep
        <3>1. UNCHANGED outbox
            BY <2>1 DEF ServerStep, BeginLate, ServeReplay, ServeOperation, ServeConflict,
                        ServeInvalid, ServeNotCanonical, Rollback, Commit, BeginSync,
                        ServePoll, client
        <3> QED
            BY <3>1
    <2>2. CASE Fault
        <3>1. UNCHANGED outbox
            BY <2>2 DEF Fault, Lose, Abandon, Crash, client
        <3> QED
            BY <3>1
    <2>3. CASE UNCHANGED vars
        BY <2>3 DEF vars, client
    <2> QED
        BY <2>1, <2>2, <2>3, ClientLoses DEF Next
<1> QED
    BY <1>1, LogInvHolds, QueueInvHolds, OwnInvHolds, PTL DEF Spec, NothingLost

-------------------------------------------------------------------------------
(* Refinement of the abstract log.                                         *)

\* A client moved from one snapshot to another that is not older.
Advances(c) ==
    /\ UNCHANGED <<note, rows>>
    /\ DOMAIN confirmed' = Clients
    /\ \A d \in Clients \ {c} : confirmed'[d] = confirmed[d]
    /\ confirmed'[c].rev \in Nat
    /\ confirmed[c].rev <= confirmed'[c].rev /\ confirmed'[c].rev <= note.rev

\* What a step can do to the log and to its readers: nothing, a commit, or
\* one client that advances.
LEMMA StepEffect ==
    ASSUME LogInv, [Next]_vars
    PROVE  \/ UNCHANGED <<note, rows, confirmed>>
           \/ Commit /\ UNCHANGED confirmed
           \/ \E c \in Clients : Advances(c)
<1>1. ASSUME NEW c \in Clients, ProcessResponse(c)
      PROVE  UNCHANGED <<note, rows, confirmed>> \/ Advances(c)
    <2>1. /\ call[c].phase = "answered" /\ DOMAIN confirmed = Clients
          /\ call[c].reply.rev \in Nat /\ call[c].reply.rev <= note.rev
          /\ confirmed[c].rev <= call[c].reply.rev
        BY <1>1 DEF ProcessResponse, LogInv, ClientsOK, CallsOK, ReadersOK
    <2>2. CASE Ids(call[c].reply.accepted) = Ids(call[c].request.ops)
        <3>1. confirmed' = [confirmed EXCEPT ![c] =
                                [rev |-> call[c].reply.rev, doc |-> call[c].reply.doc]]
              /\ UNCHANGED <<note, rows>>
            BY <1>1, <2>2 DEF ProcessResponse, server
        <3>2. confirmed'[c].rev = call[c].reply.rev
            BY <2>1, <3>1
        <3> QED
            BY <2>1, <3>1, <3>2 DEF Advances
    <2>3. CASE Ids(call[c].reply.accepted) # Ids(call[c].request.ops)
        BY <1>1, <2>3 DEF ProcessResponse, server
    <2> QED
        BY <2>2, <2>3
<1>2. ASSUME NEW c \in Clients, ProcessPoll(c)
      PROVE  UNCHANGED <<note, rows, confirmed>> \/ Advances(c)
    <2>1. /\ call[c].phase = "polled" /\ DOMAIN confirmed = Clients
          /\ call[c].reply.rev \in Nat /\ call[c].reply.rev <= note.rev
          /\ confirmed[c].rev \in Nat
        BY <1>2 DEF ProcessPoll, LogInv, ClientsOK, CallsOK, ReadersOK
    <2>2. CASE call[c].reply.remote # {} /\ call[c].reply.rev >= confirmed[c].rev
        <3>1. confirmed' = [confirmed EXCEPT ![c] =
                                [rev |-> call[c].reply.rev, doc |-> call[c].reply.doc]]
              /\ UNCHANGED <<note, rows>>
            BY <1>2, <2>2 DEF ProcessPoll, server
        <3>2. confirmed'[c].rev = call[c].reply.rev
            BY <2>1, <3>1
        <3> QED
            BY <2>1, <2>2, <3>1, <3>2 DEF Advances
    <2>3. CASE ~(call[c].reply.remote # {} /\ call[c].reply.rev >= confirmed[c].rev)
        BY <1>2, <2>3 DEF ProcessPoll, server
    <2> QED
        BY <2>2, <2>3
<1>3. ASSUME NEW c \in Clients, ClientStep(c)
      PROVE  UNCHANGED <<note, rows, confirmed>> \/ Advances(c)
    <2>1. CASE Type(c) \/ Flush(c) \/ Reconcile(c) \/ Rebuild(c)
        BY <2>1 DEF Type, Flush, Reconcile, Rebuild, server
    <2>2. CASE StartSync(c) \/ Resume(c) \/ ProcessError(c) \/ StartPoll(c)
        BY <2>2 DEF StartSync, Resume, ProcessError, StartPoll, server
    <2> QED
        BY <1>1, <1>2, <1>3, <2>1, <2>2 DEF ClientStep
<1>4. CASE ServerStep
    <2>1. CASE Commit
        BY <2>1 DEF Commit
    <2>2. CASE BeginLate
        BY <2>2 DEF BeginLate, client
    <2>3. CASE ServeReplay \/ ServeOperation
        BY <2>3 DEF ServeReplay, ServeOperation, client
    <2>4. CASE ServeConflict \/ ServeInvalid \/ ServeNotCanonical
        BY <2>4 DEF ServeConflict, ServeInvalid, ServeNotCanonical, Rollback
    <2>5. ASSUME NEW c \in Clients, BeginSync(c) \/ ServePoll(c)
          PROVE  UNCHANGED <<note, rows, confirmed>>
        BY <2>5 DEF BeginSync, ServePoll, server
    <2> QED
        BY <1>4, <2>1, <2>2, <2>3, <2>4, <2>5 DEF ServerStep
<1>5. CASE Fault
    BY <1>5 DEF Fault, Lose, Abandon, Crash, client
<1>6. CASE UNCHANGED vars
    BY <1>6 DEF vars, server, client
<1> QED
    BY <1>3, <1>4, <1>5, <1>6 DEF Next

\* A client's confirmed snapshot is never replaced by an older one, whatever
\* the order in which responses and polls are served and processed.
THEOREM NeverBack == Spec => ConfirmedNeverGoesBack
<1>1. LogInv /\ [Next]_vars => [\A c \in Clients : confirmed'[c].rev >= confirmed[c].rev]_vars
    <2> SUFFICES ASSUME LogInv, [Next]_vars, NEW c \in Clients
                 PROVE  confirmed'[c].rev >= confirmed[c].rev
        OBVIOUS
    <2>1. confirmed[c].rev \in Nat
        BY DEF LogInv, ClientsOK
    <2>2. ASSUME NEW d \in Clients, Advances(d)
          PROVE  confirmed'[c].rev >= confirmed[c].rev
        <3>1. CASE c = d
            BY <2>1, <2>2, <3>1 DEF Advances
        <3>2. CASE c # d
            BY <2>1, <2>2, <3>2 DEF Advances
        <3> QED
            BY <3>1, <3>2
    <2> QED
        BY <2>1, <2>2, StepEffect
<1> QED
    BY LogInvHolds, <1>1, PTL DEF Spec, ConfirmedNeverGoesBack

\* A table of k rows as the sequence of identifiers the abstract log holds.
LogFrom(R, k) == [n \in 1..k |-> (CHOOSE r \in R : r.rev = n).id]

GoodTable(R, k) ==
    /\ k \in Nat
    /\ \A r \in R : r.id \in OpIds
    /\ {r.rev : r \in R} = 1..k
    /\ \A r, s \in R : r.id = s.id \/ r.rev = s.rev => r = s

LEMMA RowAt ==
    ASSUME NEW R, NEW k, GoodTable(R, k), NEW n \in 1..k
    PROVE  \E r \in R : r.rev = n /\ LogFrom(R, k)[n] = r.id
<1>1. \E r \in R : r.rev = n
    <2>1. n \in {r.rev : r \in R}
        BY DEF GoodTable
    <2> QED
        BY <2>1
<1> DEFINE q == CHOOSE r \in R : r.rev = n
<1>2. q \in R /\ q.rev = n
    BY <1>1
<1>3. LogFrom(R, k)[n] = q.id
    BY DEF LogFrom
<1> HIDE DEF q
<1> QED
    BY <1>2, <1>3

LEMMA TableIsASequence ==
    ASSUME NEW R, NEW k, GoodTable(R, k)
    PROVE  /\ LogFrom(R, k) \in Seq(OpIds)
           /\ Len(LogFrom(R, k)) = k
           /\ Log!Injective(LogFrom(R, k))
<1>1. \A n \in 1..k : LogFrom(R, k)[n] \in OpIds
    BY RowAt DEF GoodTable
<1>2. LogFrom(R, k) \in [1..k -> OpIds]
    BY <1>1 DEF LogFrom
<1>3. LogFrom(R, k) \in Seq(OpIds) /\ Len(LogFrom(R, k)) = k
    BY <1>2 DEF GoodTable
<1>4. Log!Injective(LogFrom(R, k))
    <2> SUFFICES ASSUME NEW i \in 1..k, NEW j \in 1..k, i # j
                 PROVE  LogFrom(R, k)[i] # LogFrom(R, k)[j]
        BY <1>3 DEF Log!Injective
    <2>1. PICK r \in R : r.rev = i /\ LogFrom(R, k)[i] = r.id
        BY RowAt
    <2>2. PICK s \in R : s.rev = j /\ LogFrom(R, k)[j] = s.id
        BY RowAt
    <2> QED
        BY <2>1, <2>2 DEF GoodTable
<1> QED
    BY <1>3, <1>4

\* A table that grows extends the sequence.
LEMMA TableGrows ==
    ASSUME NEW R, NEW k, GoodTable(R, k), NEW T, NEW m, GoodTable(T, m),
           R \subseteq T, k <= m
    PROVE  \A n \in 1..k : LogFrom(T, m)[n] = LogFrom(R, k)[n]
<1> SUFFICES ASSUME NEW n \in 1..k
             PROVE  LogFrom(T, m)[n] = LogFrom(R, k)[n]
    OBVIOUS
<1>1. n \in 1..m
    BY DEF GoodTable
<1>2. PICK r \in R : r.rev = n /\ LogFrom(R, k)[n] = r.id
    BY RowAt
<1>3. PICK t \in T : t.rev = n /\ LogFrom(T, m)[n] = t.id
    BY <1>1, RowAt
<1>4. r = t
    BY <1>2, <1>3 DEF GoodTable
<1> QED
    BY <1>2, <1>3, <1>4

\* A commit appends to the abstract log, or does nothing to it when every
\* operation of the batch was already there.
LEMMA CommitAppends ==
    ASSUME LogInv, LogInv', Commit, UNCHANGED confirmed
    PROVE  Log!Accept \/ UNCHANGED Log!vars
<1> DEFINE old == LogFrom(rows, note.rev)
           new == LogFrom(rows', note'.rev)
           seen == [c \in Clients |-> confirmed[c].rev]
<1>1. GoodTable(rows, note.rev) /\ GoodTable(rows', note'.rev)
    BY DEF LogInv, LogOK, GoodTable
<1>2. TxOK /\ tx # NoTx /\ note'.rev = tx.rev /\ rows' = rows \cup tx.added
    BY DEF LogInv, Commit, Visible
<1>3. note.rev \in Nat /\ note'.rev \in Nat /\ note.rev <= note'.rev /\ rows \subseteq rows'
    BY <1>1, <1>2 DEF TxOK, GoodTable
<1>4. old \in Seq(OpIds) /\ Len(old) = note.rev
    BY <1>1, TableIsASequence
<1>5. new \in Seq(OpIds) /\ Len(new) = note'.rev /\ Log!Injective(new)
    BY <1>1, TableIsASequence
<1>6. \A n \in 1..note.rev : new[n] = old[n]
    BY <1>1, <1>3, TableGrows
<1>7. CASE note.rev < note'.rev
    <2>1. /\ new \in Seq(OpIds) /\ Len(new) > Len(old)
          /\ \A n \in 1..Len(old) : new[n] = old[n]
          /\ Log!Injective(new)
          /\ UNCHANGED seen
        BY <1>3, <1>4, <1>5, <1>6, <1>7
    <2> QED
        BY <2>1 DEF Log!Accept, LogFrom, IdAt
<1>8. CASE note.rev = note'.rev
    <2>1. tx.added = {}
        BY <1>2, <1>3, <1>8 DEF TxOK
    <2>2. rows' = rows
        BY <1>2, <2>1
    <2>3. UNCHANGED <<old, seen>>
        BY <1>8, <2>2 DEF LogFrom
    <2> QED
        BY <2>3 DEF Log!vars, LogFrom, IdAt
<1> QED
    BY <1>3, <1>7, <1>8

\* A client that advances learns more of the abstract log, or nothing.
LEMMA AdvanceLearns ==
    ASSUME LogInv, NEW c \in Clients, Advances(c)
    PROVE  Log!Learn(c) \/ UNCHANGED Log!vars
<1> DEFINE old == LogFrom(rows, note.rev)
           seen == [d \in Clients |-> confirmed[d].rev]
<1>1. GoodTable(rows, note.rev) /\ confirmed[c].rev \in Nat
    BY DEF LogInv, LogOK, GoodTable, ClientsOK
<1>2. Len(old) = note.rev /\ note.rev \in Nat
    BY <1>1, TableIsASequence DEF GoodTable
<1>3. UNCHANGED old
    BY DEF Advances, LogFrom
<1>4. seen' = [seen EXCEPT ![c] = confirmed'[c].rev]
    BY DEF Advances
<1>5. CASE confirmed[c].rev = confirmed'[c].rev
    <2>1. UNCHANGED seen
        BY <1>5 DEF Advances
    <2> QED
        BY <1>3, <2>1 DEF Log!vars, LogFrom, IdAt
<1>6. CASE confirmed[c].rev < confirmed'[c].rev
    <2>1. confirmed'[c].rev \in (seen[c] + 1)..Len(old)
        BY <1>1, <1>2, <1>6 DEF Advances
    <2>2. \E n \in (seen[c] + 1)..Len(old) :
                seen' = [seen EXCEPT ![c] = n] /\ UNCHANGED old
        BY <1>3, <1>4, <2>1
    <2> QED
        BY <2>2 DEF Log!Learn, LogFrom, IdAt
<1> QED
    BY <1>1, <1>5, <1>6 DEF Advances

\* The server's tables, the transactions in progress, the calls, outboxes,
\* sessions and snapshots together implement the abstract append-only,
\* exactly-once log and its readers.
THEOREM Refinement == Spec => ImplementsOpLog
<1>1. Init => Log!Init
    <2> SUFFICES ASSUME Init PROVE Log!Init
        OBVIOUS
    <2>1. note.rev = 0 /\ \A c \in Clients : confirmed[c].rev = 0
        BY DEF Init
    <2>2. [n \in 1..note.rev |-> IdAt(n)] = <<>>
        BY <2>1
    <2>3. [c \in Clients |-> confirmed[c].rev] = [c \in Clients |-> 0]
        BY <2>1
    <2> QED
        BY <2>2, <2>3 DEF Log!Init
<1>2. LogInv /\ LogInv' /\ [Next]_vars => [Log!Next]_(Log!vars)
    <2> SUFFICES ASSUME LogInv, LogInv', [Next]_vars
                 PROVE  Log!Next \/ UNCHANGED Log!vars
        OBVIOUS
    <2>1. CASE UNCHANGED <<note, rows, confirmed>>
        BY <2>1 DEF Log!vars, IdAt
    <2>2. CASE Commit /\ UNCHANGED confirmed
        BY <2>2, CommitAppends DEF Log!Next
    <2>3. ASSUME NEW c \in Clients, Advances(c)
          PROVE  Log!Next \/ UNCHANGED Log!vars
        BY <2>3, AdvanceLearns DEF Log!Next
    <2> QED
        BY <2>1, <2>2, <2>3, StepEffect
<1> QED
    BY LogInvHolds, <1>1, <1>2, PTL DEF Spec, ImplementsOpLog, Log!Spec
=============================================================================
