------------------------- MODULE UndoRedoStore_proofs ------------------------
(***************************************************************************)
(* Proofs about the undo/redo stack of a window, for every number of edits,*)
(* every limit on entries and every grouping, as long as the requests of a *)
(* window are served one after the other.                                  *)
(***************************************************************************)
EXTENDS UndoRedoStore, FiniteSetTheorems, SequenceTheorems, WellFoundedInduction, TLAPS

-----------------------------------------------------------------------------
(***************************************************************************)
(* Least and greatest numbers, and sequences.                              *)
(***************************************************************************)
\* A set of numbers has a least one.
LEMMA LeastNat ==
  ASSUME NEW S \in SUBSET Nat, S # {}
  PROVE  \E x \in S : \A y \in S : x <= y
<1> DEFINE R == OpToRel(<, Nat)
<1>1. IsWellFoundedOn(R, Nat)
  BY NatLessThanWellFounded
<1>2. \E x \in S : \A y \in S : ~ (<<y, x>> \in R)
  <2> HIDE DEF R
  <2> QED BY <1>1, WFMin
<1>3. \E x \in S : \A y \in S : ~ (y < x)
  BY <1>2 DEF OpToRel
<1> QED
  BY <1>3

\* What Min picks.
LEMMA MinIsLeast ==
  ASSUME NEW S \in SUBSET Nat, S # {}
  PROVE  Min(S) \in S /\ \A y \in S : Min(S) <= y
<1>1. \E x \in S : \A y \in S : x <= y
  BY LeastNat
<1> QED
  BY <1>1 DEF Min

\* What Max picks.
LEMMA MaxIsGreatest ==
  ASSUME NEW n \in Nat, NEW S \in SUBSET (0 .. n), S # {}
  PROVE  Max(S) \in S /\ \A y \in S : y <= Max(S)
<1> DEFINE T == {x \in Nat : x <= n /\ n - x \in S}
<1>1. T \in SUBSET Nat /\ T # {}
  <2>1. PICK y \in S : TRUE
    OBVIOUS
  <2>2. n - y \in T
    BY <2>1
  <2> QED BY <2>2
<1>2. PICK x \in T : \A y \in T : x <= y
  <2> HIDE DEF T
  <2> QED BY <1>1, LeastNat
<1>3. \A y \in S : y <= n - x
  <2> SUFFICES ASSUME NEW y \in S PROVE y <= n - x
    OBVIOUS
  <2>1. n - y \in T
    OBVIOUS
  <2> QED BY <1>2, <2>1
<1>4. \E m \in S : \A y \in S : m >= y
  <2>1. n - x \in S
    BY <1>2
  <2> QED BY <2>1, <1>3
<1> QED
  BY <1>4 DEF Max

\* The smaller of two numbers.
LEMMA MinOfTwo ==
  ASSUME NEW m \in Nat, NEW n \in Nat, NEW S, S = {m, n}
  PROVE  Min(S) = IF m <= n THEN m ELSE n
BY MinIsLeast

\* The greater of two numbers.
LEMMA MaxOfTwo ==
  ASSUME NEW m \in Nat, NEW n \in Nat, NEW S, S = {m, n}
  PROVE  Max(S) = IF m <= n THEN n ELSE m
<1>1. CASE m <= n
  BY <1>1, MaxIsGreatest
<1>2. CASE ~ (m <= n)
  BY <1>2, MaxIsGreatest
<1> QED
  BY <1>1, <1>2

\* A function on the first numbers is a sequence.
LEMMA IsSequence ==
  ASSUME NEW S, NEW n \in Nat, NEW f \in [1 .. n -> S]
  PROVE  f \in Seq(S) /\ Len(f) = n
BY SeqDef

\* Two sequences, one after the other.
LEMMA Joined ==
  ASSUME NEW S, NEW s \in Seq(S), NEW t \in Seq(S)
  PROVE  /\ s \o t \in Seq(S) /\ Len(s \o t) = Len(s) + Len(t)
         /\ \A i \in 1 .. Len(s) : (s \o t)[i] = s[i]
         /\ \A i \in 1 .. Len(t) : (s \o t)[Len(s) + i] = t[i]
<1> DEFINE m == Len(s)
           n == Len(t)
           u == s \o t
<1>1. m \in Nat /\ n \in Nat
  BY LenProperties
<1>2. /\ u \in Seq(S) /\ Len(u) = m + n
      /\ \A i \in 1 .. m + n : u[i] = IF i <= m THEN s[i] ELSE t[i - m]
  BY ConcatProperties
<1> HIDE DEF m, n, u
<1>3. ASSUME NEW i \in 1 .. m PROVE u[i] = s[i]
  <2>1. i \in 1 .. m + n /\ i <= m
    BY <1>1
  <2> QED BY <1>2, <2>1
<1>4. ASSUME NEW i \in 1 .. n PROVE u[m + i] = t[i]
  <2> DEFINE j == m + i
  <2>1. j \in 1 .. m + n /\ ~ (j <= m) /\ j - m = i
    BY <1>1
  <2> HIDE DEF j
  <2>2. u[j] = t[i]
    BY <1>2, <2>1
  <2> QED BY <2>2 DEF j
<1> QED
  BY <1>2, <1>3, <1>4 DEF m, n, u

\* A part of a sequence.
LEMMA Cut ==
  ASSUME NEW S, NEW s \in Seq(S), NEW m \in Int, NEW n \in Int,
         1 <= m, n <= Len(s)
  PROVE  /\ SubSeq(s, m, n) \in Seq(S)
         /\ Len(SubSeq(s, m, n)) = IF m <= n THEN n - m + 1 ELSE 0
         /\ \A i \in 1 .. Len(SubSeq(s, m, n)) : SubSeq(s, m, n)[i] = s[m + i - 1]
<1>1. \A i \in m .. n : s[i] \in S
  BY ElementOfSeq
<1> QED
  BY <1>1, SubSeqProperties

-----------------------------------------------------------------------------
(***************************************************************************)
(* The stack as a request loads it, when what has gone is known.           *)
(***************************************************************************)
\* The window's key, with the bounds of what has gone.
Window(a, b) ==
  /\ meta \in Meta /\ meta.cursor <= Len(meta.ids)
  /\ keys \in [Id -> Edit \cup {NoEntry}]
  /\ a \in 0 .. meta.cursor /\ b \in 0 .. Len(meta.ids) - meta.cursor
  /\ Gaps(a, b)

\* The types that a window gives.
LEMMA WindowType ==
  ASSUME NEW a, NEW b, Window(a, b)
  PROVE  /\ a \in Nat /\ b \in Nat /\ Len(meta.ids) \in Nat /\ meta.cursor \in Nat
         /\ meta.ids \in Seq(Id) /\ meta.next \in Nat \ {0}
         /\ \A i \in 1 .. Len(meta.ids) : meta.ids[i] \in Id
         /\ a <= meta.cursor /\ meta.cursor + b <= Len(meta.ids)
<1>1. meta.ids \in Seq(Id) /\ meta.cursor \in Nat /\ meta.next \in Nat \ {0}
  BY DEF Window, Meta
<1>2. Len(meta.ids) \in Nat /\ \A i \in 1 .. Len(meta.ids) : meta.ids[i] \in Id
  BY <1>1, LenProperties, ElementOfSeq
<1> QED
  BY <1>1, <1>2 DEF Window

\* The positions that are left are those of Place, in order.
LEMMA PlaceIsLive ==
  ASSUME NEW a, NEW b, Window(a, b)
  PROVE  /\ \A n \in 1 .. Len(meta.ids) - a - b : Place(a, b, n) \in Live
         /\ \A k \in Live : \E n \in 1 .. Len(meta.ids) - a - b : k = Place(a, b, n)
<1>0. /\ a \in Nat /\ b \in Nat /\ Len(meta.ids) \in Nat /\ meta.cursor \in Nat
      /\ meta.ids \in Seq(Id) /\ meta.next \in Nat \ {0}
      /\ \A i \in 1 .. Len(meta.ids) : meta.ids[i] \in Id
      /\ a <= meta.cursor /\ meta.cursor + b <= Len(meta.ids)
  BY WindowType
<1> USE <1>0
<1>1. Live = (a + 1 .. meta.cursor) \cup (meta.cursor + b + 1 .. Len(meta.ids))
  BY DEF Window, Gaps
<1>2. \A n \in 1 .. Len(meta.ids) - a - b : Place(a, b, n) \in Live
  BY <1>1 DEF Place
<1>3. ASSUME NEW k \in Live
      PROVE  \E n \in 1 .. Len(meta.ids) - a - b : k = Place(a, b, n)
  <2>1. CASE k <= meta.cursor
    <3>1. k - a \in 1 .. Len(meta.ids) - a - b /\ k = Place(a, b, k - a)
      BY <1>1, <2>1 DEF Place
    <3> QED BY <3>1
  <2>2. CASE ~ (k <= meta.cursor)
    <3>1. k - a - b \in 1 .. Len(meta.ids) - a - b /\ k = Place(a, b, k - a - b)
      BY <1>1, <2>2 DEF Place
    <3> QED BY <3>1
  <2> QED BY <2>1, <2>2
<1> QED
  BY <1>2, <1>3

\* The size of an interval.
Size(m, n) == IF m > n THEN 0 ELSE n - m + 1

\* Sets with nothing in common add up.
LEMMA DisjointUnion ==
  ASSUME NEW P, NEW Q, IsFiniteSet(P), IsFiniteSet(Q), P \cap Q = {}
  PROVE  Cardinality(P \cup Q) = Cardinality(P) + Cardinality(Q)
<1>1. Cardinality(P) \in Nat /\ Cardinality(Q) \in Nat
  BY FS_CardinalityType
<1>2. Cardinality(P \cup Q) = Cardinality(P) + Cardinality(Q) - Cardinality(P \cap Q)
  BY FS_Union
<1>3. Cardinality(P \cap Q) = 0
  BY FS_EmptySet
<1> QED
  BY <1>1, <1>2, <1>3

\* The numbers of two intervals.
Both(p, m, q, n) == {x \in Int : (p <= x /\ x <= m) \/ (q <= x /\ x <= n)}

\* Two intervals, one after the other, add up.
LEMMA TwoIntervals ==
  ASSUME NEW p \in Int, NEW m \in Int, NEW q \in Int, NEW n \in Int, m < q
  PROVE  Cardinality(Both(p, m, q, n)) = Size(p, m) + Size(q, n)
<1> DEFINE P == p .. m
           Q == q .. n
<1>1. P \cap Q = {} /\ Both(p, m, q, n) = P \cup Q
  BY DEF Both
<1>2. IsFiniteSet(P) /\ Cardinality(P) = Size(p, m)
  BY FS_Interval DEF Size
<1>3. IsFiniteSet(Q) /\ Cardinality(Q) = Size(q, n)
  BY FS_Interval DEF Size
<1> QED
  <2> HIDE DEF P, Q
  <2>1. Cardinality(P \cup Q) = Cardinality(P) + Cardinality(Q)
    BY <1>1, <1>2, <1>3, DisjointUnion
  <2> QED BY <1>1, <1>2, <1>3, <2>1

\* How many entries are left, and which is the n-th.
LEMMA LiveRanks ==
  ASSUME NEW a, NEW b, Window(a, b)
  PROVE  /\ Cardinality(Live) = Len(meta.ids) - a - b
         /\ \A n \in 1 .. Len(meta.ids) - a - b : Rank(Place(a, b, n)) = n
<1> DEFINE c == meta.cursor
           L == Len(meta.ids)
<1>0. /\ a \in Nat /\ b \in Nat /\ L \in Nat /\ c \in Nat
      /\ a <= c /\ c + b <= L
  BY WindowType
<1>1. Live = Both(a + 1, c, c + b + 1, L)
  BY <1>0 DEF Window, Gaps, Both
<1>2. \A n \in 1 .. L - a - b :
        Place(a, b, n) = IF n <= c - a THEN a + n ELSE a + b + n
  BY DEF Place
<1> HIDE DEF c, L
<1>3. Cardinality(Live) = L - a - b
  <2>1. Cardinality(Live) = Size(a + 1, c) + Size(c + b + 1, L)
    BY <1>0, <1>1, TwoIntervals
  <2> QED BY <1>0, <2>1 DEF Size
<1>4. ASSUME NEW n \in 1 .. L - a - b
      PROVE  Rank(Place(a, b, n)) = n
  <2> DEFINE S == {j \in Live : j <= Place(a, b, n)}
  <2>1. CASE n <= c - a
    <3>1. S = Both(a + 1, a + n, a + n + 1, a + n)
      BY <1>0, <1>1, <1>2, <2>1 DEF Both
    <3>2. Cardinality(S) = Size(a + 1, a + n) + Size(a + n + 1, a + n)
      <4>1. a + 1 \in Int /\ a + n \in Int /\ a + n + 1 \in Int /\ a + n < a + n + 1
        BY <1>0
      <4>2. Cardinality(Both(a + 1, a + n, a + n + 1, a + n)) = Size(a + 1, a + n) + Size(a + n + 1, a + n)
        BY <4>1, TwoIntervals
      <4> QED BY <3>1, <4>2
    <3> QED BY <1>0, <3>2 DEF Rank, Size
  <2>2. CASE ~ (n <= c - a)
    <3>1. S = Both(a + 1, c, c + b + 1, a + b + n)
      BY <1>0, <1>1, <1>2, <2>2 DEF Both
    <3>2. Cardinality(S) = Size(a + 1, c) + Size(c + b + 1, a + b + n)
      BY <1>0, <3>1, TwoIntervals
    <3> QED BY <1>0, <2>2, <3>2 DEF Rank, Size
  <2> QED BY <2>1, <2>2
<1> QED
  BY <1>3, <1>4 DEF L

\* The ids that are left are those at the places, in order.
LEMMA StoredShape ==
  ASSUME NEW a, NEW b, Window(a, b)
  PROVE  Stored = [n \in 1 .. Len(meta.ids) - a - b |-> meta.ids[Place(a, b, n)]]
<1> DEFINE N == Len(meta.ids) - a - b
<1>0. /\ a \in Nat /\ b \in Nat /\ Len(meta.ids) \in Nat /\ meta.cursor \in Nat
      /\ meta.ids \in Seq(Id) /\ meta.next \in Nat \ {0}
      /\ \A i \in 1 .. Len(meta.ids) : meta.ids[i] \in Id
      /\ a <= meta.cursor /\ meta.cursor + b <= Len(meta.ids)
  BY WindowType
<1> USE <1>0
<1>1. ASSUME NEW n \in 1 .. N
      PROVE  (CHOOSE k \in Live : Rank(k) = n) = Place(a, b, n)
  <2>1. Place(a, b, n) \in Live /\ Rank(Place(a, b, n)) = n
    BY PlaceIsLive, LiveRanks
  <2>2. ASSUME NEW k \in Live, Rank(k) = n
        PROVE  k = Place(a, b, n)
    <3>1. PICK m \in 1 .. N : k = Place(a, b, m)
      BY PlaceIsLive
    <3>2. m = n
      BY <2>2, <3>1, LiveRanks
    <3> QED BY <3>1, <3>2
  <2> QED
    BY <2>1, <2>2
<1>2. Cardinality(Live) = N
  BY LiveRanks
<1> DEFINE At(n) == CHOOSE k \in Live : Rank(k) = n
<1>3. Stored = [n \in 1 .. N |-> meta.ids[At(n)]]
  BY <1>2 DEF Stored
<1>4. \A n \in 1 .. N : At(n) = Place(a, b, n)
  BY <1>1
<1> QED
  <2> HIDE DEF At
  <2> QED BY <1>3, <1>4

\* What undo finds and what redo finds.
Shape(a, b) ==
  /\ Done \in Seq(Edit) /\ Undone \in Seq(Edit)
  /\ Len(Done) = meta.cursor - a
  /\ Len(Undone) = Len(meta.ids) - meta.cursor - b
  /\ \A n \in 1 .. Len(Done) : Done[n] = keys[meta.ids[a + n]]
  /\ \A n \in 1 .. Len(Undone) : Undone[n] = keys[meta.ids[meta.cursor + b + n]]

\* Done and Undone are what the window's bounds say they are.
LEMMA Halves ==
  ASSUME NEW a, NEW b, Window(a, b)
  PROVE  Shape(a, b)
<1> DEFINE c == meta.cursor
           N == Len(meta.ids) - a - b
<1>0. /\ a \in Nat /\ b \in Nat /\ Len(meta.ids) \in Nat /\ meta.cursor \in Nat
      /\ meta.ids \in Seq(Id) /\ meta.next \in Nat \ {0}
      /\ \A i \in 1 .. Len(meta.ids) : meta.ids[i] \in Id
      /\ a <= meta.cursor /\ meta.cursor + b <= Len(meta.ids)
  BY WindowType
<1> USE <1>0
<1>1. Log = [n \in 1 .. N |-> keys[meta.ids[Place(a, b, n)]]]
  <2>1. Stored = [n \in 1 .. N |-> meta.ids[Place(a, b, n)]]
    BY StoredShape
  <2>2. \A n \in 1 .. N : meta.ids[Place(a, b, n)] \in Id
    BY DEF Place
  <2>3. Len(Stored) = N
    <3>1. [n \in 1 .. N |-> meta.ids[Place(a, b, n)]] \in [1 .. N -> Id]
      BY <2>2
    <3> QED BY <2>1, <3>1, IsSequence
  <2> QED BY <2>1, <2>3 DEF Log
<1>2. \A n \in 1 .. N : Log[n] \in Edit
  <2> SUFFICES ASSUME NEW n \in 1 .. N PROVE Log[n] \in Edit
    OBVIOUS
  <2>1. Place(a, b, n) \in Live
    BY PlaceIsLive
  <2> QED BY <1>1, <2>1 DEF Live, Window
<1>3. Log \in [1 .. N -> Edit]
  BY <1>1, <1>2
<1>4. Log \in Seq(Edit) /\ Len(Log) = N
  <2>1. N \in Nat
    OBVIOUS
  <2> QED BY ZenonT(40), <1>3, <2>1, IsSequence
<1>5. Position = c - a
  <2>1. a > 0 => b = Len(meta.ids) - c
    BY DEF Window, Gaps
  <2>2. Position = IF c <= N THEN c ELSE N
    <3> DEFINE S == {c, Len(Log)}
    <3>1. S = {c, N} /\ N \in Nat
      BY <1>4
    <3>2. Min(S) = IF c <= N THEN c ELSE N
      <4> HIDE DEF S, N
      <4> QED BY <3>1, MinOfTwo
    <3> QED BY <3>2 DEF Position
  <2> QED BY <2>1, <2>2
<1>6. /\ Done \in Seq(Edit) /\ Len(Done) = c - a
      /\ \A n \in 1 .. c - a : Done[n] = Log[n]
  BY <1>2, <1>5, SubSeqProperties DEF Done
<1>7. /\ Undone \in Seq(Edit) /\ Len(Undone) = N - (c - a)
      /\ \A n \in 1 .. N - (c - a) : Undone[n] = Log[c - a + n]
  <2>1. c - a + 1 \in Int /\ 1 <= c - a + 1 /\ N \in Int
    OBVIOUS
  <2>2. Undone = SubSeq(Log, c - a + 1, N)
    BY <1>4, <1>5 DEF Undone
  <2>3. /\ Undone \in Seq(Edit)
        /\ Len(Undone) = IF c - a + 1 <= N THEN N - (c - a + 1) + 1 ELSE 0
        /\ \A i \in 1 .. Len(Undone) : Undone[i] = Log[c - a + 1 + i - 1]
    <3> HIDE DEF N, c
    <3> QED BY SMTT(30), <1>4, <2>1, <2>2, Cut
  <2>4. Len(Undone) = N - (c - a)
    BY SMTT(30), <2>3
  <2>5. ASSUME NEW n \in 1 .. Len(Undone) PROVE Undone[n] = Log[c - a + n]
    <3>1. c - a + 1 + n - 1 = c - a + n
      OBVIOUS
    <3> QED BY <2>3, <3>1
  <2> QED BY <2>3, <2>4, <2>5
<1>8. ASSUME NEW n \in 1 .. c - a PROVE Done[n] = keys[meta.ids[a + n]]
  <2>1. Place(a, b, n) = a + n /\ n \in 1 .. N
    BY DEF Place
  <2> QED BY <1>1, <1>6, <2>1
<1>9. ASSUME NEW n \in 1 .. N - (c - a) PROVE Undone[n] = keys[meta.ids[c + b + n]]
  <2> DEFINE m == c - a + n
  <2>1. m \in 1 .. N /\ ~ (m <= c - a) /\ a + b + m = c + b + n
    <3>1. N \in Int /\ c \in Nat /\ a <= c /\ n \in Int /\ 1 <= n /\ n <= N - (c - a)
      OBVIOUS
    <3> HIDE DEF N, c
    <3> QED BY <3>1
  <2>3. Place(a, b, m) = c + b + n
    BY <2>1 DEF Place
  <2>2. Undone[n] = Log[c - a + n]
    BY <1>7
  <2> QED BY <1>1, <2>1, <2>2, <2>3
<1>10. N - (c - a) = Len(meta.ids) - c - b
  OBVIOUS
<1> QED
  <2> HIDE DEF N
  <2> QED BY <1>6, <1>7, <1>8, <1>9, <1>10 DEF Shape

\* The same of the next state.
LEMMA HalvesNext ==
  \A a, b : Window(a, b)' => Shape(a, b)'
<1>1. \A a, b : Window(a, b) => Shape(a, b)
  BY Halves
<1>2. (\A a, b : Window(a, b) => Shape(a, b))'
  BY <1>1, PTL
<1> QED
  BY <1>2

\* The key of the window in a state of the invariant.
LEMMA WindowHolds ==
  ASSUME TypeOK, NEW a \in 0 .. meta.cursor, NEW b \in 0 .. Len(meta.ids) - meta.cursor,
         Gaps(a, b)
  PROVE  Window(a, b)
BY DEF Window, TypeOK

\* No edit is at the same time done and undone, and none is newer than the last.
LEMMA HalvesApart ==
  ASSUME NEW a, NEW b, Window(a, b), IdsInOrder
  PROVE  /\ ToSet(Done) \cap ToSet(Undone) = {}
         /\ \A e \in ToSet(Done) \cup ToSet(Undone) : e \in Edit /\ e <= edits
<1>0. /\ a \in Nat /\ b \in Nat /\ Len(meta.ids) \in Nat /\ meta.cursor \in Nat
      /\ \A i \in 1 .. Len(meta.ids) : meta.ids[i] \in Id
      /\ a <= meta.cursor /\ meta.cursor + b <= Len(meta.ids)
  BY WindowType
<1>1. Shape(a, b)
  BY Halves
<1>2. ASSUME NEW e \in ToSet(Done)
      PROVE  \E i \in 1 .. meta.cursor : keys[meta.ids[i]] = e /\ e \in Edit
  <2>1. PICK n \in 1 .. Len(Done) : Done[n] = e
    BY <1>1, LenProperties DEF Shape, ToSet
  <2>2. a + n \in 1 .. meta.cursor /\ keys[meta.ids[a + n]] = e
    BY SMTT(30), <1>0, <1>1, <2>1 DEF Shape
  <2>3. e \in Edit
    BY <1>1, <2>1, ElementOfSeq DEF Shape
  <2> QED BY <2>2, <2>3
<1>3. ASSUME NEW e \in ToSet(Undone)
      PROVE  \E i \in meta.cursor + 1 .. Len(meta.ids) : keys[meta.ids[i]] = e /\ e \in Edit
  <2>1. PICK n \in 1 .. Len(Undone) : Undone[n] = e
    BY <1>1, LenProperties DEF Shape, ToSet
  <2>2. keys[meta.ids[meta.cursor + b + n]] = e
    BY <1>1, <2>1 DEF Shape
  <2>4. meta.cursor + b + n \in meta.cursor + 1 .. Len(meta.ids)
    <3>1. Len(Undone) = Len(meta.ids) - meta.cursor - b
      BY <1>1 DEF Shape
    <3> QED BY SMTT(30), <1>0, <3>1
  <2>3. e \in Edit
    BY <1>1, <2>1, ElementOfSeq DEF Shape
  <2> QED BY <2>2, <2>3, <2>4
<1>4. ASSUME NEW e, e \in ToSet(Done), e \in ToSet(Undone)
      PROVE  FALSE
  <2>1. PICK i \in 1 .. meta.cursor : keys[meta.ids[i]] = e /\ e \in Edit
    BY <1>2, <1>4
  <2>2. PICK j \in meta.cursor + 1 .. Len(meta.ids) : keys[meta.ids[j]] = e
    BY <1>3, <1>4
  <2>7. i \in 1 .. Len(meta.ids) /\ j \in 1 .. Len(meta.ids) /\ i < j
    BY <1>0
  <2>3. /\ i \in 1 .. Len(meta.ids) /\ j \in 1 .. Len(meta.ids) /\ i < j
        /\ meta.ids[i] \in Id /\ meta.ids[j] \in Id
    BY <1>0, <2>7
  <2>4. meta.ids[i] < meta.ids[j]
    BY <2>3 DEF IdsInOrder
  <2>5. e # NoEntry
    BY <2>1, StoreAssumption
  <2>6. meta.ids[i] = meta.ids[j]
    BY <2>1, <2>2, <2>3, <2>5 DEF IdsInOrder
  <2> QED BY <2>3, <2>4, <2>6 DEF Id
<1>5. ASSUME NEW e \in ToSet(Done) \cup ToSet(Undone)
      PROVE  e \in Edit /\ e <= edits
  <2>1. PICK i \in 1 .. Len(meta.ids) : keys[meta.ids[i]] = e /\ e \in Edit
    <3>1. CASE e \in ToSet(Done)
      <4>1. PICK i \in 1 .. meta.cursor : keys[meta.ids[i]] = e /\ e \in Edit
        BY <1>2, <3>1
      <4>2. i \in 1 .. Len(meta.ids)
        BY <1>0
      <4> QED BY <4>1, <4>2
    <3>2. CASE e \in ToSet(Undone)
      <4>1. PICK i \in meta.cursor + 1 .. Len(meta.ids) : keys[meta.ids[i]] = e /\ e \in Edit
        BY <1>3, <3>2
      <4>2. i \in 1 .. Len(meta.ids)
        BY <1>0
      <4> QED BY <4>1, <4>2
    <3> QED BY <3>1, <3>2
  <2>2. e # NoEntry /\ meta.ids[i] \in Id
    BY <1>0, <2>1, StoreAssumption
  <2> QED BY <2>1, <2>2 DEF IdsInOrder
<1> QED
  BY <1>4, <1>5

\* With one request at a time, what is unsettled is what it replays.
LEMMA UnsettledIs ==
  ASSUME Sequential, NEW r \in Request
  PROVE  Unsettled = stray \cup (IF pc[r] = "replay" THEN ToSet(todo[r]) ELSE {})
<1>1. \A q \in Request : q = r
  BY DEF Sequential
<1>2. CASE pc[r] = "replay"
  <2>1. {q \in Request : pc[q] = "replay"} = {r}
    BY <1>1, <1>2
  <2> QED BY <1>2, <2>1 DEF Unsettled
<1>3. CASE pc[r] # "replay"
  <2>1. {q \in Request : pc[q] = "replay"} = {}
    BY <1>1, <1>3
  <2> QED BY <1>3, <2>1 DEF Unsettled
<1> QED
  BY <1>2, <1>3

\* The same of the next state.
LEMMA UnsettledNext ==
  ASSUME Sequential, NEW r \in Request
  PROVE  Unsettled' = stray' \cup (IF pc'[r] = "replay" THEN ToSet(todo'[r]) ELSE {})
<1>1. \A q \in Request : q = r
  BY DEF Sequential
<1>2. CASE pc'[r] = "replay"
  <2>1. {q \in Request : pc'[q] = "replay"} = {r}
    BY <1>1, <1>2
  <2> QED BY <1>2, <2>1 DEF Unsettled
<1>3. CASE pc'[r] # "replay"
  <2>1. {q \in Request : pc'[q] = "replay"} = {}
    BY <1>1, <1>3
  <2> QED BY <1>3, <2>1 DEF Unsettled
<1> QED
  BY <1>2, <1>3

-----------------------------------------------------------------------------
(***************************************************************************)
(* Steps that leave the store alone.                                       *)
(***************************************************************************)
\* Nothing is done or undone while the store stays as it is.
LEMMA StoreSame ==
  ASSUME IInv, UNCHANGED store
  PROVE  Done' = Done /\ Undone' = Undone
<1>1. PICK a \in 0 .. meta.cursor, b \in 0 .. Len(meta.ids) - meta.cursor : Gaps(a, b)
  BY DEF IInv, StackInOrder
<1>2. Window(a, b) /\ Window(a, b)'
  BY <1>1, WindowHolds DEF IInv, Window, Gaps, Live, store
<1>3. Shape(a, b) /\ Shape(a, b)'
  BY <1>2, Halves, HalvesNext
<1>4. meta' = meta /\ keys' = keys
  BY DEF store
<1>5. /\ Len(Done') = Len(Done) /\ Len(Undone') = Len(Undone)
      /\ Done \in Seq(Edit) /\ Done' \in Seq(Edit)
      /\ Undone \in Seq(Edit) /\ Undone' \in Seq(Edit)
  BY <1>3, <1>4 DEF Shape
<1>6. \A n \in 1 .. Len(Done) : Done'[n] = Done[n]
  BY <1>3, <1>4, <1>5 DEF Shape
<1>7. \A n \in 1 .. Len(Undone) : Undone'[n] = Undone[n]
  BY <1>3, <1>4, <1>5 DEF Shape
<1> QED
  BY <1>5, <1>6, <1>7, SeqEqual

\* The stack stays in order when nothing but the request changes.
LEMMA StackSame ==
  ASSUME IInv, Sequential, UNCHANGED store, NEW r \in Request,
         pc'[r] \in {"idle", "meta", "replay"}
  PROVE  StackInOrder'
<1>1. PICK a \in 0 .. meta.cursor, b \in 0 .. Len(meta.ids) - meta.cursor : Gaps(a, b)
  BY DEF IInv, StackInOrder
<1>2. meta' = meta /\ keys' = keys
  BY DEF store
<1>3. Gaps(a, b)'
  BY <1>1, <1>2 DEF Gaps, Live
<1>4. \A q \in Request : pc'[q] \in {"idle", "meta", "replay"}
  BY DEF Sequential
<1> QED
  BY <1>1, <1>2, <1>3, <1>4 DEF StackInOrder

\* A command changes the table.
LEMMA ChangeStep ==
  ASSUME IInv, Sequential, NEW r \in Request, Change(r)
  PROVE  IInv' /\ Done' = Done /\ Undone' = Undone
<1>1. TypeOK' /\ edits + 1 \in Edit /\ edits \in Nat
  BY StoreAssumption DEF IInv, TypeOK, Change, Goto, store, Edit
<1>2. \A q \in Request : q = r
  BY DEF Sequential
<1>3. UNCHANGED store /\ pc'[r] = "meta" /\ mode'[r] = "append" /\ pc[r] = "idle"
  BY DEF IInv, TypeOK, Change, Goto
<1>4. Done' = Done /\ Undone' = Undone
  BY <1>3, StoreSame
<1>12. meta' = meta /\ keys' = keys /\ edits' = edits + 1
  BY <1>3 DEF Change, store
<1>13. \A i \in Id : keys[i] # NoEntry => keys[i] \in Edit /\ keys[i] <= edits
  BY DEF IInv, TypeOK, IdsInOrder
<1>14. \A i \in Id : keys[i] # NoEntry => keys[i] <= edits + 1 /\ keys[i] # edits + 1
  BY <1>1, <1>13 DEF Edit
<1>15. meta.next <= edits + 1 /\ meta.next \in Nat
  BY DEF IInv, TypeOK, IdsInOrder, Meta
<1>5. IdsInOrder'
  <2>1. meta.next <= edits + 1 + 1
    BY <1>1, <1>15
  <2> QED BY <1>12, <1>14, <2>1 DEF IInv, IdsInOrder
<1>6. Fresh'
  <2>1. meta'.next <= edits' /\ entry'[r] \in applied' /\ entry'[r] = edits + 1
    BY <1>1, <1>3 DEF IInv, TypeOK, IdsInOrder, Change, store
  <2>2. \A i \in Id : keys'[i] # edits + 1
    BY <1>1, <1>12, <1>14, StoreAssumption
  <2> QED BY <1>2, <1>3, <2>1, <2>2 DEF Fresh
<1>7. StackInOrder'
  BY <1>3, StackSame
<1>8. ReplayInOrder' /\ ModesInOrder'
  <2>1. found'[r] = <<>>
    BY <1>3 DEF IInv, ModesInOrder, Change
  <2> QED BY <1>2, <1>3, <2>1 DEF ReplayInOrder, ModesInOrder
<1>9. Unsettled' = Unsettled
  BY <1>3, UnsettledIs, UnsettledNext DEF Change
<1>10. DoneIsApplied'
  BY <1>4, <1>9 DEF IInv, DoneIsApplied, Change
<1>11. UndoneIsGone'
  <2>1. edits + 1 \notin ToSet(Undone)
    <3>1. PICK a \in 0 .. meta.cursor, b \in 0 .. Len(meta.ids) - meta.cursor : Gaps(a, b)
      BY DEF IInv, StackInOrder
    <3>2. Window(a, b) /\ IdsInOrder
      BY <3>1, WindowHolds DEF IInv
    <3> QED BY <1>1, <3>2, HalvesApart
  <2> QED BY <1>4, <1>9, <2>1 DEF IInv, UndoneIsGone, Change
<1> QED
  BY <1>1, <1>4, <1>5, <1>6, <1>7, <1>8, <1>10, <1>11 DEF IInv

\* Somebody asks to undo or to redo.
LEMMA AskStep ==
  ASSUME IInv, Sequential, NEW r \in Request, NEW what \in {"undo", "redo"}, Ask(r, what)
  PROVE  IInv' /\ Done' = Done /\ Undone' = Undone
<1>1. TypeOK'
  BY DEF IInv, TypeOK, Ask, Goto, store
<1>2. \A q \in Request : q = r
  BY DEF Sequential
<1>3. UNCHANGED store /\ pc'[r] = "meta" /\ mode'[r] = what /\ pc[r] = "idle"
  BY DEF IInv, TypeOK, Ask, Goto
<1>4. Done' = Done /\ Undone' = Undone
  BY <1>3, StoreSame
<1>5. IdsInOrder' /\ Fresh'
  BY <1>2, <1>3 DEF IInv, IdsInOrder, Fresh, Recording, Ask, store
<1>6. StackInOrder'
  BY <1>3, StackSame
<1>7. ReplayInOrder' /\ ModesInOrder'
  <2>1. found'[r] = <<>>
    BY <1>3 DEF IInv, ModesInOrder, Ask
  <2> QED BY <1>2, <1>3, <2>1 DEF ReplayInOrder, ModesInOrder
<1>8. Unsettled' = Unsettled
  BY <1>3, UnsettledIs, UnsettledNext DEF Ask
<1>9. DoneIsApplied' /\ UndoneIsGone'
  BY <1>4, <1>8 DEF IInv, DoneIsApplied, UndoneIsGone, Ask
<1> QED
  BY <1>1, <1>4, <1>5, <1>6, <1>7, <1>9 DEF IInv

\* A request that ends leaves the stack as it is.
LEMMA EndKeeps ==
  ASSUME IInv, Sequential, NEW r \in Request, EndOf(r), UNCHANGED <<store, edits>>
  PROVE  /\ IdsInOrder' /\ Fresh' /\ StackInOrder' /\ ReplayInOrder' /\ ModesInOrder'
         /\ pc'[r] = "idle"
         /\ Done' = Done /\ Undone' = Undone
<1>1. \A q \in Request : q = r
  BY DEF Sequential
<1>2. pc'[r] = "idle" /\ mode'[r] = "append" /\ found'[r] = <<>>
  BY DEF IInv, TypeOK, EndOf, Goto
<1>3. IdsInOrder'
  BY DEF IInv, IdsInOrder, store
<1>4. Fresh' /\ ReplayInOrder' /\ ModesInOrder'
  BY <1>1, <1>2 DEF Fresh, Recording, ReplayInOrder, ModesInOrder
<1>5. StackInOrder'
  BY <1>2, StackSame
<1>6. Done' = Done /\ Undone' = Undone
  BY StoreSame
<1> QED
  BY <1>2, <1>3, <1>4, <1>5, <1>6

\* A request that ends keeps the types.
LEMMA EndType ==
  ASSUME TypeOK, NEW r \in Request, EndOf(r)
  PROVE  /\ pc' \in [Request -> {"idle", "meta", "load", "delete", "commit", "replay"}]
         /\ mode' \in [Request -> {"append", "undo", "redo"}]
         /\ snap' \in [Request -> Meta]
         /\ todo' \in [Request -> Seq(Nat)]
         /\ found' \in [Request -> Seq(Found)]
         /\ entry' \in [Request -> Edit \cup {NoEntry}]
<1>1. NoMeta \in Meta
  <2>1. <<>> \in Seq(Id)
    BY EmptySeq
  <2> QED BY <2>1 DEF NoMeta, Meta
<1>2. <<>> \in Seq(Nat) /\ <<>> \in Seq(Found)
  BY EmptySeq
<1> QED
  BY <1>1, <1>2 DEF TypeOK, EndOf, Goto

\* An undo or a redo finds nothing.
LEMMA NothingToDoStep ==
  ASSUME IInv, Sequential, NEW r \in Request, NothingToDo(r)
  PROVE  IInv' /\ Done' = Done /\ Undone' = Undone
<1>1. EndOf(r) /\ UNCHANGED <<store, edits, applied, stray>> /\ pc[r] = "load"
  BY DEF NothingToDo
<1>2. TypeOK'
  BY <1>1, EndType DEF IInv, TypeOK, store
<1>3. /\ IdsInOrder' /\ Fresh' /\ StackInOrder' /\ ReplayInOrder' /\ ModesInOrder'
      /\ pc'[r] = "idle" /\ Done' = Done /\ Undone' = Undone
  BY <1>1, EndKeeps
<1>4. Unsettled' = Unsettled
  BY <1>1, <1>3, UnsettledIs, UnsettledNext
<1>5. DoneIsApplied' /\ UndoneIsGone'
  BY <1>1, <1>3, <1>4 DEF IInv, DoneIsApplied, UndoneIsGone
<1> QED
  BY <1>2, <1>3, <1>5 DEF IInv

\* A request is cut off, whatever it was at.
LEMMA InterruptStep ==
  ASSUME IInv, Sequential, NEW r \in Request, Interrupt(r)
  PROVE  IInv' /\ Done' = Done /\ Undone' = Undone
<1>1. /\ EndOf(r) /\ UNCHANGED <<store, edits, applied>>
      /\ stray' = IF pc[r] = "replay" THEN stray \cup ToSet(todo[r]) ELSE stray
  BY DEF Interrupt
<1>2. /\ IdsInOrder' /\ Fresh' /\ StackInOrder' /\ ReplayInOrder' /\ ModesInOrder'
      /\ pc'[r] = "idle" /\ Done' = Done /\ Undone' = Undone
  BY <1>1, EndKeeps
<1>3. Unsettled' = Unsettled
  BY <1>1, <1>2, UnsettledIs, UnsettledNext
<1>4. pc[r] = "replay" => ToSet(todo[r]) \subseteq 1 .. edits
  <2>1. PICK a \in 0 .. meta.cursor, b \in 0 .. Len(meta.ids) - meta.cursor : Gaps(a, b)
    BY DEF IInv, StackInOrder
  <2>2. Window(a, b) /\ IdsInOrder
    BY <2>1, WindowHolds DEF IInv
  <2>3. \A e \in ToSet(Done) \cup ToSet(Undone) : e \in Edit /\ e <= edits
    BY <2>2, HalvesApart
  <2>4. edits \in Nat
    BY StoreAssumption DEF IInv, TypeOK
  <2> QED BY <2>3, <2>4 DEF IInv, ReplayInOrder, Edit
<1>5. TypeOK'
  BY <1>1, <1>4, EndType DEF IInv, TypeOK, store
<1>6. DoneIsApplied' /\ UndoneIsGone'
  BY <1>1, <1>2, <1>3 DEF IInv, DoneIsApplied, UndoneIsGone
<1> QED
  BY <1>2, <1>5, <1>6 DEF IInv

\* The ids an append drops: the undone ones, then the oldest of the others.
LEMMA DroppedIs ==
  ASSUME NEW m \in Meta, m.cursor <= Len(m.ids)
  PROVE  /\ Excess(m) \in 0 .. m.cursor
         /\ Dropped(m) \in Seq(Id)
         /\ Len(Dropped(m)) = Len(m.ids) - m.cursor + Excess(m)
         /\ \A k \in 1 .. Len(m.ids) - m.cursor : Dropped(m)[k] = m.ids[m.cursor + k]
         /\ \A k \in 1 .. Excess(m) : Dropped(m)[Len(m.ids) - m.cursor + k] = m.ids[k]
<1> DEFINE c == m.cursor
           L == Len(m.ids)
           x == Excess(m)
           s == SubSeq(m.ids, c + 1, L)
           k0 == Kept(m)
           t == SubSeq(k0, 1, x)
<1>1. m.ids \in Seq(Id) /\ c \in Nat /\ L \in Nat /\ c <= L
  BY LenProperties DEF Meta
<1>2. x \in 0 .. c
  BY <1>1, StoreAssumption DEF Excess
<1>3. /\ s \in Seq(Id) /\ Len(s) = L - c
      /\ \A i \in 1 .. L - c : s[i] = m.ids[c + i]
  <2>1. c + 1 \in Int /\ 1 <= c + 1
    BY <1>1
  <2>2. /\ s \in Seq(Id) /\ Len(s) = IF c + 1 <= L THEN L - (c + 1) + 1 ELSE 0
        /\ \A i \in 1 .. Len(s) : s[i] = m.ids[c + 1 + i - 1]
    <3> HIDE DEF c
    <3> QED BY <1>1, <2>1, Cut
  <2>3. Len(s) = L - c
    BY <1>1, <2>2
  <2>4. \A i \in 1 .. L - c : c + 1 + i - 1 = c + i
    BY <1>1
  <2> HIDE DEF s, c, L
  <2> QED BY <2>2, <2>3, <2>4
<1>4. /\ k0 \in Seq(Id) /\ Len(k0) = c
      /\ \A i \in 1 .. c : k0[i] = m.ids[i]
  <2>1. /\ k0 \in Seq(Id) /\ Len(k0) = IF 1 <= c THEN c - 1 + 1 ELSE 0
        /\ \A i \in 1 .. Len(k0) : k0[i] = m.ids[1 + i - 1]
    BY <1>1, Cut DEF Kept
  <2> HIDE DEF k0
  <2> QED BY <1>1, <2>1
<1>5. /\ t \in Seq(Id) /\ Len(t) = x
      /\ \A i \in 1 .. x : t[i] = m.ids[i]
  <2>1. x <= Len(k0) /\ x \in Int
    BY <1>1, <1>2, <1>4
  <2>2. /\ t \in Seq(Id) /\ Len(t) = IF 1 <= x THEN x - 1 + 1 ELSE 0
        /\ \A i \in 1 .. Len(t) : t[i] = k0[1 + i - 1]
    <3> HIDE DEF k0, x
    <3> QED BY <1>4, <2>1, Cut
  <2>3. Len(t) = x
    BY <1>2, <2>2
  <2>4. \A i \in 1 .. x : 1 + i - 1 = i /\ i \in 1 .. c
    BY <1>1, <1>2
  <2> HIDE DEF t, k0, x, c
  <2> QED BY <1>4, <2>2, <2>3, <2>4
<1>6. Dropped(m) = s \o t
  BY DEF Dropped
<1> HIDE DEF s, t, x, c, L
<1>7. /\ Dropped(m) \in Seq(Id) /\ Len(Dropped(m)) = Len(s) + Len(t)
      /\ \A i \in 1 .. Len(s) : Dropped(m)[i] = s[i]
      /\ \A i \in 1 .. Len(t) : Dropped(m)[Len(s) + i] = t[i]
  BY <1>3, <1>5, <1>6, Joined
<1>8. Len(Dropped(m)) = L - c + x
  BY <1>1, <1>2, <1>3, <1>5, <1>7
<1> QED
  BY <1>2, <1>3, <1>5, <1>7, <1>8 DEF x, c, L

\* A request reads the window's key.
LEMMA ReadMetaStep ==
  ASSUME IInv, Sequential, NEW r \in Request, ReadMeta(r)
  PROVE  IInv' /\ Done' = Done /\ Undone' = Undone
<1>0. /\ meta \in Meta /\ meta.cursor <= Len(meta.ids) /\ meta.ids \in Seq(Id)
      /\ Len(meta.ids) \in Nat /\ meta.cursor \in Nat
  BY LenProperties DEF IInv, TypeOK, Meta
<1>1. \A q \in Request : q = r
  BY DEF Sequential
<1>2. /\ UNCHANGED <<store, edits, applied, stray, mode, found, entry>> /\ pc[r] = "meta"
      /\ meta' = meta /\ keys' = keys
  BY DEF ReadMeta, store
<1>3. /\ snap'[r] = meta
      /\ todo'[r] = IF mode[r] = "append" THEN Dropped(meta) ELSE meta.ids
      /\ pc'[r] = IF mode[r] = "append" THEN "delete" ELSE "load"
  BY DEF IInv, TypeOK, ReadMeta, Goto
<1>4. Dropped(meta) \in Seq(Id)
  BY <1>0, DroppedIs
<1>5. TypeOK'
  <2>1. Dropped(meta) \in Seq(Nat) /\ meta.ids \in Seq(Nat)
    <3>1. Id \subseteq Nat
      BY DEF Id
    <3> QED BY <1>0, <1>4, <3>1, SeqMonotonic
  <2> QED BY <1>2, <2>1 DEF IInv, TypeOK, ReadMeta, Goto
<1>6. Done' = Done /\ Undone' = Undone
  BY <1>2, StoreSame
<1>7. IdsInOrder' /\ Fresh'
  BY <1>1, <1>2, <1>3 DEF IInv, IdsInOrder, Fresh, Recording
<1>8. StackInOrder'
  <2>1. PICK a \in 0 .. meta.cursor, b \in 0 .. Len(meta.ids) - meta.cursor : Gaps(a, b)
    BY DEF IInv, StackInOrder
  <2>2. Gaps(a, b)'
    BY <1>2, <2>1 DEF Gaps, Live
  <2>3. CASE mode[r] = "append"
    <3>1. Dropped(meta)' = Dropped(meta)
      BY <1>2 DEF Dropped, Kept, Excess
    <3>2. SubSeq(Dropped(meta), 1, Len(Dropped(meta))) = Dropped(meta)
      BY <1>4, SubSeqFull
    <3>3. Len(Dropped(meta)) - Len(Dropped(meta)) = 0
      BY <1>4, LenProperties
    <3>4. DeletedSoFar(r, a, b)'
      <4> DEFINE D == Dropped(meta)
      <4>1. D' = D /\ todo'[r] = D /\ Len(D) - Len(D) = 0 /\ SubSeq(D, 1, Len(D)) = D
        BY <1>3, <2>3, <3>1, <3>2, <3>3
      <4>2. 0 \in 0 .. a + b
        BY <1>0
      <4> HIDE DEF D
      <4> QED BY <4>1, <4>2 DEF DeletedSoFar, D
    <3> QED BY <1>1, <1>2, <1>3, <2>1, <2>2, <2>3, <3>4 DEF StackInOrder
  <2>4. CASE mode[r] # "append"
    <3>1. LoadedSoFar(r, a, b)'
      <4>1. found'[r] = <<>> /\ Len(found'[r]) = 0
        BY <1>2, EmptySeq DEF IInv, ModesInOrder
      <4>2. SubSeq(meta.ids, 1, Len(meta.ids)) = meta.ids
        BY <1>0, SubSeqFull
      <4>3. Len(meta'.ids) - Len(todo'[r]) = 0
        BY <1>0, <1>2, <1>3, <2>4
      <4>4. Place(a, b, 1)' > 0
        BY <1>0, <1>2 DEF Place
      <4> QED BY <1>2, <1>3, <2>4, <4>1, <4>2, <4>3, <4>4 DEF LoadedSoFar
    <3> QED BY <1>1, <1>2, <1>3, <2>1, <2>2, <2>4, <3>1 DEF StackInOrder
  <2> QED BY <2>3, <2>4
<1>9. ReplayInOrder' /\ ModesInOrder'
  BY <1>1, <1>2, <1>3 DEF IInv, ReplayInOrder, ModesInOrder, TypeOK
<1>10. Unsettled' = Unsettled
  BY <1>2, <1>3, UnsettledIs, UnsettledNext
<1>11. DoneIsApplied' /\ UndoneIsGone'
  BY <1>2, <1>6, <1>10 DEF IInv, DoneIsApplied, UndoneIsGone
<1> QED
  BY <1>5, <1>6, <1>7, <1>8, <1>9, <1>11 DEF IInv

\* A request reads one more entry, or finds it gone.
LEMMA LoadEntryStep ==
  ASSUME IInv, Sequential, NEW r \in Request, LoadEntry(r)
  PROVE  IInv' /\ Done' = Done /\ Undone' = Undone
<1> DEFINE i == Head(todo[r])
           L == Len(meta.ids)
           c == meta.cursor
           m == L - Len(todo[r])
           n == Len(found[r])
<1>0. /\ meta \in Meta /\ c <= L /\ meta.ids \in Seq(Id) /\ L \in Nat /\ c \in Nat
      /\ keys \in [Id -> Edit \cup {NoEntry}]
      /\ todo[r] \in Seq(Nat) /\ Len(todo[r]) \in Nat \ {0}
      /\ found[r] \in Seq(Found) /\ n \in Nat
  BY LenProperties, EmptySeq DEF IInv, TypeOK, Meta, LoadEntry
<1>1. \A q \in Request : q = r
  BY DEF Sequential
<1>2. /\ UNCHANGED <<store, edits, applied, stray, pc, mode, snap, entry>> /\ pc[r] = "load"
      /\ meta' = meta /\ keys' = keys /\ todo[r] # <<>>
  BY DEF LoadEntry, store
<1>3. PICK a \in 0 .. c, b \in 0 .. L - c : Gaps(a, b) /\ LoadedSoFar(r, a, b) /\ snap[r] = meta
  BY <1>2 DEF IInv, StackInOrder
<1>17. m \in Nat /\ todo[r] = SubSeq(meta.ids, m + 1, L)
  BY <1>3 DEF LoadedSoFar
<1>18. (n > 0 => Place(a, b, n) <= m) /\ Place(a, b, n + 1) > m
  BY <1>3 DEF LoadedSoFar
<1>19. \A k \in 1 .. n :
         LET d == meta.ids[Place(a, b, k)] IN found[r][k] = [id |-> d, entry |-> keys[d]]
  BY <1>3 DEF LoadedSoFar
<1>20. /\ m \in Nat /\ L \in Nat /\ c \in Nat /\ n \in Nat /\ m < L
       /\ m + 1 \in 1 .. L /\ L \in m + 1 .. L /\ m + 1 + 1 = m + 2
       /\ L - (Len(todo[r]) - 1) = m + 1
       /\ a \in Nat /\ b \in Nat /\ a <= c /\ c + b <= L
  <2> DEFINE t == Len(todo[r])
  <2>1. t \in Nat \ {0} /\ L \in Nat /\ c \in Nat /\ c <= L /\ n \in Nat /\ m = L - t
    BY <1>0
  <2>2. m \in Nat
    BY <1>17
  <2> HIDE DEF t, L, c, n, m
  <2>3. a \in Nat /\ b \in Nat /\ a <= c /\ c + b <= L
    BY <2>1
  <2> QED BY <2>1, <2>2, <2>3 DEF t
<1>5. i = meta.ids[m + 1] /\ i \in Id /\ Tail(todo[r]) = SubSeq(meta.ids, m + 2, L)
  <2>1. m + 1 \in 1 .. Len(meta.ids) /\ L \in m + 1 .. Len(meta.ids) /\ m + 1 + 1 = m + 2
    <3> HIDE DEF m
    <3> QED BY <1>20
  <2>2. i = meta.ids[m + 1] /\ Tail(todo[r]) = SubSeq(meta.ids, m + 1 + 1, L)
    <3> DEFINE p == m + 1
               u == SubSeq(meta.ids, p, L)
    <3>1. todo[r] = u
      BY <1>17
    <3>2. p \in 1 .. Len(meta.ids) /\ L \in p .. Len(meta.ids) /\ meta.ids \in Seq(Id)
      BY <1>0, <2>1
    <3>3. Head(u) = meta.ids[p] /\ Tail(u) = SubSeq(meta.ids, p + 1, L)
      <4> HIDE DEF p, L
      <4> QED BY <3>2, HeadTailOfSubSeq
    <3> HIDE DEF u
    <3> QED BY <3>1, <3>3
  <2>3. meta.ids[m + 1] \in Id
    BY <1>0, <2>1, ElementOfSeq
  <2> QED BY <2>1, <2>2, <2>3
<1>6. /\ todo'[r] = Tail(todo[r]) /\ Len(todo'[r]) = Len(todo[r]) - 1 /\ todo'[r] \in Seq(Nat)
      /\ found'[r] = IF keys[i] = NoEntry THEN found[r]
                     ELSE Append(found[r], [id |-> i, entry |-> keys[i]])
  BY <1>0, <1>2, HeadTailProperties DEF IInv, TypeOK, LoadEntry
<1>7. keys[i] # NoEntry => [id |-> i, entry |-> keys[i]] \in Found
  BY <1>0, <1>5 DEF Found
<1>8. found'[r] \in Seq(Found)
  BY <1>0, <1>6, <1>7, AppendProperties
<1>9. TypeOK'
  BY <1>2, <1>6, <1>8 DEF IInv, TypeOK, LoadEntry
<1>10. Done' = Done /\ Undone' = Undone
  BY <1>2, StoreSame
<1>11. keys[i] # NoEntry <=> m + 1 \in (a + 1 .. c) \cup (c + b + 1 .. L)
  <2>1. m + 1 \in 1 .. L
    BY <1>20
  <2>2. m + 1 \in Live <=> keys[i] # NoEntry
    BY <1>5, <2>1 DEF Live
  <2> QED BY <1>3, <2>2 DEF Gaps
<1>12. LoadedSoFar(r, a, b)'
  <2>1. Len(meta'.ids) - Len(todo'[r]) = m + 1 /\ m + 1 \in Nat
    <3>1. Len(meta'.ids) = L /\ Len(todo'[r]) = Len(todo[r]) - 1
      BY <1>2, <1>6
    <3>2. L - (Len(todo[r]) - 1) = m + 1 /\ m \in Nat
      BY <1>20
    <3>3. m + 1 \in Nat
      <4> HIDE DEF m
      <4> QED BY <3>2
    <3> HIDE DEF L, m
    <3> QED BY <3>1, <3>2, <3>3
  <2>2. todo'[r] = SubSeq(meta'.ids, m + 1 + 1, Len(meta'.ids))
    BY <1>2, <1>5, <1>6, <1>20
  <2>3. \A k : Place(a, b, k)' = Place(a, b, k)
    BY <1>2 DEF Place
  <2>4. IF m + 1 \in (a + 1 .. c) \cup (c + b + 1 .. L)
           THEN Place(a, b, n + 1) = m + 1 /\ Place(a, b, n + 2) > m + 1
           ELSE Place(a, b, n + 1) > m + 1
    <3>1. \A k \in Nat : Place(a, b, k) = IF k <= c - a THEN a + k ELSE a + b + k
      BY DEF Place
    <3> HIDE DEF c, L, m, n
    <3>2. /\ Place(a, b, n) = IF n <= c - a THEN a + n ELSE a + b + n
          /\ Place(a, b, n + 1) = IF n + 1 <= c - a THEN a + n + 1 ELSE a + b + n + 1
          /\ Place(a, b, n + 2) = IF n + 2 <= c - a THEN a + n + 2 ELSE a + b + n + 2
      BY <1>20, <3>1
    <3> QED BY <1>18, <1>20, <3>2
  <2>5. CASE keys[i] = NoEntry
    <3>1. found'[r] = found[r] /\ Place(a, b, n + 1) > m + 1
      BY <1>6, <1>11, <2>4, <2>5
    <3>2. n > 0 => Place(a, b, n) <= m + 1
      <4>1. Place(a, b, n) = IF n <= c - a THEN a + n ELSE a + b + n
        BY DEF Place
      <4> HIDE DEF c, L, m, n
      <4> QED BY <1>18, <1>20, <4>1
    <3> HIDE DEF m
    <3> QED BY <1>2, <1>19, <2>1, <2>2, <2>3, <3>1, <3>2 DEF LoadedSoFar
  <2>6. CASE keys[i] # NoEntry
    <3> DEFINE g == [id |-> i, entry |-> keys[i]]
               f == Append(found[r], g)
    <3>1. Place(a, b, n + 1) = m + 1 /\ Place(a, b, n + 2) > m + 1
      BY <1>11, <2>4, <2>6
    <3>2. f \in Seq(Found) /\ Len(f) = n + 1 /\ f[n + 1] = g /\ \A k \in 1 .. n : f[k] = found[r][k]
      BY <1>0, <1>7, <2>6, AppendProperties
    <3>3. found'[r] = f
      BY <1>6, <2>6
    <3>4. ASSUME NEW k \in 1 .. n + 1
          PROVE  LET d == meta.ids[Place(a, b, k)] IN f[k] = [id |-> d, entry |-> keys[d]]
      <4>1. CASE k = n + 1
        BY <1>5, <3>1, <3>2, <4>1
      <4>2. CASE k \in 1 .. n
        BY <1>19, <3>2, <4>2
      <4>3. k = n + 1 \/ k \in 1 .. n
        BY <1>0
      <4> QED BY <4>1, <4>2, <4>3
    <3>5. Place(a, b, Len(f)) <= m + 1 /\ Place(a, b, Len(f) + 1) > m + 1
      <4>1. n + 1 + 1 = n + 2 /\ m + 1 <= m + 1
        <5> HIDE DEF n, m
        <5> QED BY <1>20
      <4> HIDE DEF f, n, m
      <4> QED BY <3>1, <3>2, <4>1
    <3>6. \A k \in 1 .. Len(f) :
            LET d == meta.ids[Place(a, b, k)] IN f[k] = [id |-> d, entry |-> keys[d]]
      <4> HIDE DEF f
      <4> QED BY <3>2, <3>4
    <3> HIDE DEF m, f
    <3> QED BY <1>2, <2>1, <2>2, <2>3, <3>3, <3>5, <3>6 DEF LoadedSoFar
  <2> QED BY <2>5, <2>6
<1>13. StackInOrder'
  <2>1. Gaps(a, b)'
    BY <1>2, <1>3 DEF Gaps, Live
  <2> QED BY <1>1, <1>2, <1>3, <1>12, <2>1 DEF StackInOrder
<1>14. IdsInOrder' /\ Fresh' /\ ReplayInOrder' /\ ModesInOrder'
  BY <1>1, <1>2 DEF IInv, IdsInOrder, Fresh, Recording, ReplayInOrder, ModesInOrder
<1>15. Unsettled' = Unsettled
  BY <1>2, UnsettledIs, UnsettledNext
<1>16. DoneIsApplied' /\ UndoneIsGone'
  BY <1>2, <1>10, <1>15 DEF IInv, DoneIsApplied, UndoneIsGone
<1> QED
  BY <1>9, <1>10, <1>13, <1>14, <1>16 DEF IInv

\* The elements of a sequence.
LEMMA HeadTailSet ==
  ASSUME NEW S, NEW s \in Seq(S), s # <<>>
  PROVE  ToSet(s) = {Head(s)} \cup ToSet(Tail(s)) /\ (Len(s) = 1 => Tail(s) = <<>>)
<1> DEFINE n == Len(s)
           t == Tail(s)
<1>1. n \in Nat \ {0} /\ DOMAIN s = 1 .. n /\ Head(s) = s[1]
  BY LenProperties, EmptySeq
<1>2. t \in Seq(S) /\ Len(t) = n - 1 /\ \A i \in 1 .. n - 1 : t[i] = s[i + 1]
  BY HeadTailProperties
<1>3. DOMAIN t = 1 .. n - 1
  BY <1>2, LenProperties
<1> HIDE DEF n, t
<1>4. ASSUME NEW i \in 1 .. n PROVE s[i] \in {s[1]} \cup ToSet(t)
  <2>1. CASE i = 1
    BY <2>1
  <2>2. CASE i # 1
    <3>1. i - 1 \in 1 .. n - 1 /\ i - 1 + 1 = i
      BY <1>1, <2>2
    <3> QED BY <1>2, <1>3, <3>1 DEF ToSet
  <2> QED BY <2>1, <2>2
<1>5. ASSUME NEW i \in 1 .. n - 1 PROVE t[i] \in ToSet(s)
  <2>1. i + 1 \in 1 .. n
    BY <1>1
  <2> QED BY <1>1, <1>2, <2>1 DEF ToSet
<1>6. ToSet(s) = {s[1]} \cup ToSet(t)
  <2>1. s[1] \in ToSet(s)
    BY <1>1 DEF ToSet
  <2>2. ToSet(s) = {s[i] : i \in 1 .. n} /\ ToSet(t) = {t[i] : i \in 1 .. n - 1}
    BY <1>1, <1>3 DEF ToSet
  <2> QED BY <1>4, <1>5, <2>1, <2>2
<1>7. Len(s) = 1 => t = <<>>
  BY <1>2, EmptySeq DEF n
<1> QED
  BY <1>1, <1>6, <1>7 DEF t

\* One edit is replayed.
LEMMA ReplayStep ==
  ASSUME IInv, Sequential, NEW r \in Request, Replay(r)
  PROVE  IInv' /\ Done' = Done /\ Undone' = Undone
<1> DEFINE e == Head(todo[r])
           rest == Tail(todo[r])
<1>1. \A q \in Request : q = r
  BY DEF Sequential
<1>2. /\ UNCHANGED <<store, edits>> /\ pc[r] = "replay" /\ meta' = meta /\ keys' = keys
      /\ applied' = (IF mode[r] = "undo" THEN applied \ {e} ELSE applied \cup {e})
      /\ stray' = stray \ {e}
  BY DEF Replay, store
<1>3. /\ todo[r] \in Seq(Nat) /\ todo[r] # <<>>
      /\ ToSet(todo[r]) \subseteq ToSet(IF mode[r] = "undo" THEN Undone ELSE Done)
      /\ mode[r] \in {"undo", "redo"}
  BY <1>2 DEF IInv, TypeOK, ReplayInOrder, ModesInOrder
<1>4. ToSet(todo[r]) = {e} \cup ToSet(rest) /\ (Len(todo[r]) = 1 => rest = <<>>)
  BY <1>3, HeadTailSet
<1>5. PICK a \in 0 .. meta.cursor, b \in 0 .. Len(meta.ids) - meta.cursor : Gaps(a, b)
  BY DEF IInv, StackInOrder
<1>6. /\ ToSet(Done) \cap ToSet(Undone) = {}
      /\ \A d \in ToSet(Done) \cup ToSet(Undone) : d \in Edit /\ d <= edits
  BY <1>5, WindowHolds, HalvesApart DEF IInv
<1>7. edits \in Nat /\ e \in 1 .. edits
  <2>1. edits \in Nat
    BY StoreAssumption DEF IInv, TypeOK
  <2>2. e \in ToSet(Done) \cup ToSet(Undone)
    BY <1>3, <1>4
  <2>3. e \in Edit /\ e <= edits
    BY <1>6, <2>2
  <2> HIDE DEF e
  <2> QED BY <2>1, <2>3 DEF Edit
<1>8. Done' = Done /\ Undone' = Undone
  BY <1>2, StoreSame
<1>9. Unsettled \subseteq Unsettled' \cup {e}
  <2>1. Unsettled = stray \cup {e} \cup ToSet(rest)
    BY <1>2, <1>4, UnsettledIs
  <2>2. CASE Len(todo[r]) = 1
    <3>1. rest = <<>> /\ ToSet(rest) = {}
      BY <1>4, <2>2 DEF ToSet
    <3>2. stray \ {e} \subseteq Unsettled'
      BY <1>2, UnsettledNext
    <3> QED BY <2>1, <3>1, <3>2
  <2>3. CASE Len(todo[r]) # 1
    <3>1. pc'[r] = "replay" /\ todo'[r] = rest
      BY <1>2, <2>3 DEF Replay, IInv, TypeOK
    <3> QED BY <1>2, <2>1, <3>1, UnsettledNext
  <2> QED BY <2>2, <2>3
<1>10. DoneIsApplied'
  BY <1>2, <1>3, <1>4, <1>6, <1>8, <1>9 DEF IInv, DoneIsApplied
<1>11. UndoneIsGone'
  BY <1>2, <1>3, <1>4, <1>6, <1>8, <1>9 DEF IInv, UndoneIsGone
<1>12. applied' \subseteq 1 .. edits /\ stray' \subseteq 1 .. edits
  BY <1>2, <1>7 DEF IInv, TypeOK
<1>13. CASE Len(todo[r]) = 1
  <2>1. EndOf(r)
    BY <1>13 DEF Replay
  <2>2. IdsInOrder' /\ Fresh' /\ StackInOrder' /\ ReplayInOrder' /\ ModesInOrder'
    BY <1>2, <2>1, EndKeeps
  <2>3. TypeOK'
    BY <1>2, <1>12, <2>1, EndType DEF IInv, TypeOK, store
  <2> QED BY <1>8, <1>10, <1>11, <2>2, <2>3 DEF IInv
<1>14. CASE Len(todo[r]) # 1
  <2>1. /\ UNCHANGED <<pc, mode, snap, found, entry>>
        /\ todo' = [todo EXCEPT ![r] = rest] /\ todo'[r] = rest
    BY <1>14 DEF Replay, IInv, TypeOK
  <2>2. rest \in Seq(Nat) /\ rest # <<>>
    <3>1. Len(todo[r]) \in Nat \ {0} /\ rest \in Seq(Nat) /\ Len(rest) = Len(todo[r]) - 1
      BY <1>3, EmptySeq, HeadTailProperties
    <3>2. Len(rest) # 0
      BY <1>14, <3>1
    <3> HIDE DEF rest
    <3> QED BY <3>1, <3>2, EmptySeq
  <2>3. TypeOK'
    BY <1>2, <1>12, <2>1, <2>2 DEF IInv, TypeOK, store
  <2>4. IdsInOrder'
    BY <1>2 DEF IInv, IdsInOrder
  <2>5. Fresh' /\ ModesInOrder'
    BY <1>1, <1>2, <2>1 DEF IInv, Fresh, Recording, ModesInOrder
  <2>6. StackInOrder'
    BY <1>2, <2>1, StackSame
  <2>7. ReplayInOrder'
    <3>1. ToSet(rest) \subseteq ToSet(IF mode'[r] = "undo" THEN Undone' ELSE Done')
      BY <1>3, <1>4, <1>8, <2>1
    <3> QED BY <1>1, <2>1, <2>2, <3>1 DEF ReplayInOrder
  <2> QED BY <1>8, <1>10, <1>11, <2>3, <2>4, <2>5, <2>6, <2>7 DEF IInv
<1> QED
  BY <1>13, <1>14

\* Where the next key to delete stands, when j keys are deleted already.
NextAt(c, L, j) == IF j < L - c THEN c + j + 1 ELSE j + 1 - (L - c)

\* What has gone after one more deletion.
NextGoneIs(c, L, a, b, j) ==
  /\ NextAt(c, L, j) \in 1 .. L
  /\ \E a1 \in 0 .. c, b1 \in 0 .. L - c :
       /\ a1 > 0 => b1 = L - c
       /\ j + 1 <= a1 + b1
       /\ Both(a + 1, c, c + b + 1, L) \ {NextAt(c, L, j)} = Both(a1 + 1, c, c + b1 + 1, L)
       /\ \/ a1 = a /\ b1 = b /\ NextAt(c, L, j) \notin Both(a + 1, c, c + b + 1, L)
          \/ a1 = a /\ b1 = b + 1
          \/ a1 = a + 1 /\ b1 = b /\ b = L - c

\* A deletion takes what comes next, or what has gone already.
LEMMA NextGone ==
  ASSUME NEW c \in Nat, NEW L \in Nat, NEW a \in Nat, NEW b \in Nat, NEW x \in Nat, NEW j \in Nat,
         a <= c, c + b <= L, a > 0 => b = L - c, x <= c, j <= a + b, j < L - c + x
  PROVE  NextGoneIs(c, L, a, b, j)
<1> DEFINE k == NextAt(c, L, j)
<1>1. CASE j < a + b
  <2>1. k \in 1 .. L /\ j + 1 <= a + b
    BY <1>1 DEF NextAt
  <2>2. ~ (a + 1 <= k /\ k <= c) /\ ~ (c + b + 1 <= k /\ k <= L)
    BY <1>1 DEF NextAt
  <2>3. k \notin Both(a + 1, c, c + b + 1, L)
    BY <2>2 DEF Both
  <2>4. Both(a + 1, c, c + b + 1, L) \ {k} = Both(a + 1, c, c + b + 1, L)
    BY <2>3
  <2>5. a \in 0 .. c /\ b \in 0 .. L - c
    OBVIOUS
  <2> HIDE DEF k
  <2> QED BY <2>1, <2>3, <2>4, <2>5 DEF k, NextGoneIs
<1>2. CASE j = a + b /\ b < L - c
  <2>1. a = 0 /\ k = c + b + 1 /\ k \in 1 .. L /\ j + 1 <= a + (b + 1) /\ b + 1 \in 0 .. L - c
    BY <1>2 DEF NextAt
  <2>2. \A z \in Int : (c + b + 1 <= z /\ z # c + b + 1) <=> c + (b + 1) + 1 <= z
    OBVIOUS
  <2>3. \A z \in Int : z <= c => z # c + b + 1
    OBVIOUS
  <2>4. Both(a + 1, c, c + b + 1, L) \ {k} = Both(a + 1, c, c + (b + 1) + 1, L)
    BY <2>1, <2>2, <2>3 DEF Both
  <2>5. a \in 0 .. c
    OBVIOUS
  <2> HIDE DEF k
  <2> QED BY <1>2, <2>1, <2>4, <2>5 DEF k, NextGoneIs
<1>3. CASE j = a + b /\ b = L - c
  <2>1. k = a + 1 /\ k \in 1 .. L /\ a + 1 \in 0 .. c /\ j + 1 <= (a + 1) + b
    BY <1>3 DEF NextAt
  <2>2. Both(a + 1, c, c + b + 1, L) \ {k} = Both(a + 1 + 1, c, c + b + 1, L)
    BY <2>1 DEF Both
  <2>3. b \in 0 .. L - c
    OBVIOUS
  <2> HIDE DEF k
  <2> QED BY <1>3, <2>1, <2>2, <2>3 DEF k, NextGoneIs
<1> QED
  BY <1>1, <1>2, <1>3

\* A sequence without its first element.
LEMMA TailIs ==
  ASSUME NEW S, NEW s \in Seq(S), NEW t \in Seq(S), Len(s) > 0, Len(t) = Len(s) - 1,
         \A i \in 1 .. Len(t) : t[i] = s[i + 1]
  PROVE  t = Tail(s)
<1> DEFINE u == Tail(s)
<1>1. s # <<>> /\ Len(t) \in Nat /\ Len(s) \in Nat
  BY EmptySeq, LenProperties
<1>2. u \in Seq(S) /\ Len(u) = Len(s) - 1 /\ \A i \in 1 .. Len(u) : u[i] = s[i + 1]
  BY <1>1, HeadTailProperties
<1>3. Len(t) = Len(u) /\ \A i \in 1 .. Len(t) : t[i] = u[i]
  <2> HIDE DEF u
  <2> QED BY <1>2
<1> QED
  <2> HIDE DEF u
  <2>1. t = u
    BY <1>2, <1>3, SeqEqual
  <2> QED BY <2>1 DEF u

\* Ids differ, so a key belongs to one position.
LEMMA OneKeyGone ==
  ASSUME IInv, NEW k \in 1 .. Len(meta.ids), meta' = meta,
         keys' = [keys EXCEPT ![meta.ids[k]] = NoEntry]
  PROVE  /\ Live' = Live \ {k}
         /\ \A z \in Live' : keys'[meta.ids[z]] = keys[meta.ids[z]]
         /\ k \notin Live => keys' = keys
<1>1. /\ Len(meta.ids) \in Nat /\ keys \in [Id -> Edit \cup {NoEntry}]
      /\ \A z \in 1 .. Len(meta.ids) : meta.ids[z] \in Id
  BY LenProperties, ElementOfSeq DEF IInv, TypeOK, Meta
<1>2. ASSUME NEW z \in 1 .. Len(meta.ids), z # k PROVE meta.ids[z] # meta.ids[k]
  <2>1. z < k \/ k < z
    BY <1>2
  <2>2. meta.ids[z] < meta.ids[k] \/ meta.ids[k] < meta.ids[z]
    BY <2>1 DEF IInv, IdsInOrder
  <2>3. meta.ids[z] \in Nat /\ meta.ids[k] \in Nat
    BY <1>1 DEF Id
  <2> QED BY <2>2, <2>3
<1>3. \A z \in 1 .. Len(meta.ids) : z # k => keys'[meta.ids[z]] = keys[meta.ids[z]]
  BY <1>1, <1>2
<1>4. keys'[meta.ids[k]] = NoEntry
  BY <1>1
<1>5. Live' = Live \ {k}
  BY <1>3, <1>4 DEF Live
<1>6. k \notin Live => keys' = keys
  BY <1>1 DEF Live
<1> QED
  BY <1>3, <1>5, <1>6 DEF Live

\* What a request records is an edit.
LEMMA EntryIsEdit ==
  ASSUME IInv, NEW r \in Request, Recording(r)
  PROVE  entry[r] \in Edit /\ entry[r] # NoEntry /\ entry[r] <= edits
<1>1. edits \in 0 .. MaxEdits /\ applied \subseteq 1 .. edits /\ entry[r] \in applied
  BY DEF IInv, TypeOK, Fresh
<1>2. entry[r] \in Edit
  <2>1. edits \in Nat /\ edits <= MaxEdits /\ MaxEdits \in Nat
    BY <1>1, StoreAssumption
  <2>2. 1 .. edits \subseteq 1 .. MaxEdits
    BY <2>1
  <2> QED BY <1>1, <2>2 DEF Edit
<1>3. entry[r] <= edits
  <2>1. entry[r] \in 1 .. edits
    BY <1>1
  <2> QED BY <2>1
<1> QED
  BY <1>2, <1>3, StoreAssumption

\* What a deletion does to the stack.
Shortened ==
  \/ Done' = Done /\ Undone' = Undone
  \/ Undone # <<>> /\ Undone' = Tail(Undone) /\ Done' = Done
  \/ Done # <<>> /\ Done' = Tail(Done) /\ Undone' = Undone

\* An append deletes one more key.
LEMMA DeleteKeyStep ==
  ASSUME IInv, Sequential, NEW r \in Request, DeleteKey(r)
  PROVE  IInv' /\ Shortened
<1> DEFINE c == meta.cursor
           L == Len(meta.ids)
           D == Dropped(meta)
           x == Excess(meta)
           d == Head(todo[r])
           t == Len(todo[r])
<1>0. /\ meta \in Meta /\ c <= L /\ meta.ids \in Seq(Id) /\ L \in Nat /\ c \in Nat
      /\ keys \in [Id -> Edit \cup {NoEntry}]
      /\ todo[r] \in Seq(Nat) /\ t \in Nat \ {0}
  BY LenProperties, EmptySeq DEF IInv, TypeOK, Meta, DeleteKey
<1>1. \A q \in Request : q = r
  BY DEF Sequential
<1>2. /\ UNCHANGED <<meta, edits, applied, stray, pc, mode, snap, found, entry>>
      /\ pc[r] = "delete" /\ todo[r] # <<>>
      /\ keys' = [keys EXCEPT ![d] = NoEntry]
      /\ todo' = [todo EXCEPT ![r] = Tail(todo[r])]
  BY DEF DeleteKey
<1>3. PICK a \in 0 .. c, b \in 0 .. L - c : Gaps(a, b) /\ DeletedSoFar(r, a, b) /\ snap[r] = meta
  BY <1>2 DEF IInv, StackInOrder
<1>4. /\ x \in 0 .. c /\ D \in Seq(Id) /\ Len(D) = L - c + x
      /\ \A k \in 1 .. L - c : D[k] = meta.ids[c + k]
      /\ \A k \in 1 .. x : D[L - c + k] = meta.ids[k]
  BY <1>0, DroppedIs
<1>5. Window(a, b)
  BY <1>3, WindowHolds DEF IInv
<1> DEFINE j == Len(D) - t
<1>6. j \in 0 .. a + b /\ todo[r] = SubSeq(D, j + 1, Len(D))
  BY <1>3 DEF DeletedSoFar
<1>7. /\ a \in Nat /\ b \in Nat /\ x \in Nat /\ j \in Nat /\ L \in Nat /\ c \in Nat
      /\ a <= c /\ c + b <= L /\ (a > 0 => b = L - c) /\ x <= c /\ j <= a + b /\ j < L - c + x
      /\ Len(D) - (t - 1) = j + 1
  <2>1. a > 0 => b = L - c
    BY <1>3 DEF Gaps
  <2>2. L \in Nat /\ c \in Nat /\ t \in Nat \ {0} /\ x \in 0 .. c /\ Len(D) = L - c + x /\ c <= L
    BY <1>0, <1>4
  <2> HIDE DEF c, L, D, x, t
  <2>3. a \in Nat /\ b \in Nat /\ a <= c /\ c + b <= L
    BY <2>2
  <2>4. j \in Nat /\ j <= a + b /\ j < L - c + x /\ Len(D) - (t - 1) = j + 1
    <3>1. j \in 0 .. a + b /\ a \in Nat /\ b \in Nat
      BY <1>6, <2>3
    <3> QED BY <2>2, <3>1
  <2> QED BY <2>1, <2>2, <2>3, <2>4
<1> HIDE DEF j
<1> DEFINE k == NextAt(c, L, j)
<1>23. /\ k \in 1 .. L
      /\ \E a1 \in 0 .. c, b1 \in 0 .. L - c :
           /\ a1 > 0 => b1 = L - c
           /\ j + 1 <= a1 + b1
           /\ Both(a + 1, c, c + b + 1, L) \ {k} = Both(a1 + 1, c, c + b1 + 1, L)
           /\ \/ a1 = a /\ b1 = b /\ k \notin Both(a + 1, c, c + b + 1, L)
              \/ a1 = a /\ b1 = b + 1
              \/ a1 = a + 1 /\ b1 = b /\ b = L - c
  <2>1. NextGoneIs(c, L, a, b, j)
    <3> HIDE DEF c, L, x, D, d, t
    <3> QED BY <1>7, NextGone
  <2> QED BY <2>1 DEF NextGoneIs
<1> HIDE DEF k
<1>8. PICK a1 \in 0 .. c, b1 \in 0 .. L - c :
        /\ a1 > 0 => b1 = L - c
        /\ j + 1 <= a1 + b1
        /\ Both(a + 1, c, c + b + 1, L) \ {k} = Both(a1 + 1, c, c + b1 + 1, L)
        /\ \/ a1 = a /\ b1 = b /\ k \notin Both(a + 1, c, c + b + 1, L)
           \/ a1 = a /\ b1 = b + 1
           \/ a1 = a + 1 /\ b1 = b /\ b = L - c
  BY <1>23
<1>9. d = D[j + 1] /\ Tail(todo[r]) = SubSeq(D, j + 1 + 1, Len(D))
  <2> DEFINE p == j + 1
             n == Len(D)
  <2>1. p \in 1 .. n /\ n \in p .. n
    <3>1. n = L - c + x
      BY <1>4
    <3> HIDE DEF n, c, L, x
    <3> QED BY <1>7, <3>1
  <2>2. D \in Seq(Id) /\ todo[r] = SubSeq(D, p, n)
    BY <1>4, <1>6
  <2>3. Head(SubSeq(D, p, n)) = D[p] /\ Tail(SubSeq(D, p, n)) = SubSeq(D, p + 1, n)
    <3> HIDE DEF D, p
    <3>1. n = Len(D)
      OBVIOUS
    <3> QED BY <2>1, <2>2, HeadTailOfSubSeq
  <2> QED BY <2>2, <2>3
<1>10. d = meta.ids[k]
  <2>1. CASE j < L - c
    <3>1. j + 1 \in 1 .. L - c /\ c + (j + 1) = c + j + 1
      <4> HIDE DEF c, L
      <4> QED BY <1>7, <2>1
    <3>2. D[j + 1] = meta.ids[c + j + 1]
      <4> HIDE DEF D
      <4> QED BY <1>4, <3>1
    <3>3. k = c + j + 1
      BY <2>1 DEF k, NextAt
    <3> HIDE DEF c, L, D, d
    <3> QED BY <1>9, <3>2, <3>3 
  <2>2. CASE ~ (j < L - c)
    <3>1. j + 1 - (L - c) \in 1 .. x /\ L - c + (j + 1 - (L - c)) = j + 1
      <4> HIDE DEF c, L, x
      <4> QED BY <1>7, <2>2
    <3>2. D[j + 1] = meta.ids[j + 1 - (L - c)]
      <4> HIDE DEF D
      <4> QED BY <1>4, <3>1
    <3>3. k = j + 1 - (L - c)
      BY <2>2 DEF k, NextAt
    <3> HIDE DEF c, L, D, d
    <3> QED BY <1>9, <3>2, <3>3
  <2> QED BY <2>1, <2>2
<1>24. d \in Id
  BY <1>0, <1>10, <1>23, ElementOfSeq
<1>11. /\ Live' = Live \ {k}
       /\ \A z \in Live' : keys'[meta.ids[z]] = keys[meta.ids[z]]
       /\ k \notin Live => keys' = keys
  <2>1. k \in 1 .. Len(meta.ids) /\ meta' = meta /\ keys' = [keys EXCEPT ![meta.ids[k]] = NoEntry]
    BY <1>2, <1>10, <1>23
  <2> QED BY <2>1, OneKeyGone
<1>12. Gaps(a1, b1)'
  <2>1. Live = Both(a + 1, c, c + b + 1, L)
    BY <1>0, <1>3 DEF Gaps, Both
  <2>2. Live' = Both(a1 + 1, c, c + b1 + 1, L)
    BY <1>8, <1>11, <2>1
  <2>3. a1 \in Nat /\ b1 \in Nat
    BY <1>8
  <2>4. Live' = (a1 + 1 .. c) \cup (c + b1 + 1 .. L)
    BY <1>0, <2>2, <2>3 DEF Both
  <2> QED BY <1>2, <1>8, <2>4 DEF Gaps
<1>13. /\ todo'[r] = Tail(todo[r]) /\ Len(Tail(todo[r])) = t - 1 /\ Tail(todo[r]) \in Seq(Nat)
       /\ keys' \in [Id -> Edit \cup {NoEntry}]
       /\ \A i \in Id : keys'[i] # NoEntry => keys'[i] = keys[i]
  BY <1>0, <1>2, <1>24, HeadTailProperties DEF IInv, TypeOK
<1>14. TypeOK'
  BY <1>2, <1>13 DEF IInv, TypeOK
<1>15. IdsInOrder'
  BY <1>2, <1>13 DEF IInv, IdsInOrder
<1>16. Fresh'
  <2>1. Recording(r) => entry[r] # NoEntry
    BY EntryIsEdit
  <2> QED BY <1>1, <1>2, <1>13, <2>1 DEF IInv, Fresh, Recording
<1>17. StackInOrder'
  <2>1. Dropped(meta)' = D
    BY <1>2 DEF Dropped, Kept, Excess
  <2>2. Len(D) - Len(todo'[r]) = j + 1 /\ todo'[r] = SubSeq(D, j + 1 + 1, Len(D))
    BY <1>7, <1>9, <1>13
  <2>3. j + 1 \in 0 .. a1 + b1
    <3>1. a1 \in Nat /\ b1 \in Nat /\ j \in Nat
      BY <1>7, <1>8
    <3> QED BY <1>8, <3>1
  <2>4. DeletedSoFar(r, a1, b1)'
    <3> HIDE DEF D
    <3> QED BY <2>1, <2>2, <2>3 DEF DeletedSoFar
  <2> QED BY <1>1, <1>2, <1>3, <1>8, <1>12, <2>4 DEF StackInOrder
<1>18. ReplayInOrder' /\ ModesInOrder'
  BY <1>1, <1>2 DEF IInv, ReplayInOrder, ModesInOrder
<1>19. Unsettled' = Unsettled
  BY <1>2, UnsettledIs, UnsettledNext
<1>20. Shape(a, b) /\ Shape(a1, b1)'
  <2>1. Window(a1, b1)'
    BY <1>0, <1>2, <1>8, <1>12, <1>13 DEF Window
  <2> QED BY <1>5, <2>1, Halves, HalvesNext
<1>25. \A z \in Int : (a1 + 1 <= z /\ z <= c) \/ (c + b1 + 1 <= z /\ z <= L)
         => keys'[meta.ids[z]] = keys[meta.ids[z]]
  <2>1. Live' = (a1 + 1 .. c) \cup (c + b1 + 1 .. L)
    BY <1>2, <1>12 DEF Gaps
  <2> QED BY <1>11, <2>1
<1>26. /\ Done \in Seq(Edit) /\ Done' \in Seq(Edit)
       /\ Len(Done) = c - a /\ Len(Done') = c - a1
       /\ \A n \in 1 .. c - a : Done[n] = keys[meta.ids[a + n]]
       /\ \A n \in 1 .. c - a1 : Done'[n] = keys'[meta.ids[a1 + n]]
  BY <1>2, <1>20 DEF Shape
<1>27. /\ Undone \in Seq(Edit) /\ Undone' \in Seq(Edit)
       /\ Len(Undone) = L - c - b /\ Len(Undone') = L - c - b1
       /\ \A n \in 1 .. L - c - b : Undone[n] = keys[meta.ids[c + b + n]]
       /\ \A n \in 1 .. L - c - b1 : Undone'[n] = keys'[meta.ids[c + b1 + n]]
  BY <1>2, <1>20 DEF Shape
<1>28. a1 = a => Done' = Done
  <2> SUFFICES ASSUME a1 = a PROVE Done' = Done
    OBVIOUS
  <2>1. \A n \in 1 .. c - a : Done'[n] = Done[n]
    BY <1>0, <1>25, <1>26
  <2> QED BY <1>26, <2>1, SeqEqual
<1>29. b1 = b => Undone' = Undone
  <2> SUFFICES ASSUME b1 = b PROVE Undone' = Undone
    OBVIOUS
  <2>1. \A n \in 1 .. L - c - b : Undone'[n] = Undone[n]
    <3> SUFFICES ASSUME NEW n \in 1 .. L - c - b PROVE Undone'[n] = Undone[n]
      OBVIOUS
    <3>1. c + b + n \in Int /\ c + b1 + 1 <= c + b + n /\ c + b + n <= L
      BY <1>0
    <3> QED BY <1>25, <1>27, <3>1
  <2> QED BY <1>27, <2>1, SeqEqual
<1>30. /\ a \in Nat /\ b \in Nat /\ L \in Nat /\ c \in Nat /\ b1 \in Nat
       /\ c + b <= L /\ c + b1 <= L
  <2>1. c \in Nat /\ L \in Nat /\ c <= L /\ b1 \in 0 .. L - c
    BY <1>0
  <2> HIDE DEF c, L
  <2> QED BY <1>7, <2>1
<1>21. Shortened
  <2>1. CASE k \notin Both(a + 1, c, c + b + 1, L)
    <3>1. Live = Both(a + 1, c, c + b + 1, L)
      BY <1>0, <1>3 DEF Gaps, Both
    <3>2. UNCHANGED store
      BY <1>2, <1>11, <2>1, <3>1 DEF store
    <3> QED BY <3>2, StoreSame DEF Shortened
  <2>2. CASE a1 = a /\ b1 = b + 1
    <3>1. Len(Undone) > 0 /\ Len(Undone') = Len(Undone) - 1
      <4>1. Len(Undone) = L - c - b /\ Len(Undone') = L - c - b1
        BY <1>27
      <4>2. L - c - b > 0 /\ L - c - b1 = L - c - b - 1
        <5> HIDE DEF c, L
        <5> QED BY <1>30, <2>2
      <4> HIDE DEF c, L
      <4> QED BY <4>1, <4>2
    <3>2. ASSUME NEW n \in 1 .. L - c - b1 PROVE Undone'[n] = Undone[n + 1]
      <4>1. /\ n + 1 \in 1 .. L - c - b /\ c + b1 + n = c + b + (n + 1) /\ c + b1 + n \in Int
            /\ c + b1 + 1 <= c + b1 + n /\ c + b1 + n <= L
        <5> HIDE DEF c, L
        <5>1. n \in Int /\ 1 <= n /\ n <= L - c - b1
          BY <1>30
        <5> QED BY <1>30, <2>2, <5>1
      <4> QED BY <1>25, <1>27, <4>1
    <3>3. Undone' = Tail(Undone)
      BY <1>27, <3>1, <3>2, TailIs
    <3>4. Undone # <<>>
      BY <3>1, EmptySeq
    <3> QED BY <1>28, <2>2, <3>3, <3>4 DEF Shortened
  <2>3. CASE a1 = a + 1 /\ b1 = b
    <3>1. Len(Done) > 0 /\ Len(Done') = Len(Done) - 1
      BY <1>0, <1>7, <1>26, <2>3
    <3>2. ASSUME NEW n \in 1 .. c - a1 PROVE Done'[n] = Done[n + 1]
      <4>1. /\ n + 1 \in 1 .. c - a /\ a1 + n = a + (n + 1) /\ a1 + n \in Int
            /\ a1 + 1 <= a1 + n /\ a1 + n <= c
        BY <1>0, <2>3
      <4> QED BY <1>25, <1>26, <4>1
    <3>3. Done' = Tail(Done)
      BY <1>26, <3>1, <3>2, TailIs
    <3>4. Done # <<>>
      BY <3>1, EmptySeq
    <3> QED BY <1>29, <2>3, <3>3, <3>4 DEF Shortened
  <2> QED BY <1>8, <2>1, <2>2, <2>3
<1>22. DoneIsApplied' /\ UndoneIsGone'
  <2>1. ToSet(Done') \subseteq ToSet(Done) /\ ToSet(Undone') \subseteq ToSet(Undone)
    BY <1>21, <1>26, <1>27, HeadTailSet DEF Shortened
  <2> QED BY <1>2, <1>19, <2>1 DEF IInv, DoneIsApplied, UndoneIsGone
<1> QED
  BY <1>14, <1>15, <1>16, <1>17, <1>18, <1>21, <1>22 DEF IInv

\* An append stores its entry: no id refers to it yet.
LEMMA StoreEntryStep ==
  ASSUME IInv, Sequential, NEW r \in Request, StoreEntry(r)
  PROVE  IInv' /\ Done' = Done /\ Undone' = Undone
<1>1. \A q \in Request : q = r
  BY DEF Sequential
<1>2. /\ UNCHANGED <<meta, edits, applied, stray, mode, snap, todo, found, entry>>
      /\ pc[r] = "delete" /\ todo[r] = <<>>
      /\ keys' = [keys EXCEPT ![snap[r].next] = entry[r]]
      /\ pc' = [pc EXCEPT ![r] = "commit"]
  BY DEF StoreEntry, Goto
<1>3. PICK a \in 0 .. meta.cursor, b \in 0 .. Len(meta.ids) - meta.cursor :
        Gaps(a, b) /\ DeletedSoFar(r, a, b) /\ snap[r] = meta
  BY <1>2 DEF IInv, StackInOrder
<1>4. /\ meta \in Meta /\ meta.cursor <= Len(meta.ids) /\ Len(meta.ids) \in Nat
      /\ meta.cursor \in Nat /\ meta.next \in Nat \ {0} /\ pc'[r] = "commit"
      /\ keys \in [Id -> Edit \cup {NoEntry}]
      /\ \A i \in 1 .. Len(meta.ids) : meta.ids[i] \in Id /\ meta.ids[i] < meta.next
  BY <1>2, LenProperties, ElementOfSeq DEF IInv, TypeOK, Meta
<1>5. Recording(r)
  BY <1>2 DEF IInv, ModesInOrder, Recording
<1>6. meta.next <= edits /\ entry[r] \in applied /\ \A i \in Id : keys[i] # entry[r]
  BY <1>2, <1>5 DEF IInv, Fresh
<1>7. entry[r] \in Edit /\ entry[r] # NoEntry /\ entry[r] <= edits
  BY <1>5, EntryIsEdit
<1>8. edits \in Nat /\ edits <= MaxEdits /\ applied \subseteq 1 .. edits /\ meta.next \in Id
  <2>1. edits \in Nat /\ edits <= MaxEdits /\ MaxEdits \in Nat /\ applied \subseteq 1 .. edits
    BY StoreAssumption DEF IInv, TypeOK
  <2> QED BY <1>4, <1>6, <2>1 DEF Id
<1>9. entry[r] <= edits
  BY <1>7
<1>10. /\ keys' \in [Id -> Edit \cup {NoEntry}]
       /\ keys'[meta.next] = entry[r]
       /\ \A i \in Id : i # meta.next => keys'[i] = keys[i]
  BY <1>2, <1>3, <1>4, <1>7, <1>8
<1>11. \A i \in 1 .. Len(meta.ids) : keys'[meta.ids[i]] = keys[meta.ids[i]]
  <2> SUFFICES ASSUME NEW i \in 1 .. Len(meta.ids) PROVE keys'[meta.ids[i]] = keys[meta.ids[i]]
    OBVIOUS
  <2>1. meta.ids[i] \in Id /\ meta.ids[i] \in Nat /\ meta.ids[i] < meta.next
    BY <1>4 DEF Id
  <2> QED BY <1>4, <1>10, <2>1
<1>12. TypeOK'
  BY <1>2, <1>10 DEF IInv, TypeOK
<1>13. Live' = Live
  BY <1>2, <1>11 DEF Live
<1>14. Gaps(a, b)'
  BY <1>2, <1>3, <1>13 DEF Gaps
<1>15. IdsInOrder'
  <2>1. \A i \in Id : keys'[i] # NoEntry => keys'[i] <= edits
    BY <1>9, <1>10 DEF IInv, IdsInOrder
  <2>2. ASSUME NEW i \in Id, NEW j \in Id, keys'[i] # NoEntry, keys'[i] = keys'[j]
        PROVE  i = j
    <3>1. CASE i # meta.next /\ j # meta.next
      BY <1>10, <2>2, <3>1 DEF IInv, IdsInOrder
    <3>2. CASE i = meta.next \/ j = meta.next
      BY <1>6, <1>10, <2>2, <3>2
    <3> QED BY <3>1, <3>2
  <2> QED BY <1>2, <2>1, <2>2 DEF IInv, IdsInOrder
<1>16. Fresh'
  BY <1>1, <1>2, <1>4, <1>6, <1>10 DEF Fresh
<1>17. StackInOrder'
  <2>1. DeletedSoFar(r, a, b)'
    BY <1>2, <1>3 DEF DeletedSoFar, Dropped, Kept, Excess
  <2> QED BY <1>1, <1>2, <1>3, <1>4, <1>14, <2>1 DEF StackInOrder
<1>18. ReplayInOrder' /\ ModesInOrder'
  BY <1>1, <1>2, <1>4 DEF IInv, ReplayInOrder, ModesInOrder
<1>19. Unsettled' = Unsettled
  BY <1>2, <1>4, UnsettledIs, UnsettledNext
<1>20. Window(a, b) /\ Window(a, b)'
  BY <1>2, <1>3, <1>4, <1>10, <1>14 DEF Window
<1>21. Shape(a, b) /\ Shape(a, b)'
  BY <1>20, Halves, HalvesNext
<1>22. a \in Nat /\ b \in Nat /\ a <= meta.cursor /\ meta.cursor + b <= Len(meta.ids)
  BY <1>20, WindowType
<1>23. Done' = Done
  <2>1. /\ Done \in Seq(Edit) /\ Done' \in Seq(Edit) /\ Len(Done') = Len(Done)
        /\ Len(Done) = meta.cursor - a
    BY <1>2, <1>21 DEF Shape
  <2>2. ASSUME NEW n \in 1 .. Len(Done) PROVE Done'[n] = Done[n]
    <3>1. Done[n] = keys[meta.ids[a + n]] /\ Done'[n] = keys'[meta.ids[a + n]]
      BY <1>2, <1>21, <2>1 DEF Shape
    <3>2. a + n \in 1 .. Len(meta.ids)
      BY <1>4, <1>22, <2>1
    <3> QED BY <1>11, <3>1, <3>2
  <2> QED BY <2>1, <2>2, SeqEqual
<1>24. Undone' = Undone
  <2>1. /\ Undone \in Seq(Edit) /\ Undone' \in Seq(Edit) /\ Len(Undone') = Len(Undone)
        /\ Len(Undone) = Len(meta.ids) - meta.cursor - b
    BY <1>2, <1>21 DEF Shape
  <2>2. ASSUME NEW n \in 1 .. Len(Undone) PROVE Undone'[n] = Undone[n]
    <3> DEFINE k == meta.cursor + b + n
    <3>1. Undone[n] = keys[meta.ids[k]] /\ Undone'[n] = keys'[meta.ids[k]]
      BY <1>2, <1>21, <2>1 DEF Shape
    <3>2. k \in 1 .. Len(meta.ids)
      BY <1>4, <1>22, <2>1
    <3> HIDE DEF k
    <3> QED BY <1>11, <3>1, <3>2
  <2> QED BY <2>1, <2>2, SeqEqual
<1>25. DoneIsApplied' /\ UndoneIsGone'
  BY <1>2, <1>19, <1>23, <1>24 DEF IInv, DoneIsApplied, UndoneIsGone
<1> QED
  BY <1>12, <1>15, <1>16, <1>17, <1>18, <1>23, <1>24, <1>25 DEF IInv

\* The ids an append leaves: those it keeps, then its own.
LEMMA CommittedIs ==
  ASSUME NEW m \in Meta, m.cursor <= Len(m.ids), m.next \in Id,
         NEW ids, ids = SubSeq(Append(Kept(m), m.next), Excess(m) + 1, Len(Append(Kept(m), m.next)))
  PROVE  /\ Excess(m) \in 0 .. m.cursor
         /\ ids \in Seq(Id) /\ Len(ids) = m.cursor + 1 - Excess(m)
         /\ \A k \in 1 .. m.cursor - Excess(m) : ids[k] = m.ids[Excess(m) + k]
         /\ ids[m.cursor + 1 - Excess(m)] = m.next
<1> DEFINE c == m.cursor
           x == Excess(m)
           k0 == Kept(m)
           all == Append(k0, m.next)
<1>1. m.ids \in Seq(Id) /\ c \in Nat /\ Len(m.ids) \in Nat /\ c <= Len(m.ids)
  BY LenProperties DEF Meta
<1>2. x \in 0 .. c
  BY <1>1, StoreAssumption DEF Excess
<1>3. k0 \in Seq(Id) /\ Len(k0) = c /\ \A i \in 1 .. c : k0[i] = m.ids[i]
  <2>1. /\ k0 \in Seq(Id) /\ Len(k0) = IF 1 <= c THEN c - 1 + 1 ELSE 0
        /\ \A i \in 1 .. Len(k0) : k0[i] = m.ids[1 + i - 1]
    BY <1>1, Cut DEF Kept
  <2> HIDE DEF k0
  <2> QED BY <1>1, <2>1
<1>4. /\ all \in Seq(Id) /\ Len(all) = c + 1 /\ all[c + 1] = m.next
      /\ \A i \in 1 .. c : all[i] = m.ids[i]
  <2> HIDE DEF k0
  <2> QED BY <1>3, AppendProperties
<1>5. ids = SubSeq(all, x + 1, c + 1)
  <2>1. ids = SubSeq(all, x + 1, Len(all))
    OBVIOUS
  <2> HIDE DEF all, x, c
  <2> QED BY <1>4, <2>1
<1> HIDE DEF all, x, c
<1>7. /\ ids \in Seq(Id) /\ Len(ids) = c + 1 - x
      /\ \A i \in 1 .. c + 1 - x : ids[i] = all[x + 1 + i - 1]
  <2> DEFINE p == x + 1
             q == c + 1
  <2>1. /\ p \in Int /\ q \in Int /\ 1 <= p /\ p <= q /\ q <= Len(all) /\ q - p + 1 = c + 1 - x
    BY <1>1, <1>2, <1>4
  <2>4. ids = SubSeq(all, p, q)
    BY <1>5
  <2>2. \A i \in 1 .. c + 1 - x : p + i - 1 = x + 1 + i - 1
    OBVIOUS
  <2> HIDE DEF p, q
  <2> DEFINE u == SubSeq(all, p, q)
  <2>5. u \in Seq(Id) /\ Len(u) = q - p + 1 /\ \A i \in 1 .. Len(u) : u[i] = all[p + i - 1]
    BY <1>4, <2>1, Cut
  <2>3. /\ ids \in Seq(Id) /\ Len(ids) = q - p + 1
        /\ \A i \in 1 .. Len(ids) : ids[i] = all[p + i - 1]
    BY <2>4, <2>5
  <2> QED BY <2>1, <2>2, <2>3
<1>8. ASSUME NEW k \in 1 .. c - x PROVE ids[k] = m.ids[x + k]
  <2>1. k \in 1 .. c + 1 - x /\ x + 1 + k - 1 = x + k /\ x + k \in 1 .. c
    BY <1>1, <1>2
  <2> QED BY <1>4, <1>7, <2>1
<1>9. ids[c + 1 - x] = m.next
  <2> DEFINE k == c + 1 - x
  <2>1. k \in 1 .. c + 1 - x /\ x + 1 + k - 1 = c + 1
    BY <1>1, <1>2
  <2> HIDE DEF k
  <2>2. ids[k] = m.next
    BY <1>4, <1>7, <2>1
  <2> QED BY <2>2 DEF k
<1> QED
  BY <1>2, <1>7, <1>8, <1>9 DEF x, c

\* An append writes the window's key: its edit is the last one done.
LEMMA CommitAppendStep ==
  ASSUME IInv, Sequential, NEW r \in Request, CommitAppend(r)
  PROVE  IInv' /\ Done' = Append(Done, entry[r]) /\ Undone' = <<>> /\ entry[r] \in Edit
<1> DEFINE c == meta.cursor
           L == Len(meta.ids)
           x == Excess(meta)
           n == meta.next
           ids == meta'.ids
           c1 == meta'.cursor
<1>1. \A q \in Request : q = r
  BY DEF Sequential
<1>2. /\ UNCHANGED <<keys, edits, applied, stray>> /\ EndOf(r) /\ pc[r] = "commit"
  BY DEF CommitAppend
<1>3. PICK a \in 0 .. c, b \in 0 .. L - c :
        Gaps(a, b) /\ DeletedSoFar(r, a, b) /\ snap[r] = meta /\ todo[r] = <<>>
  BY <1>2 DEF IInv, StackInOrder
<1>4. /\ meta \in Meta /\ c <= L /\ L \in Nat /\ c \in Nat /\ n \in Nat \ {0}
      /\ keys \in [Id -> Edit \cup {NoEntry}]
      /\ \A i \in 1 .. L : meta.ids[i] \in Id /\ meta.ids[i] < n
  BY <1>2, LenProperties, ElementOfSeq DEF IInv, TypeOK, Meta
<1>5. Recording(r)
  BY <1>2 DEF IInv, ModesInOrder, Recording
<1>6. n <= edits /\ entry[r] \in applied /\ keys[n] = entry[r]
  BY <1>2, <1>5 DEF IInv, Fresh
<1>7. entry[r] \in Edit /\ entry[r] # NoEntry /\ entry[r] <= edits
  BY <1>5, EntryIsEdit
<1>8. edits \in Nat /\ n \in Id
  <2>1. edits \in Nat /\ edits <= MaxEdits /\ MaxEdits \in Nat
    BY StoreAssumption DEF IInv, TypeOK
  <2> QED BY <1>4, <1>6, <2>1 DEF Id
<1>9. meta' = [ids |-> ids, cursor |-> Len(ids), next |-> n + 1]
  BY <1>3 DEF CommitAppend
<1>10. /\ x \in 0 .. c
       /\ ids \in Seq(Id) /\ Len(ids) = c + 1 - x
       /\ \A k \in 1 .. c - x : ids[k] = meta.ids[x + k]
       /\ ids[c + 1 - x] = n
  <2>1. ids = SubSeq(Append(Kept(meta), n), x + 1, Len(Append(Kept(meta), n)))
    BY <1>3 DEF CommitAppend
  <2> HIDE DEF ids
  <2> QED BY <1>4, <1>8, <2>1, CommittedIs
<1>11. /\ a \in Nat /\ b \in Nat /\ x \in Nat /\ a <= c /\ x <= a /\ b = L - c
       /\ L \in Nat /\ c \in Nat /\ c <= L /\ n \in Nat
  <2>1. Len(todo[r]) = 0 /\ Len(Dropped(meta)) = L - c + x
    BY <1>3, <1>4, DroppedIs
  <2>2. L - c + x <= a + b
    <3>1. Len(Dropped(meta)) - Len(todo[r]) \in 0 .. a + b
      BY <1>3 DEF DeletedSoFar
    <3>2. Len(Dropped(meta)) - Len(todo[r]) = L - c + x /\ L - c + x \in Int
      BY <1>4, <1>10, <2>1
    <3> QED BY <1>4, <3>1, <3>2
  <2>3. a > 0 => b = L - c
    BY <1>3 DEF Gaps
  <2>4. c \in Nat /\ L \in Nat /\ c <= L /\ x \in 0 .. c /\ n \in Nat
    BY <1>4, <1>10
  <2> HIDE DEF c, L, x, n
  <2> QED BY <2>2, <2>3, <2>4
<1>12. /\ c1 = c + 1 - x /\ Len(ids) = c1 /\ meta'.next = n + 1 /\ c1 \in Nat /\ c1 > 0
       /\ ids[c1] = n
       /\ \A k \in 1 .. c1 : k <= c - x \/ k = c1
  <2>1. c1 = Len(ids) /\ meta'.next = n + 1
    BY <1>9
  <2>2. Len(ids) = c + 1 - x /\ ids[c + 1 - x] = n
    BY <1>10
  <2> HIDE DEF c, x, n, ids, c1
  <2> QED BY <1>11, <2>1, <2>2
<1>13. Live = {z \in Int : a + 1 <= z /\ z <= c}
  <2>1. Live = (a + 1 .. c) \cup (c + b + 1 .. L)
    BY <1>3 DEF Gaps
  <2> HIDE DEF c, L
  <2>2. c + b + 1 .. L = {}
    BY <1>11
  <2> QED BY <1>11, <2>1, <2>2
<1>14. PICK a1 \in 0 .. c1 : a1 = a - x
  <2>1. c1 = c + 1 - x /\ c1 \in Nat
    BY <1>12
  <2>2. a - x \in 0 .. c1
    <3> HIDE DEF c, x, c1
    <3> QED BY <1>11, <2>1
  <2> QED BY <2>2
<1>15. a1 \in Nat /\ a1 = a - x /\ a1 <= c - x
  <2> HIDE DEF c, x, c1
  <2> QED BY <1>11, <1>14
<1>16. ASSUME NEW z \in 1 .. c1 PROVE keys[ids[z]] # NoEntry <=> a1 + 1 <= z
  <2>1. CASE z = c1
    <3>1. keys[ids[z]] # NoEntry
      BY <1>6, <1>7, <1>12, <2>1
    <3>2. a1 + 1 <= z
      <4> HIDE DEF c, x, c1, ids
      <4> QED BY <1>11, <1>12, <1>15, <2>1
    <3> QED BY <3>1, <3>2
  <2>2. CASE z <= c - x
    <3>1. z \in 1 .. c - x /\ x + z \in 1 .. L /\ (a1 + 1 <= z <=> (a + 1 <= x + z /\ x + z <= c))
      <4> HIDE DEF c, x, c1, L
      <4> QED BY <1>11, <1>12, <1>15, <2>2
    <3>2. ids[z] = meta.ids[x + z]
      BY <1>10, <3>1
    <3>3. x + z \in Live <=> keys[meta.ids[x + z]] # NoEntry
      BY <3>1 DEF Live
    <3>4. x + z \in Live <=> (a + 1 <= x + z /\ x + z <= c)
      <4> HIDE DEF c, L, x
      <4> QED BY <1>13, <3>1
    <3> HIDE DEF ids, x, c, L
    <3> QED BY <3>1, <3>2, <3>3, <3>4
  <2> QED BY <1>12, <2>1, <2>2
<1>17. Gaps(a1, 0)'
  <2>1. Live' = {z \in 1 .. c1 : keys[ids[z]] # NoEntry}
    BY <1>2, <1>12 DEF Live
  <2>2. Live' = (a1 + 1 .. c1) \cup (c1 + 0 + 1 .. c1)
    <3> DEFINE K(z) == keys[ids[z]] # NoEntry
    <3>1. Live' = {z \in 1 .. c1 : K(z)} /\ \A z \in 1 .. c1 : K(z) <=> a1 + 1 <= z
      BY <1>16, <2>1
    <3>2. c1 \in Nat
      BY <1>12
    <3> HIDE DEF K, c1
    <3> QED BY <1>15, <3>1, <3>2
  <2>3. Len(ids) - c1 = 0
    BY <1>12
  <2> HIDE DEF ids, c1
  <2> QED BY <1>12, <2>2, <2>3 DEF Gaps, ids, c1
<1>18. IdsInOrder'
  <2>1. \A i \in 1 .. L : i <= meta.ids[i] /\ meta.ids[i] < n /\ meta.ids[i] \in Nat
    BY <1>4 DEF IInv, IdsInOrder, Id
  <2>2. \A i, j \in 1 .. L : i < j => meta.ids[i] < meta.ids[j]
    BY DEF IInv, IdsInOrder
  <2>3. \A i \in 1 .. c - x : ids[i] = meta.ids[x + i] /\ x + i \in 1 .. L
    <3>1. \A i \in 1 .. c - x : x + i \in 1 .. L
      <4> HIDE DEF c, x, L
      <4> QED BY <1>11
    <3> QED BY <1>10, <3>1
  <2>4. c + 1 <= n
    <3>1. CASE c = 0
      <4> HIDE DEF c, n
      <4> QED BY <1>4, <3>1
    <3>2. CASE c # 0
      <4>1. c \in 1 .. L
        <5> HIDE DEF c, L
        <5> QED BY <1>11, <3>2
      <4>2. c <= meta.ids[c] /\ meta.ids[c] < n /\ meta.ids[c] \in Nat
        BY <2>1, <4>1
      <4> HIDE DEF c, n
      <4> QED BY <1>11, <4>2
    <3> QED BY <3>1, <3>2
  <2> HIDE DEF c, x, n, L, ids, c1
  <2>5. ASSUME NEW i \in 1 .. c1 PROVE i <= ids[i]
    <3>1. CASE i = c1
      <4>1. c1 <= n
        BY <1>11, <1>12, <2>4
      <4> QED BY <1>12, <3>1, <4>1
    <3>2. CASE i <= c - x
      <4>1. i \in 1 .. c - x /\ i <= x + i /\ i \in Nat /\ x + i \in Nat
        BY <1>11, <1>12, <3>2
      <4>2. ids[i] = meta.ids[x + i] /\ x + i <= meta.ids[x + i] /\ meta.ids[x + i] \in Nat
        BY <2>1, <2>3, <4>1
      <4> QED BY <4>1, <4>2
    <3> QED BY <1>12, <3>1, <3>2
  <2>6. ASSUME NEW i \in 1 .. c1, NEW j \in 1 .. c1, i < j PROVE ids[i] < ids[j]
    <3>1. i \in 1 .. c - x
      BY <1>11, <1>12, <2>6
    <3>2. CASE j = c1
      BY <1>12, <2>1, <2>3, <3>1, <3>2
    <3>3. CASE j <= c - x
      <4>1. j \in 1 .. c - x
        BY <1>11, <1>12, <3>3
      <4>2. x + i < x + j
        BY <1>11, <2>6, <3>1, <4>1
      <4> QED BY <2>2, <2>3, <3>1, <4>1, <4>2
    <3> QED BY <1>12, <3>2, <3>3
  <2>7. n + 1 <= edits + 1
    BY <1>6, <1>8, <1>11 DEF n
  <2>8. /\ \A i \in Id : keys[i] # NoEntry => keys[i] <= edits
        /\ \A i, j \in Id : keys[i] # NoEntry /\ keys[i] = keys[j] => i = j
    BY DEF IInv, IdsInOrder
  <2>9. Len(meta'.ids) = c1 /\ meta'.next = n + 1 /\ ids = meta'.ids /\ keys' = keys /\ edits' = edits
    BY <1>2, <1>12 DEF ids
  <2> QED BY <2>5, <2>6, <2>7, <2>8, <2>9 DEF IdsInOrder
<1>19. TypeOK'
  <2>1. meta' \in Meta
    BY SMTT(30), <1>4, <1>9, <1>10, <1>12 DEF Meta
  <2>2. meta'.cursor <= Len(meta'.ids)
    BY <1>12
  <2>3. ASSUME NEW i \in 1 .. c1 PROVE ids[i] < n + 1
    <3>1. CASE i = c1
      <4> HIDE DEF ids, c1, n
      <4> QED BY <1>11, <1>12, <3>1
    <3>2. CASE i <= c - x
      <4>1. i \in 1 .. c - x /\ x + i \in 1 .. L
        <5> HIDE DEF c, x, c1, L, ids, n
        <5> QED BY <1>11, <1>12, <3>2
      <4>2. ids[i] = meta.ids[x + i] /\ meta.ids[x + i] < n /\ meta.ids[x + i] \in Nat
        <5>1. ids[i] = meta.ids[x + i]
          <6> HIDE DEF c, x, c1, L, ids, n
          <6> QED BY <1>10, <4>1
        <5>2. meta.ids[x + i] \in Id /\ meta.ids[x + i] < n
          <6> HIDE DEF c, x, c1, L, ids, n
          <6> QED BY <1>4, <4>1
        <5>3. meta.ids[x + i] \in Nat
          <6> HIDE DEF c, x, c1, L, ids, n
          <6> QED BY <5>2 DEF Id
        <5> QED BY <5>1, <5>2, <5>3
      <4> HIDE DEF n, x, ids
      <4> QED BY <1>11, <4>2
    <3> QED BY <1>12, <3>1, <3>2
  <2>4. \A i \in 1 .. Len(meta'.ids) : meta'.ids[i] < meta'.next
    BY <1>12, <2>3
  <2> QED BY <1>2, <2>1, <2>2, <2>4, EndType DEF IInv, TypeOK
<1>20. pc'[r] = "idle" /\ mode'[r] = "append" /\ found'[r] = <<>> /\ pc[r] # "replay"
  BY <1>2 DEF IInv, TypeOK, EndOf, Goto
<1>21. Fresh' /\ ReplayInOrder' /\ ModesInOrder'
  BY <1>1, <1>20 DEF Fresh, Recording, ReplayInOrder, ModesInOrder
<1>22. StackInOrder'
  <2>1. a1 \in 0 .. meta'.cursor /\ 0 \in 0 .. Len(meta'.ids) - meta'.cursor
    BY <1>12, <1>14
  <2> QED BY <1>1, <1>17, <1>20, <2>1 DEF StackInOrder
<1>23. Unsettled' = Unsettled
  BY <1>2, <1>20, UnsettledIs, UnsettledNext
<1>24. Shape(a, b) /\ Shape(a1, 0)'
  <2>1. Window(a, b)
    BY <1>3, WindowHolds DEF IInv
  <2>2. Window(a1, 0)'
    BY <1>12, <1>14, <1>17, <1>19 DEF Window, TypeOK
  <2> QED BY <2>1, <2>2, Halves, HalvesNext
<1>25. Done' = Append(Done, entry[r])
  <2>1. /\ Done \in Seq(Edit) /\ Done' \in Seq(Edit) /\ Len(Done) = c - a /\ Len(Done') = c1 - a1
        /\ \A k \in 1 .. Len(Done) : Done[k] = keys[meta.ids[a + k]]
        /\ \A k \in 1 .. Len(Done') : Done'[k] = keys'[ids[a1 + k]]
    BY <1>24 DEF Shape
  <2>2. c1 - a1 = c - a + 1
    <3> HIDE DEF c, x, c1, ids
    <3> QED BY <1>11, <1>12, <1>15
  <2> DEFINE u == Append(Done, entry[r])
  <2>3. /\ u \in Seq(Edit) /\ Len(u) = c - a + 1 /\ u[c - a + 1] = entry[r]
        /\ \A k \in 1 .. c - a : u[k] = Done[k]
    BY <1>7, <2>1, AppendProperties
  <2>4. ASSUME NEW k \in 1 .. c - a + 1 PROVE Done'[k] = u[k]
    <3>1. Done'[k] = keys[ids[a1 + k]]
      BY <1>2, <2>1, <2>2
    <3>2. CASE k = c - a + 1
      <4>1. a1 + k = c1
        <5> HIDE DEF c, x, c1, ids
        <5> QED BY <1>11, <1>12, <1>15, <3>2
      <4>2. Done'[k] = entry[r]
        <5> HIDE DEF c1, ids, n
        <5> QED BY <1>6, <1>12, <3>1, <4>1 DEF n
      <4> QED BY <2>3, <3>2, <4>2
    <3>3. CASE k # c - a + 1
      <4>1. /\ k \in 1 .. c - a /\ a1 + k \in 1 .. c - x /\ x + (a1 + k) = a + k
        <5> HIDE DEF c, x, c1, ids
        <5> QED BY <1>11, <1>12, <1>15, <3>3
      <4>2. ids[a1 + k] = meta.ids[a + k]
        <5> DEFINE h == a1 + k
        <5>1. h \in 1 .. c - x /\ x + h = a + k
          BY <4>1
        <5> HIDE DEF h
        <5>2. ids[h] = meta.ids[x + h]
          BY <1>10, <5>1
        <5> QED BY <5>1, <5>2 DEF h
      <4> HIDE DEF c, x, c1, ids, u
      <4> QED BY <2>1, <2>3, <3>1, <4>1, <4>2
    <3> QED BY <3>2, <3>3
  <2>5. Len(Done') = Len(u) /\ \A k \in 1 .. Len(Done') : Done'[k] = u[k]
    <3> HIDE DEF c, c1, u
    <3> QED BY <2>1, <2>2, <2>3, <2>4
  <2> HIDE DEF u
  <2>6. Done' = u
    BY <2>1, <2>3, <2>5, SeqEqual
  <2> QED BY <2>6 DEF u
<1>26. Undone' = <<>>
  <2>1. Undone' \in Seq(Edit) /\ Len(Undone') = Len(ids) - c1 - 0
    BY <1>24 DEF Shape
  <2>2. Len(Undone') = 0
    <3> HIDE DEF c1, ids
    <3> QED BY <1>12, <2>1
  <2> QED BY <2>1, <2>2, EmptySeq
<1>27. DoneIsApplied' /\ UndoneIsGone'
  <2>1. ToSet(Done') \subseteq ToSet(Done) \cup {entry[r]}
    <3>1. Done \in Seq(Edit) /\ Done' \in Seq(Edit)
      BY <1>24 DEF Shape
    <3>2. ASSUME NEW e \in ToSet(Done') PROVE e \in ToSet(Done) \cup {entry[r]}
      <4>1. Len(Append(Done, entry[r])) = Len(Done) + 1 /\ Len(Done) \in Nat
        BY <1>7, <3>1, AppendProperties, LenProperties
      <4>2. PICK k \in 1 .. Len(Done) + 1 : Done'[k] = e
        BY <1>25, <3>1, <3>2, <4>1, LenProperties DEF ToSet
      <4>3. CASE k = Len(Done) + 1
        BY <1>7, <1>25, <3>1, <4>2, <4>3, AppendProperties
      <4>4. CASE k \in 1 .. Len(Done)
        <5>1. Done'[k] = Done[k]
          BY <1>7, <1>25, <3>1, <4>4, AppendProperties
        <5> QED BY <3>1, <4>2, <4>4, <5>1, LenProperties DEF ToSet
      <4>5. k = Len(Done) + 1 \/ k \in 1 .. Len(Done)
        BY <4>1
      <4> QED BY <4>3, <4>4, <4>5
    <3> QED BY <3>2
  <2>2. ToSet(Undone') = {}
    BY <1>26 DEF ToSet
  <2> QED BY <1>2, <1>6, <1>23, <2>1, <2>2 DEF IInv, DoneIsApplied, UndoneIsGone
<1> QED
  BY <1>7, <1>18, <1>19, <1>21, <1>22, <1>25, <1>26, <1>27 DEF IInv

\* A request that has read everything holds the stack, done and undone.
Loaded(r) ==
  /\ found[r] \in Seq(Found) /\ Done \in Seq(Edit) /\ Undone \in Seq(Edit)
  /\ Len(found[r]) = Len(Done) + Len(Undone)
  /\ Cursor(r) = Len(Done)
  /\ \A k \in 1 .. Len(Done) : found[r][k].entry = Done[k]
  /\ \A k \in 1 .. Len(Undone) : found[r][Len(Done) + k].entry = Undone[k]
  /\ \A k \in 1 .. Len(found[r]) :
       /\ found[r][k].id \in Id /\ k <= found[r][k].id /\ found[r][k].id < meta.next
       /\ keys[found[r][k].id] = found[r][k].entry /\ found[r][k].entry \in Edit
  /\ \A i, j \in 1 .. Len(found[r]) : i < j => found[r][i].id < found[r][j].id
  /\ Len(found[r]) + 1 <= meta.next
  /\ snap[r] = meta

\* A request that has nothing left to read has loaded everything.
LEMMA LoadedAll ==
  ASSUME IInv, NEW r \in Request, pc[r] = "load", todo[r] = <<>>
  PROVE  Loaded(r)
<1> DEFINE c == meta.cursor
           L == Len(meta.ids)
           f == found[r]
           n == Len(f)
           next == meta.next
           ids == meta.ids
<1>1. PICK a \in 0 .. c, b \in 0 .. L - c : Gaps(a, b) /\ LoadedSoFar(r, a, b) /\ snap[r] = meta
  BY DEF IInv, StackInOrder
<1>2. /\ meta \in Meta /\ c <= L /\ L \in Nat /\ c \in Nat /\ next \in Nat \ {0}
      /\ f \in Seq(Found) /\ n \in Nat
      /\ \A i \in 1 .. L : ids[i] \in Id /\ ids[i] < next /\ ids[i] \in Nat
  <2>1. /\ meta \in Meta /\ c <= L /\ ids \in Seq(Id) /\ c \in Nat /\ next \in Nat \ {0}
        /\ f \in Seq(Found) /\ \A i \in 1 .. L : ids[i] < next
    BY DEF IInv, TypeOK, Meta
  <2>2. L \in Nat /\ n \in Nat /\ \A i \in 1 .. L : ids[i] \in Id
    BY <2>1, LenProperties, ElementOfSeq
  <2>3. \A i \in Id : i \in Nat
    BY DEF Id
  <2> QED BY <2>1, <2>2, <2>3
<1>3. \A i \in 1 .. L : i <= ids[i]
  BY DEF IInv, IdsInOrder
<1>4. \A i, j \in 1 .. L : i < j => ids[i] < ids[j]
  BY DEF IInv, IdsInOrder
<1>5. Window(a, b)
  BY <1>1, WindowHolds DEF IInv
<1>6. a \in Nat /\ b \in Nat /\ a <= c /\ c + b <= L /\ (a > 0 => b = L - c)
  BY <1>1, <1>5, WindowType DEF Gaps
<1>7. Shape(a, b)
  BY <1>5, Halves
<1>8. (n > 0 => Place(a, b, n) <= L) /\ Place(a, b, n + 1) > L
  <2>1. L - Len(todo[r]) = L
    BY <1>2, EmptySeq
  <2> QED BY <1>1, <2>1 DEF LoadedSoFar
<1>9. \A k \in 1 .. n : f[k].id = ids[Place(a, b, k)] /\ f[k].entry = keys[ids[Place(a, b, k)]]
  <2> SUFFICES ASSUME NEW k \in 1 .. n
               PROVE  f[k].id = ids[Place(a, b, k)] /\ f[k].entry = keys[ids[Place(a, b, k)]]
    OBVIOUS
  <2> DEFINE d == ids[Place(a, b, k)]
  <2>1. f[k] = [id |-> d, entry |-> keys[d]]
    BY <1>1 DEF LoadedSoFar
  <2> HIDE DEF d
  <2>2. f[k].id = d /\ f[k].entry = keys[d]
    BY <2>1
  <2> QED BY <2>2 DEF d
<1>10. \A k : Place(a, b, k) = IF k <= c - a THEN a + k ELSE a + b + k
  BY DEF Place
<1>11. n = L - a - b
  <2> HIDE DEF c, L, n
  <2>1. /\ Place(a, b, n) = IF n <= c - a THEN a + n ELSE a + b + n
        /\ Place(a, b, n + 1) = IF n + 1 <= c - a THEN a + (n + 1) ELSE a + b + (n + 1)
    BY <1>10
  <2> QED BY <1>2, <1>6, <1>8, <2>1
<1>12. ASSUME NEW k \in 1 .. n
       PROVE  Place(a, b, k) \in 1 .. L /\ k <= Place(a, b, k)
  <2> HIDE DEF c, L, n
  <2>1. Place(a, b, k) = IF k <= c - a THEN a + k ELSE a + b + k
    BY <1>10
  <2> QED BY <1>2, <1>6, <1>11, <2>1
<1>13. ASSUME NEW i \in 1 .. n, NEW j \in 1 .. n, i < j
       PROVE  Place(a, b, i) < Place(a, b, j)
  <2> HIDE DEF c, L, n
  <2>1. /\ Place(a, b, i) = IF i <= c - a THEN a + i ELSE a + b + i
        /\ Place(a, b, j) = IF j <= c - a THEN a + j ELSE a + b + j
    BY <1>10
  <2> QED BY <1>2, <1>6, <1>13, <2>1
<1>14. /\ Done \in Seq(Edit) /\ Undone \in Seq(Edit)
       /\ Len(Done) = c - a /\ Len(Undone) = L - c - b
       /\ \A k \in 1 .. c - a : Done[k] = keys[ids[a + k]]
       /\ \A k \in 1 .. L - c - b : Undone[k] = keys[ids[c + b + k]]
  BY <1>7 DEF Shape
<1>15. /\ n = (c - a) + (L - c - b) /\ c - a \in Nat /\ L - c - b \in Nat
       /\ \A k \in 1 .. c - a : k \in 1 .. n /\ k <= c - a
       /\ \A k \in 1 .. L - c - b :
            c - a + k \in 1 .. n /\ ~ (c - a + k <= c - a) /\ a + b + (c - a + k) = c + b + k
  <2> HIDE DEF c, L, n
  <2> QED BY <1>2, <1>6, <1>11
<1>16. Cursor(r) = c - a
  <2> DEFINE S == {c, n}
  <2>1. Cursor(r) = Min(S)
    BY <1>1 DEF Cursor
  <2>2. Min(S) = IF c <= n THEN c ELSE n
    <3> HIDE DEF S
    <3>1. S = {c, n}
      BY DEF S
    <3> HIDE DEF c, n
    <3> QED BY <1>2, <3>1, MinOfTwo
  <2> HIDE DEF c, L, n, S
  <2> QED BY <1>2, <1>6, <1>11, <2>1, <2>2
<1>17. ASSUME NEW k \in 1 .. c - a PROVE f[k].entry = Done[k]
  <2>1. Place(a, b, k) = a + k /\ k \in 1 .. n
    BY <1>10, <1>15
  <2> HIDE DEF c, L, n, ids, f
  <2>2. f[k].entry = keys[ids[Place(a, b, k)]]
    BY <1>9, <2>1
  <2> QED BY <1>14, <2>1, <2>2
<1>18. ASSUME NEW k \in 1 .. L - c - b PROVE f[c - a + k].entry = Undone[k]
  <2> DEFINE h == c - a + k
  <2>1. h \in 1 .. n /\ ~ (h <= c - a) /\ a + b + h = c + b + k
    BY <1>15
  <2> HIDE DEF h
  <2>2. Place(a, b, h) = c + b + k
    BY <1>10, <2>1
  <2> HIDE DEF c, L, n, ids, f
  <2>3. f[h].entry = Undone[k]
    <3>1. f[h].entry = keys[ids[Place(a, b, h)]]
      BY <1>9, <2>1
    <3> QED BY <1>14, <2>2, <3>1
  <2> QED BY <2>3 DEF h
<1>19. ASSUME NEW k \in 1 .. n
       PROVE  /\ f[k].id \in Id /\ k <= f[k].id /\ f[k].id < next
              /\ keys[f[k].id] = f[k].entry /\ f[k].entry \in Edit
  <2> DEFINE p == Place(a, b, k)
  <2>1. f[k].id = ids[p] /\ f[k].entry = keys[ids[p]]
    BY <1>9
  <2>2. p \in 1 .. L /\ k <= p
    BY <1>12
  <2> HIDE DEF p
  <2>3. p <= ids[p] /\ ids[p] \in Id /\ ids[p] < next /\ ids[p] \in Nat
    BY <1>2, <1>3, <2>2
  <2>4. k <= ids[p]
    <3>1. p \in Nat /\ k \in Nat
      BY <2>2
    <3> HIDE DEF ids
    <3> QED BY <2>2, <2>3, <3>1
  <2>5. f[k] \in Found
    BY <1>2, ElementOfSeq
  <2> QED BY <2>1, <2>3, <2>4, <2>5 DEF Found
<1>20. ASSUME NEW i \in 1 .. n, NEW j \in 1 .. n, i < j PROVE f[i].id < f[j].id
  <2> DEFINE p == Place(a, b, i)
             q == Place(a, b, j)
  <2>1. p < q /\ p \in 1 .. L /\ q \in 1 .. L
    BY <1>12, <1>13, <1>20
  <2>2. f[i].id = ids[p] /\ f[j].id = ids[q]
    BY <1>9
  <2> HIDE DEF p, q
  <2> QED BY <1>4, <2>1, <2>2
<1>21. n + 1 <= next
  <2>1. CASE n = 0
    <3> HIDE DEF n, next
    <3> QED BY <1>2, <2>1
  <2>2. CASE n # 0
    <3>1. n \in 1 .. n
      <4> HIDE DEF n
      <4> QED BY <1>2, <2>2
    <3>2. n <= f[n].id /\ f[n].id < next /\ f[n].id \in Id
      BY <1>19, <3>1
    <3>3. f[n].id \in Nat
      BY <3>2 DEF Id
    <3> HIDE DEF n, next, f
    <3> QED BY <1>2, <3>2, <3>3
  <2> QED BY <2>1, <2>2
<1>22. n = Len(Done) + Len(Undone)
  BY <1>14, <1>15
<1>23. Cursor(r) = Len(Done)
  BY <1>14, <1>16
<1>24. \A k \in 1 .. Len(Done) : f[k].entry = Done[k]
  BY <1>14, <1>17
<1>25. \A k \in 1 .. Len(Undone) : f[Len(Done) + k].entry = Undone[k]
  BY <1>14, <1>18
<1> QED
  BY <1>1, <1>2, <1>14, <1>19, <1>20, <1>21, <1>22, <1>23, <1>24, <1>25 DEF Loaded

\* The window's key after an undo or a redo: everything that was loaded, and a new cursor.
LEMMA MovedIs ==
  ASSUME IInv, NEW r \in Request, Loaded(r), NEW p \in 0 .. Len(found[r]),
         UNCHANGED <<keys, edits>>,
         meta' = [ids |-> [i \in 1 .. Len(found[r]) |-> found[r][i].id], cursor |-> p,
                  next |-> Max({snap[r].next, Len(found[r]) + 1})]
  PROVE  /\ Window(0, 0)'
         /\ \A i \in 1 .. Len(meta'.ids) : meta'.ids[i] < meta'.next
         /\ IdsInOrder'
         /\ Done' \in Seq(Edit) /\ Len(Done') = p
         /\ Undone' \in Seq(Edit) /\ Len(Undone') = Len(found[r]) - p
         /\ \A k \in 1 .. p : Done'[k] = found[r][k].entry
         /\ \A k \in 1 .. Len(found[r]) - p : Undone'[k] = found[r][p + k].entry
<1> DEFINE f == found[r]
           n == Len(f)
           ids == [i \in 1 .. n |-> f[i].id]
<1>1. /\ meta \in Meta /\ meta.next \in Nat \ {0} /\ n \in Nat /\ n + 1 <= meta.next
      /\ keys \in [Id -> Edit \cup {NoEntry}] /\ snap[r] = meta
  BY LenProperties DEF IInv, TypeOK, Meta, Loaded
<1>2. Max({snap[r].next, n + 1}) = meta.next
  <2> DEFINE S == {snap[r].next, n + 1}
  <2>1. S = {meta.next, n + 1}
    BY <1>1
  <2>2. Max(S) = IF meta.next <= n + 1 THEN n + 1 ELSE meta.next
    <3> DEFINE x == meta.next
               y == n + 1
    <3>1. x \in Nat /\ y \in Nat /\ S = {x, y}
      BY <1>1, <2>1
    <3> HIDE DEF x, y, S
    <3>2. Max(S) = IF x <= y THEN y ELSE x
      BY <3>1, MaxOfTwo
    <3> QED BY <3>2 DEF x, y
  <2> HIDE DEF S
  <2>3. Max(S) = meta.next
    <3> HIDE DEF n
    <3> QED BY <1>1, <2>2
  <2> QED BY <2>3 DEF S
<1>3. \A k \in 1 .. n :
        /\ f[k].id \in Id /\ k <= f[k].id /\ f[k].id < meta.next
        /\ keys[f[k].id] = f[k].entry /\ f[k].entry \in Edit
  BY DEF Loaded
<1>4. \A i, j \in 1 .. n : i < j => f[i].id < f[j].id
  BY DEF Loaded
<1>5. ids \in Seq(Id) /\ Len(ids) = n
  <2>1. ids \in [1 .. n -> Id]
    BY <1>3
  <2> HIDE DEF ids
  <2> QED BY <1>1, <2>1, IsSequence
<1>6. meta' = [ids |-> ids, cursor |-> p, next |-> meta.next]
  BY <1>2
<1>7. /\ meta'.ids = ids /\ meta'.cursor = p /\ meta'.next = meta.next /\ meta' \in Meta
      /\ p \in Nat /\ p <= n
  <2>1. p \in Nat /\ p <= n
    <3>1. p \in 0 .. n
      OBVIOUS
    <3> HIDE DEF n
    <3> QED BY <1>1, <3>1
  <2> HIDE DEF ids
  <2> QED BY <1>1, <1>5, <1>6, <2>1 DEF Meta
<1>8. \A k \in 1 .. n : ids[k] = f[k].id
  OBVIOUS
<1> HIDE DEF ids
<1>9. ASSUME NEW k \in 1 .. n PROVE keys'[meta'.ids[k]] = f[k].entry /\ meta'.ids[k] = f[k].id
  BY <1>3, <1>7, <1>8
<1>10. Live' = 1 .. n
  <2>1. \A k \in 1 .. n : keys'[meta'.ids[k]] # NoEntry
    BY <1>3, <1>9, StoreAssumption
  <2> QED BY <1>5, <1>7, <2>1 DEF Live
<1>11. Gaps(0, 0)'
  <2>1. 1 .. n = (0 + 1 .. p) \cup (p + 0 + 1 .. n)
    <3> HIDE DEF n
    <3> QED BY <1>1, <1>7
  <2> QED BY <1>5, <1>7, <1>10, <2>1 DEF Gaps
<1>12. Window(0, 0)'
  <2>1. n - p \in Nat
    <3> HIDE DEF n
    <3> QED BY <1>1, <1>7
  <2> HIDE DEF n
  <2> QED BY <1>1, <1>5, <1>7, <1>11, <2>1 DEF Window
<1>13. \A i \in 1 .. Len(meta'.ids) : meta'.ids[i] < meta'.next
  BY <1>3, <1>5, <1>7, <1>8
<1>14. IdsInOrder'
  BY <1>3, <1>4, <1>5, <1>7, <1>8 DEF IInv, IdsInOrder
<1>15. Shape(0, 0)'
  BY <1>12, HalvesNext
<1>16. /\ Done' \in Seq(Edit) /\ Len(Done') = p
       /\ Undone' \in Seq(Edit) /\ Len(Undone') = n - p
       /\ \A k \in 1 .. p : Done'[k] = keys'[ids[0 + k]]
       /\ \A k \in 1 .. n - p : Undone'[k] = keys'[ids[p + 0 + k]]
  <2>1. /\ Done' \in Seq(Edit) /\ Len(Done') = p - 0
        /\ Undone' \in Seq(Edit) /\ Len(Undone') = n - p - 0
        /\ \A k \in 1 .. Len(Done') : Done'[k] = keys'[ids[0 + k]]
        /\ \A k \in 1 .. Len(Undone') : Undone'[k] = keys'[ids[p + 0 + k]]
    <3> HIDE DEF n
    <3> QED BY <1>5, <1>7, <1>15 DEF Shape
  <2>2. p - 0 = p /\ n - p - 0 = n - p
    <3> HIDE DEF n
    <3> QED BY <1>1, <1>7
  <2> HIDE DEF n
  <2> QED BY <2>1, <2>2
<1>17. ASSUME NEW k \in 1 .. p PROVE Done'[k] = f[k].entry
  <2>1. 0 + k = k /\ k \in 1 .. n
    <3> HIDE DEF n
    <3> QED BY <1>1, <1>7
  <2>2. keys'[ids[k]] = f[k].entry
    BY <1>7, <1>9, <2>1
  <2> QED BY <1>16, <2>1, <2>2
<1>18. ASSUME NEW k \in 1 .. n - p PROVE Undone'[k] = f[p + k].entry
  <2> DEFINE h == p + k
  <2>1. p + 0 + k = h /\ h \in 1 .. n
    <3>1. k \in Int /\ 1 <= k /\ k <= n - p
      BY <1>1, <1>7
    <3> HIDE DEF n
    <3> QED BY <1>1, <1>7, <3>1
  <2> HIDE DEF h
  <2>2. keys'[ids[h]] = f[h].entry
    BY <1>7, <1>9, <2>1
  <2>3. Undone'[k] = f[h].entry
    BY <1>16, <2>1, <2>2
  <2> QED BY <2>3 DEF h
<1> QED
  BY <1>12, <1>13, <1>14, <1>16, <1>17, <1>18

\* What an entry's commands are replayed for.
Edits(s) == [i \in 1 .. Len(s) |-> s[i].entry]

\* They are a sequence of the edits of those entries.
LEMMA EditsAre ==
  ASSUME NEW s \in Seq(Found), Len(s) > 0
  PROVE  /\ Edits(s) \in Seq(Nat) /\ Edits(s) # <<>>
         /\ ToSet(Edits(s)) = {s[i].entry : i \in 1 .. Len(s)}
<1> DEFINE n == Len(s)
           e == Edits(s)
<1>1. n \in Nat /\ \A i \in 1 .. n : s[i] \in Found
  BY LenProperties, ElementOfSeq
<1>2. \A i \in 1 .. n : s[i].entry \in Nat
  BY <1>1 DEF Found, Edit
<1>3. e \in [1 .. n -> Nat] /\ DOMAIN e = 1 .. n /\ \A i \in 1 .. n : e[i] = s[i].entry
  BY <1>2 DEF Edits
<1>4. e \in Seq(Nat) /\ Len(e) = n
  <2> HIDE DEF e, n
  <2> QED BY <1>1, <1>3, IsSequence
<1>5. e # <<>>
  <2> HIDE DEF e
  <2> QED BY <1>4, EmptySeq
<1>6. ToSet(e) = {s[i].entry : i \in 1 .. n}
  <2> HIDE DEF e, n
  <2> QED BY <1>3 DEF ToSet
<1> QED
  BY <1>4, <1>5, <1>6

\* A sequence backwards.
LEMMA ReverseIs ==
  ASSUME NEW S, NEW s \in Seq(S)
  PROVE  /\ Reverse(s) \in Seq(S) /\ Len(Reverse(s)) = Len(s)
         /\ \A i \in 1 .. Len(s) : \E j \in 1 .. Len(s) : Reverse(s)[i] = s[j]
         /\ \A j \in 1 .. Len(s) : \E i \in 1 .. Len(s) : Reverse(s)[i] = s[j]
<1> DEFINE n == Len(s)
           u == Reverse(s)
           At(i) == (n - i) + 1
<1>1. n \in Nat /\ \A i \in 1 .. n : s[i] \in S
  BY LenProperties, ElementOfSeq
<1>2. \A i \in 1 .. n : At(i) \in 1 .. n /\ At(At(i)) = i
  BY <1>1
<1>3. u = [i \in 1 .. n |-> s[At(i)]]
  BY DEF Reverse
<1> HIDE DEF u, n, At
<1>4. u \in [1 .. n -> S] /\ \A i \in 1 .. n : u[i] = s[At(i)]
  BY <1>1, <1>2, <1>3
<1>5. u \in Seq(S) /\ Len(u) = n
  BY <1>1, <1>4, IsSequence
<1>6. \A j \in 1 .. n : u[At(j)] = s[j] /\ At(j) \in 1 .. n
  BY <1>2, <1>4
<1> QED
  BY <1>2, <1>4, <1>5, <1>6 DEF u, n

\* The entries from i to j are moved over the cursor and replayed.
Crossing(r, i, j) ==
  \/ mode[r] = "undo" /\ j = Len(Done)
  \/ mode[r] = "redo" /\ i = Len(Done) + 1

\* An undo or a redo moves the cursor over a part of the entries.
LEMMA CursorMoved ==
  ASSUME IInv, Sequential, NEW r \in Request, Loaded(r), pc[r] = "load",
         NEW i \in 1 .. Len(found[r]), NEW j \in i .. Len(found[r]), Crossing(r, i, j),
         NEW replay \in Seq(Found), Len(replay) > 0,
         {replay[k].entry : k \in 1 .. Len(replay)} = {found[r][k].entry : k \in i .. j},
         MoveCursor(r, IF mode[r] = "undo" THEN i - 1 ELSE j, replay)
  PROVE  IInv'
<1> DEFINE f == found[r]
           n == Len(f)
           d == Len(Done)
<1>1. \A q \in Request : q = r
  BY DEF Sequential
<1>2. /\ UNCHANGED <<keys, edits, applied, stray, mode, snap, found, entry>>
      /\ todo' = [todo EXCEPT ![r] = Edits(replay)] /\ pc' = [pc EXCEPT ![r] = "replay"]
  BY DEF MoveCursor, Goto, Edits
<1>3. /\ Edits(replay) \in Seq(Nat) /\ Edits(replay) # <<>>
      /\ ToSet(Edits(replay)) = {f[k].entry : k \in i .. j}
  BY EditsAre
<1>4. todo'[r] = Edits(replay) /\ pc'[r] = "replay" /\ mode'[r] = mode[r]
  BY <1>2 DEF IInv, TypeOK
<1>5. /\ n \in Nat /\ d \in Nat /\ i \in Nat /\ j \in Nat /\ 1 <= i /\ i <= j /\ j <= n
      /\ Done \in Seq(Edit) /\ Undone \in Seq(Edit) /\ n = d + Len(Undone) /\ Len(Undone) \in Nat
  <2>1. n \in Nat /\ d \in Nat /\ Done \in Seq(Edit) /\ Undone \in Seq(Edit) /\ n = d + Len(Undone)
        /\ Len(Undone) \in Nat
    BY LenProperties DEF Loaded
  <2>2. i \in 1 .. n /\ j \in i .. n
    OBVIOUS
  <2> HIDE DEF n, d
  <2> QED BY <2>1, <2>2
<1>6. PICK p \in 0 .. n : p = IF mode[r] = "undo" THEN i - 1 ELSE j
  <2>1. (IF mode[r] = "undo" THEN i - 1 ELSE j) \in 0 .. n
    <3> HIDE DEF n
    <3> QED BY <1>5
  <2> QED BY <2>1
<1>7. /\ Window(0, 0)'
      /\ \A k \in 1 .. Len(meta'.ids) : meta'.ids[k] < meta'.next
      /\ IdsInOrder'
      /\ Done' \in Seq(Edit) /\ Len(Done') = p
      /\ Undone' \in Seq(Edit) /\ Len(Undone') = n - p
      /\ \A k \in 1 .. p : Done'[k] = f[k].entry
      /\ \A k \in 1 .. n - p : Undone'[k] = f[p + k].entry
  <2>1. meta' = [ids |-> [k \in 1 .. n |-> f[k].id], cursor |-> p,
                 next |-> Max({snap[r].next, n + 1})]
    BY <1>6 DEF MoveCursor
  <2> QED BY <1>2, <2>1, MovedIs
<1>8. TypeOK'
  <2>1. todo' \in [Request -> Seq(Nat)]
    BY <1>2, <1>3 DEF IInv, TypeOK
  <2> QED BY <1>2, <1>7, <2>1 DEF IInv, TypeOK, Window
<1>9. Crossing(r, i, j) /\ mode[r] \in {"undo", "redo"}
  BY DEF Crossing
<1>10. Fresh' /\ ModesInOrder'
  BY <1>1, <1>2, <1>4, <1>9 DEF Fresh, Recording, ModesInOrder
<1>11. StackInOrder'
  <2>1. Gaps(0, 0)' /\ 0 \in 0 .. meta'.cursor /\ 0 \in 0 .. Len(meta'.ids) - meta'.cursor
    BY <1>7 DEF Window
  <2> QED BY <1>1, <1>4, <2>1 DEF StackInOrder
<1>12. \A k \in 1 .. n : k \in i .. j <=> i <= k /\ k <= j
  BY <1>5
<1>13. ASSUME NEW k \in i .. j
       PROVE  f[k].entry \in ToSet(IF mode[r] = "undo" THEN Undone' ELSE Done')
  <2>1. CASE mode[r] = "undo"
    <3> DEFINE h == k - p
    <3>1. h \in 1 .. n - p /\ p + h = k
      <4>1. p = i - 1
        BY <1>6, <2>1
      <4> HIDE DEF n
      <4> QED BY <1>5, <4>1
    <3> HIDE DEF h
    <3>2. Undone'[h] = f[k].entry
      BY <1>7, <3>1
    <3> QED BY <1>7, <2>1, <3>1, <3>2, LenProperties DEF ToSet
  <2>2. CASE mode[r] # "undo"
    <3>1. k \in 1 .. p
      BY <1>5, <1>6, <2>2
    <3>2. Done'[k] = f[k].entry
      BY <1>7, <3>1
    <3> QED BY <1>7, <2>2, <3>1, <3>2, LenProperties DEF ToSet
  <2> QED BY <2>1, <2>2
<1>14. ReplayInOrder'
  BY SMTT(30), <1>1, <1>3, <1>4, <1>13 DEF ReplayInOrder
<1>15. Unsettled = stray /\ Unsettled' = stray \cup {f[k].entry : k \in i .. j}
  BY <1>2, <1>3, <1>4, UnsettledIs, UnsettledNext
<1>16. ASSUME NEW k \in 1 .. p
       PROVE  f[k].entry \in ToSet(Done) \cup {f[h].entry : h \in i .. j}
  <2>1. k <= d \/ k \in i .. j
    <3>1. CASE mode[r] = "undo"
      <4>1. p = i - 1 /\ j = d
        BY <1>6, <1>9, <3>1 DEF Crossing
      <4> HIDE DEF d, n
      <4> QED BY <1>5, <4>1
    <3>2. CASE mode[r] # "undo"
      <4>1. p = j /\ i = d + 1
        BY <1>6, <1>9, <3>2 DEF Crossing
      <4> HIDE DEF d, n
      <4> QED BY <1>5, <4>1
    <3> QED BY <3>1, <3>2
  <2>2. CASE k <= d
    <3>1. k \in 1 .. d
      BY <1>5, <2>2
    <3>2. f[k].entry = Done[k]
      BY <3>1 DEF Loaded
    <3> QED BY <1>5, <3>1, <3>2, LenProperties DEF ToSet
  <2>3. CASE k \in i .. j
    BY <2>3
  <2> QED BY <2>1, <2>2, <2>3
<1>17. ASSUME NEW k \in 1 .. n - p
       PROVE  f[p + k].entry \in ToSet(Undone) \cup {f[h].entry : h \in i .. j}
  <2> DEFINE h == p + k
  <2>1. h \in 1 .. n /\ (h \in i .. j \/ h > d)
    <3>0. k \in Int /\ 1 <= k /\ k <= n - p /\ p \in Nat
      <4>1. p \in 0 .. n
        OBVIOUS
      <4> HIDE DEF n
      <4> QED BY <1>5, <4>1
    <3>1. CASE mode[r] = "undo"
      <4>1. p = i - 1 /\ j = d
        BY <1>6, <1>9, <3>1 DEF Crossing
      <4> HIDE DEF d, n
      <4> QED BY <1>5, <3>0, <4>1
    <3>2. CASE mode[r] # "undo"
      <4>1. p = j /\ i = d + 1
        BY <1>6, <1>9, <3>2 DEF Crossing
      <4> HIDE DEF d, n
      <4> QED BY <1>5, <3>0, <4>1
    <3> QED BY <3>1, <3>2
  <2> HIDE DEF h
  <2>2. CASE h > d
    <3> DEFINE g == h - d
    <3>1. g \in 1 .. Len(Undone) /\ d + g = h
      <4> HIDE DEF d, n
      <4> QED BY <1>5, <2>1, <2>2
    <3> HIDE DEF g
    <3>2. f[h].entry = Undone[g]
      BY <3>1 DEF Loaded
    <3>3. f[h].entry \in ToSet(Undone)
      BY <1>5, <3>1, <3>2, LenProperties DEF ToSet
    <3> QED BY <3>3 DEF h
  <2>3. CASE h \in i .. j
    BY <2>3 DEF h
  <2> QED BY <2>1, <2>2, <2>3
<1>18. ToSet(Done') \subseteq ToSet(Done) \cup {f[k].entry : k \in i .. j}
  <2> SUFFICES ASSUME NEW e \in ToSet(Done') PROVE e \in ToSet(Done) \cup {f[k].entry : k \in i .. j}
    OBVIOUS
  <2>1. PICK k \in 1 .. p : Done'[k] = e
    BY <1>7, LenProperties DEF ToSet
  <2> QED BY <1>7, <1>16, <2>1
<1>19. ToSet(Undone') \subseteq ToSet(Undone) \cup {f[k].entry : k \in i .. j}
  <2> SUFFICES ASSUME NEW e \in ToSet(Undone') PROVE e \in ToSet(Undone) \cup {f[k].entry : k \in i .. j}
    OBVIOUS
  <2>1. PICK k \in 1 .. n - p : Undone'[k] = e
    BY <1>7, LenProperties DEF ToSet
  <2> QED BY <1>7, <1>17, <2>1
<1>20. DoneIsApplied' /\ UndoneIsGone'
  BY <1>2, <1>15, <1>18, <1>19 DEF IInv, DoneIsApplied, UndoneIsGone
<1> QED
  BY <1>7, <1>8, <1>10, <1>11, <1>14, <1>20 DEF IInv

\* A sequence that is a part of another.
LEMMA CutIs ==
  ASSUME NEW S, NEW s \in Seq(S), NEW u \in Seq(S), NEW m \in Int, NEW n \in Int,
         1 <= m, n <= Len(s), m <= n + 1, Len(u) = n - m + 1,
         \A i \in 1 .. Len(u) : u[i] = s[m + i - 1]
  PROVE  u = SubSeq(s, m, n)
<1> DEFINE v == SubSeq(s, m, n)
<1>1. /\ v \in Seq(S) /\ Len(v) = IF m <= n THEN n - m + 1 ELSE 0
      /\ \A i \in 1 .. Len(v) : v[i] = s[m + i - 1]
  BY Cut
<1> HIDE DEF v
<1>2. Len(v) = Len(u)
  BY <1>1
<1>3. u = v
  BY <1>1, <1>2, SeqEqual
<1> QED
  BY <1>3 DEF v

\* A sequence that is the first part of another.
LEMMA PrefixIs ==
  ASSUME NEW S, NEW s \in Seq(S), NEW u \in Seq(S), NEW p \in Nat, p <= Len(s), Len(u) = p,
         \A i \in 1 .. p : u[i] = s[i]
  PROVE  u = SubSeq(s, 1, p)
<1> DEFINE v == SubSeq(s, 1, p)
<1>1. /\ v \in Seq(S) /\ Len(v) = IF 1 <= p THEN p - 1 + 1 ELSE 0
      /\ \A i \in 1 .. Len(v) : v[i] = s[1 + i - 1]
  BY Cut
<1> HIDE DEF v
<1>2. Len(v) = Len(u) /\ \A i \in 1 .. Len(v) : v[i] = s[i]
  BY <1>1
<1>3. u = v
  BY <1>1, <1>2, SeqEqual
<1> QED
  BY <1>3 DEF v

\* A sequence that is two others in a row.
LEMMA JoinedIs ==
  ASSUME NEW S, NEW s \in Seq(S), NEW t \in Seq(S), NEW u \in Seq(S),
         Len(u) = Len(s) + Len(t),
         \A i \in 1 .. Len(s) : u[i] = s[i],
         \A i \in 1 .. Len(t) : u[Len(s) + i] = t[i]
  PROVE  u = s \o t
<1> DEFINE v == s \o t
           m == Len(s)
           n == Len(t)
<1>1. /\ v \in Seq(S) /\ Len(v) = m + n /\ m \in Nat /\ n \in Nat
      /\ \A i \in 1 .. m : v[i] = s[i]
      /\ \A i \in 1 .. n : v[m + i] = t[i]
  BY Joined, LenProperties
<1>2. Len(u) = m + n /\ (\A i \in 1 .. m : u[i] = s[i]) /\ \A i \in 1 .. n : u[m + i] = t[i]
  OBVIOUS
<1> HIDE DEF v, m, n
<1>3. ASSUME NEW i \in 1 .. m + n PROVE u[i] = v[i]
  <2>1. CASE i \in 1 .. m
    BY <1>1, <1>2, <2>1
  <2>2. CASE ~ (i \in 1 .. m)
    <3> DEFINE j == i - m
    <3>1. j \in 1 .. n /\ m + j = i
      BY <1>1, <2>2
    <3> HIDE DEF j
    <3> QED BY <1>1, <1>2, <3>1
  <2> QED BY <2>1, <2>2
<1>4. u = v
  BY <1>1, <1>2, <1>3, SeqEqual
<1> QED
  BY <1>4 DEF v

\* The entries from i to j, as they are replayed.
LEMMA PartIs ==
  ASSUME NEW f \in Seq(Found), NEW i \in 1 .. Len(f), NEW j \in i .. Len(f)
  PROVE  /\ SubSeq(f, i, j) \in Seq(Found) /\ Len(SubSeq(f, i, j)) > 0
         /\ {SubSeq(f, i, j)[k].entry : k \in 1 .. Len(SubSeq(f, i, j))}
              = {f[k].entry : k \in i .. j}
         /\ Reverse(SubSeq(f, i, j)) \in Seq(Found) /\ Len(Reverse(SubSeq(f, i, j))) > 0
         /\ {Reverse(SubSeq(f, i, j))[k].entry : k \in 1 .. Len(Reverse(SubSeq(f, i, j)))}
              = {f[k].entry : k \in i .. j}
<1> DEFINE s == SubSeq(f, i, j)
           m == j - i + 1
           u == Reverse(s)
           n == Len(f)
<1>1. i \in Nat /\ j \in Nat /\ 1 <= i /\ i <= j /\ j <= n /\ n \in Nat
  <2>1. n \in Nat /\ i \in 1 .. n /\ j \in i .. n
    BY LenProperties
  <2> HIDE DEF n
  <2> QED BY <2>1
<1>2. m \in Nat /\ m > 0
  BY <1>1
<1>3. s \in Seq(Found) /\ Len(s) = m /\ \A k \in 1 .. m : s[k] = f[i + k - 1]
  <2>1. /\ s \in Seq(Found) /\ Len(s) = IF i <= j THEN j - i + 1 ELSE 0
        /\ \A k \in 1 .. Len(s) : s[k] = f[i + k - 1]
    BY <1>1, Cut
  <2> HIDE DEF s
  <2> QED BY <1>1, <2>1
<1>4. \A k \in 1 .. m : i + k - 1 \in i .. j
  BY <1>1
<1>5. \A k \in i .. j : k - i + 1 \in 1 .. m /\ i + (k - i + 1) - 1 = k
  BY <1>1
<1> HIDE DEF s, m
<1>6. {s[k].entry : k \in 1 .. m} = {f[k].entry : k \in i .. j}
  <2>1. ASSUME NEW k \in 1 .. m PROVE s[k].entry \in {f[h].entry : h \in i .. j}
    BY <1>3, <1>4
  <2>2. ASSUME NEW k \in i .. j PROVE f[k].entry \in {s[h].entry : h \in 1 .. m}
    <3> DEFINE h == k - i + 1
    <3>1. h \in 1 .. m /\ i + h - 1 = k
      BY <1>5
    <3> HIDE DEF h
    <3>2. s[h] = f[k]
      BY <1>3, <3>1
    <3> QED BY <3>1, <3>2
  <2> QED BY <2>1, <2>2
<1>7. /\ u \in Seq(Found) /\ Len(u) = m
      /\ \A k \in 1 .. m : \E h \in 1 .. m : u[k] = s[h]
      /\ \A h \in 1 .. m : \E k \in 1 .. m : u[k] = s[h]
  BY <1>3, ReverseIs
<1> HIDE DEF u
<1>8. {u[k].entry : k \in 1 .. m} = {s[k].entry : k \in 1 .. m}
  <2>1. ASSUME NEW k \in 1 .. m PROVE u[k].entry \in {s[h].entry : h \in 1 .. m}
    BY <1>7
  <2>2. ASSUME NEW k \in 1 .. m PROVE s[k].entry \in {u[h].entry : h \in 1 .. m}
    BY <1>7
  <2> QED BY <2>1, <2>2
<1> QED
  BY <1>2, <1>3, <1>6, <1>7, <1>8 DEF s, u

\* What is undone is a group, as large as it can be.
LEMMA UndoStep ==
  ASSUME IInv, Sequential, NEW r \in Request, Undo(r)
  PROVE  IInv' /\ Promise!Undo
<1> DEFINE f == found[r]
           n == Len(f)
           d == Len(Done)
           G(k) == GroupOf[f[k].entry]
           S == {k \in 1 .. d : k = d \/ SameGroup(r, k, d)}
           m == FirstToUndo(r)
<1>1. pc[r] = "load" /\ todo[r] = <<>> /\ mode[r] = "undo" /\ Cursor(r) > 0
  BY DEF Undo
<1>2. Loaded(r)
  BY <1>1, LoadedAll
<1>3. /\ f \in Seq(Found) /\ Done \in Seq(Edit) /\ Undone \in Seq(Edit) /\ n \in Nat /\ d \in Nat
      /\ n = d + Len(Undone) /\ Len(Undone) \in Nat /\ Cursor(r) = d /\ d > 0
  BY <1>1, <1>2, LenProperties DEF Loaded
<1>4. m = Min(S)
  BY <1>3 DEF FirstToUndo
<1>5. S \in SUBSET Nat /\ S # {}
  <2>1. d \in S
    <3> HIDE DEF d
    <3> QED BY <1>3
  <2> QED BY <2>1
<1>6. m \in S /\ \A y \in S : m <= y
  <2> HIDE DEF S, m
  <2> QED BY <1>4, <1>5, MinIsLeast
<1>7. m \in 1 .. d /\ (m = d \/ SameGroup(r, m, d))
  BY <1>6
<1>8. /\ m \in Nat /\ 1 <= m /\ m <= d /\ m \in 1 .. n /\ d \in m .. n /\ d <= n
      /\ n - (m - 1) = (d - m + 1) + Len(Undone) /\ d - m + 1 \in Nat /\ d - m + 1 > 0
  <2> HIDE DEF d, n, m
  <2> QED BY <1>3, <1>7
<1>9. /\ Reverse(SubSeq(f, m, d)) \in Seq(Found) /\ Len(Reverse(SubSeq(f, m, d))) > 0
      /\ {Reverse(SubSeq(f, m, d))[k].entry : k \in 1 .. Len(Reverse(SubSeq(f, m, d)))}
           = {f[k].entry : k \in m .. d}
  <2>1. f \in Seq(Found) /\ m \in 1 .. Len(f) /\ d \in m .. Len(f)
    BY <1>3, <1>8
  <2> HIDE DEF m, d, f
  <2> QED BY <2>1, PartIs, Zenon
<1>10. MoveCursor(r, m - 1, Reverse(SubSeq(f, m, d)))
  BY <1>3 DEF Undo
<1>11. IInv'
  <2>1. PICK replay \in Seq(Found) : replay = Reverse(SubSeq(f, m, d))
    BY <1>9
  <2>6. PICK i \in 1 .. n : i = m
    BY <1>8
  <2>7. PICK j \in i .. n : j = d
    BY <1>8, <2>6
  <2>2. i = m /\ j = d
    BY <2>6, <2>7
  <2>3. Crossing(r, i, j)
    BY <1>1, <2>2 DEF Crossing
  <2>4. MoveCursor(r, IF mode[r] = "undo" THEN i - 1 ELSE j, replay)
    BY <1>1, <1>10, <2>1, <2>2
  <2>5. Len(replay) > 0 /\ {replay[k].entry : k \in 1 .. Len(replay)} = {f[k].entry : k \in i .. j}
    BY <1>9, <2>1, <2>2
  <2> HIDE DEF m, d
  <2> QED BY <1>1, <1>2, <2>3, <2>4, <2>5, CursorMoved
<1>12. PICK p \in 0 .. n : p = m - 1
  <2>1. m - 1 \in 0 .. n
    <3> HIDE DEF d, n, m
    <3> QED BY <1>3, <1>8
  <2> QED BY <2>1
<1>13. /\ Done' \in Seq(Edit) /\ Len(Done') = p
       /\ Undone' \in Seq(Edit) /\ Len(Undone') = n - p
       /\ \A k \in 1 .. p : Done'[k] = f[k].entry
       /\ \A k \in 1 .. n - p : Undone'[k] = f[p + k].entry
  <2>1. meta' = [ids |-> [k \in 1 .. n |-> f[k].id], cursor |-> p,
                 next |-> Max({snap[r].next, n + 1})]
    BY <1>10, <1>12 DEF MoveCursor
  <2>2. UNCHANGED <<keys, edits>>
    BY <1>10 DEF MoveCursor
  <2> HIDE DEF m, d
  <2> QED BY <1>2, <2>1, <2>2, MovedIs
<1>14. /\ \A k \in 1 .. d : f[k].entry = Done[k]
       /\ \A k \in 1 .. Len(Undone) : f[d + k].entry = Undone[k]
  BY <1>2 DEF Loaded
<1>15. Done' = SubSeq(Done, 1, m - 1)
  <2> HIDE DEF d, n, m, f
  <2>1. p \in Nat /\ p <= d
    BY <1>8, <1>12
  <2>2. ASSUME NEW k \in 1 .. p PROVE Done'[k] = Done[k]
    <3>1. k \in 1 .. d
      BY <1>8, <1>12
    <3> QED BY <1>13, <1>14, <3>1
  <2>3. Done' = SubSeq(Done, 1, p)
    BY <1>3, <1>13, <2>1, <2>2, PrefixIs DEF d
  <2> QED BY <1>12, <2>3
<1> DEFINE s == SubSeq(Done, m, d)
<1>16. s \in Seq(Edit) /\ Len(s) = d - m + 1 /\ \A k \in 1 .. d - m + 1 : s[k] = Done[m + k - 1]
  <2>1. m \in Int /\ d \in Int /\ 1 <= m /\ d <= Len(Done) /\ m <= d
    BY <1>3, <1>8
  <2>2. s \in Seq(Edit) /\ Len(s) = d - m + 1 /\ \A k \in 1 .. Len(s) : s[k] = Done[m + k - 1]
    <3> HIDE DEF m, d
    <3> QED BY <1>3, <2>1, Cut
  <2> HIDE DEF s
  <2> QED BY <2>2
<1>17. Undone' = s \o Undone
  <2> HIDE DEF d, n, m, f, s
  <2>1. Len(Undone') = Len(s) + Len(Undone)
    BY <1>8, <1>12, <1>13, <1>16
  <2>2. ASSUME NEW k \in 1 .. Len(s) PROVE Undone'[k] = s[k]
    <3>1. k \in 1 .. n - p /\ p + k = m + k - 1 /\ m + k - 1 \in 1 .. d /\ k \in 1 .. d - m + 1
      BY <1>3, <1>8, <1>12, <1>16
    <3> QED BY <1>13, <1>14, <1>16, <3>1
  <2>3. ASSUME NEW k \in 1 .. Len(Undone) PROVE Undone'[Len(s) + k] = Undone[k]
    <3> DEFINE h == Len(s) + k
    <3>1. h \in 1 .. n - p /\ p + h = d + k
      BY <1>3, <1>8, <1>12, <1>16
    <3> HIDE DEF h
    <3>2. Undone'[h] = Undone[k]
      BY <1>13, <1>14, <3>1
    <3> QED BY <3>2 DEF h
  <2> QED BY <1>3, <1>13, <1>16, <2>1, <2>2, <2>3, JoinedIs
<1>18. ASSUME m < d, NEW k \in m .. d
       PROVE  GroupOf[Done[k]] # NoGroup /\ GroupOf[Done[k]] = GroupOf[Done[d]]
  <2>1. k \in 1 .. d /\ d \in 1 .. d
    <3> HIDE DEF d, n, m
    <3> QED BY <1>8
  <2>2. SameGroup(r, m, d)
    BY <1>7, <1>8, <1>18
  <2>3. G(k) # NoGroup /\ G(k) = G(d)
    BY <2>2 DEF SameGroup
  <2> QED BY <1>14, <2>1, <2>3
<1>19. Promise!IsGroup(s)
  <2> SUFFICES ASSUME NEW k \in 2 .. Len(s) PROVE Promise!Together(s[k - 1], s[k])
    BY DEF Promise!IsGroup
  <2>1. /\ m < d /\ k - 1 \in 1 .. d - m + 1 /\ k \in 1 .. d - m + 1
        /\ m + (k - 1) - 1 \in m .. d /\ m + k - 1 \in m .. d
    <3>1. k \in 2 .. d - m + 1
      BY <1>16
    <3> HIDE DEF d, n, m
    <3> QED BY <1>8, <3>1
  <2> DEFINE x == m + (k - 1) - 1
             y == m + k - 1
             h == k - 1
  <2>2. h \in 1 .. d - m + 1 /\ m + h - 1 = x /\ k \in 1 .. d - m + 1
    BY <2>1
  <2>3. x \in m .. d /\ y \in m .. d /\ m < d
    BY <2>1
  <2>4. s[k] = Done[y]
    BY <1>16, <2>2
  <2> HIDE DEF x, h, y, s, m, d
  <2>5. s[h] = Done[x]
    BY <1>16, <2>2
  <2>6. /\ GroupOf[Done[x]] # NoGroup /\ GroupOf[Done[x]] = GroupOf[Done[d]]
        /\ GroupOf[Done[y]] # NoGroup /\ GroupOf[Done[y]] = GroupOf[Done[d]]
    BY <1>18, <2>3
  <2>7. Promise!Together(s[h], s[k])
    BY <2>4, <2>5, <2>6 DEF Promise!Together
  <2> QED BY <2>7 DEF h
<1>20. ASSUME m > 1 PROVE ~ Promise!Together(Done[m - 1], Done[m])
  <2> SUFFICES ASSUME Promise!Together(Done[m - 1], Done[m]) PROVE FALSE
    OBVIOUS
  <2> DEFINE h == m - 1
  <2>1. h \in 1 .. d /\ h < m /\ h \in Nat /\ m \in 1 .. d /\ d \in 1 .. d
    <3> HIDE DEF d, n, m
    <3> QED BY <1>8, <1>20
  <2>2. GroupOf[Done[h]] # NoGroup /\ GroupOf[Done[h]] = GroupOf[Done[m]]
    BY DEF Promise!Together
  <2> HIDE DEF h, m, d
  <2>3. GroupOf[Done[m]] = GroupOf[Done[d]]
    <3>1. CASE m = d
      BY <3>1
    <3>2. CASE m # d
      <4>1. m < d /\ m \in m .. d
        BY <1>8, <3>2
      <4> QED BY <1>18, <4>1
    <3> QED BY <3>1, <3>2
  <2>4. ASSUME NEW k \in h .. d
        PROVE  G(k) # NoGroup /\ G(k) = G(d)
    <3>1. k \in 1 .. d
      BY <1>8, <2>1
    <3>2. G(k) = GroupOf[Done[k]] /\ G(d) = GroupOf[Done[d]]
      BY <1>14, <2>1, <3>1
    <3>3. CASE k = h
      BY <2>2, <2>3, <3>2, <3>3
    <3>4. CASE k # h
      <4>1. k \in m .. d
        BY <1>8, <2>1, <3>4 DEF h
      <4>2. CASE m < d
        BY <1>18, <3>2, <4>1, <4>2
      <4>3. CASE m = d
        <5>1. k = m
          BY <1>8, <4>1, <4>3
        <5> QED BY <2>2, <2>3, <3>2, <4>3, <5>1
      <4> QED BY <1>8, <4>2, <4>3
    <3> QED BY <3>3, <3>4
  <2>5. SameGroup(r, h, d)
    BY <2>4 DEF SameGroup
  <2>6. h \in S
    BY <2>1, <2>5
  <2>7. m <= h
    BY <1>6, <2>6
  <2> QED BY <1>8, <2>1, <2>7
<1>21. Promise!Undo
  <2> HIDE DEF m, s
  <2>1. /\ m \in 1 .. Len(Done) /\ Promise!IsGroup(SubSeq(Done, m, Len(Done)))
        /\ m > 1 => ~ Promise!Together(Done[m - 1], Done[m])
        /\ Done' = SubSeq(Done, 1, m - 1)
        /\ Undone' = SubSeq(Done, m, Len(Done)) \o Undone
    BY <1>7, <1>15, <1>17, <1>19, <1>20 DEF s
  <2> QED BY <2>1 DEF Promise!Undo
<1> QED
  BY <1>11, <1>21

\* What is redone is a group, as large as it can be.
LEMMA RedoStep ==
  ASSUME IInv, Sequential, NEW r \in Request, Redo(r)
  PROVE  IInv' /\ Promise!Redo
<1> DEFINE f == found[r]
           n == Len(f)
           d == Len(Done)
           u == Len(Undone)
           c == d + 1
           G(k) == GroupOf[f[k].entry]
           S == {k \in c .. n : k = c \/ SameGroup(r, c, k)}
           m == LastToRedo(r)
           q == m - d
<1>1. pc[r] = "load" /\ todo[r] = <<>> /\ mode[r] = "redo" /\ Cursor(r) < n
  BY DEF Redo
<1>2. Loaded(r)
  BY <1>1, LoadedAll
<1>3. /\ f \in Seq(Found) /\ Done \in Seq(Edit) /\ Undone \in Seq(Edit) /\ n \in Nat /\ d \in Nat
      /\ n = d + u /\ u \in Nat /\ Cursor(r) = d /\ d < n
  BY <1>1, <1>2, LenProperties DEF Loaded
<1>4. m = Max(S)
  BY <1>3 DEF LastToRedo
<1>5. S \in SUBSET (0 .. n) /\ S # {}
  <2>1. c \in S
    <3> HIDE DEF d, n
    <3> QED BY <1>3
  <2>2. S \in SUBSET (0 .. n)
    <3> HIDE DEF d, n
    <3> QED BY <1>3
  <2> QED BY <2>1, <2>2
<1>6. m \in S /\ \A y \in S : y <= m
  <2> HIDE DEF S, m, n
  <2> QED BY <1>3, <1>4, <1>5, MaxIsGreatest
<1>7. m \in c .. n /\ (m = c \/ SameGroup(r, c, m))
  BY <1>6
<1>8. /\ m \in Nat /\ d + 1 <= m /\ m <= n /\ c \in 1 .. n /\ m \in c .. n /\ m \in 0 .. n
      /\ q \in Nat /\ 1 <= q /\ q <= u /\ m = d + q /\ n - m = u - q /\ q \in 1 .. u
  <2>1. m \in d + 1 .. n
    BY <1>7
  <2> HIDE DEF d, n, m, u
  <2> QED BY <1>3, <2>1
<1>9. /\ SubSeq(f, c, m) \in Seq(Found) /\ Len(SubSeq(f, c, m)) > 0
      /\ {SubSeq(f, c, m)[k].entry : k \in 1 .. Len(SubSeq(f, c, m))} = {f[k].entry : k \in c .. m}
  <2>1. f \in Seq(Found) /\ c \in 1 .. Len(f) /\ m \in c .. Len(f)
    BY <1>3, <1>8
  <2> HIDE DEF m, c, f
  <2> QED BY <2>1, PartIs, Zenon
<1>10. MoveCursor(r, m, SubSeq(f, c, m))
  BY <1>3 DEF Redo
<1>11. IInv'
  <2>1. PICK replay \in Seq(Found) : replay = SubSeq(f, c, m)
    BY <1>9
  <2>6. PICK i \in 1 .. n : i = c
    BY <1>8
  <2>7. PICK j \in i .. n : j = m
    BY <1>8, <2>6
  <2>3. Crossing(r, i, j)
    BY <1>1, <2>6 DEF Crossing
  <2>4. MoveCursor(r, IF mode[r] = "undo" THEN i - 1 ELSE j, replay)
    BY <1>1, <1>10, <2>1, <2>7
  <2>5. Len(replay) > 0 /\ {replay[k].entry : k \in 1 .. Len(replay)} = {f[k].entry : k \in i .. j}
    BY <1>9, <2>1, <2>6, <2>7
  <2> HIDE DEF m, d, c
  <2> QED BY <1>1, <1>2, <2>3, <2>4, <2>5, CursorMoved
<1>12. PICK p \in 0 .. n : p = m
  BY <1>8
<1>13. /\ Done' \in Seq(Edit) /\ Len(Done') = p
       /\ Undone' \in Seq(Edit) /\ Len(Undone') = n - p
       /\ \A k \in 1 .. p : Done'[k] = f[k].entry
       /\ \A k \in 1 .. n - p : Undone'[k] = f[p + k].entry
  <2>1. meta' = [ids |-> [k \in 1 .. n |-> f[k].id], cursor |-> p,
                 next |-> Max({snap[r].next, n + 1})]
    BY <1>10, <1>12 DEF MoveCursor
  <2>2. UNCHANGED <<keys, edits>>
    BY <1>10 DEF MoveCursor
  <2> HIDE DEF m, d
  <2> QED BY <1>2, <2>1, <2>2, MovedIs
<1>14. /\ \A k \in 1 .. d : f[k].entry = Done[k]
       /\ \A k \in 1 .. u : f[d + k].entry = Undone[k]
  BY <1>2 DEF Loaded
<1> DEFINE s == SubSeq(Undone, 1, q)
<1>15. s \in Seq(Edit) /\ Len(s) = q /\ \A k \in 1 .. q : s[k] = Undone[k]
  <2>1. q \in Int /\ 1 <= q /\ q <= Len(Undone)
    BY <1>8
  <2> HIDE DEF q
  <2>2. /\ s \in Seq(Edit) /\ Len(s) = IF 1 <= q THEN q - 1 + 1 ELSE 0
        /\ \A k \in 1 .. Len(s) : s[k] = Undone[1 + k - 1]
    BY <1>3, <2>1, Cut
  <2>3. Len(s) = q
    BY <2>1, <2>2
  <2>4. \A k \in 1 .. q : 1 + k - 1 = k
    BY <2>1
  <2> HIDE DEF s
  <2> QED BY <2>2, <2>3, <2>4
<1>16. Done' = Done \o s
  <2> HIDE DEF d, n, m, f, s, q, u
  <2>1. Len(Done') = d + Len(s)
    BY <1>8, <1>12, <1>13, <1>15
  <2>2. ASSUME NEW k \in 1 .. d PROVE Done'[k] = Done[k]
    <3>1. k \in 1 .. p
      BY <1>3, <1>8, <1>12
    <3> QED BY <1>13, <1>14, <3>1
  <2>3. ASSUME NEW k \in 1 .. Len(s) PROVE Done'[d + k] = s[k]
    <3>1. k \in 1 .. q /\ k \in 1 .. u
      BY <1>3, <1>8, <1>15
    <3> DEFINE h == d + k
    <3>2. h \in 1 .. p
      BY <1>3, <1>8, <1>12, <3>1
    <3>3. f[h].entry = Undone[k]
      BY <1>14, <3>1
    <3> HIDE DEF h
    <3>4. Done'[h] = s[k]
      BY <1>13, <1>15, <3>1, <3>2, <3>3
    <3> QED BY <3>4 DEF h
  <2> QED BY <1>3, <1>13, <1>15, <2>1, <2>2, <2>3, JoinedIs DEF d
<1>17. Undone' = SubSeq(Undone, q + 1, u)
  <2> DEFINE a == q + 1
  <2>1. a \in Int /\ u \in Int /\ 1 <= a /\ a <= u + 1 /\ n - p = u - a + 1
    <3> HIDE DEF d, n, m, f, s, q, u
    <3> QED BY <1>3, <1>8, <1>12
  <2>2. ASSUME NEW k \in 1 .. n - p PROVE Undone'[k] = Undone[a + k - 1]
    <3> DEFINE h == a + k - 1
    <3>1. h \in 1 .. u /\ d + h = p + k
      <4>1. k \in Int /\ 1 <= k /\ k <= n - p
        BY <1>3, <1>12
      <4> HIDE DEF d, n, m, f, s, q, u
      <4> QED BY <1>3, <1>8, <1>12, <4>1
    <3> HIDE DEF h, d, n, m, f, s, q, u, a
    <3>2. Undone'[k] = Undone[h]
      BY <1>13, <1>14, <3>1
    <3> QED BY <3>2 DEF h
  <2>3. Len(Undone') = u - a + 1
    BY <1>13, <2>1
  <2> HIDE DEF a, n, m, f, s, q
  <2>4. \A k \in 1 .. Len(Undone') : Undone'[k] = Undone[a + k - 1]
    BY <1>13, <2>2
  <2>5. Undone' = SubSeq(Undone, a, u)
    BY <1>3, <1>13, <2>1, <2>3, <2>4, CutIs
  <2> QED BY <2>5 DEF a
<1>18. ASSUME m > c, NEW k \in 1 .. q
       PROVE  GroupOf[Undone[k]] # NoGroup /\ GroupOf[Undone[k]] = GroupOf[Undone[q]]
  <2>1. k \in 1 .. u /\ q \in 1 .. u /\ d + k \in c .. m /\ d + q = m
    <3>1. k \in Int /\ 1 <= k /\ k <= q
      BY <1>8
    <3> HIDE DEF d, n, m, u, q
    <3> QED BY <1>3, <1>8, <3>1
  <2>2. SameGroup(r, c, m)
    BY <1>7, <1>8, <1>18
  <2>3. \A h \in c .. m : G(h) # NoGroup /\ G(h) = G(m)
    BY <2>2 DEF SameGroup
  <2>4. G(d + k) # NoGroup /\ G(d + k) = G(m)
    <3> HIDE DEF G, m, c
    <3> QED BY <2>1, <2>3
  <2>5. f[d + k].entry = Undone[k] /\ f[d + q].entry = Undone[q]
    <3> HIDE DEF q, d, u, f
    <3> QED BY <1>14, <2>1
  <2>6. f[m].entry = Undone[q]
    <3> HIDE DEF q, d, u, f
    <3> QED BY <2>1, <2>5
  <2> QED BY <2>4, <2>5, <2>6
<1>19. Promise!IsGroup(s)
  <2> SUFFICES ASSUME NEW k \in 2 .. Len(s) PROVE Promise!Together(s[k - 1], s[k])
    BY DEF Promise!IsGroup
  <2> DEFINE h == k - 1
  <2>1. m > c /\ h \in 1 .. q /\ k \in 1 .. q
    <3>1. k \in 2 .. q
      BY <1>15
    <3>2. m > d + 1 /\ h \in 1 .. q /\ k \in 1 .. q
      <4> HIDE DEF d, n, m, u, q
      <4> QED BY <1>3, <1>8, <3>1
    <3> QED BY <3>2
  <2> HIDE DEF h, m, c, q, s
  <2>2. Promise!Together(s[h], s[k])
    BY <1>15, <1>18, <2>1 DEF Promise!Together
  <2> QED BY <2>2 DEF h
<1>20. ASSUME q < u PROVE ~ Promise!Together(Undone[q], Undone[q + 1])
  <2> SUFFICES ASSUME Promise!Together(Undone[q], Undone[q + 1]) PROVE FALSE
    OBVIOUS
  <2> DEFINE a == q + 1
             h == m + 1
  <2>1. /\ q \in 1 .. u /\ a \in 1 .. u /\ d + a = h /\ h \in c .. n /\ d + q = m
        /\ h \in Nat /\ m \in Nat /\ h > m
    <3> HIDE DEF d, n, m, u, q
    <3> QED BY <1>3, <1>8, <1>20
  <2>2. GroupOf[Undone[q]] # NoGroup /\ GroupOf[Undone[q]] = GroupOf[Undone[a]]
    BY DEF Promise!Together
  <2>3. f[d + q].entry = Undone[q] /\ f[d + a].entry = Undone[a]
    <3> HIDE DEF q, d, u, f, a
    <3> QED BY <1>14, <2>1
  <2>4. G(m) # NoGroup /\ G(m) = G(h)
    <3> HIDE DEF q, d, u, a, h, m
    <3> QED BY <2>1, <2>2, <2>3
  <2>5. ASSUME NEW k \in c .. h
        PROVE  G(k) # NoGroup /\ G(k) = G(h)
    <3>1. CASE k = h
      BY <2>4, <3>1
    <3>2. CASE k = m
      BY <2>4, <3>2
    <3>3. CASE k # h /\ k # m
      <4>1. k \in c .. m /\ m > c
        <5>1. k \in Int /\ d + 1 <= k /\ k <= h
          BY <1>3, <2>1
        <5>2. h = m + 1
          OBVIOUS
        <5> HIDE DEF d, m, h
        <5> QED BY <1>3, <1>8, <3>3, <5>1, <5>2
      <4>2. SameGroup(r, c, m)
        BY <1>7, <4>1
      <4>3. G(k) # NoGroup /\ G(k) = G(m)
        BY <4>1, <4>2 DEF SameGroup
      <4> QED BY <2>4, <4>3
    <3> QED BY <3>1, <3>2, <3>3
  <2>6. SameGroup(r, c, h)
    BY <2>5 DEF SameGroup
  <2>7. h \in S
    <3> HIDE DEF c, n, h
    <3> QED BY <2>1, <2>6
  <2>8. h <= m
    <3> HIDE DEF S, h, m
    <3> QED BY <1>6, <2>7
  <2> QED BY <2>1, <2>8
<1>21. Promise!Redo
  <2> HIDE DEF q, s
  <2>1. /\ q \in 1 .. Len(Undone) /\ Promise!IsGroup(SubSeq(Undone, 1, q))
        /\ q < Len(Undone) => ~ Promise!Together(Undone[q], Undone[q + 1])
        /\ Done' = Done \o SubSeq(Undone, 1, q)
        /\ Undone' = SubSeq(Undone, q + 1, Len(Undone))
    BY <1>8, <1>16, <1>17, <1>19, <1>20 DEF s
  <2> QED BY <2>1 DEF Promise!Redo
<1> QED
  BY <1>11, <1>21

-----------------------------------------------------------------------------
(***************************************************************************)
(* The theorems.                                                           *)
(***************************************************************************)
\* The store is empty at first.
LEMMA InitHolds ==
  ASSUME Init
  PROVE  IInv /\ Done = <<>> /\ Undone = <<>>
<1>1. NoMeta \in Meta /\ NoMeta.ids = <<>> /\ NoMeta.cursor = 0 /\ NoMeta.next = 1
  <2>1. <<>> \in Seq(Id)
    BY EmptySeq
  <2> QED BY <2>1 DEF NoMeta, Meta
<1>2. Len(<<>>) = 0 /\ <<>> \in Seq(Nat) /\ <<>> \in Seq(Found)
  BY EmptySeq
<1>3. TypeOK
  BY <1>1, <1>2, StoreAssumption DEF Init, TypeOK
<1>4. IdsInOrder
  <2>1. Len(meta.ids) = 0 /\ meta.next = 1 /\ edits = 0 /\ \A i \in Id : keys[i] = NoEntry
    BY <1>1, <1>2 DEF Init
  <2> QED BY <2>1 DEF IdsInOrder
<1>5. Fresh /\ ReplayInOrder /\ ModesInOrder
  BY DEF Init, Fresh, Recording, ReplayInOrder, ModesInOrder
<1>6. Gaps(0, 0)
  <2>1. Live = {} /\ Len(meta.ids) = 0 /\ meta.cursor = 0
    BY <1>1, <1>2 DEF Init, Live
  <2> QED BY <2>1 DEF Gaps
<1>7. StackInOrder
  <2>1. 0 \in 0 .. meta.cursor /\ 0 \in 0 .. Len(meta.ids) - meta.cursor
    BY <1>1, <1>2 DEF Init
  <2>2. \A r \in Request : pc[r] = "idle"
    BY DEF Init
  <2> QED BY <1>6, <2>1, <2>2 DEF StackInOrder
<1>8. Window(0, 0)
  BY <1>1, <1>2, <1>3, <1>6 DEF Init, Window, TypeOK
<1>9. Shape(0, 0)
  BY <1>8, Halves
<1>10. Done = <<>> /\ Undone = <<>>
  <2>1. Len(meta.ids) = 0 /\ meta.cursor = 0
    BY <1>1, <1>2 DEF Init
  <2>2. Done \in Seq(Edit) /\ Undone \in Seq(Edit) /\ Len(Done) = 0 /\ Len(Undone) = 0
    BY <1>9, <2>1 DEF Shape
  <2> QED BY <2>2, EmptySeq
<1>11. DoneIsApplied /\ UndoneIsGone
  BY <1>10 DEF DoneIsApplied, UndoneIsGone, ToSet
<1> QED
  BY <1>3, <1>4, <1>5, <1>7, <1>10, <1>11 DEF IInv

\* Every step keeps the invariant and is a step of the log, or no step of it.
LEMMA StepHolds ==
  ASSUME IInv, Sequential, [Next]_vars
  PROVE  IInv' /\ [Promise!Next]_<<Done, Undone>>
<1>1. CASE UNCHANGED vars
  <2>1. Done' = Done /\ Undone' = Undone
    <3>1. UNCHANGED store
      BY <1>1 DEF vars, store
    <3> QED BY <3>1, StoreSame
  <2>2. TypeOK' /\ IdsInOrder' /\ Fresh'
    BY <1>1 DEF vars, IInv, TypeOK, IdsInOrder, Fresh, Recording
  <2>3. StackInOrder'
    <3>1. PICK a \in 0 .. meta.cursor, b \in 0 .. Len(meta.ids) - meta.cursor :
            /\ Gaps(a, b)
            /\ \A r \in Request :
                 /\ pc[r] \in {"load", "delete", "commit"} => snap[r] = meta
                 /\ pc[r] \in {"delete", "commit"} => DeletedSoFar(r, a, b)
                 /\ pc[r] = "commit" => todo[r] = <<>>
                 /\ pc[r] = "load" => LoadedSoFar(r, a, b)
      BY DEF IInv, StackInOrder
    <3>2. Gaps(a, b)'
      BY <1>1, <3>1 DEF vars, Gaps, Live
    <3>3. \A r \in Request : DeletedSoFar(r, a, b)' <=> DeletedSoFar(r, a, b)
      BY <1>1 DEF vars, DeletedSoFar, Dropped, Kept, Excess
    <3>4. \A r \in Request : LoadedSoFar(r, a, b)' <=> LoadedSoFar(r, a, b)
      BY <1>1 DEF vars, LoadedSoFar, Place
    <3> QED BY <1>1, <3>1, <3>2, <3>3, <3>4 DEF vars, StackInOrder
  <2>4. ReplayInOrder' /\ ModesInOrder'
    BY <1>1, <2>1 DEF vars, IInv, ReplayInOrder, ModesInOrder
  <2>5. Unsettled' = Unsettled
    BY <1>1 DEF vars, Unsettled
  <2>6. DoneIsApplied' /\ UndoneIsGone'
    BY <1>1, <2>1, <2>5 DEF vars, IInv, DoneIsApplied, UndoneIsGone
  <2> QED BY <2>1, <2>2, <2>3, <2>4, <2>6 DEF IInv
<1>2. CASE Next
  <2>1. PICK r \in Request :
          \/ Record(r) \/ ReadMeta(r)
          \/ Ask(r, "undo") \/ Ask(r, "redo") \/ LoadEntry(r)
          \/ Undo(r) \/ Redo(r) \/ NothingToDo(r) \/ Replay(r) \/ Interrupt(r)
    BY <1>2 DEF Next
  <2>2. CASE Change(r)
    BY <2>2, ChangeStep
  <2>3. CASE DeleteKey(r)
    BY <2>3, DeleteKeyStep DEF Shortened, Promise!Next, Promise!Forget, Promise!Discard
  <2>4. CASE StoreEntry(r)
    BY <2>4, StoreEntryStep
  <2>5. CASE CommitAppend(r)
    <3>1. IInv' /\ Done' = Append(Done, entry[r]) /\ Undone' = <<>> /\ entry[r] \in Edit
      BY <2>5, CommitAppendStep
    <3>2. Promise!Do(entry[r])
      BY <3>1 DEF Promise!Do
    <3> QED BY <3>1, <3>2 DEF Promise!Next
  <2>6. CASE ReadMeta(r)
    BY <2>6, ReadMetaStep
  <2>7. CASE Ask(r, "undo") \/ Ask(r, "redo")
    BY <2>7, AskStep
  <2>8. CASE LoadEntry(r)
    BY <2>8, LoadEntryStep
  <2>9. CASE Undo(r)
    BY <2>9, UndoStep DEF Promise!Next
  <2>10. CASE Redo(r)
    BY <2>10, RedoStep DEF Promise!Next
  <2>11. CASE NothingToDo(r)
    BY <2>11, NothingToDoStep
  <2>12. CASE Replay(r)
    BY <2>12, ReplayStep
  <2>13. CASE Interrupt(r)
    BY <2>13, InterruptStep
  <2> QED
    BY <2>1, <2>2, <2>3, <2>4, <2>5, <2>6, <2>7, <2>8, <2>9, <2>10, <2>11, <2>12, <2>13 DEF Record
<1> QED
  BY <1>1, <1>2

\* The invariant holds as long as the requests of a window are served one after
\* the other.
THEOREM InvariantHolds ==
  ASSUME Sequential
  PROVE  Spec => []IInv
<1>1. Init => IInv
  BY InitHolds
<1>2. IInv /\ [Next]_vars => IInv'
  BY StepHolds
<1> QED
  BY <1>1, <1>2, PTL DEF Spec

\* The window's key and the entries' keys are always of their type.
THEOREM TypeCorrect ==
  ASSUME Sequential
  PROVE  Spec => []TypeOK
<1>1. IInv => TypeOK
  BY DEF IInv
<1> QED
  BY <1>1, InvariantHolds, PTL

\* Whatever undo would take back is in effect in the table: KeyvUndoRedoStore.ts
\* moves the cursor before UndoRedoStackService.ts replays, and what a failed replay
\* leaves behind is all that can be in doubt.
THEOREM UndoFindsItDone ==
  ASSUME Sequential
  PROVE  Spec => []DoneIsApplied
<1>1. IInv => DoneIsApplied
  BY DEF IInv
<1> QED
  BY <1>1, InvariantHolds, PTL

\* Whatever redo would apply is not in effect: no edit is applied twice.
THEOREM RedoFindsItUndone ==
  ASSUME Sequential
  PROVE  Spec => []UndoneIsGone
<1>1. IInv => UndoneIsGone
  BY DEF IInv
<1> QED
  BY <1>1, InvariantHolds, PTL

\* The keys implement the log of UndoLog, a crash between any two of the store's
\* calls included: an interrupted append at most forgets what it would have dropped,
\* and an undo or a redo moves one whole group over the cursor.
THEOREM LogImplemented ==
  ASSUME Sequential
  PROVE  Spec => ImplementsLog
<1>1. Init => Promise!Init
  BY InitHolds DEF Promise!Init
<1>2. IInv /\ [Next]_vars => [Promise!Next]_<<Done, Undone>>
  BY StepHolds
<1> QED
  BY <1>1, <1>2, InvariantHolds, PTL DEF Spec, ImplementsLog, Promise!Spec

=============================================================================
