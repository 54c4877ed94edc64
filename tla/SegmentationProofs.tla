------------------------- MODULE SegmentationProofs -------------------------
(***************************************************************************)
(* Proofs about Segmentation, for all graphs and all its parameters: the   *)
(* segments tile the samples, a detector just started does not break, the  *)
(* durations add up to the time between connected samples, and a confident *)
(* answer rests on enough of them.                                         *)
(***************************************************************************)
EXTENDS Segmentation, FiniteSetTheorems, SequenceTheorems, WellFoundedInduction, TLAPS

-----------------------------------------------------------------------------
(***************************************************************************)
(* The sequence that a graph becomes.  AlignSequence and                   *)
(* InterpolateSequence are folds, entries of functions defined by          *)
(* recursion over the sets of positions; the step that takes one more      *)
(* sample is named by how.  It is shown that there is such a function, and *)
(* from it that the folds are what the loops of the code compute: the      *)
(* result after n samples is one step from the result after n - 1.         *)
(***************************************************************************)
Taken(how, freed, s, acc, pt) ==
  IF how = "align" THEN AlignSample(acc, pt) ELSE InterpolateSample(acc, pt, s, freed)

Builds(g, how, freed, s, D) ==
  g = [T \in SUBSET D |-> IF T = {} THEN <<>>
                          ELSE Taken(how, freed, s, g[T \ {Max(T)}], s[Max(T)])]

LEMMA AlignIsBuilt ==
  ASSUME NEW s
  PROVE  AlignSequence(s) = (CHOOSE g : Builds(g, "align", Kept, s, DOMAIN s))[DOMAIN s]
BY DEF AlignSequence, FoldLeft, MapThenFoldSet, Builds, Taken

LEMMA InterpolateIsBuilt ==
  ASSUME NEW s, NEW freed
  PROVE  InterpolateSequence(s, freed)
           = (CHOOSE g : Builds(g, "interpolate", freed, s, DOMAIN s))[DOMAIN s]
BY DEF InterpolateSequence, FoldLeft, MapThenFoldSet, Builds, Taken

\* Of the subsets of a finite set that are bad, one is smallest.
LEMMA SmallestSubset ==
  ASSUME NEW S, IsFiniteSet(S), NEW Bad \in SUBSET SUBSET S, Bad # {}
  PROVE  \E T \in Bad : \A U \in SUBSET T : U \in Bad => U = T
<1>1. IsWellFoundedOn(StrictSubsetOrdering(S), SUBSET S)
  BY FS_StrictSubsetOrderingWellFounded, FS_FiniteSubsetsOfFinite
<1>2. PICK T \in Bad : \A U \in Bad : ~ (<<U, T>> \in StrictSubsetOrdering(S))
  BY <1>1, WFMin
<1>3. QED
  BY <1>2 DEF StrictSubsetOrdering

LEMMA LeastNat ==
  ASSUME NEW T, T \subseteq Nat, T # {}
  PROVE  \E m \in T : \A n \in T : m <= n
<1> DEFINE R == OpToRel(<, Nat)
<1>1. \A m, n \in Nat : <<m, n>> \in R <=> m < n
  BY DEF OpToRel
<1>2. IsWellFoundedOn(R, Nat)
  BY NatLessThanWellFounded
<1>3. PICK m \in T : \A n \in T : ~ (<<n, m>> \in R)
  <2> HIDE DEF R
  <2>1. QED
    BY <1>2, WFMin
<1>4. \A n \in T : ~ (n < m)
  BY <1>1, <1>3
<1>5. QED
  BY <1>4

\* A set of positions has a last one.
LEMMA MaxOfPositions ==
  ASSUME NEW n \in Nat, NEW T \in SUBSET (1..n), T # {}
  PROVE  Max(T) \in T /\ \A x \in T : x <= Max(T)
<1> DEFINE Left == {n - x : x \in T}
<1>1. \A x \in T : x \in Nat /\ n - x \in Nat
  <2>1. \A x \in 1..n : x \in Nat /\ n - x \in Nat
    OBVIOUS
  <2>2. QED
    BY <2>1
<1>2. PICK m \in Left : \A k \in Left : m <= k
  <2>1. Left \subseteq Nat /\ Left # {}
    BY <1>1
  <2> HIDE DEF Left
  <2>2. QED
    BY <2>1, LeastNat
<1>3. PICK x \in T : m = n - x
  BY <1>2
<1>4. \A y \in T : x >= y
  BY <1>1, <1>2, <1>3
<1>5. \E z \in T : \A y \in T : z >= y
  BY <1>4
<1>6. Max(T) \in T /\ \A y \in T : Max(T) >= y
  BY <1>5, Zenon DEF Max
<1>7. QED
  BY <1>6

\* Finite sets whose subsets have a last element.
Positions(D) == IsFiniteSet(D) /\ \A T \in SUBSET D : T # {} => Max(T) \in T

LEMMA IntervalPositions == \A n \in Nat : Positions(1..n)
<1> TAKE n \in Nat
<1>1. IsFiniteSet(1..n)
  BY FS_Interval
<1>2. QED
  BY <1>1, MaxOfPositions DEF Positions

LEMMA SubsetPositions ==
  ASSUME NEW D, Positions(D), NEW R \in SUBSET D
  PROVE  Positions(R)
BY FS_Subset DEF Positions

LEMMA BuildsAt ==
  ASSUME NEW how, NEW freed, NEW s, NEW D, NEW g, Builds(g, how, freed, s, D), NEW T \in SUBSET D
  PROVE  g[T] = IF T = {} THEN <<>> ELSE Taken(how, freed, s, g[T \ {Max(T)}], s[Max(T)])
<1> DEFINE Entry(U) == IF U = {} THEN <<>> ELSE Taken(how, freed, s, g[U \ {Max(U)}], s[Max(U)])
<1>1. g = [U \in SUBSET D |-> Entry(U)]
  BY DEF Builds
<1> HIDE DEF Entry
<1>2. g[T] = Entry(T)
  BY <1>1
<1>3. QED
  BY <1>2 DEF Entry

LEMMA BuildsUpTo ==
  ASSUME NEW how, NEW freed, NEW s, NEW D, NEW g, Builds(g, how, freed, s, D),
         NEW T, T \subseteq D, T # {}
  PROVE  g[T] = Taken(how, freed, s, g[T \ {Max(T)}], s[Max(T)])
BY BuildsAt

LEMMA BuildsAtEmpty ==
  ASSUME NEW how, NEW freed, NEW s, NEW D, NEW g, Builds(g, how, freed, s, D)
  PROVE  g[{}] = <<>>
<1> DEFINE Entry(U) == IF U = {} THEN <<>> ELSE Taken(how, freed, s, g[U \ {Max(U)}], s[Max(U)])
<1>1. g = [U \in SUBSET D |-> Entry(U)]
  BY DEF Builds
<1>2. Entry({}) = <<>>
  OBVIOUS
<1> HIDE DEF Entry
<1>3. {} \in SUBSET D
  OBVIOUS
<1>4. QED
  BY <1>1, <1>2, <1>3

\* Two such functions agree where both have an entry.
LEMMA BuildsAgree ==
  ASSUME NEW how, NEW freed, NEW s, NEW D, Positions(D), NEW R \in SUBSET D, NEW g, NEW h,
         Builds(g, how, freed, s, D), Builds(h, how, freed, s, R)
  PROVE  \A T \in SUBSET R : g[T] = h[T]
<1> DEFINE Bad == {T \in SUBSET R : g[T] # h[T]}
<1> SUFFICES ASSUME Bad # {} PROVE FALSE
  OBVIOUS
<1>1. IsFiniteSet(R)
  BY SubsetPositions DEF Positions
<1>2. PICK T \in Bad : \A U \in SUBSET T : U \in Bad => U = T
  <2>1. Bad \in SUBSET SUBSET R
    OBVIOUS
  <2> HIDE DEF Bad
  <2>2. QED
    BY <1>1, <2>1, SmallestSubset
<1>3. T \in SUBSET R /\ T \in SUBSET D /\ g[T] # h[T]
  BY <1>2
<1>4. T # {}
  <2>1. g[{}] = <<>> /\ h[{}] = <<>>
    BY BuildsAtEmpty
  <2>2. QED
    BY <1>3, <2>1
<1>5. Max(T) \in T
  BY <1>3, <1>4 DEF Positions
<1>6. g[T \ {Max(T)}] = h[T \ {Max(T)}]
  BY <1>2, <1>3, <1>5
<1>7. /\ g[T] = Taken(how, freed, s, g[T \ {Max(T)}], s[Max(T)])
      /\ h[T] = Taken(how, freed, s, h[T \ {Max(T)}], s[Max(T)])
  BY <1>3, <1>4, BuildsAt
<1>8. QED
  BY <1>3, <1>6, <1>7

\* There is one for each sequence.
LEMMA BuildsExist ==
  ASSUME NEW how, NEW freed, NEW s, NEW D, Positions(D)
  PROVE  \E g : Builds(g, how, freed, s, D)
<1> DEFINE Bad == {T \in SUBSET D : ~ \E g : Builds(g, how, freed, s, T)}
<1> SUFFICES ASSUME Bad # {} PROVE FALSE
  OBVIOUS
<1>1. IsFiniteSet(D)
  BY DEF Positions
<1>2. PICK T \in Bad : \A U \in SUBSET T : U \in Bad => U = T
  <2>1. Bad \in SUBSET SUBSET D
    OBVIOUS
  <2> HIDE DEF Bad
  <2>2. QED
    BY <1>1, <2>1, SmallestSubset
<1>3. T \in SUBSET D /\ ~ \E g : Builds(g, how, freed, s, T)
  BY <1>2
<1> DEFINE Table(U) == CHOOSE g : Builds(g, how, freed, s, U)
           Below(U) == IF U = {} THEN <<>>
                       ELSE Taken(how, freed, s, Table(U \ {Max(U)})[U \ {Max(U)}], s[Max(U)])
           g == [U \in SUBSET T |-> Below(U)]
<1>4. \A U \in SUBSET T : U # T => Builds(Table(U), how, freed, s, U)
  BY <1>2, <1>3
<1>5. ASSUME NEW U \in SUBSET T, U # {}
      PROVE  Table(U \ {Max(U)})[U \ {Max(U)}] = Below(U \ {Max(U)})
  <2> DEFINE W == U \ {Max(U)}
  <2>1. Max(U) \in U
    BY <1>3, <1>5 DEF Positions
  <2>2. W \in SUBSET T /\ W # T /\ Builds(Table(W), how, freed, s, W) /\ Positions(W)
    BY <1>3, <1>4, <2>1, SubsetPositions
  <2>3. CASE W = {}
    <3>1. Builds(Table({}), how, freed, s, {})
      BY <2>2, <2>3
    <3> HIDE DEF Table, W
    <3>2. Table({})[{}] = <<>>
      BY <3>1, BuildsAtEmpty
    <3>3. QED
      BY <2>3, <3>2 DEF W
  <2>4. CASE W # {}
    <3> DEFINE V == W \ {Max(W)}
    <3>1. V \in SUBSET W /\ V # T /\ V \in SUBSET T
      BY <2>2, <2>4 DEF Positions
    <3>2. Builds(Table(V), how, freed, s, V)
      BY <1>4, <3>1
    <3>3. Table(W)[W] = Taken(how, freed, s, Table(W)[V], s[Max(W)])
      <4> HIDE DEF Table, W
      <4>1. W \in SUBSET W
        OBVIOUS
      <4>2. QED
        <5> DEFINE t == Table(W)
        <5>0. Builds(t, how, freed, s, W) /\ W # {} /\ W \subseteq W
          BY <2>2, <2>4
        <5> HIDE DEF t
        <5>1. t[W] = Taken(how, freed, s, t[W \ {Max(W)}], s[Max(W)])
          BY <5>0, BuildsUpTo
        <5>2. QED
          BY <5>1 DEF t
    <3>4. Table(W)[V] = Table(V)[V]
      <4>1. V \in SUBSET V
        OBVIOUS
      <4> HIDE DEF Table, W, V
      <4>2. \A X \in SUBSET V : Table(W)[X] = Table(V)[X]
        BY <2>2, <3>1, <3>2, BuildsAgree
      <4>3. QED
        BY <4>1, <4>2
    <3>5. QED
      BY <2>4, <3>3, <3>4
  <2>5. QED
    BY <2>3, <2>4
<1>6. Builds(g, how, freed, s, T)
  <2>1. ASSUME NEW U \in SUBSET T
        PROVE  Below(U) = IF U = {} THEN <<>> ELSE Taken(how, freed, s, g[U \ {Max(U)}], s[Max(U)])
    <3>1. U \ {Max(U)} \in SUBSET T
      OBVIOUS
    <3>2. g[U \ {Max(U)}] = Below(U \ {Max(U)})
      BY <3>1
    <3>3. CASE U = {}
      BY <3>3
    <3>4. CASE U # {}
      <4>1. Below(U) = Taken(how, freed, s, Table(U \ {Max(U)})[U \ {Max(U)}], s[Max(U)])
        BY <3>4
      <4>2. Table(U \ {Max(U)})[U \ {Max(U)}] = Below(U \ {Max(U)})
        BY <1>5, <3>4
      <4> HIDE DEF Below, Table, g
      <4>3. QED
        BY <3>2, <3>4, <4>1, <4>2
    <3>5. QED
      BY <3>3, <3>4
  <2> HIDE DEF Below
  <2>2. QED
    BY <2>1 DEF Builds
<1>7. QED
  BY <1>3, <1>6

\* What the loop has built after each sample.
Loop(h, how, freed, s) ==
  /\ h[0] = <<>>
  /\ \A k \in 1..Len(s) : h[k] = Taken(how, freed, s, h[k - 1], s[k])

LEMMA LoopExists ==
  ASSUME NEW how, NEW freed, NEW S, NEW s \in Seq(S)
  PROVE  \E h : /\ Loop(h, how, freed, s)
               /\ (CHOOSE g : Builds(g, how, freed, s, DOMAIN s))[DOMAIN s] = h[Len(s)]
<1> DEFINE n == Len(s)
           g == CHOOSE g : Builds(g, how, freed, s, DOMAIN s)
           h == [k \in 0..n |-> g[1..k]]
<1>1. n \in Nat /\ DOMAIN s = 1..n
  OBVIOUS
<1>2. Builds(g, how, freed, s, 1..n)
  BY <1>1, BuildsExist, IntervalPositions
<1> HIDE DEF n, g
<1>3. h[0] = <<>>
  <2>1. h[0] = g[1..0] /\ 1..0 = {}
    BY <1>1
  <2>2. QED
    BY <1>2, <2>1, BuildsAtEmpty
<1>4. ASSUME NEW k \in 1..n
      PROVE  h[k] = Taken(how, freed, s, h[k - 1], s[k])
  <2>1. 1..k \in SUBSET (1..n) /\ 1..k # {} /\ k \in Nat /\ k - 1 \in 0..n /\ k \in 0..n
    BY <1>1
  <2>2. Max(1..k) = k
    <3>1. 1..k \in SUBSET (1..k) /\ k \in 1..k
      BY <2>1
    <3>2. Max(1..k) \in 1..k /\ \A x \in 1..k : x <= Max(1..k)
      BY <2>1, <3>1, MaxOfPositions
    <3>3. QED
      BY <3>1, <3>2
  <2>3. (1..k) \ {k} = 1..(k - 1)
    BY <2>1
  <2>4. g[1..k] = Taken(how, freed, s, g[1..(k - 1)], s[k])
    <3> DEFINE D == 1..n
               T == 1..k
               R == 1..(k - 1)
    <3>1. T \subseteq D /\ T # {} /\ Max(T) = k /\ T \ {k} = R /\ Builds(g, how, freed, s, D)
      BY <1>2, <2>1, <2>2, <2>3
    <3> HIDE DEF D, T, R
    <3>2. g[T] = Taken(how, freed, s, g[T \ {Max(T)}], s[Max(T)])
      BY <3>1, BuildsUpTo
    <3>3. g[T] = Taken(how, freed, s, g[R], s[k])
      BY <3>1, <3>2, Zenon
    <3>4. QED
      BY <3>3 DEF T, R
  <2>5. QED
    BY <2>1, <2>4
<1>5. n \in 0..n /\ h[n] = g[1..n]
  BY <1>1
<1>6. Loop(h, how, freed, s)
  BY <1>3, <1>4 DEF Loop, n
<1>7. g[DOMAIN s] = h[Len(s)]
  BY <1>1, <1>5 DEF n
<1>8. QED
  BY <1>6, <1>7 DEF g

\* Induction over an interval, for a set of positions.
LEMMA IntervalInduction ==
  ASSUME NEW a \in Int, NEW b \in Int, NEW G, a \in G,
         \A k \in (a + 1)..b : k - 1 \in G => k \in G
  PROVE  \A k \in a..b : k \in G
<1> DEFINE Bad == {d \in Nat : a + d \in a..b /\ a + d \notin G}
<1>1. ASSUME NEW k \in a..b, Bad = {}
      PROVE  k \in G
  <2>1. k - a \in Nat /\ a + (k - a) = k
    OBVIOUS
  <2>2. k - a \notin Bad
    BY <1>1
  <2>3. QED
    BY <2>1, <2>2
<1>2. SUFFICES ASSUME Bad # {} PROVE FALSE
  BY <1>1
<1>3. PICK d \in Bad : \A e \in Bad : d <= e
  <2>1. Bad \subseteq Nat
    OBVIOUS
  <2> HIDE DEF Bad
  <2>2. QED
    BY <1>2, <2>1, LeastNat
<1>4. d \in Nat /\ a + d \in a..b /\ a + d \notin G
  BY <1>3
<1>5. d # 0
  BY <1>4
<1>6. d - 1 \in Nat /\ a + (d - 1) \in a..b /\ d - 1 \notin Bad
  BY <1>3, <1>4, <1>5
<1>7. a + (d - 1) \in G
  BY <1>6
<1>8. a + d \in (a + 1)..b /\ (a + d) - 1 = a + (d - 1)
  BY <1>4, <1>5
<1>9. QED
  BY <1>4, <1>7, <1>8

LEMMA CountInduction ==
  ASSUME NEW n \in Nat, NEW G, 0 \in G, \A k \in 1..n : k - 1 \in G => k \in G
  PROVE  \A k \in 0..n : k \in G
<1> DEFINE a == 0
<1>1. a \in Int /\ n \in Int /\ a \in G /\ \A k \in (a + 1)..n : k - 1 \in G => k \in G
  OBVIOUS
<1>2. \A k \in a..n : k \in G
  <2> HIDE DEF a
  <2>1. QED
    BY <1>1, IntervalInduction
<1>3. QED
  BY <1>2

-----------------------------------------------------------------------------
(* Times in intervals. *)

\* A product is smaller when a factor is.
LEMMA ProductGrows ==
  ASSUME NEW x \in Int, NEW y \in Int, NEW c \in Int, c > 0
  PROVE  /\ x <= y => c * x <= c * y
         /\ x < y => c * x + c <= c * y
<1>1. ASSUME NEW d \in Nat PROVE c * d >= 0 /\ (d > 0 => c * d >= c)
  OBVIOUS
<1>2. x <= y => y - x \in Nat /\ c * (y - x) = c * y - c * x
  OBVIOUS
<1>3. QED
  BY <1>1, <1>2

LEMMA QuotientIs ==
  ASSUME NEW a \in Int, NEW c \in Int, c > 0
  PROVE  a \div c \in Int /\ c * (a \div c) <= a /\ a < c * (a \div c) + c
OBVIOUS

LEMMA QuotientGrows ==
  ASSUME NEW a \in Int, NEW b \in Int, NEW c \in Int, c > 0, a <= b
  PROVE  a \div c <= b \div c
<1> DEFINE p == a \div c
           q == b \div c
<1>1. /\ p \in Int /\ c * p <= a
      /\ q \in Int /\ b < c * q + c
  BY QuotientIs
<1> HIDE DEF p, q
<1>2. ~(q < p)
  <2>1. q < p => c * q + c <= c * p
    BY <1>1, ProductGrows
  <2>2. c * p \in Int /\ c * q \in Int
    BY <1>1
  <2>3. QED
    BY <1>1, <2>1, <2>2
<1>3. QED
  BY <1>1, <1>2 DEF p, q

LEMMA QuotientOfMultiple ==
  ASSUME NEW x \in Int, NEW c \in Int, c > 0
  PROVE  (c * x) \div c = x
<1> DEFINE q == (c * x) \div c
<1>1. c * x \in Int
  OBVIOUS
<1>2. q \in Int /\ c * q <= c * x /\ c * x < c * q + c
  BY <1>1, QuotientIs
<1> HIDE DEF q
<1>3. c * q \in Int
  BY <1>2
<1>4. ~(q < x) /\ ~(x < q)
  BY <1>1, <1>2, <1>3, ProductGrows
<1>5. QED
  BY <1>2, <1>4 DEF q

LEMMA IntervalsInt == \A t \in Int : Intervals(t) \in Int
<1> TAKE t \in Int
<1>1. \A a \in Int : a \div Interval \in Int
  BY QuotientIs, IntervalAssumption
<1>2. \A a \in Int : (a + 5) \div 10 \in Int
  OBVIOUS
<1>3. (t * 10) \div Interval \in Int /\ (-t * 10) \div Interval \in Int
  BY <1>1
<1>4. QED
  BY <1>2, <1>3 DEF Intervals

\* A later time lies no earlier interval.
LEMMA IntervalsRise ==
  ASSUME NEW s \in Int, NEW t \in Int, 0 <= s, s <= t
  PROVE  Intervals(s) <= Intervals(t)
<1> DEFINE a == (s * 10) \div Interval
           b == (t * 10) \div Interval
<1>1. a \in Int /\ b \in Int /\ a <= b
  BY QuotientIs, QuotientGrows, IntervalAssumption
<1>2. Intervals(s) = (a + 5) \div 10 /\ Intervals(t) = (b + 5) \div 10
  BY DEF Intervals
<1> HIDE DEF a, b
<1>3. QED
  BY <1>1, <1>2

\* A multiple of the interval is that many intervals.
LEMMA IntervalsOfMultiple ==
  ASSUME NEW m \in Int
  PROVE  Intervals(Interval * m) = m
<1>1. Interval \in Int /\ Interval > 0
  BY IntervalAssumption
<1>2. CASE m >= 0
  <2>1. Interval * m >= 0 /\ (Interval * m) * 10 = Interval * (10 * m)
    BY <1>1, <1>2
  <2>2. (Interval * (10 * m)) \div Interval = 10 * m
    BY <1>1, QuotientOfMultiple
  <2>3. Intervals(Interval * m) = ((10 * m) + 5) \div 10
    <3> DEFINE t == Interval * m
    <3>1. t >= 0 /\ t \in Int /\ t * 10 = Interval * (10 * m)
      BY <1>1, <2>1
    <3> HIDE DEF t
    <3>2. Intervals(t) = ((t * 10) \div Interval + 5) \div 10
      BY <3>1 DEF Intervals
    <3>3. QED
      BY <2>2, <3>1, <3>2 DEF t
  <2>4. QED
    BY <2>3
<1>3. CASE m < 0
  <2>1. Interval * m < 0 /\ -(Interval * m) * 10 = Interval * (10 * (-m))
    BY <1>1, <1>3
  <2>2. (Interval * (10 * (-m))) \div Interval = 10 * (-m)
    BY <1>1, QuotientOfMultiple
  <2>3. Intervals(Interval * m) = -(((10 * (-m)) + 5) \div 10)
    BY <2>1, <2>2 DEF Intervals
  <2>4. QED
    BY <2>3
<1>4. QED
  BY <1>2, <1>3

-----------------------------------------------------------------------------
(* AlignSequence: all times are multiples of the interval, no two in a row *)
(* are equal, and they rise if the times of the graph do.                  *)
OnInterval(t) == \E m \in Int : t = Interval * m

OnGrid(s) ==
  /\ \A k \in 1..Len(s) : OnInterval(s[k].time)
  /\ \A k \in 2..Len(s) : s[k].time # s[k - 1].time

Rising(s) == \A k \in 2..Len(s) : s[k - 1].time < s[k].time

Ordered(s) ==
  /\ \A k \in 1..Len(s) : 0 <= s[k].time
  /\ \A k \in 2..Len(s) : s[k - 1].time <= s[k].time

LEMMA SnapshotFields ==
  /\ \A pt \in Snapshots : pt.time \in Int /\ pt.points \in Int /\ pt.diff \in Int
  /\ \A t, p \in Int : Snapshot(t, p) \in Snapshots /\ Snapshot(t, p).time = t
BY DEF Snapshots, Snapshot

LEMMA AlignTakes ==
  ASSUME NEW acc \in Seq(Snapshots), OnGrid(acc), NEW pt \in Snapshots,
         NEW t, t = Intervals(pt.time) * Interval
  PROVE  LET next == AlignSample(acc, pt)
         IN /\ next \in Seq(Snapshots) /\ next # <<>> /\ OnGrid(next) /\ Last(next).time = t
            /\ (Rising(acc) /\ (acc # <<>> => Last(acc).time <= t)) => Rising(next)
<1>1. pt.time \in Int /\ pt.points \in Int
  BY SnapshotFields
<1>2. t \in Int /\ OnInterval(t)
  <2>1. Interval \in Int /\ \A x \in Int : Intervals(x) \in Int
    BY IntervalsInt, IntervalAssumption
  <2>2. Intervals(pt.time) \in Int
    BY <1>1, <2>1
  <2>3. t = Interval * Intervals(pt.time) /\ t \in Int
    <3> DEFINE m == Intervals(pt.time)
    <3>1. m \in Int /\ Interval \in Int /\ t = m * Interval
      BY <2>1, <2>2
    <3> HIDE DEF m
    <3>2. t = Interval * m /\ t \in Int
      BY <3>1
    <3>3. QED
      BY <3>2 DEF m
  <2>4. QED
    BY <2>2, <2>3 DEF OnInterval
<1>3. CASE acc # <<>> /\ Last(acc).time = t
  <2>1. AlignSample(acc, pt) = acc
    BY <1>3 DEF AlignSample
  <2>2. QED
    BY <1>3, <2>1
<1>4. CASE ~(acc # <<>> /\ Last(acc).time = t)
  <2> DEFINE new == Snapshot(t, pt.points)
             next == Append(acc, new)
  <2>1. AlignSample(acc, pt) = next
    BY <1>4 DEF AlignSample
  <2>2. new \in Snapshots /\ new.time = t
    BY <1>1, <1>2, SnapshotFields
  <2> HIDE DEF new
  <2>3. /\ next \in Seq(Snapshots) /\ Len(next) = Len(acc) + 1 /\ next # <<>>
        /\ next[Len(acc) + 1] = new /\ Len(acc) \in Nat
        /\ \A k \in 1..Len(acc) : next[k] = acc[k] /\ acc[k] \in Snapshots
    BY <2>2
  <2>4. acc = <<>> <=> Len(acc) = 0
    BY EmptySeq
  <2> HIDE DEF next
  <2>5. Last(next).time = t
    BY <2>2, <2>3 DEF Last
  <2>6. \A k \in 1..Len(next) : OnInterval(next[k].time)
    <3> TAKE k \in 1..Len(next)
    <3>1. CASE k \in 1..Len(acc)
      BY <2>3, <3>1 DEF OnGrid
    <3>2. CASE k = Len(acc) + 1
      BY <1>2, <2>2, <2>3, <3>2
    <3>3. QED
      BY <2>3, <3>1, <3>2
  <2>7. \A k \in 2..Len(next) : k \in 2..Len(acc) \/ (k = Len(acc) + 1 /\ Len(acc) > 0)
    BY <2>3
  <2>8. \A k \in 2..Len(acc) : k \in 1..Len(acc) /\ k - 1 \in 1..Len(acc)
    BY <2>3
  <2>9. ASSUME Len(acc) > 0
        PROVE  next[Len(acc)].time # t /\ next[Len(acc)] = Last(acc)
    BY <1>4, <2>3, <2>4, <2>9 DEF Last
  <2>10. \A k \in 2..Len(next) : next[k].time # next[k - 1].time
    <3> TAKE k \in 2..Len(next)
    <3>1. CASE k \in 2..Len(acc)
      BY <2>3, <2>8, <3>1 DEF OnGrid
    <3>2. CASE k = Len(acc) + 1 /\ Len(acc) > 0
      <4>1. k - 1 = Len(acc)
        BY <2>3, <3>2
      <4>2. QED
        BY <2>2, <2>3, <2>9, <3>2, <4>1
    <3>3. QED
      BY <2>7, <3>1, <3>2
  <2>11. ASSUME Rising(acc), acc # <<>> => Last(acc).time <= t
         PROVE  Rising(next)
    <3>1. ASSUME NEW k \in 2..Len(next)
          PROVE  next[k - 1].time < next[k].time
      <4>1. CASE k \in 2..Len(acc)
        BY <2>3, <2>8, <2>11, <4>1 DEF Rising
      <4>2. CASE k = Len(acc) + 1 /\ Len(acc) > 0
        <5>1. k - 1 = Len(acc) /\ Len(acc) \in 1..Len(acc)
          BY <2>3, <4>2
        <5>2. next[Len(acc)].time <= t /\ next[Len(acc)].time # t
          BY <2>4, <2>9, <2>11, <4>2
        <5>3. next[Len(acc)].time \in Int
          BY <2>3, <5>1, SnapshotFields
        <5>4. QED
          BY <1>2, <2>2, <2>3, <4>2, <5>1, <5>2, <5>3
      <4>3. QED
        BY <2>7, <4>1, <4>2
    <3>2. QED
      BY <3>1 DEF Rising
  <2>12. QED
    BY <2>1, <2>3, <2>5, <2>6, <2>10, <2>11 DEF OnGrid
<1>5. QED
  BY <1>3, <1>4

LEMMA AlignSpaced ==
  ASSUME NEW s \in Seq(Snapshots), s # <<>>
  PROVE  LET a == AlignSequence(s)
         IN a \in Seq(Snapshots) /\ a # <<>> /\ OnGrid(a) /\ (Ordered(s) => Rising(a))
<1> DEFINE n == Len(s)
<1>1. PICK h : Loop(h, "align", Kept, s) /\ AlignSequence(s) = h[Len(s)]
  BY AlignIsBuilt, LoopExists
<1>2. n \in Nat /\ n >= 1 /\ \A k \in 1..n : s[k] \in Snapshots /\ s[k].time \in Int
  BY EmptySeq, SnapshotFields
<1> DEFINE t(k) == Intervals(s[k].time) * Interval
           Good(k) == /\ h[k] \in Seq(Snapshots) /\ OnGrid(h[k])
                      /\ k > 0 => h[k] # <<>> /\ Last(h[k]).time = t(k)
                      /\ k = 0 => h[k] = <<>>
                      /\ Ordered(s) => Rising(h[k])
           G == {k \in 0..n : Good(k)}
<1>3. 0 \in G
  <2>1. h[0] = <<>>
    BY <1>1 DEF Loop
  <2>2. <<>> \in Seq(Snapshots) /\ OnGrid(<<>>) /\ Rising(<<>>)
    BY EmptySeq DEF OnGrid, Rising
  <2>3. Good(0)
    BY <2>1, <2>2
  <2>4. QED
    BY <1>2, <2>3
<1>4. ASSUME NEW k \in 1..n, k - 1 \in G
      PROVE  k \in G
  <2> DEFINE acc == h[k - 1]
             pt == s[k]
  <2>1. Good(k - 1) /\ k - 1 \in 0..n /\ k \in 0..n
    BY <1>4
  <2>2. acc \in Seq(Snapshots) /\ OnGrid(acc) /\ pt \in Snapshots
    BY <1>2, <2>1
  <2>3. h[k] = AlignSample(acc, pt)
    BY <1>1 DEF Loop, Taken
  <2>4. ASSUME Ordered(s)
        PROVE  Rising(acc) /\ (acc # <<>> => Last(acc).time <= t(k))
    <3>1. Rising(acc)
      BY <2>1, <2>4
    <3>2. ASSUME acc # <<>>
          PROVE  Last(acc).time <= t(k)
      <4>1. k - 1 > 0 /\ Last(acc).time = t(k - 1)
        BY <1>2, <2>1, <3>2
      <4>2. k \in 2..n /\ k - 1 \in 1..n
        BY <4>1
      <4>3. 0 <= s[k - 1].time /\ s[k - 1].time <= s[k].time
        BY <2>4, <4>2 DEF Ordered
      <4>4. Intervals(s[k - 1].time) <= Intervals(s[k].time)
        BY <1>2, <4>2, <4>3, IntervalsRise
      <4>5. Intervals(s[k - 1].time) \in Int /\ Intervals(s[k].time) \in Int
        BY <1>2, <4>2, IntervalsInt
      <4>6. t(k - 1) <= t(k)
        BY <4>4, <4>5, ProductGrows, IntervalAssumption
      <4>7. QED
        BY <4>1, <4>6
    <3>3. QED
      BY <3>1, <3>2
  <2> HIDE DEF acc, pt
  <2> DEFINE next == AlignSample(acc, pt)
             time == Intervals(pt.time) * Interval
  <2>5. /\ next \in Seq(Snapshots) /\ next # <<>> /\ OnGrid(next) /\ Last(next).time = time
        /\ (Rising(acc) /\ (acc # <<>> => Last(acc).time <= time)) => Rising(next)
    BY <2>2, AlignTakes
  <2> HIDE DEF next
  <2>6. t(k) = time /\ h[k] = next
    BY <2>3 DEF pt, next
  <2>7. Good(k)
    BY <2>4, <2>5, <2>6
  <2>8. QED
    BY <2>1, <2>7
<1> HIDE DEF G
<1>5. \A k \in 0..n : k \in G
  BY <1>2, <1>3, <1>4, CountInduction
<1>6. Good(n) /\ n > 0
  BY <1>2, <1>5 DEF G
<1>7. QED
  BY <1>1, <1>6

-----------------------------------------------------------------------------
(* InterpolateSequence: two samples in a row are an interval apart or too  *)
(* far apart to be connected; only a graph that goes back in time has      *)
(* steps that do.                                                          *)
Joins(d, forward) == d = Interval \/ d > MaxGap \/ (~forward /\ d < 0)

Joined(s, forward) == \A k \in 2..Len(s) : Joins(s[k].time - s[k - 1].time, forward)

\* The number of intervals is never zero, so the division is defined.
LEMMA GapOfSamples ==
  ASSUME NEW a \in Snapshots, NEW b \in Snapshots, OnInterval(a.time), OnInterval(b.time),
         b.time # a.time
  PROVE  /\ Gap(a, b) \in Int /\ Gap(a, b) # 0
         /\ IF b.time - a.time > MaxGap THEN Gap(a, b) = 1
            ELSE b.time - a.time = Interval * Gap(a, b)
<1>1. PICK m \in Int, n \in Int : a.time = Interval * m /\ b.time = Interval * n
  BY DEF OnInterval
<1>2. Interval \in Int /\ Interval > 0
  BY IntervalAssumption
<1>3. b.time - a.time = Interval * (n - m) /\ n - m \in Int
  BY <1>1, <1>2
<1>4. n - m # 0
  BY <1>1
<1>5. Intervals(b.time - a.time) = n - m
  BY <1>3, IntervalsOfMultiple
<1>6. QED
  BY <1>3, <1>4, <1>5 DEF Gap

LEMMA TruncateInt ==
  ASSUME NEW a \in Int, NEW b \in Int, b # 0
  PROVE  Truncate(a, b) \in Int
<1>1. Abs(a) \in Int /\ Abs(b) \in Int /\ Abs(b) > 0
  BY DEF Abs
<1>2. Abs(a) \div Abs(b) \in Int
  BY <1>1, QuotientIs
<1>3. QED
  BY <1>2 DEF Truncate

LEMMA BetweenSamples ==
  ASSUME NEW a \in Snapshots, NEW b \in Snapshots, OnInterval(a.time), OnInterval(b.time),
         b.time # a.time, NEW room, NEW stale \in Snapshots
  PROVE  /\ Between(a, b, room, stale) \in Seq(Snapshots)
         /\ Len(Between(a, b, room, stale)) = IF Gap(a, b) > 1 THEN Gap(a, b) - 1 ELSE 0
         /\ stale = a => \A k \in 1..Len(Between(a, b, room, stale)) :
                           Between(a, b, room, stale)[k].time = a.time + Interval * k
<1> DEFINE g == Gap(a, b)
           step == Truncate(b.points - a.points, g)
           n == IF g > 1 THEN g - 1 ELSE 0
           last(k) == IF k <= room + 1 THEN a ELSE stale
           Sample(k) == Snapshot(last(k).time + Interval * k, last(k).points + step * k)
           mid == [k \in 1..n |-> Sample(k)]
<1>1. g \in Int /\ g # 0
  BY GapOfSamples
<1>2. a.points \in Int /\ b.points \in Int /\ Interval \in Int
  BY SnapshotFields, IntervalAssumption
<1>3. step \in Int
  <2> HIDE DEF g
  <2>1. b.points - a.points \in Int
    BY <1>2
  <2>2. QED
    BY <1>1, <2>1, TruncateInt
<1> HIDE DEF step
<1>4. ASSUME NEW k \in Int
      PROVE  Sample(k) \in Snapshots /\ (stale = a => Sample(k).time = a.time + Interval * k)
  <2>1. last(k) \in Snapshots /\ (stale = a => last(k) = a)
    OBVIOUS
  <2> HIDE DEF last
  <2>2. last(k).time \in Int /\ last(k).points \in Int
    BY <2>1, SnapshotFields
  <2>3. last(k).time + Interval * k \in Int /\ last(k).points + step * k \in Int
    BY <1>2, <1>3, <2>2
  <2>4. QED
    BY <2>1, <2>3, SnapshotFields
<1>5. 1..(g - 1) = 1..n /\ n \in Nat
  BY <1>1
<1>6. Between(a, b, room, stale) = mid
  <2>1. Between(a, b, room, stale) = [k \in 1..(g - 1) |-> Sample(k)]
    BY DEF Between, step
  <2> HIDE DEF g, n, Sample
  <2>2. QED
    BY <1>5, <2>1
<1> HIDE DEF n, Sample
<1>7. mid \in Seq(Snapshots) /\ Len(mid) = n /\ \A k \in 1..n : mid[k] = Sample(k)
  BY <1>4, <1>5
<1>8. stale = a => \A k \in 1..n : mid[k].time = a.time + Interval * k
  BY <1>4, <1>5, <1>7
<1> HIDE DEF mid
<1>9. QED
  BY <1>6, <1>7, <1>8 DEF n

LEMMA InterpolateTakes ==
  ASSUME NEW acc \in Seq(Snapshots), acc # <<>>, NEW pt \in Snapshots, NEW forward \in BOOLEAN,
         OnInterval(Last(acc).time), OnInterval(pt.time),
         pt.time # Last(acc).time, forward => Last(acc).time < pt.time,
         NEW s, NEW freed, \A k \in DOMAIN freed : freed[k] \in Snapshots,
         freed = Kept => Joined(acc, forward)
  PROVE  LET next == InterpolateSample(acc, pt, s, freed)
         IN /\ next \in Seq(Snapshots) /\ next # <<>> /\ Last(next) = pt
            /\ freed = Kept => Joined(next, forward)
<1> DEFINE a == Last(acc)
           stale == IF Len(acc) \in DOMAIN freed THEN freed[Len(acc)] ELSE a
           room == Capacity(Len(s), Len(acc)) - Len(acc)
           mid == Between(a, pt, room, stale)
           next == (acc \o mid) \o <<pt>>
           n == Len(acc)
           m == Len(mid)
<1>1. InterpolateSample(acc, pt, s, freed) = next
  BY DEF InterpolateSample
<1>2. n \in Nat /\ n > 0 /\ a = acc[n] /\ a \in Snapshots
  <2>1. n \in Nat /\ n # 0
    BY EmptySeq
  <2>2. QED
    BY <2>1 DEF Last
<1>3. a.time \in Int /\ pt.time \in Int /\ Interval \in Int /\ Interval > 0 /\ MaxGap \in Int
  BY <1>2, SnapshotFields, IntervalAssumption
<1> DEFINE g == Gap(a, pt)
<1>4. /\ g \in Int /\ g # 0
      /\ IF pt.time - a.time > MaxGap THEN g = 1 ELSE pt.time - a.time = Interval * g
  BY <1>2, GapOfSamples
<1>5. /\ mid \in Seq(Snapshots) /\ m = (IF g > 1 THEN g - 1 ELSE 0)
      /\ freed = Kept => \A k \in 1..m : mid[k].time = a.time + Interval * k
  <2>1. stale \in Snapshots
    BY <1>2
  <2>2. freed = Kept => stale = a
    BY DEF Kept
  <2> HIDE DEF stale, room
  <2>3. QED
    BY <1>2, <2>1, <2>2, BetweenSamples
<1> HIDE DEF a, mid, g, stale, room
<1>6. m \in Nat
  BY <1>5
<1>7. /\ next \in Seq(Snapshots) /\ Len(next) = n + m + 1
      /\ \A k \in 1..n : next[k] = acc[k] /\ acc[k] \in Snapshots
      /\ \A k \in 1..m : next[n + k] = mid[k] /\ mid[k] \in Snapshots
      /\ next[n + m + 1] = pt
  <2>1. acc \o mid \in Seq(Snapshots) /\ Len(acc \o mid) = n + m
        /\ \A k \in 1..(n + m) : (acc \o mid)[k] = IF k <= n THEN acc[k] ELSE mid[k - n]
    BY <1>5
  <2>2. /\ next \in Seq(Snapshots) /\ Len(next) = n + m + 1 /\ next[n + m + 1] = pt
        /\ \A k \in 1..(n + m) : next[k] = (acc \o mid)[k]
    <3> DEFINE front == acc \o mid
    <3>1. front \in Seq(Snapshots) /\ Len(front) = n + m
      BY <2>1
    <3> HIDE DEF front, n, m
    <3> DEFINE one == <<pt>>
               f == Len(front)
    <3>2. one \in Seq(Snapshots) /\ Len(one) = 1 /\ one[1] = pt /\ f \in Nat
      BY <3>1
    <3> HIDE DEF one
    <3>3. front \o one \in Seq(Snapshots) /\ Len(front \o one) = f + 1
          /\ \A k \in 1..(f + 1) : (front \o one)[k] = IF k <= f THEN front[k] ELSE one[k - f]
      <4>1. /\ front \o one \in Seq(Snapshots) /\ Len(front \o one) = Len(front) + Len(one)
            /\ \A k \in 1..(Len(front) + Len(one)) :
                  (front \o one)[k] = IF k <= Len(front) THEN front[k] ELSE one[k - Len(front)]
        BY <3>1, <3>2, ConcatProperties, Zenon
      <4>2. QED
        BY <3>2, <4>1
    <3>4. (front \o one)[f + 1] = pt /\ \A k \in 1..f : (front \o one)[k] = front[k]
      BY <3>2, <3>3
    <3>5. QED
      BY <3>1, <3>3, <3>4 DEF front, one
  <2>3. \A k \in 1..n : k \in 1..(n + m) /\ k <= n
    BY <1>2, <1>6
  <2>4. \A k \in 1..m : n + k \in 1..(n + m) /\ ~(n + k <= n) /\ (n + k) - n = k
    BY <1>2, <1>6
  <2> HIDE DEF next, n, m
  <2>5. \A k \in 1..n : next[k] = acc[k]
    BY <2>1, <2>2, <2>3
  <2>6. \A k \in 1..m : next[n + k] = mid[k]
    BY <2>1, <2>2, <2>4
  <2>7. (\A k \in 1..n : acc[k] \in Snapshots) /\ (\A k \in 1..m : mid[k] \in Snapshots)
    BY <1>5 DEF n, m
  <2>8. QED
    BY <2>2, <2>5, <2>6, <2>7
<1> HIDE DEF next
<1>8. next # <<>> /\ Last(next) = pt
  BY <1>2, <1>6, <1>7, EmptySeq DEF Last
<1>9. ASSUME freed = Kept, NEW k \in 2..Len(next)
      PROVE  Joins(next[k].time - next[k - 1].time, forward)
  <2>1. CASE k \in 2..n
    <3>1. k \in 1..n /\ k - 1 \in 1..n
      BY <1>2, <2>1
    <3>2. QED
      BY <1>7, <1>9, <2>1, <3>1 DEF Joined
  <2>2. CASE \E j \in 1..m : k = n + j
    <3>1. PICK j \in 1..m : k = n + j
      BY <2>2
    <3>2. next[k].time = a.time + Interval * j
      BY <1>5, <1>7, <1>9, <3>1
    <3>3. next[k - 1].time = a.time + Interval * (j - 1)
      <4>1. CASE j = 1
        <5>1. k - 1 = n /\ n \in 1..n /\ j - 1 = 0
          BY <1>2, <3>1, <4>1
        <5>2. next[k - 1].time = a.time
          BY <1>2, <1>7, <5>1
        <5>3. a.time = a.time + Interval * 0
          BY <1>3
        <5>4. QED
          BY <5>1, <5>2, <5>3
      <4>2. CASE j # 1
        <5>1. j - 1 \in 1..m /\ k - 1 = n + (j - 1)
          BY <1>2, <1>6, <3>1, <4>2
        <5>2. QED
          BY <1>5, <1>7, <1>9, <5>1
      <4>3. QED
        BY <4>1, <4>2
    <3>4. Interval * j - Interval * (j - 1) = Interval
      BY <1>3, <1>6, <3>1
    <3>5. Interval * j \in Int /\ Interval * (j - 1) \in Int
      BY <1>3, <1>6, <3>1
    <3>6. next[k].time - next[k - 1].time = Interval
      BY <1>3, <3>2, <3>3, <3>4, <3>5
    <3>7. QED
      BY <3>6 DEF Joins
  <2>3. CASE k = n + m + 1
    <3>1. next[k] = pt
      BY <1>7, <2>3
    <3>2. next[k - 1].time = a.time + Interval * m
      <4>1. CASE m = 0
        <5>1. k - 1 = n /\ n \in 1..n
          BY <1>2, <2>3, <4>1
        <5>2. QED
          BY <1>2, <1>3, <1>7, <4>1, <5>1
      <4>2. CASE m # 0
        <5>1. m \in 1..m /\ k - 1 = n + m
          BY <1>2, <1>6, <2>3, <4>2
        <5>2. QED
          BY <1>5, <1>7, <1>9, <5>1
      <4>3. QED
        BY <4>1, <4>2
    <3>3. CASE pt.time - a.time > MaxGap
      <4>1. m = 0
        BY <1>4, <1>5, <3>3
      <4>2. next[k].time - next[k - 1].time = pt.time - a.time
        BY <1>3, <3>1, <3>2, <4>1
      <4>3. QED
        BY <3>3, <4>2 DEF Joins
    <3>4. CASE ~(pt.time - a.time > MaxGap) /\ g >= 1
      <4>1. m = g - 1 /\ pt.time - a.time = Interval * g
        BY <1>4, <1>5, <3>4
      <4>2. Interval * g - Interval * (g - 1) = Interval
        BY <1>3, <1>4
      <4>3. Interval * g \in Int /\ Interval * (g - 1) \in Int
        BY <1>3, <1>4
      <4>4. next[k].time - next[k - 1].time = Interval
        <5> DEFINE x == Interval * g
                   y == Interval * (g - 1)
        <5>1. x \in Int /\ y \in Int /\ x - y = Interval /\ pt.time - a.time = x
          BY <4>1, <4>2, <4>3
        <5>2. next[k - 1].time = a.time + y
          BY <3>2, <4>1
        <5> HIDE DEF x, y
        <5>3. next[k].time - next[k - 1].time = pt.time - (a.time + y)
          BY <3>1, <5>2
        <5>4. pt.time - (a.time + y) = (pt.time - a.time) - y
          BY <1>3, <5>1
        <5>5. QED
          BY <5>1, <5>3, <5>4
      <4>5. QED
        BY <4>4 DEF Joins
    <3>5. CASE ~(pt.time - a.time > MaxGap) /\ g < 1
      <4>1. m = 0 /\ g < 0 /\ pt.time - a.time = Interval * g
        BY <1>4, <1>5, <3>5
      <4>2. Interval * g < 0
        BY <1>3, <1>4, <4>1
      <4>3. next[k].time - next[k - 1].time = pt.time - a.time
        BY <1>3, <3>1, <3>2, <4>1
      <4>4. pt.time - a.time < 0 /\ ~forward
        BY <1>3, <4>1, <4>2 DEF a
      <4>5. QED
        BY <4>3, <4>4 DEF Joins
    <3>6. QED
      BY <1>4, <3>3, <3>4, <3>5
  <2>4. k \in 2..n \/ (\E j \in 1..m : k = n + j) \/ k = n + m + 1
    <3>1. k \in 2..(n + m + 1) /\ k \in Int
      BY <1>2, <1>6, <1>7
    <3>2. CASE k > n /\ k <= n + m
      <4>1. k - n \in 1..m /\ k = n + (k - n)
        BY <1>2, <1>6, <3>1, <3>2
      <4>2. QED
        BY <4>1
    <3>3. CASE k <= n
      <4>1. k \in 2..n
        BY <1>2, <3>1, <3>3
      <4>2. QED
        BY <4>1
    <3>4. CASE k > n + m
      <4>1. k = n + m + 1
        BY <1>2, <1>6, <3>1, <3>4
      <4>2. QED
        BY <4>1
    <3>5. (k > n /\ k <= n + m) \/ k <= n \/ k > n + m
      BY <1>2, <1>6, <3>1
    <3>6. QED
      BY <3>2, <3>3, <3>4, <3>5
  <2>5. QED
    BY <2>1, <2>2, <2>3, <2>4
<1>10. QED
  BY <1>1, <1>7, <1>8, <1>9 DEF Joined

LEMMA InterpolateSpaced ==
  ASSUME NEW s \in Seq(Snapshots), s # <<>>, OnGrid(s),
         NEW forward \in BOOLEAN, forward => Rising(s),
         NEW freed, \A k \in DOMAIN freed : freed[k] \in Snapshots
  PROVE  /\ InterpolateSequence(s, freed) \in Seq(Snapshots)
         /\ freed = Kept => Joined(InterpolateSequence(s, freed), forward)
<1> DEFINE n == Len(s)
<1>1. PICK h : Loop(h, "interpolate", freed, s) /\ InterpolateSequence(s, freed) = h[Len(s)]
  BY InterpolateIsBuilt, LoopExists
<1>2. n \in Nat /\ n >= 1 /\ \A k \in 1..n : s[k] \in Snapshots
  BY EmptySeq
<1>3. \A k \in 1..n : h[k] = InterpolateSample(h[k - 1], s[k], s, freed)
  BY <1>1 DEF Loop, Taken
<1> DEFINE Good(k) == /\ h[k] \in Seq(Snapshots) /\ h[k] # <<>> /\ Last(h[k]) = s[k]
                      /\ freed = Kept => Joined(h[k], forward)
           G == {k \in 1..n : Good(k)}
<1>4. 1 \in G
  <2>1. h[1] = InterpolateSample(h[0], s[1], s, freed) /\ h[0] = <<>> /\ 1 \in 1..n
    BY <1>1, <1>2, <1>3 DEF Loop
  <2>2. h[1] = <<s[1]>>
    BY <2>1 DEF InterpolateSample
  <2>3. s[1] \in Snapshots
    BY <1>2, <2>1
  <2>4. <<s[1]>> \in Seq(Snapshots) /\ <<s[1]>> # <<>> /\ Len(<<s[1]>>) = 1 /\ <<s[1]>>[1] = s[1]
    BY <2>3
  <2>5. Last(h[1]) = s[1] /\ Joined(h[1], forward)
    BY <2>2, <2>4 DEF Last, Joined
  <2>6. Good(1)
    BY <2>2, <2>4, <2>5
  <2>7. QED
    BY <2>1, <2>6
<1>5. ASSUME NEW k \in (1 + 1)..n, k - 1 \in G
      PROVE  k \in G
  <2> DEFINE acc == h[k - 1]
             pt == s[k]
  <2>1. k \in 1..n /\ k - 1 \in 1..n /\ k \in 2..n /\ Good(k - 1)
    BY <1>5
  <2>2. /\ acc \in Seq(Snapshots) /\ acc # <<>> /\ Last(acc) = s[k - 1]
        /\ freed = Kept => Joined(acc, forward)
        /\ pt \in Snapshots
    BY <1>2, <2>1
  <2>3. OnInterval(s[k - 1].time) /\ OnInterval(s[k].time) /\ s[k].time # s[k - 1].time
    BY <2>1 DEF OnGrid
  <2>4. forward => s[k - 1].time < s[k].time
    BY <2>1 DEF Rising
  <2>5. h[k] = InterpolateSample(acc, pt, s, freed)
    BY <1>3, <2>1
  <2>6. /\ OnInterval(Last(acc).time) /\ OnInterval(pt.time) /\ pt.time # Last(acc).time
        /\ forward => Last(acc).time < pt.time
    BY <2>2, <2>3, <2>4
  <2> HIDE DEF acc, pt
  <2> DEFINE next == InterpolateSample(acc, pt, s, freed)
  <2>7. /\ next \in Seq(Snapshots) /\ next # <<>> /\ Last(next) = pt
        /\ freed = Kept => Joined(next, forward)
    BY <2>2, <2>6, InterpolateTakes
  <2> HIDE DEF next
  <2>8. h[k] = next /\ pt = s[k]
    BY <2>5 DEF next, pt
  <2>9. Good(k)
    BY <2>7, <2>8
  <2>10. QED
    BY <2>1, <2>9
<1> HIDE DEF G
<1>6. \A k \in 1..n : k \in G
  <2> DEFINE a == 1
  <2>1. a \in Int /\ n \in Int /\ a \in G /\ \A k \in (a + 1)..n : k - 1 \in G => k \in G
    BY <1>2, <1>4, <1>5
  <2>2. \A k \in a..n : k \in G
    <3> HIDE DEF a, n
    <3>1. QED
      BY <2>1, IntervalInduction
  <2>3. QED
    BY <2>2
<1>7. n \in G
  BY <1>2, <1>6
<1>8. h[n] \in Seq(Snapshots) /\ (freed = Kept => Joined(h[n], forward))
  BY <1>7 DEF G
<1>9. QED
  BY <1>1, <1>8

\* What ProcessSequence makes of the samples of a graph.
LEMMA ProcessedSamples ==
  ASSUME NEW s \in Seq(Snapshots), s # <<>>,
         NEW freed, \A k \in DOMAIN freed : freed[k] \in Snapshots
  PROVE  /\ ProcessSequence(s, freed) \in Seq(Snapshots)
         /\ freed = Kept => /\ Joined(ProcessSequence(s, freed), FALSE)
                            /\ Ordered(s) => Joined(ProcessSequence(s, freed), TRUE)
<1> DEFINE a == AlignSequence(s)
           p == InterpolateSequence(a, freed)
           q == ProcessSequence(s, freed)
           Near(k) == k > 1 /\ p[k].time - p[k - 1].time <= MaxGap
           Sample(k) == IF Near(k) THEN [p[k] EXCEPT !.diff = p[k].points - p[k - 1].points] ELSE p[k]
<1>1. a \in Seq(Snapshots) /\ a # <<>> /\ OnGrid(a) /\ (Ordered(s) => Rising(a))
  BY AlignSpaced
<1>2. p \in Seq(Snapshots) /\ (freed = Kept => Joined(p, FALSE))
  <2> HIDE DEF a
  <2>1. FALSE \in BOOLEAN /\ (FALSE => Rising(a))
    OBVIOUS
  <2>2. QED
    BY <1>1, <2>1, InterpolateSpaced
<1>3. freed = Kept /\ Ordered(s) => Joined(p, TRUE)
  <2> HIDE DEF a
  <2>1. QED
    BY <1>1, InterpolateSpaced
<1>4. q = [k \in 1..Len(p) |-> Sample(k)]
  BY DEF ProcessSequence
<1> HIDE DEF p, q
<1>5. ASSUME NEW k \in 1..Len(p)
      PROVE  Sample(k) \in Snapshots /\ Sample(k).time = p[k].time
  <2>1. p[k] \in Snapshots
    BY <1>2
  <2>2. CASE Near(k)
    <3>1. k - 1 \in 1..Len(p)
      BY <1>2, <2>2
    <3>2. p[k - 1] \in Snapshots
      BY <1>2, <3>1
    <3>3. p[k].points - p[k - 1].points \in Int
      BY <2>1, <3>2, SnapshotFields
    <3>4. Sample(k) = [p[k] EXCEPT !.diff = p[k].points - p[k - 1].points]
      BY <2>2
    <3>5. QED
      BY <2>1, <3>3, <3>4 DEF Snapshots
  <2>3. CASE ~Near(k)
    BY <2>1, <2>3
  <2>4. QED
    BY <2>2, <2>3
<1> HIDE DEF Sample
<1>6. q \in Seq(Snapshots) /\ Len(q) = Len(p) /\ \A k \in 1..Len(p) : q[k].time = p[k].time
  BY <1>2, <1>4, <1>5
<1>7. ASSUME NEW forward \in BOOLEAN, Joined(p, forward)
      PROVE  Joined(q, forward)
  <2>1. \A k \in 2..Len(p) : k \in 1..Len(p) /\ k - 1 \in 1..Len(p)
    BY <1>2
  <2>2. QED
    BY <1>6, <1>7, <2>1 DEF Joined
<1>8. QED
  BY <1>2, <1>3, <1>6, <1>7 DEF q

\* The samples of a valid graph.
LEMMA GraphSamples ==
  ASSUME NEW g, ValidGraph(g), g.timestamps \in Seq(Int), g.points \in Seq(Int)
  PROVE  /\ CreateSequence(g) \in Seq(Snapshots) /\ CreateSequence(g) # <<>>
         /\ (\A a, b \in DOMAIN g.timestamps : a <= b => g.timestamps[a] <= g.timestamps[b])
               => Ordered(CreateSequence(g))
<1> DEFINE ts == g.timestamps
           ps == g.points
           n == Len(ts)
           Sample(k) == Snapshot(ts[k] - ts[1], ps[k])
           s == [k \in 1..n |-> Sample(k)]
<1>1. CreateSequence(g) = s
  BY DEF CreateSequence
<1>2. n \in Nat /\ n >= 1 /\ Len(ps) = n /\ DOMAIN ts = 1..n
      /\ \A k \in 1..n : ts[k] \in Int /\ ps[k] \in Int
  BY EmptySeq DEF ValidGraph
<1>3. \A k \in 1..n : Sample(k) \in Snapshots /\ Sample(k).time = ts[k] - ts[1]
  <2> TAKE k \in 1..n
  <2>1. 1 \in 1..n
    BY <1>2
  <2>2. ts[k] - ts[1] \in Int /\ ps[k] \in Int
    BY <1>2, <2>1
  <2>3. QED
    BY <2>2, SnapshotFields
<1> HIDE DEF Sample
<1>4. s \in Seq(Snapshots) /\ Len(s) = n /\ \A k \in 1..n : s[k].time = ts[k] - ts[1]
  BY <1>2, <1>3
<1> HIDE DEF s
<1>5. s # <<>>
  BY <1>2, <1>4, EmptySeq
<1>6. ASSUME \A a, b \in DOMAIN ts : a <= b => ts[a] <= ts[b]
      PROVE  Ordered(s)
  <2>1. ASSUME NEW k \in 1..n PROVE 0 <= s[k].time
    <3>1. 1 \in 1..n /\ 1 <= k
      BY <1>2
    <3>2. ts[1] <= ts[k] /\ ts[1] \in Int /\ ts[k] \in Int
      BY <1>2, <1>6, <3>1
    <3>3. QED
      BY <1>4, <3>2
  <2>2. ASSUME NEW k \in 2..n PROVE s[k - 1].time <= s[k].time
    <3>1. 1 \in 1..n /\ k \in 1..n /\ k - 1 \in 1..n /\ k - 1 <= k
      BY <1>2
    <3>2. ts[k - 1] <= ts[k] /\ ts[k - 1] \in Int /\ ts[k] \in Int /\ ts[1] \in Int
      BY <1>2, <1>6, <3>1
    <3>3. s[k - 1].time = ts[k - 1] - ts[1] /\ s[k].time = ts[k] - ts[1]
      BY <1>4, <3>1
    <3>4. QED
      BY <3>2, <3>3
  <2>3. QED
    BY <1>4, <2>1, <2>2 DEF Ordered
<1>7. QED
  BY <1>1, <1>4, <1>5, <1>6

\* The samples of the request.
LEMMA RequestSamples ==
  ASSUME input \in Inputs, ValidGraph(ReadGraph(input)),
         NEW freed, \A k \in DOMAIN freed : freed[k] \in Snapshots
  PROVE  /\ Samples(freed) \in Seq(Snapshots)
         /\ freed = Kept => Joined(Samples(freed), FALSE) /\ (InOrder => Joined(Samples(freed), TRUE))
<1> DEFINE g == ReadGraph(input)
<1>1. ValidGraph(g) /\ g.timestamps \in Seq(Int) /\ g.points \in Seq(Int)
  BY InputsAssumption
<1>2. InOrder => \A a, b \in DOMAIN g.timestamps : a <= b => g.timestamps[a] <= g.timestamps[b]
  BY DEF InOrder
<1> HIDE DEF g
<1> DEFINE s == CreateSequence(g)
<1>3. s \in Seq(Snapshots) /\ s # <<>> /\ (InOrder => Ordered(s))
  BY <1>1, <1>2, GraphSamples
<1> HIDE DEF s
<1>4. /\ ProcessSequence(s, freed) \in Seq(Snapshots)
      /\ freed = Kept => /\ Joined(ProcessSequence(s, freed), FALSE)
                         /\ Ordered(s) => Joined(ProcessSequence(s, freed), TRUE)
  BY <1>3, ProcessedSamples
<1>5. Samples(freed) = ProcessSequence(s, freed)
  BY DEF Samples, s, g
<1>6. QED
  BY <1>3, <1>4, <1>5

\* What a freed block may hold are samples.
LEMMA FreedSamples ==
  /\ \A freed \in FreedBlocks : \A k \in DOMAIN freed : freed[k] \in Snapshots
  /\ \A k \in DOMAIN Kept : Kept[k] \in Snapshots
BY FreedAssumption DEF Kept

-----------------------------------------------------------------------------
(* The lists of segments. *)

\* A longer list of spans whose new last span follows on.
Follows(end, start) == start = end \/ (start = end + 1 /\ ~Connected(start))

InSamples(r) == 1 <= r.from /\ r.from <= r.to /\ r.to <= Len(seq)

Tiles(list) ==
    /\ \A n \in DOMAIN list : InSamples(list[n])
    /\ list # <<>> => list[1].from = 1
    /\ \A n \in 2..Len(list) : Follows(list[n - 1].to, list[n].from)

ContinuesLast(list, start) ==
    IF list = <<>> THEN start = 1 ELSE Follows(list[Len(list)].to, start)

Rises(list) ==
    /\ \A n \in 2..Len(list) : list[n - 1].from <= list[n].from
    /\ \A n \in 3..Len(list) : list[n].from > list[n - 2].from

\* A run at start with the minimal length min may follow the list.
Above(list, start, min) ==
    /\ list # <<>> => list[Len(list)].from <= start
    /\ list # <<>> /\ list[Len(list)].from = start => min > kDetectionDelay
    /\ Len(list) >= 2 /\ list[Len(list) - 1].from = list[Len(list)].from
          => list[Len(list)].from < start

LEMMA TilesIsTile ==
    SegmentsTile <=> Tiles(segments) /\ (stage \in {"classifying", "answered"} =>
        segments # <<>> /\ segments[Len(segments)].to = Len(seq))
BY DEF SegmentsTile, Tiles, Follows, InSamples

\* One more span keeps the list a tiling.
LEMMA AppendTiles ==
    ASSUME NEW list \in Seq(Spans), NEW r \in Spans,
           Tiles(list), InSamples(r), ContinuesLast(list, r.from)
    PROVE  /\ Append(list, r) \in Seq(Spans) /\ Append(list, r) # <<>>
           /\ Append(list, r)[Len(Append(list, r))] = r
           /\ Tiles(Append(list, r))
<1> DEFINE more == Append(list, r)
<1>1. /\ more \in Seq(Spans) /\ Len(more) = Len(list) + 1 /\ more # <<>>
      /\ more[Len(list) + 1] = r
      /\ \A n \in 1..Len(list) : more[n] = list[n]
      /\ DOMAIN more = 1..(Len(list) + 1) /\ DOMAIN list = 1..Len(list)
      /\ Len(list) \in Nat
  OBVIOUS
<1>2. list = <<>> <=> Len(list) = 0
  BY EmptySeq
<1>3. \A n \in DOMAIN more : InSamples(more[n])
  <2> TAKE n \in DOMAIN more
  <2>1. CASE n \in 1..Len(list)
    BY <1>1, <2>1 DEF Tiles
  <2>2. CASE n = Len(list) + 1
    BY <1>1, <2>2
  <2>3. QED
    BY <1>1, <2>1, <2>2
<1>4. more[1].from = 1
  <2>1. CASE Len(list) = 0
    BY <1>1, <1>2, <2>1 DEF ContinuesLast
  <2>2. CASE Len(list) > 0
    BY <1>1, <1>2, <2>2 DEF Tiles
  <2>3. QED
    BY <1>1, <2>1, <2>2
<1>5. \A n \in 2..Len(more) : Follows(more[n - 1].to, more[n].from)
  <2> TAKE n \in 2..Len(more)
  <2>1. CASE n \in 2..Len(list)
    <3>1. n - 1 \in 1..Len(list) /\ n \in 1..Len(list)
      BY <1>1, <2>1
    <3>2. QED
      BY <1>1, <2>1, <3>1 DEF Tiles
  <2>2. CASE n = Len(list) + 1
    <3>1. Len(list) > 0 /\ n - 1 = Len(list) /\ n - 1 \in 1..Len(list)
      BY <1>1, <2>2
    <3>2. QED
      BY <1>1, <1>2, <2>2, <3>1 DEF ContinuesLast
  <2>3. QED
    BY <1>1, <2>1, <2>2
<1>6. QED
  BY <1>1, <1>3, <1>4, <1>5 DEF Tiles

\* One more span keeps the starts rising, and what may follow it.
LEMMA AppendRises ==
    ASSUME NEW list \in Seq(Spans), NEW r \in Spans, NEW min \in Nat,
           Rises(list), Above(list, r.from, min)
    PROVE  /\ Rises(Append(list, r))
           /\ \A start \in Int, next \in Nat :
                 /\ r.from <= start
                 /\ r.from = start => next > kDetectionDelay /\ ~(min > kDetectionDelay)
                 => Above(Append(list, r), start, next)
<1> DEFINE more == Append(list, r)
<1>1. /\ Len(list) \in Nat /\ Len(more) = Len(list) + 1 /\ more # <<>>
      /\ more[Len(list) + 1] = r
      /\ \A n \in 1..Len(list) : more[n] = list[n] /\ list[n].from \in Int
      /\ r.from \in Int
  <2>1. /\ Len(list) \in Nat /\ Len(more) = Len(list) + 1 /\ more # <<>>
        /\ more[Len(list) + 1] = r
        /\ \A n \in 1..Len(list) : more[n] = list[n] /\ list[n] \in Spans
    OBVIOUS
  <2>2. \A q \in Spans : q.from \in Int
    BY DEF Spans
  <2>3. QED
    BY <2>1, <2>2
<1>2. list = <<>> <=> Len(list) = 0
  BY EmptySeq
<1> HIDE DEF more
<1>3. \A n \in 2..Len(more) : more[n - 1].from <= more[n].from
  <2> TAKE n \in 2..Len(more)
  <2>1. CASE n \in 2..Len(list)
    <3>1. n - 1 \in 1..Len(list) /\ n \in 1..Len(list)
      BY <1>1, <2>1
    <3>2. QED
      BY <1>1, <2>1, <3>1 DEF Rises
  <2>2. CASE n = Len(list) + 1
    <3>1. Len(list) > 0 /\ n - 1 = Len(list) /\ n - 1 \in 1..Len(list)
      BY <1>1, <2>2
    <3>2. QED
      BY <1>1, <1>2, <2>2, <3>1 DEF Above
  <2>3. QED
    BY <1>1, <2>1, <2>2
<1>4. \A n \in 3..Len(more) : more[n].from > more[n - 2].from
  <2> TAKE n \in 3..Len(more)
  <2>1. CASE n \in 3..Len(list)
    <3>1. n - 2 \in 1..Len(list) /\ n \in 1..Len(list)
      BY <1>1, <2>1
    <3>2. QED
      BY <1>1, <2>1, <3>1 DEF Rises
  <2>2. CASE n = Len(list) + 1
    <3>1. /\ Len(list) >= 2 /\ n - 2 = Len(list) - 1 /\ n - 2 \in 1..Len(list)
          /\ Len(list) \in 1..Len(list) /\ Len(list) \in 2..Len(list)
      BY <1>1, <2>2
    <3>2. list[Len(list) - 1].from <= list[Len(list)].from
      BY <3>1 DEF Rises
    <3>3. list[Len(list)].from <= r.from
      BY <1>2, <3>1 DEF Above
    <3>4. /\ list[Len(list) - 1].from \in Int /\ list[Len(list)].from \in Int
          /\ list[Len(list) - 1].from = list[Len(list)].from => list[Len(list)].from < r.from
      BY <1>1, <3>1 DEF Above
    <3>5. more[n - 2] = list[Len(list) - 1] /\ more[n] = r
      BY <1>1, <2>2, <3>1
    <3>6. QED
      BY <1>1, <3>2, <3>3, <3>4, <3>5
  <2>3. QED
    BY <1>1, <2>1, <2>2
<1>5. ASSUME NEW start \in Int, NEW next \in Nat, r.from <= start,
             r.from = start => next > kDetectionDelay /\ ~(min > kDetectionDelay)
      PROVE  Above(more, start, next)
  <2>1. more[Len(more)] = r
    BY <1>1
  <2>2. ASSUME Len(more) >= 2, more[Len(more) - 1].from = r.from
        PROVE  r.from < start
    <3>1. Len(list) \in 1..Len(list) /\ Len(more) - 1 = Len(list) /\ list # <<>>
      BY <1>1, <1>2, <2>2
    <3>2. list[Len(list)].from = r.from
      BY <1>1, <2>2, <3>1
    <3>3. min > kDetectionDelay
      BY <3>1, <3>2 DEF Above
    <3>4. QED
      BY <1>1, <1>5, <3>3
  <2>3. QED
    BY <1>5, <2>1, <2>2 DEF Above
<1>6. QED
  BY <1>3, <1>4, <1>5 DEF Rises, more

\* The parts of the invariant, with the tiling as a property of a list.
LEMMA InvParts ==
    SegmentationInv <=>
        /\ TypeOK /\ RunInv /\ TimeIsSplit /\ stage # "internal"
        /\ Tiles(segments) /\ Rises(segments)
        /\ stage \in {"classifying", "answered"} =>
              segments # <<>> /\ segments[Len(segments)].to = Len(seq)
BY TilesIsTile DEF SegmentationInv, StartsRise, NoThirdStart, Rises

\* RunInv with ContinuesLast for the run.
LEMMA RunContinues ==
    ASSUME RunInv, stage = "detecting"
    PROVE  ContinuesLast(segments, run.from) /\ Above(segments, run.from, minLength)
BY DEF RunInv, ContinuesLast, Follows, Above

LEMMA EmptyListTiles == Tiles(<<>>) /\ Rises(<<>>)
BY EmptySeq DEF Tiles, Rises

\* A tiling of the samples before a step that leaves them alone is one after it.
LEMMA TilesAfter ==
    ASSUME NEW list, segments' = list, seq' = seq, Tiles(list), Rises(list)
    PROVE  Tiles(segments)' /\ Rises(segments)'
BY DEF Rises, Tiles, Follows, Connected, InSamples

\* A finished segment and the start of the next run.
LEMMA ContinuesAfter ==
    ASSUME NEW list \in Seq(Spans), NEW start \in Int,
           segments' = list, seq' = seq, run'.from = start, ContinuesLast(list, start)
    PROVE  IF segments' = <<>> THEN run'.from = 1
           ELSE LET end == segments'[Len(segments')].to
                IN run'.from = end \/ (run'.from = end + 1 /\ ~Connected(run.from)')
BY DEF ContinuesLast, Follows, Connected

-----------------------------------------------------------------------------
\* What reading a sample knows.
LEMMA ReadingFacts ==
    ASSUME SegmentationInv, NEW verdict, Reading(verdict)
    PROVE  /\ stage = "detecting" /\ i \in Nat /\ i >= 1 /\ i <= Len(seq) /\ Len(seq) \in Nat
           /\ run \in Spans /\ run.from \in Int /\ run.to = i - 1 /\ 1 <= run.from /\ run.from <= i
           /\ run = Span(run.from, i - 1)
           /\ minLength \in Nat /\ minLength >= 2
           /\ segments \in Seq(Spans) /\ Tiles(segments) /\ ContinuesLast(segments, run.from)
           /\ Rises(segments) /\ Above(segments, run.from, minLength)
           /\ seq' = seq /\ totals' = totals /\ input' = input /\ analysed' = analysed
<1>1. stage = "detecting" /\ i <= Len(seq)
  BY DEF Reading
<1>2. TypeOK /\ RunInv /\ Tiles(segments) /\ Rises(segments)
  BY InvParts
<1>3. Len(seq) \in Nat
  BY <1>2 DEF TypeOK
<1>4. ContinuesLast(segments, run.from) /\ Above(segments, run.from, minLength)
  BY <1>1, <1>2, RunContinues
<1>5. run \in Spans /\ run = Span(run.from, i - 1)
  BY <1>1, <1>2 DEF TypeOK, RunInv, Spans, Span
<1>6. QED
  BY <1>1, <1>2, <1>3, <1>4, <1>5 DEF TypeOK, RunInv, Spans, Reading

\* InvParts after a step.
LEMMA InvPartsAfter ==
    ASSUME TypeOK', RunInv', TimeIsSplit', stage' # "internal", Tiles(segments)', Rises(segments)',
           stage' \in {"classifying", "answered"} =>
              segments' # <<>> /\ segments'[Len(segments')].to = Len(seq')
    PROVE  SegmentationInv'
BY DEF SegmentationInv, SegmentsTile, Tiles, Follows, InSamples, StartsRise, NoThirdStart, Rises

\* The invariant after a step that reads, from what the step gives.
LEMMA AfterReading ==
    ASSUME SegmentationInv, NEW verdict, Reading(verdict),
           stage' = "detecting",
           NEW list \in Seq(Spans), segments' = list, Tiles(list),
           NEW from \in Int, NEW next \in Nat, run' = Span(from, next - 1), i' = next,
           1 <= from, from <= next, next <= Len(seq) + 1, from = next => next <= Len(seq),
           minLength' \in Nat, minLength' >= 2, outliers' \in Seq(BOOLEAN),
           ContinuesLast(list, from), Rises(list), Above(list, from, minLength')
    PROVE  SegmentationInv'
<1>1. seq' = seq /\ totals' = totals /\ input' = input /\ TypeOK /\ TimeIsSplit
  BY ReadingFacts, InvParts
<1>2. run'.from = from /\ run'.to = next - 1 /\ run' \in Spans
  BY DEF Span, Spans
<1>3. TypeOK'
  BY <1>1, <1>2 DEF TypeOK, Stages
<1>4. Tiles(segments)' /\ Rises(segments)'
  BY <1>1, TilesAfter
<1>5. IF segments' = <<>> THEN run'.from = 1
      ELSE LET end == segments'[Len(segments')].to
           IN run'.from = end \/ (run'.from = end + 1 /\ ~Connected(run.from)')
  BY <1>1, <1>2, ContinuesAfter
<1>6. RunInv'
  BY <1>1, <1>2, <1>5 DEF RunInv, Above
<1>7. TimeIsSplit'
  BY <1>1 DEF TimeIsSplit
<1>8. QED
  BY <1>3, <1>4, <1>6, <1>7, InvPartsAfter

-----------------------------------------------------------------------------
(* One lemma per action.                                                   *)

LEMMA InitInv == Init => SegmentationInv
<1> SUFFICES ASSUME Init PROVE SegmentationInv
  OBVIOUS
<1>1. TypeOK
  <2>1. <<>> \in Seq(Snapshots) /\ <<>> \in Seq(BOOLEAN) /\ <<>> \in Seq(Spans)
    BY EmptySeq
  <2>2. QED
    BY <2>1, SegmentationAssumption DEF Init, TypeOK, Stages, Spans, Span, NoTotals
<1>2. RunInv /\ TimeIsSplit /\ Tiles(segments) /\ Rises(segments) /\ stage = "received"
  BY EmptyListTiles DEF Init, RunInv, TimeIsSplit, NoTotals
<1>3. QED
  BY <1>1, <1>2, InvParts

LEMMA PreparePreserves ==
    ASSUME SegmentationInv, Prepare
    PROVE  SegmentationInv'
<1>0. PICK freed \in FreedBlocks :
       /\ stage = "received"
       /\ IF ValidGraph(ReadGraph(input)) /\ Len(Samples(freed)) >= Window
          THEN stage' = "detecting" /\ seq' = Samples(freed)
          ELSE stage' = "invalid" /\ UNCHANGED seq
       /\ UNCHANGED <<input, i, run, minLength, outliers, segments, totals, analysed>>
  BY DEF Prepare
<1> DEFINE s == Samples(freed)
<1>1. /\ TypeOK /\ TimeIsSplit /\ stage = "received"
      /\ i = 1 /\ run = Span(1, 0) /\ segments = <<>> /\ minLength = MinSegmentLength
  BY <1>0, InvParts DEF RunInv
<1>2. /\ UNCHANGED <<input, i, run, minLength, outliers, segments, totals, analysed>>
      /\ \/ /\ ValidGraph(ReadGraph(input)) /\ Len(s) >= Window
            /\ stage' = "detecting" /\ seq' = s
         \/ stage' = "invalid" /\ seq' = seq
  BY <1>0
<1>3. TypeOK'
  <2>1. seq' \in Seq(Snapshots)
    BY <1>0, <1>1, <1>2, RequestSamples, FreedSamples DEF TypeOK
  <2>2. QED
    BY <1>1, <1>2, <2>1 DEF TypeOK, Stages
<1>4. TimeIsSplit'
  BY <1>1, <1>2 DEF TimeIsSplit
<1>5. Tiles(segments)' /\ Rises(segments)'
  BY <1>1, <1>2, EmptySeq DEF Tiles, Rises
<1>6. RunInv'
  <2>1. CASE stage' = "invalid"
    BY <2>1 DEF RunInv
  <2>2. CASE stage' = "detecting"
    <3>1. seq' = s /\ Len(s) >= Window /\ seq' \in Seq(Snapshots)
      <4>1. stage' # "invalid"
        BY <2>2
      <4>2. seq' = s /\ Len(s) >= Window
        BY <1>2, <4>1
      <4>3. QED
        BY <1>3, <4>2 DEF TypeOK
    <3>2. Len(seq') \in Nat /\ Len(seq') >= 1
      BY <3>1, SegmentationAssumption
    <3>3. QED
      BY <1>1, <1>2, <2>2, <3>2, SegmentationAssumption DEF RunInv, Span
  <2>3. QED
    BY <1>2, <2>1, <2>2
<1>7. stage' \notin {"classifying", "answered", "internal"}
  BY <1>2
<1>8. QED
  BY <1>3, <1>4, <1>5, <1>6, <1>7, InvPartsAfter

LEMMA GrowPreserves ==
    ASSUME SegmentationInv, Grow
    PROVE  SegmentationInv'
<1>1. Reading("add") /\ UNCHANGED <<stage, minLength, outliers, segments>>
      /\ run' = [run EXCEPT !.to = i] /\ i' = i + 1
  BY DEF Grow
<1>2. run' = Span(run.from, (i + 1) - 1)
  <2>1. run = Span(run.from, i - 1) /\ i \in Nat
    BY <1>1, ReadingFacts
  <2>2. QED
    BY <1>1, <2>1 DEF Span
<1>3. outliers \in Seq(BOOLEAN)
  BY InvParts DEF TypeOK
<1> DEFINE from == run.from next == i + 1 list == segments
<1>4. /\ from \in Int /\ next \in Nat /\ 1 <= from /\ from <= next /\ next <= Len(seq) + 1
      /\ from # next /\ list \in Seq(Spans) /\ Tiles(list) /\ ContinuesLast(list, from)
      /\ Rises(list) /\ Above(list, from, minLength')
      /\ minLength' \in Nat /\ minLength' >= 2 /\ stage' = "detecting"
  BY <1>1, ReadingFacts
<1>5. QED
  <2> HIDE DEF from, next, list
  <2>1. run' = Span(from, next - 1) /\ i' = next /\ segments' = list
    BY <1>1, <1>2 DEF from, next, list
  <2>2. QED
    BY <1>1, <1>3, <1>4, <2>1, AfterReading

LEMMA TrackPreserves ==
    ASSUME SegmentationInv, Track
    PROVE  SegmentationInv'
<1>1. Reading("track") /\ UNCHANGED <<stage, minLength, segments>>
      /\ run' = [run EXCEPT !.to = i] /\ i' = i + 1
      /\ \E outlier \in BOOLEAN : outliers' = LastOutliers(Append(outliers, outlier))
  BY DEF Track
<1>2. run' = Span(run.from, (i + 1) - 1)
  <2>1. run = Span(run.from, i - 1) /\ i \in Nat
    BY <1>1, ReadingFacts
  <2>2. QED
    BY <1>1, <2>1 DEF Span
<1>3. outliers' \in Seq(BOOLEAN)
  <2>1. PICK outlier \in BOOLEAN : outliers' = LastOutliers(Append(outliers, outlier))
    BY <1>1
  <2>2. outliers \in Seq(BOOLEAN)
    BY InvParts DEF TypeOK
  <2>3. Append(outliers, outlier) \in Seq(BOOLEAN) /\ Append(outliers, outlier) # <<>>
    BY <2>2, AppendProperties, Zenon
  <2>4. QED
    BY <2>1, <2>3, HeadTailProperties DEF LastOutliers
<1> DEFINE from == run.from next == i + 1 list == segments
<1>4. /\ from \in Int /\ next \in Nat /\ 1 <= from /\ from <= next /\ next <= Len(seq) + 1
      /\ from # next /\ list \in Seq(Spans) /\ Tiles(list) /\ ContinuesLast(list, from)
      /\ Rises(list) /\ Above(list, from, minLength')
      /\ minLength' \in Nat /\ minLength' >= 2 /\ stage' = "detecting"
  BY <1>1, ReadingFacts
<1>5. QED
  <2> HIDE DEF from, next, list
  <2>1. run' = Span(from, next - 1) /\ i' = next /\ segments' = list
    BY <1>1, <1>2 DEF from, next, list
  <2>2. QED
    BY <1>1, <1>3, <1>4, <2>1, AfterReading

\* A fresh detector is not restarted where it breaks: the run of one sample it
\* has grown to is too short for a change, and the gap was looked at before.
LEMMA RestartAdds ==
    ASSUME SegmentationInv, NEW from \in Int, from = i - 1 \/ from = i, 1 <= from,
           from = i - 1 => ~(seq[i].time - seq[i - 1].time > MaxGap),
           i <= Len(seq)
    PROVE  \A k \in from..i : Verdict(Span(from, k - 1), MinSegmentLength, k) = "add"
<1>1. i \in Nat \ {0}
  BY InvParts DEF TypeOK
<1> TAKE k \in from..i
<1>2. CASE k = from
  BY <1>1, <1>2 DEF Verdict, Span, Size
<1>3. CASE k # from
  <2>1. k = i /\ from = i - 1
    BY <1>1, <1>3
  <2>2. Size(Span(from, k - 1)) = 1 /\ Span(from, k - 1).to = i - 1
    BY <1>1, <2>1 DEF Size, Span
  <2>3. QED
    BY <2>1, <2>2, SegmentationAssumption DEF Verdict
<1>4. QED
  BY <1>2, <1>3

LEMMA BreakAtGapPreserves ==
    ASSUME SegmentationInv, BreakAtGap
    PROVE  SegmentationInv'
<1>1. Reading("gap") /\ segments' = Append(segments, run) /\ Restart(i, i)
  BY DEF BreakAtGap
<1>2. Verdict(run, minLength, i) = "gap"
  BY <1>1 DEF Reading
<1>3. Size(run) # 0 /\ seq[i].time - seq[run.to].time > MaxGap
  BY <1>2 DEF Verdict
<1>4. /\ i \in Nat /\ i >= 1 /\ i <= Len(seq) /\ run \in Spans /\ Tiles(segments)
      /\ ContinuesLast(segments, run.from) /\ run.to = i - 1 /\ stage = "detecting"
      /\ 1 <= run.from /\ run.from <= i /\ run.from \in Int /\ segments \in Seq(Spans)
      /\ Len(seq) \in Nat /\ minLength \in Nat
      /\ Rises(segments) /\ Above(segments, run.from, minLength)
  BY <1>1, ReadingFacts
<1>5. InSamples(run)
  BY <1>3, <1>4 DEF InSamples, Size
<1> DEFINE list == Append(segments, run) next == i + 1
<1>6. /\ list \in Seq(Spans) /\ list # <<>> /\ list[Len(list)] = run /\ Tiles(list)
  BY <1>4, <1>5, AppendTiles
<1>7. ContinuesLast(list, i)
  <2>1. i \in 1..Len(seq) /\ i - 1 \in 1..Len(seq) /\ seq \in Seq(Snapshots)
    BY <1>4, <1>5, InvParts DEF InSamples, TypeOK
  <2>2. seq[i].time \in Int /\ seq[i - 1].time \in Int
    <3>1. seq[i] \in Snapshots /\ seq[i - 1] \in Snapshots
      BY <2>1
    <3>2. QED
      BY <3>1 DEF Snapshots
  <2>3. ~Connected(i) /\ run.to + 1 = i
    BY <1>3, <1>4, <2>2, IntervalAssumption DEF Connected
  <2>4. QED
    BY <1>4, <1>6, <2>3 DEF ContinuesLast, Follows
<1>8. \A k \in i..i : Verdict(Span(i, k - 1), MinSegmentLength, k) = "add"
  BY <1>4, RestartAdds
<1>9. /\ run' = Span(i, next - 1) /\ minLength' = MinSegmentLength /\ outliers' = <<>>
      /\ stage' = "detecting" /\ i' = next
  BY <1>1, <1>4, <1>8 DEF Restart
<1>10. /\ minLength' \in Nat /\ minLength' >= 2 /\ outliers' \in Seq(BOOLEAN)
       /\ next \in Nat /\ 1 <= i /\ i <= next /\ next <= Len(seq) + 1 /\ i # next
  BY <1>4, <1>9, SegmentationAssumption, EmptySeq
<1>12. Rises(list) /\ Above(list, i, minLength')
  <2>1. run.from <= i /\ run.from # i
    BY <1>4, <1>5 DEF InSamples
  <2>2. /\ Rises(list)
        /\ \A start \in Int, later \in Nat :
              run.from <= start /\ run.from # start => Above(list, start, later)
    BY <1>4, AppendRises
  <2>3. QED
    BY <1>4, <1>10, <2>1, <2>2
<1>11. QED
  <2> HIDE DEF list, next
  <2>1. segments' = list
    BY <1>1 DEF list
  <2>2. QED
    BY <1>1, <1>4, <1>6, <1>7, <1>9, <1>10, <1>12, <2>1, AfterReading

LEMMA BreakAtChangePreserves ==
    ASSUME SegmentationInv, BreakAtChange
    PROVE  SegmentationInv'
<1>1. Reading("change") /\ segments' = Append(segments, run) /\ Restart(i - 1, i)
  BY DEF BreakAtChange
<1>2. Verdict(run, minLength, i) = "change"
  BY <1>1 DEF Reading
<1>3. Size(run) >= 2 /\ ~(seq[i].time - seq[run.to].time > MaxGap)
  BY <1>2 DEF Verdict
<1>4. /\ i \in Nat /\ i >= 1 /\ i <= Len(seq) /\ run \in Spans /\ Tiles(segments)
      /\ ContinuesLast(segments, run.from) /\ run.to = i - 1 /\ stage = "detecting"
      /\ 1 <= run.from /\ run.from <= i /\ run.from \in Int /\ segments \in Seq(Spans)
      /\ Len(seq) \in Nat /\ minLength \in Nat
      /\ Rises(segments) /\ Above(segments, run.from, minLength)
  BY <1>1, ReadingFacts
<1>5. InSamples(run) /\ i - 1 >= 1 /\ i - 1 \in Int
  BY <1>3, <1>4 DEF InSamples, Size
<1> DEFINE list == Append(segments, run) next == i + 1 from == i - 1
<1>6. /\ list \in Seq(Spans) /\ list # <<>> /\ list[Len(list)] = run /\ Tiles(list)
  BY <1>4, <1>5, AppendTiles
<1>7. ContinuesLast(list, from)
  BY <1>4, <1>6 DEF ContinuesLast, Follows
<1>8. \A k \in (i - 1)..i : Verdict(Span(i - 1, k - 1), MinSegmentLength, k) = "add"
  BY <1>3, <1>4, <1>5, RestartAdds
<1>9. /\ run' = Span(from, next - 1) /\ minLength' = MinSegmentLength /\ outliers' = <<>>
      /\ stage' = "detecting" /\ i' = next
  BY <1>1, <1>4, <1>8 DEF Restart
<1>10. /\ minLength' \in Nat /\ minLength' >= 2 /\ outliers' \in Seq(BOOLEAN)
       /\ next \in Nat /\ 1 <= from /\ from <= next /\ next <= Len(seq) + 1 /\ from # next
       /\ from \in Int
  BY <1>4, <1>5, <1>9, SegmentationAssumption, EmptySeq
<1>12. Rises(list) /\ Above(list, from, minLength')
  <2>1. run.from <= from /\ run.from # from
    BY <1>3, <1>4 DEF Size
  <2>2. /\ Rises(list)
        /\ \A start \in Int, later \in Nat :
              run.from <= start /\ run.from # start => Above(list, start, later)
    BY <1>4, AppendRises
  <2>3. QED
    BY <1>4, <1>10, <2>1, <2>2
<1>11. QED
  <2> HIDE DEF list, next, from
  <2>1. segments' = list
    BY <1>1 DEF list
  <2>2. QED
    BY <1>1, <1>6, <1>7, <1>9, <1>10, <1>12, <2>1, AfterReading

LEMMA BreakAtShiftPreserves ==
    ASSUME SegmentationInv, BreakAtShift
    PROVE  SegmentationInv'
<1> DEFINE to == i - kDetectionDelay
<1>1. Reading("track")
  BY DEF BreakAtShift
<1>2. Verdict(run, minLength, i) = "track"
  BY <1>1 DEF Reading
<1>3. ~(Size(run) < minLength)
  BY <1>2 DEF Verdict
<1>4. /\ i \in Nat /\ i >= 1 /\ i <= Len(seq) /\ run \in Spans /\ Tiles(segments)
      /\ ContinuesLast(segments, run.from) /\ run.to = i - 1 /\ stage = "detecting"
      /\ 1 <= run.from /\ run.from <= i /\ run.from \in Int /\ segments \in Seq(Spans)
      /\ minLength \in Nat /\ minLength >= 2 /\ Len(seq) \in Nat
      /\ Rises(segments) /\ Above(segments, run.from, minLength)
  BY <1>1, ReadingFacts
<1>5. /\ Size(run) >= 2 /\ ~(Size(run) + 1 < kDetectionDelay)
      /\ to \in Nat /\ run.from <= to /\ 1 <= to /\ to <= Len(seq)
  BY <1>3, <1>4 DEF Size, kDetectionDelay
<1>6. /\ segments' = Append(segments, [run EXCEPT !.to = to])
      /\ run' = Span(to, to - 1) /\ i' = to
      /\ minLength' = Larger(MinSegmentLength, kDetectionDelay + 1)
      /\ outliers' = <<>> /\ stage' = stage
  <2>1. ResumeAt(i) = to
    BY <1>4 DEF ResumeAt, kDetectionDelay
  <2>2. QED
    BY <1>5, <2>1 DEF BreakAtShift, DelayedLength
<1> DEFINE segment == [run EXCEPT !.to = to] list == Append(segments, segment)
<1>7. segment \in Spans /\ segment.from = run.from /\ segment.to = to
  BY <1>4, <1>5 DEF Spans
<1>8. InSamples(segment) /\ ContinuesLast(segments, segment.from)
  BY <1>4, <1>5, <1>7 DEF InSamples
<1> HIDE DEF segment
<1>9. /\ list \in Seq(Spans) /\ list # <<>> /\ list[Len(list)] = segment /\ Tiles(list)
  BY <1>4, <1>7, <1>8, AppendTiles
<1>10. ContinuesLast(list, to)
  BY <1>7, <1>9 DEF ContinuesLast, Follows
<1>11. minLength' \in Nat /\ minLength' >= 2 /\ outliers' \in Seq(BOOLEAN)
  BY <1>6, SegmentationAssumption, EmptySeq DEF Larger, kDetectionDelay
<1>12. segments' = list /\ stage' = "detecting" /\ to \in Int /\ to <= Len(seq) + 1
  BY <1>4, <1>5, <1>6 DEF segment
<1>13. Rises(list) /\ Above(list, to, minLength')
  <2>1. minLength' > kDetectionDelay
    BY <1>6, SegmentationAssumption DEF Larger, kDetectionDelay
  <2>2. segment.from = to => ~(minLength > kDetectionDelay)
    BY <1>3, <1>4, <1>7 DEF Size, kDetectionDelay
  <2>3. segment.from <= to
    BY <1>5, <1>7
  <2>4. QED
    BY <1>4, <1>7, <1>11, <1>12, <2>1, <2>2, <2>3, AppendRises
<1> HIDE DEF list, to
<1>14. QED
  BY <1>1, <1>5, <1>6, <1>9, <1>10, <1>11, <1>12, <1>13, AfterReading

LEMMA FinishPreserves ==
    ASSUME SegmentationInv, FinishDetection
    PROVE  SegmentationInv'
<1>1. /\ stage = "detecting" /\ i > Len(seq) /\ segments' = Append(segments, run)
      /\ stage' = "classifying" /\ i' = 1
      /\ UNCHANGED <<input, seq, run, minLength, outliers, totals, analysed>>
  BY DEF FinishDetection
<1>2. TypeOK /\ RunInv /\ TimeIsSplit /\ Tiles(segments) /\ Rises(segments)
  BY InvParts
<1>3. run \in Spans /\ minLength \in Nat /\ segments \in Seq(Spans) /\ Len(seq) \in Nat /\ i \in Nat
  BY <1>2 DEF TypeOK
<1>4. InSamples(run) /\ run.to = Len(seq)
  <2>1. /\ run.to = i - 1 /\ 1 <= run.from /\ run.from <= i /\ i <= Len(seq) + 1
        /\ run.from = i => i <= Len(seq)
    BY <1>1, <1>2, Zenon DEF RunInv
  <2>2. run.from \in Int /\ run.to \in Int
    BY <1>3 DEF Spans
  <2>3. QED
    BY <1>1, <1>3, <2>1, <2>2 DEF InSamples
<1> DEFINE list == Append(segments, run)
<1>5. /\ list \in Seq(Spans) /\ list # <<>> /\ list[Len(list)] = run /\ Tiles(list)
  BY <1>1, <1>2, <1>3, <1>4, RunContinues, AppendTiles
<1>10. Rises(list)
  BY <1>1, <1>2, <1>3, RunContinues, AppendRises
<1>6. TypeOK'
  BY <1>1, <1>2, <1>5 DEF TypeOK, Stages
<1>7. RunInv' /\ TimeIsSplit'
  BY <1>1, <1>2 DEF RunInv, TimeIsSplit
<1>8. Tiles(segments)' /\ Rises(segments)'
  BY <1>1, <1>5, <1>10, TilesAfter
<1>9. QED
  BY <1>1, <1>4, <1>5, <1>6, <1>7, <1>8, InvPartsAfter

LEMMA ClassifyPreserves ==
    ASSUME SegmentationInv, Classify
    PROVE  SegmentationInv'
<1> DEFINE r == segments[i]
<1>1. /\ stage = "classifying" /\ i <= Len(segments) /\ i' = i + 1
      /\ UNCHANGED <<input, stage, seq, run, minLength, outliers, segments>>
  BY DEF Classify
<1>2. /\ TypeOK /\ TimeIsSplit /\ Tiles(segments) /\ Rises(segments)
      /\ segments # <<>> /\ segments[Len(segments)].to = Len(seq)
  BY <1>1, InvParts
<1>3. i \in 1..Len(segments) /\ r \in Spans /\ InSamples(r)
  BY <1>1, <1>2 DEF TypeOK, Tiles
<1> HIDE DEF r
<1>4. r.from \in 1..Len(seq) /\ r.to \in 1..Len(seq) /\ seq \in Seq(Snapshots)
  <2>1. r.from \in Int /\ r.to \in Int /\ 1 <= r.from /\ r.from <= r.to /\ r.to <= Len(seq)
    BY <1>3 DEF InSamples, Spans
  <2>2. seq \in Seq(Snapshots) /\ Len(seq) \in Nat
    BY <1>2 DEF TypeOK
  <2>3. QED
    BY <2>1, <2>2
<1>5. Duration(r) \in Int
  <2>1. seq[r.from] \in Snapshots /\ seq[r.to] \in Snapshots
    BY <1>4
  <2>2. seq[r.from].time \in Int /\ seq[r.to].time \in Int
    BY <2>1 DEF Snapshots
  <2>3. QED
    BY <2>2 DEF Duration
<1> DEFINE d == Duration(r)
<1>6. \E active, auto \in BOOLEAN : totals' = Counted(d, active, auto)
  BY DEF Classify, r
<1> HIDE DEF d
<1>7. totals \in [observed : Int, uptime : Int, downtime : Int, auto : Int] /\ d \in Int
      /\ totals.observed = totals.uptime + totals.downtime
  BY <1>2, <1>5 DEF TypeOK, TimeIsSplit, d
<1>8. totals' \in [observed : Int, uptime : Int, downtime : Int, auto : Int]
      /\ totals'.observed = totals'.uptime + totals'.downtime
  BY <1>6, <1>7 DEF Counted
<1>9. TypeOK'
  BY <1>1, <1>2, <1>8 DEF TypeOK
<1>10. TimeIsSplit'
  BY <1>8 DEF TimeIsSplit
<1>11. Tiles(segments)' /\ Rises(segments)'
  BY <1>1, <1>2, TilesAfter
<1>12. RunInv'
  BY <1>1 DEF RunInv
<1>13. QED
  BY <1>1, <1>2, <1>9, <1>10, <1>11, <1>12, InvPartsAfter

LEMMA AnswerPreserves ==
    ASSUME SegmentationInv, Answer \/ UNCHANGED vars
    PROVE  SegmentationInv'
<1>1. TypeOK /\ RunInv /\ TimeIsSplit /\ Tiles(segments) /\ Rises(segments)
  BY InvParts
<1>2. UNCHANGED <<input, seq, i, run, minLength, outliers, segments, totals, analysed>>
      /\ ((stage = "classifying" /\ stage' = "answered") \/ stage' = stage)
  BY DEF Answer, vars
<1>3. TypeOK' /\ TimeIsSplit'
  BY <1>1, <1>2 DEF TypeOK, TimeIsSplit, Stages
<1>4. RunInv'
  BY <1>1, <1>2 DEF RunInv, Connected
<1>5. Tiles(segments)' /\ Rises(segments)'
  BY <1>1, <1>2, TilesAfter
<1>6. QED
  BY <1>2, <1>3, <1>4, <1>5, InvParts, InvPartsAfter

-----------------------------------------------------------------------------
LEMMA NextPreserves ==
    ASSUME SegmentationInv, [Next]_vars
    PROVE  SegmentationInv'
BY PreparePreserves, GrowPreserves, BreakAtGapPreserves, BreakAtChangePreserves,
   TrackPreserves, BreakAtShiftPreserves, FinishPreserves, ClassifyPreserves,
   AnswerPreserves DEF Next

\* The invariant that the results below are parts of.
THEOREM SegmentationSafe == Spec => []SegmentationInv
<1>1. Init => SegmentationInv
  BY InitInv
<1>2. SegmentationInv /\ [Next]_vars => SegmentationInv'
  BY NextPreserves
<1>3. QED
  BY <1>1, <1>2, PTL DEF Spec

\* Every variable stays in its range, for all graphs of integers (TypeOK).
THEOREM TypeCorrect == Spec => []TypeOK
<1>1. SegmentationInv => TypeOK
  BY DEF SegmentationInv
<1>2. QED
  BY <1>1, SegmentationSafe, PTL

\* However the detector breaks and goes back, its segments cover the samples
\* and each continues the one before (SegmentsTile).
THEOREM SegmentsCoverSamples == Spec => []SegmentsTile
<1>1. SegmentationInv => SegmentsTile
  BY DEF SegmentationInv
<1>2. QED
  BY <1>1, SegmentationSafe, PTL

\* The two internal errors of a detector that breaks at once, and the one of
\* a rollback that is longer than the run, never happen (NeverBreaksTwice).
THEOREM NoInternalError == Spec => []NeverBreaksTwice
<1>1. SegmentationInv => NeverBreaksTwice
  BY DEF SegmentationInv, NeverBreaksTwice
<1>2. QED
  BY <1>1, SegmentationSafe, PTL

\* The detector starts a segment at one sample at most twice, whatever the
\* outliers are: it terminates (NoThirdStart).
THEOREM StartsAdvance == Spec => []NoThirdStart
<1>1. SegmentationInv => NoThirdStart
  BY DEF SegmentationInv, StartsRise
<1>2. QED
  BY <1>1, SegmentationSafe, PTL

-----------------------------------------------------------------------------
(***************************************************************************)
(* Durations.  Every run lies between two gaps, so that its duration is    *)
(* the number of its steps in intervals, and at most that for a graph that *)
(* goes back in time.                                                      *)
(***************************************************************************)
Linked(r) == \A k \in (r.from + 1)..r.to : Connected(k)

SpacingInv ==
    /\ ReadsNothingFreed => Joined(seq, FALSE) /\ (InOrder => Joined(seq, TRUE))
    /\ stage = "detecting" => Linked(run)
    /\ \A n \in DOMAIN segments : Linked(segments[n])

LEMMA EmptyJoined == ASSUME NEW forward PROVE Joined(<<>>, forward)
BY EmptySeq DEF Joined

LEMMA SpacingInit == Init => SpacingInv
<1> SUFFICES ASSUME Init PROVE SpacingInv
  OBVIOUS
<1>1. seq = <<>> /\ segments = <<>> /\ stage = "received"
  BY DEF Init
<1>2. Joined(seq, FALSE) /\ Joined(seq, TRUE)
  BY <1>1, EmptyJoined
<1>3. DOMAIN segments = {}
  BY <1>1
<1>4. QED
  BY <1>1, <1>2, <1>3 DEF SpacingInv

LEMMA AppendLinked ==
    ASSUME NEW list \in Seq(Spans), NEW r, r \in Spans,
           \A n \in DOMAIN list : Linked(list[n]), Linked(r)
    PROVE  \A n \in DOMAIN Append(list, r) : Linked(Append(list, r)[n])
<1>1. /\ DOMAIN Append(list, r) = 1..(Len(list) + 1) /\ Len(list) \in Nat
      /\ Append(list, r)[Len(list) + 1] = r
      /\ \A n \in 1..Len(list) : Append(list, r)[n] = list[n] /\ n \in DOMAIN list
  OBVIOUS
<1>2. ASSUME NEW n \in 1..(Len(list) + 1) PROVE n \in 1..Len(list) \/ n = Len(list) + 1
  BY <1>1
<1>3. QED
  BY <1>1, <1>2

LEMMA SpacingKept ==
    ASSUME SpacingInv, input' = input, seq' = seq,
           NEW r, run' = r, stage' = "detecting" => Linked(r),
           NEW list, segments' = list, \A n \in DOMAIN list : Linked(list[n])
    PROVE  SpacingInv'
<1>1. (ReadsNothingFreed => Joined(seq, FALSE) /\ (InOrder => Joined(seq, TRUE)))'
  BY DEF SpacingInv, InOrder, ReadsNothingFreed, Samples, Joined, Joins
<1>2. (stage = "detecting" => Linked(run))'
  BY DEF Linked, Connected
<1>3. (\A n \in DOMAIN segments : Linked(segments[n]))'
  BY DEF Linked, Connected
<1>4. QED
  BY <1>1, <1>2, <1>3 DEF SpacingInv

LEMMA PrepareSpacing ==
    ASSUME SegmentationInv, SpacingInv, Prepare
    PROVE  SpacingInv'
<1>1. PICK freed \in FreedBlocks :
         /\ UNCHANGED <<input, run, segments>> /\ stage = "received"
         /\ \/ ValidGraph(ReadGraph(input)) /\ seq' = Samples(freed)
            \/ stage' = "invalid" /\ seq' = seq
  BY DEF Prepare
<1>2. run = Span(1, 0) /\ segments = <<>> /\ input \in Inputs
  BY <1>1, InvParts DEF RunInv, TypeOK
<1>3. Linked(run)' /\ (\A n \in DOMAIN segments : Linked(segments[n]))'
  BY <1>1, <1>2, EmptySeq DEF Linked, Span
<1>4. ReadsNothingFreed => Joined(seq', FALSE) /\ (InOrder => Joined(seq', TRUE))
  <2>1. CASE ValidGraph(ReadGraph(input)) /\ seq' = Samples(freed)
    <3>1. Joined(Samples(Kept), FALSE) /\ (InOrder => Joined(Samples(Kept), TRUE))
      BY <1>2, <2>1, RequestSamples, FreedSamples
    <3>2. ReadsNothingFreed => Samples(freed) = Samples(Kept)
      BY DEF ReadsNothingFreed
    <3>3. QED
      BY <2>1, <3>1, <3>2
  <2>2. CASE seq' = seq
    BY <2>2 DEF SpacingInv
  <2>3. QED
    BY <1>1, <2>1, <2>2
<1>5. InOrder' = InOrder /\ ReadsNothingFreed' = ReadsNothingFreed
  BY <1>1 DEF InOrder, ReadsNothingFreed, Samples
<1>6. QED
  BY <1>3, <1>4, <1>5 DEF SpacingInv

\* A sample that is not after a gap is connected to the run.
LEMMA NextIsLinked ==
    ASSUME SegmentationInv, SpacingInv, NEW verdict, Reading(verdict), verdict # "gap"
    PROVE  /\ Linked(Span(run.from, i))
           /\ verdict = "change" => Connected(i)
<1>1. /\ stage = "detecting" /\ i \in Nat /\ run.from \in Int /\ run.to = i - 1 /\ run.from <= i
      /\ Verdict(run, minLength, i) = verdict
  BY ReadingFacts DEF Reading
<1>2. Linked(run)
  BY <1>1 DEF SpacingInv
<1>3. CASE Size(run) = 0
  <2>1. run.from = i /\ verdict = "add"
    BY <1>1, <1>3 DEF Size, Verdict
  <2>2. QED
    BY <1>1, <2>1 DEF Linked, Span
<1>4. CASE Size(run) # 0
  <2>1. Connected(i)
    <3>1. ~(seq[i].time - seq[run.to].time > MaxGap)
      BY <1>1, <1>4 DEF Verdict
    <3>2. i \in 1..Len(seq) /\ i - 1 \in 1..Len(seq) /\ seq \in Seq(Snapshots)
      <4>1. i <= Len(seq) /\ 1 <= run.from /\ Len(seq) \in Nat
        BY ReadingFacts
      <4>2. Size(run) = i - run.from
        BY <1>1 DEF Size
      <4>3. TypeOK
        BY InvParts
      <4>4. QED
        BY <1>1, <1>4, <4>1, <4>2, <4>3 DEF TypeOK
    <3>3. seq[i] \in Snapshots /\ seq[i - 1] \in Snapshots
      BY <3>2
    <3>4. seq[i].time \in Int /\ seq[i - 1].time \in Int
      BY <3>3, SnapshotFields
    <3>5. QED
      BY <1>1, <3>1, <3>4, IntervalAssumption DEF Connected
  <2>2. ASSUME NEW k \in (run.from + 1)..i
        PROVE  Connected(k)
    <3>1. CASE k = i
      BY <2>1, <3>1
    <3>2. CASE k # i
      <4>1. k \in (run.from + 1)..run.to
        BY <1>1, <3>2
      <4>2. QED
        BY <1>2, <4>1 DEF Linked
    <3>3. QED
      BY <3>1, <3>2
  <2>3. Span(run.from, i).from = run.from /\ Span(run.from, i).to = i
    BY DEF Span
  <2>4. QED
    BY <2>1, <2>2, <2>3 DEF Linked
<1>5. QED
  BY <1>3, <1>4

LEMMA ShortLinked ==
    ASSUME NEW from, NEW to \in Int, from \in Int, to <= from
    PROVE  Linked(Span(from, to))
BY DEF Linked, Span

LEMMA GrowSpacing ==
    ASSUME SegmentationInv, SpacingInv, NEW verdict, Reading(verdict), verdict # "gap",
           run' = [run EXCEPT !.to = i], segments' = segments
    PROVE  SpacingInv'
<1>1. input' = input /\ seq' = seq /\ run \in Spans
  BY ReadingFacts
<1>2. run' = Span(run.from, i)
  BY <1>1 DEF Spans, Span
<1>3. Linked(Span(run.from, i))
  BY NextIsLinked
<1>4. \A n \in DOMAIN segments : Linked(segments[n])
  BY DEF SpacingInv
<1>5. QED
  BY <1>1, <1>2, <1>3, <1>4, SpacingKept

LEMMA BreakSpacing ==
    ASSUME SegmentationInv, SpacingInv, NEW verdict, Reading(verdict),
           NEW to \in Int, to <= i - 1, segments' = Append(segments, Span(run.from, to)),
           NEW r, run' = r, Linked(r)
    PROVE  SpacingInv'
<1>1. /\ input' = input /\ seq' = seq /\ segments \in Seq(Spans) /\ stage = "detecting"
      /\ run.from \in Int /\ run.to = i - 1 /\ i \in Nat
  BY ReadingFacts
<1>2. Linked(run) /\ \A n \in DOMAIN segments : Linked(segments[n])
  BY <1>1 DEF SpacingInv
<1> DEFINE done == Span(run.from, to)
<1>3. done \in Spans /\ done.from = run.from /\ done.to = to
  BY <1>1 DEF Span, Spans
<1>4. Linked(done)
  <2>1. \A k \in (run.from + 1)..to : k \in (run.from + 1)..run.to
    BY <1>1
  <2>2. QED
    BY <1>2, <1>3, <2>1 DEF Linked
<1> HIDE DEF done
<1> DEFINE list == Append(segments, done)
<1>5. \A n \in DOMAIN list : Linked(list[n])
  BY <1>1, <1>2, <1>3, <1>4, AppendLinked
<1>6. segments' = list
  BY DEF done
<1> HIDE DEF list
<1>7. QED
  BY <1>1, <1>5, <1>6, SpacingKept

LEMMA SpacingPreserved ==
    ASSUME SegmentationInv, SpacingInv, [Next]_vars
    PROVE  SpacingInv'
<1>1. ASSUME Grow PROVE SpacingInv'
  BY <1>1, GrowSpacing DEF Grow
<1>2. ASSUME Track PROVE SpacingInv'
  BY <1>2, GrowSpacing DEF Track
<1>3. ASSUME BreakAtGap PROVE SpacingInv'
  <2>1. /\ Reading("gap") /\ segments' = Append(segments, run) /\ run' = Span(i, i)
    BY <1>3 DEF BreakAtGap, Restart
  <2>2. i \in Int /\ i - 1 \in Int /\ i - 1 <= i - 1 /\ run = Span(run.from, i - 1)
    BY <2>1, ReadingFacts
  <2>3. Linked(Span(i, i))
    BY <2>2, ShortLinked
  <2>4. QED
    BY <2>1, <2>2, <2>3, BreakSpacing
<1>4. ASSUME BreakAtChange PROVE SpacingInv'
  <2>1. /\ Reading("change") /\ segments' = Append(segments, run) /\ run' = Span(i - 1, i)
    BY <1>4 DEF BreakAtChange, Restart
  <2>2. i \in Int /\ i - 1 \in Int /\ i - 1 <= i - 1 /\ run = Span(run.from, i - 1)
    BY <2>1, ReadingFacts
  <2>3. Linked(Span(i - 1, i))
    <3>1. Connected(i)
      BY <2>1, NextIsLinked
    <3>2. \A k \in ((i - 1) + 1)..i : k = i
      BY <2>2
    <3>3. QED
      BY <3>1, <3>2 DEF Linked, Span
  <2>4. QED
    BY <2>1, <2>2, <2>3, BreakSpacing
<1>5. ASSUME BreakAtShift PROVE SpacingInv'
  <2> DEFINE to == i - kDetectionDelay
             next == Span(ResumeAt(i), ResumeAt(i) - 1)
  <2>1. /\ Reading("track")
        /\ \/ UNCHANGED <<run, segments>> /\ stage' = "internal"
           \/ /\ segments' = Append(segments, [run EXCEPT !.to = to])
              /\ run' = next
    BY <1>5 DEF BreakAtShift
  <2>2. /\ i \in Int /\ to \in Int /\ to <= i - 1 /\ run \in Spans
        /\ ResumeAt(i) \in Int /\ ResumeAt(i) - 1 \in Int /\ ResumeAt(i) - 1 <= ResumeAt(i)
        /\ input' = input /\ seq' = seq
    BY <2>1, ReadingFacts DEF kDetectionDelay, ResumeAt
  <2>3. [run EXCEPT !.to = to] = Span(run.from, to)
    BY <2>2 DEF Spans, Span
  <2>4. Linked(next)
    BY <2>2, ShortLinked
  <2> HIDE DEF to, next
  <2>5. CASE segments' = Append(segments, [run EXCEPT !.to = to]) /\ run' = next
    BY <2>1, <2>2, <2>3, <2>4, <2>5, BreakSpacing
  <2>6. CASE UNCHANGED <<run, segments>> /\ stage' = "internal"
    <3>1. stage' # "detecting" /\ \A n \in DOMAIN segments : Linked(segments[n])
      BY <2>6 DEF SpacingInv
    <3>2. QED
      BY <2>2, <2>6, <3>1, SpacingKept
  <2>7. QED
    BY <2>1, <2>5, <2>6
<1>6. ASSUME FinishDetection PROVE SpacingInv'
  <2>1. /\ stage = "detecting" /\ stage' = "classifying" /\ segments' = Append(segments, run)
        /\ UNCHANGED <<input, seq, run>>
    BY <1>6 DEF FinishDetection
  <2>2. segments \in Seq(Spans) /\ run \in Spans
    BY InvParts DEF TypeOK
  <2>3. Linked(run) /\ \A n \in DOMAIN segments : Linked(segments[n])
    BY <2>1 DEF SpacingInv
  <2> DEFINE list == Append(segments, run)
  <2>4. \A n \in DOMAIN list : Linked(list[n])
    BY <2>2, <2>3, AppendLinked
  <2>5. segments' = list
    BY <2>1
  <2> HIDE DEF list
  <2>6. QED
    BY <2>1, <2>3, <2>4, <2>5, SpacingKept
<1>7. ASSUME UNCHANGED <<input, seq, run, segments>>, stage' # "detecting" \/ stage' = stage
      PROVE  SpacingInv'
  <2>1. \A n \in DOMAIN segments : Linked(segments[n])
    BY DEF SpacingInv
  <2>2. stage' = "detecting" => Linked(run)
    BY <1>7 DEF SpacingInv
  <2>3. QED
    BY <1>7, <2>1, <2>2, SpacingKept
<1>8. ASSUME Classify PROVE SpacingInv'
  BY <1>7, <1>8 DEF Classify
<1>9. ASSUME Answer PROVE SpacingInv'
  BY <1>7, <1>9 DEF Answer
<1>10. ASSUME UNCHANGED vars PROVE SpacingInv'
  BY <1>7, <1>10 DEF vars
<1>11. QED
  BY <1>1, <1>2, <1>3, <1>4, <1>5, <1>6, <1>8, <1>9, <1>10, PrepareSpacing DEF Next

-----------------------------------------------------------------------------
(* The duration of a run of linked samples. *)

LEMMA IntervalSteps ==
    /\ Interval * 0 = 0
    /\ \A k \in Int : Interval * k \in Int /\ Interval * k = Interval * (k - 1) + Interval
BY IntervalAssumption

LEMMA StepOfLinked ==
    ASSUME seq \in Seq(Snapshots), NEW forward \in BOOLEAN, Joined(seq, forward),
           NEW k \in 2..Len(seq), Connected(k)
    PROVE  /\ seq[k].time \in Int /\ seq[k - 1].time \in Int
           /\ seq[k].time - seq[k - 1].time <= Interval
           /\ forward => seq[k].time - seq[k - 1].time = Interval
<1>1. k \in 1..Len(seq) /\ k - 1 \in 1..Len(seq)
  OBVIOUS
<1>2. seq[k] \in Snapshots /\ seq[k - 1] \in Snapshots
  BY <1>1
<1>3. seq[k].time \in Int /\ seq[k - 1].time \in Int
  BY <1>2, SnapshotFields
<1>4. Joins(seq[k].time - seq[k - 1].time, forward)
  BY DEF Joined
<1>5. QED
  BY <1>3, <1>4, IntervalAssumption DEF Joins, Connected

LEMMA DurationOfLinked ==
    ASSUME seq \in Seq(Snapshots), NEW forward \in BOOLEAN, Joined(seq, forward),
           NEW r \in Spans, InSamples(r), Linked(r)
    PROVE  /\ Duration(r) \in Int
           /\ Duration(r) = seq[r.to].time - seq[r.from].time
           /\ Duration(r) <= Interval * (r.to - r.from)
           /\ forward => Duration(r) = Interval * (r.to - r.from)
<1> DEFINE a == r.from
           b == r.to
           Right(k) == /\ seq[k].time - seq[a].time <= Interval * (k - a)
                       /\ forward => seq[k].time - seq[a].time = Interval * (k - a)
           G == {k \in a..b : Right(k)}
<1>1. a \in Int /\ b \in Int /\ 1 <= a /\ a <= b /\ b <= Len(seq) /\ Len(seq) \in Nat
  BY DEF Spans, InSamples
<1>2. Interval \in Int /\ Interval > 0
  BY IntervalAssumption
<1>3. \A k \in a..b : k \in 1..Len(seq) /\ seq[k].time \in Int
  <2> TAKE k \in a..b
  <2>1. k \in 1..Len(seq)
    BY <1>1
  <2>2. seq[k] \in Snapshots
    BY <2>1
  <2>3. QED
    BY <2>1, <2>2, SnapshotFields
<1>4. a \in G
  <2>1. a \in a..b
    BY <1>1
  <2>2. seq[a].time - seq[a].time = 0 /\ Interval * (a - a) = 0
    <3>1. a - a = 0 /\ seq[a].time \in Int
      BY <1>1, <1>3, <2>1
    <3>2. Interval * (a - a) = 0
      <4> HIDE DEF a
      <4>1. QED
        BY <3>1, IntervalSteps
    <3>3. seq[a].time - seq[a].time = 0
      BY <3>1
    <3>4. QED
      BY <3>2, <3>3
  <2>3. QED
    BY <2>1, <2>2
<1>5. ASSUME NEW k \in (a + 1)..b, k - 1 \in G
      PROVE  k \in G
  <2>1. k \in a..b /\ k - 1 \in a..b /\ k \in 2..Len(seq) /\ k \in Int /\ Right(k - 1)
    BY <1>1, <1>5
  <2>2. Connected(k)
    BY DEF Linked
  <2>3. /\ seq[k].time - seq[k - 1].time <= Interval
        /\ forward => seq[k].time - seq[k - 1].time = Interval
    BY <2>1, <2>2, StepOfLinked
  <2>4. seq[k].time \in Int /\ seq[k - 1].time \in Int /\ seq[a].time \in Int
    <3>1. \A j \in a..b : seq[j].time \in Int
      BY <1>3
    <3>2. a \in a..b /\ k \in a..b /\ k - 1 \in a..b
      BY <1>1, <2>1
    <3> HIDE DEF a, b, Right, G
    <3>3. QED
      BY ONLY <3>1, <3>2
  <2> DEFINE x == Interval * (k - a)
             y == Interval * ((k - 1) - a)
  <2>5. x \in Int /\ y \in Int /\ x = y + Interval
    <3>1. k - a \in Int /\ (k - a) - 1 = (k - 1) - a
      BY <1>1, <2>1
    <3>2. (k - a) - 1 \in Int
      BY <3>1
    <3>3. Interval * (k - a) \in Int /\ Interval * ((k - a) - 1) \in Int
          /\ Interval * (k - a) = Interval * ((k - a) - 1) + Interval
      BY <3>1, <3>2, IntervalSteps
    <3>4. QED
      BY <3>1, <3>3
  <2>6. /\ seq[k - 1].time - seq[a].time <= y
        /\ forward => seq[k - 1].time - seq[a].time = y
    BY <2>1
  <2> HIDE DEF x, y
  <2>7. /\ seq[k].time - seq[a].time <= x
        /\ forward => seq[k].time - seq[a].time = x
    BY <1>2, <2>3, <2>4, <2>5, <2>6
  <2>8. Right(k)
    BY <2>7 DEF x
  <2>9. QED
    BY <2>1, <2>8
<1> HIDE DEF G
<1>6. b \in G
  <2> HIDE DEF a, b
  <2>1. \A k \in a..b : k \in G
    BY <1>1, <1>4, <1>5, IntervalInduction
  <2>2. QED
    BY <1>1, <2>1
<1>7. Right(b)
  BY <1>6 DEF G
<1>8. Duration(r) = seq[b].time - seq[a].time
  BY <1>1 DEF Duration, Size
<1>9. seq[b].time \in Int /\ seq[a].time \in Int
  BY <1>1, <1>3
<1>10. QED
  BY <1>7, <1>8, <1>9

-----------------------------------------------------------------------------
(* What the answer counts. *)
ConnectedUpTo(k) == {j \in 2..k : Connected(j)}

\* The last sample of the segments that are classified.
Reached == IF i = 1 THEN 1 ELSE segments[i - 1].to

\* A graph in order, of which no sample comes from a freed block.
Orderly == InOrder /\ ReadsNothingFreed

DurationInv ==
    IF stage \in {"classifying", "answered"}
    THEN /\ i \in 1..(Len(segments) + 1)
         /\ stage = "answered" => i = Len(segments) + 1
         /\ Orderly => /\ totals.observed = Interval * Cardinality(ConnectedUpTo(Reached))
                       /\ totals.auto \in 0..totals.uptime
    ELSE totals = NoTotals

LEMMA ConnectedFinite ==
    ASSUME NEW k \in Int
    PROVE  IsFiniteSet(ConnectedUpTo(k)) /\ Cardinality(ConnectedUpTo(k)) \in Nat
<1>1. IsFiniteSet(2..k)
  BY FS_Interval
<1>2. IsFiniteSet(ConnectedUpTo(k))
  BY <1>1, FS_Subset DEF ConnectedUpTo
<1>3. QED
  BY <1>2, FS_CardinalityType

\* One more run adds its steps.
LEMMA ConnectedByRun ==
    ASSUME NEW k \in Int, 1 <= k, NEW r \in Spans, 1 <= r.from, r.from <= r.to,
           Follows(k, r.from), Linked(r)
    PROVE  Cardinality(ConnectedUpTo(r.to)) = Cardinality(ConnectedUpTo(k)) + (r.to - r.from)
<1> DEFINE new == (r.from + 1)..r.to
           old == ConnectedUpTo(k)
<1>1. r.from \in Int /\ r.to \in Int /\ (r.from = k \/ (r.from = k + 1 /\ ~Connected(r.from)))
  BY DEF Spans, Follows
<1>2. ConnectedUpTo(r.to) = old \cup new
  <2>1. ASSUME NEW j \in ConnectedUpTo(r.to) PROVE j \in old \cup new
    <3>1. j \in 2..r.to /\ Connected(j)
      BY DEF ConnectedUpTo
    <3>2. CASE j <= k
      BY <1>1, <3>1, <3>2 DEF ConnectedUpTo
    <3>3. CASE ~(j <= k)
      BY <1>1, <3>1, <3>3
    <3>4. QED
      BY <3>2, <3>3
  <2>2. ASSUME NEW j \in old PROVE j \in ConnectedUpTo(r.to)
    BY <1>1 DEF ConnectedUpTo
  <2>3. ASSUME NEW j \in new PROVE j \in ConnectedUpTo(r.to)
    <3>1. Connected(j)
      BY DEF Linked
    <3>2. QED
      BY <1>1, <3>1 DEF ConnectedUpTo
  <2>4. QED
    BY <2>1, <2>2, <2>3
<1>3. old \cap new = {}
  BY <1>1 DEF ConnectedUpTo
<1>4. IsFiniteSet(old) /\ Cardinality(old) \in Nat
  BY ConnectedFinite
<1>5. IsFiniteSet(new) /\ Cardinality(new) = r.to - r.from
  <2>1. r.from + 1 \in Int /\ r.to \in Int
    BY <1>1
  <2>2. /\ IsFiniteSet(new)
        /\ Cardinality(new) = IF r.from + 1 > r.to THEN 0 ELSE r.to - (r.from + 1) + 1
    BY <2>1, FS_Interval
  <2>3. QED
    BY <1>1, <2>2
<1> HIDE DEF old, new
<1>6. Cardinality(old \cap new) = 0
  BY <1>3, FS_EmptySet
<1>7. Cardinality(old \cup new) = Cardinality(old) + Cardinality(new) - Cardinality(old \cap new)
  BY <1>4, <1>5, FS_Union
<1>8. QED
  BY <1>1, <1>2, <1>4, <1>5, <1>6, <1>7 DEF old

LEMMA DurationInit == Init => DurationInv
BY DEF Init, DurationInv

\* Before the first segment is classified nothing is counted.
LEMMA NothingCounted ==
    ASSUME totals = NoTotals, i = 1
    PROVE  /\ totals.observed = Interval * Cardinality(ConnectedUpTo(Reached))
           /\ totals.auto \in 0..totals.uptime
<1>1. ConnectedUpTo(Reached) = {}
  BY DEF Reached, ConnectedUpTo
<1>2. Cardinality(ConnectedUpTo(Reached)) = 0
  BY <1>1, FS_EmptySet
<1>3. QED
  BY <1>2, IntervalAssumption DEF NoTotals

LEMMA ClassifyDurations ==
    ASSUME SegmentationInv, SpacingInv, DurationInv, Classify
    PROVE  DurationInv'
<1> DEFINE r == segments[i]
           d == Duration(r)
<1>1. /\ stage = "classifying" /\ i <= Len(segments) /\ i' = i + 1
      /\ \E active, auto \in BOOLEAN : (auto => active) /\ totals' = Counted(d, active, auto)
      /\ UNCHANGED <<input, stage, seq, segments>>
  <2>1. \E auto \in BOOLEAN : auto = (LET active == Points(r) # 0
                                          result == AnalyzeSegment(SubSeq(seq, r.from, r.to))
                                      IN active /\ result.is_confident /\ result.is_auto)
    OBVIOUS
  <2>2. \E active, auto \in BOOLEAN : (auto => active) /\ totals' = Counted(d, active, auto)
    <3>1. totals' = Counted(d, Points(r) # 0,
                            Points(r) # 0 /\ AnalyzeSegment(SubSeq(seq, r.from, r.to)).is_confident
                                          /\ AnalyzeSegment(SubSeq(seq, r.from, r.to)).is_auto)
      BY DEF Classify
    <3>2. QED
      BY <3>1
  <2>3. QED
    BY <2>2 DEF Classify
<1>2. i \in 1..(Len(segments) + 1) /\ Len(segments) \in Nat /\ segments \in Seq(Spans)
      /\ i \in DOMAIN segments /\ seq \in Seq(Snapshots) /\ Tiles(segments)
      /\ totals \in [observed : Int, uptime : Int, downtime : Int, auto : Int]
  BY <1>1, InvParts DEF DurationInv, TypeOK
<1>3. r \in Spans /\ InSamples(r) /\ Linked(r) /\ r.from \in Int /\ r.to \in Int
  <2>1. r \in Spans /\ InSamples(r) /\ Linked(r)
    BY <1>2 DEF Tiles, SpacingInv
  <2>2. QED
    BY <2>1 DEF Spans
<1>4. Reached \in Int /\ 1 <= Reached /\ Follows(Reached, r.from)
  <2>1. CASE i = 1
    BY <1>2, <2>1 DEF Reached, Tiles, Follows
  <2>2. CASE i # 1
    <3>1. i \in 2..Len(segments) /\ i - 1 \in DOMAIN segments
      BY <1>1, <1>2, <2>2
    <3>2. segments[i - 1] \in Spans /\ InSamples(segments[i - 1])
          /\ Follows(segments[i - 1].to, r.from)
      BY <1>2, <3>1 DEF Tiles
    <3>3. QED
      BY <2>2, <3>2 DEF Reached, Spans, InSamples
  <2>3. QED
    BY <2>1, <2>2
<1>5. Reached' = r.to
  BY <1>1, <1>2 DEF Reached
<1>6. Orderly' = Orderly /\ \A k : ConnectedUpTo(k)' = ConnectedUpTo(k)
  BY <1>1 DEF Orderly, InOrder, ReadsNothingFreed, Samples, ConnectedUpTo, Connected
<1>7. ASSUME Orderly
      PROVE  /\ totals'.observed = Interval * Cardinality(ConnectedUpTo(r.to))
             /\ totals'.auto \in 0..totals'.uptime
  <2>1. d \in Int /\ d = Interval * (r.to - r.from)
    <3>1. Joined(seq, TRUE)
      BY <1>7 DEF Orderly, SpacingInv
    <3>2. QED
      BY <1>2, <1>3, <3>1, DurationOfLinked
  <2>2. r.to - r.from \in Nat /\ Interval \in Nat
    BY <1>3, IntervalAssumption DEF InSamples
  <2>3. d >= 0
    BY <2>1, <2>2
  <2> DEFINE c == Cardinality(ConnectedUpTo(Reached))
  <2>4. c \in Nat
    BY <1>4, ConnectedFinite
  <2>5. Cardinality(ConnectedUpTo(r.to)) = c + (r.to - r.from)
    BY <1>3, <1>4, ConnectedByRun DEF InSamples
  <2>6. totals.observed = Interval * c /\ totals.auto \in 0..totals.uptime
    BY <1>1, <1>7 DEF DurationInv
  <2> HIDE DEF d, c
  <2>7. Interval * (c + (r.to - r.from)) = Interval * c + Interval * (r.to - r.from)
    BY <2>2, <2>4
  <2>8. totals'.observed = totals.observed + d
    BY <1>1 DEF Counted
  <2>9. totals'.auto \in 0..totals'.uptime
    <3>1. PICK active \in BOOLEAN, auto \in BOOLEAN : (auto => active) /\ totals' = Counted(d, active, auto)
      BY <1>1
    <3>2. /\ totals'.uptime = IF active THEN totals.uptime + d ELSE totals.uptime
          /\ totals'.auto = IF auto THEN totals.auto + d ELSE totals.auto
      BY <3>1 DEF Counted
    <3>3. totals.uptime \in Int /\ totals.auto \in Int
      BY <1>2
    <3>4. QED
      BY <2>1, <2>3, <2>6, <3>1, <3>2, <3>3
  <2>10. QED
    BY <2>1, <2>5, <2>6, <2>7, <2>8, <2>9
<1>8. i' \in 1..(Len(segments') + 1)
  BY <1>1, <1>2
<1>9. ConnectedUpTo(Reached)' = ConnectedUpTo(r.to)
  <2>1. ConnectedUpTo(Reached)' = {j \in 2..Reached' : Connected(j)'}
    BY DEF ConnectedUpTo
  <2>2. {j \in 2..Reached' : Connected(j)'} = {j \in 2..r.to : Connected(j)}
    BY <1>1, <1>5 DEF Connected
  <2>3. QED
    BY <2>1, <2>2 DEF ConnectedUpTo
<1>10. QED
  <2> HIDE DEF r
  <2>1. stage' = "classifying"
    BY <1>1
  <2>2. Orderly' => /\ totals'.observed = Interval * Cardinality(ConnectedUpTo(Reached)')
                    /\ totals'.auto \in 0..totals'.uptime
    BY <1>6, <1>7, <1>9
  <2>3. QED
    BY <1>8, <2>1, <2>2 DEF DurationInv

LEMMA DurationPreserved ==
    ASSUME SegmentationInv, SpacingInv, DurationInv, [Next]_vars
    PROVE  DurationInv'
<1>1. ASSUME stage \notin {"classifying", "answered"}, stage' \notin {"classifying", "answered"},
             totals' = totals
      PROVE  DurationInv'
  BY <1>1 DEF DurationInv
<1>2. ASSUME NEW verdict, Reading(verdict), stage' = stage \/ stage' = "internal"
      PROVE  DurationInv'
  BY <1>1, <1>2 DEF Reading
<1>3. ASSUME Prepare PROVE DurationInv'
  BY <1>1, <1>3 DEF Prepare
<1>4. ASSUME Grow PROVE DurationInv'
  BY <1>2, <1>4 DEF Grow
<1>5. ASSUME Track PROVE DurationInv'
  BY <1>2, <1>5 DEF Track
<1>6. ASSUME BreakAtGap PROVE DurationInv'
  BY <1>2, <1>6 DEF BreakAtGap, Restart
<1>7. ASSUME BreakAtChange PROVE DurationInv'
  BY <1>2, <1>7 DEF BreakAtChange, Restart
<1>8. ASSUME BreakAtShift PROVE DurationInv'
  BY <1>2, <1>8 DEF BreakAtShift
<1>9. ASSUME FinishDetection PROVE DurationInv'
  <2>1. /\ stage = "detecting" /\ stage' = "classifying" /\ i' = 1 /\ totals' = totals
        /\ segments' = Append(segments, run) /\ seq' = seq
    BY <1>9 DEF FinishDetection
  <2>2. totals' = NoTotals
    BY <2>1 DEF DurationInv
  <2>3. Len(segments') \in Nat
    BY <2>1, InvParts DEF TypeOK
  <2>4. /\ totals'.observed = Interval * Cardinality(ConnectedUpTo(Reached)')
        /\ totals'.auto \in 0..totals'.uptime
    <3>1. ConnectedUpTo(Reached)' = {}
      BY <2>1 DEF Reached, ConnectedUpTo
    <3>2. Cardinality(ConnectedUpTo(Reached)') = 0
      BY <3>1, FS_EmptySet
    <3>3. QED
      BY <2>2, <3>2, IntervalAssumption DEF NoTotals
  <2>5. QED
    BY <2>1, <2>3, <2>4 DEF DurationInv
<1>10. ASSUME UNCHANGED <<input, seq, i, segments, totals>>, stage \in {"classifying", "answered"},
              stage' \in {"classifying", "answered"},
              stage' = "answered" => i = Len(segments) + 1
       PROVE  DurationInv'
  <2>1. Orderly' = Orderly /\ Reached' = Reached
    BY <1>10 DEF Orderly, InOrder, ReadsNothingFreed, Samples, Reached
  <2>2. ConnectedUpTo(Reached)' = ConnectedUpTo(Reached)
    BY <1>10, <2>1 DEF ConnectedUpTo, Connected
  <2>3. QED
    BY <1>10, <2>1, <2>2 DEF DurationInv
<1>11. ASSUME Answer PROVE DurationInv'
  <2>1. /\ stage = "classifying" /\ stage' = "answered" /\ i > Len(segments)
        /\ UNCHANGED <<input, seq, i, segments, totals>>
    BY <1>11 DEF Answer
  <2>2. i = Len(segments) + 1
    <3>1. i \in 1..(Len(segments) + 1) /\ Len(segments) \in Nat
      BY <2>1, InvParts DEF DurationInv, TypeOK
    <3>2. QED
      BY <2>1, <3>1
  <2>3. QED
    BY <1>10, <2>1, <2>2
<1>12. ASSUME UNCHANGED vars PROVE DurationInv'
  <2>1. CASE stage \in {"classifying", "answered"}
    BY <1>10, <1>12, <2>1 DEF DurationInv, vars
  <2>2. CASE stage \notin {"classifying", "answered"}
    BY <1>1, <1>12, <2>2 DEF vars
  <2>3. QED
    BY <2>1, <2>2
<1>13. QED
  BY <1>3, <1>4, <1>5, <1>6, <1>7, <1>8, <1>9, <1>11, <1>12, ClassifyDurations DEF Next

LEMMA InvAddsUp ==
    ASSUME SegmentationInv, DurationInv
    PROVE  DurationsAddUp
<1>1. TimeIsSplit
  BY InvParts
<1>2. ASSUME stage = "answered", Orderly
      PROVE  totals.observed = Interval * Cardinality({k \in Consecutive : Connected(k)})
  <2>1. i = Len(segments) + 1 /\ totals.observed = Interval * Cardinality(ConnectedUpTo(Reached))
    BY <1>2 DEF DurationInv
  <2>2. segments # <<>> /\ segments[Len(segments)].to = Len(seq) /\ TypeOK
    BY <1>2, InvParts
  <2>3. Len(segments) \in Nat /\ Len(segments) # 0 /\ DOMAIN seq = 1..Len(seq) /\ Len(seq) \in Nat
    BY <2>2, EmptySeq DEF TypeOK
  <2>4. Reached = Len(seq)
    BY <2>1, <2>2, <2>3 DEF Reached
  <2>5. ConnectedUpTo(Len(seq)) = {k \in Consecutive : Connected(k)}
    BY <2>3 DEF ConnectedUpTo, Consecutive
  <2>6. QED
    BY <2>1, <2>4, <2>5
<1>3. stage = "answered" /\ Orderly => totals.auto \in 0..totals.uptime
  BY DEF DurationInv
<1>4. QED
  BY <1>1, <1>2, <1>3 DEF Orderly, DurationsAddUp

-----------------------------------------------------------------------------
(* Every difference is accepted as some games or rejected, so that what is *)
(* left of a segment without the rejected ones is covered by games.        *)

LEMMA GameCountIs == \A d, est : GameCount(d, est) \in 0..3
<1> TAKE d, est
<1>1. \E n : GameCount(d, est) = IF n \in 1..3 /\ 5 * Abs(d * Scale - n * est) <= est THEN n ELSE 0
  BY DEF GameCount
<1>2. PICK n : GameCount(d, est) = IF n \in 1..3 /\ 5 * Abs(d * Scale - n * est) <= est THEN n ELSE 0
  BY <1>1
<1>3. CASE n \in 1..3 /\ 5 * Abs(d * Scale - n * est) <= est
  <2>1. GameCount(d, est) = n /\ n \in 1..3
    BY <1>2, <1>3
  <2>2. QED
    BY <2>1
<1>4. CASE ~(n \in 1..3 /\ 5 * Abs(d * Scale - n * est) <= est)
  <2>1. GameCount(d, est) = 0
    BY <1>2, <1>4
  <2>2. QED
    BY <2>1
<1>5. QED
  BY <1>3, <1>4

LEMMA AllAreCounted ==
    ASSUME NEW est, NEW diffs, NEW n \in Nat, DOMAIN diffs = 1..n
    PROVE  /\ RunGameCountAnalysis(est, diffs).accepted \in Nat
           /\ RunGameCountAnalysis(est, diffs).rejected \in Nat
           /\ RunGameCountAnalysis(est, diffs).accepted
                + RunGameCountAnalysis(est, diffs).rejected = n
<1> DEFINE At(g) == {k \in DOMAIN diffs : GameCount(diffs[k], est) = g}
           some == At(1) \cup At(2) \cup At(3)
           none == At(0)
<1>1. RunGameCountAnalysis(est, diffs).accepted = Cardinality(some)
  BY Zenon DEF RunGameCountAnalysis
<1>2. RunGameCountAnalysis(est, diffs).rejected = Cardinality(none)
  BY Zenon DEF RunGameCountAnalysis
<1>3. some \cup none = 1..n
  <2>1. \A k \in 1..n : GameCount(diffs[k], est) \in {0, 1, 2, 3}
    <3>1. 0..3 = {0, 1, 2, 3}
      OBVIOUS
    <3>2. QED
      BY <3>1, GameCountIs
  <2>2. QED
    BY <2>1
<1>4. some \cap none = {}
  OBVIOUS
<1>5. IsFiniteSet(1..n) /\ Cardinality(1..n) = n
  BY FS_Interval
<1> HIDE DEF some, none
<1>6. IsFiniteSet(some) /\ IsFiniteSet(none)
  BY <1>3, <1>5, FS_Subset
<1>7. Cardinality(some) \in Nat /\ Cardinality(none) \in Nat
  BY <1>6, FS_CardinalityType
<1>8. Cardinality(some \cap none) = 0
  BY <1>4, FS_EmptySet
<1>9. Cardinality(some \cup none) = Cardinality(some) + Cardinality(none) - Cardinality(some \cap none)
  BY <1>6, FS_Union
<1>10. Cardinality(some) + Cardinality(none) = n
  <2>1. Cardinality(some \cup none) = n
    BY <1>3, <1>5, Zenon
  <2>2. QED
    BY <1>7, <1>8, <1>9, <2>1
<1>11. QED
  BY <1>1, <1>2, <1>7, <1>10

LEMMA ConfidentAnalysis ==
    ASSUME NEW points \in Seq(Snapshots), points # <<>>,
           Last(points).time - points[1].time <= Interval * (Len(points) - 1),
           AnalyzeSegment(points).is_confident
    PROVE  AnalyzeSegment(points).accepted * Interval >= ConfidentDuration
<1> DEFINE n == Len(points) - 1
           diffs == [k \in 1..n |-> points[k + 1].diff]
           est == FindInitialEpEstimate(FindClusters(diffs))
           length == Last(points).time - points[1].time
           count == RunGameCountAnalysis(est, diffs)
<1>1. n \in Nat /\ Len(points) = n + 1
  BY EmptySeq
<1>2. AnalyzeSegment(points) = ConcludeFrom(est, diffs, length)
  BY Zenon DEF AnalyzeSegment
<1>3. DOMAIN diffs = 1..n
  OBVIOUS
<1>4. length \in Int
  <2>1. points[1] \in Snapshots /\ points[Len(points)] \in Snapshots
    BY <1>1
  <2>2. QED
    BY <2>1, SnapshotFields DEF Last
<1>5. length <= Interval * n
  OBVIOUS
<1> HIDE DEF est, diffs, length, n
<1>6. ~(est <= 0)
  <2>1. ASSUME est <= 0 PROVE ~ConcludeFrom(est, diffs, length).is_confident
    BY <2>1, Zenon DEF ConcludeFrom
  <2>2. QED
    BY <1>2, <2>1
<1>7. AnalyzeSegment(points) = Conclude(count, length)
  BY <1>2, <1>6, Zenon DEF ConcludeFrom
<1>8. count.accepted \in Nat /\ count.rejected \in Nat /\ count.accepted + count.rejected = n
  BY <1>1, <1>3, AllAreCounted
<1> HIDE DEF count
<1>9. AnalyzeSegment(points).accepted = count.accepted
  BY <1>7 DEF Conclude
<1>10. MeasuredLength(length, count.rejected) >= ConfidentDuration
  <2>1. Conclude(count, length).is_confident
           = (count.games > 0 /\ MeasuredLength(length, count.rejected) >= ConfidentDuration)
    BY Zenon DEF Conclude
  <2>2. QED
    BY <1>7, <2>1, Zenon
<1>11. length - count.rejected * Interval >= ConfidentDuration
  BY <1>10 DEF MeasuredLength
<1> DEFINE a == count.accepted
           b == count.rejected
<1>12. Interval * n = a * Interval + b * Interval /\ a * Interval \in Int /\ b * Interval \in Int
  BY <1>8, IntervalAssumption
<1> HIDE DEF a, b
<1>13. length - b * Interval >= ConfidentDuration
  BY <1>11 DEF b
<1>14. a * Interval >= ConfidentDuration
  <2> DEFINE x == a * Interval
             y == b * Interval
  <2>1. x \in Int /\ y \in Int /\ length <= x + y /\ length - y >= ConfidentDuration
    BY <1>5, <1>12, <1>13
  <2> HIDE DEF x, y
  <2>2. x >= ConfidentDuration
    BY <1>4, <2>1, AnalysisAssumption
  <2>3. QED
    BY <2>2 DEF x
<1>15. QED
  BY <1>9, <1>14 DEF a

MeasuredInv == ConfidentIsMeasured /\ \E S : analysed \in Seq(S)

\* The condition is on the request, which no step changes.
LEMMA SameRequest ==
    ASSUME [Next]_vars
    PROVE  ReadsNothingFreed' = ReadsNothingFreed
<1>1. input' = input
  BY DEF Next, vars, Prepare, Grow, BreakAtGap, BreakAtChange, Track, BreakAtShift, Reading,
         FinishDetection, Classify, Answer
<1>2. QED
  BY <1>1 DEF ReadsNothingFreed, Samples

LEMMA MeasuredInit == Init => MeasuredInv
<1> SUFFICES ASSUME Init PROVE MeasuredInv
  OBVIOUS
<1>1. analysed = <<>> /\ DOMAIN analysed = {}
  BY DEF Init
<1>2. analysed \in Seq({})
  BY <1>1, EmptySeq
<1>3. QED
  BY <1>1, <1>2 DEF MeasuredInv, ConfidentIsMeasured

LEMMA ClassifyMeasured ==
    ASSUME SegmentationInv, SpacingInv, MeasuredInv, Classify
    PROVE  MeasuredInv'
<1> DEFINE r == segments[i]
           points == SubSeq(seq, r.from, r.to)
           new == [segment |-> r, result |-> AnalyzeSegment(points)]
<1>0. ReadsNothingFreed' = ReadsNothingFreed
  BY SameRequest DEF Next
<1>1. /\ stage = "classifying" /\ i <= Len(segments)
      /\ analysed' = Append(analysed, new) \/ analysed' = analysed
  BY Zenon DEF Classify
<1>2. /\ r \in Spans /\ InSamples(r) /\ Linked(r) /\ seq \in Seq(Snapshots)
      /\ ReadsNothingFreed => Joined(seq, FALSE)
      /\ r.from \in Int /\ r.to \in Int
  <2>1. segments \in Seq(Spans) /\ seq \in Seq(Snapshots) /\ Tiles(segments) /\ i \in Nat \ {0}
    BY InvParts DEF TypeOK
  <2>2. i \in DOMAIN segments
    BY <1>1, <2>1
  <2>3. /\ r \in Spans /\ InSamples(r) /\ Linked(r)
        /\ ReadsNothingFreed => Joined(seq, FALSE)
    <3>1. r \in Spans
      BY <2>1, <2>2
    <3>2. InSamples(r)
      BY <2>1, <2>2 DEF Tiles
    <3>3. Linked(r) /\ (ReadsNothingFreed => Joined(seq, FALSE))
      BY <2>2 DEF SpacingInv
    <3>4. QED
      BY <3>1, <3>2, <3>3
  <2>4. QED
    BY <2>1, <2>3 DEF Spans
<1> HIDE DEF r
<1>3. /\ points \in Seq(Snapshots) /\ Len(points) = r.to - r.from + 1
      /\ \A k \in 1..(r.to - r.from + 1) : points[k] = seq[r.from + k - 1]
  BY <1>2, SubSeqProperties DEF InSamples
<1>4. points # <<>> /\ Last(points) = seq[r.to] /\ points[1] = seq[r.from]
  <2>1. r.to - r.from + 1 \in 1..(r.to - r.from + 1) /\ 1 \in 1..(r.to - r.from + 1)
    BY <1>2 DEF InSamples
  <2>2. r.from + (r.to - r.from + 1) - 1 = r.to /\ r.from + 1 - 1 = r.from
    BY <1>2
  <2> HIDE DEF points
  <2>3. QED
    BY <1>3, <2>1, <2>2, EmptySeq DEF Last
<1>5. ReadsNothingFreed => seq[r.to].time - seq[r.from].time <= Interval * (r.to - r.from)
  <2>1. FALSE \in BOOLEAN
    OBVIOUS
  <2>2. QED
    BY <1>2, <2>1, DurationOfLinked
<1>6. new.result.is_confident /\ ReadsNothingFreed => new.result.accepted * Interval >= ConfidentDuration
  <2> HIDE DEF points
  <2>1. Len(points) - 1 = r.to - r.from
    BY <1>2, <1>3
  <2>2. ReadsNothingFreed => Last(points).time - points[1].time <= Interval * (Len(points) - 1)
    BY <1>4, <1>5, <2>1
  <2>3. AnalyzeSegment(points).is_confident /\ ReadsNothingFreed
           => AnalyzeSegment(points).accepted * Interval >= ConfidentDuration
    BY <1>3, <1>4, <2>2, ConfidentAnalysis
  <2>4. new.result = AnalyzeSegment(points)
    OBVIOUS
  <2>5. QED
    BY <2>3, <2>4
<1> HIDE DEF new
<1>7. CASE analysed' = Append(analysed, new)
  <2>1. PICK S : analysed \in Seq(S)
    BY DEF MeasuredInv
  <2> DEFINE T == S \cup {new}
  <2>2. analysed \in Seq(T) /\ new \in T
    BY <2>1
  <2> HIDE DEF T
  <2>3. /\ analysed' \in Seq(T) /\ Len(analysed) \in Nat
        /\ DOMAIN analysed' = 1..(Len(analysed) + 1)
        /\ analysed'[Len(analysed) + 1] = new
        /\ \A n \in 1..Len(analysed) : analysed'[n] = analysed[n] /\ n \in DOMAIN analysed
    BY <1>7, <2>2
  <2>4. ASSUME NEW n \in DOMAIN analysed', analysed'[n].result.is_confident, ReadsNothingFreed
        PROVE  analysed'[n].result.accepted * Interval >= ConfidentDuration
    <3>1. CASE n \in 1..Len(analysed)
      BY <2>3, <2>4, <3>1 DEF MeasuredInv, ConfidentIsMeasured
    <3>2. CASE n = Len(analysed) + 1
      BY <1>6, <2>3, <2>4, <3>2
    <3>3. QED
      BY <2>3, <3>1, <3>2
  <2>5. ConfidentIsMeasured'
    BY <1>0, <2>4 DEF ConfidentIsMeasured
  <2>6. QED
    BY <2>3, <2>5 DEF MeasuredInv
<1>8. CASE analysed' = analysed
  BY <1>0, <1>8 DEF MeasuredInv, ConfidentIsMeasured
<1>9. QED
  BY <1>1, <1>7, <1>8

LEMMA MeasuredPreserved ==
    ASSUME SegmentationInv, SpacingInv, MeasuredInv, [Next]_vars
    PROVE  MeasuredInv'
<1>1. ASSUME analysed' = analysed PROVE MeasuredInv'
  BY <1>1, SameRequest DEF MeasuredInv, ConfidentIsMeasured
<1>2. ASSUME NEW verdict, Reading(verdict) PROVE MeasuredInv'
  BY <1>1, <1>2 DEF Reading
<1>3. Grow \/ BreakAtGap \/ BreakAtChange \/ Track \/ BreakAtShift => MeasuredInv'
  BY <1>2 DEF Grow, BreakAtGap, BreakAtChange, Track, BreakAtShift
<1>4. Prepare \/ FinishDetection \/ Answer \/ UNCHANGED vars => MeasuredInv'
  BY <1>1 DEF Prepare, FinishDetection, Answer, vars
<1>5. QED
  BY <1>3, <1>4, ClassifyMeasured DEF Next

\* Runs are never across a gap, and the counts are right at every step
\* (the invariant of RunSegments' loop).
RunsInv == SegmentationInv /\ SpacingInv /\ DurationInv /\ MeasuredInv

\* In every state each run is linked, the time classified so far is an
\* interval for each connected sample up to it, and confident answers are
\* measured (BreakpointDetection and RunSegments).
THEOREM RunsAreCounted == Spec => []RunsInv
<1>1. Init => RunsInv
  BY InitInv, SpacingInit, DurationInit, MeasuredInit DEF RunsInv
<1>2. RunsInv /\ [Next]_vars => RunsInv'
  <2>1. SegmentationInv /\ [Next]_vars => SegmentationInv'
    BY NextPreserves
  <2>2. QED
    BY <2>1, SpacingPreserved, DurationPreserved, MeasuredPreserved DEF RunsInv
<1>3. QED
  BY <1>1, <1>2, PTL DEF Spec

\* Observed time is up- or downtime; unless interpolation read from a freed block
\* it is the time between connected samples, each counted once, and time on auto
\* is uptime (RunSegments).
THEOREM TimeAddsUp == Spec => []DurationsAddUp
<1>1. RunsInv => DurationsAddUp
  BY InvAddsUp DEF RunsInv
<1>2. QED
  BY <1>1, RunsAreCounted, PTL

\* A confident answer rests on kConfidentDuration of samples with games, unless
\* interpolation read from a freed block (AnalyzeSegment).
THEOREM ConfidenceIsMeasured == Spec => []ConfidentIsMeasured
<1>1. RunsInv => ConfidentIsMeasured
  BY DEF RunsInv, MeasuredInv
<1>2. QED
  BY <1>1, RunsAreCounted, PTL
=============================================================================
