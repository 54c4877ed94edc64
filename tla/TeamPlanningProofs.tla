------------------------- MODULE TeamPlanningProofs -------------------------
(***************************************************************************)
(* What holds of a page that edits a profile and builds teams from it:     *)
(* the event bonus is never more than one edit behind the saved data; what *)
(* is saved can be loaded and an answer uses the player's cards; the       *)
(* support deck that is shown is the best one; a team of a whole bonus has *)
(* a positive objective exactly when it can earn the target; the           *)
(* answer of the max power builder is the most powerful team, although it  *)
(* is put together card by card.  From it and the answer of the max bonus  *)
(* builder the exhaustive search gets limits that cost it no better team.  *)
(*                                                                         *)
(* Sums and sortings of the model are folds.  A claim about them is proved *)
(* by looking at the smallest number, or set, for which it would fail.     *)
(***************************************************************************)
EXTENDS TeamPlanning, FiniteSetTheorems, SequenceTheorems, WellFoundedInduction, TLAPS

\* The flag is that of the saved data between any two edits; only the bonus lags behind it.
OffsetInv == offset = OffsetFor(proto)

\* What the property says of a step.
Settles ==
    proto' # proto /\ proto'.useOld = proto.useOld =>
      eventBonus' = EventBonusFor(proto', OffsetFor(proto'))

\* UpdateProfile sets the flag last, from the data it was given.
LEMMA UpdateKeepsInStep ==
    ASSUME NEW p, NEW oldMode, OffsetInv, UpdateProfile(p, oldMode)
    PROVE  OffsetInv' /\ Settles
<1>1. proto' = p /\ offset' = OffsetFor(p) /\ eventBonus' = EventBonusFor(p, offset)
  BY DEF UpdateProfile
<1>2. OffsetInv'
  BY <1>1 DEF OffsetInv, OffsetFor
<1>3. ASSUME p.useOld = proto.useOld
      PROVE  offset = OffsetFor(p)
  BY <1>3 DEF OffsetInv, OffsetFor
<1> QED
  BY <1>1, <1>2, <1>3 DEF Settles

\* Every edit is a call of UpdateProfile.
LEMMA EditUpdates ==
    ASSUME Edit
    PROVE  \E p : \E oldMode \in {"multi", mode} : UpdateProfile(p, oldMode)
BY DEF Edit, SetCardOwned, SetCardField, SetAreaItemLevel, SetCharacterRank, SetTitleBonus,
       SetMySekaiFixtureCrafted, SetMySekaiGateLevel, SetEventBonusByEvent, SetCustomEventAttr,
       SetCustomEventCharacter, SetCustomEventChapter, SetCustomEventWorldBloomVersion,
       SetUseOldSubunitlessBonus, ImportCardsFromCsv, Update

\* A build leaves the page alone.
LEMMA BuildKeepsPage ==
    ASSUME Build
    PROVE  UNCHANGED page
BY DEF Build, BuildMaxPower, BuildMaxBonus, BuildNaive, BuildChallengeLive, StartSearch,
       AnswersOneOf, Answers

\* A build leaves the page alone, an edit brings the bonus in step.
LEMMA StepKeepsInStep ==
    ASSUME OffsetInv, [Next]_vars
    PROVE  OffsetInv' /\ (proto' # proto => Settles)
<1>1. CASE Edit
  BY <1>1, EditUpdates, UpdateKeepsInStep
<1>2. CASE Build
  BY <1>2, BuildKeepsPage DEF page, OffsetInv, OffsetFor
<1>3. CASE UNCHANGED vars
  BY <1>3 DEF vars, page, OffsetInv, OffsetFor
<1> QED
  BY <1>1, <1>2, <1>3 DEF Next

\* The flag UpdateProfile reads is the one the saved data asks for, except that of the edit itself.
THEOREM FlagFollowsBox == Spec => []OffsetInv
<1>1. Init => OffsetInv
  BY DEF Init, OffsetInv
<1>2. OffsetInv /\ [Next]_vars => OffsetInv'
  BY StepKeepsInStep
<1> QED
  BY <1>1, <1>2, PTL DEF Spec

\* After any number of edits and imports, an edit that leaves the box "use pre-bloom fes
\* subunitless VS bonus" alone brings the bonus of every card in step with it.
THEOREM BonusSettles == Spec => OffsetSettles
<1>1. OffsetInv /\ [Next]_vars => [Settles]_vars
  BY StepKeepsInStep DEF Settles
<1>2. [][Settles]_vars => OffsetSettles
  BY PTL DEF OffsetSettles, Settles
<1> QED
  BY <1>1, <1>2, FlagFollowsBox, PTL DEF Spec

-----------------------------------------------------------------------------
(***************************************************************************)
(* Loops over a sequence of cards.  A fold is an entry of a function       *)
(* defined by recursion over the sets of positions.  It is shown that      *)
(* there is such a function, and from it that the fold is what the loop of *)
(* the code computes: the result after n cards is one step from the result *)
(* after n - 1.  The step is named by how: a sum of what f gives each      *)
(* card, the cards left for the support deck, the rows of an import.       *)
(***************************************************************************)
NoneRead == [ok |-> TRUE, cards |-> [id \in {} |-> CreateMaxCardState(id)]]
SumOf(f) == [loop |-> "sum", by |-> f]
LeftBy(ids) == [loop |-> "left", by |-> ids]
Import == [loop |-> "import", by |-> {}]

Start(how) == IF how.loop = "sum" THEN 0 ELSE IF how.loop = "left" THEN <<>> ELSE NoneRead
Taken(how, acc, x) ==
  IF how.loop = "sum" THEN acc + how.by[x]
  ELSE IF how.loop = "left" THEN IF x.id \in how.by THEN acc ELSE Append(acc, x)
  ELSE ReadRow(acc, x)

Builds(g, how, s, D) ==
  g = [T \in SUBSET D |-> IF T = {} THEN Start(how) ELSE Taken(how, g[T \ {Max(T)}], s[Max(T)])]
Folded(how, s) == (CHOOSE g : Builds(g, how, s, DOMAIN s))[DOMAIN s]

\* What is left for the support deck is such a loop over the sorted pool.
LEMMA LeftIsFolded == ASSUME NEW s, NEW ids PROVE SupportLeft(s, ids) = Folded(LeftBy(ids), s)
BY DEF SupportLeft, FoldLeft, MapThenFoldSet, Folded, Builds, Taken, Start, LeftBy

\* The import of a file is such a loop over its rows.
LEMMA ImportIsFolded == ASSUME NEW rows PROVE LoadCardsFromCsv(rows) = Folded(Import, rows)
BY DEF LoadCardsFromCsv, FoldLeft, MapThenFoldSet, Folded, Builds, Taken, Start, Import, NoneRead

\* Of the subsets of a finite set that are bad, one is smallest.
LEMMA SmallestSubset ==
  ASSUME NEW S, IsFiniteSet(S), NEW Bad \in SUBSET SUBSET S, Bad # {}
  PROVE  \E T \in Bad : \A U \in SUBSET T : U \in Bad => U = T
<1>1. IsWellFoundedOn(StrictSubsetOrdering(S), SUBSET S)
  BY FS_StrictSubsetOrderingWellFounded, FS_FiniteSubsetsOfFinite
<1>2. PICK T \in Bad : \A U \in Bad : ~ (<<U, T>> \in StrictSubsetOrdering(S))
  BY <1>1, WFMin
<1>3. QED
  BY <1>2 DEF StrictSubsetOrdering

\* A set of natural numbers has a least one.
LEMMA LeastNat ==
  ASSUME NEW T, T \subseteq Nat, T # {}
  PROVE  \E m \in T : \A n \in T : m <= n
<1> DEFINE R == OpToRel(<, Nat)
<1>1. \A m, n \in Nat : <<m, n>> \in R <=> m < n
  BY DEF OpToRel
<1>2. IsWellFoundedOn(R, Nat)
  BY NatLessThanWellFounded
<1>3. PICK m \in T : \A n \in T : ~ (<<n, m>> \in R)
  <2> HIDE DEF R
  <2>1. QED
    BY <1>2, WFMin
<1>4. \A n \in T : ~ (n < m)
  BY <1>1, <1>3
<1>5. QED
  BY <1>4

\* A set of positions has a last one.
LEMMA MaxOfPositions ==
  ASSUME NEW n \in Nat, NEW T \in SUBSET (1..n), T # {}
  PROVE  Max(T) \in T /\ \A x \in T : x <= Max(T)
<1> DEFINE Left == {n - x : x \in T}
<1>1. \A x \in T : x \in Nat /\ n - x \in Nat
  <2>1. \A x \in 1..n : x \in Nat /\ n - x \in Nat
    OBVIOUS
  <2>2. QED
    BY <2>1
<1>2. PICK m \in Left : \A k \in Left : m <= k
  <2>1. Left \subseteq Nat /\ Left # {}
    BY <1>1
  <2> HIDE DEF Left
  <2>2. QED
    BY <2>1, LeastNat
<1>3. PICK x \in T : m = n - x
  BY <1>2
<1>4. \A y \in T : x >= y
  BY <1>1, <1>2, <1>3
<1>5. \E z \in T : \A y \in T : z >= y
  BY <1>4
<1>6. Max(T) \in T /\ \A y \in T : Max(T) >= y
  BY <1>5, Zenon DEF Max
<1>7. QED
  BY <1>6

\* Finite sets whose subsets have a last element.
Positions(D) == IsFiniteSet(D) /\ \A T \in SUBSET D : T # {} => Max(T) \in T

\* The positions of a sequence have greatest elements, and so have their subsets.
LEMMA IntervalPositions == \A n \in Nat : Positions(1..n)
<1> TAKE n \in Nat
<1>1. IsFiniteSet(1..n)
  BY FS_Interval
<1>2. QED
  BY <1>1, MaxOfPositions DEF Positions

LEMMA SubsetPositions ==
  ASSUME NEW D, Positions(D), NEW R \in SUBSET D
  PROVE  Positions(R)
BY FS_Subset DEF Positions

\* What an entry of the function is made from.
LEMMA BuildsAt ==
  ASSUME NEW how, NEW s, NEW D, NEW g, Builds(g, how, s, D), NEW T \in SUBSET D
  PROVE  g[T] = IF T = {} THEN Start(how) ELSE Taken(how, g[T \ {Max(T)}], s[Max(T)])
<1> DEFINE Entry(U) == IF U = {} THEN Start(how) ELSE Taken(how, g[U \ {Max(U)}], s[Max(U)])
<1>1. g = [U \in SUBSET D |-> Entry(U)]
  BY DEF Builds
<1> HIDE DEF Entry
<1>2. g[T] = Entry(T)
  BY <1>1
<1>3. QED
  BY <1>2 DEF Entry

LEMMA BuildsUpTo ==
  ASSUME NEW how, NEW s, NEW D, NEW g, Builds(g, how, s, D), NEW T, T \subseteq D, T # {}
  PROVE  g[T] = Taken(how, g[T \ {Max(T)}], s[Max(T)])
BY BuildsAt

LEMMA BuildsAtEmpty ==
  ASSUME NEW how, NEW s, NEW D, NEW g, Builds(g, how, s, D)
  PROVE  g[{}] = Start(how)
<1>1. {} \in SUBSET D
  OBVIOUS
<1>2. QED
  BY <1>1, BuildsAt

\* Two such functions agree where both have an entry.
LEMMA BuildsAgree ==
  ASSUME NEW how, NEW s, NEW D, Positions(D), NEW R \in SUBSET D, NEW g, NEW h,
         Builds(g, how, s, D), Builds(h, how, s, R)
  PROVE  \A T \in SUBSET R : g[T] = h[T]
<1> DEFINE Bad == {T \in SUBSET R : g[T] # h[T]}
<1> SUFFICES ASSUME Bad # {} PROVE FALSE
  OBVIOUS
<1>1. IsFiniteSet(R)
  BY SubsetPositions DEF Positions
<1>2. PICK T \in Bad : \A U \in SUBSET T : U \in Bad => U = T
  <2>1. Bad \in SUBSET SUBSET R
    OBVIOUS
  <2> HIDE DEF Bad
  <2>2. QED
    BY <1>1, <2>1, SmallestSubset
<1>3. T \in SUBSET R /\ T \in SUBSET D /\ g[T] # h[T]
  BY <1>2
<1>4. T # {}
  <2>1. g[{}] = Start(how) /\ h[{}] = Start(how)
    BY BuildsAtEmpty
  <2>2. QED
    BY <1>3, <2>1
<1>5. Max(T) \in T
  BY <1>3, <1>4 DEF Positions
<1>6. g[T \ {Max(T)}] = h[T \ {Max(T)}]
  BY <1>2, <1>3, <1>5
<1>7. /\ g[T] = Taken(how, g[T \ {Max(T)}], s[Max(T)])
      /\ h[T] = Taken(how, h[T \ {Max(T)}], s[Max(T)])
  BY <1>3, <1>4, BuildsAt
<1>8. QED
  BY <1>3, <1>6, <1>7

\* There is one for each sequence.
LEMMA BuildsExist ==
  ASSUME NEW how, NEW s, NEW D, Positions(D)
  PROVE  \E g : Builds(g, how, s, D)
<1> DEFINE Bad == {T \in SUBSET D : ~ \E g : Builds(g, how, s, T)}
<1> SUFFICES ASSUME Bad # {} PROVE FALSE
  OBVIOUS
<1>1. IsFiniteSet(D)
  BY DEF Positions
<1>2. PICK T \in Bad : \A U \in SUBSET T : U \in Bad => U = T
  <2>1. Bad \in SUBSET SUBSET D
    OBVIOUS
  <2> HIDE DEF Bad
  <2>2. QED
    BY <1>1, <2>1, SmallestSubset
<1>3. T \in SUBSET D /\ ~ \E g : Builds(g, how, s, T)
  BY <1>2
<1> DEFINE Table(U) == CHOOSE g : Builds(g, how, s, U)
           Below(U) == IF U = {} THEN Start(how)
                       ELSE Taken(how, Table(U \ {Max(U)})[U \ {Max(U)}], s[Max(U)])
           g == [U \in SUBSET T |-> Below(U)]
<1>4. \A U \in SUBSET T : U # T => Builds(Table(U), how, s, U)
  BY <1>2, <1>3
<1>5. ASSUME NEW U \in SUBSET T, U # {}
      PROVE  Table(U \ {Max(U)})[U \ {Max(U)}] = Below(U \ {Max(U)})
  <2> DEFINE W == U \ {Max(U)}
  <2>1. Max(U) \in U
    BY <1>3, <1>5 DEF Positions
  <2>2. W \in SUBSET T /\ W # T /\ Builds(Table(W), how, s, W) /\ Positions(W)
    BY <1>3, <1>4, <2>1, SubsetPositions
  <2>3. CASE W = {}
    <3>1. Builds(Table({}), how, s, {})
      BY <2>2, <2>3
    <3> HIDE DEF Table, W
    <3>2. Table({})[{}] = Start(how)
      BY <3>1, BuildsAtEmpty
    <3>3. QED
      BY <2>3, <3>2 DEF W
  <2>4. CASE W # {}
    <3> DEFINE V == W \ {Max(W)}
    <3>1. V \in SUBSET W /\ V # T /\ V \in SUBSET T
      BY <2>2, <2>4 DEF Positions
    <3>2. Builds(Table(V), how, s, V)
      BY <1>4, <3>1
    <3>3. Table(W)[W] = Taken(how, Table(W)[V], s[Max(W)])
      <4> HIDE DEF Table, W
      <4>1. W \in SUBSET W
        OBVIOUS
      <4>2. QED
        BY <2>2, <2>4, <4>1, BuildsAt
    <3>4. Table(W)[V] = Table(V)[V]
      <4>1. V \in SUBSET V
        OBVIOUS
      <4> HIDE DEF Table, W, V
      <4>2. \A X \in SUBSET V : Table(W)[X] = Table(V)[X]
        BY <2>2, <3>1, <3>2, BuildsAgree
      <4>3. QED
        BY <4>1, <4>2
    <3>5. QED
      BY <2>4, <3>3, <3>4
  <2>5. QED
    BY <2>3, <2>4
<1>6. Builds(g, how, s, T)
  <2>1. ASSUME NEW U \in SUBSET T
        PROVE  Below(U) = IF U = {} THEN Start(how) ELSE Taken(how, g[U \ {Max(U)}], s[Max(U)])
    <3>1. U \ {Max(U)} \in SUBSET T
      OBVIOUS
    <3>2. g[U \ {Max(U)}] = Below(U \ {Max(U)})
      BY <3>1
    <3>3. CASE U = {}
      BY <3>3
    <3>4. CASE U # {}
      <4>1. Below(U) = Taken(how, Table(U \ {Max(U)})[U \ {Max(U)}], s[Max(U)])
        BY <3>4
      <4>2. Table(U \ {Max(U)})[U \ {Max(U)}] = Below(U \ {Max(U)})
        BY <1>5, <3>4
      <4> HIDE DEF Below, Table, g
      <4>3. QED
        BY <3>2, <3>4, <4>1, <4>2
    <3>5. QED
      BY <3>3, <3>4
  <2> HIDE DEF Below
  <2>2. QED
    BY <2>1 DEF Builds
<1>7. QED
  BY <1>3, <1>6

\* What the loop has built after each card.
Loop(h, how, s) ==
  /\ h[0] = Start(how)
  /\ \A k \in 1..Len(s) : h[k] = Taken(how, h[k - 1], s[k])

\* The function a fold takes is the only one, and its entries for the first k positions are a loop.
LEMMA LoopExists ==
  ASSUME NEW how, NEW S, NEW s \in Seq(S)
  PROVE  \E h : Loop(h, how, s) /\ (CHOOSE g : Builds(g, how, s, DOMAIN s))[DOMAIN s] = h[Len(s)]
<1> DEFINE n == Len(s)
           g == CHOOSE g : Builds(g, how, s, DOMAIN s)
           h == [k \in 0..n |-> g[1..k]]
<1>1. n \in Nat /\ DOMAIN s = 1..n
  OBVIOUS
<1>2. Builds(g, how, s, 1..n)
  BY <1>1, BuildsExist, IntervalPositions
<1> HIDE DEF n, g
<1>3. h[0] = Start(how)
  <2>1. h[0] = g[1..0] /\ 1..0 = {}
    BY <1>1
  <2>2. QED
    BY <1>2, <2>1, BuildsAtEmpty
<1>4. ASSUME NEW k \in 1..n
      PROVE  h[k] = Taken(how, h[k - 1], s[k])
  <2>1. 1..k \in SUBSET (1..n) /\ 1..k # {} /\ k \in Nat /\ k - 1 \in 0..n /\ k \in 0..n
    BY <1>1
  <2>2. Max(1..k) = k
    <3>1. 1..k \in SUBSET (1..k) /\ k \in 1..k
      BY <2>1
    <3>2. Max(1..k) \in 1..k /\ \A x \in 1..k : x <= Max(1..k)
      BY <2>1, <3>1, MaxOfPositions
    <3>3. QED
      BY <3>1, <3>2
  <2>3. (1..k) \ {k} = 1..(k - 1)
    BY <2>1
  <2>4. g[1..k] = Taken(how, g[1..(k - 1)], s[k])
    <3> DEFINE D == 1..n
               T == 1..k
               R == 1..(k - 1)
    <3>1. T \subseteq D /\ T # {} /\ Max(T) = k /\ T \ {k} = R /\ Builds(g, how, s, D)
      BY <1>2, <2>1, <2>2, <2>3
    <3> HIDE DEF D, T, R
    <3>2. g[T] = Taken(how, g[T \ {Max(T)}], s[Max(T)])
      BY <3>1, BuildsUpTo
    <3>3. g[T] = Taken(how, g[R], s[k])
      BY <3>1, <3>2, Zenon
    <3>4. QED
      BY <3>3 DEF T, R
  <2>5. QED
    BY <2>1, <2>4
<1>5. n \in 0..n /\ h[n] = g[1..n]
  BY <1>1
<1>6. Loop(h, how, s)
  BY <1>3, <1>4 DEF Loop, n
<1>7. g[DOMAIN s] = h[Len(s)]
  BY <1>1, <1>5 DEF n
<1>8. QED
  BY <1>6, <1>7 DEF g

\* A fold is what the loop ends with.
LEMMA FoldIsLoop ==
  ASSUME NEW how, NEW S, NEW s \in Seq(S)
  PROVE  \E h : Loop(h, how, s) /\ Folded(how, s) = h[Len(s)]
BY LoopExists DEF Folded

\* Induction over the first numbers, for a set of them.
LEMMA CountInduction ==
  ASSUME NEW n \in Nat, NEW G, 0 \in G, \A k \in 1..n : k - 1 \in G => k \in G
  PROVE  \A k \in 0..n : k \in G
<1> DEFINE Bad == {k \in 0..n : k \notin G}
<1> SUFFICES ASSUME Bad # {} PROVE FALSE
  OBVIOUS
<1>1. PICK k \in Bad : \A e \in Bad : k <= e
  <2>1. Bad \subseteq Nat
    OBVIOUS
  <2> HIDE DEF Bad
  <2>2. QED
    BY <2>1, LeastNat
<1>2. k \in 1..n /\ k - 1 \in 0..n /\ k - 1 \notin Bad /\ k \notin G
  BY <1>1
<1>3. QED
  BY <1>2

-----------------------------------------------------------------------------
(* Sums over the cards of a team or a support deck.                        *)

\* The sum of the event bonuses, over a sequence of cards, is a fold of this kind.
LEMMA EventSumIsFolded ==
  ASSUME NEW S, NEW s \in Seq(S), NEW f, \A c \in S : f[c] = c.eventBonus
  PROVE  SumOver(s, LAMBDA c : c.eventBonus) = Folded(SumOf(f), s)
<1> DEFINE D == DOMAIN s
           Entry(g, T) == IF T = {} THEN 0 ELSE g[T \ {Max(T)}] + s[Max(T)].eventBonus
           P(g) == g = [T \in SUBSET D |-> Entry(g, T)]
           how == SumOf(f)
           Other(g, T) == IF T = {} THEN Start(how) ELSE Taken(how, g[T \ {Max(T)}], s[Max(T)])
<1>1. D = 1..Len(s) /\ Len(s) \in Nat
  OBVIOUS
<1>2. ASSUME NEW g, NEW T \in SUBSET D
      PROVE  Entry(g, T) = Other(g, T)
  <2>1. CASE T = {}
    BY <2>1 DEF SumOf, Start
  <2>2. CASE T # {}
    <3>1. Max(T) \in 1..Len(s)
      BY <1>1, <2>2, MaxOfPositions
    <3>2. s[Max(T)] \in S
      BY <3>1
    <3>3. f[s[Max(T)]] = s[Max(T)].eventBonus
      BY <3>2
    <3>4. how.loop = "sum" /\ how.by = f
      BY DEF SumOf
    <3> HIDE DEF how
    <3>5. QED
      BY <2>2, <3>3, <3>4 DEF Taken
  <2>3. QED
    BY <2>1, <2>2
<1>3. \A g : P(g) <=> Builds(g, how, s, D)
  <2> TAKE g
  <2>1. [T \in SUBSET D |-> Entry(g, T)] = [T \in SUBSET D |-> Other(g, T)]
    <3> HIDE DEF Entry, Other
    <3>1. QED
      BY <1>2
  <2>2. QED
    BY <2>1 DEF Builds
<1>4. SumOver(s, LAMBDA c : c.eventBonus) = (CHOOSE g : P(g))[D]
  BY DEF SumOver, FoldLeft, MapThenFoldSet
<1>5. (CHOOSE g : P(g)) = (CHOOSE g : Builds(g, how, s, D))
  <2> HIDE DEF P, how, D
  <2>1. QED
    BY <1>3
<1>6. QED
  BY <1>4, <1>5 DEF Folded

\* And so is the sum of the support bonuses.
LEMMA SupportSumIsFolded ==
  ASSUME NEW S, NEW s \in Seq(S), NEW f, \A c \in S : f[c] = c.supportBonus
  PROVE  SumOver(s, LAMBDA c : c.supportBonus) = Folded(SumOf(f), s)
<1> DEFINE D == DOMAIN s
           Entry(g, T) == IF T = {} THEN 0 ELSE g[T \ {Max(T)}] + s[Max(T)].supportBonus
           P(g) == g = [T \in SUBSET D |-> Entry(g, T)]
           how == SumOf(f)
           Other(g, T) == IF T = {} THEN Start(how) ELSE Taken(how, g[T \ {Max(T)}], s[Max(T)])
<1>1. D = 1..Len(s) /\ Len(s) \in Nat
  OBVIOUS
<1>2. ASSUME NEW g, NEW T \in SUBSET D
      PROVE  Entry(g, T) = Other(g, T)
  <2>1. CASE T = {}
    BY <2>1 DEF SumOf, Start
  <2>2. CASE T # {}
    <3>1. Max(T) \in 1..Len(s)
      BY <1>1, <2>2, MaxOfPositions
    <3>2. s[Max(T)] \in S
      BY <3>1
    <3>3. f[s[Max(T)]] = s[Max(T)].supportBonus
      BY <3>2
    <3>4. how.loop = "sum" /\ how.by = f
      BY DEF SumOf
    <3> HIDE DEF how
    <3>5. QED
      BY <2>2, <3>3, <3>4 DEF Taken
  <2>3. QED
    BY <2>1, <2>2
<1>3. \A g : P(g) <=> Builds(g, how, s, D)
  <2> TAKE g
  <2>1. [T \in SUBSET D |-> Entry(g, T)] = [T \in SUBSET D |-> Other(g, T)]
    <3> HIDE DEF Entry, Other
    <3>1. QED
      BY <1>2
  <2>2. QED
    BY <2>1 DEF Builds
<1>4. SumOver(s, LAMBDA c : c.supportBonus) = (CHOOSE g : P(g))[D]
  BY DEF SumOver, FoldLeft, MapThenFoldSet
<1>5. (CHOOSE g : P(g)) = (CHOOSE g : Builds(g, how, s, D))
  <2> HIDE DEF P, how, D
  <2>1. QED
    BY <1>3
<1>6. QED
  BY <1>4, <1>5 DEF Folded

\* What has been added up after each card.
Adds(h, f, s) == h[0] = 0 /\ \A k \in 1..Len(s) : h[k] = h[k - 1] + f[s[k]]

\* A sum adds a value at a time.
LEMMA SumLoop ==
  ASSUME NEW f, NEW S, NEW s \in Seq(S)
  PROVE  \E h : Adds(h, f, s) /\ Folded(SumOf(f), s) = h[Len(s)]
<1> DEFINE how == SumOf(f)
<1>1. how.loop = "sum" /\ how.by = f
  BY DEF SumOf
<1> HIDE DEF how
<1>2. PICK h : Loop(h, how, s) /\ Folded(how, s) = h[Len(s)]
  BY FoldIsLoop
<1>3. Adds(h, f, s)
  BY <1>1, <1>2 DEF Adds, Loop, Start, Taken
<1>4. QED
  BY <1>2, <1>3 DEF how

\* A sum of natural numbers is one.
LEMMA SumNat ==
  ASSUME NEW f, NEW S, NEW s \in Seq(S), \A c \in S : f[c] \in Nat
  PROVE  Folded(SumOf(f), s) \in Nat
<1>1. PICK h : Adds(h, f, s) /\ Folded(SumOf(f), s) = h[Len(s)]
  BY SumLoop
<1> DEFINE n == Len(s)
           G == {k \in 0..n : h[k] \in Nat}
<1>2. n \in Nat /\ 0 \in G
  BY <1>1 DEF Adds
<1>3. ASSUME NEW k \in 1..n, k - 1 \in G
      PROVE  k \in G
  <2>1. s[k] \in S
    OBVIOUS
  <2>2. f[s[k]] \in Nat /\ h[k] = h[k - 1] + f[s[k]] /\ h[k - 1] \in Nat
    BY <1>1, <1>3, <2>1 DEF Adds
  <2>3. QED
    BY <2>2
<1>4. \A k \in 0..n : k \in G
  <2> HIDE DEF G, n
  <2>1. QED
    BY <1>2, <1>3, CountInduction
<1>5. QED
  BY <1>1, <1>2, <1>4

\* The sum of the first cards of a sequence is what the loop has added up after them.
LEMMA SumOfFirst ==
  ASSUME NEW f, NEW S, NEW s \in Seq(S), NEW h, Adds(h, f, s), NEW m \in 0..Len(s)
  PROVE  Folded(SumOf(f), SubSeq(s, 1, m)) = h[m]
<1> DEFINE t == SubSeq(s, 1, m)
<1>1. t \in Seq(S) /\ Len(t) = m /\ \A k \in 1..m : t[k] = s[k]
  BY SubSeqProperties
<1> HIDE DEF t
<1>2. PICK i : Adds(i, f, t) /\ Folded(SumOf(f), t) = i[Len(t)]
  BY <1>1, SumLoop
<1> DEFINE G == {k \in 0..m : i[k] = h[k]}
<1>3. m \in Nat /\ 0 \in G
  BY <1>2 DEF Adds
<1>4. ASSUME NEW k \in 1..m, k - 1 \in G
      PROVE  k \in G
  <2>1. k \in 1..Len(s) /\ k \in 1..Len(t) /\ t[k] = s[k]
    BY <1>1
  <2>2. i[k] = i[k - 1] + f[t[k]] /\ h[k] = h[k - 1] + f[s[k]] /\ i[k - 1] = h[k - 1]
    BY <1>2, <1>4, <2>1 DEF Adds
  <2>3. QED
    BY <2>1, <2>2
<1>5. \A k \in 0..m : k \in G
  <2> HIDE DEF G
  <2>1. QED
    BY <1>3, <1>4, CountInduction
<1>6. QED
  BY <1>1, <1>2, <1>5 DEF t

-----------------------------------------------------------------------------
(***************************************************************************)
(* Sums over a set of cards, in the order in which CHOOSE takes them: that *)
(* there is such a function, and that any card may be taken out first.     *)
(* Each induction looks at a smallest set for which the claim fails.       *)
(***************************************************************************)
Chosen(S) == CHOOSE x \in S : TRUE
Sums(g, f, S) ==
  g = [T \in SUBSET S |-> IF T = {} THEN 0 ELSE f[Chosen(T)] + g[T \ {Chosen(T)}]]
SetSum(f, S) == (CHOOSE g : Sums(g, f, S))[S]

\* CHOOSE takes a member.
LEMMA ChosenIn == ASSUME NEW T, T # {} PROVE Chosen(T) \in T
BY DEF Chosen

LEMMA SumsAt ==
  ASSUME NEW f, NEW S, NEW g, Sums(g, f, S), NEW T \in SUBSET S
  PROVE  g[T] = IF T = {} THEN 0 ELSE f[Chosen(T)] + g[T \ {Chosen(T)}]
BY DEF Sums

LEMMA SumsAtEmpty ==
  ASSUME NEW f, NEW S, NEW g, Sums(g, f, S)
  PROVE  g[{}] = 0
<1>1. {} \in SUBSET S
  OBVIOUS
<1>2. QED
  BY <1>1, SumsAt

\* Two tables of sums agree where both have an entry.
LEMMA SumsAgree ==
  ASSUME NEW f, NEW S, IsFiniteSet(S), NEW R \in SUBSET S, NEW g, NEW h,
         Sums(g, f, S), Sums(h, f, R)
  PROVE  \A T \in SUBSET R : g[T] = h[T]
<1> DEFINE Bad == {T \in SUBSET R : g[T] # h[T]}
<1> SUFFICES ASSUME Bad # {} PROVE FALSE
  OBVIOUS
<1>1. IsFiniteSet(R)
  BY FS_Subset
<1>2. PICK T \in Bad : \A U \in SUBSET T : U \in Bad => U = T
  <2>1. Bad \in SUBSET SUBSET R
    OBVIOUS
  <2> HIDE DEF Bad
  <2>2. QED
    BY <1>1, <2>1, SmallestSubset
<1>3. T \in SUBSET R /\ T \in SUBSET S /\ g[T] # h[T]
  BY <1>2
<1>4. T # {}
  <2>1. g[{}] = 0 /\ h[{}] = 0
    BY SumsAtEmpty
  <2>2. QED
    BY <1>3, <2>1
<1>5. Chosen(T) \in T
  BY <1>4, ChosenIn
<1>6. g[T \ {Chosen(T)}] = h[T \ {Chosen(T)}]
  BY <1>2, <1>3, <1>5
<1>7. QED
  BY <1>3, <1>4, <1>6, SumsAt

\* A finite set has a table of sums.
LEMMA SumsExist ==
  ASSUME NEW f, NEW S, IsFiniteSet(S)
  PROVE  \E g : Sums(g, f, S)
<1> DEFINE Bad == {T \in SUBSET S : ~ \E g : Sums(g, f, T)}
<1> SUFFICES ASSUME Bad # {} PROVE FALSE
  OBVIOUS
<1>2. PICK T \in Bad : \A U \in SUBSET T : U \in Bad => U = T
  <2>1. Bad \in SUBSET SUBSET S
    OBVIOUS
  <2> HIDE DEF Bad
  <2>2. QED
    BY <2>1, SmallestSubset
<1>3. T \in SUBSET S /\ ~ \E g : Sums(g, f, T)
  BY <1>2
<1> DEFINE Table(U) == CHOOSE g : Sums(g, f, U)
           Below(U) == IF U = {} THEN 0 ELSE f[Chosen(U)] + Table(U \ {Chosen(U)})[U \ {Chosen(U)}]
           g == [U \in SUBSET T |-> Below(U)]
<1>4. \A U \in SUBSET T : U # T => Sums(Table(U), f, U) /\ IsFiniteSet(U)
  BY <1>2, <1>3, FS_Subset
<1>5. ASSUME NEW U \in SUBSET T, U # {}
      PROVE  Table(U \ {Chosen(U)})[U \ {Chosen(U)}] = Below(U \ {Chosen(U)})
  <2> DEFINE W == U \ {Chosen(U)}
  <2>1. Chosen(U) \in U
    BY <1>5, ChosenIn
  <2>2. W \in SUBSET T /\ W # T /\ Sums(Table(W), f, W) /\ IsFiniteSet(W)
    BY <1>4, <2>1
  <2>3. CASE W = {}
    <3>1. Sums(Table({}), f, {})
      BY <2>2, <2>3
    <3> HIDE DEF Table, W
    <3>2. Table({})[{}] = 0
      BY <3>1, SumsAtEmpty
    <3>3. QED
      BY <2>3, <3>2 DEF W
  <2>4. CASE W # {}
    <3> DEFINE V == W \ {Chosen(W)}
    <3>1. V \in SUBSET W /\ V # T /\ V \in SUBSET T
      BY <2>2, <2>4, ChosenIn
    <3>2. Sums(Table(V), f, V)
      BY <1>4, <3>1
    <3>3. Table(W)[W] = f[Chosen(W)] + Table(W)[V]
      <4> HIDE DEF Table, W
      <4>1. W \in SUBSET W
        OBVIOUS
      <4>2. QED
        BY <2>2, <2>4, <4>1, SumsAt
    <3>4. Table(W)[V] = Table(V)[V]
      <4>1. V \in SUBSET V
        OBVIOUS
      <4> HIDE DEF Table, W, V
      <4>2. \A X \in SUBSET V : Table(W)[X] = Table(V)[X]
        BY <2>2, <3>1, <3>2, SumsAgree
      <4>3. QED
        BY <4>1, <4>2
    <3>5. QED
      BY <2>4, <3>3, <3>4
  <2>5. QED
    BY <2>3, <2>4
<1>6. Sums(g, f, T)
  <2>1. ASSUME NEW U \in SUBSET T
        PROVE  Below(U) = IF U = {} THEN 0 ELSE f[Chosen(U)] + g[U \ {Chosen(U)}]
    <3>1. U \ {Chosen(U)} \in SUBSET T
      OBVIOUS
    <3>2. g[U \ {Chosen(U)}] = Below(U \ {Chosen(U)})
      BY <3>1
    <3>3. CASE U = {}
      BY <3>3
    <3>4. CASE U # {}
      <4>1. Below(U) = f[Chosen(U)] + Table(U \ {Chosen(U)})[U \ {Chosen(U)}]
        BY <3>4
      <4>2. Table(U \ {Chosen(U)})[U \ {Chosen(U)}] = Below(U \ {Chosen(U)})
        BY <1>5, <3>4
      <4> HIDE DEF Below, Table, g
      <4>3. QED
        BY <3>2, <3>4, <4>1, <4>2
    <3>5. QED
      BY <3>3, <3>4
  <2> HIDE DEF Below
  <2>2. QED
    BY <2>1 DEF Sums
<1>7. QED
  BY <1>3, <1>6

\* The two equations of a sum over a set.
LEMMA SetSumEmpty ==
  ASSUME NEW f
  PROVE  SetSum(f, {}) = 0
<1> DEFINE g == CHOOSE g : Sums(g, f, {})
<1>1. Sums(g, f, {})
  BY SumsExist, FS_EmptySet
<1>2. g[{}] = 0
  <2> HIDE DEF g
  <2>1. QED
    BY <1>1, SumsAt
<1>3. QED
  BY <1>2 DEF SetSum

LEMMA SetSumChosen ==
  ASSUME NEW f, NEW S, IsFiniteSet(S), S # {}
  PROVE  SetSum(f, S) = f[Chosen(S)] + SetSum(f, S \ {Chosen(S)})
<1> DEFINE R == S \ {Chosen(S)}
           g == CHOOSE g : Sums(g, f, S)
           h == CHOOSE h : Sums(h, f, R)
<1>1. R \in SUBSET S /\ IsFiniteSet(R)
  BY FS_Subset
<1>2. Sums(g, f, S) /\ Sums(h, f, R)
  BY <1>1, SumsExist
<1>3. SetSum(f, S) = g[S] /\ SetSum(f, R) = h[R]
  BY DEF SetSum
<1> HIDE DEF g, h
<1>4. g[S] = f[Chosen(S)] + g[R]
  BY <1>2, SumsAt
<1>5. g[R] = h[R]
  <2>1. R \in SUBSET R
    OBVIOUS
  <2> HIDE DEF R
  <2>2. QED
    BY <1>1, <1>2, <2>1, SumsAgree
<1>6. QED
  BY <1>3, <1>4, <1>5

\* The sum of integers is one.
LEMMA SetSumInt ==
  ASSUME NEW f, NEW S, IsFiniteSet(S), \A x \in S : f[x] \in Int
  PROVE  SetSum(f, S) \in Int
<1> DEFINE Bad == {T \in SUBSET S : SetSum(f, T) \notin Int}
<1> SUFFICES ASSUME Bad # {} PROVE FALSE
  OBVIOUS
<1>1. PICK T \in Bad : \A U \in SUBSET T : U \in Bad => U = T
  <2>1. Bad \in SUBSET SUBSET S
    OBVIOUS
  <2> HIDE DEF Bad
  <2>2. QED
    BY <2>1, SmallestSubset
<1>2. T \in SUBSET S /\ IsFiniteSet(T) /\ SetSum(f, T) \notin Int
  BY <1>1, FS_Subset
<1>3. T # {}
  BY <1>2, SetSumEmpty
<1>4. Chosen(T) \in T
  BY <1>3, ChosenIn
<1>5. SetSum(f, T \ {Chosen(T)}) \in Int
  BY <1>1, <1>2, <1>4
<1>6. QED
  BY <1>2, <1>3, <1>4, <1>5, SetSumChosen

\* Chosen element can be taken out first.
LEMMA SetSumTake ==
  ASSUME NEW f, NEW S, IsFiniteSet(S), \A x \in S : f[x] \in Int, NEW a \in S
  PROVE  SetSum(f, S) = f[a] + SetSum(f, S \ {a})
<1> DEFINE Holds(T, x) == SetSum(f, T) = f[x] + SetSum(f, T \ {x})
           Bad == {T \in SUBSET S : \E x \in T : ~Holds(T, x)}
<1>1. Bad = {}
  <2> SUFFICES ASSUME Bad # {} PROVE FALSE
    OBVIOUS
  <2>1. PICK T \in Bad : \A U \in SUBSET T : U \in Bad => U = T
    <3>1. Bad \in SUBSET SUBSET S
      OBVIOUS
    <3> HIDE DEF Bad
    <3>2. QED
      BY <3>1, SmallestSubset
  <2>2. T \in SUBSET S /\ IsFiniteSet(T)
    BY <2>1, FS_Subset
  <2>3. PICK x \in T : ~Holds(T, x)
    BY <2>1
  <2> DEFINE c == Chosen(T)
  <2>4. c \in T
    BY <2>3, ChosenIn
  <2>5. Holds(T, c)
    BY <2>2, <2>3, SetSumChosen
  <2>6. x # c
    BY <2>3, <2>5
  <2>7. Holds(T \ {c}, x)
    <3>1. T \ {c} \in SUBSET T /\ T \ {c} # T /\ T \ {c} \in SUBSET S /\ x \in T \ {c}
      BY <2>2, <2>3, <2>4, <2>6
    <3> HIDE DEF Holds, c
    <3>2. QED
      BY <2>1, <3>1
  <2>8. Holds(T \ {x}, c)
    <3>1. T \ {x} \in SUBSET T /\ T \ {x} # T /\ T \ {x} \in SUBSET S /\ c \in T \ {x}
      BY <2>2, <2>3, <2>4, <2>6
    <3> HIDE DEF Holds, c
    <3>2. QED
      BY <2>1, <3>1
  <2>9. (T \ {c}) \ {x} = (T \ {x}) \ {c}
    OBVIOUS
  <2>10. SetSum(f, (T \ {c}) \ {x}) \in Int /\ f[x] \in Int /\ f[c] \in Int
    <3>1. IsFiniteSet((T \ {c}) \ {x})
      BY <2>2, FS_Subset
    <3>2. QED
      BY <2>2, <2>3, <2>4, <3>1, SetSumInt
  <2>11. Holds(T, x)
    <3> DEFINE both == SetSum(f, (T \ {c}) \ {x})
    <3>1. /\ SetSum(f, T) = f[c] + (f[x] + both)
          /\ SetSum(f, T \ {x}) = f[c] + both
      BY <2>5, <2>7, <2>8, <2>9
    <3> HIDE DEF both, c
    <3>2. QED
      BY <2>10, <3>1 DEF both
  <2>12. QED
    BY <2>3, <2>11
<1>2. S \notin Bad
  BY <1>1
<1>3. QED
  BY <1>2

\* The sum of the support bonuses over a set of cards is such a sum.
LEMMA SupportIsSetSum ==
  ASSUME NEW R, NEW f, \A c \in R : f[c] = c.supportBonus, NEW S \in SUBSET R
  PROVE  MapThenSumSet(LAMBDA c : c.supportBonus, S) = SetSum(f, S)
<1> DEFINE Entry(g, T) == IF T = {} THEN 0 ELSE Chosen(T).supportBonus + g[T \ {Chosen(T)}]
           Other(g, T) == IF T = {} THEN 0 ELSE f[Chosen(T)] + g[T \ {Chosen(T)}]
           P(g) == g = [T \in SUBSET S |-> Entry(g, T)]
<1>1. ASSUME NEW g, NEW T \in SUBSET S
      PROVE  Entry(g, T) = Other(g, T)
  BY ChosenIn
<1>2. \A g : P(g) <=> Sums(g, f, S)
  <2> TAKE g
  <2>1. [T \in SUBSET S |-> Entry(g, T)] = [T \in SUBSET S |-> Other(g, T)]
    <3> HIDE DEF Entry, Other
    <3>1. QED
      BY <1>1
  <2>2. QED
    BY <2>1 DEF Sums
<1>3. MapThenSumSet(LAMBDA c : c.supportBonus, S) = (CHOOSE g : P(g))[S]
  BY DEF MapThenSumSet, MapThenFoldSet, Chosen
<1>4. (CHOOSE g : P(g)) = (CHOOSE g : Sums(g, f, S))
  <2> HIDE DEF P
  <2>1. QED
    BY <1>2
<1>5. QED
  BY <1>3, <1>4 DEF SetSum

\* A sequence in descending order that lists every card with a value: no set of cards is worth
\* more than as many of the first.
Descends(f, q) == \A i, j \in 1..Len(q) : i <= j => f[q[j]] <= f[q[i]]
ListsValued(f, q, R) == \A c \in R : f[c] > 0 => \E i \in 1..Len(q) : q[i] = c

\* Sums of natural numbers grow with the number of cards.
LEMMA SumsGrow ==
  ASSUME NEW f, NEW R, NEW q \in Seq(R), \A c \in R : f[c] \in Nat, NEW h,
         Adds(h, f, q)
  PROVE  /\ \A k \in 0..Len(q) : h[k] \in Nat
         /\ \A k, m \in 0..Len(q) : k <= m => h[k] <= h[m]
<1> DEFINE n == Len(q)
           G == {k \in 0..n : h[k] \in Nat /\ \A i \in 0..k : h[i] \in Nat /\ h[i] <= h[k]}
<1>1. n \in Nat /\ 0 \in G
  BY DEF Adds
<1>2. ASSUME NEW k \in 1..n, k - 1 \in G
      PROVE  k \in G
  <2>1. q[k] \in R
    OBVIOUS
  <2>2. h[k] = h[k - 1] + f[q[k]] /\ f[q[k]] \in Nat /\ h[k - 1] \in Nat
    BY <1>2, <2>1 DEF Adds
  <2>3. \A i \in 0..k : i = k \/ i \in 0..(k - 1)
    OBVIOUS
  <2>4. \A i \in 0..(k - 1) : h[i] \in Nat /\ h[i] <= h[k - 1]
    BY <1>2
  <2>5. QED
    BY <1>1, <2>2, <2>3, <2>4
<1>3. \A k \in 0..n : k \in G
  <2> HIDE DEF G, n
  <2>1. QED
    BY <1>1, <1>2, CountInduction
<1>4. QED
  BY <1>3

\* By the smallest set for which it fails: taking out the worst card leaves one that is no better.
LEMMA FirstAreBest ==
  ASSUME NEW f, NEW R, IsFiniteSet(R), \A c \in R : f[c] \in Nat, NEW q \in Seq(R),
         Descends(f, q), ListsValued(f, q, R), NEW h,
         Adds(h, f, q), NEW S \in SUBSET R
  PROVE  SetSum(f, S) <= h[Lesser(Cardinality(S), Len(q))]
<1> DEFINE n == Len(q)
           Worth(T) == h[Lesser(Cardinality(T), n)]
           Bad == {T \in SUBSET R : ~ (SetSum(f, T) <= Worth(T))}
<1>1. n \in Nat
  OBVIOUS
<1>2. /\ \A k \in 0..n : h[k] \in Nat
      /\ \A k, m \in 0..n : k <= m => h[k] <= h[m]
  BY SumsGrow
<1>3. SUFFICES ASSUME Bad # {} PROVE FALSE
  OBVIOUS
<1>4. PICK T \in Bad : \A U \in SUBSET T : U \in Bad => U = T
  <2>1. Bad \in SUBSET SUBSET R
    OBVIOUS
  <2> HIDE DEF Bad
  <2>2. QED
    BY <1>3, <2>1, SmallestSubset
<1>5. T \in SUBSET R /\ ~ (SetSum(f, T) <= Worth(T)) /\ IsFiniteSet(T) /\ Cardinality(T) \in Nat
  BY <1>4, FS_Subset, FS_CardinalityType
<1>6. T # {}
  <2>1. Lesser(Cardinality({}), n) = 0
    BY <1>1, FS_EmptySet DEF Lesser
  <2>2. Worth({}) = 0 /\ SetSum(f, {}) = 0
    BY <2>1, SetSumEmpty DEF Adds
  <2>3. SetSum(f, {}) <= Worth({})
    BY <2>2
  <2> HIDE DEF Worth
  <2>4. QED
    BY <1>5, <2>3
<1>7. ASSUME NEW c \in T
      PROVE  /\ SetSum(f, T) = f[c] + SetSum(f, T \ {c}) /\ SetSum(f, T \ {c}) \in Int
             /\ Cardinality(T \ {c}) = Cardinality(T) - 1 /\ Cardinality(T) > 0
             /\ SetSum(f, T \ {c}) <= h[Lesser(Cardinality(T) - 1, n)]
  <2>1. T \ {c} \in SUBSET T /\ T \ {c} # T /\ T \ {c} \in SUBSET R
    BY <1>5
  <2>2. T \ {c} \notin Bad
    <3> HIDE DEF Bad
    <3>1. QED
      BY <1>4, <2>1
  <2>3. Cardinality(T \ {c}) = Cardinality(T) - 1 /\ IsFiniteSet(T \ {c})
    BY <1>5, FS_RemoveElement
  <2>4. Cardinality(T \ {c}) \in Nat
    BY <2>3, FS_CardinalityType
  <2>5. \A x \in T : f[x] \in Int
    BY <1>5
  <2>6. SetSum(f, T) = f[c] + SetSum(f, T \ {c})
    BY <1>5, <2>5, SetSumTake
  <2>7. SetSum(f, T \ {c}) \in Int
    BY <2>3, <2>5, SetSumInt
  <2>8. SetSum(f, T \ {c}) <= Worth(T \ {c})
    BY <2>1, <2>2
  <2>9. Worth(T \ {c}) = h[Lesser(Cardinality(T) - 1, n)]
    BY <2>3
  <2>10. QED
    BY <1>5, <2>3, <2>4, <2>6, <2>7, <2>8, <2>9
<1>8. CASE \E c \in T : f[c] = 0
  <2>1. PICK c \in T : f[c] = 0
    BY <1>8
  <2>2. SetSum(f, T) <= h[Lesser(Cardinality(T) - 1, n)] /\ Cardinality(T) > 0
    <3> DEFINE worth == h[Lesser(Cardinality(T) - 1, n)]
    <3>1. /\ SetSum(f, T) = f[c] + SetSum(f, T \ {c}) /\ SetSum(f, T \ {c}) \in Int
          /\ Cardinality(T) > 0 /\ SetSum(f, T \ {c}) <= worth
      BY <1>7
    <3> HIDE DEF worth
    <3>2. SetSum(f, T) <= worth
      BY <2>1, <3>1
    <3>3. QED
      BY <3>1, <3>2 DEF worth
  <2> DEFINE k == Lesser(Cardinality(T) - 1, n)
             m == Lesser(Cardinality(T), n)
  <2>3. k \in 0..n /\ m \in 0..n /\ k <= m
    BY <1>1, <1>5, <2>2 DEF Lesser
  <2>4. h[k] <= h[m] /\ h[k] \in Nat /\ h[m] \in Nat
    <3> HIDE DEF k, m
    <3>1. QED
      BY <1>2, <2>3
  <2>5. SetSum(f, T) \in Int
    BY <1>5, SetSumInt
  <2>6. SetSum(f, T) <= h[k] /\ ~ (SetSum(f, T) <= h[m])
    BY <1>5, <2>2
  <2> HIDE DEF k, m
  <2>7. QED
    BY <2>4, <2>5, <2>6
<1>9. CASE \A c \in T : f[c] > 0
  <2> DEFINE At == {i \in 1..n : q[i] \in T}
  <2>1. \A c \in T : \E i \in At : q[i] = c
    BY <1>5, <1>9 DEF ListsValued
  <2>2. PICK j \in At : \A i \in At : i <= j
    <3>1. At \in SUBSET (1..n) /\ At # {}
      BY <1>6, <2>1
    <3> HIDE DEF At
    <3>2. QED
      BY <1>1, <3>1, MaxOfPositions
  <2>3. j \in 1..n /\ q[j] \in T
    BY <2>2
  <2> DEFINE m == Cardinality(T)
  <2>4. m <= j
    <3> DEFINE I == {i \in 1..j : q[i] \in T}
               g == [i \in I |-> q[i]]
    <3>1. IsFiniteSet(I) /\ Cardinality(I) <= j
      <4>1. IsFiniteSet(1..j) /\ Cardinality(1..j) = j
        BY <2>3, FS_Interval
      <4>2. QED
        BY <4>1, FS_Subset
    <3>2. g \in Surjection(I, T)
      <4>1. \A c \in T : \E i \in I : g[i] = c
        BY <1>1, <2>1, <2>2
      <4>2. QED
        BY <4>1 DEF Surjection
    <3>3. Cardinality(T) <= Cardinality(I)
      <4> HIDE DEF I, g
      <4>1. QED
        BY <3>1, <3>2, FS_Surjection
    <3>4. Cardinality(I) \in Nat
      BY <3>1, FS_CardinalityType
    <3>5. QED
      BY <1>5, <2>3, <3>1, <3>3, <3>4
  <2>5. /\ SetSum(f, T) = f[q[j]] + SetSum(f, T \ {q[j]}) /\ SetSum(f, T \ {q[j]}) \in Int /\ m > 0
        /\ SetSum(f, T \ {q[j]}) <= h[Lesser(m - 1, n)]
    BY <1>7, <2>3
  <2>6. m \in 1..n /\ Lesser(m - 1, n) = m - 1 /\ Lesser(m, n) = m
    BY <1>1, <1>5, <2>3, <2>4, <2>5 DEF Lesser
  <2>7. f[q[j]] <= f[q[m]]
    BY <2>3, <2>4, <2>6 DEF Descends
  <2>8. q[m] \in R /\ q[j] \in R
    BY <2>3, <2>6
  <2>9. h[m] = h[m - 1] + f[q[m]] /\ h[m - 1] \in Nat /\ f[q[m]] \in Nat /\ f[q[j]] \in Nat
    BY <1>2, <2>6, <2>8 DEF Adds
  <2>10. Worth(T) = h[m]
    BY <2>6
  <2> HIDE DEF m, Worth
  <2>11. QED
    BY <1>5, <2>5, <2>6, <2>7, <2>9, <2>10
<1>10. QED
  BY <1>5, <1>8, <1>9

-----------------------------------------------------------------------------
(***************************************************************************)
(* The support deck.  The pool is in order: as many cards are better than  *)
(* a card as come before it.                                               *)
(***************************************************************************)
Pool(pool) ==
  /\ IsFiniteSet(pool)
  /\ \A c \in pool : c.id \in Nat /\ c.supportBonus \in Nat
  /\ \A c, d \in pool : c.id = d.id => c = d
Valued(pool) == {c \in pool : c.supportBonus > 0}
Ahead(C, c) == {d \in C : BetterSupport(d, c)}

\* The comparison that sorts the pool is a strict total order.
LEMMA BetterIsOrder ==
  ASSUME NEW pool, Pool(pool)
  PROVE  /\ \A c \in pool : ~BetterSupport(c, c)
         /\ \A c, d \in pool : c = d \/ BetterSupport(c, d) \/ BetterSupport(d, c)
         /\ \A c, d, e \in pool : BetterSupport(c, d) /\ BetterSupport(d, e) => BetterSupport(c, e)
         /\ \A c, d \in pool : BetterSupport(c, d) => d.supportBonus <= c.supportBonus
<1> DEFINE Before(c, d) == \/ c.supportBonus > d.supportBonus
                           \/ c.supportBonus = d.supportBonus /\ c.id < d.id
<1>1. \A c, d \in pool : BetterSupport(c, d) <=> Before(c, d)
  <2> TAKE c, d \in pool
  <2>1. c.id = d.id => c = d
    BY DEF Pool
  <2>2. CASE c = d
    BY <2>2, Zenon DEF BetterSupport
  <2>3. CASE c.id # d.id
    BY <2>3, Zenon DEF BetterSupport
  <2>4. QED
    BY <2>1, <2>2, <2>3
<1>2. \A c \in pool : c.id \in Nat /\ c.supportBonus \in Nat
  BY DEF Pool
<1>3. \A c, d \in pool : c = d \/ Before(c, d) \/ Before(d, c)
  <2> TAKE c, d \in pool
  <2>1. c.id = d.id => c = d
    BY DEF Pool
  <2>2. c.id \in Nat /\ d.id \in Nat /\ c.supportBonus \in Nat /\ d.supportBonus \in Nat
    BY <1>2
  <2>3. c.supportBonus > d.supportBonus \/ d.supportBonus > c.supportBonus
          \/ c.supportBonus = d.supportBonus
    BY <2>2
  <2>4. c.id < d.id \/ d.id < c.id \/ c.id = d.id
    BY <2>2
  <2>5. QED
    BY <2>1, <2>2, <2>3, <2>4
<1>4. \A c, d, e \in pool : Before(c, d) /\ Before(d, e) => Before(c, e)
  BY <1>2
<1>5. (\A c \in pool : ~Before(c, c)) /\ \A c, d \in pool : Before(c, d) => d.supportBonus <= c.supportBonus
  BY <1>2
<1> HIDE DEF Before
<1>6. QED
  BY <1>1, <1>3, <1>4, <1>5

\* A worse card has more cards ahead of it.
LEMMA AheadGrows ==
  ASSUME NEW pool, Pool(pool), NEW C \in SUBSET pool, NEW c \in C, NEW d \in C, BetterSupport(c, d)
  PROVE  /\ Cardinality(Ahead(C, c)) \in Nat /\ Cardinality(Ahead(C, d)) \in Nat
         /\ Cardinality(Ahead(C, c)) < Cardinality(Ahead(C, d))
<1>1. IsFiniteSet(C)
  BY FS_Subset DEF Pool
<1>2. Ahead(C, c) \subseteq Ahead(C, d) /\ c \in Ahead(C, d) /\ c \notin Ahead(C, c)
  BY BetterIsOrder DEF Ahead
<1>3. IsFiniteSet(Ahead(C, d))
  BY <1>1, FS_Subset DEF Ahead
<1>4. IsFiniteSet(Ahead(C, c)) /\ Cardinality(Ahead(C, c)) <= Cardinality(Ahead(C, d))
  BY <1>2, <1>3, FS_Subset
<1>5. Cardinality(Ahead(C, c)) # Cardinality(Ahead(C, d))
  BY <1>2, <1>3, FS_Subset
<1>6. QED
  BY <1>3, <1>4, <1>5, FS_CardinalityType

\* The number of cards ahead is a place in the order, and every place is taken.
LEMMA PlaceOfCard ==
  ASSUME NEW pool, Pool(pool), NEW C \in SUBSET pool
  PROVE  /\ Cardinality(C) \in Nat
         /\ \A c \in C : Cardinality(Ahead(C, c)) \in 0..(Cardinality(C) - 1)
         /\ \A k \in 0..(Cardinality(C) - 1) : \E c \in C : Cardinality(Ahead(C, c)) = k
<1> DEFINE n == Cardinality(C)
<1>1. IsFiniteSet(C) /\ n \in Nat
  BY FS_Subset, FS_CardinalityType DEF Pool
<1>2. ASSUME NEW c \in C
      PROVE  Cardinality(Ahead(C, c)) \in 0..(n - 1)
  <2>1. Ahead(C, c) \subseteq C \ {c}
    BY BetterIsOrder DEF Ahead
  <2>2. IsFiniteSet(C \ {c}) /\ Cardinality(C \ {c}) = n - 1
    BY <1>1, FS_RemoveElement
  <2>3. IsFiniteSet(Ahead(C, c)) /\ Cardinality(Ahead(C, c)) <= Cardinality(C \ {c})
    BY <2>1, <2>2, FS_Subset
  <2>4. Cardinality(Ahead(C, c)) \in Nat
    BY <2>3, FS_CardinalityType
  <2>5. QED
    BY <1>1, <2>2, <2>3, <2>4
<1>3. ASSUME NEW k \in 0..(n - 1), \A c \in C : Cardinality(Ahead(C, c)) # k
      PROVE  FALSE
  <2> DEFINE g == [c \in C |-> Cardinality(Ahead(C, c))]
             D == (0..(n - 1)) \ {k}
  <2>1. IsFiniteSet(0..(n - 1)) /\ Cardinality(0..(n - 1)) = n
    BY <1>1, FS_Interval
  <2>2. IsFiniteSet(D) /\ Cardinality(D) = n - 1
    BY <2>1, FS_RemoveElement
  <2>3. g \in [C -> D]
    BY <1>2, <1>3
  <2>4. \E c, d \in C : c # d /\ g[c] = g[d]
    <3> HIDE DEF g, D
    <3>1. Cardinality(D) < Cardinality(C)
      BY <1>1, <2>2
    <3>2. QED
      BY <1>1, <2>2, <2>3, <3>1, FS_PigeonHole
  <2>5. PICK c, d \in C : c # d /\ Cardinality(Ahead(C, c)) = Cardinality(Ahead(C, d))
    BY <2>4
  <2>6. BetterSupport(c, d) \/ BetterSupport(d, c)
    BY <2>5, BetterIsOrder
  <2>7. QED
    BY <2>5, <2>6, AheadGrows
<1>4. QED
  BY <1>1, <1>2, <1>3

\* What the sort promises.
LEMMA PoolIsSorted ==
  ASSUME NEW pool, Pool(pool), NEW f, \A c \in pool : f[c] = c.supportBonus
  PROVE  LET q == GetSortedSupportPool(pool)
         IN q \in Seq(Valued(pool)) /\ Descends(f, q) /\ ListsValued(f, q, pool)
<1> DEFINE C == Valued(pool)
           n == Cardinality(C)
           q == GetSortedSupportPool(pool)
           At(k) == CHOOSE c \in C : Cardinality(Ahead(C, c)) = k - 1
<1>1. C \in SUBSET pool /\ \A c \in C : c.supportBonus > 0
  BY DEF Valued
<1>2. q = [k \in 1..n |-> At(k)]
  BY DEF GetSortedSupportPool, Valued, Ahead
<1>3. n \in Nat /\ \A k \in 0..(n - 1) : \E c \in C : Cardinality(Ahead(C, c)) = k
  <2> HIDE DEF C
  <2>1. QED
    BY <1>1, PlaceOfCard
<1>4. \A k \in 1..n : q[k] \in C /\ Cardinality(Ahead(C, q[k])) = k - 1
  <2> TAKE k \in 1..n
  <2>1. \E c \in C : Cardinality(Ahead(C, c)) = k - 1
    BY <1>3
  <2>2. At(k) \in C /\ Cardinality(Ahead(C, At(k))) = k - 1
    <3> HIDE DEF C
    <3>1. QED
      BY <2>1
  <2>3. QED
    BY <1>2, <2>2
<1>5. q \in Seq(C) /\ Len(q) = n
  BY <1>2, <1>3, <1>4
<1>6. Descends(f, q)
  <2> SUFFICES ASSUME NEW i \in 1..n, NEW j \in 1..n, i < j
               PROVE  f[q[j]] <= f[q[i]]
    <3>1. \A i \in 1..n : q[i] \in pool
      BY <1>1, <1>4
    <3>2. \A i \in 1..n : f[q[i]] \in Nat
      BY <3>1 DEF Pool
    <3>3. QED
      BY <1>3, <1>5, <3>2 DEF Descends
  <2> HIDE DEF C, q
  <2>1. q[i] \in C /\ q[j] \in C /\ Cardinality(Ahead(C, q[i])) = i - 1 /\ Cardinality(Ahead(C, q[j])) = j - 1
    BY <1>4
  <2>2. ~BetterSupport(q[j], q[i])
    <3> SUFFICES ASSUME BetterSupport(q[j], q[i]) PROVE FALSE
      OBVIOUS
    <3>1. Cardinality(Ahead(C, q[j])) < Cardinality(Ahead(C, q[i]))
      BY <1>1, <2>1, AheadGrows
    <3>2. QED
      BY <1>3, <2>1, <3>1
  <2>3. q[i] = q[j] \/ BetterSupport(q[i], q[j])
    BY <1>1, <2>1, <2>2, BetterIsOrder
  <2>4. q[j].supportBonus <= q[i].supportBonus
    <3>1. q[i] \in pool /\ q[j] \in pool
      BY <1>1, <2>1
    <3>2. q[i].supportBonus \in Nat
      BY <3>1 DEF Pool
    <3>3. QED
      BY <2>3, <3>1, <3>2, BetterIsOrder
  <2>5. QED
    BY <1>1, <2>1, <2>4
<1>7. ListsValued(f, q, pool)
  <2> SUFFICES ASSUME NEW c \in pool, f[c] > 0
               PROVE  \E i \in 1..n : q[i] = c
    BY <1>5 DEF ListsValued
  <2>1. c \in C
    BY DEF Valued
  <2> DEFINE k == Cardinality(Ahead(C, c)) + 1
  <2>2. k \in 1..n /\ Cardinality(Ahead(C, c)) = k - 1
    <3>1. Cardinality(Ahead(C, c)) \in 0..(n - 1)
      <4> HIDE DEF C
      <4>1. QED
        BY <1>1, <2>1, PlaceOfCard
    <3>2. QED
      BY <1>3, <3>1
  <2> HIDE DEF C, q, k
  <2>3. q[k] \in C /\ Cardinality(Ahead(C, q[k])) = Cardinality(Ahead(C, c))
    BY <1>4, <2>2
  <2>4. q[k] = c
    <3> SUFFICES ASSUME q[k] # c PROVE FALSE
      OBVIOUS
    <3>1. BetterSupport(q[k], c) \/ BetterSupport(c, q[k])
      BY <1>1, <2>1, <2>3, BetterIsOrder
    <3>2. QED
      BY <1>1, <2>1, <2>3, <3>1, AheadGrows
  <2>5. QED
    BY <2>2, <2>4
<1>8. QED
  BY <1>5, <1>6, <1>7

\* Leaving out the cards of the team keeps the order, and loses no other card.
Unused(pool, ids) == {c \in pool : c.id \notin ids}
LeftOf(t, q, k, ids) ==
  /\ \A m \in 1..Len(t) : t[m].id \notin ids /\ \E i \in 1..k : t[m] = q[i]
  /\ \A i \in 1..k : q[i].id \notin ids => \E m \in 1..Len(t) : t[m] = q[i]

\* One card more: kept unless the team has it.
LEMMA LeftTakes ==
  ASSUME NEW R, NEW f, \A c \in R : f[c] \in Nat, NEW q \in Seq(R), Descends(f, q), NEW ids,
         NEW k \in 1..Len(q), NEW t \in Seq(R), Descends(f, t), LeftOf(t, q, k - 1, ids),
         NEW u, u = IF q[k].id \in ids THEN t ELSE Append(t, q[k])
  PROVE  u \in Seq(R) /\ Descends(f, u) /\ LeftOf(u, q, k, ids)
<1>0. q[k] \in R /\ Len(t) \in Nat /\ k \in Nat /\ k > 0 /\ Len(q) \in Nat /\ k <= Len(q)
  OBVIOUS
<1>1. \A i \in 1..k : i = k \/ i \in 1..(k - 1)
  BY <1>0
<1>2. \A i \in 1..(k - 1) : i \in 1..k
  BY <1>0
<1>3. CASE q[k].id \in ids
  <2>1. LeftOf(t, q, k, ids)
    BY <1>1, <1>2, <1>3 DEF LeftOf
  <2>2. QED
    BY <1>3, <2>1
<1>4. CASE q[k].id \notin ids
  <2> DEFINE n == Len(t)
  <2>1. /\ u = Append(t, q[k]) /\ u \in Seq(R) /\ Len(u) = n + 1 /\ u[n + 1] = q[k]
        /\ \A m \in 1..n : u[m] = t[m]
    BY <1>0, <1>4
  <2>2. \A m \in 1..Len(u) : m = n + 1 \/ m \in 1..n
    BY <1>0, <2>1
  <2>3. \A m \in 1..n : m \in 1..Len(u)
    BY <1>0, <2>1
  <2>4. n + 1 \in 1..Len(u) /\ k \in 1..k
    BY <1>0, <2>1
  <2> HIDE DEF n
  <2>5. LeftOf(u, q, k, ids)
    <3>1. \A m \in 1..Len(u) : u[m].id \notin ids /\ \E i \in 1..k : u[m] = q[i]
      <4> TAKE m \in 1..Len(u)
      <4>1. CASE m = n + 1
        BY <1>4, <2>1, <2>4, <4>1
      <4>2. CASE m \in 1..n
        BY <1>2, <2>1, <4>2 DEF LeftOf, n
      <4>3. QED
        BY <2>2, <4>1, <4>2
    <3>2. \A i \in 1..k : q[i].id \notin ids => \E m \in 1..Len(u) : u[m] = q[i]
      <4> TAKE i \in 1..k
      <4>1. CASE i = k
        BY <2>1, <2>4, <4>1
      <4>2. CASE i \in 1..(k - 1)
        BY <2>1, <2>3, <4>2 DEF LeftOf, n
      <4>3. QED
        BY <1>1, <4>1, <4>2
    <3>3. QED
      BY <3>1, <3>2 DEF LeftOf
  <2>6. Descends(f, u)
    <3> SUFFICES ASSUME NEW i \in 1..Len(u), NEW j \in 1..Len(u), i <= j
                 PROVE  f[u[j]] <= f[u[i]]
      BY DEF Descends
    <3>1. CASE j \in 1..n
      <4>1. i \in 1..n
        BY <1>0, <2>2, <3>1 DEF n
      <4>2. QED
        BY <2>1, <3>1, <4>1 DEF Descends, n
    <3>2. CASE j = n + 1
      <4>1. CASE i = n + 1
        <5>1. f[q[k]] \in Nat
          BY <1>0
        <5>2. QED
          BY <2>1, <3>2, <4>1, <5>1
      <4>2. CASE i \in 1..n
        <5>1. PICK a \in 1..(k - 1) : t[i] = q[a]
          BY <4>2 DEF LeftOf, n
        <5>2. a \in 1..Len(q) /\ a <= k
          BY <1>0
        <5>3. f[q[k]] <= f[q[a]]
          BY <1>0, <5>2 DEF Descends
        <5>4. QED
          BY <2>1, <3>2, <4>2, <5>1, <5>3
      <4>3. QED
        BY <2>2, <4>1, <4>2
    <3>3. QED
      BY <2>2, <3>1, <3>2
  <2>7. QED
    BY <2>1, <2>5, <2>6
<1>5. QED
  BY <1>3, <1>4

\* After the last card, what is left is in order and complete.
LEMMA LeftInOrder ==
  ASSUME NEW R, NEW f, \A c \in R : f[c] \in Nat, NEW q \in Seq(R), Descends(f, q), NEW ids
  PROVE  LET t == SupportLeft(q, ids)
         IN t \in Seq(R) /\ Descends(f, t) /\ LeftOf(t, q, Len(q), ids)
<1> DEFINE how == LeftBy(ids)
           n == Len(q)
<1>1. how.loop = "left" /\ how.by = ids
  BY DEF LeftBy
<1>2. SupportLeft(q, ids) = Folded(how, q)
  BY LeftIsFolded
<1> HIDE DEF how
<1>3. PICK h : Loop(h, how, q) /\ Folded(how, q) = h[Len(q)]
  BY FoldIsLoop
<1>4. h[0] = <<>> /\ \A k \in 1..n : h[k] = IF q[k].id \in ids THEN h[k - 1] ELSE Append(h[k - 1], q[k])
  BY <1>1, <1>3 DEF Loop, Start, Taken
<1> DEFINE Good(k) == h[k] \in Seq(R) /\ Descends(f, h[k]) /\ LeftOf(h[k], q, k, ids)
           G == {k \in 0..n : Good(k)}
<1>5. n \in Nat /\ 0 \in G
  <2>1. Len(h[0]) = 0 /\ h[0] \in Seq(R)
    BY <1>4
  <2>2. Good(0)
    BY <2>1 DEF Descends, LeftOf
  <2>3. QED
    BY <2>2
<1>6. ASSUME NEW k \in 1..n, k - 1 \in G
      PROVE  k \in G
  <2>1. Good(k - 1)
    BY <1>6
  <2>2. Good(k)
    BY <1>4, <2>1, LeftTakes
  <2>3. QED
    BY <2>2
<1>7. \A k \in 0..n : k \in G
  <2> HIDE DEF G, n
  <2>1. QED
    BY <1>5, <1>6, CountInduction
<1>8. Good(n)
  BY <1>5, <1>7
<1>9. QED
  BY <1>2, <1>3, <1>8

\* The deck holds unused cards, and no other choice of as many is worth more.
LEMMA DeckIsBest ==
  ASSUME NEW pool, Pool(pool), NEW ids, NEW size \in Nat
  PROVE  LET left  == SupportLeft(GetSortedSupportPool(pool), ids)
             deck  == SubSeq(left, 1, Lesser(Len(left), size))
             spare == Unused(pool, ids)
         IN /\ Range(deck) \subseteq spare
            /\ \A S \in kSubset(Lesser(size, Cardinality(spare)), spare) :
                 MapThenSumSet(LAMBDA c : c.supportBonus, S)
                   <= SumOver(deck, LAMBDA c : c.supportBonus)
<1> DEFINE q == GetSortedSupportPool(pool)
           left == SupportLeft(q, ids)
           deck == SubSeq(left, 1, Lesser(Len(left), size))
           spare == Unused(pool, ids)
           f == [c \in pool |-> c.supportBonus]
<1>1. \A c \in pool : f[c] = c.supportBonus /\ f[c] \in Nat
  BY DEF Pool
<1>2. spare \subseteq pool /\ IsFiniteSet(spare) /\ Cardinality(spare) \in Nat
  BY FS_Subset, FS_CardinalityType DEF Unused, Pool
<1> HIDE DEF f
<1>3. q \in Seq(pool) /\ Descends(f, q) /\ ListsValued(f, q, pool)
  <2>1. q \in Seq(Valued(pool)) /\ Descends(f, q) /\ ListsValued(f, q, pool)
    BY <1>1, PoolIsSorted
  <2>2. Valued(pool) \subseteq pool
    BY DEF Valued
  <2> HIDE DEF q
  <2>3. QED
    BY <2>1, <2>2
<1> HIDE DEF q
<1>4. left \in Seq(pool) /\ Descends(f, left) /\ LeftOf(left, q, Len(q), ids)
  BY <1>1, <1>3, LeftInOrder
<1> HIDE DEF left
<1> DEFINE m == Lesser(Len(left), size)
<1>5. Len(left) \in Nat /\ m \in 0..Len(left)
  BY <1>4 DEF Lesser
<1>6. left \in Seq(spare)
  <2>1. \A i \in 1..Len(left) : left[i] \in pool /\ left[i].id \notin ids
    BY <1>4 DEF LeftOf
  <2>2. \A i \in 1..Len(left) : left[i] \in spare
    BY <2>1 DEF Unused
  <2> HIDE DEF spare
  <2>3. QED
    BY <1>4, <2>2
<1>7. ListsValued(f, left, spare)
  <2> SUFFICES ASSUME NEW c \in spare, f[c] > 0
               PROVE  \E i \in 1..Len(left) : left[i] = c
    BY DEF ListsValued
  <2>1. c \in pool /\ c.id \notin ids
    BY DEF Unused
  <2>2. PICK i \in 1..Len(q) : q[i] = c
    BY <1>3, <2>1 DEF ListsValued
  <2>3. QED
    BY <1>4, <2>1, <2>2 DEF LeftOf
<1>8. PICK h : Adds(h, f, left)
  BY <1>4, SumLoop
<1> HIDE DEF m, spare
<1>9. deck \in Seq(spare) /\ deck \in Seq(pool)
  BY <1>4, <1>5, <1>6, SubSeqProperties DEF m
<1>10. SumOver(deck, LAMBDA c : c.supportBonus) = h[m]
  <2>1. Folded(SumOf(f), SubSeq(left, 1, m)) = h[m]
    BY <1>4, <1>5, <1>8, SumOfFirst
  <2>4. deck = SubSeq(left, 1, m)
    BY DEF m
  <2> HIDE DEF deck
  <2>2. SumOver(deck, LAMBDA c : c.supportBonus) = Folded(SumOf(f), deck)
    BY <1>1, <1>9, SupportSumIsFolded
  <2>3. QED
    BY <2>1, <2>2, <2>4
<1>11. ASSUME NEW S \in kSubset(Lesser(size, Cardinality(spare)), spare)
       PROVE  MapThenSumSet(LAMBDA c : c.supportBonus, S) <= h[m]
  <2>1. S \in SUBSET spare /\ Cardinality(S) = Lesser(size, Cardinality(spare)) /\ IsFiniteSet(S)
    BY <1>2, FS_Subset DEF kSubset
  <2>2. \A c \in spare : f[c] = c.supportBonus /\ f[c] \in Nat
    BY <1>1, <1>2
  <2>3. MapThenSumSet(LAMBDA c : c.supportBonus, S) = SetSum(f, S)
    BY <2>1, <2>2, SupportIsSetSum
  <2> DEFINE k == Lesser(Cardinality(S), Len(left))
  <2>4. SetSum(f, S) <= h[k]
    BY <1>2, <1>4, <1>6, <1>7, <1>8, <2>1, <2>2, FirstAreBest
  <2>5. k \in 0..Len(left) /\ k <= m
    BY <1>2, <1>5, <2>1 DEF Lesser, m
  <2>6. h[k] \in Nat /\ h[m] \in Nat /\ h[k] <= h[m]
    <3>1. /\ \A j \in 0..Len(left) : h[j] \in Nat
          /\ \A i, j \in 0..Len(left) : i <= j => h[i] <= h[j]
      BY <1>6, <1>8, <2>2, SumsGrow
    <3> HIDE DEF k
    <3>2. QED
      BY <1>5, <2>5, <3>1
  <2>7. SetSum(f, S) \in Int
    <3>1. \A c \in S : f[c] \in Int
      BY <2>1, <2>2
    <3>2. QED
      BY <2>1, <3>1, SetSumInt
  <2> HIDE DEF k
  <2>8. QED
    BY <2>3, <2>4, <2>6, <2>7
<1>12. Range(deck) \subseteq spare
  <2> HIDE DEF deck
  <2>1. QED
    BY <1>9 DEF Range
<1>13. QED
  BY <1>10, <1>11, <1>12 DEF left, m, spare, q

-----------------------------------------------------------------------------
(***************************************************************************)
(* The rates of an event are natural numbers.                              *)
(***************************************************************************)
Rates(b) ==
  /\ \A id \in CardIds : b.cards[id] \in Nat
  /\ \A cell \in Cells : b.deck[cell] \in Nat
  /\ \A r \in Rarities : \A k \in 1..(kMasterRankMax + 1) : b.mr[r][k] \in Nat
SupportRates(b) == Rates(b) /\ \A r \in Rarities : \A k \in 1..kSkillLevelMax : b.sl[r][k] \in Nat
BonusRates(b) == Rates(b) /\ (b.support.kind = "none" \/ SupportRates(b.support))

\* A finite set of integers has a greatest one.
LEMMA MaxOfFinite ==
  ASSUME NEW S, IsFiniteSet(S), \A x \in S : x \in Int, S # {}
  PROVE  Max(S) \in S /\ \A y \in S : Max(S) >= y
<1> DEFINE Top(T) == \E x \in T : \A y \in T : x >= y
           Bad == {T \in SUBSET S : T # {} /\ ~Top(T)}
<1>1. Bad = {}
  <2> SUFFICES ASSUME Bad # {} PROVE FALSE
    OBVIOUS
  <2>1. PICK T \in Bad : \A U \in SUBSET T : U \in Bad => U = T
    <3>1. Bad \in SUBSET SUBSET S
      OBVIOUS
    <3> HIDE DEF Bad
    <3>2. Bad # {}
      OBVIOUS
    <3>3. QED
      BY <3>1, <3>2, SmallestSubset
  <2>2. (\A y \in T : y \in Int) /\ T # {} /\ ~Top(T)
    BY <2>1
  <2>3. PICK x \in T : x \in Int
    BY <2>2
  <2>4. T \ {x} = {} \/ Top(T \ {x})
    <3>1. T \ {x} \in SUBSET T /\ T \ {x} # T /\ T \ {x} \in SUBSET S
      BY <2>1
    <3> HIDE DEF Top
    <3>2. QED
      BY <2>1, <3>1
  <2>5. CASE T \ {x} = {}
    BY <2>2, <2>3, <2>5
  <2>6. CASE Top(T \ {x})
    <3>1. PICK m \in T \ {x} : \A y \in T \ {x} : m >= y
      BY <2>6
    <3>2. m \in Int /\ m \in T /\ \A y \in T : y = x \/ m >= y
      BY <2>2, <3>1
    <3>3. CASE m >= x
      BY <2>2, <3>2, <3>3
    <3>4. CASE ~(m >= x)
      BY <2>2, <2>3, <3>2, <3>4
    <3>5. QED
      BY <3>3, <3>4
  <2>7. QED
    BY <2>4, <2>5, <2>6
<1>2. Top(S)
  BY <1>1
<1>3. QED
  BY <1>2, Zenon DEF Max

\* The best rate granted for a cell, or none.
LEMMA DeckRates ==
  ASSUME NEW grants, NEW R, IsFiniteSet(R), R \subseteq Int, \A g \in grants : g.rate \in R
  PROVE  \A cell \in Cells : Deck(grants)[cell] \in Nat
<1> TAKE cell \in Cells
<1> DEFINE S == {0} \cup {g.rate : g \in {h \in grants : h.cell = cell}}
<1>1. S \subseteq R \cup {0} /\ 0 \in S
  OBVIOUS
<1>2. IsFiniteSet(R \cup {0})
  BY FS_AddElement
<1>3. Deck(grants)[cell] = Max(S)
  BY DEF Deck
<1> HIDE DEF S
<1>4. IsFiniteSet(S)
  <2> DEFINE T == R \cup {0}
  <2>1. IsFiniteSet(T) /\ S \in SUBSET T
    BY <1>1, <1>2
  <2> HIDE DEF T
  <2>2. QED
    BY <2>1, FS_Subset
<1>7. (\A y \in S : y \in Int) /\ S # {}
  BY <1>1
<1>5. Max(S) \in S /\ Max(S) >= 0
  BY <1>1, <1>4, <1>7, MaxOfFinite
<1>8. Max(S) \in Int
  BY <1>5, <1>7
<1>9. Max(S) \in Nat
  BY <1>5, <1>8
<1>6. QED
  BY <1>3, <1>9

\* Every event falls under one of the rules.
LEMMA VersionInRange == \A event : GetWorldBloomVersion(event) \in Versions
<1> TAKE event
<1> DEFINE S == {k \in kWorldBloomVersionCutoffs : event > k}
<1>1. IsFiniteSet(kWorldBloomVersionCutoffs) /\ Cardinality(kWorldBloomVersionCutoffs) = 2
  <2>1. IsFiniteSet({152}) /\ Cardinality({152}) = 1
    BY FS_Singleton
  <2>2. {152, 198} = {152} \cup {198} /\ 198 \notin {152}
    OBVIOUS
  <2>3. IsFiniteSet({152} \cup {198}) /\ Cardinality({152} \cup {198}) = 2
    BY <2>1, <2>2, FS_AddElement
  <2>4. QED
    BY <2>2, <2>3 DEF kWorldBloomVersionCutoffs
<1>2. IsFiniteSet(S) /\ Cardinality(S) <= 2
  BY <1>1, FS_Subset
<1>3. Cardinality(S) \in Nat
  BY <1>2, FS_CardinalityType
<1>4. GetWorldBloomVersion(event) = 1 + Cardinality(S)
  BY DEF GetWorldBloomVersion
<1> HIDE DEF S
<1>5. QED
  BY <1>2, <1>3, <1>4 DEF Versions

\* The rules have rates for every master rank and skill level.
LEMMA ConfigRates ==
  ASSUME NEW version \in Versions
  PROVE  LET config == GetWorldBloomConfig(version)
         IN /\ config.char \in Nat /\ config.card \in Nat
            /\ \A r \in Rarities : \A k \in 1..(kMasterRankMax + 1) : config.mr[r][k] \in Nat
            /\ \A r \in Rarities : \A k \in 1..kSkillLevelMax : config.sl[r][k] \in Nat
<1> DEFINE Holds(config) ==
             /\ config.char \in Nat /\ config.card \in Nat
             /\ \A r \in 1..5 : \A k \in 1..6 : config.mr[r][k] \in Nat
             /\ \A r \in 1..5 : \A k \in 1..4 : config.sl[r][k] \in Nat
<1>1. Holds(V1)
  BY DEF V1
<1>2. Holds(V2)
  BY DEF V2
<1>3. Holds(V3)
  BY DEF V2, V3
<1>4. version = 1 \/ version = 2 \/ version = 3
  BY DEF Versions
<1> HIDE DEF Holds
<1>5. Holds(GetWorldBloomConfig(version))
  BY <1>1, <1>2, <1>3, <1>4, Zenon DEF GetWorldBloomConfig
<1>6. QED
  BY <1>5 DEF Holds, Rarities, kMasterRankMax, kSkillLevelMax

\* A bonus whose parts have natural rates.
LEMMA MainRates ==
  ASSUME NEW grants, NEW R, IsFiniteSet(R), R \subseteq Int, \A g \in grants : g.rate \in R,
         NEW cards, \A id \in CardIds : cards[id] \in Nat,
         NEW mr, \A r \in Rarities : \A k \in 1..(kMasterRankMax + 1) : mr[r][k] \in Nat,
         NEW hasDiff, NEW support, support.kind = "none" \/ SupportRates(support)
  PROVE  BonusRates(MainBonus(grants, cards, mr, hasDiff, support))
<1> DEFINE b == MainBonus(grants, cards, mr, hasDiff, support)
<1>1. b.deck = Deck(grants) /\ b.cards = cards /\ b.mr = mr /\ b.support = support
  BY DEF MainBonus
<1>2. \A cell \in Cells : Deck(grants)[cell] \in Nat
  BY DeckRates
<1> HIDE DEF b
<1>3. Rates(b)
  BY <1>1, <1>2 DEF Rates
<1>4. QED
  BY <1>1, <1>3 DEF BonusRates, b

\* The bonus of a world bloom chapter.
LEMMA ChapterRates ==
  ASSUME NEW char, NEW version \in Versions
  PROVE  SupportRates(SupportUnitEventBonus(char, version))
<1> DEFINE config == GetWorldBloomConfig(version)
           units == IF IsVs(char) THEN Units ELSE {CharUnit[char]}
           grants == Grants({char}, Attrs, units, config.char)
           b == SupportUnitEventBonus(char, version)
<1>1. /\ config.char \in Nat /\ config.card \in Nat
      /\ \A r \in Rarities : \A k \in 1..(kMasterRankMax + 1) : config.mr[r][k] \in Nat
      /\ \A r \in Rarities : \A k \in 1..kSkillLevelMax : config.sl[r][k] \in Nat
  BY ConfigRates
<1>2. /\ b.deck = Deck(grants) /\ b.mr = config.mr /\ b.sl = config.sl
      /\ b.cards = [id \in CardIds |->
           IF id \in config.cards /\ CardTable[id].char = char THEN config.card ELSE 0]
  BY DEF SupportUnitEventBonus
<1> HIDE DEF config, b
<1>3. \A cell \in Cells : Deck(grants)[cell] \in Nat
  <2> DEFINE R == {config.char}
  <2>1. IsFiniteSet(R)
    BY FS_Singleton
  <2>4. R \subseteq Int
    BY <1>1
  <2>2. \A g \in grants : g.rate \in R
    BY DEF Grants
  <2> HIDE DEF R, grants
  <2>3. QED
    BY <2>1, <2>2, <2>4, DeckRates
<1>4. \A id \in CardIds : b.cards[id] \in Nat
  BY <1>1, <1>2
<1>5. Rates(b) /\ \A r \in Rarities : \A k \in 1..kSkillLevelMax : b.sl[r][k] \in Nat
  BY <1>1, <1>2, <1>3, <1>4 DEF Rates
<1>6. QED
  BY <1>5 DEF SupportRates, b

\* What a grant to an attribute is worth.
LEMMA AttrGrants ==
  ASSUME NEW attr, NEW rate, NEW g \in PopulateAttrBonus(attr, rate)
  PROVE  g.rate = rate
<1>1. PICK c \in Chars : g \in Grants({c}, {attr}, IF IsVs(c) THEN Units ELSE {CharUnit[c]}, rate)
  BY DEF PopulateAttrBonus
<1>2. QED
  BY <1>1 DEF Grants

\* A row of the database grants its rate, or its rate less the offset.
LEMMA RowGrants ==
  ASSUME NEW row, row.char # 0 \/ row.attr # "NONE", NEW off,
         NEW g \in GrantOf(row, off)
  PROVE  g.rate \in {row.rate, row.rate - off}
<1>1. \A char, attrs, rate : \A h \in Subunitless(char, attrs, rate) : h.rate = rate
  BY DEF Subunitless, Grants
<1>2. \A chars, attrs, units, rate : \A h \in Grants(chars, attrs, units, rate) : h.rate = rate
  BY DEF Grants
<1>3. CASE row.char # 0 /\ row.attr # "NONE"
  <2>1. g \in PopulateAttrCharBonus(row.char, row.unit, row.attr, row.rate, off)
    BY <1>3, Zenon DEF GrantOf
  <2>2. QED
    BY <1>1, <1>2, <2>1 DEF PopulateAttrCharBonus
<1>4. CASE row.char # 0 /\ row.attr = "NONE"
  <2>1. g \in PopulateCharBonus(row.char, row.unit, row.rate, off)
    BY <1>4, Zenon DEF GrantOf
  <2>2. QED
    BY <1>1, <1>2, <2>1 DEF PopulateCharBonus
<1>5. CASE row.char = 0 /\ row.attr # "NONE"
  <2>1. g \in PopulateAttrBonus(row.attr, row.rate)
    BY <1>5, Zenon DEF GrantOf
  <2>2. QED
    BY <2>1, AttrGrants
<1>6. QED
  BY <1>3, <1>4, <1>5

\* The rates of finitely many rows, each less an offset.
LEMMA FiniteRates ==
  ASSUME NEW rows, IsFiniteSet(rows), \A row \in rows : row.rate \in Int, NEW off \in Int
  PROVE  IsFiniteSet({row.rate - off : row \in rows})
<1> DEFINE T == {row.rate - off : row \in rows}
           f == [row \in rows |-> row.rate - off]
<1>1. f \in Surjection(rows, T)
  BY DEF Surjection
<1> HIDE DEF T, f
<1>2. IsFiniteSet(T)
  BY <1>1, FS_Surjection
<1>3. QED
  BY <1>2 DEF T

\* An event of the database.
LEMMA EventRates ==
  ASSUME NEW event, NEW chapter, NEW version \in Versions, NEW off \in Int
  PROVE  BonusRates(EventBonusById(event, chapter, version, off))
<1>1. CASE event \notin DOMAIN Events
  <2>1. IsFiniteSet({0}) /\ {0} \subseteq Int
    BY FS_Singleton
  <2>2. NoSupport.kind = "none"
    BY DEF NoSupport
  <2>3. /\ \A id \in CardIds : NoCards[id] \in Nat
        /\ \A r \in Rarities : \A k \in 1..(kMasterRankMax + 1) : NoRates[r][k] \in Nat
    BY DEF NoCards, NoRates
  <2>4. \A g \in {} : g.rate \in {0}
    OBVIOUS
  <2>5. BonusRates(NoBonus)
    BY <2>1, <2>2, <2>3, <2>4, MainRates DEF NoBonus
  <2>6. QED
    BY <1>1, <2>5 DEF EventBonusById
<1>2. CASE event \in DOMAIN Events
  <2> DEFINE deck == Events[event].deck
             grants == UNION {GrantOf(row, off) : row \in deck}
             cards == [id \in CardIds |-> IF id \in DOMAIN Events[event].cards
                                          THEN Events[event].cards[id] ELSE 0]
             support == IF chapter > 0
                        THEN SupportUnitEventBonus(Events[event].chapters[chapter], version)
                        ELSE NoSupport
             hasDiff == Events[event].type = "WORLD_BLOOM"
             Less(o) == {row.rate - o : row \in deck}
             R == Less(0) \cup Less(off)
  <2>1. IsFiniteSet(deck) /\ \A row \in deck : row.rate \in Int /\ (row.char # 0 \/ row.attr # "NONE")
    BY <1>2, EventDataAssumption
  <2>2. IsFiniteSet(R) /\ R \subseteq Int
    <3>1. IsFiniteSet(Less(0)) /\ IsFiniteSet(Less(off))
      BY <2>1, FiniteRates
    <3>2. Less(0) \subseteq Int /\ Less(off) \subseteq Int
      BY <2>1
    <3> HIDE DEF Less
    <3>3. IsFiniteSet(Less(0) \cup Less(off))
      BY <3>1, FS_Union
    <3>4. QED
      BY <3>2, <3>3
  <2>3. \A g \in grants : g.rate \in R
    <3> SUFFICES ASSUME NEW row \in deck, NEW g \in GrantOf(row, off)
                 PROVE  g.rate \in R
      OBVIOUS
    <3>1. g.rate = row.rate \/ g.rate = row.rate - off
      BY <2>1, RowGrants
    <3>2. row.rate = row.rate - 0
      BY <2>1
    <3>3. row.rate - 0 \in Less(0) /\ row.rate - off \in Less(off)
      OBVIOUS
    <3> HIDE DEF Less
    <3>4. QED
      BY <3>1, <3>2, <3>3
  <2>4. \A id \in CardIds : cards[id] \in Nat
    BY <1>2, EventDataAssumption
  <2>5. support.kind = "none" \/ SupportRates(support)
    BY ChapterRates DEF NoSupport
  <2>6. \A r \in Rarities : \A k \in 1..(kMasterRankMax + 1) : MasterRankRates[r][k] \in Nat
    BY EventDataAssumption
  <2>7. EventBonusById(event, chapter, version, off)
          = MainBonus(grants, cards, MasterRankRates, hasDiff, support)
    BY <1>2 DEF EventBonusById
  <2> HIDE DEF grants, cards, support, R, hasDiff
  <2>8. QED
    BY <2>2, <2>3, <2>4, <2>5, <2>6, <2>7, MainRates
<1>3. QED
  BY <1>1, <1>2

\* An event made up by the player.
LEMMA SimpleRates ==
  ASSUME NEW simple, NEW version \in Versions, NEW off \in Int
  PROVE  BonusRates(EventBonusBySimple(simple, version, off))
<1> DEFINE grants == SimpleGrants(simple, off)
           cards == [id \in CardIds |-> IF id \in simple.cards THEN kDefaultCardBonusRate ELSE 0]
           support == IF simple.chapterChar > 0
                      THEN SupportUnitEventBonus(simple.chapterChar, version) ELSE NoSupport
           hasDiff == simple.attr = "NONE" /\ simple.chapterChar > 0
           d == kDefaultBonusRate
           R == {d, 2 * d, d - off, 2 * d - off}
<1>1. IsFiniteSet(R) /\ R \subseteq Int
  <2>1. \A x : IsFiniteSet({x})
    BY FS_Singleton
  <2>2. \A a, b : IsFiniteSet({a} \cup {b})
    BY <2>1, FS_AddElement
  <2>3. IsFiniteSet(({d} \cup {2 * d}) \cup ({d - off} \cup {2 * d - off}))
    BY <2>2, FS_Union
  <2>4. R = ({d} \cup {2 * d}) \cup ({d - off} \cup {2 * d - off})
    OBVIOUS
  <2>5. QED
    BY <2>3, <2>4 DEF kDefaultBonusRate
<1>2. \A g \in grants : g.rate \in R
  <2>1. \A char, attrs, rate : \A h \in Subunitless(char, attrs, rate) : h.rate = rate
    BY DEF Subunitless, Grants
  <2>2. \A chars, attrs, units, rate : \A h \in Grants(chars, attrs, units, rate) : h.rate = rate
    BY DEF Grants
  <2>3. \A attr : \A g \in PopulateAttrBonus(attr, d) : g.rate \in R
    BY AttrGrants
  <2>4. \A char, unit : \A g \in PopulateCharBonus(char, unit, d, off) : g.rate \in R
    BY <2>1, <2>2 DEF PopulateCharBonus
  <2>5. \A char, unit, attr : \A g \in PopulateAttrCharBonus(char, unit, attr, 2 * d, off) : g.rate \in R
    BY <2>1, <2>2 DEF PopulateAttrCharBonus
  <2> HIDE DEF R, d
  <2>6. QED
    BY <2>3, <2>4, <2>5 DEF SimpleGrants, d
<1>3. \A id \in CardIds : cards[id] \in Nat
  BY DEF kDefaultCardBonusRate
<1>4. support.kind = "none" \/ SupportRates(support)
  BY ChapterRates DEF NoSupport
<1>5. \A r \in Rarities : \A k \in 1..(kMasterRankMax + 1) : MasterRankRates[r][k] \in Nat
  BY EventDataAssumption
<1>6. EventBonusBySimple(simple, version, off)
        = MainBonus(grants, cards, MasterRankRates, hasDiff, support)
  BY DEF EventBonusBySimple
<1> HIDE DEF grants, cards, support, hasDiff, R, d
<1>7. QED
  BY <1>1, <1>2, <1>3, <1>4, <1>5, <1>6, MainRates

\* The rules that apply to saved data exist.
LEMMA RulesInForce ==
  ASSUME NEW p, Loadable(p)
  PROVE  WorldBloomVersionOf(p) \in Versions
<1>1. p.wlVersion \in Versions \cup {0}
  BY DEF Loadable
<1>2. kDefaultWorldBloomVersion \in Versions
  BY DEF kDefaultWorldBloomVersion, Versions
<1>3. GetWorldBloomVersion(p.event) \in Versions
  BY VersionInRange
<1>4. CASE p.event = 0 /\ p.wlVersion # 0
  BY <1>1, <1>4, Zenon DEF WorldBloomVersionOf
<1>5. CASE p.event = 0 /\ p.wlVersion = 0
  BY <1>2, <1>5, Zenon DEF WorldBloomVersionOf
<1>6. CASE p.event # 0
  BY <1>3, <1>6, Zenon DEF WorldBloomVersionOf
<1>7. QED
  BY <1>4, <1>5, <1>6

\* Whatever is saved, the bonus in force is a table of natural numbers.
LEMMA BonusInForce ==
  ASSUME NEW p, Loadable(p), NEW off \in Int
  PROVE  BonusRates(EventBonusFor(p, off))
BY RulesInForce, EventRates, SimpleRates DEF EventBonusFor

-----------------------------------------------------------------------------
(***************************************************************************)
(* The cards of a profile under an event bonus.                            *)
(***************************************************************************)
CardFields == {"id", "state", "second", "eventBonus", "supportBonus"}

\* Power is added to a card, its other fields stay.
LEMMA PowerKeeps ==
  ASSUME NEW id, NEW st, NEW second, NEW char, NEW b
  PROVE  LET c == WithPower(NewCard(id, st, second), char, b)
         IN c.id = id /\ c.state = st /\ c.second = second /\ CardFields \subseteq DOMAIN c
BY Zenon DEF WithPower, NewCard, CardFields

\* And so are the bonuses of the event.
LEMMA ApplyKeeps ==
  ASSUME NEW c, CardFields \subseteq DOMAIN c, NEW b
  PROVE  LET d == ApplyToCard(c, b)
         IN /\ d.id = c.id /\ d.state = c.state /\ d.second = c.second
            /\ d.eventBonus = MainBonusOf(c, b) /\ d.supportBonus = SupportBonusOf(c, b.support)
BY DEF ApplyToCard, CardFields

\* A card of the profile adds a natural number to the bonus of a team and of a support deck.
LEMMA CardBonuses ==
  ASSUME NEW c, c.id \in CardIds, Rated(c.state), NEW b, BonusRates(b)
  PROVE  MainBonusOf(c, b) \in Nat /\ SupportBonusOf(c, b.support) \in Nat
<1> DEFINE r == CardTable[c.id].rarity
           k == c.state.masterRank + 1
           l == c.state.skillLevel
<1>1. CardCell(c) \in Cells /\ r \in Rarities
  BY EventDataAssumption DEF CardCell
<1>2. k \in 1..(kMasterRankMax + 1) /\ l \in 1..kSkillLevelMax
  BY DEF Rated, kMasterRankMax
<1> HIDE DEF r, k, l
<1>3. ASSUME NEW x, Rates(x)
      PROVE  MainBonusOf(c, x) \in Nat
  <2>1. x.cards[c.id] \in Nat /\ x.deck[CardCell(c)] \in Nat /\ x.mr[r][k] \in Nat
    BY <1>1, <1>2, <1>3 DEF Rates
  <2>2. MainBonusOf(c, x) = x.cards[c.id] + x.deck[CardCell(c)] + x.mr[r][k]
    BY DEF MainBonusOf, r, k
  <2>3. QED
    BY <2>1, <2>2
<1>4. SupportBonusOf(c, b.support) \in Nat
  <2> DEFINE s == b.support
  <2>1. s.kind = "none" \/ SupportRates(s)
    BY DEF BonusRates
  <2> HIDE DEF s
  <2>2. CASE s.kind = "none" \/ ~CharacterAllowedForSupport(s, CardTable[c.id].char, PrimaryUnit(c.id))
    BY <2>2, Zenon DEF SupportBonusOf, s
  <2>3. CASE s.kind # "none" /\ CharacterAllowedForSupport(s, CardTable[c.id].char, PrimaryUnit(c.id))
    <3>1. MainBonusOf(c, s) \in Nat /\ s.sl[r][l] \in Nat
      BY <1>1, <1>2, <1>3, <2>1, <2>3 DEF SupportRates
    <3>2. SupportBonusOf(c, s) = MainBonusOf(c, s) + s.sl[r][l]
      BY <2>3, Zenon DEF SupportBonusOf, r, l
    <3>3. QED
      BY <3>1, <3>2 DEF s
  <2>4. SupportBonusOf(c, s) \in Nat
    BY <2>2, <2>3 DEF s
  <2>5. QED
    BY <2>4 DEF s
<1>5. QED
  BY <1>3, <1>4 DEF BonusRates

\* What is known of a card made of its row and its state.
CardOf(d, id) == d.id = id /\ d.eventBonus \in Nat /\ d.supportBonus \in Nat

\* A card of a profile that was loaded.
LEMMA CardMade ==
  ASSUME NEW id \in CardIds, NEW st, Rated(st), NEW second, NEW rates, NEW b, BonusRates(b)
  PROVE  CardOf(ApplyToCard(ApplyProfilePowerBonus(NewCard(id, st, second), rates), b), id)
<1> DEFINE c == ApplyProfilePowerBonus(NewCard(id, st, second), rates)
<1>1. c.id = id /\ c.state = st /\ CardFields \subseteq DOMAIN c
  BY PowerKeeps DEF ApplyProfilePowerBonus
<1> HIDE DEF c
<1>2. MainBonusOf(c, b) \in Nat /\ SupportBonusOf(c, b.support) \in Nat
  BY <1>1, CardBonuses
<1>3. CardOf(ApplyToCard(c, b), id)
  BY <1>1, <1>2, ApplyKeeps DEF CardOf
<1>4. QED
  BY <1>3 DEF c

\* The profile in step with saved data and a bonus.
ProfileCards(q) ==
  /\ DOMAIN q.cards \subseteq CardIds /\ DOMAIN q.secondary \subseteq DOMAIN q.cards
  /\ \A id \in DOMAIN q.cards : CardOf(q.cards[id], id)
  /\ \A id \in DOMAIN q.secondary : CardOf(q.secondary[id], id)
  /\ q.support = GetSortedSupportPool(PrimaryCardPool(q))

\* All of them, those with a second skill included.
LEMMA ProfileMade ==
  ASSUME NEW p, Loadable(p), NEW b, BonusRates(b)
  PROVE  ProfileCards(ApplyEventBonus(NewProfile(p), b))
<1> DEFINE rates == ProfileBonus(p)
           known == DOMAIN p.cards \cap CardIds
           both == {k \in known : HasSecondarySkill(k, p.cards[k])}
           Made(id, second) == ApplyProfilePowerBonus(NewCard(id, p.cards[id], second), rates)
           q == NewProfile(p)
           a == ApplyEventBonus(q, b)
<1>1. /\ q.cards = [id \in known |-> Made(id, FALSE)]
      /\ q.secondary = [id \in both |-> Made(id, TRUE)]
      /\ {"cards", "secondary", "support"} \subseteq DOMAIN q
  BY DEF NewProfile, LoadProfile, WithBonus, LoadCards
<1> HIDE DEF q
<1>2. /\ a.cards = [id \in DOMAIN q.cards |-> ApplyToCard(q.cards[id], b)]
      /\ a.secondary = [id \in DOMAIN q.secondary |-> ApplyToCard(q.secondary[id], b)]
      /\ a.support = GetSortedSupportPool(Range(a.cards))
  BY <1>1 DEF ApplyEventBonus
<1> HIDE DEF a
<1>3. \A id \in known : Rated(p.cards[id])
  BY DEF Loadable
<1>4. /\ DOMAIN a.cards = known /\ DOMAIN a.secondary = both
      /\ \A id \in known : a.cards[id] = ApplyToCard(Made(id, FALSE), b)
      /\ \A id \in both : a.secondary[id] = ApplyToCard(Made(id, TRUE), b)
  <2> HIDE DEF Made, known, both
  <2>1. QED
    BY <1>1, <1>2
<1>5. \A id \in known : CardOf(a.cards[id], id)
  BY <1>3, <1>4, CardMade
<1>6. \A id \in both : CardOf(a.secondary[id], id)
  BY <1>3, <1>4, CardMade
<1>7. ProfileCards(a)
  <2> HIDE DEF Made
  <2>1. QED
    BY <1>2, <1>4, <1>5, <1>6 DEF ProfileCards, PrimaryCardPool
<1>8. QED
  BY <1>7 DEF a, q

\* The first cards are a pool with distinct ids.
LEMMA PrimaryIsPool ==
  ASSUME NEW q, ProfileCards(q)
  PROVE  Pool(PrimaryCardPool(q))
<1> DEFINE D == DOMAIN q.cards
           f == [id \in D |-> q.cards[id]]
           P == PrimaryCardPool(q)
<1>1. IsFiniteSet(D) /\ D \subseteq Nat
  BY EventDataAssumption, FS_Subset DEF ProfileCards
<1>2. P = {q.cards[id] : id \in D}
  BY DEF PrimaryCardPool, Range
<1>3. f \in Surjection(D, P)
  BY <1>2 DEF Surjection
<1>4. IsFiniteSet(P)
  <2> HIDE DEF D, P, f
  <2>1. QED
    BY <1>1, <1>3, FS_Surjection
<1>5. \A c \in P : \E id \in D : c = q.cards[id] /\ CardOf(c, id)
  BY <1>2 DEF ProfileCards
<1>6. (\A c \in P : c.id \in Nat /\ c.supportBonus \in Nat) /\ \A c, d \in P : c.id = d.id => c = d
  <2> HIDE DEF D, P
  <2>1. QED
    BY <1>1, <1>5 DEF CardOf
<1>7. QED
  BY <1>4, <1>6 DEF Pool

-----------------------------------------------------------------------------
(***************************************************************************)
(* The saved data stays loadable whatever is edited or imported.           *)
(***************************************************************************)
LEMMA MaxStateRated == \A id : Rated(CreateMaxCardState(id))
BY DEF Rated, CreateMaxCardState, kMasterRankMax, kSkillLevelMax

\* A row that was read is clamped to what has a rate.
LEMMA ListedRated ==
  ASSUME NEW row \in Rows
  PROVE  Rated(ListedState(row))
<1> DEFINE st == CreateMaxCardState(row.id)
           l == ListedState(row)
<1>1. row.masterRank \in Int /\ row.skillLevel \in Int
  BY DEF Rows
<1>2. {"masterRank", "skillLevel", "canvas"} \subseteq DOMAIN st
  BY DEF CreateMaxCardState
<1> HIDE DEF st
<1>3. /\ DOMAIN l = DOMAIN st /\ l.masterRank = Clamp(row.masterRank, 0, kMasterRankMax)
      /\ l.skillLevel = Clamp(row.skillLevel, 1, kSkillLevelMax)
  BY <1>2, Zenon DEF ListedState, st
<1>4. /\ Clamp(row.masterRank, 0, kMasterRankMax) \in 0..kMasterRankMax
      /\ Clamp(row.skillLevel, 1, kSkillLevelMax) \in 1..kSkillLevelMax
  BY <1>1 DEF Clamp, Greater, Lesser, kMasterRankMax, kSkillLevelMax
<1> HIDE DEF l
<1>5. Rated(l)
  BY <1>2, <1>3, <1>4 DEF Rated
<1>6. QED
  BY <1>5 DEF l

\* What has been read of a file.
Readable(acc) ==
  /\ {"ok", "cards"} \subseteq DOMAIN acc
  /\ \A id \in DOMAIN acc.cards : Rated(acc.cards[id])

\* One row more.
LEMMA RowKeeps ==
  ASSUME NEW acc, Readable(acc), NEW row \in Rows
  PROVE  Readable(ReadRow(acc, row))
<1>1. CASE ~acc.ok \/ ~row.owned
  BY <1>1, Zenon DEF ReadRow
<1>2. CASE acc.ok /\ row.owned /\ ~row.readable
  <2> DEFINE a == [acc EXCEPT !.ok = FALSE]
  <2>1. ReadRow(acc, row) = a
    BY <1>2, Zenon DEF ReadRow
  <2>2. DOMAIN a = DOMAIN acc /\ a.cards = acc.cards
    BY DEF Readable
  <2> HIDE DEF a
  <2>3. QED
    BY <2>1, <2>2 DEF Readable
<1>3. CASE acc.ok /\ row.owned /\ row.readable /\ (row.id \notin CardIds \/ row.id \in DOMAIN acc.cards)
  BY <1>3, Zenon DEF ReadRow
<1>4. CASE acc.ok /\ row.owned /\ row.readable /\ ~(row.id \notin CardIds \/ row.id \in DOMAIN acc.cards)
  <2> DEFINE cards == [id \in DOMAIN acc.cards \cup {row.id} |->
                         IF id = row.id THEN ListedState(row) ELSE acc.cards[id]]
             a == [acc EXCEPT !.cards = cards]
  <2>1. ReadRow(acc, row) = a
    BY <1>4, Zenon DEF ReadRow
  <2>2. \A id \in DOMAIN cards : Rated(cards[id])
    BY ListedRated DEF Readable
  <2> HIDE DEF cards
  <2>3. DOMAIN a = DOMAIN acc /\ a.cards = cards
    BY DEF Readable
  <2> HIDE DEF a
  <2>4. QED
    BY <2>1, <2>2, <2>3 DEF Readable
<1>5. QED
  BY <1>1, <1>2, <1>3, <1>4

\* After the last row.
LEMMA ImportReadable ==
  ASSUME NEW rows \in Seq(Rows)
  PROVE  Readable(LoadCardsFromCsv(rows))
<1> DEFINE n == Len(rows)
<1>1. PICK h : Loop(h, Import, rows) /\ Folded(Import, rows) = h[Len(rows)]
  BY FoldIsLoop
<1>2. h[0] = NoneRead /\ \A k \in 1..n : h[k] = ReadRow(h[k - 1], rows[k])
  BY <1>1 DEF Loop, Start, Taken, Import
<1> DEFINE G == {k \in 0..n : Readable(h[k])}
<1>3. n \in Nat /\ 0 \in G
  BY <1>2 DEF NoneRead, Readable
<1>4. ASSUME NEW k \in 1..n, k - 1 \in G
      PROVE  k \in G
  <2>1. rows[k] \in Rows /\ Readable(h[k - 1])
    BY <1>4
  <2>2. Readable(h[k])
    BY <1>2, <2>1, RowKeeps
  <2>3. QED
    BY <2>2
<1>5. \A k \in 0..n : k \in G
  <2> HIDE DEF G, n
  <2>1. QED
    BY <1>3, <1>4, CountInduction
<1>6. Readable(h[n])
  BY <1>3, <1>5
<1>7. QED
  BY <1>1, <1>6, ImportIsFolded

\* Replacing the cards.
LEMMA OtherCards ==
  ASSUME NEW p, Loadable(p), NEW cards, \A id \in DOMAIN cards : Rated(cards[id])
  PROVE  Loadable([p EXCEPT !.cards = cards])
<1> DEFINE q == [p EXCEPT !.cards = cards]
<1>1. /\ DOMAIN q = DOMAIN p /\ q.cards = cards /\ q.wlVersion = p.wlVersion
      /\ q.title = p.title /\ q.ranks = p.ranks
  BY DEF Loadable
<1> HIDE DEF q
<1>2. Loadable(q)
  BY <1>1 DEF Loadable
<1>3. QED
  BY <1>2 DEF q

\* A number that a state of a card may hold.
Allowed(field, value) ==
  /\ field = "masterRank" => value \in 0..kMasterRankMax
  /\ field = "skillLevel" => value \in 1..kSkillLevelMax

\* Setting a field of a card.
LEMMA FieldKeeps ==
  ASSUME NEW p, Loadable(p), NEW id, id \in DOMAIN p.cards, NEW field, NEW value, Allowed(field, value)
  PROVE  Loadable([p EXCEPT !.cards[id][field] = value])
<1> DEFINE st == [p.cards[id] EXCEPT ![field] = value]
           cards == [p.cards EXCEPT ![id] = st]
<1>1. [p EXCEPT !.cards[id][field] = value] = [p EXCEPT !.cards = cards]
  OBVIOUS
<1>2. Rated(p.cards[id])
  BY DEF Loadable
<1>3. Rated(st)
  BY <1>2 DEF Rated, Allowed
<1> HIDE DEF st
<1>4. \A k \in DOMAIN cards : Rated(cards[k])
  BY <1>3 DEF Loadable
<1> HIDE DEF cards
<1>5. QED
  BY <1>1, <1>4, OtherCards

\* Adding or removing a card.
LEMMA OwnKeeps ==
  ASSUME NEW p, Loadable(p), NEW id, NEW state \in BOOLEAN
  PROVE  Loadable([p EXCEPT !.cards =
              CASE state /\ id \in DOMAIN @ -> @
                [] state /\ id \notin DOMAIN @ -> With(@, id, CreateMaxCardState(id))
                [] ~state -> Without(@, id)])
<1> DEFINE cards == CASE state /\ id \in DOMAIN p.cards -> p.cards
                      [] state /\ id \notin DOMAIN p.cards -> With(p.cards, id, CreateMaxCardState(id))
                      [] ~state -> Without(p.cards, id)
           q == [p EXCEPT !.cards =
              CASE state /\ id \in DOMAIN @ -> @
                [] state /\ id \notin DOMAIN @ -> With(@, id, CreateMaxCardState(id))
                [] ~state -> Without(@, id)]
<1>1. q = [p EXCEPT !.cards = cards]
  BY Zenon
<1>2. \A k \in DOMAIN p.cards : Rated(p.cards[k])
  BY DEF Loadable
<1>3. CASE state /\ id \in DOMAIN p.cards
  <2>1. cards = p.cards
    BY <1>3, Zenon
  <2> HIDE DEF cards, q
  <2>2. QED
    BY <1>1, <1>2, <2>1, OtherCards DEF q
<1>4. CASE state /\ id \notin DOMAIN p.cards
  <2>1. cards = With(p.cards, id, CreateMaxCardState(id))
    BY <1>4, Zenon
  <2> HIDE DEF cards, q
  <2>2. \A k \in DOMAIN cards : Rated(cards[k])
    BY <1>2, <2>1, MaxStateRated DEF With
  <2>3. QED
    BY <1>1, <2>2, OtherCards DEF q
<1>5. CASE ~state
  <2>1. cards = Without(p.cards, id)
    BY <1>5, Zenon
  <2> HIDE DEF cards, q
  <2>2. \A k \in DOMAIN cards : Rated(cards[k])
    BY <1>2, <2>1 DEF Without
  <2>3. QED
    BY <1>1, <2>2, OtherCards DEF q
<1>6. QED
  BY <1>3, <1>4, <1>5

\* What an edit saves.
LEMMA EditSaves ==
  ASSUME Loadable(proto), Edit
  PROVE  \E p, oldMode : Loadable(p) /\ UpdateProfile(p, oldMode)
<1>1. ASSUME NEW id \in OwnEdits, NEW state \in BOOLEAN, SetCardOwned(id, state)
      PROVE  \E p, oldMode : Loadable(p) /\ UpdateProfile(p, oldMode)
  BY <1>1, OwnKeeps, Zenon DEF SetCardOwned, Update
<1>2. ASSUME NEW id, NEW field, NEW value, Allowed(field, value), SetCardField(id, field, value)
      PROVE  \E p, oldMode : Loadable(p) /\ UpdateProfile(p, oldMode)
  BY <1>2, FieldKeeps, Zenon DEF SetCardField, Update
<1>3. \A e \in NumberEdits : Allowed(e.field, e.value)
  BY InputsAssumption DEF Allowed
<1>4. \A e \in FlagEdits : Allowed(e.field, e.value)
  BY InputsAssumption DEF Allowed
<1>5. \A e \in EpisodeEdits : Allowed("episodes", e.read)
  BY DEF Allowed
<1>6. ASSUME NEW rows \in CsvFiles, ImportCardsFromCsv(rows)
      PROVE  \E p, oldMode : Loadable(p) /\ UpdateProfile(p, oldMode)
  <2>1. Readable(LoadCardsFromCsv(rows))
    BY InputsAssumption, ImportReadable
  <2>2. Loadable([proto EXCEPT !.cards = LoadCardsFromCsv(rows).cards])
    BY <2>1, OtherCards DEF Readable
  <2>3. QED
    BY <1>6, <2>2 DEF ImportCardsFromCsv, Update
<1>7. ASSUME NEW version \in Versions, SetCustomEventWorldBloomVersion(version)
      PROVE  \E p, oldMode : Loadable(p) /\ UpdateProfile(p, oldMode)
  <2>1. Loadable([proto EXCEPT !.wlVersion = version])
    BY DEF Loadable
  <2>2. QED
    BY <1>7, <2>1 DEF SetCustomEventWorldBloomVersion, Update
<1>8. ASSUME NEW item, NEW level, SetAreaItemLevel(item, level)
      PROVE  \E p, oldMode : Loadable(p) /\ UpdateProfile(p, oldMode)
  <2>1. Loadable([proto EXCEPT !.areaItems[item] = level])
    BY DEF Loadable
  <2>2. QED
    BY <1>8, <2>1 DEF SetAreaItemLevel, Update
<1>9. ASSUME NEW char, NEW rank \in Nat, SetCharacterRank(char, rank)
      PROVE  \E p, oldMode : Loadable(p) /\ UpdateProfile(p, oldMode)
  <2>1. Loadable([proto EXCEPT !.ranks[char] = rank])
    BY DEF Loadable
  <2>2. QED
    BY <1>9, <2>1 DEF SetCharacterRank, Update
<1>10. ASSUME NEW bonus \in TitleEdits, SetTitleBonus(bonus)
      PROVE  \E p, oldMode : Loadable(p) /\ UpdateProfile(p, oldMode)
  <2>1. Loadable([proto EXCEPT !.title = bonus])
    BY InputsAssumption DEF Loadable
  <2>2. QED
    BY <1>10, <2>1 DEF SetTitleBonus, Update
<1>11. ASSUME NEW id, SetMySekaiFixtureCrafted(id)
      PROVE  \E p, oldMode : Loadable(p) /\ UpdateProfile(p, oldMode)
  <2>1. Loadable([proto EXCEPT !.fixtures = IF id \in @ THEN @ \ {id} ELSE @ \cup {id}])
    BY DEF Loadable
  <2>2. QED
    BY <1>11, <2>1 DEF SetMySekaiFixtureCrafted, Update
<1>12. ASSUME NEW gate, NEW level, SetMySekaiGateLevel(gate, level)
      PROVE  \E p, oldMode : Loadable(p) /\ UpdateProfile(p, oldMode)
  <2>1. Loadable([proto EXCEPT !.gates[gate] = level])
    BY DEF Loadable
  <2>2. QED
    BY <1>12, <2>1 DEF SetMySekaiGateLevel, Update
<1>13. ASSUME NEW event, NEW chapter, SetEventBonusByEvent(event, chapter)
      PROVE  \E p, oldMode : Loadable(p) /\ UpdateProfile(p, oldMode)
  <2>1. Loadable([proto EXCEPT !.event = event, !.chapter = IF event = 0 THEN 0 ELSE chapter])
    BY DEF Loadable
  <2>2. QED
    BY <1>13, <2>1 DEF SetEventBonusByEvent
<1>14. ASSUME NEW attr, SetCustomEventAttr(attr)
      PROVE  \E p, oldMode : Loadable(p) /\ UpdateProfile(p, oldMode)
  <2>1. Loadable([proto EXCEPT !.custom.attr = attr])
    BY DEF Loadable
  <2>2. QED
    BY <1>14, <2>1 DEF SetCustomEventAttr, Update
<1>15. ASSUME NEW cu, NEW state, SetCustomEventCharacter(cu, state)
      PROVE  \E p, oldMode : Loadable(p) /\ UpdateProfile(p, oldMode)
  <2>1. Loadable([proto EXCEPT !.custom.chars = IF state THEN @ \cup {cu} ELSE @ \ {cu}])
    BY DEF Loadable
  <2>2. QED
    BY <1>15, <2>1 DEF SetCustomEventCharacter, Update
<1>16. ASSUME NEW char, SetCustomEventChapter(char)
      PROVE  \E p, oldMode : Loadable(p) /\ UpdateProfile(p, oldMode)
  <2>1. Loadable([proto EXCEPT !.custom.chapterChar = char])
    BY DEF Loadable
  <2>2. QED
    BY <1>16, <2>1 DEF SetCustomEventChapter, Update
<1>17. ASSUME NEW state, SetUseOldSubunitlessBonus(state)
      PROVE  \E p, oldMode : Loadable(p) /\ UpdateProfile(p, oldMode)
  <2>1. Loadable([proto EXCEPT !.useOld = state])
    BY DEF Loadable
  <2>2. QED
    BY <1>17, <2>1 DEF SetUseOldSubunitlessBonus, Update
<1>18. \A e \in RankEdits : e.rank \in Nat
  BY InputsAssumption
<1>19. QED
  BY <1>1, <1>2, <1>3, <1>4, <1>5, <1>6, <1>7, <1>8, <1>9, <1>10, <1>11, <1>12, <1>13, <1>14,
     <1>15, <1>16, <1>17, <1>18, Zenon DEF Edit

-----------------------------------------------------------------------------
(***************************************************************************)
(* The cards of an answer are cards of the pool the builder was given.     *)
(***************************************************************************)
LEMMA OrdersUse ==
  ASSUME NEW pool, NEW S \in SUBSET pool, NEW key, NEW s \in OrdersBy(key, S)
  PROVE  Range(s) \subseteq pool
BY DEF OrdersBy, SetToSeqs, Range

\* Teams that the constraints admit.
LEMMA ConstrainedUses ==
  ASSUME NEW con, NEW pool, NEW key, NEW value, NEW S \in GreedyWithConstraints(con, pool, key, value)
  PROVE  S \in Admissible(con, pool)
<1> DEFINE Leading(T) == {c \in T : LedByCard(con, pool, key, Tops(pool, key), T, c)}
           Found(T, lead) == [cards |-> T, choice |-> <<CharsIn(T), CharOf(lead)>>, value |-> value[T]]
           found == UNION {{Found(T, lead) : lead \in Leading(T)} : T \in Admissible(con, pool)}
<1>1. \E f \in found : S = f.cards
  BY DEF GreedyWithConstraints
<1>2. \A f \in found : f.cards \in Admissible(con, pool)
  OBVIOUS
<1>3. QED
  BY <1>1, <1>2

\* The greedy builder takes cards of its pool.
LEMMA GreedyUses ==
  ASSUME NEW con, NEW pool, NEW key, NEW value, NEW s \in Greedy(con, pool, key, value)
  PROVE  Range(s) \subseteq pool
<1>1. CASE con.empty
  <2>1. PICK S \in GreedyNoConstraints(pool, key) : s \in OrdersBy(key, S)
    BY <1>1, Zenon DEF Greedy
  <2>2. S \in SUBSET pool
    BY DEF GreedyNoConstraints, TeamSets, kSubset
  <2>3. QED
    BY <2>1, <2>2, OrdersUse
<1>2. CASE ~con.empty
  <2>1. PICK S \in GreedyWithConstraints(con, FilterCardPool(con, pool), key, value) :
          s \in OrdersBy([c \in S |-> -CharOf(c)], S)
    BY <1>2, Zenon DEF Greedy
  <2>2. S \in SUBSET pool
    BY <2>1, ConstrainedUses DEF Admissible, TeamSets, kSubset, FilterCardPool
  <2>3. QED
    BY <2>1, <2>2, OrdersUse
<1>3. QED
  BY <1>1, <1>2

\* The builders that start from it do, too,
LEMMA MaxPowerUses ==
  ASSUME NEW con, NEW pool, NEW q, NEW wl, NEW s \in MaxPowerTeams(con, pool, q, wl)
  PROVE  Range(s) \subseteq pool
<1>1. PICK st \in CandidateStates : s \in RecommendForState(con, pool, q, st, wl)
  BY Zenon DEF MaxPowerTeams
<1>2. Range(s) \subseteq FilterCards(st, pool)
  BY <1>1, GreedyUses DEF RecommendForState
<1>3. QED
  BY <1>2 DEF FilterCards

LEMMA MaxBonusUses ==
  ASSUME NEW con, NEW pool, NEW b, NEW s \in MaxBonusTeams(con, pool, b)
  PROVE  Range(s) \subseteq pool
BY GreedyUses DEF MaxBonusTeams

\* and the one that looks at every team.
LEMMA NaiveUses ==
  ASSUME NEW con, NEW pool, NEW value, NEW s \in NaiveTeams(con, pool, value)
  PROVE  Range(s) \subseteq pool
<1>1. PICK S \in NaiveCandidates(con, pool) : s \in SetToSeqs(S)
  BY DEF NaiveTeams, BestBy
<1>2. S \subseteq pool
  BY DEF NaiveCandidates, Admissible, TeamSets, kSubset, FilterCardPool
<1>3. QED
  BY <1>1, <1>2 DEF SetToSeqs, Range

\* The pool of the builders is made of cards with rows and bonuses.
LEMMA BuilderPoolCards ==
  ASSUME NEW q, ProfileCards(q), NEW c \in TeamBuilderCardPool(q)
  PROVE  c.id \in DOMAIN q.cards /\ CardOf(c, c.id)
BY DEF TeamBuilderCardPool, Range, ProfileCards, CardOf

\* The version of a card chosen at last is a card of the pool, too.
LEMMA FinalUses ==
  ASSUME NEW q, ProfileCards(q), NEW value, NEW outcomes,
         \A s \in outcomes : Range(s) \subseteq TeamBuilderCardPool(q),
         NEW s \in Finalized(q, value, outcomes)
  PROVE  Range(s) \subseteq TeamBuilderCardPool(q)
<1>1. PICK cards \in outcomes : s \in OptimizeSkillSelection(q, value, cards)
  BY DEF Finalized
<1>2. CASE s = cards
  BY <1>1, <1>2
<1>3. CASE s \in VersionChoices(q, cards)
  <2>1. \A i \in DOMAIN cards : s[i] \in Versions2(q, cards[i])
    BY <1>3 DEF VersionChoices
  <2>2. DOMAIN s = DOMAIN cards
    BY <1>3 DEF VersionChoices
  <2>3. \A i \in DOMAIN cards : cards[i].id \in DOMAIN q.cards
    BY BuilderPoolCards DEF Range
  <2>4. \A i \in DOMAIN cards : Versions2(q, cards[i]) \subseteq TeamBuilderCardPool(q)
    BY <2>3 DEF Versions2, TeamBuilderCardPool, Range
  <2>5. \A i \in DOMAIN s : s[i] \in TeamBuilderCardPool(q)
    BY <2>1, <2>2, <2>4
  <2>6. QED
    BY <2>5 DEF Range
<1>4. QED
  BY <1>1, <1>2, <1>3 DEF OptimizeSkillSelection, BestBy

-----------------------------------------------------------------------------
(***************************************************************************)
(* The invariant: what is saved can be loaded, bonus and cards are those   *)
(* of saved data, and an answer uses cards of the pool.                    *)
(***************************************************************************)
AnswerUsesPool ==
  answer.by \notin {"none", "search", "challenge"} => Range(answer.cards) \subseteq BuilderPool
PageInv ==
  /\ Loadable(proto) /\ OffsetInv
  /\ BonusRates(eventBonus)
  /\ ProfileCards(profile)
  /\ AnswerUsesPool

\* The offset is a number.
LEMMA OffsetIsInt == \A p : OffsetFor(p) \in Int
BY DEF OffsetFor, kSubunitlessOffset

\* The page as it is loaded.
LEMMA InitPage ==
  ASSUME Init
  PROVE  PageInv
<1>1. Loadable(proto)
  BY InputsAssumption DEF Init
<1>2. OffsetInv
  BY DEF Init, OffsetInv
<1>3. BonusRates(eventBonus)
  BY <1>1, BonusInForce DEF Init
<1>4. ProfileCards(profile)
  BY <1>1, <1>3, ProfileMade DEF Init
<1>5. AnswerUsesPool
  BY DEF Init, NoAnswer, AnswerUsesPool
<1>6. QED
  BY <1>1, <1>2, <1>3, <1>4, <1>5 DEF PageInv

\* An edit computes bonus and cards anew, and drops the answer.
LEMMA UpdateKeepsPage ==
  ASSUME PageInv, NEW p, Loadable(p), NEW oldMode, UpdateProfile(p, oldMode)
  PROVE  PageInv'
<1>1. /\ proto' = p /\ eventBonus' = EventBonusFor(p, offset)
      /\ profile' = ApplyEventBonus(NewProfile(p), eventBonus') /\ answer' = NoAnswer
  BY DEF UpdateProfile
<1>2. OffsetInv'
  BY UpdateKeepsInStep DEF PageInv
<1>3. BonusRates(EventBonusFor(p, offset))
  BY OffsetIsInt, BonusInForce DEF PageInv, OffsetInv
<1>4. ProfileCards(ApplyEventBonus(NewProfile(p), EventBonusFor(p, offset)))
  BY <1>3, ProfileMade
<1>5. AnswerUsesPool'
  BY <1>1 DEF NoAnswer, AnswerUsesPool
<1>6. Loadable(proto') /\ BonusRates(eventBonus') /\ ProfileCards(profile')
  BY <1>1, <1>3, <1>4
<1>7. QED
  BY <1>2, <1>5, <1>6 DEF PageInv

\* An answer of a team is none of the pool, or one of the teams of the builder.
LEMMA AnswerFrom ==
  ASSUME NEW name, NEW con, NEW teams, NEW pool, \A s \in teams : Range(s) \subseteq pool,
         AnswersOneOf(name, con, teams)
  PROVE  Range(answer'.cards) \subseteq pool
<1>1. CASE teams = {} /\ Answers([by |-> name, con |-> con, cards |-> <<>>])
  BY <1>1 DEF Answers, Range
<1>2. ASSUME NEW cards \in teams, Answers([by |-> name, con |-> con, cards |-> cards])
      PROVE  Range(answer'.cards) \subseteq pool
  BY <1>2 DEF Answers
<1>3. QED
  BY <1>1, <1>2 DEF AnswersOneOf

\* A build takes the cards of its answer from the pool.
LEMMA BuildKeepsInv ==
  ASSUME PageInv, Build
  PROVE  PageInv'
<1>1. UNCHANGED page
  BY BuildKeepsPage
<1>2. ProfileCards(profile)
  BY DEF PageInv
<1>3. ASSUME NEW con, BuildMaxPower(con)
      PROVE  Range(answer'.cards) \subseteq BuilderPool
  <2>1. \A s \in MaxPowerTeams(con, BuilderPool, profile, WorldBloomRules) : Range(s) \subseteq BuilderPool
    BY MaxPowerUses
  <2>2. \A s \in MaxPowerAnswers(con) : Range(s) \subseteq BuilderPool
    BY <1>2, <2>1, FinalUses DEF MaxPowerAnswers, BuilderPool
  <2>3. QED
    BY <1>3, <2>2, AnswerFrom DEF BuildMaxPower
<1>4. ASSUME NEW con, BuildMaxBonus(con)
      PROVE  Range(answer'.cards) \subseteq BuilderPool
  <2>1. \A s \in MaxBonusTeams(con, BuilderPool, eventBonus) : Range(s) \subseteq BuilderPool
    BY MaxBonusUses
  <2>2. \A s \in MaxBonusAnswers(con) : Range(s) \subseteq BuilderPool
    BY <1>2, <2>1, FinalUses DEF MaxBonusAnswers, BuilderPool
  <2>3. QED
    BY <1>4, <2>2, AnswerFrom DEF BuildMaxBonus
<1>5. ASSUME NEW con, NEW name, BuildNaive(con, name)
      PROVE  Range(answer'.cards) \subseteq BuilderPool
  <2>1. PICK value : AnswersOneOf(name, con, Finalized(profile, Estimate, NaiveTeams(con, BuilderPool, value)))
    BY <1>5, Zenon DEF BuildNaive
  <2>2. \A s \in NaiveTeams(con, BuilderPool, value) : Range(s) \subseteq BuilderPool
    BY NaiveUses
  <2>3. \A s \in Finalized(profile, Estimate, NaiveTeams(con, BuilderPool, value)) :
          Range(s) \subseteq BuilderPool
    BY <1>2, <2>2, FinalUses DEF BuilderPool
  <2>4. QED
    BY <2>1, <2>3, AnswerFrom
<1>6. ASSUME NEW char, BuildChallengeLive(char)
      PROVE  answer'.by = "challenge"
  BY <1>6 DEF BuildChallengeLive, AnswersOneOf, Answers
<1>7. ASSUME NEW con, StartSearch(con)
      PROVE  answer'.by = "search"
  BY <1>7 DEF StartSearch, Answers
<1>8. answer'.by \notin {"search", "challenge"} => Range(answer'.cards) \subseteq BuilderPool
  BY <1>3, <1>4, <1>5, <1>6, <1>7 DEF Build
<1>9. BuilderPool' = BuilderPool
  BY <1>1 DEF page, BuilderPool
<1>10. AnswerUsesPool'
  BY <1>8, <1>9 DEF AnswerUsesPool
<1>11. Loadable(proto)' /\ OffsetInv' /\ BonusRates(eventBonus)' /\ ProfileCards(profile)'
  BY <1>1 DEF page, PageInv, OffsetInv
<1>12. QED
  BY <1>10, <1>11 DEF PageInv

\* Every step.
LEMMA PageStep ==
  ASSUME PageInv, [Next]_vars
  PROVE  PageInv'
<1>1. CASE Edit
  <2>1. PICK p, oldMode : Loadable(p) /\ UpdateProfile(p, oldMode)
    BY <1>1, EditSaves DEF PageInv
  <2>2. QED
    BY <2>1, UpdateKeepsPage
<1>2. CASE Build
  BY <1>2, BuildKeepsInv
<1>3. CASE UNCHANGED vars
  BY <1>3 DEF vars, page, PageInv, OffsetInv, AnswerUsesPool, BuilderPool
<1>4. QED
  BY <1>1, <1>2, <1>3 DEF Next

\* Whatever is edited, imported and built: the saved data loads, every card in play has a row and
\* bonuses that are natural numbers, and an answer uses the player's cards.
THEOREM CardsAreThePlayers == Spec => []PageInv
<1>1. Init => PageInv
  BY InitPage
<1>2. PageInv /\ [Next]_vars => PageInv'
  BY PageStep
<1>3. QED
  BY <1>1, <1>2, PTL DEF Spec

\* The deck that is shown is the one of DeckIsBest.
LEMMA ShownIsBest ==
  ASSUME PageInv
  PROVE  SupportDeckIsBest
<1> SUFFICES ASSUME answer.by \notin {"none", "search", "challenge"}, answer.cards # <<>>
             PROVE  LET shown == Shown(answer.cards)
                        spare == PrimaryCardPool(profile) \ {profile.cards[c.id] : c \in Range(answer.cards)}
                        size == Lesser(SupportTeamSize[WorldBloomVersionOf(proto)], Cardinality(spare))
                    IN /\ Range(shown.support) \subseteq spare
                       /\ \A S \in kSubset(size, spare) :
                            MapThenSumSet(LAMBDA c : c.supportBonus, S) <= SupportBonus(shown)
  BY DEF SupportDeckIsBest
<1> DEFINE pool == PrimaryCardPool(profile)
           cards == answer.cards
           ids == {c.id : c \in Range(cards)}
           spare == pool \ {profile.cards[c.id] : c \in Range(cards)}
           room == SupportTeamSize[WorldBloomVersionOf(proto)]
           left == SupportLeft(GetSortedSupportPool(pool), ids)
           deck == SubSeq(left, 1, Lesser(Len(left), room))
           shown == Shown(cards)
<1>1. ProfileCards(profile) /\ Range(cards) \subseteq BuilderPool
  BY DEF PageInv, AnswerUsesPool
<1>2. Pool(pool) /\ room \in Nat
  BY <1>1, PrimaryIsPool, RulesInForce, SupportAssumption DEF PageInv
<1>3. spare = Unused(pool, ids)
  <2>1. \A c \in Range(cards) : c.id \in DOMAIN profile.cards
    BY <1>1, BuilderPoolCards DEF BuilderPool
  <2>2. \A id \in DOMAIN profile.cards : profile.cards[id].id = id
    BY <1>1 DEF ProfileCards, CardOf
  <2>3. pool = {profile.cards[id] : id \in DOMAIN profile.cards}
    BY DEF PrimaryCardPool, Range
  <2> HIDE DEF pool, cards
  <2>4. QED
    BY <2>1, <2>2, <2>3 DEF Unused
<1>4. shown.support = deck
  <2>1. profile.support = GetSortedSupportPool(pool)
    BY <1>1 DEF ProfileCards
  <2>2. QED
    BY <2>1 DEF Shown, FillSupportCards, Team
<1> HIDE DEF pool, ids, cards, spare, room, shown
<1>5. /\ Range(deck) \subseteq Unused(pool, ids)
      /\ \A S \in kSubset(Lesser(room, Cardinality(Unused(pool, ids))), Unused(pool, ids)) :
           MapThenSumSet(LAMBDA c : c.supportBonus, S) <= SumOver(deck, LAMBDA c : c.supportBonus)
  BY <1>2, DeckIsBest
<1> HIDE DEF deck
<1>6. SupportBonus(shown) = SumOver(deck, LAMBDA c : c.supportBonus)
  BY <1>4 DEF SupportBonus
<1>7. Range(shown.support) \subseteq spare
  BY <1>3, <1>4, <1>5
<1>8. \A S \in kSubset(Lesser(room, Cardinality(spare)), spare) :
        MapThenSumSet(LAMBDA c : c.supportBonus, S) <= SupportBonus(shown)
  BY <1>3, <1>5, <1>6
<1>9. QED
  BY <1>7, <1>8 DEF spare, room, shown, cards, pool

\* The support deck the page shows with a team is the best there is, however many cards compare
\* equal and however the profile came about.
THEOREM DeckIsAlwaysBest == Spec => []SupportDeckIsBest
<1>1. PageInv => SupportDeckIsBest
  BY ShownIsBest
<1>2. QED
  BY <1>1, CardsAreThePlayers, PTL

-----------------------------------------------------------------------------
(***************************************************************************)
(* The bonus of a team is a natural number.                                *)
(***************************************************************************)
LEMMA SetIsListed ==
  ASSUME NEW S, IsFiniteSet(S)
  PROVE  /\ SetToSeq(S) \in Seq(S) /\ Len(SetToSeq(S)) = Cardinality(S)
         /\ Range(SetToSeq(S)) \subseteq S
<1> DEFINE n == Cardinality(S)
<1>1. n \in Nat
  BY FS_CardinalityType
<1>2. PICK f : f \in Bijection(1..n, S)
  BY FS_CardinalityType DEF ExistsBijection
<1>3. f \in [1..n -> S] /\ IsInjective(f)
  BY <1>2 DEF Bijection, Injection, IsInjective
<1>4. SetToSeq(S) \in [1..n -> S]
  <2> HIDE DEF n
  <2>1. QED
    BY <1>3 DEF SetToSeq, n
<1>5. QED
  BY <1>1, <1>4 DEF Range

\* The pool is finite.
LEMMA BuilderPoolFinite ==
  ASSUME NEW q, ProfileCards(q)
  PROVE  IsFiniteSet(TeamBuilderCardPool(q))
<1> DEFINE D == DOMAIN q.cards
           E == DOMAIN q.secondary
           P == Range(q.cards)
           R == Range(q.secondary)
           f == [id \in D |-> q.cards[id]]
           g == [id \in E |-> q.secondary[id]]
<1>1. IsFiniteSet(D) /\ IsFiniteSet(E)
  BY EventDataAssumption, FS_Subset DEF ProfileCards
<1>2. f \in Surjection(D, P) /\ g \in Surjection(E, R)
  BY DEF Surjection, Range
<1>3. IsFiniteSet(P) /\ IsFiniteSet(R)
  <2> HIDE DEF D, E, P, R, f, g
  <2>1. QED
    BY <1>1, <1>2, FS_Surjection
<1>4. IsFiniteSet(P \cup R)
  <2> HIDE DEF P, R
  <2>1. QED
    BY <1>3, FS_Union
<1>5. QED
  BY <1>4 DEF TeamBuilderCardPool

\* A sum of natural numbers.
LEMMA CardsBonusNat ==
  ASSUME NEW q, ProfileCards(q), NEW b, NEW cards \in [1..TeamSize -> TeamBuilderCardPool(q)], NEW wl
  PROVE  TeamEventBonus(Team(cards, wl), b) \in Nat
<1> DEFINE team == Team(cards, wl)
           attrs == AttrsOf(cards)
           S == TeamBuilderCardPool(q)
           n == TeamSize
<1>1. n \in Nat /\ IsFiniteSet(1..n) /\ Cardinality(1..n) = n
  BY EventDataAssumption, FS_Interval
<1>2. \A c \in S : c.eventBonus \in Nat
  BY BuilderPoolCards DEF CardOf
<1>3. cards \in Seq(S) /\ Range(cards) = {cards[i] : i \in 1..n}
  BY <1>1 DEF Range
<1>4. team.cards = cards /\ team.support = <<>>
  BY DEF Team
<1> HIDE DEF team
<1>5. SumOver(cards, LAMBDA c : c.eventBonus) \in Nat
  <2> DEFINE f == [c \in S |-> c.eventBonus]
  <2>1. \A c \in S : f[c] = c.eventBonus /\ f[c] \in Nat
    BY <1>2
  <2> HIDE DEF f, S
  <2>2. SumOver(cards, LAMBDA c : c.eventBonus) = Folded(SumOf(f), cards)
    BY <1>3, <2>1, EventSumIsFolded
  <2>3. Folded(SumOf(f), cards) \in Nat
    BY <1>3, <2>1, SumNat
  <2>4. QED
    BY <2>2, <2>3
<1>6. SupportBonus(team) \in Nat
  <2> DEFINE f == [c \in {} |-> 0]
             none == <<>>
  <2>1. none \in Seq({}) /\ \A c \in {} : f[c] = c.supportBonus /\ f[c] \in Nat
    OBVIOUS
  <2> HIDE DEF f, none
  <2>2. SumOver(none, LAMBDA c : c.supportBonus) = Folded(SumOf(f), none)
    BY <2>1, SupportSumIsFolded
  <2>3. Folded(SumOf(f), none) \in Nat
    BY <2>1, SumNat
  <2>4. team.support = none
    BY <1>4 DEF none
  <2>5. QED
    BY <2>2, <2>3, <2>4 DEF SupportBonus
<1>7. Cardinality(attrs) \in 0..n
  <2> DEFINE g == [i \in 1..n |-> CardTable[cards[i].id].attr]
  <2>1. g \in Surjection(1..n, attrs)
    BY <1>3 DEF Surjection, AttrsOf
  <2> HIDE DEF g, attrs, n
  <2>2. IsFiniteSet(attrs) /\ Cardinality(attrs) <= Cardinality(1..n)
    BY <1>1, <2>1, FS_Surjection
  <2>3. Cardinality(attrs) \in Nat
    BY <2>2, FS_CardinalityType
  <2>4. QED
    BY <1>1, <2>2, <2>3
<1>8. DiffAttrRates[Cardinality(attrs)] \in Nat
  BY <1>7, EventDataAssumption
<1>9. TeamEventBonus(team, b) = SumOver(cards, LAMBDA c : c.eventBonus) + SupportBonus(team)
          + (IF b.hasDiff THEN DiffAttrRates[Cardinality(attrs)] ELSE 0)
  BY <1>4 DEF TeamEventBonus
<1>10. TeamEventBonus(team, b) \in Nat
  <2> DEFINE sum == SumOver(cards, LAMBDA c : c.eventBonus)
  <2>1. sum \in Nat /\ TeamEventBonus(team, b) = sum + SupportBonus(team)
          + (IF b.hasDiff THEN DiffAttrRates[Cardinality(attrs)] ELSE 0)
    BY <1>5, <1>9
  <2> HIDE DEF sum, attrs
  <2>2. QED
    BY <1>6, <1>8, <2>1 DEF attrs
<1>11. QED
  BY <1>10 DEF team

\* So it is for a team given as a set of cards.
LEMMA TeamBonusNat ==
  ASSUME NEW q, ProfileCards(q), NEW b, NEW S \in TeamSets(TeamBuilderCardPool(q)), NEW wl
  PROVE  TeamEventBonus(AsTeam(S, wl), b) \in Nat
<1>1. S \subseteq TeamBuilderCardPool(q) /\ Cardinality(S) = TeamSize
  BY DEF TeamSets, kSubset
<1>2. IsFiniteSet(S)
  BY <1>1, BuilderPoolFinite, FS_Subset
<1>3. SetToSeq(S) \in [1..TeamSize -> TeamBuilderCardPool(q)]
  <2>1. SetToSeq(S) \in Seq(S) /\ Len(SetToSeq(S)) = TeamSize
    BY <1>1, <1>2, SetIsListed
  <2>2. SetToSeq(S) \in [1..TeamSize -> S]
    BY <2>1
  <2>3. QED
    BY <1>1, <2>2
<1>4. QED
  BY <1>3, CardsBonusNat DEF AsTeam

-----------------------------------------------------------------------------
(***************************************************************************)
(* Scores that start a step, and the points they earn.                     *)
(***************************************************************************)
LEMMA DivAtLeast ==
  ASSUME NEW a \in Int, NEW w \in Nat \ {0}, NEW k \in Int
  PROVE  a \div w \in Int /\ (k <= a \div w <=> k * w <= a)
<1> DEFINE q == a \div w
           r == a % w
<1>1. q \in Int /\ r \in Int /\ a = w * q + r /\ 0 <= r /\ r < w
  OBVIOUS
<1> HIDE DEF q, r
<1>2. CASE k <= q
  <2>1. (q - k) * w >= 0
    BY <1>1, <1>2
  <2>2. (q - k) * w = w * q - k * w
    BY <1>1
  <2>3. k * w <= a
    BY <1>1, <2>1, <2>2
  <2>4. QED
    BY <1>1, <1>2, <2>3 DEF q
<1>3. CASE k > q
  <2>1. (k - q - 1) * w >= 0
    BY <1>1, <1>3
  <2>2. (k - q - 1) * w = k * w - w * q - w
    BY <1>1
  <2>3. k * w > a
    BY <1>1, <2>1, <2>2
  <2>4. QED
    BY <1>1, <1>3, <2>3 DEF q
<1>4. QED
  BY <1>1, <1>2, <1>3

\* The starts of steps below a limit are the multiples below it.
LEMMA StepsBelow ==
  ASSUME NEW limit \in Int
  PROVE  \A s : s \in Steps(limit) <=> \E k \in Nat : s = k * SoloScoreStep /\ 100 * s < limit
<1> DEFINE w == SoloScoreStep
           v == 100 * w
<1>1. w \in Nat \ {0} /\ v \in Nat \ {0} /\ w \in Int
  BY ScoresAssumption
<1>2. \A k \in Nat : k <= (limit - 1) \div v <=> k * v <= limit - 1
  <2> HIDE DEF v
  <2>1. QED
    BY <1>1, DivAtLeast
<1>3. \A k \in Nat : k * v = 100 * (k * w)
  <2> HIDE DEF w
  <2>1. QED
    BY <1>1
<1>4. \A k \in Nat : k * w \in Int
  <2> HIDE DEF w
  <2>1. QED
    BY <1>1
<1>5. (limit - 1) \div v \in Int
  <2> HIDE DEF v
  <2>1. QED
    BY <1>1, DivAtLeast
<1>6. \A k \in Nat : k <= (limit - 1) \div v <=> 100 * (k * w) < limit
  <2> HIDE DEF v, w
  <2>1. QED
    BY <1>2, <1>3, <1>4
<1>7. Steps(limit) = {k * w : k \in 0..((limit - 1) \div v)}
  BY DEF Steps
<1>8. QED
  <2> HIDE DEF v, w
  <2>1. \A k : k \in 0..((limit - 1) \div v) <=> k \in Nat /\ k <= (limit - 1) \div v
    BY <1>5
  <2>2. \A s : s \in Steps(limit) <=> \E k \in Nat : s = k * w /\ 100 * s < limit
    BY <1>6, <1>7, <2>1
  <2>3. QED
    BY <2>2 DEF w

\* A play earns a hundred points at least.
LEMMA PointsAtLeast ==
  ASSUME NEW k \in Nat, NEW eb \in Nat
  PROVE  SoloEbiPoints(k * SoloScoreStep, eb) >= 100
<1> DEFINE w == SoloScoreStep
           s == k * w
           j == s \div w
           x == (100 + j) * (10000 + eb)
<1>1. w \in Nat \ {0} /\ s \in Int /\ 0 * w <= s
  BY ScoresAssumption
<1>2. j \in Int /\ 0 <= j
  <2> HIDE DEF w, s
  <2>1. QED
    BY <1>1, DivAtLeast
<1> HIDE DEF j
<1>3. x = 1000000 + 100 * eb + 10000 * j + j * eb /\ j * eb >= 0
  BY <1>2
<1>4. x \in Int /\ 100 * 10000 <= x
  BY <1>2, <1>3
<1> HIDE DEF x
<1>5. 100 <= x \div 10000 /\ x \div 10000 \in Int
  BY <1>4, DivAtLeast
<1>6. SoloEbiPoints(s, eb) = x \div 10000
  BY DEF SoloEbiPoints, x, j, s
<1>7. QED
  BY <1>5, <1>6

\* No base target below a hundred is left out: none can be earned.
LEMMA HitsAreTargets ==
  ASSUME NEW n \in Nat, NEW target
  PROVE  \A s : s \in ScoresThatHit(n, target)
                  <=> s \in Steps(100 * kMaxScore) /\ SoloEbiPoints(s, 100 * n) \in BaseTargets(target)
<1>1. \A s \in Steps(100 * kMaxScore) : SoloEbiPoints(s, 100 * n) >= 100
  <2>1. 100 * n \in Nat /\ 100 * kMaxScore \in Int
    BY ScoresAssumption
  <2>2. QED
    BY <2>1, StepsBelow, PointsAtLeast
<1>2. QED
  BY <1>1, Zenon DEF ScoresThatHit

\* Rounding up keeps the sign.
LEMMA RoundedSign ==
  ASSUME NEW x \in Int, NEW d \in Nat \ {0}
  PROVE  RoundedUp(x, d) \in Int /\ (RoundedUp(x, d) > 0 <=> x > 0) /\ (x >= 0 => RoundedUp(x, d) >= 0)
<1> DEFINE a == -x
           q == a \div d
<1>1. a \in Int /\ d \in Int
  OBVIOUS
<1>2. q \in Int /\ (0 <= q <=> 0 * d <= a) /\ (1 <= q <=> 1 * d <= a)
  <2> HIDE DEF a
  <2>1. QED
    BY <1>1, DivAtLeast
<1>3. RoundedUp(x, d) = -q
  BY DEF RoundedUp
<1> HIDE DEF q
<1>4. QED
  BY <1>2, <1>3

\* The objective is positive when the bonus is exact and there is a score to spare.
LEMMA ExactSign ==
  ASSUME NEW minScore \in Nat, NEW off \in Nat, NEW maxScore \in Int, maxScore > 0
  PROVE  ExactPointsFor(minScore, off, maxScore) > 0 <=> off = 0 /\ 100 * minScore < maxScore
<1> DEFINE spare == maxScore - 100 * minScore
           short == Greater(0, 100 * minScore - maxScore)
           points == ExactPointsFor(minScore, off, maxScore)
<1>1. spare \in Int /\ short \in Int /\ short >= 0
  BY DEF Greater
<1>2. CASE off > 0 \/ 100 * minScore > maxScore
  <2>1. points = -(100 * off + RoundedUp(short, 100))
    BY <1>2 DEF ExactPointsFor
  <2> HIDE DEF short, points
  <2>2. RoundedUp(short, 100) \in Int /\ RoundedUp(short, 100) >= 0
    BY <1>1, RoundedSign
  <2>3. ~(points > 0)
    BY <2>1, <2>2
  <2>4. QED
    BY <1>2, <2>3 DEF points
<1>3. CASE ~(off > 0 \/ 100 * minScore > maxScore) /\ minScore = 0
  <2>1. points = 100000
    BY <1>3 DEF ExactPointsFor
  <2> HIDE DEF points
  <2>2. QED
    BY <1>3, <2>1 DEF points
<1>4. CASE ~(off > 0 \/ 100 * minScore > maxScore) /\ minScore # 0
  <2> DEFINE percent == RoundedUp(maxScore, 100)
  <2>1. points = 1000 * RoundedUp(spare, percent)
    BY <1>4 DEF ExactPointsFor
  <2>2. percent \in Nat \ {0}
    BY RoundedSign
  <2> HIDE DEF points, spare, percent
  <2>3. RoundedUp(spare, percent) \in Int /\ (RoundedUp(spare, percent) > 0 <=> spare > 0)
    BY <1>1, <2>2, RoundedSign
  <2>4. points > 0 <=> spare > 0
    BY <2>1, <2>3
  <2>5. QED
    BY <1>4, <2>4 DEF points, spare
<1>5. QED
  BY <1>2, <1>3, <1>4

\* The least of some natural numbers.
LEMMA LeastOfNats ==
  ASSUME NEW T, \A x \in T : x \in Nat, T # {}
  PROVE  Least(T) \in T /\ \A k \in T : Least(T) <= k
BY LeastNat DEF Least

\* The closest viable bonus is the bonus itself if that is viable.
LEMMA ClosestIsViable ==
  ASSUME NEW viable, \A k \in DOMAIN viable : k \in Nat, DOMAIN viable # {}, NEW n \in Nat
  PROVE  LET v == ClosestViable(viable, 100 * n)
         IN v \in DOMAIN viable /\ (n \in DOMAIN viable => v = n)
<1> DEFINE D == DOMAIN viable
           above == {k \in D : 100 * k >= 100 * n}
           v == ClosestViable(viable, 100 * n)
<1>1. v = IF above # {} THEN Least(above) ELSE Least(D)
  BY DEF ClosestViable
<1>2. (\A k \in D : k \in Nat) /\ D # {}
  OBVIOUS
<1> HIDE DEF v, D
<1>3. CASE above # {}
  <2>1. Least(above) \in above /\ \A k \in above : Least(above) <= k
    <3>1. \A k \in above : k \in Nat
      BY <1>2
    <3> HIDE DEF above
    <3>2. QED
      BY <1>3, <3>1, LeastOfNats
  <2>2. v \in D /\ v \in Nat /\ 100 * v >= 100 * n
    BY <1>1, <1>2, <1>3, <2>1
  <2>3. n \in D => v <= n
    BY <1>1, <1>3, <2>1
  <2>4. QED
    BY <2>2, <2>3 DEF v, D
<1>4. CASE above = {}
  <2>1. Least(D) \in D
    BY <1>2, LeastOfNats
  <2>2. n \notin D
    BY <1>4
  <2>3. QED
    BY <1>1, <1>4, <2>1, <2>2 DEF v, D
<1>5. QED
  BY <1>3, <1>4

\* A table entry that suffices is a play that reaches the target, and the other way round.
LEMMA PositiveMeansPlayable ==
  ASSUME NEW n \in Nat, n < kMaxEventBonus, NEW maxScore \in 1..(100 * kMaxScore), NEW target
  PROVE  LET viable == ViableScores(target)
         IN (DOMAIN viable # {} /\ ExactPointsAt(viable, 100 * n, maxScore) > 0)
              <=> \E s \in Steps(maxScore) : SoloEbiPoints(s, 100 * n) \in BaseTargets(target)
<1> DEFINE viable == ViableScores(target)
           Hits(k) == ScoresThatHit(k, target)
           Plays == {s \in Steps(maxScore) : SoloEbiPoints(s, 100 * n) \in BaseTargets(target)}
           v == ClosestViable(viable, 100 * n)
           off == Distance(100 * v, 100 * n)
<1>1. /\ \A k : k \in DOMAIN viable <=> k \in 0..(kMaxEventBonus - 1) /\ Hits(k) # {}
      /\ \A k \in DOMAIN viable : viable[k] = Least(Hits(k))
  BY DEF ViableScores
<1>2. n \in 0..(kMaxEventBonus - 1) /\ maxScore \in Int /\ maxScore > 0 /\ maxScore <= 100 * kMaxScore
  BY ScoresAssumption
<1>3. \A k \in Nat : \A s \in Hits(k) : s \in Nat
  <2>1. 100 * kMaxScore \in Int
    BY ScoresAssumption
  <2>2. \A s \in Steps(100 * kMaxScore) : s \in Nat
    <3>1. \A k \in Nat : k * SoloScoreStep \in Nat
      BY ScoresAssumption
    <3>2. QED
      BY <2>1, <3>1, StepsBelow
  <2>3. QED
    BY <2>2, HitsAreTargets
<1>4. \A s : s \in Plays <=> s \in Hits(n) /\ 100 * s < maxScore
  <2>1. 100 * kMaxScore \in Int
    BY ScoresAssumption
  <2>2. \A s : s \in Steps(maxScore) <=> s \in Steps(100 * kMaxScore) /\ 100 * s < maxScore
    <3>1. \A k \in Nat : k * SoloScoreStep \in Nat
      BY ScoresAssumption
    <3>2. \A s : s \in Steps(maxScore) <=> \E k \in Nat : s = k * SoloScoreStep /\ 100 * s < maxScore
      BY <1>2, StepsBelow
    <3>3. \A s : s \in Steps(100 * kMaxScore)
                   <=> \E k \in Nat : s = k * SoloScoreStep /\ 100 * s < 100 * kMaxScore
      BY <2>1, StepsBelow
    <3>4. \A s \in Nat : 100 * s < maxScore => 100 * s < 100 * kMaxScore
      BY <1>2, <2>1
    <3>5. QED
      BY <3>1, <3>2, <3>3, <3>4
  <2>3. QED
    BY <2>2, HitsAreTargets
<1> HIDE DEF viable, Hits, Plays
<1>5. CASE DOMAIN viable = {}
  <2>1. Hits(n) = {}
    BY <1>1, <1>2, <1>5
  <2>2. Plays = {}
    BY <1>4, <2>1
  <2>3. QED
    BY <1>5, <2>2 DEF Plays, viable
<1>6. CASE DOMAIN viable # {}
  <2>1. \A k \in DOMAIN viable : k \in Nat
    BY <1>1
  <2>2. v \in DOMAIN viable /\ (n \in DOMAIN viable => v = n) /\ v \in Nat
    BY <1>6, <2>1, ClosestIsViable
  <2> HIDE DEF v
  <2>3. viable[v] = Least(Hits(v)) /\ Hits(v) # {} /\ \A s \in Hits(v) : s \in Nat
    BY <1>1, <1>3, <2>2
  <2>4. viable[v] \in Hits(v) /\ viable[v] \in Nat /\ \A s \in Hits(v) : viable[v] <= s
    BY <2>3, LeastOfNats
  <2>5. off \in Nat /\ (off = 0 <=> v = n)
    BY <2>2 DEF Distance
  <2> HIDE DEF off
  <2>6. ExactPointsAt(viable, 100 * n, maxScore) = ExactPointsFor(viable[v], off, maxScore)
    BY DEF ExactPointsAt, v, off
  <2>7. ExactPointsAt(viable, 100 * n, maxScore) > 0 <=> off = 0 /\ 100 * viable[v] < maxScore
    BY <1>2, <2>4, <2>5, <2>6, ExactSign
  <2>8. ExactPointsAt(viable, 100 * n, maxScore) > 0 <=> Plays # {}
    <3>1. ASSUME off = 0, 100 * viable[v] < maxScore
          PROVE  Plays # {}
      BY <1>4, <2>4, <2>5, <3>1
    <3>2. ASSUME NEW s \in Plays
          PROVE  off = 0 /\ 100 * viable[v] < maxScore
      <4>1. s \in Hits(n) /\ 100 * s < maxScore /\ s \in Nat
        BY <1>3, <1>4
      <4>2. v = n
        BY <1>1, <1>2, <2>2, <4>1
      <4>3. viable[v] <= s
        BY <2>4, <4>1, <4>2
      <4>4. 100 * viable[v] < maxScore
        BY <1>2, <2>4, <4>1, <4>3
      <4>5. QED
        BY <2>5, <4>2, <4>4
    <3>3. QED
      BY <2>7, <3>1, <3>2
  <2>9. QED
    BY <1>6, <2>8 DEF Plays, viable
<1>7. QED
  BY <1>5, <1>6

\* The table's scores end at kMaxScore: the scores of the player's teams are among them.
ScoresFitTable ==
  \A S \in TeamSets(BuilderPool) :
    EbiScore(profile, AsTeam(S, WorldBloomRules), Accuracy) \in 1..(100 * kMaxScore)

\* A strategy is a score, and a multiplier that makes it hit.
LEMMA StrategiesArePlays ==
  ASSUME NEW target, NEW accuracy, NEW q, NEW b, NEW team
  PROVE  GetViableStrategies(target, accuracy, q, b, team) # {}
           <=> \E s \in Steps(EbiScore(q, team, accuracy)) :
                 SoloEbiPoints(s, TeamEventBonus(team, b)) \in BaseTargets(target)
<1> DEFINE M == {n \in Range(BoostMultipliers) : target % n = 0}
           score == EbiScore(q, team, accuracy)
           bonus == TeamEventBonus(team, b)
           Found == GetViableStrategies(target, accuracy, q, b, team)
           Plays == {s \in Steps(score) : SoloEbiPoints(s, bonus) \in BaseTargets(target)}
<1>1. \A t : t \in BaseTargets(target) <=> \E m \in M : t = target \div m
  BY DEF BaseTargets
<1>2. \A st : st \in Found <=> st \in [multiplier : M, scoreLb : Steps(score)]
                                /\ SoloEbiPoints(st.scoreLb, bonus) = target \div st.multiplier
  BY DEF GetViableStrategies
<1> HIDE DEF M, score, bonus, Found
<1>3. ASSUME NEW st \in Found
      PROVE  Plays # {}
  <2>1. st.multiplier \in M /\ st.scoreLb \in Steps(score)
    BY <1>2
  <2>2. SoloEbiPoints(st.scoreLb, bonus) = target \div st.multiplier
    BY <1>2
  <2>3. SoloEbiPoints(st.scoreLb, bonus) \in BaseTargets(target)
    BY <1>1, <2>1, <2>2
  <2>4. QED
    BY <2>1, <2>3
<1>4. ASSUME NEW s \in Plays
      PROVE  Found # {}
  <2>1. PICK m \in M : SoloEbiPoints(s, bonus) = target \div m
    BY <1>1
  <2> DEFINE st == [multiplier |-> m, scoreLb |-> s]
  <2>2. st \in [multiplier : M, scoreLb : Steps(score)] /\ st.multiplier = m /\ st.scoreLb = s
    BY <1>4
  <2> HIDE DEF st
  <2>3. st \in Found
    BY <1>2, <2>1, <2>2
  <2>4. QED
    BY <2>3
<1>5. Found # {} <=> Plays # {}
  BY <1>3, <1>4
<1>6. QED
  BY <1>5 DEF Found, Plays, score, bonus

\* A whole bonus is a number of percents.
LEMMA WholePercents ==
  ASSUME NEW x \in Nat, x % 100 = 0
  PROVE  \E n \in Nat : x = 100 * n
<1>1. x \div 100 \in Nat /\ x = 100 * (x \div 100) + (x % 100)
  OBVIOUS
<1>2. QED
  BY <1>1

\* The property from the invariant.
LEMMA TargetsAreEarnable ==
  ASSUME PageInv, ScoresFitTable
  PROVE  TargetMeansEarnable
<1> SUFFICES ASSUME NEW S \in TeamSets(BuilderPool), NEW target \in Targets,
                    WholeBonus(AsTeam(S, WorldBloomRules)),
                    TeamEventBonus(AsTeam(S, WorldBloomRules), eventBonus) < 100 * kMaxEventBonus
             PROVE  ExactPoints(Viable[target], Accuracy, profile, eventBonus, AsTeam(S, WorldBloomRules)) > 0
                      <=> GetViableStrategies(target, Accuracy, profile, eventBonus,
                                              AsTeam(S, WorldBloomRules)) # {}
  BY DEF TargetMeansEarnable
<1> DEFINE team == AsTeam(S, WorldBloomRules)
           bonus == TeamEventBonus(team, eventBonus)
           score == EbiScore(profile, team, Accuracy)
           viable == ViableScores(target)
           points == ExactPoints(viable, Accuracy, profile, eventBonus, team)
<1>1. bonus \in Nat
  BY TeamBonusNat DEF PageInv, BuilderPool
<1>2. PICK n \in Nat : bonus = 100 * n
  BY <1>1, WholePercents DEF WholeBonus
<1>3. n < kMaxEventBonus
  BY <1>2, ScoresAssumption
<1>4. score \in 1..(100 * kMaxScore)
  BY DEF ScoresFitTable
<1>5. Viable[target] = viable
  BY DEF Viable
<1>6. points = IF DOMAIN viable = {} THEN MinusInfinity ELSE ExactPointsAt(viable, bonus, score)
  BY DEF ExactPoints
<1>7. GetViableStrategies(target, Accuracy, profile, eventBonus, team) # {}
        <=> \E s \in Steps(score) : SoloEbiPoints(s, bonus) \in BaseTargets(target)
  BY StrategiesArePlays
<1> HIDE DEF team, bonus, score, viable, points
<1>8. (DOMAIN viable # {} /\ ExactPointsAt(viable, 100 * n, score) > 0)
        <=> \E s \in Steps(score) : SoloEbiPoints(s, 100 * n) \in BaseTargets(target)
  BY <1>3, <1>4, PositiveMeansPlayable DEF viable
<1>9. points > 0 <=> DOMAIN viable # {} /\ ExactPointsAt(viable, 100 * n, score) > 0
  BY <1>2, <1>6 DEF MinusInfinity
<1>10. QED
  BY <1>2, <1>5, <1>7, <1>8, <1>9 DEF points, team

\* In every state, for every event, bonus rule and target: as far as the table's scores reach, a
\* team of a whole bonus has a positive objective exactly when a play of it earns the target.
THEOREM TargetsAreAlwaysEarnable == Spec => [](ScoresFitTable => TargetMeansEarnable)
<1>1. PageInv => (ScoresFitTable => TargetMeansEarnable)
  BY TargetsAreEarnable
<1>2. Spec => []PageInv
  BY CardsAreThePlayers
<1>3. QED
  BY <1>1, <1>2, PTL

-----------------------------------------------------------------------------
(***************************************************************************)
(* The greedy choice.  A set of cards is compared with another by          *)
(* exchanging cards, one at a time.                                        *)
(***************************************************************************)

\* Exchanging a card exchanges its value in the sum.
LEMMA SwapSum ==
  ASSUME NEW f, NEW S, IsFiniteSet(S), NEW d \in S, NEW e, e \notin S,
         \A x \in S \cup {e} : f[x] \in Int
  PROVE  SetSum(f, (S \ {d}) \cup {e}) = SetSum(f, S) - f[d] + f[e]
<1> DEFINE rest == S \ {d}
           T == rest \cup {e}
<1>1. IsFiniteSet(rest) /\ IsFiniteSet(T) /\ T \ {e} = rest
  <2>1. rest \subseteq S /\ T \ {e} = rest
    OBVIOUS
  <2> HIDE DEF rest
  <2>2. IsFiniteSet(rest)
    BY <2>1, FS_Subset
  <2>3. QED
    BY <2>1, <2>2, FS_AddElement
<1>2. SetSum(f, S) = f[d] + SetSum(f, rest)
  BY SetSumTake
<1>3. SetSum(f, T) = f[e] + SetSum(f, rest)
  <2>1. (\A x \in T : f[x] \in Int) /\ e \in T
    OBVIOUS
  <2> HIDE DEF T, rest
  <2>2. QED
    BY <1>1, <2>1, SetSumTake
<1>4. SetSum(f, rest) \in Int
  BY <1>1, SetSumInt
<1>5. f[d] \in Int /\ f[e] \in Int
  OBVIOUS
<1>6. SetSum(f, T) = SetSum(f, S) - f[d] + f[e]
  <2> HIDE DEF T, rest
  <2>1. QED
    BY <1>2, <1>3, <1>4, <1>5
<1>7. QED
  BY <1>6

\* When every other set of a family can be brought closer to G without losing, none is worth more.
LEMMA Exchange ==
  ASSUME NEW f, NEW pool, IsFiniteSet(pool), \A x \in pool : f[x] \in Int,
         NEW F \in SUBSET SUBSET pool, NEW G \in SUBSET pool,
         \A S \in F : S # G =>
           \E d \in S \ G, e \in G \ S : f[d] <= f[e] /\ (S \ {d}) \cup {e} \in F,
         NEW S0 \in F
  PROVE  SetSum(f, S0) <= SetSum(f, G)
<1> DEFINE Bad == {S \in F : ~(SetSum(f, S) <= SetSum(f, G))}
           Sizes == {Cardinality(S \ G) : S \in Bad}
<1> SUFFICES ASSUME Bad # {} PROVE FALSE
  OBVIOUS
<1>1. \A S \in SUBSET pool : IsFiniteSet(S) /\ IsFiniteSet(S \ G) /\ Cardinality(S \ G) \in Nat
  BY FS_Subset, FS_CardinalityType
<1>2. \A S \in SUBSET pool : SetSum(f, S) \in Int
  BY <1>1, SetSumInt
<1>3. PICK S \in Bad : \A T \in Bad : Cardinality(S \ G) <= Cardinality(T \ G)
  <2>1. \A S \in Bad : S \in SUBSET pool
    OBVIOUS
  <2>2. Sizes \subseteq Nat /\ Sizes # {}
    <3>1. \A S \in Bad : Cardinality(S \ G) \in Nat
      BY <1>1, <2>1
    <3>2. PICK S \in Bad : TRUE
      OBVIOUS
    <3> HIDE DEF Bad
    <3>3. Cardinality(S \ G) \in Sizes
      BY <3>2
    <3>4. ASSUME NEW m \in Sizes
          PROVE  m \in Nat
      <4>1. PICK T \in Bad : m = Cardinality(T \ G)
        OBVIOUS
      <4>2. QED
        BY <3>1, <4>1
    <3> HIDE DEF Sizes
    <3>5. QED
      BY <3>3, <3>4
  <2>3. PICK m \in Sizes : \A n \in Sizes : m <= n
    <3> HIDE DEF Sizes
    <3>1. QED
      BY <2>2, LeastNat
  <2>4. PICK S \in Bad : m = Cardinality(S \ G)
    OBVIOUS
  <2>5. \A T \in Bad : Cardinality(T \ G) \in Sizes
    OBVIOUS
  <2> HIDE DEF Bad, Sizes
  <2>6. QED
    BY <2>3, <2>4, <2>5
<1>4. S \in F /\ S # G /\ S \subseteq pool
  BY <1>2, <1>3
<1>5. PICK d \in S \ G, e \in G \ S : f[d] <= f[e] /\ (S \ {d}) \cup {e} \in F
  BY <1>4
<1> DEFINE T == (S \ {d}) \cup {e}
<1>6. SetSum(f, T) = SetSum(f, S) - f[d] + f[e]
  <2>1. d \in S /\ e \notin S /\ \A x \in S \cup {e} : f[x] \in Int
    BY <1>4, <1>5
  <2>2. QED
    BY <1>1, <1>4, <2>1, SwapSum
<1>7. SetSum(f, S) <= SetSum(f, T)
  <2>1. f[d] \in Int /\ f[e] \in Int
    BY <1>4, <1>5
  <2> HIDE DEF T
  <2>2. QED
    BY <1>2, <1>4, <1>5, <1>6, <2>1
<1>8. T \in Bad
  <2>1. T \in F /\ T \subseteq pool
    BY <1>5
  <2>2. ~(SetSum(f, S) <= SetSum(f, G))
    BY <1>3
  <2> HIDE DEF T
  <2>3. QED
    BY <1>2, <1>4, <1>7, <2>1, <2>2
<1>9. Cardinality(T \ G) = Cardinality(S \ G) - 1
  <2>1. T \ G = (S \ G) \ {d} /\ d \in S \ G
    BY <1>5
  <2>2. IsFiniteSet(S \ G)
    BY <1>1, <1>4
  <2> DEFINE D == S \ G
  <2> HIDE DEF D, T
  <2>3. IsFiniteSet(D) /\ d \in D /\ T \ G = D \ {d}
    BY <2>1, <2>2 DEF D
  <2>4. Cardinality(D \ {d}) = Cardinality(D) - 1
    BY <2>3, FS_RemoveElement
  <2>5. QED
    BY <2>3, <2>4 DEF D
<1>10. Cardinality(S \ G) \in Nat
  BY <1>1, <1>4
<1> HIDE DEF T, Bad
<1>11. Cardinality(S \ G) <= Cardinality(T \ G)
  BY <1>3, <1>8
<1>12. QED
  BY <1>9, <1>10, <1>11

-----------------------------------------------------------------------------
(* A sequence that lists a set.                                            *)

Lists(s, S) ==
  /\ s \in [1..Cardinality(S) -> S]
  /\ \A i, j \in 1..Cardinality(S) : i # j => s[i] # s[j]

\* The sequences a team is handed over as.
LEMMA SeqLists ==
  ASSUME NEW S, IsFiniteSet(S)
  PROVE  Lists(SetToSeq(S), S)
<1> DEFINE n == Cardinality(S)
<1>1. PICK f : f \in Bijection(1..n, S)
  BY FS_CardinalityType DEF ExistsBijection
<1>2. f \in [1..n -> S] /\ IsInjective(f)
  BY <1>1 DEF Bijection, Injection, IsInjective
<1>3. SetToSeq(S) \in [1..n -> S] /\ IsInjective(SetToSeq(S))
  BY <1>2 DEF SetToSeq
<1>4. QED
  BY <1>3 DEF Lists, IsInjective

LEMMA OrdersList ==
  ASSUME NEW S, NEW key, NEW s \in OrdersBy(key, S)
  PROVE  Lists(s, S)
BY DEF OrdersBy, SetToSeqs, Lists

\* It has each member in one place.
LEMMA ListRange ==
  ASSUME NEW S, IsFiniteSet(S), NEW s, Lists(s, S)
  PROVE  /\ s \in Seq(S) /\ Len(s) = Cardinality(S) /\ Cardinality(S) \in Nat
         /\ Range(s) = S /\ DOMAIN s = 1..Cardinality(S)
<1> DEFINE n == Cardinality(S)
<1>1. n \in Nat /\ IsFiniteSet(1..n) /\ Cardinality(1..n) = n
  BY FS_CardinalityType, FS_Interval
<1>2. s \in [1..n -> S]
  BY DEF Lists
<1>3. s \in Injection(1..n, S)
  BY <1>2 DEF Lists, Injection, IsInjective
<1>4. s \in Surjection(1..n, S)
  <2> HIDE DEF n
  <2>1. Cardinality(1..n) = Cardinality(S)
    BY <1>1 DEF n
  <2>2. QED
    BY <1>3, <2>1, FS_Injection
<1>5. Range(s) = S
  BY <1>2, <1>4 DEF Surjection, Range
<1>6. QED
  BY <1>1, <1>2, <1>5

\* What a loop adds up over such a sequence is the sum over the set.
LEMMA ListedSum ==
  ASSUME NEW f, NEW S, IsFiniteSet(S), \A x \in S : f[x] \in Int, NEW s, Lists(s, S)
  PROVE  Folded(SumOf(f), s) = SetSum(f, S)
<1> DEFINE n == Cardinality(S)
           Upto(k) == {s[i] : i \in 1..k}
<1>1. s \in Seq(S) /\ Len(s) = n /\ n \in Nat /\ Range(s) = S /\ DOMAIN s = 1..n
  BY ListRange
<1>2. \A i, j \in 1..n : i # j => s[i] # s[j]
  BY DEF Lists
<1> HIDE DEF n
<1>3. PICK h : Adds(h, f, s) /\ Folded(SumOf(f), s) = h[Len(s)]
  BY <1>1, SumLoop
<1> DEFINE H == {k \in 0..n : h[k] = SetSum(f, Upto(k))}
<1>4. 0 \in H
  <2>1. Upto(0) = {}
    OBVIOUS
  <2>2. h[0] = SetSum(f, Upto(0))
    BY <1>3, <2>1, SetSumEmpty DEF Adds
  <2> HIDE DEF Upto
  <2>3. QED
    BY <1>1, <2>2
<1>5. ASSUME NEW k \in 1..n, k - 1 \in H
      PROVE  k \in H
  <2> DEFINE T == Upto(k)
  <2>1. T \subseteq S /\ s[k] \in T /\ k \in 1..Len(s) /\ k \in Nat /\ k \in 0..n
    BY <1>1
  <2>2. T \ {s[k]} = Upto(k - 1)
    <3>1. \A i \in 1..k : i # k => s[i] # s[k] /\ i \in 1..(k - 1)
      BY <1>1, <1>2
    <3>2. \A i \in 1..(k - 1) : i \in 1..k /\ s[i] # s[k]
      BY <1>1, <1>2
    <3>3. QED
      BY <3>1, <3>2
  <2>3. IsFiniteSet(T) /\ \A x \in T : f[x] \in Int
    BY <2>1, FS_Subset
  <2> HIDE DEF Upto
  <2>4. SetSum(f, T) = f[s[k]] + SetSum(f, T \ {s[k]})
    <3> HIDE DEF T
    <3>1. QED
      BY <2>1, <2>3, SetSumTake
  <2>5. h[k] = h[k - 1] + f[s[k]]
    BY <1>3, <2>1 DEF Adds
  <2>6. SetSum(f, Upto(k - 1)) \in Int /\ f[s[k]] \in Int
    <3>1. IsFiniteSet(T \ {s[k]}) /\ \A x \in T \ {s[k]} : f[x] \in Int
      BY <2>3, FS_Subset
    <3>2. QED
      BY <2>1, <2>2, <2>3, <3>1, SetSumInt
  <2>7. h[k - 1] = SetSum(f, Upto(k - 1))
    BY <1>5
  <2>8. h[k] = SetSum(f, T)
    <3> DEFINE before == SetSum(f, Upto(k - 1))
    <3>1. SetSum(f, T) = f[s[k]] + before /\ h[k] = before + f[s[k]]
      BY <2>2, <2>4, <2>5, <2>7
    <3> HIDE DEF before, T
    <3>2. QED
      BY <2>6, <3>1 DEF before
  <2>9. QED
    BY <2>1, <2>8
<1>6. \A k \in 0..n : k \in H
  <2> HIDE DEF H
  <2>1. QED
    BY <1>1, <1>4, <1>5, CountInduction
<1>7. h[n] = SetSum(f, Upto(n))
  <2>1. n \in 0..n
    BY <1>1
  <2>2. QED
    BY <1>6, <2>1
<1>8. Upto(n) = S
  BY <1>1 DEF Range
<1>9. QED
  BY <1>1, <1>3, <1>7, <1>8

\* The sum of the powers under a match is a fold of the kind above,
LEMMA PowerSumIsFolded ==
  ASSUME NEW match, NEW S, NEW s \in Seq(S), NEW f, \A c \in S : f[c] = c.power[match]
  PROVE  SumOver(s, LAMBDA c : c.power[match]) = Folded(SumOf(f), s)
<1> DEFINE D == DOMAIN s
           Entry(g, T) == IF T = {} THEN 0 ELSE g[T \ {Max(T)}] + s[Max(T)].power[match]
           P(g) == g = [T \in SUBSET D |-> Entry(g, T)]
           how == SumOf(f)
           Other(g, T) == IF T = {} THEN Start(how) ELSE Taken(how, g[T \ {Max(T)}], s[Max(T)])
<1>1. D = 1..Len(s) /\ Len(s) \in Nat
  OBVIOUS
<1>2. ASSUME NEW g, NEW T \in SUBSET D
      PROVE  Entry(g, T) = Other(g, T)
  <2>1. CASE T = {}
    BY <2>1 DEF SumOf, Start
  <2>2. CASE T # {}
    <3>1. Max(T) \in 1..Len(s)
      BY <1>1, <2>2, MaxOfPositions
    <3>2. s[Max(T)] \in S
      BY <3>1
    <3>3. f[s[Max(T)]] = s[Max(T)].power[match]
      BY <3>2
    <3>4. how.loop = "sum" /\ how.by = f
      BY DEF SumOf
    <3> HIDE DEF how
    <3>5. QED
      BY <2>2, <3>3, <3>4 DEF Taken
  <2>3. QED
    BY <2>1, <2>2
<1>3. \A g : P(g) <=> Builds(g, how, s, D)
  <2> TAKE g
  <2>1. [T \in SUBSET D |-> Entry(g, T)] = [T \in SUBSET D |-> Other(g, T)]
    <3> HIDE DEF Entry, Other
    <3>1. QED
      BY <1>2
  <2>2. QED
    BY <2>1 DEF Builds
<1>4. SumOver(s, LAMBDA c : c.power[match]) = (CHOOSE g : P(g))[D]
  BY DEF SumOver, FoldLeft, MapThenFoldSet
<1>5. (CHOOSE g : P(g)) = (CHOOSE g : Builds(g, how, s, D))
  <2> HIDE DEF P, how, D
  <2>1. QED
    BY <1>3
<1>6. QED
  BY <1>4, <1>5 DEF Folded

\* and does not depend on the order of the cards.
LEMMA PowerOfList ==
  ASSUME NEW match, NEW S, IsFiniteSet(S), NEW s, Lists(s, S),
         NEW f, \A c \in S : f[c] = c.power[match] /\ f[c] \in Int
  PROVE  PowerUnder(s, match) = SetSum(f, S)
<1>1. s \in Seq(S)
  BY ListRange
<1>2. Folded(SumOf(f), s) = SetSum(f, S)
  BY ListedSum
<1>3. SumOver(s, LAMBDA c : c.power[match]) = Folded(SumOf(f), s)
  BY <1>1, PowerSumIsFolded
<1>4. QED
  BY <1>2, <1>3 DEF PowerUnder

-----------------------------------------------------------------------------
(* The power of a card.                                                    *)

\* What a card has by its state and the profile, in a team that matches as m says.
PowerIn(id, st, b, m) ==
  SumOfParts(PowerVec(id, st)) + Scaled(PowerVec(id, st), b.cr[CardTable[id].char])
    + Scaled(PowerVec(id, st), AreaItemRate(id, b, m))
    + (SumOfParts(PowerVec(id, st)) * b.fixture[CardTable[id].char]) \div 1000
    + (SumOfParts(PowerVec(id, st)) * b.gate[PrimaryUnit(id)]) \div 1000

LEMMA NewCardFields ==
  ASSUME NEW id, NEW st, NEW second
  PROVE  LET c == NewCard(id, st, second)
         IN c.id = id /\ c.vec = PowerVec(id, st) /\ "power" \in DOMAIN c
BY Zenon DEF NewCard

LEMMA PowerSet ==
  ASSUME NEW c, "power" \in DOMAIN c, NEW char, NEW b, NEW m \in Matches
  PROVE  WithPower(c, char, b).power[m]
           = SumOfParts(c.vec) + Scaled(c.vec, b.cr[char]) + Scaled(c.vec, AreaItemRate(c.id, b, m))
               + (SumOfParts(c.vec) * b.fixture[char]) \div 1000
               + (SumOfParts(c.vec) * b.gate[PrimaryUnit(c.id)]) \div 1000
<1> DEFINE cr == Scaled(c.vec, b.cr[char])
           fixture == (SumOfParts(c.vec) * b.fixture[char]) \div 1000
           gate == (SumOfParts(c.vec) * b.gate[PrimaryUnit(c.id)]) \div 1000
           area == [k \in Matches |-> Scaled(c.vec, AreaItemRate(c.id, b, k))]
           power == [k \in Matches |-> SumOfParts(c.vec) + cr + area[k] + fixture + gate]
<1>1. WithPower(c, char, b).power = power
  BY Zenon DEF WithPower
<1>2. area[m] = Scaled(c.vec, AreaItemRate(c.id, b, m))
  OBVIOUS
<1>3. power[m] = SumOfParts(c.vec) + cr + area[m] + fixture + gate
  <2> HIDE DEF area, cr, fixture, gate
  <2>1. QED
    OBVIOUS
<1>4. QED
  BY <1>1, <1>2, <1>3, Zenon

LEMMA ApplyKeepsPower ==
  ASSUME NEW c, NEW b, "power" \in DOMAIN c, "id" \in DOMAIN c
  PROVE  ApplyToCard(c, b).power = c.power /\ ApplyToCard(c, b).id = c.id
BY DEF ApplyToCard

\* A sum of natural numbers over a set.
LEMMA SetSumNat ==
  ASSUME NEW f, NEW S, IsFiniteSet(S), \A x \in S : f[x] \in Nat
  PROVE  SetSum(f, S) \in Nat
<1> DEFINE Bad == {T \in SUBSET S : SetSum(f, T) \notin Nat}
<1> SUFFICES ASSUME Bad # {} PROVE FALSE
  OBVIOUS
<1>1. PICK T \in Bad : \A U \in SUBSET T : U \in Bad => U = T
  <2>1. Bad \in SUBSET SUBSET S
    OBVIOUS
  <2> HIDE DEF Bad
  <2>2. QED
    BY <2>1, SmallestSubset
<1>2. T \in SUBSET S /\ IsFiniteSet(T) /\ SetSum(f, T) \notin Nat
  BY <1>1, FS_Subset
<1>3. T # {}
  BY <1>2, SetSumEmpty
<1>4. Chosen(T) \in T
  BY <1>3, ChosenIn
<1>5. SetSum(f, T \ {Chosen(T)}) \in Nat
  BY <1>1, <1>2, <1>4
<1>6. QED
  BY <1>2, <1>3, <1>4, <1>5, SetSumChosen

\* So is the sum of rates,
LEMMA RateIsSetSum ==
  ASSUME NEW S, NEW f, \A x \in S : f[x] = x.rate
  PROVE  MapThenSumSet(LAMBDA x : x.rate, S) = SetSum(f, S)
<1> DEFINE Entry(g, T) == IF T = {} THEN 0 ELSE Chosen(T).rate + g[T \ {Chosen(T)}]
           Other(g, T) == IF T = {} THEN 0 ELSE f[Chosen(T)] + g[T \ {Chosen(T)}]
           P(g) == g = [T \in SUBSET S |-> Entry(g, T)]
<1>1. ASSUME NEW g, NEW T \in SUBSET S
      PROVE  Entry(g, T) = Other(g, T)
  BY ChosenIn
<1>2. \A g : P(g) <=> Sums(g, f, S)
  <2> TAKE g
  <2>1. [T \in SUBSET S |-> Entry(g, T)] = [T \in SUBSET S |-> Other(g, T)]
    <3> HIDE DEF Entry, Other
    <3>1. QED
      BY <1>1
  <2>2. QED
    BY <2>1 DEF Sums
<1>3. MapThenSumSet(LAMBDA x : x.rate, S) = (CHOOSE g : P(g))[S]
  BY DEF MapThenSumSet, MapThenFoldSet, Chosen
<1>4. (CHOOSE g : P(g)) = (CHOOSE g : Sums(g, f, S))
  <2> HIDE DEF P
  <2>1. QED
    BY <1>2
<1>5. QED
  BY <1>3, <1>4 DEF SetSum

\* that of rates for matching teams,
LEMMA MatchingIsSetSum ==
  ASSUME NEW S, NEW f, \A x \in S : f[x] = x.allMatch
  PROVE  MapThenSumSet(LAMBDA x : x.allMatch, S) = SetSum(f, S)
<1> DEFINE Entry(g, T) == IF T = {} THEN 0 ELSE Chosen(T).allMatch + g[T \ {Chosen(T)}]
           Other(g, T) == IF T = {} THEN 0 ELSE f[Chosen(T)] + g[T \ {Chosen(T)}]
           P(g) == g = [T \in SUBSET S |-> Entry(g, T)]
<1>1. ASSUME NEW g, NEW T \in SUBSET S
      PROVE  Entry(g, T) = Other(g, T)
  BY ChosenIn
<1>2. \A g : P(g) <=> Sums(g, f, S)
  <2> TAKE g
  <2>1. [T \in SUBSET S |-> Entry(g, T)] = [T \in SUBSET S |-> Other(g, T)]
    <3> HIDE DEF Entry, Other
    <3>1. QED
      BY <1>1
  <2>2. QED
    BY <2>1 DEF Sums
<1>3. MapThenSumSet(LAMBDA x : x.allMatch, S) = (CHOOSE g : P(g))[S]
  BY DEF MapThenSumSet, MapThenFoldSet, Chosen
<1>4. (CHOOSE g : P(g)) = (CHOOSE g : Sums(g, f, S))
  <2> HIDE DEF P
  <2>1. QED
    BY <1>2
<1>5. QED
  BY <1>3, <1>4 DEF SetSum

LessonSum(k, lessons) == MapThenSumSet(LAMBDA l : l.bonus[k], lessons)
EpisodeSum(id, k, known) == MapThenSumSet(LAMBDA e : Episodes[id][e][k], known)

\* the power by master lessons,
LEMMA LessonsAreSetSum ==
  ASSUME NEW k, NEW S, NEW f, \A x \in S : f[x] = x.bonus[k]
  PROVE  LessonSum(k, S) = SetSum(f, S)
<1> DEFINE Entry(g, T) == IF T = {} THEN 0 ELSE Chosen(T).bonus[k] + g[T \ {Chosen(T)}]
           Other(g, T) == IF T = {} THEN 0 ELSE f[Chosen(T)] + g[T \ {Chosen(T)}]
           P(g) == g = [T \in SUBSET S |-> Entry(g, T)]
<1>1. ASSUME NEW g, NEW T \in SUBSET S
      PROVE  Entry(g, T) = Other(g, T)
  BY ChosenIn
<1>2. \A g : P(g) <=> Sums(g, f, S)
  <2> TAKE g
  <2>1. [T \in SUBSET S |-> Entry(g, T)] = [T \in SUBSET S |-> Other(g, T)]
    <3> HIDE DEF Entry, Other
    <3>1. QED
      BY <1>1
  <2>2. QED
    BY <2>1 DEF Sums
<1>3. LessonSum(k, S) = (CHOOSE g : P(g))[S]
  BY DEF LessonSum, MapThenSumSet, MapThenFoldSet, Chosen
<1>4. (CHOOSE g : P(g)) = (CHOOSE g : Sums(g, f, S))
  <2> HIDE DEF P
  <2>1. QED
    BY <1>2
<1>5. QED
  BY <1>3, <1>4 DEF SetSum

\* and the power by episodes.
LEMMA EpisodesAreSetSum ==
  ASSUME NEW id, NEW k, NEW S, NEW f, \A x \in S : f[x] = Episodes[id][x][k]
  PROVE  EpisodeSum(id, k, S) = SetSum(f, S)
<1> DEFINE Entry(g, T) == IF T = {} THEN 0 ELSE Episodes[id][Chosen(T)][k] + g[T \ {Chosen(T)}]
           Other(g, T) == IF T = {} THEN 0 ELSE f[Chosen(T)] + g[T \ {Chosen(T)}]
           P(g) == g = [T \in SUBSET S |-> Entry(g, T)]
<1>1. ASSUME NEW g, NEW T \in SUBSET S
      PROVE  Entry(g, T) = Other(g, T)
  BY ChosenIn
<1>2. \A g : P(g) <=> Sums(g, f, S)
  <2> TAKE g
  <2>1. [T \in SUBSET S |-> Entry(g, T)] = [T \in SUBSET S |-> Other(g, T)]
    <3> HIDE DEF Entry, Other
    <3>1. QED
      BY <1>1
  <2>2. QED
    BY <2>1 DEF Sums
<1>3. EpisodeSum(id, k, S) = (CHOOSE g : P(g))[S]
  BY DEF EpisodeSum, MapThenSumSet, MapThenFoldSet, Chosen
<1>4. (CHOOSE g : P(g)) = (CHOOSE g : Sums(g, f, S))
  <2> HIDE DEF P
  <2>1. QED
    BY <1>2
<1>5. QED
  BY <1>3, <1>4 DEF SetSum

\* Sums of the tables' rows are natural numbers.
LEMMA SumRateNat ==
  ASSUME NEW table \in {AreaItemLevels, CharacterRanks, Fixtures, GateLevels}, NEW rows \in SUBSET table
  PROVE  SumRate(rows) \in Nat
<1> DEFINE f == [r \in rows |-> r.rate]
<1>1. IsFiniteSet(rows) /\ \A r \in rows : f[r] = r.rate /\ f[r] \in Nat
  BY FS_Subset, PowerDataAssumption
<1> HIDE DEF f
<1>2. SumRate(rows) = SetSum(f, rows)
  BY <1>1, RateIsSetSum DEF SumRate
<1>3. QED
  BY <1>1, <1>2, SetSumNat

LEMMA SumMatchingNat ==
  ASSUME NEW rows \in SUBSET AreaItemLevels
  PROVE  SumMatching(rows) \in Nat
<1> DEFINE f == [r \in rows |-> r.allMatch]
<1>1. IsFiniteSet(rows) /\ \A r \in rows : f[r] = r.allMatch /\ f[r] \in Nat
  BY FS_Subset, PowerDataAssumption
<1> HIDE DEF f
<1>2. SumMatching(rows) = SetSum(f, rows)
  BY <1>1, MatchingIsSetSum DEF SumMatching
<1>3. QED
  BY <1>1, <1>2, SetSumNat

LEMMA LessonsNat ==
  ASSUME NEW rarity, NEW rank
  PROVE  GetMasterRankBonus(rarity, rank) \in PowerVectors
<1> DEFINE lessons == {l \in MasterLessons : l.rarity = rarity /\ l.rank <= rank}
<1>1. ASSUME NEW k \in 1..3
      PROVE  LessonSum(k, lessons) \in Nat
  <2> DEFINE f == [l \in lessons |-> l.bonus[k]]
  <2>1. IsFiniteSet(lessons) /\ \A l \in lessons : f[l] = l.bonus[k] /\ f[l] \in Nat
    BY FS_Subset, PowerDataAssumption DEF PowerVectors
  <2> HIDE DEF f, lessons
  <2>2. LessonSum(k, lessons) = SetSum(f, lessons)
    BY <2>1, LessonsAreSetSum
  <2>3. QED
    BY <2>1, <2>2, SetSumNat
<1>2. GetMasterRankBonus(rarity, rank) = [k \in 1..3 |-> LessonSum(k, lessons)]
  BY DEF GetMasterRankBonus, LessonSum
<1> HIDE DEF lessons
<1>3. QED
  BY <1>1, <1>2 DEF PowerVectors

LEMMA EpisodesNat ==
  ASSUME NEW id \in CardIds, NEW read
  PROVE  GetCardEpisodeBonus(id, read) \in PowerVectors
<1> DEFINE known == read \cap DOMAIN Episodes[id]
<1>1. ASSUME NEW k \in 1..3
      PROVE  EpisodeSum(id, k, known) \in Nat
  <2> DEFINE f == [e \in known |-> Episodes[id][e][k]]
  <2>1. known \subseteq DOMAIN Episodes[id] /\ IsFiniteSet(DOMAIN Episodes[id])
    BY PowerDataAssumption
  <2>2. IsFiniteSet(known)
    BY <2>1, FS_Subset
  <2>3. \A e \in known : Episodes[id][e] \in PowerVectors
    BY PowerDataAssumption
  <2>4. \A e \in known : f[e] = Episodes[id][e][k] /\ f[e] \in Nat
    BY <2>3 DEF PowerVectors
  <2> HIDE DEF f, known
  <2>5. EpisodeSum(id, k, known) = SetSum(f, known)
    BY <2>4, EpisodesAreSetSum
  <2>6. QED
    BY <2>2, <2>4, <2>5, SetSumNat
<1>2. GetCardEpisodeBonus(id, read) = [k \in 1..3 |-> EpisodeSum(id, k, known)]
  BY DEF GetCardEpisodeBonus, EpisodeSum
<1> HIDE DEF known
<1>3. QED
  BY <1>1, <1>2 DEF PowerVectors

LEMMA PlusNat ==
  ASSUME NEW u \in PowerVectors, NEW v \in PowerVectors
  PROVE  Plus(u, v) \in PowerVectors
BY DEF Plus, PowerVectors

\* The power of a card by its state alone is a vector of natural numbers.
LEMMA VecNat ==
  ASSUME NEW id \in CardIds, NEW st
  PROVE  PowerVec(id, st) \in PowerVectors
<1>1. Zero \in PowerVectors
  BY DEF Zero, PowerVectors
<1>2. GetBasePower(id, st.level) \in PowerVectors
  BY <1>1, PowerDataAssumption DEF GetBasePower
<1> DEFINE trained == IF st.trained \/ CardTable[id].alwaysTrained THEN CardTable[id].trainBonus ELSE Zero
           canvas == IF st.canvas THEN CanvasBonus[CardTable[id].rarity] ELSE Zero
<1>3. trained \in PowerVectors
  BY <1>1, PowerDataAssumption
<1>4. canvas \in PowerVectors
  <2>1. CanvasBonus[CardTable[id].rarity] \in PowerVectors
    BY PowerDataAssumption, EventDataAssumption
  <2>2. QED
    BY <1>1, <2>1
<1> HIDE DEF trained, canvas
<1>5. Plus(GetMasterRankBonus(CardTable[id].rarity, st.masterRank),
           GetCardEpisodeBonus(id, st.episodes)) \in PowerVectors
  BY LessonsNat, EpisodesNat, PlusNat
<1>6. GetCardPower(id, st) \in PowerVectors
  BY <1>2, <1>3, <1>5, PlusNat DEF GetCardPower, trained
<1>7. QED
  BY <1>4, <1>6, PlusNat DEF PowerVec, canvas

\* Rates that the power of cards is scaled with.
PowerRates(b) ==
  /\ b.bonusPower \in Nat
  /\ \A a \in Attrs : b.attr[a].rate \in Nat /\ b.attr[a].matching \in Nat
  /\ \A u \in Units : b.unit[u].rate \in Nat /\ b.unit[u].matching \in Nat /\ b.gate[u] \in Nat
  /\ \A c \in Chars : b.char[c] \in Nat /\ b.cr[c] \in Nat /\ b.fixture[c] \in Nat

\* The best gate is one of finitely many, or none.
LEMMA GatesNat ==
  ASSUME NEW levels, NEW u \in Units
  PROVE  LoadMySekaiGateBonus(levels)[u] \in Nat
<1> DEFINE open == {g \in GateLevels : g.gate \in DOMAIN levels /\ g.level = levels[g.gate]}
           gates == IF u = "VS" THEN open ELSE {g \in open : g.unit = u}
           rates == {g.rate : g \in gates}
           all == {0} \cup rates
<1>1. LoadMySekaiGateBonus(levels)[u] = Max(all)
  BY DEF LoadMySekaiGateBonus
<1>2. gates \subseteq GateLevels
  OBVIOUS
<1> HIDE DEF gates
<1>3. IsFiniteSet(gates) /\ \A g \in gates : g.rate \in Nat
  BY <1>2, FS_Subset, PowerDataAssumption
<1>4. [g \in gates |-> g.rate] \in Surjection(gates, rates)
  BY DEF Surjection
<1>5. IsFiniteSet(rates) /\ rates \subseteq Nat
  <2>1. rates \subseteq Nat
    BY <1>3
  <2> HIDE DEF rates
  <2>2. QED
    BY <1>3, <1>4, <2>1, FS_Surjection
<1>6. IsFiniteSet(all) /\ all \subseteq Nat /\ all # {} /\ \A x \in all : x \in Int
  <2> HIDE DEF rates
  <2>1. all = rates \cup {0}
    OBVIOUS
  <2>2. QED
    BY <1>5, <2>1, FS_AddElement
<1> HIDE DEF all
<1>7. Max(all) \in all
  BY <1>6, MaxOfFinite
<1>8. QED
  BY <1>1, <1>6, <1>7

\* The bonus of a profile has such rates.
LEMMA RatesMade ==
  ASSUME NEW p, p.title \in Nat
  PROVE  PowerRates(ProfileBonus(p))
<1> DEFINE items == ActiveAreaItems(p)
           area == LoadAreaItemBonus(items)
           b == ProfileBonus(p)
<1>1. items \subseteq AreaItemLevels
  BY DEF ActiveAreaItems
<1>2. /\ b.bonusPower = p.title /\ b.attr = area.attr /\ b.char = area.char /\ b.unit = area.unit
      /\ b.cr = LoadCharacterRankBonus(p.ranks) /\ b.fixture = LoadMySekaiFixtureBonus(p.fixtures)
      /\ b.gate = LoadMySekaiGateBonus(p.gates)
  BY DEF ProfileBonus, BonusOf
<1> HIDE DEF items, b
<1>3. ASSUME NEW rows, rows \subseteq items
      PROVE  SumRate(rows) \in Nat /\ SumMatching(rows) \in Nat
  BY <1>1, <1>3, SumRateNat, SumMatchingNat
<1>4. \A a \in Attrs : b.attr[a].rate \in Nat /\ b.attr[a].matching \in Nat
  <2> TAKE a \in Attrs
  <2> DEFINE rows == {r \in items : r.attr = a}
  <2>1. b.attr[a] = [rate |-> SumRate(rows), matching |-> SumMatching(rows)]
    BY <1>2 DEF LoadAreaItemBonus
  <2>2. rows \subseteq items
    OBVIOUS
  <2> HIDE DEF rows
  <2>3. QED
    BY <1>3, <2>1, <2>2
<1>5. \A u \in Units : b.unit[u].rate \in Nat /\ b.unit[u].matching \in Nat
  <2> TAKE u \in Units
  <2> DEFINE multi == {r \in items : r.unit = "MULTI"}
             rows == {r \in items : r.unit = u}
  <2>1. b.unit[u] = [rate |-> SumRate(rows) + 2 * SumRate(multi),
                     matching |-> SumMatching(rows) + SumRate(multi)]
    BY <1>2 DEF LoadAreaItemBonus
  <2>2. rows \subseteq items /\ multi \subseteq items
    OBVIOUS
  <2> HIDE DEF rows, multi
  <2>3. SumRate(rows) \in Nat /\ SumMatching(rows) \in Nat /\ SumRate(multi) \in Nat
    BY <1>3, <2>2
  <2>4. QED
    BY <2>1, <2>3
<1>6. \A c \in Chars : b.char[c] \in Nat
  <2> TAKE c \in Chars
  <2> DEFINE rows == {r \in items : r.char = c}
  <2>1. b.char[c] = SumRate(rows)
    BY <1>2 DEF LoadAreaItemBonus
  <2>2. rows \subseteq items
    OBVIOUS
  <2> HIDE DEF rows
  <2>3. QED
    BY <1>3, <2>1, <2>2
<1>7. \A c \in Chars : b.cr[c] \in Nat
  <2> TAKE c \in Chars
  <2> DEFINE rows == {r \in CharacterRanks : r.char = c /\ r.rank = p.ranks[c]}
  <2>1. b.cr[c] = SumRate(rows)
    BY <1>2 DEF LoadCharacterRankBonus
  <2>2. rows \subseteq CharacterRanks
    OBVIOUS
  <2> HIDE DEF rows
  <2>3. QED
    BY <2>1, <2>2, SumRateNat
<1>8. \A c \in Chars : b.fixture[c] \in Nat
  <2> TAKE c \in Chars
  <2> DEFINE rows == {f \in Fixtures : f.id \in p.fixtures /\ f.char = c}
  <2>1. b.fixture[c] = Lesser(kMaxMySekaiFixtureBonusLimit, SumRate(rows))
    BY <1>2 DEF LoadMySekaiFixtureBonus
  <2>2. rows \subseteq Fixtures
    OBVIOUS
  <2> HIDE DEF rows
  <2>3. SumRate(rows) \in Nat
    BY <2>2, SumRateNat
  <2>4. QED
    BY <2>1, <2>3 DEF Lesser, kMaxMySekaiFixtureBonusLimit
<1>9. \A u \in Units : b.gate[u] \in Nat
  BY <1>2, GatesNat
<1>10. PowerRates(b)
  BY <1>2, <1>4, <1>5, <1>6, <1>7, <1>8, <1>9 DEF PowerRates
<1>11. QED
  BY <1>10 DEF b

\* A greater rate gives no less power.
LEMMA PartGrows ==
  ASSUME NEW v \in Nat, NEW r \in Int, NEW s \in Int, r <= s
  PROVE  (v * r) \div 1000 \in Int /\ (v * s) \div 1000 \in Int /\ (v * r) \div 1000 <= (v * s) \div 1000
<1> DEFINE a == v * r
           c == v * s
<1>1. a \in Int /\ c \in Int
  OBVIOUS
<1>2. a <= c
  <2>1. v * (s - r) >= 0
    OBVIOUS
  <2>2. v * (s - r) = v * s - v * r
    OBVIOUS
  <2>3. QED
    BY <1>1, <2>1, <2>2
<1> HIDE DEF a, c
<1>3. a \div 1000 \in Int /\ (a \div 1000) * 1000 <= a
  BY <1>1
<1>4. (a \div 1000) * 1000 <= c
  BY <1>1, <1>2, <1>3
<1>5. a \div 1000 <= c \div 1000 /\ c \div 1000 \in Int
  BY <1>1, <1>3, <1>4
<1>6. QED
  BY <1>3, <1>5 DEF a, c

LEMMA ScaledGrows ==
  ASSUME NEW v \in PowerVectors, NEW r \in Int, NEW s \in Int, r <= s
  PROVE  Scaled(v, r) \in Int /\ Scaled(v, s) \in Int /\ Scaled(v, r) <= Scaled(v, s)
<1> DEFINE x(k) == (v[k] * r) \div 1000
           y(k) == (v[k] * s) \div 1000
<1>1. v[1] \in Nat /\ v[2] \in Nat /\ v[3] \in Nat
  BY DEF PowerVectors
<1>2. /\ x(1) \in Int /\ x(2) \in Int /\ x(3) \in Int /\ y(1) \in Int /\ y(2) \in Int /\ y(3) \in Int
      /\ x(1) <= y(1) /\ x(2) <= y(2) /\ x(3) <= y(3)
  BY <1>1, PartGrows
<1>3. Scaled(v, r) = x(1) + x(2) + x(3) /\ Scaled(v, s) = y(1) + y(2) + y(3)
  BY DEF Scaled, SumOfParts
<1> HIDE DEF x, y
<1>4. QED
  BY <1>2, <1>3

\* The rows of a card.
LEMMA RowOf ==
  ASSUME NEW id \in CardIds
  PROVE  /\ CardTable[id].attr \in Attrs /\ CardTable[id].char \in Chars
         /\ PrimaryUnit(id) \in Units /\ SecondaryUnit(id) \in Units
<1>1. <<CardTable[id].char, CardTable[id].attr, PrimaryUnit(id)>> \in Cells
  BY EventDataAssumption
<1>2. CardTable[id].attr \in Attrs /\ CardTable[id].char \in Chars /\ PrimaryUnit(id) \in Units
  BY <1>1 DEF Cells
<1>3. CharUnit[CardTable[id].char] \in Units
  BY <1>2, UnitDataAssumption DEF Chars
<1>4. QED
  BY <1>2, <1>3 DEF SecondaryUnit

\* Matching never costs power (MatchingPays).
Pays(b) ==
  /\ \A u \in Units : b.unit[u].rate <= b.unit[u].matching
  /\ \A a \in Attrs : b.attr[a].rate <= b.attr[a].matching

\* A card has all it has under m if the team matches as k says.
Covers(id, k, m) ==
  /\ m.attr => k.attr
  /\ m.primary => k.primary \/ (PrimaryUnit(id) = SecondaryUnit(id) /\ k.secondary)
  /\ m.secondary => k.secondary \/ (PrimaryUnit(id) = SecondaryUnit(id) /\ k.primary)

LEMMA RateGrows ==
  ASSUME NEW b, PowerRates(b), Pays(b), NEW id \in CardIds, NEW m \in Matches, NEW k \in Matches,
         Covers(id, k, m)
  PROVE  /\ AreaItemRate(id, b, m) \in Int /\ AreaItemRate(id, b, k) \in Int
         /\ AreaItemRate(id, b, m) <= AreaItemRate(id, b, k)
<1> DEFINE char == b.char[CardTable[id].char]
           A == b.attr[CardTable[id].attr]
           P == b.unit[PrimaryUnit(id)]
           Q == b.unit[SecondaryUnit(id)]
<1>1. /\ char \in Int /\ A.rate \in Int /\ A.matching \in Int /\ A.rate <= A.matching
      /\ P.rate \in Int /\ P.matching \in Int /\ P.rate <= P.matching
      /\ Q.rate \in Int /\ Q.matching \in Int /\ Q.rate <= Q.matching
  BY RowOf DEF PowerRates, Pays
<1>2. PrimaryUnit(id) = SecondaryUnit(id) => P = Q
  OBVIOUS
<1>3. \A x \in Matches : AreaItemRate(id, b, x) =
        char + Rate(A, x.attr) + Greater(Rate(P, x.primary), Rate(Q, x.secondary))
  BY DEF AreaItemRate
<1> HIDE DEF char, A, P, Q
<1>4. /\ Rate(A, m.attr) \in Int /\ Rate(A, k.attr) \in Int /\ Rate(A, m.attr) <= Rate(A, k.attr)
  BY <1>1 DEF Rate, Covers
<1> DEFINE x == Greater(Rate(P, m.primary), Rate(Q, m.secondary))
           y == Greater(Rate(P, k.primary), Rate(Q, k.secondary))
<1>5. x \in Int /\ y \in Int /\ x <= y
  BY <1>1, <1>2 DEF Rate, Greater, Covers
<1> HIDE DEF x, y
<1>6. AreaItemRate(id, b, m) = char + Rate(A, m.attr) + x /\ AreaItemRate(id, b, k) = char + Rate(A, k.attr) + y
  BY <1>3 DEF x, y
<1>7. QED
  BY <1>1, <1>4, <1>5, <1>6

LEMMA PowerGrows ==
  ASSUME NEW b, PowerRates(b), Pays(b), NEW id \in CardIds, NEW st, NEW m \in Matches, NEW k \in Matches,
         Covers(id, k, m)
  PROVE  /\ PowerIn(id, st, b, m) \in Int /\ PowerIn(id, st, b, k) \in Int
         /\ PowerIn(id, st, b, m) <= PowerIn(id, st, b, k)
<1> DEFINE v == PowerVec(id, st)
           base == SumOfParts(v)
           cr == Scaled(v, b.cr[CardTable[id].char])
           fixture == (base * b.fixture[CardTable[id].char]) \div 1000
           gate == (base * b.gate[PrimaryUnit(id)]) \div 1000
           x == Scaled(v, AreaItemRate(id, b, m))
           y == Scaled(v, AreaItemRate(id, b, k))
<1>1. v \in PowerVectors
  BY VecNat
<1>2. base \in Nat
  BY <1>1 DEF SumOfParts, PowerVectors
<1>3. /\ b.cr[CardTable[id].char] \in Int /\ b.fixture[CardTable[id].char] \in Int
      /\ b.gate[PrimaryUnit(id)] \in Int
  BY RowOf DEF PowerRates
<1>4. PowerIn(id, st, b, m) = base + cr + x + fixture + gate
      /\ PowerIn(id, st, b, k) = base + cr + y + fixture + gate
  BY DEF PowerIn
<1>5. x \in Int /\ y \in Int /\ x <= y
  <2> HIDE DEF v
  <2>1. QED
    BY <1>1, RateGrows, ScaledGrows
<1>6. cr \in Int
  <2> HIDE DEF v
  <2>1. QED
    BY <1>1, <1>3, ScaledGrows
<1>7. fixture \in Int /\ gate \in Int
  <2> HIDE DEF base
  <2>1. QED
    BY <1>2, <1>3, PartGrows
<1> HIDE DEF base, cr, x, y, fixture, gate
<1>8. QED
  BY <1>2, <1>4, <1>5, <1>6, <1>7

\* And power is never negative.
LEMMA PartNat ==
  ASSUME NEW v \in Nat, NEW r \in Nat
  PROVE  (v * r) \div 1000 \in Nat
<1> DEFINE a == v * r
<1>1. a \in Nat
  OBVIOUS
<1> HIDE DEF a
<1>2. a \div 1000 \in Nat
  BY <1>1
<1>3. QED
  BY <1>2 DEF a

LEMMA ScaledNat ==
  ASSUME NEW v \in PowerVectors, NEW r \in Nat
  PROVE  Scaled(v, r) \in Nat
<1> DEFINE x(k) == (v[k] * r) \div 1000
<1>1. v[1] \in Nat /\ v[2] \in Nat /\ v[3] \in Nat
  BY DEF PowerVectors
<1>2. x(1) \in Nat /\ x(2) \in Nat /\ x(3) \in Nat
  BY <1>1, PartNat
<1>3. Scaled(v, r) = x(1) + x(2) + x(3)
  BY DEF Scaled, SumOfParts
<1> HIDE DEF x
<1>4. QED
  BY <1>2, <1>3

LEMMA PowerNat ==
  ASSUME NEW b, PowerRates(b), NEW id \in CardIds, NEW st, NEW m \in Matches
  PROVE  PowerIn(id, st, b, m) \in Nat
<1> DEFINE v == PowerVec(id, st)
           base == SumOfParts(v)
           cr == Scaled(v, b.cr[CardTable[id].char])
           fixture == (base * b.fixture[CardTable[id].char]) \div 1000
           gate == (base * b.gate[PrimaryUnit(id)]) \div 1000
           rate == AreaItemRate(id, b, m)
           x == Scaled(v, rate)
<1>1. v \in PowerVectors
  BY VecNat
<1>2. base \in Nat
  BY <1>1 DEF SumOfParts, PowerVectors
<1>3. /\ b.cr[CardTable[id].char] \in Nat /\ b.fixture[CardTable[id].char] \in Nat
      /\ b.gate[PrimaryUnit(id)] \in Nat
  BY RowOf DEF PowerRates
<1>4. PowerIn(id, st, b, m) = base + cr + x + fixture + gate
  BY DEF PowerIn
<1>5. rate \in Nat
  <2> DEFINE char == b.char[CardTable[id].char]
             A == b.attr[CardTable[id].attr]
             P == b.unit[PrimaryUnit(id)]
             Q == b.unit[SecondaryUnit(id)]
  <2>1. /\ char \in Nat /\ A.rate \in Nat /\ A.matching \in Nat /\ P.rate \in Nat
        /\ P.matching \in Nat /\ Q.rate \in Nat /\ Q.matching \in Nat
    BY RowOf DEF PowerRates
  <2>2. rate = char + Rate(A, m.attr) + Greater(Rate(P, m.primary), Rate(Q, m.secondary))
    BY DEF AreaItemRate
  <2> HIDE DEF char, A, P, Q, rate
  <2>3. Rate(A, m.attr) \in Nat /\ Rate(P, m.primary) \in Nat /\ Rate(Q, m.secondary) \in Nat
    BY <2>1 DEF Rate
  <2>4. Greater(Rate(P, m.primary), Rate(Q, m.secondary)) \in Nat
    BY <2>3 DEF Greater
  <2>5. QED
    BY <2>1, <2>2, <2>3, <2>4
<1>6. x \in Nat /\ cr \in Nat
  <2> HIDE DEF v, rate
  <2>1. QED
    BY <1>1, <1>3, <1>5, ScaledNat
<1>7. fixture \in Nat /\ gate \in Nat
  <2> HIDE DEF base
  <2>1. QED
    BY <1>2, <1>3, PartNat
<1> HIDE DEF base, cr, x, fixture, gate
<1>8. QED
  BY <1>2, <1>4, <1>6, <1>7

-----------------------------------------------------------------------------
(* How a team matches.                                                     *)

MatchIn(S) ==
  [attr |-> Same({CardTable[c.id].attr : c \in S}),
   primary |-> Same({PrimaryUnit(c.id) : c \in S}),
   secondary |-> Same({SecondaryUnit(c.id) : c \in S})]

LEMMA MatchOfList ==
  ASSUME NEW S, NEW s, Range(s) = S
  PROVE  MatchOf(s) = MatchIn(S)
BY DEF MatchOf, MatchIn, AttrsOf

LEMMA MatchType == \A S : MatchIn(S) \in Matches
BY DEF MatchIn, Matches, Same

\* All values are the same exactly when there is one of them.
LEMMA SameMeans ==
  ASSUME NEW T, IsFiniteSet(T)
  PROVE  Same(T) <=> \E v : T = {v}
BY FS_Singleton DEF Same

LEMMA MatchMeans ==
  ASSUME NEW S, IsFiniteSet(S), S # {}
  PROVE  LET m == MatchIn(S)
         IN /\ m.attr <=> \A c, d \in S : CardTable[c.id].attr = CardTable[d.id].attr
            /\ m.primary <=> \A c, d \in S : PrimaryUnit(c.id) = PrimaryUnit(d.id)
            /\ m.secondary <=> \A c, d \in S : SecondaryUnit(c.id) = SecondaryUnit(d.id)
<1>1. ASSUME NEW f
      PROVE  Same({f[c] : c \in S}) <=> \A c, d \in S : f[c] = f[d]
  <2> DEFINE T == {f[c] : c \in S}
             g == [c \in S |-> f[c]]
  <2>1. g \in Surjection(S, T)
    BY DEF Surjection
  <2>2. IsFiniteSet(T)
    <3> HIDE DEF T, g
    <3>1. QED
      BY <2>1, FS_Surjection
  <2>3. Same(T) <=> \E v : T = {v}
    <3> HIDE DEF T
    <3>1. QED
      BY <2>2, SameMeans
  <2>4. (\E v : T = {v}) <=> \A c, d \in S : f[c] = f[d]
    OBVIOUS
  <2>5. QED
    BY <2>3, <2>4
<1>2. Same({CardTable[c.id].attr : c \in S})
        <=> \A c, d \in S : CardTable[c.id].attr = CardTable[d.id].attr
  <2> DEFINE f == [c \in S |-> CardTable[c.id].attr]
  <2>1. \A c \in S : f[c] = CardTable[c.id].attr
    OBVIOUS
  <2> HIDE DEF f
  <2>2. {CardTable[c.id].attr : c \in S} = {f[c] : c \in S}
    BY <2>1
  <2>3. QED
    BY <1>1, <2>1, <2>2
<1>3. Same({PrimaryUnit(c.id) : c \in S}) <=> \A c, d \in S : PrimaryUnit(c.id) = PrimaryUnit(d.id)
  <2> DEFINE f == [c \in S |-> PrimaryUnit(c.id)]
  <2>1. \A c \in S : f[c] = PrimaryUnit(c.id)
    OBVIOUS
  <2> HIDE DEF f
  <2>2. {PrimaryUnit(c.id) : c \in S} = {f[c] : c \in S}
    BY <2>1
  <2>3. QED
    BY <1>1, <2>1, <2>2
<1>4. Same({SecondaryUnit(c.id) : c \in S})
        <=> \A c, d \in S : SecondaryUnit(c.id) = SecondaryUnit(d.id)
  <2> DEFINE f == [c \in S |-> SecondaryUnit(c.id)]
  <2>1. \A c \in S : f[c] = SecondaryUnit(c.id)
    OBVIOUS
  <2> HIDE DEF f
  <2>2. {SecondaryUnit(c.id) : c \in S} = {f[c] : c \in S}
    BY <2>1
  <2>3. QED
    BY <1>1, <2>1, <2>2
<1>5. QED
  BY <1>2, <1>3, <1>4 DEF MatchIn

\* A virtual singer's card may support another unit; the others have one unit.
LEMMA OneUnit ==
  ASSUME NEW id \in CardIds, SecondaryUnit(id) # "VS"
  PROVE  PrimaryUnit(id) = SecondaryUnit(id)
BY UnitDataAssumption DEF PrimaryUnit, SecondaryUnit

\* The assumed match that gives a team its due: that of its attribute, of the unit of all its cards
\* unless they are the virtual singers themselves, and of the virtual singers.
StateOf(S) ==
  [attr |-> IF MatchIn(S).attr THEN CardTable[Chosen(S).id].attr ELSE "NONE",
   primary |-> IF MatchIn(S).primary /\ PrimaryUnit(Chosen(S).id) # "VS"
               THEN PrimaryUnit(Chosen(S).id) ELSE "NONE",
   secondary |-> IF \A c \in S : SecondaryUnit(c.id) = "VS" THEN "VS" ELSE "NONE"]

LEMMA StateFits ==
  ASSUME NEW S, IsFiniteSet(S), S # {}, \A c \in S : c.id \in CardIds
  PROVE  LET st == StateOf(S)
         IN /\ st \in CandidateStates /\ st.primary # "VS"
            /\ \A pool : S \subseteq pool => S \subseteq FilterCards(st, pool)
            /\ \A c \in S : Covers(c.id, MatchAssumed(st), MatchIn(S))
<1> DEFINE st == StateOf(S)
           a == Chosen(S)
           m == MatchIn(S)
           k == MatchAssumed(st)
<1>1. a \in S
  BY ChosenIn
<1>2. \A c \in S : /\ CardTable[c.id].attr \in Attrs /\ CardTable[c.id].attr # "NONE"
                   /\ PrimaryUnit(c.id) \in Units /\ PrimaryUnit(c.id) # "NONE"
                   /\ (SecondaryUnit(c.id) # "VS" => PrimaryUnit(c.id) = SecondaryUnit(c.id))
  BY RowOf, OneUnit, UnitDataAssumption
<1>3. /\ m.attr => \A c \in S : CardTable[c.id].attr = CardTable[a.id].attr
      /\ m.primary => \A c \in S : PrimaryUnit(c.id) = PrimaryUnit(a.id)
      /\ m.secondary => \A c \in S : SecondaryUnit(c.id) = SecondaryUnit(a.id)
      /\ (\A c, d \in S : PrimaryUnit(c.id) = PrimaryUnit(d.id)) => m.primary
  BY <1>1, MatchMeans
<1>4. /\ st.attr = IF m.attr THEN CardTable[a.id].attr ELSE "NONE"
      /\ st.primary = IF m.primary /\ PrimaryUnit(a.id) # "VS" THEN PrimaryUnit(a.id) ELSE "NONE"
      /\ st.secondary = IF \A c \in S : SecondaryUnit(c.id) = "VS" THEN "VS" ELSE "NONE"
  BY DEF StateOf
<1>5. k = [attr |-> st.attr # "NONE", primary |-> st.primary # "NONE",
           secondary |-> st.secondary # "NONE"]
  BY DEF MatchAssumed
<1>6. st \in CandidateStates
  BY <1>1, <1>2 DEF StateOf, CandidateStates
<1> HIDE DEF st, a, m, k
<1>7. st.primary # "VS"
  BY <1>4
<1>8. ASSUME NEW pool, S \subseteq pool
      PROVE  S \subseteq FilterCards(st, pool)
  <2> SUFFICES ASSUME NEW c \in S
               PROVE  c \in FilterCards(st, pool)
    OBVIOUS
  <2>1. st.attr \in {"NONE", CardTable[c.id].attr}
    BY <1>3, <1>4
  <2>2. st.primary = "NONE" \/ IsUnit(c.id, st.primary)
    BY <1>3, <1>4 DEF IsUnit
  <2>3. st.secondary = "NONE" \/ IsUnit(c.id, st.secondary)
    BY <1>4 DEF IsUnit
  <2>4. QED
    BY <1>8, <2>1, <2>2, <2>3 DEF FilterCards
<1>9. ASSUME NEW c \in S
      PROVE  Covers(c.id, k, m)
  <2>1. k.attr = (st.attr # "NONE") /\ k.primary = (st.primary # "NONE")
        /\ k.secondary = (st.secondary # "NONE")
    BY <1>5
  <2>2. m.attr => k.attr
    BY <1>1, <1>2, <1>4, <2>1
  <2>3. CASE \A d \in S : SecondaryUnit(d.id) = "VS"
    <3>1. k.secondary
      BY <1>4, <2>1, <2>3
    <3>2. m.primary => k.primary \/ PrimaryUnit(c.id) = SecondaryUnit(c.id)
      BY <1>1, <1>2, <1>3, <1>4, <2>1, <2>3
    <3>3. QED
      BY <2>2, <3>1, <3>2 DEF Covers
  <2>4. CASE \E d \in S : SecondaryUnit(d.id) # "VS"
    <3>1. PICK d \in S : SecondaryUnit(d.id) # "VS"
      BY <2>4
    <3>2. m.primary => k.primary
      <4>1. SUFFICES ASSUME m.primary PROVE k.primary
        OBVIOUS
      <4>2. PrimaryUnit(a.id) = PrimaryUnit(d.id) /\ PrimaryUnit(d.id) # "VS"
        BY <1>2, <1>3, <3>1, <4>1
      <4>3. QED
        BY <1>1, <1>2, <1>4, <2>1, <4>1, <4>2
    <3>3. m.secondary => k.primary /\ PrimaryUnit(c.id) = SecondaryUnit(c.id)
      <4>1. SUFFICES ASSUME m.secondary PROVE k.primary /\ PrimaryUnit(c.id) = SecondaryUnit(c.id)
        OBVIOUS
      <4>2. \A e \in S : SecondaryUnit(e.id) = SecondaryUnit(d.id)
        BY <1>3, <4>1
      <4>3. \A e \in S : PrimaryUnit(e.id) = SecondaryUnit(e.id)
        BY <1>2, <3>1, <4>2
      <4>4. m.primary
        BY <1>3, <4>2, <4>3
      <4>5. QED
        BY <3>2, <4>3, <4>4
    <3>4. QED
      BY <2>2, <3>2, <3>3 DEF Covers
  <2>5. QED
    BY <2>3, <2>4
<1>10. QED
  BY <1>6, <1>7, <1>8, <1>9 DEF st, m, k

\* A team of cards that were filtered for such a state matches at least as assumed.
LEMMA FilteredMatch ==
  ASSUME NEW st \in CandidateStates, st.primary # "VS", NEW pool, \A c \in pool : c.id \in CardIds,
         NEW S, IsFiniteSet(S), S # {}, S \subseteq FilterCards(st, pool), NEW id
  PROVE  Covers(id, MatchIn(S), MatchAssumed(st))
<1> DEFINE m == MatchIn(S)
           k == MatchAssumed(st)
<1>1. \A c \in S : /\ c.id \in CardIds /\ st.attr \in {"NONE", CardTable[c.id].attr}
                   /\ st.primary = "NONE" \/ IsUnit(c.id, st.primary)
                   /\ st.secondary = "NONE" \/ IsUnit(c.id, st.secondary)
  BY DEF FilterCards
<1>2. k.attr = (st.attr # "NONE") /\ k.primary = (st.primary # "NONE")
      /\ k.secondary = (st.secondary # "NONE")
  BY DEF MatchAssumed
<1>3. /\ (\A c, d \in S : CardTable[c.id].attr = CardTable[d.id].attr) => m.attr
      /\ (\A c, d \in S : PrimaryUnit(c.id) = PrimaryUnit(d.id)) => m.primary
      /\ (\A c, d \in S : SecondaryUnit(c.id) = SecondaryUnit(d.id)) => m.secondary
  BY MatchMeans
<1>4. st.secondary \in {"NONE", "VS"}
  BY DEF CandidateStates
<1> HIDE DEF m, k
<1>5. k.attr => m.attr
  BY <1>1, <1>2, <1>3
<1>6. k.primary => m.primary
  <2>1. SUFFICES ASSUME k.primary PROVE m.primary
    OBVIOUS
  <2>2. \A c \in S : PrimaryUnit(c.id) = st.primary
    BY <1>1, <1>2, <2>1, OneUnit DEF IsUnit
  <2>3. QED
    BY <1>3, <2>2
<1>7. k.secondary => m.secondary
  <2>1. SUFFICES ASSUME k.secondary PROVE m.secondary
    OBVIOUS
  <2>2. \A c \in S : SecondaryUnit(c.id) = "VS"
    BY <1>1, <1>2, <1>4, <2>1, OneUnit DEF IsUnit
  <2>3. QED
    BY <1>3, <2>2
<1>8. QED
  BY <1>5, <1>6, <1>7 DEF Covers, m, k

\* Exchanging a card of a team for one of its character, or of a character it lacks.
LEMMA SwapTeam ==
  ASSUME NEW pool, IsFiniteSet(pool), NEW S \in TeamSets(pool), NEW d \in S, NEW e \in pool, e \notin S,
         \A c \in S : CharOf(c) = CharOf(e) => c = d
  PROVE  (S \ {d}) \cup {e} \in TeamSets(pool)
<1> DEFINE rest == S \ {d}
           T == rest \cup {e}
<1>1. S \subseteq pool /\ Cardinality(S) = TeamSize /\ OfDistinctChars(S)
  BY DEF TeamSets, kSubset
<1>2. IsFiniteSet(S) /\ Cardinality(S) \in Nat
  BY <1>1, FS_Subset, FS_CardinalityType
<1>3. IsFiniteSet(rest) /\ Cardinality(rest) = Cardinality(S) - 1
  BY <1>2, FS_RemoveElement
<1>4. e \notin rest
  OBVIOUS
<1>5. Cardinality(T) = Cardinality(S)
  <2> HIDE DEF rest
  <2>1. Cardinality(T) = Cardinality(rest) + 1
    BY <1>3, <1>4, FS_AddElement
  <2>2. QED
    BY <1>2, <1>3, <2>1
<1>6. OfDistinctChars(T)
  BY <1>1 DEF OfDistinctChars
<1>7. T \subseteq pool
  BY <1>1
<1>8. QED
  BY <1>1, <1>5, <1>6, <1>7 DEF TeamSets, kSubset

\* Two teams of one size have each a card the other has not, if they differ.
LEMMA OtherHas ==
  ASSUME NEW S, NEW G, IsFiniteSet(S), IsFiniteSet(G), Cardinality(S) = Cardinality(G), S # G
  PROVE  S \ G # {} /\ G \ S # {}
<1>1. S \subseteq G => S = G
  BY FS_Subset
<1>2. G \subseteq S => S = G
  BY FS_Subset
<1>3. QED
  BY <1>1, <1>2

\* The greedy choice has the greatest sum of keys of all teams of the pool.
LEMMA GreedyIsBest ==
  ASSUME NEW pool, IsFiniteSet(pool), NEW key, \A c \in pool : key[c] \in Int,
         NEW G \in GreedyNoConstraints(pool, key), NEW S0 \in TeamSets(pool)
  PROVE  SetSum(key, S0) <= SetSum(key, G)
<1> DEFINE F == TeamSets(pool)
<1>1. \A S \in F : S \subseteq pool /\ Cardinality(S) = TeamSize /\ OfDistinctChars(S) /\ IsFiniteSet(S)
  BY FS_Subset DEF TeamSets, kSubset
<1>2. G \in F
  BY DEF GreedyNoConstraints
<1>3. ASSUME NEW c \in G, NEW d \in pool, key[d] > key[c]
      PROVE  \E e \in G : CharOf(e) = CharOf(d) /\ key[e] >= key[d]
  BY <1>3 DEF GreedyNoConstraints
<1>4. F \in SUBSET SUBSET pool
  BY <1>1
<1> HIDE DEF F
<1>5. ASSUME NEW S \in F, S # G
      PROVE  \E d \in S \ G, e \in G \ S : key[d] <= key[e] /\ (S \ {d}) \cup {e} \in F
  <2>1. OfDistinctChars(S) /\ OfDistinctChars(G) /\ S \subseteq pool /\ G \subseteq pool
    BY <1>1, <1>2
  <2>2. S \ G # {} /\ G \ S # {}
    BY <1>1, <1>2, <1>5, OtherHas
  <2>3. CASE \E d \in S \ G : \E e \in G : CharOf(e) = CharOf(d)
    <3>1. PICK d \in S \ G, e \in G : CharOf(e) = CharOf(d)
      BY <2>3
    <3>2. e # d /\ e \notin S
      BY <2>1, <3>1 DEF OfDistinctChars
    <3>3. key[d] <= key[e]
      <4>1. key[d] \in Int /\ key[e] \in Int
        BY <2>1
      <4>2. SUFFICES ASSUME key[d] > key[e] PROVE FALSE
        BY <4>1
      <4>3. PICK x \in G : CharOf(x) = CharOf(d) /\ key[x] >= key[d]
        BY <1>3, <2>1, <4>2
      <4>4. x = e
        BY <2>1, <3>1, <4>3 DEF OfDistinctChars
      <4>5. QED
        BY <4>1, <4>2, <4>3, <4>4
    <3>4. \A c \in S : CharOf(c) = CharOf(e) => c = d
      BY <2>1, <3>1 DEF OfDistinctChars
    <3>5. (S \ {d}) \cup {e} \in F
      <4>1. d \in S /\ e \in pool
        BY <2>1, <3>1
      <4>2. QED
        BY <3>2, <3>4, <4>1, SwapTeam DEF F
    <3>6. QED
      BY <3>1, <3>2, <3>3, <3>5
  <2>4. CASE \A d \in S \ G : \A e \in G : CharOf(e) # CharOf(d)
    <3>1. PICK d \in S \ G, e \in G \ S : TRUE
      BY <2>2
    <3>2. key[d] <= key[e]
      <4>1. key[d] \in Int /\ key[e] \in Int
        BY <2>1
      <4>2. SUFFICES ASSUME key[d] > key[e] PROVE FALSE
        BY <4>1
      <4>3. QED
        BY <1>3, <2>1, <2>4, <4>2
    <3>3. \A c \in S : CharOf(c) # CharOf(e)
      BY <2>1, <2>4 DEF OfDistinctChars
    <3>4. (S \ {d}) \cup {e} \in F
      <4>1. d \in S /\ e \in pool /\ e \notin S
        BY <2>1, <3>1
      <4>2. QED
        BY <3>3, <4>1, SwapTeam DEF F
    <3>5. QED
      BY <3>1, <3>2, <3>4
  <2>5. QED
    BY <2>3, <2>4
<1>6. G \in SUBSET pool /\ S0 \in F
  BY <1>1, <1>2 DEF F
<1>7. QED
  BY <1>4, <1>5, <1>6, Exchange

\* Of finitely many sets of cards, one has the greatest sum.
LEMMA BestSum ==
  ASSUME NEW pool, IsFiniteSet(pool), NEW key, \A c \in pool : key[c] \in Int,
         NEW F \in SUBSET SUBSET pool, F # {}
  PROVE  \E S \in F : \A T \in F : SetSum(key, T) <= SetSum(key, S)
<1> DEFINE g == [S \in F |-> SetSum(key, S)]
           sums == {SetSum(key, S) : S \in F}
<1>1. IsFiniteSet(F)
  BY FS_SUBSET, FS_Subset
<1>2. g \in Surjection(F, sums)
  BY DEF Surjection
<1>3. \A S \in F : SetSum(key, S) \in Int
  <2> TAKE S \in F
  <2>1. S \subseteq pool /\ IsFiniteSet(S)
    BY FS_Subset
  <2>2. QED
    BY <2>1, SetSumInt
<1>4. sums # {} /\ \A x \in sums : x \in Int
  BY <1>3
<1>5. IsFiniteSet(sums)
  <2> HIDE DEF sums, g
  <2>1. QED
    BY <1>1, <1>2, FS_Surjection
<1>6. Max(sums) \in sums /\ \A x \in sums : Max(sums) >= x
  <2> HIDE DEF sums
  <2>1. QED
    BY <1>4, <1>5, MaxOfFinite
<1>7. PICK S \in F : Max(sums) = SetSum(key, S)
  BY <1>6
<1>8. \A T \in F : SetSum(key, T) \in sums
  OBVIOUS
<1> HIDE DEF sums
<1>9. QED
  BY <1>3, <1>6, <1>7, <1>8

\* There is a greedy choice whenever there is a team.
LEMMA GreedyExists ==
  ASSUME NEW pool, IsFiniteSet(pool), NEW key, \A c \in pool : key[c] \in Int, TeamSets(pool) # {}
  PROVE  GreedyNoConstraints(pool, key) # {}
<1> DEFINE F == TeamSets(pool)
<1>1. \A S \in F : S \subseteq pool /\ OfDistinctChars(S) /\ IsFiniteSet(S)
  BY FS_Subset DEF TeamSets, kSubset
<1>2. F \in SUBSET SUBSET pool
  BY <1>1
<1>3. PICK G \in F : \A T \in F : SetSum(key, T) <= SetSum(key, G)
  <2> HIDE DEF F
  <2>1. F # {}
    BY DEF F
  <2>2. QED
    BY <1>2, <2>1, BestSum
<1>4. G \subseteq pool /\ OfDistinctChars(G) /\ IsFiniteSet(G)
  BY <1>1
<1>5. ASSUME NEW c \in G, NEW d \in pool, d \notin G, key[d] > key[c],
             \A x \in G : CharOf(x) = CharOf(d) => x = c
      PROVE  FALSE
  <2> DEFINE T == (G \ {c}) \cup {d}
  <2>1. T \in F
    BY <1>5, SwapTeam
  <2>2. \A x \in G \cup {d} : key[x] \in Int
    BY <1>4
  <2>3. SetSum(key, T) = SetSum(key, G) - key[c] + key[d]
    BY <1>4, <1>5, <2>2, SwapSum
  <2>4. SetSum(key, G) \in Int
    BY <1>4, SetSumInt
  <2>5. SetSum(key, T) <= SetSum(key, G) /\ key[c] \in Int /\ key[d] \in Int
    BY <1>3, <1>4, <2>1
  <2> HIDE DEF T
  <2>6. QED
    BY <1>5, <2>3, <2>4, <2>5
<1>6. ASSUME NEW c \in G, NEW d \in pool, key[d] > key[c]
      PROVE  \E e \in G : CharOf(e) = CharOf(d) /\ key[e] >= key[d]
  <2>1. key[d] \in Int
    OBVIOUS
  <2>2. CASE d \in G
    BY <2>1, <2>2
  <2>3. CASE d \notin G /\ \E e \in G : CharOf(e) = CharOf(d)
    <3>1. PICK e \in G : CharOf(e) = CharOf(d)
      BY <2>3
    <3>2. key[e] \in Int
      BY <1>4
    <3>3. \A x \in G : CharOf(x) = CharOf(d) => x = e
      BY <1>4, <3>1 DEF OfDistinctChars
    <3>4. ~(key[d] > key[e])
      BY <1>5, <2>3, <3>3
    <3>5. QED
      BY <2>1, <3>1, <3>2, <3>4
  <2>4. CASE d \notin G /\ \A e \in G : CharOf(e) # CharOf(d)
    BY <1>5, <1>6, <2>4
  <2>5. QED
    BY <2>2, <2>3, <2>4
<1>7. QED
  BY <1>6 DEF GreedyNoConstraints

-----------------------------------------------------------------------------
(***************************************************************************)
(* The greedy choice under constraints: a lead is possible for every       *)
(* character set the constraints admit, and only its best cards are taken. *)
(***************************************************************************)

\* A finite set of integers has a least one.
LEMMA LeastOfFinite ==
  ASSUME NEW S, IsFiniteSet(S), \A x \in S : x \in Int, S # {}
  PROVE  Least(S) \in S /\ \A y \in S : Least(S) <= y
<1> DEFINE g == [x \in S |-> -x]
           N == {-x : x \in S}
<1>1. g \in Surjection(S, N)
  BY DEF Surjection
<1>2. IsFiniteSet(N)
  <2> HIDE DEF g, N
  <2>1. QED
    BY <1>1, FS_Surjection
<1>3. N # {} /\ \A x \in N : x \in Int
  OBVIOUS
<1>4. Max(N) \in N /\ \A y \in N : Max(N) >= y
  <2> HIDE DEF N
  <2>1. QED
    BY <1>2, <1>3, MaxOfFinite
<1>5. PICK m \in S : Max(N) = -m
  BY <1>4
<1>6. \A y \in S : -y \in N
  OBVIOUS
<1> HIDE DEF N, g
<1>7. \A y \in S : m <= y
  BY <1>4, <1>5, <1>6
<1>8. QED
  BY <1>7, Zenon DEF Least

\* The characters the constraints speak of are those of the table.
LEMMA ConChars == Con!CharIds = Chars
<1>1. Chars = 1..Len(CharUnit) /\ Len(CharUnit) \in Nat
  BY UnitDataAssumption DEF Chars
<1>2. \A n \in Nat : Cardinality(1..n) = n
  BY FS_Interval
<1>3. QED
  BY <1>1, <1>2, Zenon DEF Con!CharIds

\* What an object that calls itself empty holds.
LEMMA EmptyHolds ==
  ASSUME NEW con, Con!SoundObject(con), con.empty
  PROVE  con.pairs = <<>> /\ con.rarities = {}
<1>1. con = Con!UpdateEmpty(con) /\ con \in Con!ConstraintsType
  BY DEF Con!SoundObject
<1>2. Con!UpdateEmpty(con).empty => con.pairs = <<>> /\ con.rarities = {}
  <2>1. "empty" \in DOMAIN con
    BY <1>1 DEF Con!ConstraintsType
  <2>2. QED
    BY <2>1, Zenon DEF Con!UpdateEmpty
<1>3. QED
  BY <1>1, <1>2

\* A character set they admit has a character that may lead.
LEMMA LeadThere ==
  ASSUME NEW con, Con!SoundObject(con), NEW chars \in SUBSET Chars, chars # {},
         Con!CharacterSetSatisfies(con, chars)
  PROVE  Con!EligibleLeads(con, chars) \cap chars # {}
<1>1. /\ con \in Con!ConstraintsType
      /\ \A pair \in Con!Range(con.pairs) : pair \cap con.leads # {}
      /\ con.empty => con.pairs = <<>>
      /\ con.leads \subseteq Chars
  BY EmptyHolds, ConChars DEF Con!SoundObject, Con!ConstraintsType
<1>2. CASE con.pairs = <<>> /\ (con.empty \/ con.leads = {})
  BY <1>2, ConChars DEF Con!EligibleLeads
<1>3. CASE con.pairs = <<>> /\ ~con.empty /\ con.leads # {}
  BY <1>3 DEF Con!EligibleLeads, Con!CharacterSetSatisfies
<1>4. CASE con.pairs # <<>>
  <2>1. ~con.empty
    BY <1>1, <1>4
  <2>2. PICK pair \in Con!Range(con.pairs) : pair \subseteq chars
    BY <1>4, <2>1 DEF Con!CharacterSetSatisfies
  <2>3. con.leads # {} /\ pair \cap con.leads # {}
    BY <1>1, <2>2
  <2>4. Con!EligibleLeads(con, chars) =
          con.leads \cap UNION {p \in Con!Range(con.pairs) : p \subseteq chars}
    BY <1>4, <2>1, <2>3 DEF Con!EligibleLeads
  <2>5. QED
    BY <2>2, <2>3, <2>4
<1>5. QED
  BY <1>2, <1>3, <1>4

\* Teams of the same characters.
SameChars(pool, S) == {T \in TeamSets(pool) : CharsIn(T) = CharsIn(S)}

\* Exchanging a card for another of its character stays among them.
LEMMA SwapSameChars ==
  ASSUME NEW pool, IsFiniteSet(pool), NEW S, NEW T \in SameChars(pool, S), NEW d \in T, NEW e \in pool,
         e # d, CharOf(e) = CharOf(d)
  PROVE  e \notin T /\ (T \ {d}) \cup {e} \in SameChars(pool, S)
<1>1. T \in TeamSets(pool) /\ CharsIn(T) = CharsIn(S)
  BY DEF SameChars
<1>2. OfDistinctChars(T)
  BY <1>1 DEF TeamSets
<1>3. e \notin T
  BY <1>2 DEF OfDistinctChars
<1>4. \A c \in T : CharOf(c) = CharOf(e) => c = d
  BY <1>2 DEF OfDistinctChars
<1>5. (T \ {d}) \cup {e} \in TeamSets(pool)
  BY <1>1, <1>3, <1>4, SwapTeam
<1>6. CharsIn((T \ {d}) \cup {e}) = CharsIn(T)
  BY DEF CharsIn
<1>7. QED
  BY <1>1, <1>3, <1>5, <1>6 DEF SameChars

\* Of the teams of the same characters, one of best cards has the greatest sum.
LEMMA TopsAreBest ==
  ASSUME NEW pool, IsFiniteSet(pool), NEW key, \A c \in pool : key[c] \in Int,
         NEW S0 \in TeamSets(pool), NEW G \in SameChars(pool, S0), G \subseteq Tops(pool, key)
  PROVE  SetSum(key, S0) <= SetSum(key, G)
<1> DEFINE F == SameChars(pool, S0)
<1>1. \A S \in F : /\ S \subseteq pool /\ Cardinality(S) = TeamSize /\ OfDistinctChars(S) /\ IsFiniteSet(S)
                   /\ CharsIn(S) = CharsIn(S0)
  BY FS_Subset DEF SameChars, TeamSets, kSubset
<1>2. F \in SUBSET SUBSET pool /\ S0 \in F /\ G \in F /\ G \in SUBSET pool
  BY <1>1 DEF SameChars
<1>3. ASSUME NEW S \in F, S # G
      PROVE  \E d \in S \ G, e \in G \ S : key[d] <= key[e] /\ (S \ {d}) \cup {e} \in F
  <2>1. S \ G # {}
    BY <1>1, <1>2, <1>3, OtherHas
  <2>2. PICK d \in S \ G : d \in pool
    BY <1>1, <2>1
  <2>3. CharOf(d) \in CharsIn(G)
    BY <1>1, <1>2 DEF CharsIn
  <2>4. PICK e \in G : CharOf(e) = CharOf(d)
    BY <2>3 DEF CharsIn
  <2>5. e # d /\ e \in pool /\ key[d] <= key[e]
    BY <2>2, <2>4 DEF Tops
  <2>6. e \notin S /\ (S \ {d}) \cup {e} \in F
    BY <2>4, <2>5, SwapSameChars
  <2>7. QED
    BY <2>2, <2>4, <2>5, <2>6
<1> HIDE DEF F
<1>4. QED
  BY <1>2, <1>3, Exchange

LEMMA TopsThere ==
  ASSUME NEW pool, IsFiniteSet(pool), NEW key, \A c \in pool : key[c] \in Int, NEW S0 \in TeamSets(pool)
  PROVE  \E G \in SameChars(pool, S0) : G \subseteq Tops(pool, key)
<1> DEFINE F == SameChars(pool, S0)
<1>1. \A S \in F : S \subseteq pool /\ IsFiniteSet(S)
  BY FS_Subset DEF SameChars, TeamSets, kSubset
<1>2. F \in SUBSET SUBSET pool /\ F # {}
  BY <1>1 DEF SameChars
<1>3. PICK G \in F : \A T \in F : SetSum(key, T) <= SetSum(key, G)
  <2> HIDE DEF F
  <2>1. QED
    BY <1>2, BestSum
<1>4. G \subseteq pool /\ IsFiniteSet(G)
  BY <1>1
<1>5. ASSUME NEW c \in G, NEW d \in pool, CharOf(d) = CharOf(c)
      PROVE  key[d] <= key[c]
  <2>1. key[c] \in Int /\ key[d] \in Int
    BY <1>4
  <2>2. SUFFICES ASSUME key[d] > key[c] PROVE FALSE
    BY <2>1
  <2> DEFINE T == (G \ {c}) \cup {d}
  <2>3. d # c
    BY <2>1, <2>2
  <2>4. d \notin G /\ T \in F
    BY <1>5, <2>3, SwapSameChars
  <2>5. \A x \in G \cup {d} : key[x] \in Int
    BY <1>4
  <2>6. SetSum(key, T) = SetSum(key, G) - key[c] + key[d]
    BY <1>4, <2>4, <2>5, SwapSum
  <2>7. SetSum(key, G) \in Int
    BY <1>4, SetSumInt
  <2>8. SetSum(key, T) <= SetSum(key, G)
    BY <1>3, <2>4
  <2> HIDE DEF T
  <2>9. QED
    BY <2>1, <2>2, <2>6, <2>7, <2>8
<1>6. G \subseteq Tops(pool, key)
  BY <1>4, <1>5 DEF Tops
<1>7. QED
  BY <1>6

\* Without a minimal skill nothing gives way: the cards found are the best of their characters.
LEMMA LedByTop ==
  ASSUME NEW con, con.minSkill = 0, NEW pool, NEW key, \A c \in pool : key[c] \in Int,
         NEW S \in SUBSET pool, NEW lead \in S
  PROVE  LedByCard(con, pool, key, Tops(pool, key), S, lead)
           <=> S \subseteq Tops(pool, key) /\ CharOf(lead) \in Leads(con, S)
<1>1. \A T : LeadOk(con, T)
  BY DEF LeadOk
<1>2. (\A d \in pool : ~(CharOf(d) = CharOf(lead) /\ key[d] > key[lead])) <=> lead \in Tops(pool, key)
  <2>1. \A d \in pool : key[d] \in Int /\ key[lead] \in Int /\ (key[d] > key[lead] <=> ~(key[d] <= key[lead]))
    OBVIOUS
  <2>2. QED
    BY <2>1 DEF Tops
<1>3. S \subseteq Tops(pool, key) <=> S \ {lead} \subseteq Tops(pool, key) /\ lead \in Tops(pool, key)
  OBVIOUS
<1> HIDE DEF Tops
<1>4. QED
  BY <1>1, <1>2, <1>3 DEF LedByCard

LEMMA ConstrainedIsBest ==
  ASSUME NEW con, Con!SoundObject(con), con.minSkill = 0,
         NEW pool, IsFiniteSet(pool), FilterCardPool(con, pool) = pool,
         \A c \in pool : CharOf(c) \in Chars,
         NEW key, \A c \in pool : key[c] \in Int,
         NEW value, \A S \in TeamSets(pool) : value[S] \in Int,
         NEW S0 \in Admissible(con, pool), NEW v0 \in Int,
         \A G \in TeamSets(pool) : SetSum(key, S0) <= SetSum(key, G) => v0 <= value[G]
  PROVE  LET best == GreedyWithConstraints(con, pool, key, value)
         IN best # {} /\ \A G \in best : v0 <= value[G]
<1> DEFINE tops == Tops(pool, key)
           Found(S, lead) == [cards |-> S, choice |-> <<CharsIn(S), CharOf(lead)>>, value |-> value[S]]
           found == UNION {{Found(S, lead) : lead \in {c \in S : LedByCard(con, pool, key, tops, S, c)}} :
                             S \in Admissible(con, pool)}
           Worth(choice) == {f.value : f \in {g \in found : g.choice = choice}}
           leasts == {Least(Worth(f.choice)) : f \in found}
           best == {f.cards : f \in {g \in found : Max(leasts) <= g.value}}
           all == {value[S] : S \in TeamSets(pool)}
<1>0. GreedyWithConstraints(con, pool, key, value) = best
  BY DEF GreedyWithConstraints
<1>1. /\ Admissible(con, pool) \subseteq TeamSets(pool)
      /\ \A S \in TeamSets(pool) : S \subseteq pool /\ S # {} /\ IsFiniteSet(S) /\ CharsIn(S) \subseteq Chars
  <2>1. \A S \in TeamSets(pool) : S \subseteq pool /\ Cardinality(S) = TeamSize /\ IsFiniteSet(S)
    BY FS_Subset DEF TeamSets, kSubset
  <2>2. TeamSize \in Nat \ {0}
    BY EventDataAssumption
  <2>3. \A S \in TeamSets(pool) : S # {}
    BY <2>1, <2>2, FS_EmptySet
  <2>4. QED
    BY <2>1, <2>3 DEF Admissible, CharsIn
<1>2. ASSUME NEW f \in found
      PROVE  /\ f.cards \in Admissible(con, pool) /\ f.value = value[f.cards] /\ f.value \in Int
             /\ f.cards \subseteq tops /\ f.choice[1] = CharsIn(f.cards)
  <2>1. PICK S \in Admissible(con, pool) :
          \E lead \in S : f = Found(S, lead) /\ LedByCard(con, pool, key, tops, S, lead)
    OBVIOUS
  <2>2. S \in TeamSets(pool) /\ S \in SUBSET pool
    BY <1>1
  <2>3. S \subseteq tops
    BY <2>1, <2>2, LedByTop
  <2> HIDE DEF tops
  <2>4. QED
    BY <2>1, <2>2, <2>3
<1>3. PICK G0 \in SameChars(pool, S0) : G0 \subseteq tops
  BY <1>1, TopsThere
<1>4. G0 \in Admissible(con, pool) /\ G0 \in SUBSET pool /\ CharsIn(G0) = CharsIn(S0)
  BY <1>1 DEF SameChars, Admissible
<1>5. PICK lead \in G0 : CharOf(lead) \in Leads(con, G0)
  <2>1. CharsIn(G0) # {} /\ CharsIn(G0) \in SUBSET Chars
    BY <1>1, <1>4 DEF CharsIn
  <2>2. Con!CharacterSetSatisfies(con, CharsIn(G0))
    BY <1>4 DEF Admissible
  <2>3. Leads(con, G0) \cap CharsIn(G0) # {}
    BY <2>1, <2>2, LeadThere DEF Leads
  <2>4. QED
    BY <2>3 DEF CharsIn
<1>6. LedByCard(con, pool, key, tops, G0, lead)
  BY <1>3, <1>4, <1>5, LedByTop
<1>7. Found(G0, lead) \in found
  <2> HIDE DEF tops
  <2>1. QED
    BY <1>4, <1>6
<1>8. PICK f0 \in found : f0.choice[1] = CharsIn(S0)
  <2>1. Found(G0, lead).choice[1] = CharsIn(S0)
    BY <1>4
  <2> HIDE DEF found, Found
  <2>2. QED
    BY <1>7, <2>1
<1>9. ASSUME NEW g \in found, g.choice = f0.choice
      PROVE  v0 <= g.value
  <2>1. g.cards \in Admissible(con, pool) /\ g.cards \in TeamSets(pool) /\ g.value = value[g.cards]
        /\ g.cards \subseteq tops
    BY <1>1, <1>2
  <2>2. CharsIn(g.cards) = CharsIn(S0)
    BY <1>2, <1>8, <1>9
  <2>3. g.cards \in SameChars(pool, S0)
    BY <2>1, <2>2 DEF SameChars
  <2>4. SetSum(key, S0) <= SetSum(key, g.cards)
    BY <1>1, <2>1, <2>3, TopsAreBest
  <2> HIDE DEF found, tops
  <2>5. QED
    BY <2>1, <2>4
<1>10. IsFiniteSet(all)
  <2> DEFINE h == [S \in TeamSets(pool) |-> value[S]]
  <2>1. TeamSets(pool) \in SUBSET SUBSET pool
    BY <1>1
  <2>2. IsFiniteSet(TeamSets(pool))
    BY <2>1, FS_SUBSET, FS_Subset
  <2>3. h \in Surjection(TeamSets(pool), all)
    BY DEF Surjection
  <2> HIDE DEF h, all
  <2>4. QED
    BY <2>2, <2>3, FS_Surjection
<1>11. ASSUME NEW f \in found
       PROVE  /\ Least(Worth(f.choice)) \in Int /\ Least(Worth(f.choice)) \in all
              /\ Least(Worth(f.choice)) \in Worth(f.choice)
              /\ \A x \in Worth(f.choice) : Least(Worth(f.choice)) <= x
  <2>1. \A g \in found : g.value \in all /\ g.value \in Int
    <3> HIDE DEF found
    <3>1. QED
      BY <1>1, <1>2
  <2>2. Worth(f.choice) \subseteq all /\ Worth(f.choice) # {} /\ \A x \in Worth(f.choice) : x \in Int
    <3> HIDE DEF found, all
    <3>1. QED
      BY <2>1
  <2>3. IsFiniteSet(Worth(f.choice))
    BY <1>10, <2>2, FS_Subset
  <2> HIDE DEF Worth, all
  <2>4. QED
    BY <2>2, <2>3, LeastOfFinite
<1>12. v0 <= Least(Worth(f0.choice))
  <2>1. \A x \in Worth(f0.choice) : v0 <= x
    <3> HIDE DEF found
    <3>1. QED
      BY <1>9
  <2> HIDE DEF found, Worth
  <2>2. QED
    BY <1>11, <2>1
<1>13. Max(leasts) \in leasts /\ \A y \in leasts : Max(leasts) >= y /\ y \in Int
  <2>1. leasts \subseteq all /\ leasts # {} /\ \A x \in leasts : x \in Int
    <3> HIDE DEF found, Worth, all
    <3>1. QED
      BY <1>8, <1>11
  <2>2. IsFiniteSet(leasts)
    BY <1>10, <2>1, FS_Subset
  <2> HIDE DEF leasts, all
  <2>3. QED
    BY <2>1, <2>2, MaxOfFinite
<1>14. v0 <= Max(leasts)
  <2>1. Least(Worth(f0.choice)) \in leasts
    <3> HIDE DEF found, Worth
    <3>1. QED
      BY <1>8
  <2> HIDE DEF leasts, found, Worth
  <2>2. QED
    BY <1>12, <1>13, <2>1
<1>15. \E g \in found : Max(leasts) <= g.value
  <2>1. PICK f \in found : Max(leasts) = Least(Worth(f.choice))
    <3> HIDE DEF found, Worth
    <3>1. QED
      BY <1>13
  <2>2. PICK g \in found : g.value = Least(Worth(f.choice))
    <3>1. Least(Worth(f.choice)) \in Worth(f.choice)
      BY <1>11
    <3> DEFINE n == Least(Worth(f.choice))
    <3>2. n \in Worth(f.choice)
      BY <3>1
    <3> HIDE DEF found, n
    <3>3. \E g \in found : g.value = n
      BY <3>2
    <3>4. QED
      BY <3>3 DEF n
  <2>3. g.value \in Int
    BY <1>2
  <2> HIDE DEF found, leasts, Worth
  <2>4. QED
    BY <2>1, <2>2, <2>3
<1>16. \A g \in found : g.value \in Int /\ g.value = value[g.cards]
  BY <1>2
<1>17. Max(leasts) \in Int
  BY <1>13
<1>18. best # {} /\ \A G \in best : v0 <= value[G]
  <2> HIDE DEF found, leasts
  <2>1. best # {}
    BY <1>15
  <2>2. ASSUME NEW G \in best
        PROVE  v0 <= value[G]
    <3>1. PICK g \in found : G = g.cards /\ Max(leasts) <= g.value
      OBVIOUS
    <3>2. QED
      BY <1>14, <1>16, <1>17, <3>1
  <2>3. QED
    BY <2>1, <2>2
<1>19. QED
  BY <1>0, <1>18

-----------------------------------------------------------------------------
(* Teams made of sets of cards.                                            *)

\* Cards that are worth more make a greater sum.
LEMMA SetSumGrows ==
  ASSUME NEW f, NEW g, NEW S, IsFiniteSet(S), \A x \in S : f[x] \in Int /\ g[x] \in Int /\ f[x] <= g[x]
  PROVE  SetSum(f, S) <= SetSum(g, S)
<1> DEFINE Bad == {T \in SUBSET S : ~(SetSum(f, T) <= SetSum(g, T))}
<1> SUFFICES ASSUME Bad # {} PROVE FALSE
  OBVIOUS
<1>1. PICK T \in Bad : \A U \in SUBSET T : U \in Bad => U = T
  <2>1. Bad \in SUBSET SUBSET S
    OBVIOUS
  <2> HIDE DEF Bad
  <2>2. QED
    BY <2>1, SmallestSubset
<1>2. T \in SUBSET S /\ IsFiniteSet(T) /\ ~(SetSum(f, T) <= SetSum(g, T))
  BY <1>1, FS_Subset
<1>3. T # {}
  BY <1>2, SetSumEmpty
<1> DEFINE x == Chosen(T)
           U == T \ {x}
<1>4. x \in T
  BY <1>3, ChosenIn
<1>5. SetSum(f, U) <= SetSum(g, U)
  BY <1>1, <1>2, <1>4
<1>6. IsFiniteSet(U) /\ U \subseteq S
  BY <1>2, FS_Subset
<1>7. SetSum(f, U) \in Int /\ SetSum(g, U) \in Int
  BY <1>6, SetSumInt
<1>8. SetSum(f, T) = f[x] + SetSum(f, U) /\ SetSum(g, T) = g[x] + SetSum(g, U)
  BY <1>2, <1>3, SetSumChosen
<1>9. f[x] \in Int /\ g[x] \in Int /\ f[x] <= g[x]
  BY <1>2, <1>4
<1> HIDE DEF x, U
<1>10. QED
  BY <1>2, <1>5, <1>7, <1>8, <1>9

\* Every set of cards can be put in the order of their keys.
LEMMA OrderExists ==
  ASSUME NEW S, IsFiniteSet(S), NEW key, \A x \in S : key[x] \in Int
  PROVE  OrdersBy(key, S) # {}
<1> DEFINE Ordered(s, T) == Lists(s, T) /\ \A i \in 1..(Cardinality(T) - 1) : key[s[i]] >= key[s[i + 1]]
           Bad == {T \in SUBSET S : ~\E s : Ordered(s, T)}
<1>1. Bad = {}
  <2> SUFFICES ASSUME Bad # {} PROVE FALSE
    OBVIOUS
  <2>1. PICK T \in Bad : \A U \in SUBSET T : U \in Bad => U = T
    <3>1. Bad \in SUBSET SUBSET S
      OBVIOUS
    <3> HIDE DEF Bad
    <3>2. QED
      BY <3>1, SmallestSubset
  <2>2. T \in SUBSET S /\ IsFiniteSet(T) /\ ~\E s : Ordered(s, T)
    BY <2>1, FS_Subset
  <2>3. T # {}
    <3>1. SUFFICES ASSUME T = {} PROVE FALSE
      OBVIOUS
    <3>2. Cardinality(T) = 0
      BY <3>1, FS_EmptySet
    <3> DEFINE s == [i \in 1..0 |-> i]
    <3>3. s \in [1..0 -> {}]
      OBVIOUS
    <3>4. Ordered(s, T)
      BY <3>1, <3>2, <3>3 DEF Lists
    <3>5. QED
      BY <2>2, <3>4
  <2> DEFINE keys == {key[x] : x \in T}
             g == [x \in T |-> key[x]]
  <2>4. IsFiniteSet(keys) /\ keys # {} /\ \A k \in keys : k \in Int
    <3>1. g \in Surjection(T, keys)
      BY DEF Surjection
    <3>2. keys # {} /\ \A k \in keys : k \in Int
      BY <2>2, <2>3
    <3> HIDE DEF g, keys
    <3>3. QED
      BY <2>2, <3>1, <3>2, FS_Surjection
  <2>5. Least(keys) \in keys /\ \A k \in keys : Least(keys) <= k
    <3> HIDE DEF keys
    <3>1. QED
      BY <2>4, LeastOfFinite
  <2>6. PICK x \in T : \A y \in T : key[x] <= key[y]
    BY <2>5
  <2> DEFINE U == T \ {x}
             n == Cardinality(T)
  <2>7. IsFiniteSet(U) /\ Cardinality(U) = n - 1 /\ n \in Nat /\ Cardinality(U) \in Nat
    BY <2>2, FS_RemoveElement, FS_CardinalityType
  <2>8. \E s : Ordered(s, U)
    <3>1. U \in SUBSET T /\ U # T /\ U \in SUBSET S
      BY <2>2
    <3>2. U \notin Bad
      BY <2>1, <3>1
    <3> HIDE DEF U, Ordered
    <3>3. QED
      BY <3>1, <3>2
  <2>9. PICK s : Ordered(s, U)
    BY <2>8
  <2> DEFINE t == [i \in 1..n |-> IF i = n THEN x ELSE s[i]]
  <2>10. s \in [1..(n - 1) -> U] /\ \A i, j \in 1..(n - 1) : i # j => s[i] # s[j]
    BY <2>7, <2>9 DEF Lists
  <2>11. \A i \in 1..(n - 2) : key[s[i]] >= key[s[i + 1]]
    BY <2>7, <2>9
  <2> HIDE DEF U, Ordered, n
  <2>12. \A i \in 1..n : t[i] \in T /\ (i # n => t[i] = s[i] /\ s[i] \in U) /\ (i = n => t[i] = x)
    <3>1. ASSUME NEW i \in 1..n, i # n
          PROVE  i \in 1..(n - 1)
      BY <2>7, <3>1
    <3>2. \A i \in 1..(n - 1) : s[i] \in U /\ s[i] \in T
      BY <2>10 DEF U
    <3>3. QED
      BY <2>6, <3>1, <3>2
  <2>13. Lists(t, T)
    <3>1. t \in [1..n -> T]
      BY <2>12
    <3>2. \A i, j \in 1..n : i # j => t[i] # t[j]
      <4> SUFFICES ASSUME NEW i \in 1..n, NEW j \in 1..n, i # j PROVE t[i] # t[j]
        OBVIOUS
      <4>1. x \notin U
        BY DEF U
      <4>2. CASE i = n \/ j = n
        <5> HIDE DEF t
        <5>1. QED
          BY <2>12, <4>1, <4>2
      <4>3. CASE i # n /\ j # n
        <5>1. i \in 1..(n - 1) /\ j \in 1..(n - 1)
          BY <2>7, <4>3
        <5> HIDE DEF t
        <5>2. QED
          BY <2>10, <2>12, <4>3, <5>1
      <4>4. QED
        BY <4>2, <4>3
    <3>3. QED
      BY <3>1, <3>2 DEF Lists, n
  <2>14. \A i \in 1..(n - 1) : key[t[i]] >= key[t[i + 1]]
    <3> SUFFICES ASSUME NEW i \in 1..(n - 1) PROVE key[t[i]] >= key[t[i + 1]]
      OBVIOUS
    <3>1. i \in 1..n /\ i # n /\ i + 1 \in 1..n
      BY <2>7
    <3>2. t[i] = s[i] /\ t[i] \in T
      BY <2>12, <3>1
    <3>3. CASE i + 1 = n
      <4>1. t[i + 1] = x /\ key[t[i]] \in Int /\ key[x] \in Int
        BY <2>2, <2>12, <3>1, <3>2, <3>3
      <4> HIDE DEF t
      <4>2. QED
        BY <2>6, <3>2, <4>1
    <3>4. CASE i + 1 # n
      <4>1. i \in 1..(n - 2) /\ t[i + 1] = s[i + 1]
        BY <2>7, <2>12, <3>1, <3>4
      <4> HIDE DEF t
      <4>2. QED
        BY <2>11, <3>2, <4>1
    <3>5. QED
      BY <3>3, <3>4
  <2> HIDE DEF t
  <2>15. QED
    BY <2>2, <2>13, <2>14 DEF Ordered, n
<1>2. PICK s : Ordered(s, S)
  BY <1>1
<1>3. Len(s) = Cardinality(S)
  BY <1>2, ListRange
<1>4. s \in SetToSeqs(S)
  BY <1>2 DEF SetToSeqs, Lists
<1>5. QED
  BY <1>2, <1>3, <1>4 DEF OrdersBy

\* The cap of the rules keeps the order of powers.
LEMMA CappedGrows ==
  ASSUME NEW x \in Int, NEW y \in Int, NEW wl
  PROVE  /\ Capped(x, CapOf(wl)) \in Int
         /\ x <= y => Capped(x, CapOf(wl)) <= Capped(y, CapOf(wl))
<1>1. CapOf(wl) \in Nat
  BY EventDataAssumption DEF CapOf, NoCap
<1>2. QED
  BY <1>1 DEF Capped, Lesser, NoCap

\* The cards of a pool and the numbers they bring.
PoolPower(pool, b) ==
  /\ IsFiniteSet(pool)
  /\ \A c \in pool : c.id \in CardIds /\ \E st : \A m \in Matches : c.power[m] = PowerIn(c.id, st, b, m)

\* In a team that matches as well or better, no card of the pool has less power.
GrowingPool(pool) ==
  /\ IsFiniteSet(pool)
  /\ \A c \in pool :
       /\ c.id \in CardIds
       /\ \A m \in Matches : c.power[m] \in Nat
       /\ \A m, k \in Matches : Covers(c.id, k, m) => c.power[m] <= c.power[k]

LEMMA PoolNat ==
  ASSUME NEW pool, NEW b, PoolPower(pool, b), PowerRates(b), NEW c \in pool, NEW m \in Matches
  PROVE  c.power[m] \in Nat
<1>1. c.id \in CardIds /\ \E st : c.power[m] = PowerIn(c.id, st, b, m)
  BY DEF PoolPower
<1>2. PICK st : c.power[m] = PowerIn(c.id, st, b, m)
  BY <1>1
<1>3. QED
  BY <1>1, <1>2, PowerNat

\* That is so when matching pays, and when it makes no difference.
LEMMA PoolGrows ==
  ASSUME NEW pool, NEW b, PoolPower(pool, b), PowerRates(b),
         Pays(b) \/ \A c \in pool : \A m \in Matches : c.power[m] = MaxPower(c)
  PROVE  GrowingPool(pool)
<1>1. ASSUME NEW c \in pool, NEW m \in Matches, NEW k \in Matches, Covers(c.id, k, m)
      PROVE  c.power[m] <= c.power[k]
  <2>1. c.power[m] \in Nat /\ c.power[k] \in Nat
    BY PoolNat
  <2>2. CASE c.power[m] = c.power[k]
    BY <2>1, <2>2
  <2>3. CASE Pays(b)
    <3>1. c.id \in CardIds /\ \E st : \A j \in Matches : c.power[j] = PowerIn(c.id, st, b, j)
      BY DEF PoolPower
    <3>2. PICK st : c.power[m] = PowerIn(c.id, st, b, m) /\ c.power[k] = PowerIn(c.id, st, b, k)
      BY <3>1
    <3>3. QED
      BY <1>1, <2>3, <3>1, <3>2, PowerGrows
  <2>4. QED
    BY <2>2, <2>3
<1>2. \A c \in pool : \A m \in Matches : c.power[m] \in Nat
  BY PoolNat
<1>3. IsFiniteSet(pool) /\ \A c \in pool : c.id \in CardIds
  BY DEF PoolPower
<1>4. QED
  BY <1>1, <1>2, <1>3 DEF GrowingPool

\* The power of a team does not depend on the order of its cards.
LEMMA PowerOfTeam ==
  ASSUME NEW pool, NEW q, GrowingPool(pool), q.bonus.bonusPower \in Int,
         NEW S \in TeamSets(pool), NEW s, Lists(s, S), NEW wl,
         NEW f, \A c \in S : f[c] = c.power[MatchIn(S)]
  PROVE  /\ \A c \in S : f[c] \in Int
         /\ Power(Team(s, wl), q) = Capped(q.bonus.bonusPower + SetSum(f, S), CapOf(wl))
         /\ Power(Team(s, wl), q) \in Int
<1>1. S \subseteq pool /\ IsFiniteSet(S)
  BY FS_Subset DEF TeamSets, kSubset, GrowingPool
<1>2. MatchIn(S) \in Matches
  BY MatchType
<1>3. ASSUME NEW c \in S
      PROVE  f[c] \in Int
  BY <1>1, <1>2 DEF GrowingPool
<1>4. MatchOf(s) = MatchIn(S)
  BY <1>1, ListRange, MatchOfList
<1>5. PowerUnder(s, MatchIn(S)) = SetSum(f, S)
  BY <1>1, <1>3, PowerOfList
<1>6. Power(Team(s, wl), q) = Capped(q.bonus.bonusPower + PowerUnder(s, MatchOf(s)), CapOf(wl))
  BY DEF Power, Team
<1>7. SetSum(f, S) \in Int /\ q.bonus.bonusPower \in Int
  BY <1>1, <1>3, SetSumInt
<1>8. QED
  BY <1>3, <1>4, <1>5, <1>6, <1>7, CappedGrows

\* The power by which a state ranks the cards left to it, and the power of their teams.
Keys(cards, st) == [c \in cards |-> c.power[MatchAssumed(st)]]
Worths(cards, q, wl) == [S \in TeamSets(cards) |-> Power(AsTeam(S, wl), q)]

\* Cards left to a smaller pool are cards of the pool, and so are its teams.
LEMMA SmallerPool ==
  ASSUME NEW pool, GrowingPool(pool), NEW cards \in SUBSET pool
  PROVE  /\ GrowingPool(cards) /\ TeamSets(cards) \subseteq TeamSets(pool)
         /\ \A c \in cards : CharOf(c) \in Chars
         /\ \A S \in TeamSets(cards) : S \subseteq cards /\ IsFiniteSet(S) /\ S # {}
<1>1. GrowingPool(cards)
  BY FS_Subset DEF GrowingPool
<1>2. TeamSets(cards) \subseteq TeamSets(pool)
  BY DEF TeamSets, kSubset
<1>3. \A c \in cards : CharOf(c) \in Chars
  BY <1>1, RowOf DEF GrowingPool, CharOf
<1>4. ASSUME NEW S \in TeamSets(cards)
      PROVE  S \subseteq cards /\ IsFiniteSet(S) /\ S # {}
  <2>1. S \subseteq cards /\ IsFiniteSet(S) /\ Cardinality(S) = TeamSize
    BY <1>1, FS_Subset DEF TeamSets, kSubset, GrowingPool
  <2>2. TeamSize \in Nat \ {0}
    BY EventDataAssumption
  <2>3. QED
    BY <2>1, <2>2, FS_EmptySet
<1>5. QED
  BY <1>1, <1>2, <1>3, <1>4

LEMMA PowerOfSet ==
  ASSUME NEW pool, NEW q, GrowingPool(pool), q.bonus.bonusPower \in Int, NEW wl,
         NEW S \in TeamSets(pool), NEW f, \A c \in S : f[c] = c.power[MatchIn(S)]
  PROVE  /\ \A c \in S : f[c] \in Int
         /\ Power(AsTeam(S, wl), q) = Capped(q.bonus.bonusPower + SetSum(f, S), CapOf(wl))
<1>1. IsFiniteSet(S)
  BY SmallerPool
<1>2. Lists(SetToSeq(S), S)
  BY <1>1, SeqLists
<1>3. ASSUME NEW s, Lists(s, S)
      PROVE  /\ \A c \in S : f[c] \in Int
             /\ Power(Team(s, wl), q) = Capped(q.bonus.bonusPower + SetSum(f, S), CapOf(wl))
  <2>1. Power(Team(s, wl), q) = Capped(q.bonus.bonusPower + SetSum(f, S), CapOf(wl))
    BY <1>3, PowerOfTeam
  <2>2. \A c \in S : f[c] \in Int
    BY <1>3, PowerOfTeam
  <2>3. QED
    BY <2>1, <2>2
<1>4. QED
  BY <1>2, <1>3 DEF AsTeam

\* Powers of teams are numbers.
LEMMA WorthsAreInt ==
  ASSUME NEW pool, NEW q, GrowingPool(pool), q.bonus.bonusPower \in Int, NEW wl,
         NEW S \in TeamSets(pool)
  PROVE  /\ Power(AsTeam(S, wl), q) \in Int
         /\ \A s : Lists(s, S) => Power(Team(s, wl), q) = Power(AsTeam(S, wl), q)
<1> DEFINE f == [c \in S |-> c.power[MatchIn(S)]]
<1>1. IsFiniteSet(S)
  BY SmallerPool
<1>2. \A c \in S : f[c] = c.power[MatchIn(S)]
  OBVIOUS
<1>3. Lists(SetToSeq(S), S)
  BY <1>1, SeqLists
<1> HIDE DEF f
<1>4. ASSUME NEW s, Lists(s, S)
      PROVE  /\ Power(Team(s, wl), q) = Capped(q.bonus.bonusPower + SetSum(f, S), CapOf(wl))
             /\ Power(Team(s, wl), q) \in Int
  BY <1>2, <1>4, PowerOfTeam
<1>5. QED
  BY <1>3, <1>4 DEF AsTeam

\* A greater sum of what cards have by the assumed match means a greater power, whatever the
\* teams really match.
LEMMA RankedByPower ==
  ASSUME NEW pool, NEW q, GrowingPool(pool), q.bonus.bonusPower \in Int, NEW wl,
         NEW S0 \in TeamSets(pool), NEW st, st = StateOf(S0),
         NEW cards \in SUBSET FilterCards(st, pool), S0 \subseteq cards
  PROVE  LET key == Keys(FilterCards(st, pool), st)
         IN /\ \A c \in cards : key[c] \in Int
            /\ \A G \in TeamSets(cards) : SetSum(key, S0) <= SetSum(key, G) =>
                 Power(AsTeam(S0, wl), q) <= Power(AsTeam(G, wl), q)
<1> DEFINE key == Keys(FilterCards(st, pool), st)
           bp == q.bonus.bonusPower
<1>1. /\ S0 \subseteq pool /\ IsFiniteSet(S0) /\ S0 # {}
      /\ \A c \in pool : c.id \in CardIds
  BY SmallerPool DEF GrowingPool
<1>2. /\ st \in CandidateStates /\ st.primary # "VS"
      /\ \A c \in S0 : Covers(c.id, MatchAssumed(st), MatchIn(S0))
  BY <1>1, StateFits
<1>3. MatchAssumed(st) \in Matches
  BY DEF MatchAssumed, Matches
<1>4. cards \subseteq pool /\ \A c \in cards : key[c] = c.power[MatchAssumed(st)]
  BY DEF FilterCards, Keys
<1> HIDE DEF key
<1>5. \A c \in cards : \A m, k \in Matches : Covers(c.id, k, m) => c.power[m] <= c.power[k]
  BY <1>4 DEF GrowingPool
<1>6. ASSUME NEW c \in cards
      PROVE  key[c] \in Int
  BY <1>3, <1>4 DEF GrowingPool
<1>0. ASSUME NEW S \in TeamSets(pool), NEW h, \A c \in S : h[c] = c.power[MatchIn(S)]
      PROVE  Power(AsTeam(S, wl), q) = Capped(bp + SetSum(h, S), CapOf(wl))
  BY <1>0, PowerOfSet
<1>7. ASSUME NEW G \in TeamSets(cards), SetSum(key, S0) <= SetSum(key, G)
      PROVE  Power(AsTeam(S0, wl), q) <= Power(AsTeam(G, wl), q)
  <2> DEFINE f == [c \in S0 |-> c.power[MatchIn(S0)]]
             g == [c \in G |-> c.power[MatchIn(G)]]
  <2>1. G \in TeamSets(pool) /\ G \subseteq cards /\ IsFiniteSet(G) /\ G # {}
    <3>1. cards \in SUBSET pool
      BY <1>4
    <3>2. QED
      BY <3>1, SmallerPool
  <2>2. \A c \in S0 : f[c] = c.power[MatchIn(S0)]
    OBVIOUS
  <2>3. \A c \in G : g[c] = c.power[MatchIn(G)]
    OBVIOUS
  <2> HIDE DEF f, g
  <2>4. /\ \A c \in S0 : f[c] \in Int
        /\ Power(AsTeam(S0, wl), q) = Capped(bp + SetSum(f, S0), CapOf(wl))
    <3>1. QED
      BY <2>2, PowerOfSet
  <2>5. /\ \A c \in G : g[c] \in Int
        /\ Power(AsTeam(G, wl), q) = Capped(bp + SetSum(g, G), CapOf(wl))
    <3>1. G \in TeamSets(pool)
      BY <2>1
    <3>2. Power(AsTeam(G, wl), q) = Capped(bp + SetSum(g, G), CapOf(wl))
      BY <1>0, <2>3, <3>1
    <3>3. \A c \in G : g[c] \in Int
      BY <2>3, <3>1, PowerOfSet
    <3>4. QED
      BY <3>2, <3>3
  <2>6. ASSUME NEW c \in S0
        PROVE  f[c] <= key[c]
    <3>1. MatchIn(S0) \in Matches /\ c \in cards
      BY MatchType
    <3>2. Covers(c.id, MatchAssumed(st), MatchIn(S0))
      BY <1>2
    <3>3. QED
      BY <1>3, <1>4, <1>5, <2>2, <3>1, <3>2
  <2>7. ASSUME NEW c \in G
        PROVE  key[c] <= g[c]
    <3>1. MatchIn(G) \in Matches /\ c \in cards
      BY <2>1, MatchType
    <3>2. Covers(c.id, MatchIn(G), MatchAssumed(st))
      BY <1>1, <1>2, <2>1, FilteredMatch
    <3>3. QED
      BY <1>3, <1>4, <1>5, <2>3, <3>1, <3>2
  <2>8. SetSum(f, S0) <= SetSum(key, S0) /\ SetSum(key, G) <= SetSum(g, G)
    <3>1. \A c \in S0 : f[c] \in Int /\ key[c] \in Int /\ f[c] <= key[c]
      BY <1>6, <2>4, <2>6
    <3>2. \A c \in G : key[c] \in Int /\ g[c] \in Int /\ key[c] <= g[c]
      BY <1>6, <2>1, <2>5, <2>7
    <3>3. QED
      BY <1>1, <2>1, <3>1, <3>2, SetSumGrows
  <2>9. SetSum(f, S0) \in Int /\ SetSum(key, S0) \in Int
    <3>1. \A c \in S0 : f[c] \in Int /\ key[c] \in Int
      BY <1>6, <2>4
    <3>2. QED
      BY <1>1, <3>1, SetSumInt
  <2>10. SetSum(key, G) \in Int /\ SetSum(g, G) \in Int
    <3>1. \A c \in G : g[c] \in Int /\ key[c] \in Int
      BY <1>6, <2>1, <2>5
    <3>2. QED
      BY <2>1, <3>1, SetSumInt
  <2>11. bp \in Int
    OBVIOUS
  <2> DEFINE x == bp + SetSum(f, S0)
             y == bp + SetSum(g, G)
  <2>12. x \in Int /\ y \in Int /\ x <= y
    BY <1>7, <2>8, <2>9, <2>10, <2>11
  <2> HIDE DEF x, y
  <2>13. Capped(x, CapOf(wl)) <= Capped(y, CapOf(wl))
    BY <2>12, CappedGrows
  <2>14. QED
    BY <2>4, <2>5, <2>13 DEF x, y
<1>8. QED
  BY <1>6, <1>7 DEF key

\* What the greedy builder answers lists a team of the cards.
LEMMA GreedyListsTeams ==
  ASSUME NEW con, NEW cards, NEW key, NEW value, NEW s \in Greedy(con, cards, key, value)
  PROVE  \E S \in TeamSets(cards) : Lists(s, S)
<1>1. CASE con.empty
  <2>1. PICK S \in GreedyNoConstraints(cards, key) : s \in OrdersBy(key, S)
    BY <1>1 DEF Greedy
  <2>2. QED
    BY <2>1, OrdersList DEF GreedyNoConstraints
<1>2. CASE ~con.empty
  <2> DEFINE sub == FilterCardPool(con, cards)
  <2>1. PICK S \in GreedyWithConstraints(con, sub, key, value) :
          s \in OrdersBy([c \in S |-> -CharOf(c)], S)
    BY <1>2 DEF Greedy
  <2>2. S \in Admissible(con, sub)
    BY <2>1, ConstrainedUses
  <2>3. S \in TeamSets(cards)
    BY <2>2 DEF Admissible, TeamSets, kSubset, FilterCardPool
  <2>4. QED
    BY <2>1, <2>3, OrdersList
<1>3. QED
  BY <1>1, <1>2

\* For the assumed match that gives a team its due, only teams with no less power are answered.
LEMMA StateIsBest ==
  ASSUME NEW con, Con!SoundObject(con), con.minSkill = 0,
         NEW pool, NEW q, GrowingPool(pool), q.bonus.bonusPower \in Int, NEW wl,
         NEW S0 \in Admissible(con, pool)
  PROVE  LET teams == RecommendForState(con, pool, q, StateOf(S0), wl)
         IN teams # {} /\ \A s \in teams : Power(AsTeam(S0, wl), q) <= Power(Team(s, wl), q)
<1> DEFINE st == StateOf(S0)
           cards == FilterCards(st, pool)
           sub == FilterCardPool(con, cards)
           key == Keys(cards, st)
           value == Worths(cards, q, wl)
           v0 == Power(AsTeam(S0, wl), q)
<1>1. RecommendForState(con, pool, q, st, wl) = Greedy(con, cards, key, value)
  BY DEF RecommendForState, Keys, Worths
<1>2. S0 \in TeamSets(FilterCardPool(con, pool)) /\ Con!CharacterSetSatisfies(con, CharsIn(S0))
  BY DEF Admissible
<1>3. cards \in SUBSET pool /\ sub \in SUBSET cards /\ sub \in SUBSET pool
  BY DEF FilterCards, FilterCardPool
<1>4. /\ S0 \subseteq FilterCardPool(con, pool) /\ S0 \in TeamSets(pool)
      /\ Cardinality(S0) = TeamSize /\ OfDistinctChars(S0)
  BY <1>2 DEF TeamSets, kSubset, FilterCardPool
<1>5. S0 \subseteq pool /\ IsFiniteSet(S0) /\ S0 # {} /\ \A c \in S0 : c.id \in CardIds
  BY <1>4, SmallerPool DEF GrowingPool
<1>6. S0 \subseteq cards
  BY <1>5, StateFits
<1>7. S0 \subseteq sub
  BY <1>4, <1>6 DEF FilterCardPool
<1>8. S0 \in TeamSets(cards) /\ S0 \in TeamSets(sub)
  BY <1>4, <1>6, <1>7 DEF TeamSets, kSubset
<1> HIDE DEF st, cards, sub, key, value
<1>9. /\ \A c \in cards : key[c] \in Int
      /\ \A G \in TeamSets(cards) : SetSum(key, S0) <= SetSum(key, G) => v0 <= Power(AsTeam(G, wl), q)
  BY <1>4, <1>6, RankedByPower DEF st, cards, key
<1>10. /\ IsFiniteSet(cards) /\ IsFiniteSet(sub)
       /\ TeamSets(cards) \subseteq TeamSets(pool) /\ TeamSets(sub) \subseteq TeamSets(cards)
       /\ \A S \in TeamSets(cards) : S \subseteq cards /\ IsFiniteSet(S)
       /\ \A c \in sub : CharOf(c) \in Chars
  <2>1. GrowingPool(cards) /\ GrowingPool(sub)
    BY <1>3, SmallerPool
  <2>2. TeamSets(cards) \subseteq TeamSets(pool)
        /\ \A S \in TeamSets(cards) : S \subseteq cards /\ IsFiniteSet(S)
    BY <1>3, SmallerPool
  <2>3. TeamSets(sub) \subseteq TeamSets(cards) /\ \A c \in sub : CharOf(c) \in Chars
    BY <1>3, <2>1, SmallerPool
  <2>4. QED
    BY <2>1, <2>2, <2>3 DEF GrowingPool
<1>11. v0 \in Int
  BY <1>4, WorthsAreInt
<1>12. ASSUME NEW S \in TeamSets(cards), NEW s, Lists(s, S)
       PROVE  Power(Team(s, wl), q) = Power(AsTeam(S, wl), q)
  <2>1. S \in TeamSets(pool)
    BY <1>10
  <2>2. QED
    BY <1>12, <2>1, WorthsAreInt
<1>13. CASE con.empty
  <2>1. Greedy(con, cards, key, value)
          = UNION {OrdersBy(key, S) : S \in GreedyNoConstraints(cards, key)}
    BY <1>13 DEF Greedy
  <2>2. PICK G \in GreedyNoConstraints(cards, key) : TRUE
    BY <1>8, <1>9, <1>10, GreedyExists
  <2>3. G \in TeamSets(cards) /\ IsFiniteSet(G) /\ G \subseteq cards
    BY <1>10, <2>2 DEF GreedyNoConstraints
  <2>4. OrdersBy(key, G) # {}
    BY <1>9, <2>3, OrderExists
  <2>5. ASSUME NEW s \in Greedy(con, cards, key, value)
        PROVE  v0 <= Power(Team(s, wl), q)
    <3>1. PICK S \in GreedyNoConstraints(cards, key) : s \in OrdersBy(key, S)
      BY <2>1
    <3>2. S \in TeamSets(cards)
      BY DEF GreedyNoConstraints
    <3>3. SetSum(key, S0) <= SetSum(key, S)
      BY <1>8, <1>9, <1>10, GreedyIsBest
    <3>4. Lists(s, S)
      BY <3>1, OrdersList
    <3>5. QED
      BY <1>9, <1>12, <3>2, <3>3, <3>4
  <2>6. QED
    BY <1>1, <2>1, <2>4, <2>5 DEF st
<1>14. CASE ~con.empty
  <2> DEFINE best == GreedyWithConstraints(con, sub, key, value)
             byChar(S) == [c \in S |-> -CharOf(c)]
  <2>1. Greedy(con, cards, key, value) = UNION {OrdersBy(byChar(S), S) : S \in best}
    BY <1>14 DEF Greedy, sub
  <2>2. FilterCardPool(con, sub) = sub
    BY DEF sub, FilterCardPool
  <2>3. S0 \in Admissible(con, sub)
    BY <1>2, <1>8, <2>2 DEF Admissible
  <2>4. \A S \in TeamSets(sub) : value[S] = Power(AsTeam(S, wl), q) /\ value[S] \in Int
    <3>1. \A S \in TeamSets(sub) : S \in TeamSets(cards) /\ S \in TeamSets(pool)
      BY <1>10
    <3>2. \A S \in TeamSets(cards) : value[S] = Power(AsTeam(S, wl), q)
      BY DEF value, Worths
    <3>3. ASSUME NEW S \in TeamSets(sub)
          PROVE  Power(AsTeam(S, wl), q) \in Int
      BY <3>1, WorthsAreInt
    <3>4. QED
      BY <3>1, <3>2, <3>3
  <2>5. \A c \in sub : key[c] \in Int
    BY <1>3, <1>9
  <2>6. \A G \in TeamSets(sub) : SetSum(key, S0) <= SetSum(key, G) => v0 <= value[G]
    BY <1>9, <1>10, <2>4
  <2> HIDE DEF v0
  <2>7. best # {} /\ \A G \in best : v0 <= value[G]
    BY <1>10, <1>11, <2>2, <2>3, <2>4, <2>5, <2>6, ConstrainedIsBest
  <2>8. \A G \in best : G \in TeamSets(sub)
    BY <2>2, ConstrainedUses DEF Admissible
  <2> HIDE DEF best, byChar
  <2>9. ASSUME NEW G \in best
        PROVE  OrdersBy(byChar(G), G) # {}
    <3>1. G \in TeamSets(cards) /\ IsFiniteSet(G) /\ G \subseteq sub
      BY <1>10, <2>8 DEF TeamSets, kSubset
    <3>2. \A c \in G : byChar(G)[c] \in Int
      <4>1. \A c \in G : byChar(G)[c] = -CharOf(c) /\ CharOf(c) \in Chars
        BY <1>10, <3>1 DEF byChar
      <4>2. \A n \in Chars : -n \in Int
        BY UnitDataAssumption DEF Chars
      <4>3. QED
        BY <4>1, <4>2
    <3>3. QED
      BY <3>1, <3>2, OrderExists
  <2>10. ASSUME NEW s \in Greedy(con, cards, key, value)
         PROVE  v0 <= Power(Team(s, wl), q)
    <3>1. PICK S \in best : s \in OrdersBy(byChar(S), S)
      BY <2>1
    <3>2. S \in TeamSets(sub) /\ S \in TeamSets(cards)
      BY <1>10, <2>8
    <3>3. Lists(s, S)
      BY <3>1, OrdersList
    <3>4. Power(Team(s, wl), q) = value[S]
      BY <1>12, <2>4, <3>2, <3>3
    <3>5. QED
      BY <2>7, <3>4
  <2>11. Greedy(con, cards, key, value) # {}
    BY <2>1, <2>7, <2>9
  <2>12. QED
    BY <1>1, <2>10, <2>11 DEF st, v0
<1>15. QED
  BY <1>13, <1>14

\* Of the answers for all assumed matches those are kept that are not behind.
LEMMA MaxPowerIsBest ==
  ASSUME NEW con, Con!SoundObject(con), con.minSkill = 0,
         NEW pool, NEW q, GrowingPool(pool), q.bonus.bonusPower \in Int, NEW wl,
         NEW S0 \in Admissible(con, pool)
  PROVE  LET teams == MaxPowerTeams(con, pool, q, wl)
         IN teams # {} /\ \A s \in teams : Power(AsTeam(S0, wl), q) <= Power(Team(s, wl), q)
<1> DEFINE byState == {RecommendForState(con, pool, q, st, wl) : st \in CandidateStates} \ {{}}
           Powers(teams) == {PowerOfCards(q, s, wl) : s \in teams}
           least == {Least(Powers(teams)) : teams \in byState}
           best == {s \in UNION byState : \A power \in least : power <= PowerOfCards(q, s, wl)}
           all == {Power(AsTeam(S, wl), q) : S \in TeamSets(pool)}
           v0 == Power(AsTeam(S0, wl), q)
           own == RecommendForState(con, pool, q, StateOf(S0), wl)
<1>1. MaxPowerTeams(con, pool, q, wl) = best
  BY DEF MaxPowerTeams
<1>2. S0 \in TeamSets(pool)
  BY DEF Admissible, TeamSets, kSubset, FilterCardPool
<1>3. IsFiniteSet(all) /\ \A x \in all : x \in Int
  <2> DEFINE h == [S \in TeamSets(pool) |-> Power(AsTeam(S, wl), q)]
  <2>1. TeamSets(pool) \in SUBSET SUBSET pool
    BY DEF TeamSets, kSubset
  <2>2. IsFiniteSet(TeamSets(pool))
    BY <2>1, FS_SUBSET, FS_Subset DEF GrowingPool
  <2>3. h \in Surjection(TeamSets(pool), all)
    BY DEF Surjection
  <2>4. ASSUME NEW S \in TeamSets(pool)
        PROVE  Power(AsTeam(S, wl), q) \in Int
    BY WorthsAreInt
  <2>5. \A x \in all : x \in Int
    BY <2>4
  <2> HIDE DEF h, all
  <2>6. QED
    BY <2>2, <2>3, <2>5, FS_Surjection
<1>4. ASSUME NEW teams \in byState, NEW s \in teams
      PROVE  PowerOfCards(q, s, wl) \in all
  <2>1. PICK st \in CandidateStates : teams = RecommendForState(con, pool, q, st, wl)
    OBVIOUS
  <2>2. PICK S \in TeamSets(FilterCards(st, pool)) : Lists(s, S)
    BY <2>1, GreedyListsTeams DEF RecommendForState
  <2>3. S \in TeamSets(pool)
    BY DEF TeamSets, kSubset, FilterCards
  <2>4. Power(Team(s, wl), q) = Power(AsTeam(S, wl), q)
    BY <2>2, <2>3, WorthsAreInt
  <2>5. QED
    BY <2>3, <2>4 DEF PowerOfCards
<1>5. own \in byState /\ \A s \in own : v0 <= PowerOfCards(q, s, wl)
  <2>1. own # {} /\ \A s \in own : v0 <= Power(Team(s, wl), q)
    BY StateIsBest
  <2>2. StateOf(S0) \in CandidateStates
    <3>1. IsFiniteSet(S0) /\ S0 # {} /\ \A c \in S0 : c.id \in CardIds
      BY <1>2, SmallerPool DEF GrowingPool
    <3>2. QED
      BY <3>1, StateFits
  <2> HIDE DEF own
  <2>3. QED
    BY <2>1, <2>2 DEF own, PowerOfCards
<1> HIDE DEF all, own, v0
<1>6. ASSUME NEW teams \in byState
      PROVE  /\ Least(Powers(teams)) \in Powers(teams) /\ Least(Powers(teams)) \in all
             /\ \A x \in Powers(teams) : Least(Powers(teams)) <= x
  <2>1. teams # {} /\ Powers(teams) # {} /\ Powers(teams) \subseteq all
    <3> HIDE DEF byState
    <3>1. teams # {}
      BY DEF byState
    <3>2. QED
      BY <1>4, <3>1
  <2>2. IsFiniteSet(Powers(teams)) /\ \A x \in Powers(teams) : x \in Int
    BY <1>3, <2>1, FS_Subset
  <2> HIDE DEF Powers
  <2>3. QED
    BY <2>1, <2>2, LeastOfFinite
<1> HIDE DEF byState
<1>7. v0 <= Least(Powers(own)) /\ Least(Powers(own)) \in least
  <2>1. \A x \in Powers(own) : v0 <= x
    BY <1>5
  <2>2. Least(Powers(own)) \in Powers(own)
    BY <1>5, <1>6
  <2>3. Least(Powers(own)) \in least
    BY <1>5
  <2> HIDE DEF Powers, least
  <2>4. QED
    BY <2>1, <2>2, <2>3
<1>8. Max(least) \in least /\ \A x \in least : Max(least) >= x /\ x \in Int
  <2>1. least # {} /\ least \subseteq all
    <3> HIDE DEF Powers
    <3>1. QED
      BY <1>5, <1>6
  <2>2. IsFiniteSet(least) /\ \A x \in least : x \in Int
    BY <1>3, <2>1, FS_Subset
  <2> HIDE DEF least
  <2>3. QED
    BY <2>1, <2>2, MaxOfFinite
<1>9. PICK teams \in byState : Max(least) = Least(Powers(teams))
  <2> HIDE DEF Powers
  <2>1. QED
    BY <1>8
<1>10. PICK s \in teams : PowerOfCards(q, s, wl) = Least(Powers(teams))
  <2>1. Least(Powers(teams)) \in Powers(teams)
    BY <1>6
  <2> DEFINE n == Least(Powers(teams))
  <2>2. n \in Powers(teams)
    BY <2>1
  <2> HIDE DEF n
  <2>3. \E s \in teams : PowerOfCards(q, s, wl) = n
    BY <2>2
  <2>4. QED
    BY <2>3 DEF n
<1>11. \A x \in least : x <= PowerOfCards(q, s, wl)
  <2>1. PowerOfCards(q, s, wl) = Max(least)
    BY <1>9, <1>10
  <2> HIDE DEF least
  <2>2. QED
    BY <1>8, <2>1
<1>12. s \in best
  <2> HIDE DEF least
  <2>1. QED
    BY <1>9, <1>10, <1>11
<1>13. ASSUME NEW t \in best
       PROVE  v0 <= PowerOfCards(q, t, wl)
  <2> DEFINE n == Least(Powers(own))
  <2>1. n \in least /\ v0 <= n
    BY <1>7
  <2>2. n <= PowerOfCards(q, t, wl)
    <3> HIDE DEF n, least
    <3>1. QED
      BY <2>1
  <2>3. n \in Int
    <3> HIDE DEF n, least
    <3>1. QED
      BY <1>8, <2>1
  <2>4. v0 \in Int
    BY <1>2, WorthsAreInt DEF v0
  <2>5. PowerOfCards(q, t, wl) \in Int
    <3>1. PICK other \in byState : t \in other
      OBVIOUS
    <3>2. QED
      BY <1>3, <1>4, <3>1 DEF byState
  <2> HIDE DEF n, best
  <2>6. QED
    BY <2>1, <2>2, <2>3, <2>4, <2>5
<1>14. QED
  <2> HIDE DEF best
  <2>1. QED
    BY <1>1, <1>12, <1>13 DEF v0, PowerOfCards

-----------------------------------------------------------------------------
(* The pool the builders are given, and the versions chosen last.          *)

\* A card of a profile has the power of its state.
LEMMA CardPower ==
  ASSUME NEW id, NEW st, NEW second, NEW rates, NEW b
  PROVE  LET d == ApplyToCard(ApplyProfilePowerBonus(NewCard(id, st, second), rates), b)
         IN d.id = id /\ \A m \in Matches : d.power[m] = PowerIn(id, st, rates, m)
<1> DEFINE c == NewCard(id, st, second)
           char == CardTable[id].char
           e == WithPower(c, char, rates)
<1>1. c.id = id /\ c.vec = PowerVec(id, st) /\ "power" \in DOMAIN c
  BY NewCardFields
<1>2. "power" \in DOMAIN e /\ "id" \in DOMAIN e /\ e.id = id
  <2>1. "power" \in DOMAIN e
    BY Zenon DEF WithPower, NewCard
  <2>2. "id" \in DOMAIN e /\ e.id = id
    BY PowerKeeps DEF CardFields
  <2>3. QED
    BY <2>1, <2>2
<1>3. ApplyProfilePowerBonus(c, rates) = e
  BY <1>1, Zenon DEF ApplyProfilePowerBonus
<1> HIDE DEF c, e
<1>4. ApplyToCard(e, b).power = e.power /\ ApplyToCard(e, b).id = id
  BY <1>2, ApplyKeepsPower
<1>5. ASSUME NEW m \in Matches
      PROVE  e.power[m] = PowerIn(id, st, rates, m)
  BY <1>1, PowerSet DEF PowerIn, e
<1>6. QED
  BY <1>3, <1>4, <1>5 DEF c

\* A card as a profile has it.
CardIn(id, p, second, b) ==
  ApplyToCard(ApplyProfilePowerBonus(NewCard(id, p.cards[id], second), ProfileBonus(p)), b)

\* The pool has the cards with rows, some of them with a second skill.
LEMMA PoolMade ==
  ASSUME NEW p, NEW b, NEW c \in TeamBuilderCardPool(ApplyEventBonus(NewProfile(p), b))
  PROVE  \E id \in DOMAIN p.cards \cap CardIds : \E second \in BOOLEAN :
           /\ second => HasSecondarySkill(id, p.cards[id])
           /\ c = CardIn(id, p, second, b)
<1> DEFINE rates == ProfileBonus(p)
           known == DOMAIN p.cards \cap CardIds
           both == {k \in known : HasSecondarySkill(k, p.cards[k])}
           Made(id, second) == ApplyProfilePowerBonus(NewCard(id, p.cards[id], second), rates)
           q == NewProfile(p)
           a == ApplyEventBonus(q, b)
<1>1. /\ q.cards = [id \in known |-> Made(id, FALSE)]
      /\ q.secondary = [id \in both |-> Made(id, TRUE)]
      /\ {"cards", "secondary", "support"} \subseteq DOMAIN q
  BY DEF NewProfile, LoadProfile, WithBonus, LoadCards
<1> HIDE DEF q
<1>2. /\ a.cards = [id \in DOMAIN q.cards |-> ApplyToCard(q.cards[id], b)]
      /\ a.secondary = [id \in DOMAIN q.secondary |-> ApplyToCard(q.secondary[id], b)]
  BY <1>1 DEF ApplyEventBonus
<1>3. c \in TeamBuilderCardPool(a)
  BY DEF q
<1> HIDE DEF a
<1>4. \/ \E id \in known : c = ApplyToCard(Made(id, FALSE), b)
      \/ \E id \in both : c = ApplyToCard(Made(id, TRUE), b)
  <2> HIDE DEF Made, known, both
  <2>1. /\ DOMAIN a.cards = known /\ DOMAIN a.secondary = both
        /\ \A id \in known : a.cards[id] = ApplyToCard(Made(id, FALSE), b)
        /\ \A id \in both : a.secondary[id] = ApplyToCard(Made(id, TRUE), b)
    BY <1>1, <1>2
  <2>2. QED
    BY <1>3, <2>1 DEF TeamBuilderCardPool, Range
<1>5. QED
  BY <1>4 DEF CardIn

\* Both versions of a card have the power of its state.
PowersOf(q, p) ==
  /\ q.bonus = ProfileBonus(p)
  /\ \A c \in TeamBuilderCardPool(q) :
       c.id \in CardIds /\ \A m \in Matches : c.power[m] = PowerIn(c.id, p.cards[c.id], q.bonus, m)

LEMMA PowersMade ==
  ASSUME NEW p, NEW b
  PROVE  PowersOf(ApplyEventBonus(NewProfile(p), b), p)
<1> DEFINE a == ApplyEventBonus(NewProfile(p), b)
           rates == ProfileBonus(p)
<1>1. a.bonus = rates
  <2> DEFINE q == NewProfile(p)
  <2>1. q.bonus = rates /\ "bonus" \in DOMAIN q
    BY DEF NewProfile, LoadProfile, WithBonus
  <2> HIDE DEF q
  <2>2. ApplyEventBonus(q, b).bonus = q.bonus
    BY <2>1 DEF ApplyEventBonus
  <2>3. QED
    BY <2>1, <2>2 DEF q
<1>2. ASSUME NEW c \in TeamBuilderCardPool(a)
      PROVE  c.id \in CardIds /\ \A m \in Matches : c.power[m] = PowerIn(c.id, p.cards[c.id], rates, m)
  <2>1. PICK id \in DOMAIN p.cards \cap CardIds : \E second \in BOOLEAN : c = CardIn(id, p, second, b)
    BY PoolMade
  <2>2. PICK second \in BOOLEAN : c = CardIn(id, p, second, b)
    BY <2>1
  <2>3. c.id = id /\ \A m \in Matches : c.power[m] = PowerIn(id, p.cards[id], rates, m)
    BY <2>2, CardPower DEF CardIn
  <2>4. QED
    BY <2>3
<1>3. QED
  BY <1>1, <1>2 DEF PowersOf

\* So the pool is one of the kind the builder was looked at with.
LEMMA PoolHasPower ==
  ASSUME NEW q, ProfileCards(q), NEW p, PowersOf(q, p)
  PROVE  PoolPower(TeamBuilderCardPool(q), q.bonus)
BY BuilderPoolFinite DEF PowersOf, PoolPower

\* The power under a match is a loop over the cards.
LEMMA PowerLoop ==
  ASSUME NEW match, NEW S, NEW s \in Seq(S), NEW f, \A c \in S : f[c] = c.power[match]
  PROVE  PowerUnder(s, match) = Folded(SumOf(f), s)
<1>1. SumOver(s, LAMBDA c : c.power[match]) = Folded(SumOf(f), s)
  BY PowerSumIsFolded
<1>2. QED
  BY <1>1 DEF PowerUnder

\* Sums over sequences that agree place by place.
LEMMA SameSums ==
  ASSUME NEW f, NEW R, NEW s \in Seq(R), NEW t \in Seq(R), Len(s) = Len(t),
         \A i \in 1..Len(s) : f[s[i]] = f[t[i]]
  PROVE  Folded(SumOf(f), s) = Folded(SumOf(f), t)
<1> DEFINE n == Len(s)
<1>1. n \in Nat
  OBVIOUS
<1>2. PICK g : Adds(g, f, s) /\ Folded(SumOf(f), s) = g[Len(s)]
  BY SumLoop
<1>3. PICK h : Adds(h, f, t) /\ Folded(SumOf(f), t) = h[Len(t)]
  BY SumLoop
<1> DEFINE G == {k \in 0..n : g[k] = h[k]}
<1>4. 0 \in G
  BY <1>2, <1>3 DEF Adds
<1>5. ASSUME NEW k \in 1..n, k - 1 \in G
      PROVE  k \in G
  <2>1. g[k] = g[k - 1] + f[s[k]] /\ h[k] = h[k - 1] + f[t[k]]
    BY <1>2, <1>3 DEF Adds
  <2>2. QED
    BY <1>5, <2>1
<1>6. \A k \in 0..n : k \in G
  <2> HIDE DEF G, n
  <2>1. QED
    BY <1>1, <1>4, <1>5, CountInduction
<1>7. g[n] = h[n]
  BY <1>1, <1>6
<1>8. QED
  BY <1>2, <1>3, <1>7

\* Cards of the same id have the same power and match alike.
LEMMA SamePower ==
  ASSUME NEW q, NEW p, PowersOf(q, p),
         NEW n \in Nat, NEW s \in [1..n -> TeamBuilderCardPool(q)], NEW t \in [1..n -> TeamBuilderCardPool(q)],
         \A i \in 1..n : s[i].id = t[i].id, NEW wl
  PROVE  Power(Team(s, wl), q) = Power(Team(t, wl), q)
<1> DEFINE pool == TeamBuilderCardPool(q)
<1>1. /\ {CardTable[c.id].attr : c \in Range(s)} = {CardTable[c.id].attr : c \in Range(t)}
      /\ {PrimaryUnit(c.id) : c \in Range(s)} = {PrimaryUnit(c.id) : c \in Range(t)}
      /\ {SecondaryUnit(c.id) : c \in Range(s)} = {SecondaryUnit(c.id) : c \in Range(t)}
  <2>1. Range(s) = {s[i] : i \in 1..n} /\ Range(t) = {t[i] : i \in 1..n}
    BY DEF Range
  <2>2. QED
    BY <2>1
<1>2. MatchOf(s) = MatchOf(t)
  BY <1>1 DEF MatchOf, AttrsOf
<1>3. PICK m \in Matches : m = MatchOf(s)
  <2>1. MatchOf(s) \in Matches
    BY DEF MatchOf, Matches, Same
  <2>2. QED
    BY <2>1
<1> DEFINE f == [c \in pool |-> c.power[m]]
<1>4. s \in Seq(pool) /\ t \in Seq(pool) /\ Len(s) = n /\ Len(t) = n
  OBVIOUS
<1>5. ASSUME NEW i \in 1..n
      PROVE  f[s[i]] = f[t[i]]
  <2>1. s[i] \in pool /\ t[i] \in pool
    OBVIOUS
  <2>2. s[i].power[m] = t[i].power[m]
    BY <2>1 DEF PowersOf
  <2>3. f[s[i]] = s[i].power[m] /\ f[t[i]] = t[i].power[m]
    <3> HIDE DEF pool
    <3>1. QED
      BY <2>1
  <2>4. QED
    BY <2>2, <2>3
<1>6. \A c \in pool : f[c] = c.power[m]
  OBVIOUS
<1> HIDE DEF f, pool
<1>7. Folded(SumOf(f), s) = Folded(SumOf(f), t)
  <2>1. Len(s) = Len(t) /\ \A i \in 1..Len(s) : f[s[i]] = f[t[i]]
    BY <1>4, <1>5
  <2>2. QED
    BY <1>4, <2>1, SameSums
<1>8. PowerUnder(s, m) = Folded(SumOf(f), s)
  BY <1>4, <1>6, PowerLoop
<1>9. PowerUnder(t, m) = Folded(SumOf(f), t)
  BY <1>4, <1>6, PowerLoop
<1>10. PowerUnder(s, m) = PowerUnder(t, m)
  BY <1>7, <1>8, <1>9
<1>11. QED
  BY <1>2, <1>3, <1>10 DEF Power, Team

\* There are finitely many teams of a finite pool.
LEMMA FiniteFunctions ==
  ASSUME NEW D, IsFiniteSet(D), NEW R, IsFiniteSet(R)
  PROVE  IsFiniteSet([D -> R])
<1> DEFINE F == [D -> R]
           Graph(f) == {<<x, f[x]>> : x \in D}
           g == [f \in F |-> Graph(f)]
           T == SUBSET (D \X R)
<1>1. IsFiniteSet(T)
  BY FS_Product, FS_SUBSET
<1>2. g \in [F -> T]
  OBVIOUS
<1>3. ASSUME NEW f \in F, NEW h \in F, g[f] = g[h]
      PROVE  f = h
  <2>1. Graph(f) = Graph(h)
    BY <1>3
  <2>2. ASSUME NEW x \in D
        PROVE  f[x] = h[x]
    <3>1. <<x, f[x]>> \in Graph(h)
      BY <2>1
    <3>2. QED
      BY <3>1
  <2>3. QED
    BY <2>2
<1>4. g \in Injection(F, T)
  <2> HIDE DEF F, T, g
  <2>1. QED
    BY <1>2, <1>3 DEF Injection, IsInjective
<1> HIDE DEF F, T, g
<1>5. IsFiniteSet(F)
  BY <1>1, <1>4, FS_Injection
<1>6. QED
  BY <1>5 DEF F

\* The versions of a team's cards: some choice is the best.
LEMMA SomeChoice ==
  ASSUME NEW q, ProfileCards(q), NEW n \in Nat, NEW t \in [1..n -> TeamBuilderCardPool(q)],
         NEW value, \A s \in [1..n -> TeamBuilderCardPool(q)] : value[s] \in Int
  PROVE  /\ OptimizeSkillSelection(q, value, t) # {}
         /\ \A s \in OptimizeSkillSelection(q, value, t) :
              /\ s \in [1..n -> TeamBuilderCardPool(q)]
              /\ \A i \in 1..n : s[i].id = t[i].id
<1> DEFINE pool == TeamBuilderCardPool(q)
           choices == VersionChoices(q, t)
           values == {value[s] : s \in choices}
           g == [s \in choices |-> value[s]]
<1>1. \A i \in 1..n : t[i].id \in DOMAIN q.cards
  BY BuilderPoolCards
<1>2. ASSUME NEW i \in 1..n
      PROVE  Versions2(q, t[i]) \subseteq pool /\ \A c \in Versions2(q, t[i]) : c.id = t[i].id
  <2>1. t[i].id \in DOMAIN q.cards
    BY <1>1
  <2>2. QED
    BY <2>1 DEF Versions2, TeamBuilderCardPool, Range, ProfileCards, CardOf
<1>3. ASSUME NEW s \in choices
      PROVE  s \in [1..n -> pool] /\ \A i \in 1..n : s[i].id = t[i].id
  <2>1. s \in [1..n -> UNION {Versions2(q, c) : c \in Range(t)}] /\ \A i \in 1..n : s[i] \in Versions2(q, t[i])
    BY DEF VersionChoices
  <2> HIDE DEF pool
  <2>2. \A i \in 1..n : s[i] \in pool /\ s[i].id = t[i].id
    BY <1>2, <2>1
  <2>3. QED
    BY <2>1, <2>2
<1>4. IsFiniteSet(choices)
  <2>1. IsFiniteSet([1..n -> pool])
    <3>1. IsFiniteSet(1..n)
      BY FS_Interval
    <3>2. IsFiniteSet(pool)
      BY BuilderPoolFinite
    <3> HIDE DEF pool
    <3>3. QED
      BY <3>1, <3>2, FiniteFunctions
  <2>2. choices \subseteq [1..n -> pool]
    BY <1>3
  <2> HIDE DEF choices, pool
  <2>3. QED
    BY <2>1, <2>2, FS_Subset
<1>5. g \in Surjection(choices, values)
  BY DEF Surjection
<1>6. IsFiniteSet(values)
  <2> HIDE DEF choices, values, g
  <2>1. QED
    BY <1>4, <1>5, FS_Surjection
<1>7. \A s \in choices : value[s] \in Int
  BY <1>3
<1> HIDE DEF choices, pool, g
<1>8. CASE \A s \in choices : value[s] <= value[t]
  <2>1. OptimizeSkillSelection(q, value, t) = {t}
    BY <1>8 DEF OptimizeSkillSelection, choices
  <2>2. QED
    BY <2>1 DEF pool
<1>9. CASE ~\A s \in choices : value[s] <= value[t]
  <2>1. OptimizeSkillSelection(q, value, t) = BestBy(value, choices)
    BY <1>9 DEF OptimizeSkillSelection, choices
  <2>2. values # {} /\ \A x \in values : x \in Int
    BY <1>7, <1>9
  <2>3. Max(values) \in values /\ \A x \in values : Max(values) >= x
    <3> HIDE DEF values
    <3>1. QED
      BY <1>6, <2>2, MaxOfFinite
  <2>4. PICK s \in choices : Max(values) = value[s]
    BY <2>3
  <2>5. \A x \in choices : value[x] <= value[s]
    <3>1. \A x \in choices : value[x] \in values
      OBVIOUS
    <3> HIDE DEF values
    <3>2. QED
      BY <1>7, <2>3, <2>4, <3>1
  <2>6. s \in BestBy(value, choices)
    BY <2>5 DEF BestBy
  <2>7. BestBy(value, choices) \subseteq choices
    BY DEF BestBy
  <2>8. QED
    BY <1>3, <2>1, <2>6, <2>7 DEF pool
<1>10. QED
  BY <1>8, <1>9

-----------------------------------------------------------------------------
(* What a team is expected to earn is a number.                            *)

\* A sum of integers is one.
LEMMA SumInt ==
  ASSUME NEW f, NEW S, NEW s \in Seq(S), \A c \in S : f[c] \in Int
  PROVE  Folded(SumOf(f), s) \in Int
<1>1. PICK h : Adds(h, f, s) /\ Folded(SumOf(f), s) = h[Len(s)]
  BY SumLoop
<1> DEFINE n == Len(s)
           G == {k \in 0..n : h[k] \in Int}
<1>2. n \in Nat /\ 0 \in G
  BY <1>1 DEF Adds
<1>3. ASSUME NEW k \in 1..n, k - 1 \in G
      PROVE  k \in G
  <2>1. s[k] \in S
    OBVIOUS
  <2>2. f[s[k]] \in Int /\ h[k] = h[k - 1] + f[s[k]] /\ h[k - 1] \in Int
    BY <1>1, <1>3, <2>1 DEF Adds
  <2>3. QED
    BY <2>2
<1>4. \A k \in 0..n : k \in G
  <2> HIDE DEF G, n
  <2>1. QED
    BY <1>2, <1>3, CountInduction
<1>5. QED
  BY <1>1, <1>2, <1>4

\* The sum of a sequence of values is the sum of what each is.
LEMMA ValuesInt ==
  ASSUME NEW s \in Seq(Int)
  PROVE  SumOfValues(s) \in Int /\ (s \in Seq(Nat) => SumOfValues(s) \in Nat)
<1> DEFINE f == [x \in Int |-> x]
           D == DOMAIN s
           Entry(g, T) == IF T = {} THEN 0 ELSE g[T \ {Max(T)}] + s[Max(T)]
           P(g) == g = [T \in SUBSET D |-> Entry(g, T)]
           how == SumOf(f)
           Other(g, T) == IF T = {} THEN Start(how) ELSE Taken(how, g[T \ {Max(T)}], s[Max(T)])
<1>1. D = 1..Len(s) /\ Len(s) \in Nat
  OBVIOUS
<1>2. ASSUME NEW g, NEW T \in SUBSET D
      PROVE  Entry(g, T) = Other(g, T)
  <2>1. CASE T = {}
    BY <2>1 DEF SumOf, Start
  <2>2. CASE T # {}
    <3>1. Max(T) \in 1..Len(s)
      BY <1>1, <2>2, MaxOfPositions
    <3>2. s[Max(T)] \in Int
      BY <3>1
    <3>3. f[s[Max(T)]] = s[Max(T)]
      BY <3>2
    <3>4. how.loop = "sum" /\ how.by = f
      BY DEF SumOf
    <3> HIDE DEF how
    <3>5. QED
      BY <2>2, <3>3, <3>4 DEF Taken
  <2>3. QED
    BY <2>1, <2>2
<1>3. \A g : P(g) <=> Builds(g, how, s, D)
  <2> TAKE g
  <2>1. [T \in SUBSET D |-> Entry(g, T)] = [T \in SUBSET D |-> Other(g, T)]
    <3> HIDE DEF Entry, Other
    <3>1. QED
      BY <1>2
  <2>2. QED
    BY <2>1 DEF Builds
<1>4. SumOfValues(s) = (CHOOSE g : P(g))[D]
  BY DEF SumOfValues, FoldLeft, MapThenFoldSet
<1>5. (CHOOSE g : P(g)) = (CHOOSE g : Builds(g, how, s, D))
  <2> HIDE DEF P, how, D
  <2>1. QED
    BY <1>3
<1>6. SumOfValues(s) = Folded(SumOf(f), s)
  BY <1>4, <1>5 DEF Folded
<1>7. Folded(SumOf(f), s) \in Int
  <2>1. \A x \in Int : f[x] \in Int
    OBVIOUS
  <2> HIDE DEF f
  <2>2. QED
    BY <2>1, SumInt
<1>8. ASSUME s \in Seq(Nat)
      PROVE  Folded(SumOf(f), s) \in Nat
  <2>1. \A x \in Nat : f[x] \in Nat
    OBVIOUS
  <2> HIDE DEF f
  <2>2. QED
    BY <1>8, <2>1, SumNat
<1>9. QED
  BY <1>6, <1>7, <1>8

\* The mean over a finite set of natural numbers is one.
LEMMA MeanNat ==
  ASSUME NEW f, IsFiniteSet(DOMAIN f), DOMAIN f # {}, \A s \in DOMAIN f : f[s] \in Nat
  PROVE  MeanOf(f) \in Nat
<1>1. MeanOf(f) = SetSum(f, DOMAIN f) \div Cardinality(DOMAIN f)
  BY DEF MeanOf, MapThenSumSet, MapThenFoldSet, SetSum, Sums, Chosen
<1>2. SetSum(f, DOMAIN f) \in Nat
  BY SetSumNat
<1>3. Cardinality(DOMAIN f) \in Nat /\ Cardinality(DOMAIN f) # 0
  BY FS_CardinalityType, FS_EmptySet
<1>4. \A x \in Nat : \A d \in Nat \ {0} : x \div d \in Nat
  OBVIOUS
<1>5. QED
  BY <1>1, <1>2, <1>3, <1>4

\* The parameters of an estimator are natural numbers.
SoundEstimator(e) == e.a \in Nat \ {0} /\ e.b \in Nat \ {0} /\ e.c \in Nat /\ e.d \in Nat

LEMMA EstimatorSound ==
  ASSUME NEW m \in {"multi", "cheerful"}
  PROVE  SoundEstimator(EstimatorFor[m])
<1> DEFINE songs == {s \in Songs : s.difficulty = "expert"}
           e == MakeEstimator(m, songs)
           f1 == [s \in songs |-> s.eventRate]
           f2 == [s \in songs |-> s.eventRate * BaseScore(m, s)]
           f3 == [s \in songs |-> s.eventRate * SumOfValues(Front(SkillScores(m, s)))]
           f4 == [s \in songs |-> s.eventRate * Last(SkillScores(m, s))]
<1>1. EstimatorFor[m] = e
  BY DEF EstimatorFor, RandomExEstimator
<1>2. IsFiniteSet(songs) /\ songs # {}
  BY SongsAssumption, FS_Subset
<1>3. ASSUME NEW s \in songs
      PROVE  /\ s.eventRate \in Nat /\ BaseScore(m, s) \in Nat
             /\ SumOfValues(Front(SkillScores(m, s))) \in Nat /\ Last(SkillScores(m, s)) \in Nat
  <2>1. s.eventRate \in Nat /\ BaseScore(m, s) = s.base + s.fever /\ s.base \in Nat /\ s.fever \in Nat
    BY SongsAssumption DEF BaseScore
  <2>2. SkillScores(m, s) = s.skillMulti
    BY DEF SkillScores
  <2>3. s.skillMulti \in Seq(Nat) /\ s.skillMulti # <<>>
    BY SongsAssumption
  <2>4. Front(s.skillMulti) \in Seq(Nat)
    <3> DEFINE t == s.skillMulti
    <3>1. t \in Seq(Nat) /\ Len(t) \in Nat /\ Len(t) # 0
      BY <2>3
    <3> HIDE DEF t
    <3>2. SubSeq(t, 1, Len(t) - 1) \in Seq(Nat)
      BY <3>1
    <3>3. QED
      BY <3>2 DEF Front, t
  <2>5. Last(s.skillMulti) \in Nat
    BY <2>3 DEF Last
  <2>6. QED
    BY <2>1, <2>2, <2>4, <2>5, ValuesInt
<1> HIDE DEF songs
<1>4. \A f \in {f1, f2, f3, f4} : DOMAIN f = songs /\ \A s \in songs : f[s] \in Nat
  <2>1. DOMAIN f1 = songs /\ \A s \in songs : f1[s] \in Nat
    BY <1>3
  <2>2. DOMAIN f2 = songs /\ \A s \in songs : f2[s] \in Nat
    <3>1. \A s \in songs : s.eventRate * BaseScore(m, s) \in Nat
      BY <1>3
    <3>2. QED
      BY <3>1
  <2>3. DOMAIN f3 = songs /\ \A s \in songs : f3[s] \in Nat
    <3>1. ASSUME NEW s \in songs PROVE s.eventRate * SumOfValues(Front(SkillScores(m, s))) \in Nat
      <4> DEFINE x == SumOfValues(Front(SkillScores(m, s)))
      <4>1. x \in Nat /\ s.eventRate \in Nat
        BY <1>3
      <4> HIDE DEF x
      <4>2. s.eventRate * x \in Nat
        BY <4>1
      <4>3. QED
        BY <4>2 DEF x
    <3>2. QED
      BY <3>1
  <2>4. DOMAIN f4 = songs /\ \A s \in songs : f4[s] \in Nat
    <3>1. ASSUME NEW s \in songs PROVE s.eventRate * Last(SkillScores(m, s)) \in Nat
      <4> DEFINE x == Last(SkillScores(m, s))
      <4>1. x \in Nat /\ s.eventRate \in Nat
        BY <1>3
      <4> HIDE DEF x
      <4>2. s.eventRate * x \in Nat
        BY <4>1
      <4>3. QED
        BY <4>2 DEF x
    <3>2. QED
      BY <3>1
  <2> HIDE DEF f1, f2, f3, f4
  <2>5. QED
    BY <2>1, <2>2, <2>3, <2>4
<1>5. e = [a |-> (ScoreFactor(m) * LifeFactor(m) * MeanOf(f1)) \div 100,
           b |-> PerPower(m, MeanOf(f2)), c |-> PerPower(m, MeanOf(f3)), d |-> PerPower(m, MeanOf(f4))]
  BY DEF MakeEstimator
<1> HIDE DEF f1, f2, f3, f4, e
<1>6. MeanOf(f1) \in Nat /\ MeanOf(f2) \in Nat /\ MeanOf(f3) \in Nat /\ MeanOf(f4) \in Nat
  <2>1. \A f \in {f1, f2, f3, f4} : MeanOf(f) \in Nat
    BY <1>2, <1>4, MeanNat
  <2>2. QED
    BY <2>1
<1>7. ScoreFactor(m) \in Nat /\ LifeFactor(m) \in Nat /\ EpFactor[m] \in Nat \ {0}
  BY SongsAssumption DEF ScoreFactor, LifeFactor, Modes
<1>8. ASSUME NEW x \in Nat
      PROVE  PerPower(m, x) \in Nat
  <2> DEFINE y == 4 * LifeFactor(m) * x
             d == EpFactor[m]
  <2>1. y \in Nat /\ d \in Nat \ {0}
    BY <1>7
  <2> HIDE DEF y, d
  <2>2. y \div d \in Nat
    BY <2>1
  <2>3. QED
    BY <2>2 DEF PerPower, y, d
<1>9. (ScoreFactor(m) * LifeFactor(m) * MeanOf(f1)) \div 100 \in Nat
  <2> DEFINE y == ScoreFactor(m) * LifeFactor(m) * MeanOf(f1)
  <2>1. y \in Nat
    BY <1>6, <1>7
  <2> HIDE DEF y
  <2>2. y \div 100 \in Nat
    BY <2>1
  <2>3. QED
    BY <2>2 DEF y
<1>10. e.a \in Nat /\ e.b \in Nat /\ e.c \in Nat /\ e.d \in Nat
  BY <1>5, <1>6, <1>8, <1>9
<1>11. EstimatorFor[m].a > 0 /\ EstimatorFor[m].b > 0
  BY EstimatorAssumption
<1>12. QED
  BY <1>1, <1>10, <1>11 DEF SoundEstimator

\* The points are a number whenever power, bonus and skill are.
LEMMA PointsInt ==
  ASSUME NEW e, e.a \in Int, e.b \in Int, e.c \in Int, e.d \in Int,
         NEW power \in Int, NEW eb \in Int, NEW skill \in Int
  PROVE  ExpectedEp(e, power, eb, skill, skill) \in Int
<1> DEFINE k == Shared(skill)
           rate == 500 * e.b + k * e.c + k * e.d
           n == 500 * e.a + power * rate
           q == 10000 + eb
<1>1. k \in Int
  <2>1. ThirdPartySkill \in Int
    BY SongsAssumption
  <2>2. QED
    BY <2>1 DEF Shared
<1> HIDE DEF k
<1>2. rate \in Int
  BY <1>1
<1>3. RatePerPower(e, k, k) = rate
  BY DEF RatePerPower
<1> HIDE DEF rate
<1>4. n \in Int /\ q \in Int
  BY <1>2
<1>5. EpAt(e, power, eb, k, k) = MulDiv(n, q, 10000)
  BY <1>3 DEF EpAt
<1> HIDE DEF n, q
<1>6. MulDiv(n, q, 10000) \in Int
  <2>1. n \div 10000 \in Int /\ n % 10000 \in Int
    BY <1>4
  <2> DEFINE u == n \div 10000
             v == n % 10000
  <2>2. u \in Int /\ v \in Int
    BY <2>1
  <2>3. MulDiv(n, q, 10000) = u * q + (v * q) \div 10000
    BY DEF MulDiv
  <2> HIDE DEF u, v
  <2> DEFINE w == v * q
  <2>4. w \in Int /\ u * q \in Int
    BY <1>4, <2>2
  <2> HIDE DEF w
  <2>5. w \div 10000 \in Int
    BY <2>4
  <2>6. QED
    BY <2>3, <2>4, <2>5 DEF w
<1>7. QED
  BY <1>5, <1>6 DEF ExpectedEp, k

\* What a skill is made of: numbers, and one of five kinds of extra value.
Kinds == {"sub_unit", "unit_count", "character_rank", "reference", "plain"}
SoundSkill(k) ==
  /\ k.value \in Int /\ k.level \in 1..kSkillLevelMax /\ k.rank \in Int
  /\ k.extra.kind \in Kinds /\ k.extra.enhance \in Int /\ k.extra.cap \in Int

\* A skill's own value is the greatest of finitely many.
LEMMA OwnValueInt ==
  ASSUME NEW skill \in DOMAIN SkillTable, NEW level \in 1..kSkillLevelMax
  PROVE  GetMaxSkill(SkillTable[skill], level) \in Int
<1> DEFINE effects == SkillTable[skill]
           own == {f \in effects : f.type \in kScoreUpTypes}
           values == {e.value[level] : e \in own}
           all == {0} \cup values
<1>1. IsFiniteSet(own) /\ \A e \in own : e.value[level] \in Int
  BY SkillDataAssumption, FS_Subset
<1>2. [e \in own |-> e.value[level]] \in Surjection(own, values)
  BY DEF Surjection
<1>3. IsFiniteSet(values)
  <2> HIDE DEF own, values
  <2>1. QED
    BY <1>1, <1>2, FS_Surjection
<1>4. \A x \in all : x \in Int
  BY <1>1
<1>5. IsFiniteSet(all) /\ all # {}
  <2> HIDE DEF values
  <2>1. all = values \cup {0}
    OBVIOUS
  <2>2. QED
    BY <1>3, <2>1, FS_AddElement
<1>6. GetMaxSkill(effects, level) = Max(all)
  BY DEF GetMaxSkill
<1> HIDE DEF all
<1>7. QED
  BY <1>4, <1>5, <1>6, MaxOfFinite

\* What the effects add.
LEMMA ExtraSound ==
  ASSUME NEW skill \in DOMAIN SkillTable, NEW level \in 1..kSkillLevelMax
  PROVE  LET extra == Enhancement(SkillTable[skill], level)
         IN extra.kind \in Kinds /\ extra.enhance \in Int /\ extra.cap \in Int
<1> DEFINE effects == SkillTable[skill]
           subUnit == {e \in effects : e.unit # "NONE"}
           Of(type) == {e \in effects \ subUnit : e.type = type}
           Extra(kind, e, rate) == [kind |-> kind, unit |-> e.unit, enhance |-> rate, cap |-> e.cap[level]]
           First(S) == CHOOSE e \in S : TRUE
           ByLevel(type) == Extra(type, First(Of(type)), First(Of(type)).value[level])
           extra == Enhancement(effects, level)
           Fine(x) == x.kind \in Kinds /\ x.enhance \in Int /\ x.cap \in Int
<1>1. \A e \in effects : e.enhance \in Int /\ e.value[level] \in Int /\ e.cap[level] \in Int
  BY SkillDataAssumption
<1>2. extra = IF subUnit # {} THEN Extra("sub_unit", First(subUnit), First(subUnit).enhance)
              ELSE IF Of("unit_count") # {} THEN ByLevel("unit_count")
              ELSE IF Of("character_rank") # {} THEN ByLevel("character_rank")
              ELSE IF Of("reference") # {} THEN ByLevel("reference")
              ELSE [kind |-> "plain", unit |-> "NONE", enhance |-> 0, cap |-> 0]
  BY DEF Enhancement
<1>3. \A S \in SUBSET effects : S # {} => First(S) \in effects
  OBVIOUS
<1>4. subUnit # {} => Fine(Extra("sub_unit", First(subUnit), First(subUnit).enhance))
  <2> SUFFICES ASSUME subUnit # {} PROVE Fine(Extra("sub_unit", First(subUnit), First(subUnit).enhance))
    OBVIOUS
  <2>1. First(subUnit) \in effects
    BY <1>3
  <2> HIDE DEF First, effects, subUnit
  <2>2. QED
    BY <1>1, <2>1 DEF Kinds
<1>5. ASSUME NEW type \in Kinds, Of(type) # {}
      PROVE  Fine(ByLevel(type))
  <2>1. First(Of(type)) \in effects
    BY <1>3, <1>5
  <2> HIDE DEF First, effects, Of
  <2>2. QED
    BY <1>1, <2>1
<1>6. Fine([kind |-> "plain", unit |-> "NONE", enhance |-> 0, cap |-> 0])
  BY DEF Kinds
<1>7. {"unit_count", "character_rank", "reference"} \subseteq Kinds
  BY DEF Kinds
<1>8. Fine(extra)
  <2> HIDE DEF Extra, ByLevel, Fine, Of, subUnit, extra
  <2>1. QED
    BY <1>2, <1>4, <1>5, <1>6, <1>7
<1>9. QED
  BY <1>8

\* The cards of a profile have such skills.
LEMMA SkillMade ==
  ASSUME NEW p, Loadable(p), NEW b, NEW id \in DOMAIN p.cards \cap CardIds, NEW second \in BOOLEAN,
         second => HasSecondarySkill(id, p.cards[id])
  PROVE  SoundSkill(CardIn(id, p, second, b).skill)
<1> DEFINE st == p.cards[id]
           name == IF second THEN CardTable[id].trainedSkill ELSE CardTable[id].skill
           level == st.skillLevel
           char == CardTable[id].char
           c == NewCard(id, st, second)
           rates == ProfileBonus(p)
           d == WithPower(c, char, rates)
           own == NewSkill(name, level)
           skill == ApplyCharacterRank(own, rates.rank[char])
<1>1. name \in DOMAIN SkillTable
  BY SkillDataAssumption DEF HasSecondarySkill
<1>2. level \in 1..kSkillLevelMax
  BY DEF Loadable, Rated
<1>3. rates.rank[char] \in Nat
  <2>1. rates.rank = p.ranks
    BY DEF ProfileBonus, BonusOf
  <2>2. char \in Chars
    BY EventDataAssumption DEF Cells
  <2>3. QED
    BY <2>1, <2>2 DEF Loadable
<1>4. c.skill = own /\ "skill" \in DOMAIN c /\ c.id = id
  BY Zenon DEF NewCard
<1> HIDE DEF rates
<1>5. d.skill = skill /\ "skill" \in DOMAIN d
  <2> HIDE DEF own
  <2>1. d.skill = ApplyCharacterRank(c.skill, rates.rank[char]) /\ "skill" \in DOMAIN d
    <3>1. "skill" \in DOMAIN c
      BY <1>4
    <3> HIDE DEF c, char
    <3>2. QED
      BY <3>1, Zenon DEF WithPower
  <2>2. QED
    BY <1>4, <2>1
<1>6. CardIn(id, p, second, b).skill = d.skill
  <2>1. CardIn(id, p, second, b) = ApplyToCard(d, b)
    BY <1>4 DEF CardIn, ApplyProfilePowerBonus, rates
  <2> HIDE DEF d
  <2>2. ApplyToCard(d, b).skill = d.skill
    BY <1>5 DEF ApplyToCard
  <2>3. QED
    BY <2>1, <2>2
<1>7. SoundSkill(skill)
  <2>1. GetMaxSkill(SkillTable[name], level) \in Int
    BY <1>1, <1>2, OwnValueInt
  <2> DEFINE extra == Enhancement(SkillTable[name], level)
  <2>2. extra.kind \in Kinds /\ extra.enhance \in Int /\ extra.cap \in Int
    BY <1>1, <1>2, ExtraSound
  <2>3. RankSteps(rates.rank[char]) \in Int
    BY <1>3 DEF RankSteps, Lesser, kMaxBonusCharacterRank, kBonusCharacterRankStep
  <2> HIDE DEF name, level, extra
  <2>4. own = [value |-> GetMaxSkill(SkillTable[name], level), level |-> level, rank |-> 0, extra |-> extra]
    BY DEF NewSkill, extra
  <2> HIDE DEF own
  <2>5. /\ skill.value = GetMaxSkill(SkillTable[name], level) /\ skill.level = level
        /\ skill.rank = RankSteps(rates.rank[char]) /\ skill.extra = extra
    BY <2>4 DEF ApplyCharacterRank
  <2> HIDE DEF skill
  <2>6. QED
    BY <1>2, <2>1, <2>2, <2>3, <2>5 DEF SoundSkill, level
<1>8. QED
  BY <1>5, <1>6, <1>7

\* Sums over positions of a team.
LEMMA AverageInt ==
  ASSUME NEW n \in Nat, NEW cards, DOMAIN cards = 1..n, Len(cards) = n,
         \A j \in 1..n : SoundSkill(cards[j].skill), NEW i \in 1..n
  PROVE  ReferenceAverage(cards, i) \in Int
<1> DEFINE cap == kReferenceScoreBoostCaps[cards[i].skill.level]
           S == DOMAIN cards \ {i}
           f == [j \in S |-> Lesser(cap, MaxSkillValueOf(cards[j].skill))]
           Entry(g, T) == IF T = {} THEN 0
                          ELSE Lesser(cap, MaxSkillValueOf(cards[Chosen(T)].skill)) + g[T \ {Chosen(T)}]
           Other(g, T) == IF T = {} THEN 0 ELSE f[Chosen(T)] + g[T \ {Chosen(T)}]
           P(g) == g = [T \in SUBSET S |-> Entry(g, T)]
           sum == (CHOOSE g : P(g))[S]
<1>1. ASSUME NEW g, NEW T \in SUBSET S
      PROVE  Entry(g, T) = Other(g, T)
  BY ChosenIn
<1>2. \A g : P(g) <=> Sums(g, f, S)
  <2> TAKE g
  <2>1. [T \in SUBSET S |-> Entry(g, T)] = [T \in SUBSET S |-> Other(g, T)]
    <3> HIDE DEF Entry, Other
    <3>1. QED
      BY <1>1
  <2>2. QED
    BY <2>1 DEF Sums
<1>3. ReferenceAverage(cards, i) = IF Len(cards) > 1 THEN sum \div (Len(cards) - 1) ELSE 0
  BY DEF ReferenceAverage, MapThenSumSet, MapThenFoldSet, Chosen
<1>4. (CHOOSE g : P(g)) = (CHOOSE g : Sums(g, f, S))
  <2> HIDE DEF P
  <2>1. QED
    BY <1>2
<1>5. sum = SetSum(f, S)
  BY <1>4 DEF SetSum
<1>6. cap \in Int
  <2>1. cards[i].skill.level \in 1..4
    BY DEF SoundSkill, kSkillLevelMax
  <2>2. QED
    BY <2>1 DEF kReferenceScoreBoostCaps
<1>7. ASSUME NEW j \in 1..n
      PROVE  MaxSkillValueOf(cards[j].skill) \in Int
  <2> DEFINE k == cards[j].skill
             x == k.extra
  <2>1. SoundSkill(k)
    OBVIOUS
  <2> HIDE DEF k
  <2>2. k.value \in Int /\ x.kind \in Kinds /\ x.enhance \in Int /\ x.cap \in Int /\ TeamSize \in Int
    BY <2>1, EventDataAssumption DEF SoundSkill
  <2>3. RankSteps(kMaxBonusCharacterRank) \in Int
    BY DEF RankSteps, Lesser, kMaxBonusCharacterRank, kBonusCharacterRankStep
  <2>4. TeamSize * x.enhance \in Int /\ kMaxUnitCount * x.enhance \in Int
        /\ RankSteps(kMaxBonusCharacterRank) * x.enhance \in Int
    <3> DEFINE r == RankSteps(kMaxBonusCharacterRank)
    <3>1. r \in Int
      BY <2>3
    <3> HIDE DEF r, x
    <3>2. r * x.enhance \in Int
      BY <2>2, <3>1
    <3>3. QED
      BY <2>2, <3>2 DEF kMaxUnitCount, r
  <2>5. MaxSkillValueOf(k)
          = k.value + CASE x.kind = "sub_unit" -> TeamSize * x.enhance
                        [] x.kind = "unit_count" -> kMaxUnitCount * x.enhance
                        [] x.kind = "character_rank" -> RankSteps(kMaxBonusCharacterRank) * x.enhance
                        [] x.kind = "reference" -> x.cap
                        [] x.kind = "plain" -> 0
    BY DEF MaxSkillValueOf
  <2>6. MaxSkillValueOf(k) \in Int
    <3> DEFINE ofUnit == TeamSize * x.enhance
               ofUnits == kMaxUnitCount * x.enhance
               ofRank == RankSteps(kMaxBonusCharacterRank) * x.enhance
               kind == x.kind
               limit == x.cap
               own == k.value
    <3>1. /\ ofUnit \in Int /\ ofUnits \in Int /\ ofRank \in Int /\ limit \in Int /\ own \in Int
          /\ kind \in Kinds
      BY <2>2, <2>4
    <3>2. MaxSkillValueOf(k) = own + CASE kind = "sub_unit" -> ofUnit
                                       [] kind = "unit_count" -> ofUnits
                                       [] kind = "character_rank" -> ofRank
                                       [] kind = "reference" -> limit
                                       [] kind = "plain" -> 0
      BY <2>5
    <3> HIDE DEF ofUnit, ofUnits, ofRank, kind, limit, own
    <3>3. QED
      BY <3>1, <3>2 DEF Kinds
  <2>7. QED
    BY <2>6 DEF k
<1>8. IsFiniteSet(S)
  BY FS_Interval, FS_Subset
<1>9. \A j \in S : f[j] \in Int
  <2>1. \A j \in S : f[j] = Lesser(cap, MaxSkillValueOf(cards[j].skill))
    OBVIOUS
  <2> HIDE DEF f, cap
  <2>2. QED
    BY <1>6, <1>7, <2>1 DEF Lesser
<1>10. sum \in Int
  <2> HIDE DEF f, S, sum
  <2>1. QED
    BY <1>5, <1>8, <1>9, SetSumInt
<1> HIDE DEF sum
<1>11. QED
  BY <1>3, <1>10

\* The skill of a team is a number.
LEMMA SkillInt ==
  ASSUME NEW n \in Nat \ {0}, NEW pool, \A c \in pool : SoundSkill(c.skill),
         NEW cards \in [1..n -> pool], NEW wl
  PROVE  Percent(SkillValue(Team(cards, wl))) \in Int
<1>1. DOMAIN cards = 1..n /\ Len(cards) = n /\ cards # <<>> /\ IsFiniteSet(1..n)
  BY FS_Interval
<1>2. \A j \in 1..n : SoundSkill(cards[j].skill)
  OBVIOUS
<1>3. ASSUME NEW i \in 1..n
      PROVE  SkillContrib(cards, i) \in Int
  <2> DEFINE k == cards[i].skill
             x == k.extra
             count == CharacterCount(cards, k.extra.unit)
             units == UnitsPresent(cards)
             average == ReferenceAverage(cards, i)
             factor == IF count = TeamSize THEN TeamSize ELSE count - 1
             capped == Lesser(units - 1, kMaxUnitCount)
             share == average * x.enhance
  <2>1. SoundSkill(k)
    BY <1>2
  <2>2. count \in Int
    <3> DEFINE of == {j \in DOMAIN cards : PrimaryUnit(cards[j].id) = k.extra.unit}
    <3>1. IsFiniteSet(of)
      BY <1>1, FS_Subset
    <3> HIDE DEF of
    <3>2. Cardinality(of) \in Nat
      BY <3>1, FS_CardinalityType
    <3>3. QED
      BY <3>2 DEF CharacterCount, of
  <2>3. units \in Int
    <3> DEFINE all == {PrimaryUnit(c.id) : c \in Range(cards)}
               g == [j \in 1..n |-> PrimaryUnit(cards[j].id)]
    <3>1. g \in Surjection(1..n, all)
      BY <1>1 DEF Surjection, Range
    <3> HIDE DEF all, g
    <3>2. IsFiniteSet(all)
      BY <1>1, <3>1, FS_Surjection
    <3>3. Cardinality(all) \in Nat
      BY <3>2, FS_CardinalityType
    <3>4. QED
      BY <3>3 DEF UnitsPresent, all
  <2>4. average \in Int
    BY <1>1, <1>2, AverageInt
  <2>5. SkillContrib(cards, i) = SkillValueIn(k, count, units, average)
    BY DEF SkillContrib
  <2> HIDE DEF k, count, units, average
  <2>6. k.value \in Int /\ k.rank \in Int /\ x.kind \in Kinds /\ x.enhance \in Int /\ TeamSize \in Int
    BY <2>1, EventDataAssumption DEF SoundSkill
  <2>7. factor \in Int /\ capped \in Int /\ share \in Int
    BY <2>2, <2>3, <2>4, <2>6 DEF Lesser, kMaxUnitCount
  <2>8. SkillValueIn(k, count, units, average)
          = k.value + CASE x.kind = "sub_unit" -> factor * x.enhance
                        [] x.kind = "unit_count" -> x.enhance * capped
                        [] x.kind = "character_rank" -> k.rank * x.enhance
                        [] x.kind = "reference" -> share \div 10000
                        [] x.kind = "plain" -> 0
    BY DEF SkillValueIn
  <2> HIDE DEF x, factor, capped, share
  <2>9. factor * x.enhance \in Int /\ x.enhance * capped \in Int /\ k.rank * x.enhance \in Int
        /\ share \div 10000 \in Int
    BY <2>6, <2>7
  <2>10. SkillValueIn(k, count, units, average) \in Int
    BY <2>6, <2>8, <2>9 DEF Kinds
  <2>11. QED
    BY <2>5, <2>10
<1> DEFINE values == GetSkillValues(cards)
           lead == SkillContrib(cards, 1)
           total == SumOfValues(values)
<1>4. values \in Seq(Int)
  <2>1. values \in [1..n -> Int]
    BY <1>1, <1>3 DEF GetSkillValues
  <2> HIDE DEF values
  <2>2. QED
    BY <2>1
<1>5. lead \in Int /\ total \in Int
  BY <1>3, <1>4, ValuesInt
<1>6. SkillValue(Team(cards, wl)) = 5 * lead + (total - lead)
  BY <1>1 DEF SkillValue, Team, LedBy, Fifths
<1> HIDE DEF lead, total
<1>7. QED
  BY <1>5, <1>6 DEF Percent

\* The power of cards of the page is a natural number.
LEMMA CardsPowerNat ==
  ASSUME NEW pool, NEW q, PoolPower(pool, q.bonus), PowerRates(q.bonus),
         NEW n \in Nat, NEW cards \in [1..n -> pool], NEW wl
  PROVE  Power(Team(cards, wl), q) \in Nat
<1> DEFINE m == MatchOf(cards)
           f == [c \in pool |-> c.power[m]]
<1>1. m \in Matches
  BY DEF MatchOf, Matches, Same
<1> HIDE DEF m
<1>2. \A c \in pool : f[c] = c.power[m] /\ f[c] \in Nat
  <2>1. \A c \in pool : c.power[m] \in Nat
    BY <1>1, PoolNat
  <2>2. QED
    BY <2>1
<1>3. cards \in Seq(pool)
  OBVIOUS
<1> HIDE DEF f
<1>4. PowerUnder(cards, m) = Folded(SumOf(f), cards)
  BY <1>2, <1>3, PowerLoop
<1>5. Folded(SumOf(f), cards) \in Nat
  BY <1>2, <1>3, SumNat
<1>6. Power(Team(cards, wl), q) = Capped(q.bonus.bonusPower + PowerUnder(cards, m), CapOf(wl))
  BY DEF Power, Team, m
<1>7. q.bonus.bonusPower \in Nat
  BY DEF PowerRates
<1> DEFINE sum == q.bonus.bonusPower + PowerUnder(cards, m)
<1>8. sum \in Nat
  BY <1>4, <1>5, <1>7
<1> HIDE DEF sum
<1>9. Capped(sum, CapOf(wl)) \in Nat
  <2>1. CapOf(wl) \in Nat
    BY EventDataAssumption DEF CapOf, NoCap
  <2>2. QED
    BY <1>8, <2>1 DEF Capped, Lesser, NoCap
<1>10. QED
  BY <1>6, <1>9 DEF sum

\* What a team of the pool is expected to earn.
LEMMA ExpectedInt ==
  ASSUME NEW p, Loadable(p), NEW b, BonusRates(b), NEW q, q = ApplyEventBonus(NewProfile(p), b),
         NEW m \in {"multi", "cheerful"}, NEW wl,
         NEW cards \in [1..TeamSize -> TeamBuilderCardPool(q)]
  PROVE  ExpectedValue(EstimatorFor[m], q, b, Team(cards, wl)) \in Int
<1> DEFINE e == EstimatorFor[m]
           team == Team(cards, wl)
           pool == TeamBuilderCardPool(q)
           n == TeamSize
<1>1. e.a \in Int /\ e.b \in Int /\ e.c \in Int /\ e.d \in Int
  BY EstimatorSound DEF SoundEstimator
<1>2. n \in Nat \ {0}
  BY EventDataAssumption
<1>3. ProfileCards(q)
  BY ProfileMade
<1>4. PowersOf(q, p)
  BY PowersMade
<1>5. PowerRates(q.bonus)
  <2>1. q.bonus = ProfileBonus(p)
    BY <1>4 DEF PowersOf
  <2>2. QED
    BY <2>1, RatesMade DEF Loadable
<1>6. PoolPower(pool, q.bonus)
  BY <1>3, <1>4, PoolHasPower
<1>7. TeamEventBonus(team, b) \in Int
  <2>1. TeamEventBonus(team, b) \in Nat
    BY <1>3, CardsBonusNat
  <2>2. QED
    BY <2>1
<1>8. \A c \in pool : SoundSkill(c.skill)
  <2> SUFFICES ASSUME NEW c \in pool PROVE SoundSkill(c.skill)
    OBVIOUS
  <2>1. PICK id \in DOMAIN p.cards \cap CardIds : \E second \in BOOLEAN :
          /\ second => HasSecondarySkill(id, p.cards[id])
          /\ c = CardIn(id, p, second, b)
    BY PoolMade
  <2>2. PICK second \in BOOLEAN :
          /\ second => HasSecondarySkill(id, p.cards[id])
          /\ c = CardIn(id, p, second, b)
    BY <2>1
  <2>3. QED
    BY <2>2, SkillMade
<1> HIDE DEF pool, n
<1>9. cards \in [1..n -> pool]
  BY DEF pool, n
<1>10. Power(team, q) \in Int
  <2>1. Power(team, q) \in Nat
    BY <1>2, <1>5, <1>6, <1>9, CardsPowerNat
  <2>2. QED
    BY <2>1
<1>11. Percent(SkillValue(team)) \in Int
  BY <1>2, <1>8, <1>9, SkillInt
<1> HIDE DEF e, team
<1>12. ExpectedEp(e, Power(team, q), TeamEventBonus(team, b),
                  Percent(SkillValue(team)), Percent(SkillValue(team))) \in Int
  BY <1>1, <1>7, <1>10, <1>11, PointsInt
<1>13. QED
  BY <1>12 DEF ExpectedValue, EpOfTeam, e, team

-----------------------------------------------------------------------------
(* The invariant: the profile is the one made from the saved data, and an  *)
(* answer of the max power builder is one it may give.                     *)

ProfileInStep == profile = ApplyEventBonus(NewProfile(proto), eventBonus)
AnswerIsMaxPower ==
  answer.by = "max_power" =>
    /\ answer.con \in Asked
    /\ answer.cards \in MaxPowerAnswers(answer.con) \/ MaxPowerAnswers(answer.con) = {}
ModeKnown == mode \in {"multi", "cheerful"}
PlanInv == PageInv /\ ProfileInStep /\ ModeKnown /\ AnswerIsMaxPower

LEMMA InitPlan ==
  ASSUME Init
  PROVE  PlanInv
<1>1. ProfileInStep
  BY DEF Init, ProfileInStep
<1>2. AnswerIsMaxPower
  BY DEF Init, NoAnswer, AnswerIsMaxPower
<1>3. ModeKnown
  BY DEF Init, ModeFor, ModeKnown
<1>4. QED
  BY <1>1, <1>2, <1>3, InitPage DEF PlanInv

\* What the max power builder would answer is decided by the page.
LEMMA SameMaxPowerAnswers ==
  ASSUME UNCHANGED page, NEW con
  PROVE  MaxPowerAnswers(con)' = MaxPowerAnswers(con)
BY DEF page, MaxPowerAnswers, Estimate, BuilderPool, WorldBloomRules

\* Every step: an edit makes the profile anew and drops the answer; a build leaves the page alone.
LEMMA PlanStep ==
  ASSUME PlanInv, [Next]_vars
  PROVE  PlanInv'
<1>1. PageInv'
  BY PageStep DEF PlanInv
<1>2. CASE Edit
  <2>1. PICK p, oldMode : Loadable(p) /\ UpdateProfile(p, oldMode)
    BY <1>2, EditSaves DEF PlanInv, PageInv
  <2>2. /\ proto' = p /\ profile' = ApplyEventBonus(NewProfile(p), eventBonus') /\ answer' = NoAnswer
    BY <2>1 DEF UpdateProfile
  <2>3. ProfileInStep'
    BY <2>2 DEF ProfileInStep
  <2>4. AnswerIsMaxPower'
    BY <2>2 DEF NoAnswer, AnswerIsMaxPower
  <2>5. ModeKnown'
    <3>1. PICK r : \E kept \in {"multi", mode} : UpdateProfile(r, kept)
      BY <1>2, EditUpdates
    <3>2. PICK kept \in {"multi", mode} : UpdateProfile(r, kept)
      BY <3>1
    <3>3. mode' = ModeFor(r, kept) /\ kept \in {"multi", "cheerful"}
      BY <3>2 DEF UpdateProfile, PlanInv, ModeKnown
    <3>4. QED
      BY <3>3 DEF ModeFor, ModeKnown
  <2>6. QED
    BY <1>1, <2>3, <2>4, <2>5 DEF PlanInv
<1>3. CASE Build
  <2>1. UNCHANGED page
    BY <1>3, BuildKeepsPage
  <2>2. ProfileInStep'
    BY <2>1 DEF page, ProfileInStep, PlanInv
  <2>3. ASSUME NEW con \in Asked, BuildMaxPower(con)
        PROVE  AnswerIsMaxPower'
    <3>1. answer'.con = con
      BY <2>3 DEF BuildMaxPower, AnswersOneOf, Answers
    <3>2. answer'.cards \in MaxPowerAnswers(con) \/ MaxPowerAnswers(con) = {}
      BY <2>3 DEF BuildMaxPower, AnswersOneOf, Answers
    <3>3. MaxPowerAnswers(con)' = MaxPowerAnswers(con)
      BY <2>1, SameMaxPowerAnswers
    <3>4. MaxPowerAnswers(answer.con)' = MaxPowerAnswers(con)'
      BY <3>1
    <3>5. QED
      BY <2>3, <3>1, <3>2, <3>3, <3>4 DEF AnswerIsMaxPower
  <2>4. ASSUME answer'.by # "max_power"
        PROVE  AnswerIsMaxPower'
    BY <2>4 DEF AnswerIsMaxPower
  <2>5. ASSUME NEW con, BuildMaxBonus(con)
        PROVE  answer'.by # "max_power"
    BY <2>5 DEF BuildMaxBonus, AnswersOneOf, Answers
  <2>6. ASSUME NEW asked \in NaiveAsked, BuildNaive(asked.con, asked.objective)
        PROVE  answer'.by # "max_power"
    <3>1. \E teams : AnswersOneOf(asked.objective, asked.con, teams)
      BY <2>6, Zenon DEF BuildNaive
    <3>2. answer'.by = asked.objective
      BY <3>1 DEF AnswersOneOf, Answers
    <3>3. QED
      BY <3>2, InputsAssumption
  <2>7. ASSUME NEW char, BuildChallengeLive(char)
        PROVE  answer'.by # "max_power"
    BY <2>7 DEF BuildChallengeLive, AnswersOneOf, Answers
  <2>8. ASSUME NEW con, StartSearch(con)
        PROVE  answer'.by # "max_power"
    BY <2>8 DEF StartSearch, Answers
  <2>9. AnswerIsMaxPower'
    BY <1>3, <2>3, <2>4, <2>5, <2>6, <2>7, <2>8 DEF Build
  <2>10. ModeKnown'
    BY <2>1 DEF page, ModeKnown, PlanInv
  <2>11. QED
    BY <1>1, <2>2, <2>9, <2>10 DEF PlanInv
<1>4. CASE UNCHANGED vars
  <2>1. UNCHANGED page /\ answer' = answer
    BY <1>4 DEF vars
  <2>2. ProfileInStep'
    BY <2>1 DEF page, ProfileInStep, PlanInv
  <2>3. MaxPowerAnswers(answer.con)' = MaxPowerAnswers(answer.con)
    <3>1. MaxPowerAnswers(answer.con)' = MaxPowerAnswers(answer.con)
      BY <2>1 DEF page, MaxPowerAnswers, Estimate, BuilderPool, WorldBloomRules
    <3>2. QED
      BY <3>1
  <2>4. AnswerIsMaxPower'
    BY <2>1, <2>3 DEF AnswerIsMaxPower, PlanInv
  <2>5. ModeKnown'
    BY <2>1 DEF page, ModeKnown, PlanInv
  <2>6. QED
    BY <1>1, <2>2, <2>4, <2>5 DEF PlanInv
<1>5. QED
  BY <1>2, <1>3, <1>4 DEF Next

\* What a team is expected to earn is a number.
LEMMA EstimateInt ==
  ASSUME PlanInv, NEW s \in [1..TeamSize -> TeamBuilderCardPool(profile)]
  PROVE  Estimate[s] \in Int
<1>1. /\ Loadable(proto) /\ BonusRates(eventBonus)
      /\ profile = ApplyEventBonus(NewProfile(proto), eventBonus)
      /\ mode \in {"multi", "cheerful"}
  BY DEF PlanInv, PageInv, ProfileInStep, ModeKnown
<1>2. ExpectedValue(EstimatorFor[mode], profile, eventBonus, Team(s, WorldBloomRules)) \in Int
  BY <1>1, ExpectedInt
<1>3. QED
  BY <1>2 DEF Estimate, BuilderPool

\* The property from the invariant.
LEMMA PlanIsMax ==
  ASSUME PlanInv
  PROVE  MaxPowerIsMax
<1> SUFFICES ASSUME answer.by = "max_power", answer.con.minSkill = 0, MatchingPays,
                    NEW S0 \in Admissible(answer.con, BuilderPool)
             PROVE  /\ answer.cards # <<>>
                    /\ Power(AsTeam(S0, WorldBloomRules), profile)
                         <= Power(Team(answer.cards, WorldBloomRules), profile)
  BY DEF MaxPowerIsMax
<1> DEFINE con == answer.con
           pool == TeamBuilderCardPool(profile)
           wl == WorldBloomRules
           teams == MaxPowerTeams(con, pool, profile, wl)
           est == Estimate
           n == TeamSize
<1>1. Con!SoundObject(con)
  BY InputsAssumption DEF PlanInv, AnswerIsMaxPower
<1>2. ProfileCards(profile)
  BY DEF PlanInv, PageInv
<1>3. PowersOf(profile, proto)
  BY PowersMade DEF PlanInv, ProfileInStep
<1>4. PoolPower(pool, profile.bonus)
  BY <1>2, <1>3, PoolHasPower
<1>5. PowerRates(profile.bonus)
  <2>1. proto.title \in Nat
    BY DEF PlanInv, PageInv, Loadable
  <2>2. profile.bonus = ProfileBonus(proto)
    BY <1>3 DEF PowersOf
  <2>3. QED
    BY <2>1, <2>2, RatesMade
<1>6. GrowingPool(pool) /\ profile.bonus.bonusPower \in Int
  <2>1. Pays(profile.bonus)
    BY DEF MatchingPays, Pays
  <2>2. GrowingPool(pool)
    BY <1>4, <1>5, <2>1, PoolGrows
  <2>3. QED
    BY <1>5, <2>2 DEF PowerRates
<1>7. teams # {} /\ \A s \in teams : Power(AsTeam(S0, wl), profile) <= Power(Team(s, wl), profile)
  BY <1>1, <1>6, MaxPowerIsBest DEF BuilderPool
<1>8. n \in Nat \ {0}
  BY EventDataAssumption
<1>9. ASSUME NEW s \in teams
      PROVE  s \in [1..n -> pool]
  <2>1. PICK st \in CandidateStates : s \in RecommendForState(con, pool, profile, st, wl)
    BY Zenon DEF MaxPowerTeams
  <2>2. PICK S \in TeamSets(FilterCards(st, pool)) : Lists(s, S)
    BY <2>1, GreedyListsTeams DEF RecommendForState
  <2>3. Cardinality(S) = n /\ S \subseteq pool
    BY DEF TeamSets, kSubset, FilterCards
  <2>4. QED
    BY <2>2, <2>3 DEF Lists
<1>10. \A s \in [1..n -> pool] : est[s] \in Int
  BY EstimateInt
<1> HIDE DEF pool, wl, teams, est, n
<1>11. ASSUME NEW s \in teams
       PROVE  /\ OptimizeSkillSelection(profile, est, s) # {}
              /\ \A t \in OptimizeSkillSelection(profile, est, s) :
                   t \in [1..n -> pool] /\ \A i \in 1..n : t[i].id = s[i].id
  BY <1>2, <1>8, <1>9, <1>10, SomeChoice DEF pool
<1>12. MaxPowerAnswers(con) = UNION {OptimizeSkillSelection(profile, est, s) : s \in teams}
  BY DEF MaxPowerAnswers, Finalized, BuilderPool, pool, teams, wl, est
<1>13. MaxPowerAnswers(con) # {}
  BY <1>7, <1>11, <1>12
<1>14. answer.cards \in MaxPowerAnswers(con)
  BY <1>13 DEF PlanInv, AnswerIsMaxPower
<1>15. PICK s \in teams : answer.cards \in OptimizeSkillSelection(profile, est, s)
  BY <1>12, <1>14
<1> DEFINE t == answer.cards
<1>16. t \in [1..n -> pool] /\ \A i \in 1..n : t[i].id = s[i].id
  BY <1>11, <1>15
<1>17. Power(Team(t, wl), profile) = Power(Team(s, wl), profile)
  <2>1. n \in Nat /\ s \in [1..n -> pool] /\ t \in [1..n -> pool] /\ \A i \in 1..n : t[i].id = s[i].id
    BY <1>8, <1>9, <1>16
  <2>2. s \in [1..n -> TeamBuilderCardPool(profile)] /\ t \in [1..n -> TeamBuilderCardPool(profile)]
    BY <2>1 DEF pool
  <2> HIDE DEF t
  <2>3. n \in Nat /\ \A i \in 1..n : t[i].id = s[i].id
    BY <2>1
  <2>4. QED
    BY <1>3, <2>2, <2>3, SamePower
<1>18. t # <<>>
  BY <1>8, <1>16
<1>19. QED
  BY <1>7, <1>17, <1>18 DEF wl, t

\* Whatever is saved, edited and asked for: while matching never costs power and no leader skill is
\* asked for, no team that the constraints admit has more power than the answer of the max power
\* builder.
THEOREM MaxPowerIsAlwaysMax == Spec => []MaxPowerIsMax
<1>1. Init => PlanInv
  BY InitPlan
<1>2. PlanInv /\ [Next]_vars => PlanInv'
  BY PlanStep
<1>3. PlanInv => MaxPowerIsMax
  BY PlanIsMax
<1>4. QED
  BY <1>1, <1>2, <1>3, PTL DEF Spec

-----------------------------------------------------------------------------
(***************************************************************************)
(* The exhaustive search.  What a team earns grows with its power, bonus   *)
(* and skill, so that the corners of an entry of the lookup table bracket  *)
(* it, and the least power and bonus that can earn given points are known. *)
(***************************************************************************)
\* Rounding down the quotient: at least k exactly when the product reaches k times the divisor.
LEMMA MulDivAtLeast ==
  ASSUME NEW n \in Int, NEW q \in Int, NEW d \in Nat \ {0}, NEW k \in Int
  PROVE  MulDiv(n, q, d) \in Int /\ (k <= MulDiv(n, q, d) <=> k * d <= n * q)
<1> DEFINE u == n \div d
           v == n % d
           w == v * q
           x == u * q
<1>1. u \in Int /\ v \in Int /\ n = d * u + v
  OBVIOUS
<1>2. MulDiv(n, q, d) = x + w \div d
  BY DEF MulDiv
<1> HIDE DEF u, v
<1>3. w \in Int /\ x \in Int
  BY <1>1
<1>4. n * q = d * x + w
  <2>1. n * q = (d * u) * q + v * q
    BY <1>1
  <2>2. (d * u) * q = d * (u * q)
    BY <1>1
  <2>3. QED
    BY <2>1, <2>2
<1> HIDE DEF w, x
<1>5. w \div d \in Int /\ (k - x <= w \div d <=> (k - x) * d <= w)
  <2>1. k - x \in Int
    BY <1>3
  <2>2. QED
    BY <1>3, <2>1, DivAtLeast
<1>6. (k - x) * d = k * d - d * x
  BY <1>3
<1>7. k * d \in Int /\ d * x \in Int /\ n * q \in Int
  BY <1>3
<1>8. (k - x) * d <= w <=> k * d <= n * q
  BY <1>3, <1>4, <1>6, <1>7
<1>9. k - x <= w \div d <=> k <= x + w \div d
  BY <1>3, <1>5
<1>10. QED
  BY <1>2, <1>3, <1>5, <1>8, <1>9

\* Products and their quotients grow with each factor.
LEMMA ProductGrows ==
  ASSUME NEW a \in Nat, NEW b \in Nat, NEW x \in Nat, NEW y \in Nat, a <= b, x <= y
  PROVE  a * x \in Nat /\ b * y \in Nat /\ a * x <= b * y
<1>1. a * x \in Nat /\ b * y \in Nat /\ b * x \in Nat
  OBVIOUS
<1>2. a * x <= b * x
  <2>1. (b - a) * x >= 0
    OBVIOUS
  <2>2. (b - a) * x = b * x - a * x
    OBVIOUS
  <2>3. QED
    BY <1>1, <2>1, <2>2
<1>3. b * x <= b * y
  <2>1. b * (y - x) >= 0
    OBVIOUS
  <2>2. b * (y - x) = b * y - b * x
    OBVIOUS
  <2>3. QED
    BY <1>1, <2>1, <2>2
<1>4. QED
  BY <1>1, <1>2, <1>3

LEMMA MulDivGrows ==
  ASSUME NEW n \in Nat, NEW m \in Nat, NEW q \in Nat, NEW r \in Nat, n <= m, q <= r, NEW d \in Nat \ {0}
  PROVE  MulDiv(n, q, d) \in Int /\ MulDiv(m, r, d) \in Int /\ MulDiv(n, q, d) <= MulDiv(m, r, d)
<1>1. n * q \in Nat /\ m * r \in Nat /\ n * q <= m * r
  BY ProductGrows
<1> DEFINE k == MulDiv(n, q, d)
<1>2. k \in Int /\ MulDiv(m, r, d) \in Int
  <2>1. MulDiv(n, q, d) \in Int
    BY MulDivAtLeast
  <2>2. MulDiv(m, r, d) \in Int
    BY MulDivAtLeast
  <2>3. QED
    BY <2>1, <2>2
<1> HIDE DEF k
<1>3. k <= MulDiv(n, q, d) => k * d <= n * q
  <2>1. k <= MulDiv(n, q, d) <=> k * d <= n * q
    BY <1>2, MulDivAtLeast
  <2>2. QED
    BY <2>1
<1>4. k * d <= n * q
  BY <1>2, <1>3 DEF k
<1>5. k * d <= m * r
  <2>1. k * d \in Int
    BY <1>2
  <2>2. QED
    BY <1>1, <1>4, <2>1
<1>6. k <= MulDiv(m, r, d) <=> k * d <= m * r
  BY <1>2, MulDivAtLeast
<1>7. QED
  BY <1>2, <1>5, <1>6 DEF k

\* Whole quotients keep the order.
LEMMA DivGrows ==
  ASSUME NEW a \in Int, NEW b \in Int, a <= b, NEW d \in Nat \ {0}
  PROVE  a \div d \in Int /\ b \div d \in Int /\ a \div d <= b \div d
<1> DEFINE k == a \div d
<1>1. k \in Int /\ b \div d \in Int
  OBVIOUS
<1> HIDE DEF k
<1>2. k <= a \div d <=> k * d <= a
  BY <1>1, DivAtLeast
<1>3. k * d <= a
  BY <1>1, <1>2 DEF k
<1>4. k * d <= b
  <2>1. k * d \in Int
    BY <1>1
  <2>2. QED
    BY <1>3, <2>1
<1>5. k <= b \div d
  BY <1>1, <1>4, DivAtLeast
<1>6. QED
  BY <1>1, <1>5 DEF k

\* More skill, more points for each point of power.
LEMMA RateOfSkill ==
  ASSUME NEW e, SoundEstimator(e), NEW s \in Nat, NEW t \in Nat, s <= t
  PROVE  LET R(k) == RatePerPower(e, Shared(k), Shared(k))
         IN R(s) \in Nat \ {0} /\ R(t) \in Nat \ {0} /\ R(s) <= R(t)
<1> DEFINE x == Shared(s)
           y == Shared(t)
<1>1. x \in Nat /\ y \in Nat /\ x <= y
  <2>1. ThirdPartySkill \in Nat
    BY SongsAssumption
  <2>2. QED
    BY <2>1 DEF Shared
<1> HIDE DEF x, y
<1>2. e.a \in Nat \ {0} /\ e.b \in Nat \ {0} /\ e.c \in Nat /\ e.d \in Nat
  BY DEF SoundEstimator
<1>3. x * e.c \in Nat /\ y * e.c \in Nat /\ x * e.c <= y * e.c
  BY <1>1, <1>2, ProductGrows
<1>4. x * e.d \in Nat /\ y * e.d \in Nat /\ x * e.d <= y * e.d
  BY <1>1, <1>2, ProductGrows
<1> DEFINE a1 == x * e.c
           a2 == y * e.c
           b1 == x * e.d
           b2 == y * e.d
<1>5. /\ RatePerPower(e, x, x) = 500 * e.b + a1 + b1
      /\ RatePerPower(e, y, y) = 500 * e.b + a2 + b2
  BY DEF RatePerPower
<1> HIDE DEF a1, a2, b1, b2
<1>6. a1 \in Nat /\ a2 \in Nat /\ b1 \in Nat /\ b2 \in Nat /\ a1 <= a2 /\ b1 <= b2
  BY <1>3, <1>4 DEF a1, a2, b1, b2
<1>7. \A z \in Nat \ {0} : /\ 500 * z + a1 + b1 \in Nat \ {0} /\ 500 * z + a2 + b2 \in Nat \ {0}
                             /\ 500 * z + a1 + b1 <= 500 * z + a2 + b2
  BY <1>6
<1>8. QED
  BY <1>2, <1>5, <1>7 DEF x, y

\* More power, more bonus, more skill: more points.
LEMMA PointsGrow ==
  ASSUME NEW e, SoundEstimator(e), NEW p \in Nat, NEW q \in Nat, p <= q,
         NEW eb \in Nat, NEW fb \in Nat, eb <= fb, NEW s \in Nat, NEW t \in Nat, s <= t
  PROVE  /\ ExpectedEp(e, p, eb, s, s) \in Int /\ ExpectedEp(e, q, fb, t, t) \in Int
         /\ ExpectedEp(e, p, eb, s, s) <= ExpectedEp(e, q, fb, t, t)
<1> DEFINE R(k) == RatePerPower(e, Shared(k), Shared(k))
           n == 500 * e.a + p * R(s)
           m == 500 * e.a + q * R(t)
<1>1. R(s) \in Nat /\ R(t) \in Nat /\ R(s) <= R(t)
  BY RateOfSkill
<1>2. /\ ExpectedEp(e, p, eb, s, s) = MulDiv(n, 10000 + eb, 10000)
      /\ ExpectedEp(e, q, fb, t, t) = MulDiv(m, 10000 + fb, 10000)
  BY DEF ExpectedEp, EpAt
<1> HIDE DEF R
<1>3. p * R(s) \in Nat /\ q * R(t) \in Nat /\ p * R(s) <= q * R(t)
  BY <1>1, ProductGrows
<1>4. e.a \in Nat
  BY DEF SoundEstimator
<1>5. n \in Nat /\ m \in Nat /\ n <= m
  BY <1>3, <1>4
<1> HIDE DEF n, m
<1>6. 10000 + eb \in Nat /\ 10000 + fb \in Nat /\ 10000 + eb <= 10000 + fb
  OBVIOUS
<1> DEFINE x == 10000 + eb
           y == 10000 + fb
<1> HIDE DEF x, y
<1>7. MulDiv(n, x, 10000) \in Int /\ MulDiv(m, y, 10000) \in Int /\ MulDiv(n, x, 10000) <= MulDiv(m, y, 10000)
  BY <1>5, <1>6, MulDivGrows DEF x, y
<1>8. QED
  BY <1>2, <1>7 DEF x, y

\* Points at most ep, in whole points.
LEMMA WholePoints ==
  ASSUME NEW n \in Nat, NEW q \in Nat, NEW ep \in Nat, n * q <= (10000 * 50000) * ep
  PROVE  MulDiv(n, q, 10000) \div Point <= ep
<1> DEFINE m == MulDiv(n, q, 10000)
           k == m \div Point
<1>1. m \in Int /\ (ep + 1) * Point \in Int
  <2>1. m \in Int
    BY MulDivAtLeast
  <2>2. QED
    BY <2>1 DEF Point
<1>2. SUFFICES ASSUME ep + 1 <= k PROVE FALSE
  <2> HIDE DEF m
  <2>1. k \in Int
    BY <1>1 DEF Point
  <2> HIDE DEF k
  <2>2. k <= ep
    BY <2>1
  <2>3. QED
    BY <2>2 DEF k, m
<1>3. (ep + 1) * Point <= m
  <2> HIDE DEF m
  <2>1. ep + 1 <= m \div Point <=> (ep + 1) * Point <= m
    BY <1>1, DivAtLeast DEF Point
  <2>2. QED
    BY <1>2, <2>1
<1> DEFINE j == (ep + 1) * Point
<1>4. j \in Int /\ j = 50000 * ep + 50000
  BY DEF Point
<1>5. j * 10000 <= n * q
  <2> HIDE DEF j
  <2>1. j <= MulDiv(n, q, 10000) <=> j * 10000 <= n * q
    BY <1>4, MulDivAtLeast
  <2>2. QED
    BY <1>3, <2>1 DEF j, m
<1>6. n * q \in Nat
  OBVIOUS
<1>7. QED
  <2> DEFINE x == n * q
  <2>1. x \in Nat /\ j * 10000 <= x /\ x <= (10000 * 50000) * ep
    BY <1>5, <1>6
  <2> HIDE DEF x, j
  <2>2. QED
    BY <1>4, <2>1

\* What a team earns before the bonus.
LEMMA OfTeamNat ==
  ASSUME NEW e, SoundEstimator(e), NEW p \in Nat, NEW skill \in Nat
  PROVE  LET R == RatePerPower(e, Shared(skill), Shared(skill))
         IN R \in Nat \ {0} /\ p * R \in Nat /\ 500 * e.a + p * R \in Nat \ {0}
<1> DEFINE R == RatePerPower(e, Shared(skill), Shared(skill))
<1>1. R \in Nat \ {0}
  BY RateOfSkill
<1>2. e.a \in Nat \ {0}
  BY DEF SoundEstimator
<1> HIDE DEF R
<1>3. p * R \in Nat
  BY <1>1
<1>4. \A a \in Nat \ {0}, x \in Nat : 500 * a + x \in Nat \ {0}
  OBVIOUS
<1>5. 500 * e.a + p * R \in Nat \ {0}
  BY <1>2, <1>3, <1>4
<1>6. QED
  BY <1>1, <1>3, <1>5 DEF R

\* With less than the required power a team earns no more than ep.
LEMMA PowerTooSmall ==
  ASSUME NEW e, SoundEstimator(e), NEW ep \in Nat, NEW eb \in Nat, NEW skill \in Nat
  PROVE  /\ MinRequiredPower(e, ep, eb, skill) \in Int
         /\ \A p \in Nat : p < MinRequiredPower(e, ep, eb, skill) =>
              ExpectedEp(e, p, eb, skill, skill) \div Point <= ep
<1> DEFINE R == RatePerPower(e, Shared(skill), Shared(skill))
           q == 10000 + eb
           A == e.a * q
           beyond == 1000000 * ep - A
           m == MulDiv(beyond, 500, q)
           r == MinRequiredPower(e, ep, eb, skill)
<1>1. R \in Nat \ {0}
  BY RateOfSkill
<1>2. q \in Nat \ {0} /\ e.a \in Nat
  BY DEF SoundEstimator
<1>3. r = IF beyond <= 0 THEN 0 ELSE m \div R
  BY DEF MinRequiredPower
<1>4. \A p : ExpectedEp(e, p, eb, skill, skill) = MulDiv(500 * e.a + p * R, q, 10000)
  BY DEF ExpectedEp, EpAt
<1> HIDE DEF R, q
<1>5. A \in Nat /\ beyond \in Int
  BY <1>2
<1> HIDE DEF r
<1>6. m \in Int
  <2> HIDE DEF beyond
  <2>1. QED
    BY <1>2, <1>5, MulDivAtLeast
<1> HIDE DEF m
<1>7. m \div R \in Int
  BY <1>1, <1>6
<1>8. ASSUME NEW p \in Nat, p < r
      PROVE  MulDiv(500 * e.a + p * R, q, 10000) \div Point <= ep
  <2>1. r = m \div R
    BY <1>3, <1>8
  <2>2. p + 1 <= m \div R
    BY <1>7, <1>8, <2>1
  <2> DEFINE k == (p + 1) * R
             x == p * R
  <2>3. k \in Nat /\ x \in Nat /\ k = x + R
    BY <1>1
  <2>4. k <= m
    <3>1. p + 1 \in Int
      OBVIOUS
    <3>2. p + 1 <= m \div R <=> (p + 1) * R <= m
      BY <1>1, <1>6, <3>1, DivAtLeast
    <3>3. QED
      BY <2>2, <3>2
  <2> HIDE DEF k, x
  <2>5. k * q <= beyond * 500
    <3> HIDE DEF beyond
    <3>1. beyond \in Int /\ k \in Int /\ q \in Nat \ {0}
      BY <1>2, <1>5, <2>3
    <3>2. k <= MulDiv(beyond, 500, q) <=> k * q <= beyond * 500
      BY <3>1, MulDivAtLeast
    <3>3. QED
      BY <2>4, <3>2 DEF m
  <2>6. x * q \in Nat /\ x * q <= k * q /\ k * q \in Nat
    <3>1. x <= k
      BY <1>1, <2>3
    <3>2. q <= q /\ q \in Nat
      BY <1>2
    <3>3. QED
      BY <2>3, <3>1, <3>2, ProductGrows
  <2> DEFINE n == 500 * e.a + x
  <2>7. n \in Nat
    BY <1>2, <2>3
  <2>8. n * q = 500 * A + x * q
    BY <1>2, <2>3
  <2>9. n * q <= (10000 * 50000) * ep
    <3> DEFINE y == x * q
               z == k * q
    <3>1. y \in Nat /\ z \in Nat /\ y <= z /\ z <= beyond * 500
      BY <2>5, <2>6
    <3>2. beyond * 500 = (10000 * 50000) * ep - 500 * A
      BY <1>5
    <3> HIDE DEF y, z, beyond, A
    <3>3. 500 * A + y <= (10000 * 50000) * ep
      BY <1>5, <3>1, <3>2
    <3>4. QED
      BY <2>8, <3>3 DEF y
  <2> HIDE DEF n
  <2>10. q \in Nat
    BY <1>2
  <2>11. MulDiv(n, q, 10000) \div Point <= ep
    BY <2>7, <2>9, <2>10, WholePoints
  <2>12. QED
    BY <2>11 DEF n, x
<1>9. r \in Int
  BY <1>3, <1>7
<1>10. QED
  BY <1>4, <1>8, <1>9 DEF r

\* With less than the required bonus, in whole percents, a team earns no more than ep.
LEMMA BonusTooSmall ==
  ASSUME NEW e, SoundEstimator(e), NEW ep \in Nat, NEW p \in Nat, NEW skill \in Nat
  PROVE  /\ MinRequiredBonus(e, ep, p, skill) \in Int
         /\ \A k \in Nat : k < MinRequiredBonus(e, ep, p, skill) =>
              ExpectedEp(e, p, 100 * k, skill, skill) \div Point <= ep
<1> DEFINE n == 500 * e.a + p * RatePerPower(e, Shared(skill), Shared(skill))
           r == MinRequiredBonus(e, ep, p, skill)
           beyond == (100 * 50000) * ep - 100 * n
<1>1. n \in Nat \ {0}
  BY OfTeamNat
<1>2. r = IF beyond >= 0 THEN beyond \div n ELSE -((-beyond) \div n)
  BY DEF MinRequiredBonus, Truncated, Point
<1>3. \A k : ExpectedEp(e, p, 100 * k, skill, skill) = MulDiv(n, 10000 + 100 * k, 10000)
  BY DEF ExpectedEp, EpAt
<1> HIDE DEF n, r
<1>4. beyond \in Int /\ -beyond \in Int
  BY <1>1
<1>5. beyond \div n \in Int /\ (-beyond) \div n \in Int
  <2> HIDE DEF beyond
  <2>1. QED
    BY <1>1, <1>4
<1>6. beyond < 0 => 0 <= (-beyond) \div n
  <2>1. 0 <= (-beyond) \div n <=> 0 * n <= -beyond
    <3> DEFINE y == -beyond
    <3>1. y \in Int
      BY <1>4
    <3> HIDE DEF y
    <3>2. 0 <= y \div n <=> 0 * n <= y
      BY <1>1, <3>1, DivAtLeast
    <3>3. QED
      BY <3>2 DEF y
  <2> HIDE DEF beyond
  <2>2. QED
    BY <1>1, <1>4, <2>1
<1>7. ASSUME NEW k \in Nat, k < r
      PROVE  MulDiv(n, 10000 + 100 * k, 10000) \div Point <= ep
  <2>1. r = beyond \div n
    <3> HIDE DEF beyond
    <3>1. QED
      BY <1>2, <1>4, <1>5, <1>6, <1>7
  <2>2. k + 1 <= beyond \div n
    <3> HIDE DEF beyond
    <3>1. QED
      BY <1>5, <1>7, <2>1
  <2>3. (k + 1) * n <= beyond
    <3>1. k + 1 \in Int
      OBVIOUS
    <3> HIDE DEF beyond
    <3>2. k + 1 <= beyond \div n <=> (k + 1) * n <= beyond
      BY <1>1, <1>4, <3>1, DivAtLeast
    <3>3. QED
      BY <2>2, <3>2
  <2> DEFINE x == k * n
             q == 10000 + 100 * k
  <2>4. x \in Nat /\ (k + 1) * n = x + n
    BY <1>1
  <2>5. n * q = 10000 * n + 100 * x
    BY <1>1
  <2>6. q \in Nat
    OBVIOUS
  <2> HIDE DEF x, q
  <2>7. 10000 * n + 100 * x <= (10000 * 50000) * ep
    BY <1>1, <2>3, <2>4
  <2>8. MulDiv(n, q, 10000) \div Point <= ep
    BY <1>1, <2>5, <2>6, <2>7, WholePoints
  <2>9. QED
    BY <2>8 DEF q
<1>8. r \in Int
  <2> HIDE DEF beyond
  <2>1. \A y \in Int : -y \in Int
    OBVIOUS
  <2>2. QED
    BY <1>2, <1>5, <2>1
<1>9. QED
  BY <1>3, <1>7, <1>8 DEF r

\* A number lies in its bucket.
LEMMA InBucket ==
  ASSUME NEW p \in Nat, NEW w \in Nat \ {0}
  PROVE  LET i == p \div w
         IN /\ i \in Nat /\ i * w \in Nat /\ (i + 1) * w \in Nat
            /\ i * w <= p /\ p + 1 <= (i + 1) * w
<1> DEFINE i == p \div w
           r == p % w
<1>1. i \in Int /\ r \in Int /\ p = w * i + r /\ 0 <= r /\ r < w
  OBVIOUS
<1>2. 0 <= i
  <2>1. 0 <= p \div w <=> 0 * w <= p
    BY DivAtLeast
  <2>2. QED
    BY <2>1
<1> HIDE DEF i, r
<1> DEFINE x == i * w
<1>3. x \in Nat /\ (i + 1) * w = x + w /\ w * i = x
  BY <1>1, <1>2
<1> HIDE DEF x
<1>4. x <= p /\ p + 1 <= x + w /\ x + w \in Nat
  BY <1>1, <1>3
<1>5. QED
  BY <1>1, <1>2, <1>3, <1>4 DEF i, x

\* The corners of a bucket bracket the points of what falls into it.
LEMMA CornersBracket ==
  ASSUME NEW e, SoundEstimator(e), NEW p \in Nat, NEW eb \in Nat,
         NEW skill \in kMinSkillValue..kMaxSkillValue
  PROVE  LET entry == LookupEstimatedEp(e, p, eb \div 100)
             ep == ExpectedEp(e, p, eb, skill, skill) \div Point
         IN entry.lower <= ep /\ ep <= entry.upper
<1> DEFINE percent == eb \div 100
           i == p \div PowerBucket
           j == percent \div EventBonusBucket
           p1 == i * PowerBucket
           p2 == (i + 1) * PowerBucket
           k1 == j * EventBonusBucket
           k2 == (j + 1) * EventBonusBucket
           b1 == 100 * j * EventBonusBucket
           b2 == 100 * (j + 1) * EventBonusBucket
           low == ExpectedEp(e, p1, b1, kMinSkillValue, kMinSkillValue)
           high == ExpectedEp(e, p2, b2, kMaxSkillValue, kMaxSkillValue)
           own == ExpectedEp(e, p, eb, skill, skill)
<1>1. LookupEstimatedEp(e, p, percent) = [lower |-> low \div Point, upper |-> high \div Point + 1]
  BY DEF LookupEstimatedEp
<1>2. /\ PowerBucket \in Nat \ {0} /\ EventBonusBucket \in Nat \ {0}
      /\ kMinSkillValue \in Nat /\ kMaxSkillValue \in Nat
  BY ScoresAssumption
<1>3. p1 \in Nat /\ p2 \in Nat /\ p1 <= p /\ p <= p2
  <2>1. p1 \in Nat /\ p2 \in Nat /\ p1 <= p /\ p + 1 <= p2
    BY <1>2, InBucket
  <2> HIDE DEF p1, p2
  <2>2. QED
    BY <2>1
<1>4. percent \in Nat /\ 100 * percent <= eb /\ eb + 1 <= 100 * (percent + 1)
  OBVIOUS
<1> HIDE DEF percent
<1>5. j \in Nat /\ k1 \in Nat /\ k2 \in Nat /\ k1 <= percent /\ percent + 1 <= k2
  BY <1>2, <1>4, InBucket
<1>6. b1 = 100 * k1 /\ b2 = 100 * k2
  <2> HIDE DEF j
  <2>1. QED
    BY <1>2, <1>5
<1> HIDE DEF i, j, k1, k2
<1>7. b1 \in Nat /\ b2 \in Nat /\ b1 <= eb /\ eb <= b2
  <2> HIDE DEF b1, b2
  <2>1. QED
    BY <1>4, <1>5, <1>6
<1>8. skill \in Nat /\ kMinSkillValue <= skill /\ skill <= kMaxSkillValue
  BY <1>2
<1> HIDE DEF p1, p2, b1, b2
<1>9. low \in Int /\ own \in Int /\ low <= own
  BY <1>2, <1>3, <1>7, <1>8, PointsGrow
<1>10. high \in Int /\ own <= high
  BY <1>2, <1>3, <1>7, <1>8, PointsGrow
<1> HIDE DEF low, own, high
<1>11. low \div Point <= own \div Point
  BY <1>9, DivGrows DEF Point
<1>12. own \div Point \in Int /\ high \div Point \in Int /\ own \div Point <= high \div Point
  BY <1>9, <1>10, DivGrows DEF Point
<1>13. own \div Point <= high \div Point + 1
  <2> DEFINE x == own \div Point
             y == high \div Point
  <2>1. x \in Int /\ y \in Int /\ x <= y
    BY <1>12
  <2> HIDE DEF x, y
  <2>2. x <= y + 1
    BY <2>1
  <2>3. QED
    BY <2>2 DEF x, y
<1>14. QED
  BY <1>1, <1>11, <1>13 DEF percent, own

-----------------------------------------------------------------------------
(***************************************************************************)
(* The greatest bonus, when nothing but the cards decides it.              *)
(***************************************************************************)
\* A pool that a support deck adds nothing to.
PlainBonuses(pool) ==
  /\ IsFiniteSet(pool)
  /\ \A c \in pool : c.id \in CardIds /\ c.eventBonus \in Nat /\ c.supportBonus = 0

\* Without support bonuses there is no support deck.
LEMMA NoSupportDeck ==
  ASSUME NEW pool, \A c \in pool : c.supportBonus = 0, NEW cards, NEW wl
  PROVE  WithSupport(GetSortedSupportPool(pool), Team(cards, wl)) = Team(cards, wl)
<1> DEFINE q == GetSortedSupportPool(pool)
           C == {c \in pool : c.supportBonus > 0}
           ids == {c.id : c \in Range(cards)}
           left == SupportLeft(q, ids)
           room == SupportTeamSize[kDefaultWorldBloomVersion]
<1>1. q = <<>>
  <2>1. C = {}
    OBVIOUS
  <2>2. Cardinality(C) = 0
    BY <2>1, FS_EmptySet
  <2>3. q = [k \in 1..Cardinality(C) |->
               CHOOSE c \in C : Cardinality({d \in C : BetterSupport(d, c)}) = k - 1]
    BY DEF GetSortedSupportPool
  <2> HIDE DEF C, q
  <2>4. DOMAIN q = 1..0
    BY <2>2, <2>3
  <2>5. 1..0 = {}
    OBVIOUS
  <2>6. q = [k \in {} |-> q[k]]
    BY <2>3, <2>4, <2>5
  <2>7. QED
    BY <2>6
<1>2. left = <<>>
  <2> DEFINE none == {c \in pool : FALSE}
             f == [c \in none |-> 0]
  <2>1. /\ \A c \in none : f[c] \in Nat
        /\ q \in Seq(none) /\ Descends(f, q)
    BY <1>1 DEF Descends
  <2> HIDE DEF q, f
  <2>2. left \in Seq(none)
    <3> HIDE DEF none, ids
    <3>1. QED
      BY <2>1, LeftInOrder
  <2> HIDE DEF left
  <2>3. Len(left) = 0
    <3>1. \A i \in 1..Len(left) : left[i] \in none
      BY <2>2
    <3>2. Len(left) \in Nat
      BY <2>2
    <3>3. Len(left) > 0 => 1 \in 1..Len(left)
      BY <3>2
    <3>4. QED
      BY <3>1, <3>2, <3>3
  <2>4. QED
    BY <2>2, <2>3
<1>3. SubSeq(left, 1, Lesser(Len(left), room)) = <<>>
  <2>1. room \in Nat
    BY SupportAssumption DEF kDefaultWorldBloomVersion, Versions
  <2>2. Lesser(Len(left), room) = 0
    <3> HIDE DEF left, room
    <3>1. Len(left) = 0
      BY <1>2
    <3>2. QED
      BY <2>1, <3>1 DEF Lesser
  <2> HIDE DEF left, room
  <2>3. SubSeq(left, 1, 0) = <<>>
    BY <1>2
  <2>4. QED
    BY <2>2, <2>3
<1>4. Team(cards, wl).cards = cards
  BY DEF Team
<1>5. WithSupport(q, Team(cards, wl)) = [Team(cards, wl) EXCEPT !.support = <<>>]
  <2>1. WithSupport(q, Team(cards, wl))
          = [Team(cards, wl) EXCEPT !.support = SubSeq(left, 1, Lesser(Len(left), room))]
    BY <1>4 DEF WithSupport, FillSupportCards
  <2> HIDE DEF left, room
  <2>2. QED
    BY <1>3, <2>1
<1>6. [Team(cards, wl) EXCEPT !.support = <<>>] = Team(cards, wl)
  BY DEF Team
<1>7. QED
  BY <1>5, <1>6

\* The bonus of a team is the sum of those of its cards, in any order.
LEMMA BonusOfTeam ==
  ASSUME NEW pool, PlainBonuses(pool), NEW b, ~b.hasDiff, NEW S \in TeamSets(pool), NEW s, Lists(s, S),
         NEW wl, NEW f, \A c \in S : f[c] = c.eventBonus
  PROVE  TeamEventBonus(Team(s, wl), b) = SetSum(f, S) /\ SetSum(f, S) \in Nat
<1> DEFINE none == <<>>
           g == [c \in {} |-> 0]
<1>1. S \subseteq pool /\ IsFiniteSet(S)
  BY FS_Subset DEF TeamSets, kSubset, PlainBonuses
<1>2. s \in Seq(S) /\ \A c \in S : f[c] = c.eventBonus /\ f[c] \in Nat
  BY <1>1, ListRange DEF PlainBonuses
<1>3. SumOver(s, LAMBDA c : c.eventBonus) = Folded(SumOf(f), s)
  BY <1>2, EventSumIsFolded
<1>4. Folded(SumOf(f), s) = SetSum(f, S) /\ Folded(SumOf(f), s) \in Nat
  BY <1>1, <1>2, ListedSum, SumNat
<1>5. SumOver(none, LAMBDA c : c.supportBonus) = 0
  <2>1. none \in Seq({}) /\ \A c \in {} : g[c] = c.supportBonus
    OBVIOUS
  <2>0. Len(none) = 0
    OBVIOUS
  <2> HIDE DEF none, g
  <2>2. SumOver(none, LAMBDA c : c.supportBonus) = Folded(SumOf(g), none)
    BY <2>1, SupportSumIsFolded
  <2>3. PICK h : Adds(h, g, none) /\ Folded(SumOf(g), none) = h[Len(none)]
    BY <2>1, SumLoop
  <2>4. QED
    BY <2>0, <2>2, <2>3 DEF Adds
<1>6. SupportBonus(Team(s, wl)) = 0
  BY <1>5 DEF SupportBonus, Team
<1>7. TeamEventBonus(Team(s, wl), b) = SumOver(s, LAMBDA c : c.eventBonus) + 0 + 0
  BY <1>6 DEF TeamEventBonus, Team
<1> DEFINE n == SumOver(s, LAMBDA c : c.eventBonus)
<1>8. n \in Nat /\ n = SetSum(f, S)
  BY <1>3, <1>4
<1> HIDE DEF n
<1>9. TeamEventBonus(Team(s, wl), b) = n
  BY <1>7, <1>8 DEF n
<1>10. QED
  BY <1>8, <1>9

\* What the greedy builder answers lists a team the constraints admit.
LEMMA GreedyListsAdmissible ==
  ASSUME NEW con, Con!SoundObject(con), NEW pool, NEW key, NEW value, NEW s \in Greedy(con, pool, key, value)
  PROVE  \E S \in Admissible(con, pool) : Lists(s, S)
<1>1. CASE con.empty
  <2>1. PICK S \in GreedyNoConstraints(pool, key) : s \in OrdersBy(key, S)
    BY <1>1 DEF Greedy
  <2>2. FilterCardPool(con, pool) = pool
    BY <1>1, EmptyHolds DEF FilterCardPool
  <2>3. S \in Admissible(con, pool)
    BY <1>1, <2>2 DEF GreedyNoConstraints, Admissible, Con!CharacterSetSatisfies
  <2>4. QED
    BY <2>1, <2>3, OrdersList
<1>2. CASE ~con.empty
  <2> DEFINE sub == FilterCardPool(con, pool)
  <2>1. PICK S \in GreedyWithConstraints(con, sub, key, value) :
          s \in OrdersBy([c \in S |-> -CharOf(c)], S)
    BY <1>2 DEF Greedy
  <2>2. S \in Admissible(con, sub)
    BY <2>1, ConstrainedUses
  <2>3. S \in Admissible(con, pool)
    <3>1. FilterCardPool(con, sub) = sub
      BY DEF FilterCardPool
    <3>2. QED
      BY <2>2, <3>1 DEF Admissible
  <2>4. QED
    BY <2>1, <2>3, OrdersList
<1>3. QED
  BY <1>1, <1>2

\* No admissible team has a greater bonus than what the builder answers.
LEMMA MaxBonusIsBest ==
  ASSUME NEW con, Con!SoundObject(con), con.minSkill = 0,
         NEW pool, PlainBonuses(pool), NEW b, ~b.hasDiff,
         NEW S0 \in Admissible(con, pool), NEW s \in MaxBonusTeams(con, pool, b)
  PROVE  TeamEventBonus(AsTeam(S0, 0), b) <= TeamEventBonus(Team(s, 0), b)
<1> DEFINE sub == FilterCardPool(con, pool)
           support == GetSortedSupportPool(sub)
           key == [c \in pool |-> c.eventBonus]
           value == [S \in TeamSets(pool) |-> TeamEventBonus(WithSupport(support, AsTeam(S, 0)), b)]
           v0 == SetSum(key, S0)
<1>1. s \in Greedy(con, pool, key, value)
  BY DEF MaxBonusTeams
<1>2. IsFiniteSet(pool) /\ \A c \in pool : c.id \in CardIds /\ c.eventBonus \in Nat /\ c.supportBonus = 0
  BY DEF PlainBonuses
<1>3. sub \subseteq pool /\ IsFiniteSet(sub) /\ TeamSets(sub) \subseteq TeamSets(pool)
  <2>1. sub \subseteq pool
    BY DEF FilterCardPool
  <2>2. QED
    BY <1>2, <2>1, FS_Subset DEF TeamSets, kSubset
<1>4. \A c \in pool : key[c] = c.eventBonus /\ key[c] \in Int
  BY <1>2
<1>5. \A S \in TeamSets(pool) : value[S] = TeamEventBonus(AsTeam(S, 0), b)
  <2> SUFFICES ASSUME NEW S \in TeamSets(pool)
               PROVE  value[S] = TeamEventBonus(AsTeam(S, 0), b)
    OBVIOUS
  <2>1. \A c \in sub : c.supportBonus = 0
    BY <1>2, <1>3
  <2>2. WithSupport(support, AsTeam(S, 0)) = AsTeam(S, 0)
    <3> HIDE DEF sub
    <3>1. QED
      BY <2>1, NoSupportDeck DEF AsTeam
  <2>3. QED
    BY <2>2
<1> HIDE DEF sub, support, key, value
<1>6. ASSUME NEW S \in TeamSets(pool)
      PROVE  /\ \A t : Lists(t, S) => TeamEventBonus(Team(t, 0), b) = SetSum(key, S)
             /\ TeamEventBonus(AsTeam(S, 0), b) = SetSum(key, S) /\ SetSum(key, S) \in Int
  <2>1. S \subseteq pool /\ IsFiniteSet(S)
    BY <1>2, FS_Subset DEF TeamSets, kSubset
  <2>2. \A c \in S : key[c] = c.eventBonus
    BY <1>4, <2>1
  <2>3. ASSUME NEW t, Lists(t, S)
        PROVE  TeamEventBonus(Team(t, 0), b) = SetSum(key, S) /\ SetSum(key, S) \in Nat
    BY <2>2, <2>3, BonusOfTeam
  <2>4. Lists(SetToSeq(S), S)
    BY <2>1, SeqLists
  <2>5. QED
    BY <2>3, <2>4 DEF AsTeam
<1>7. S0 \in TeamSets(sub) /\ S0 \in TeamSets(pool) /\ Con!CharacterSetSatisfies(con, CharsIn(S0))
  BY <1>3 DEF Admissible, sub
<1>8. CASE con.empty
  <2>1. PICK S \in GreedyNoConstraints(pool, key) : s \in OrdersBy(key, S)
    BY <1>1, <1>8 DEF Greedy
  <2>2. S \in TeamSets(pool) /\ Lists(s, S)
    BY <2>1, OrdersList DEF GreedyNoConstraints
  <2>3. SetSum(key, S0) <= SetSum(key, S)
    BY <1>2, <1>4, <1>7, GreedyIsBest
  <2>4. QED
    BY <1>6, <1>7, <2>2, <2>3
<1>9. CASE ~con.empty
  <2> DEFINE best == GreedyWithConstraints(con, sub, key, value)
  <2>1. PICK S \in best : s \in OrdersBy([c \in S |-> -CharOf(c)], S)
    BY <1>1, <1>9 DEF Greedy, sub
  <2>2. FilterCardPool(con, sub) = sub
    BY DEF sub, FilterCardPool
  <2>3. S0 \in Admissible(con, sub)
    BY <1>7, <2>2 DEF Admissible
  <2>4. v0 \in Int
    BY <1>6, <1>7
  <2>5. \A G \in TeamSets(sub) : value[G] = SetSum(key, G) /\ value[G] \in Int
    BY <1>3, <1>5, <1>6
  <2>6. \A c \in sub : key[c] \in Int /\ CharOf(c) \in Chars
    BY <1>2, <1>3, <1>4, RowOf DEF CharOf
  <2> HIDE DEF v0
  <2>7. \A G \in TeamSets(sub) : SetSum(key, S0) <= SetSum(key, G) => v0 <= value[G]
    BY <2>5 DEF v0
  <2>8. \A G \in best : v0 <= value[G]
    BY <1>3, <2>2, <2>3, <2>4, <2>5, <2>6, <2>7, ConstrainedIsBest
  <2>9. S \in TeamSets(sub) /\ S \in TeamSets(pool)
    BY <1>3, <2>1, <2>2, ConstrainedUses DEF Admissible
  <2>10. Lists(s, S)
    BY <2>1, OrdersList
  <2>11. v0 <= value[S] /\ value[S] = SetSum(key, S)
    BY <2>5, <2>8, <2>9
  <2>12. TeamEventBonus(AsTeam(S0, 0), b) = v0
    BY <1>6, <1>7 DEF v0
  <2>13. TeamEventBonus(Team(s, 0), b) = SetSum(key, S)
    BY <1>6, <2>9, <2>10
  <2>14. QED
    BY <2>11, <2>12, <2>13
<1>10. QED
  BY <1>8, <1>9

-----------------------------------------------------------------------------
(***************************************************************************)
(* Pruning: a card of a team gives way to one of the best team, which      *)
(* bounds what a team with a given card can have.                          *)
(***************************************************************************)

\* Admissible teams are teams of the pool.
LEMMA AdmissibleTeams ==
  ASSUME NEW con, NEW pool, IsFiniteSet(pool), NEW S \in Admissible(con, pool)
  PROVE  /\ S \in TeamSets(pool) /\ S \in TeamSets(FilterCardPool(con, pool))
         /\ S \subseteq FilterCardPool(con, pool) /\ S \subseteq pool /\ IsFiniteSet(S)
         /\ Cardinality(S) = TeamSize /\ OfDistinctChars(S) /\ S # {}
         /\ Con!CharacterSetSatisfies(con, CharsIn(S))
<1>1. /\ S \in TeamSets(FilterCardPool(con, pool)) /\ Con!CharacterSetSatisfies(con, CharsIn(S))
  BY DEF Admissible
<1>2. S \subseteq FilterCardPool(con, pool) /\ Cardinality(S) = TeamSize /\ OfDistinctChars(S)
  BY <1>1 DEF TeamSets, kSubset
<1>3. S \subseteq pool
  BY <1>2 DEF FilterCardPool
<1>4. S \in TeamSets(pool)
  BY <1>2, <1>3 DEF TeamSets, kSubset
<1>5. IsFiniteSet(S)
  BY <1>3, FS_Subset
<1>6. S # {}
  BY <1>2, <1>5, FS_EmptySet, EventDataAssumption
<1>7. QED
  BY <1>1, <1>2, <1>3, <1>4, <1>5, <1>6

\* Other versions of the cards of an admissible team are one.
LEMMA VersionsAdmissible ==
  ASSUME NEW con, NEW pool, IsFiniteSet(pool), NEW S \in Admissible(con, pool), NEW s, Lists(s, S),
         NEW t \in [1..TeamSize -> pool], \A i \in 1..TeamSize : t[i].id = s[i].id
  PROVE  \E T \in Admissible(con, pool) : Lists(t, T)
<1> DEFINE n == TeamSize
           T == Range(t)
<1>1. /\ S \subseteq FilterCardPool(con, pool) /\ IsFiniteSet(S) /\ Cardinality(S) = n
      /\ OfDistinctChars(S) /\ Con!CharacterSetSatisfies(con, CharsIn(S))
  BY AdmissibleTeams
<1>2. n \in Nat /\ IsFiniteSet(1..n) /\ Cardinality(1..n) = n
  BY EventDataAssumption, FS_Interval
<1>3. s \in [1..n -> S] /\ (\A i, j \in 1..n : i # j => s[i] # s[j]) /\ Range(s) = S
  BY <1>1, ListRange DEF Lists
<1>4. T = {t[i] : i \in 1..n} /\ S = {s[i] : i \in 1..n}
  BY <1>3 DEF Range
<1>5. \A i \in 1..n : CharOf(t[i]) = CharOf(s[i])
  BY DEF CharOf
<1>6. CharsIn(T) = CharsIn(S)
  BY <1>4, <1>5 DEF CharsIn
<1>7. \A i, j \in 1..n : i # j => CharOf(t[i]) # CharOf(t[j])
  BY <1>1, <1>3, <1>5 DEF OfDistinctChars
<1> HIDE DEF n, T
<1>8. OfDistinctChars(T)
  BY <1>4, <1>7 DEF OfDistinctChars
<1>9. t \in Injection(1..n, T) /\ t \in Surjection(1..n, T)
  <2>1. t \in [1..n -> T]
    BY <1>4 DEF n
  <2>2. \A i, j \in 1..n : t[i] = t[j] => i = j
    BY <1>7
  <2>3. QED
    BY <1>4, <2>1, <2>2 DEF Injection, Surjection, IsInjective
<1>10. Cardinality(T) = n
  BY <1>2, <1>9, FS_Surjection
<1>11. T \subseteq FilterCardPool(con, pool)
  <2>1. \A i \in 1..n : s[i] \in FilterCardPool(con, pool)
    BY <1>1, <1>3
  <2>2. \A i \in 1..n : t[i] \in pool /\ t[i].id = s[i].id
    BY DEF n
  <2>3. QED
    BY <1>4, <2>1, <2>2 DEF FilterCardPool
<1>12. T \in Admissible(con, pool)
  BY <1>1, <1>6, <1>8, <1>10, <1>11 DEF Admissible, TeamSets, kSubset, n
<1>13. Lists(t, T)
  <2>1. t \in [1..Cardinality(T) -> T]
    BY <1>9, <1>10 DEF Surjection
  <2>2. \A i, j \in 1..Cardinality(T) : i # j => t[i] # t[j]
    BY <1>7, <1>10
  <2>3. QED
    BY <2>1, <2>2 DEF Lists
<1>14. QED
  BY <1>12, <1>13

\* Different character sets of one size have each a character the other has not.
LEMMA OtherCharacter ==
  ASSUME NEW S, NEW P, IsFiniteSet(S), IsFiniteSet(P), Cardinality(S) = Cardinality(P),
         OfDistinctChars(S), OfDistinctChars(P), NEW c \in S, CharOf(c) \notin CharsIn(P)
  PROVE  \E d \in P : CharOf(d) \notin CharsIn(S)
<1>1. ASSUME NEW T, IsFiniteSet(T), OfDistinctChars(T)
      PROVE  IsFiniteSet(CharsIn(T)) /\ Cardinality(CharsIn(T)) = Cardinality(T)
  <2> DEFINE f == [x \in T |-> CharOf(x)]
  <2>1. f \in Surjection(T, CharsIn(T))
    BY DEF Surjection, CharsIn
  <2>2. f \in Injection(T, CharsIn(T))
    <3>1. f \in [T -> CharsIn(T)]
      BY DEF CharsIn
    <3>2. \A x, y \in T : f[x] = f[y] => x = y
      BY <1>1 DEF OfDistinctChars
    <3>3. QED
      BY <3>1, <3>2 DEF Injection, IsInjective
  <2> HIDE DEF f
  <2>3. QED
    BY <1>1, <2>1, <2>2, FS_Surjection
<1>2. /\ IsFiniteSet(CharsIn(S)) /\ Cardinality(CharsIn(S)) = Cardinality(S)
      /\ IsFiniteSet(CharsIn(P)) /\ Cardinality(CharsIn(P)) = Cardinality(P)
  BY <1>1
<1>3. CharOf(c) \in CharsIn(S)
  BY DEF CharsIn
<1>4. CharsIn(P) \ CharsIn(S) # {}
  BY <1>2, <1>3, OtherHas
<1>5. QED
  BY <1>4 DEF CharsIn

\* Without pairs, some card of an admissible team can take the place of any card of another.
LEMMA TakesPlace ==
  ASSUME NEW con, con.pairs = <<>>, NEW pool, IsFiniteSet(pool),
         NEW S \in Admissible(con, pool), NEW P \in Admissible(con, pool), NEW c \in S
  PROVE  \E d \in P : d = c \/ (d \notin S /\ (S \ {c}) \cup {d} \in Admissible(con, pool))
<1> DEFINE sub == FilterCardPool(con, pool)
           rest == S \ {c}
           Free(chars) == con.empty \/ con.leads = {} \/ con.leads \cap chars # {}
<1>1. /\ S \in TeamSets(sub) /\ IsFiniteSet(S) /\ Cardinality(S) = TeamSize /\ OfDistinctChars(S)
      /\ P \subseteq sub /\ IsFiniteSet(P) /\ Cardinality(P) = TeamSize /\ OfDistinctChars(P)
      /\ IsFiniteSet(sub)
  <2>1. sub \subseteq pool
    BY DEF FilterCardPool
  <2>2. IsFiniteSet(sub)
    BY <2>1, FS_Subset
  <2>3. S \in TeamSets(sub) /\ IsFiniteSet(S) /\ Cardinality(S) = TeamSize /\ OfDistinctChars(S)
    BY AdmissibleTeams
  <2>4. P \subseteq sub /\ IsFiniteSet(P) /\ Cardinality(P) = TeamSize /\ OfDistinctChars(P)
    BY AdmissibleTeams
  <2>5. QED
    BY <2>2, <2>3, <2>4
<1>2. \A chars : Con!CharacterSetSatisfies(con, chars) <=> Free(chars)
  BY DEF Con!CharacterSetSatisfies
<1>3. Free(CharsIn(S)) /\ Free(CharsIn(P))
  BY <1>2, AdmissibleTeams
<1> HIDE DEF sub
<1>4. ASSUME NEW d \in P, d \notin S, \A x \in S : CharOf(x) = CharOf(d) => x = c,
             Free(CharsIn(rest \cup {d}))
      PROVE  rest \cup {d} \in Admissible(con, pool)
  <2>1. rest \cup {d} \in TeamSets(sub)
    BY <1>1, <1>4, SwapTeam
  <2>2. Con!CharacterSetSatisfies(con, CharsIn(rest \cup {d}))
    BY <1>2, <1>4
  <2>3. QED
    BY <2>1, <2>2 DEF Admissible, sub
<1>5. CASE \E d \in P : CharOf(d) = CharOf(c)
  <2>1. PICK d \in P : CharOf(d) = CharOf(c)
    BY <1>5
  <2>2. CASE d = c
    BY <2>2
  <2>3. CASE d # c
    <3>1. d \notin S /\ \A x \in S : CharOf(x) = CharOf(d) => x = c
      BY <1>1, <2>1, <2>3 DEF OfDistinctChars
    <3>2. CharsIn(rest \cup {d}) = CharsIn(S)
      BY <2>1 DEF CharsIn
    <3>3. rest \cup {d} \in Admissible(con, pool)
      BY <1>3, <1>4, <3>1, <3>2
    <3>4. QED
      BY <3>1, <3>3
  <2>4. QED
    BY <2>2, <2>3
<1>6. CASE CharOf(c) \notin CharsIn(P)
  <2>1. ASSUME NEW d \in P, CharOf(d) \notin CharsIn(S), Free(CharsIn(rest \cup {d}))
        PROVE  d \notin S /\ rest \cup {d} \in Admissible(con, pool)
    <3>1. d \notin S /\ \A x \in S : CharOf(x) # CharOf(d)
      BY <2>1 DEF CharsIn
    <3>2. QED
      BY <1>4, <2>1, <3>1
  <2>2. CASE con.empty \/ con.leads = {} \/ \E x \in rest : CharOf(x) \in con.leads
    <3>1. PICK d \in P : CharOf(d) \notin CharsIn(S)
      BY <1>1, <1>6, OtherCharacter
    <3>2. Free(CharsIn(rest \cup {d}))
      BY <2>2 DEF CharsIn
    <3>3. QED
      BY <2>1, <3>1, <3>2
  <2>3. CASE ~(con.empty \/ con.leads = {} \/ \E x \in rest : CharOf(x) \in con.leads)
    <3>1. con.leads \cap CharsIn(P) # {}
      BY <1>3, <2>3
    <3>2. PICK d \in P : CharOf(d) \in con.leads
      BY <3>1 DEF CharsIn
    <3>3. CharOf(d) \notin CharsIn(S)
      <4>1. CharOf(d) # CharOf(c)
        BY <1>6 DEF CharsIn
      <4>2. \A x \in S : x = c \/ CharOf(x) \notin con.leads
        BY <2>3
      <4>3. QED
        BY <3>2, <4>1, <4>2 DEF CharsIn
    <3>4. Free(CharsIn(rest \cup {d}))
      BY <3>2 DEF CharsIn
    <3>5. QED
      BY <2>1, <3>3, <3>4
  <2>4. QED
    BY <2>2, <2>3
<1>7. QED
  BY <1>5, <1>6 DEF CharsIn

\* So a team has at most what the best has, with the card for one of the least.
LEMMA ExchangeBound ==
  ASSUME NEW con, con.pairs = <<>>, NEW pool, IsFiniteSet(pool), NEW f, \A x \in pool : f[x] \in Int,
         NEW P \in Admissible(con, pool),
         \A T \in Admissible(con, pool) : SetSum(f, T) <= SetSum(f, P),
         NEW low \in Int, \A d \in P : low <= f[d],
         NEW S \in Admissible(con, pool), NEW c \in S
  PROVE  SetSum(f, S) <= SetSum(f, P) - low + f[c]
<1>1. ASSUME NEW T \in Admissible(con, pool)
      PROVE  T \subseteq pool /\ IsFiniteSet(T) /\ SetSum(f, T) \in Int
  <2>1. T \subseteq pool /\ IsFiniteSet(T)
    BY AdmissibleTeams
  <2>2. \A x \in T : f[x] \in Int
    BY <2>1
  <2>3. QED
    BY <2>1, <2>2, SetSumInt
<1>2. PICK d \in P : d = c \/ (d \notin S /\ (S \ {c}) \cup {d} \in Admissible(con, pool))
  BY TakesPlace
<1>3. c \in pool /\ d \in pool /\ f[c] \in Int /\ f[d] \in Int /\ low <= f[d]
  BY <1>1
<1>4. CASE d = c
  <2>1. SetSum(f, S) <= SetSum(f, P) /\ SetSum(f, S) \in Int /\ SetSum(f, P) \in Int
    BY <1>1
  <2>2. QED
    BY <1>3, <1>4, <2>1
<1>5. CASE d \notin S /\ (S \ {c}) \cup {d} \in Admissible(con, pool)
  <2> DEFINE T == (S \ {c}) \cup {d}
  <2>1. SetSum(f, T) = SetSum(f, S) - f[c] + f[d]
    <3>1. IsFiniteSet(S) /\ d \notin S /\ \A x \in S \cup {d} : f[x] \in Int
      BY <1>1, <1>3, <1>5
    <3>2. QED
      BY <3>1, SwapSum
  <2>2. T \in Admissible(con, pool)
    BY <1>5
  <2> HIDE DEF T
  <2>3. SetSum(f, T) <= SetSum(f, P) /\ SetSum(f, T) \in Int /\ SetSum(f, S) \in Int /\ SetSum(f, P) \in Int
    BY <1>1, <2>2
  <2>4. QED
    BY <1>3, <2>1, <2>3
<1>6. QED
  BY <1>2, <1>4, <1>5

\* A sum of whole percents is one.
LEMMA WholeSum ==
  ASSUME NEW f, NEW S, IsFiniteSet(S), \A x \in S : f[x] \in Nat /\ f[x] % 100 = 0
  PROVE  \E n \in Nat : SetSum(f, S) = 100 * n
<1> DEFINE Whole(T) == \E n \in Nat : SetSum(f, T) = 100 * n
           Bad == {T \in SUBSET S : ~Whole(T)}
<1> SUFFICES ASSUME Bad # {} PROVE FALSE
  OBVIOUS
<1>1. PICK T \in Bad : \A U \in SUBSET T : U \in Bad => U = T
  <2>1. Bad \in SUBSET SUBSET S
    OBVIOUS
  <2> HIDE DEF Bad
  <2>2. QED
    BY <2>1, SmallestSubset
<1>2. T \in SUBSET S /\ IsFiniteSet(T) /\ ~Whole(T)
  BY <1>1, FS_Subset
<1>3. T # {}
  <2>1. SetSum(f, {}) = 100 * 0
    BY SetSumEmpty
  <2>2. Whole({})
    BY <2>1
  <2> HIDE DEF Whole
  <2>3. QED
    BY <1>2, <2>2
<1> DEFINE x == Chosen(T)
           U == T \ {x}
<1>4. x \in T
  BY <1>3, ChosenIn
<1>5. Whole(U)
  <2> HIDE DEF Whole
  <2>1. U \in SUBSET S /\ U \in SUBSET T /\ U # T
    BY <1>2, <1>4
  <2>2. QED
    BY <1>1, <2>1
<1>6. SetSum(f, T) = f[x] + SetSum(f, U)
  BY <1>2, <1>3, SetSumChosen
<1>7. f[x] \in Nat /\ f[x] % 100 = 0
  BY <1>2, <1>4
<1> HIDE DEF x, U
<1>8. PICK m \in Nat : f[x] = 100 * m
  BY <1>7, WholePercents
<1>9. PICK n \in Nat : SetSum(f, U) = 100 * n
  BY <1>5
<1>10. SetSum(f, T) = 100 * (m + n) /\ m + n \in Nat
  BY <1>6, <1>8, <1>9
<1>11. QED
  BY <1>2, <1>10

\* Power decided by the cards alone, and whole bonuses.
PlainPool(pool) ==
  /\ PlainBonuses(pool) /\ GrowingPool(pool)
  /\ \A c \in pool : c.eventBonus % 100 = 0 /\ \A m \in Matches : c.power[m] = MaxPower(c)

\* Without rules in force nothing is capped.
LEMMA UncappedPower ==
  ASSUME NEW pool, NEW q, GrowingPool(pool), q.bonus.bonusPower \in Int,
         NEW S \in TeamSets(pool), NEW s, Lists(s, S),
         NEW f, \A c \in S : f[c] = c.power[MatchIn(S)]
  PROVE  Power(Team(s, 0), q) = q.bonus.bonusPower + SetSum(f, S)
<1>1. Power(Team(s, 0), q) = Capped(q.bonus.bonusPower + SetSum(f, S), CapOf(0))
  <2>1. ASSUME NEW wl
        PROVE  Power(Team(s, wl), q) = Capped(q.bonus.bonusPower + SetSum(f, S), CapOf(wl))
    BY PowerOfTeam
  <2>2. QED
    BY <2>1
<1>2. QED
  BY <1>1 DEF Capped, CapOf, NoCap

\* The power of a team is no more than the greatest, with any of its cards for the least card of
\* the most powerful team.
LEMMA PowerBound ==
  ASSUME NEW con, con.pairs = <<>>, NEW pool, PlainPool(pool), NEW q, q.bonus.bonusPower \in Nat,
         NEW P \in Admissible(con, pool), NEW s, Lists(s, P),
         \A T \in Admissible(con, pool) : Power(AsTeam(T, 0), q) <= Power(Team(s, 0), q),
         NEW S \in Admissible(con, pool)
  PROVE  /\ Power(AsTeam(S, 0), q) \in Nat /\ Power(Team(s, 0), q) \in Nat
         /\ MinPowerContrib(Team(s, 0)) \in Nat
         /\ \A c \in S : /\ MaxPower(c) \in Nat
                         /\ Power(AsTeam(S, 0), q)
                              <= Power(Team(s, 0), q) - MinPowerContrib(Team(s, 0)) + MaxPower(c)
<1> DEFINE f == [c \in pool |-> MaxPower(c)]
           bp == q.bonus.bonusPower
           low == MinPowerContrib(Team(s, 0))
<1>1. /\ IsFiniteSet(pool) /\ GrowingPool(pool)
      /\ \A c \in pool : \A m \in Matches : c.power[m] = MaxPower(c) /\ c.power[m] \in Nat
  BY DEF PlainPool, PlainBonuses, GrowingPool
<1>2. \A c \in pool : f[c] = MaxPower(c) /\ f[c] \in Nat
  <2>1. \E m : m \in Matches
    BY MatchType
  <2>2. QED
    BY <1>1, <2>1
<1> HIDE DEF f
<1>4. ASSUME NEW T \in Admissible(con, pool)
      PROVE  /\ T \in TeamSets(pool) /\ T \subseteq pool /\ IsFiniteSet(T) /\ SetSum(f, T) \in Nat
             /\ \A c \in T : f[c] = c.power[MatchIn(T)]
  <2>1. T \in TeamSets(pool) /\ T \subseteq pool /\ IsFiniteSet(T)
    BY <1>1, AdmissibleTeams
  <2>2. \A c \in T : f[c] = c.power[MatchIn(T)] /\ f[c] \in Nat
    BY <1>1, <1>2, <2>1, MatchType
  <2>3. SetSum(f, T) \in Nat
    BY <2>1, <2>2, SetSumNat
  <2>4. QED
    BY <2>1, <2>2, <2>3
<1>5. ASSUME NEW T \in Admissible(con, pool), NEW t, Lists(t, T)
      PROVE  Power(Team(t, 0), q) = bp + SetSum(f, T)
  <2>1. q.bonus.bonusPower \in Int /\ T \in TeamSets(pool) /\ \A c \in T : f[c] = c.power[MatchIn(T)]
    BY <1>4
  <2>2. QED
    BY <1>1, <1>5, <2>1, UncappedPower
<1>6. ASSUME NEW T \in Admissible(con, pool)
      PROVE  Power(AsTeam(T, 0), q) = bp + SetSum(f, T)
  <2>1. Lists(SetToSeq(T), T)
    BY <1>4, SeqLists
  <2>2. QED
    BY <1>5, <2>1 DEF AsTeam
<1>7. low \in Nat /\ \A d \in P : low <= f[d]
  <2> DEFINE powers == {c.power[MatchOf(s)] : c \in Range(s)}
  <2>1. Range(s) = P /\ P # {} /\ P \subseteq pool
    <3>1. P # {}
      BY <1>1, AdmissibleTeams
    <3>2. Range(s) = P
      BY <1>4, ListRange
    <3>3. QED
      BY <1>4, <3>1, <3>2
  <2>2. MatchOf(s) \in Matches
    BY <2>1, MatchOfList, MatchType
  <2>3. powers = {f[c] : c \in P}
    BY <1>1, <1>2, <2>1, <2>2
  <2>4. \A x \in powers : x \in Nat
    BY <1>2, <2>1, <2>3
  <2>5. powers # {}
    BY <2>1, <2>3
  <2>6. low = Least(powers)
    BY DEF MinPowerContrib, LeastPowerUnder, Team
  <2>7. \A d \in P : f[d] \in powers
    BY <2>3
  <2> HIDE DEF powers, low
  <2>8. Least(powers) \in powers /\ \A x \in powers : Least(powers) <= x
    BY <2>4, <2>5, LeastOfNats
  <2>9. QED
    BY <2>4, <2>6, <2>7, <2>8
<1> HIDE DEF low, bp
<1>8. \A T \in Admissible(con, pool) : SetSum(f, T) <= SetSum(f, P)
  <2> TAKE T \in Admissible(con, pool)
  <2>1. bp + SetSum(f, T) <= bp + SetSum(f, P)
    BY <1>5, <1>6
  <2>2. SetSum(f, T) \in Nat /\ SetSum(f, P) \in Nat /\ bp \in Nat
    BY <1>4 DEF bp
  <2>3. QED
    BY <2>1, <2>2
<1>9. ASSUME NEW c \in S
      PROVE  MaxPower(c) \in Nat /\ bp + SetSum(f, S) <= (bp + SetSum(f, P)) - low + MaxPower(c)
  <2>1. SetSum(f, S) <= SetSum(f, P) - low + f[c]
    <3>1. \A x \in pool : f[x] \in Int
      BY <1>2
    <3>2. low \in Int
      BY <1>7
    <3>3. QED
      BY <1>1, <1>7, <1>8, <3>1, <3>2, ExchangeBound
  <2>2. c \in pool /\ f[c] = MaxPower(c) /\ f[c] \in Nat
    BY <1>2, <1>4
  <2>3. SetSum(f, S) \in Nat /\ SetSum(f, P) \in Nat /\ bp \in Nat
    BY <1>4 DEF bp
  <2>4. QED
    BY <1>7, <2>1, <2>2, <2>3
<1>10. bp + SetSum(f, S) \in Nat /\ bp + SetSum(f, P) \in Nat
  BY <1>4 DEF bp
<1>11. QED
  BY <1>5, <1>6, <1>7, <1>9, <1>10 DEF low

\* So it is with the bonus, in whole percents.
InPercent(b, s, S, k, most, low) ==
  /\ TeamEventBonus(AsTeam(S, 0), b) = 100 * k
  /\ TeamEventBonus(Team(s, 0), b) = 100 * most
  /\ MinBonusContrib(Team(s, 0)) = 100 * low
  /\ \A c \in S : \E x \in Nat : c.eventBonus = 100 * x /\ k <= most - low + x
LEMMA BonusBound ==
  ASSUME NEW con, con.pairs = <<>>, NEW pool, PlainPool(pool), NEW b, ~b.hasDiff,
         NEW P \in Admissible(con, pool), NEW s, Lists(s, P),
         \A T \in Admissible(con, pool) : TeamEventBonus(AsTeam(T, 0), b) <= TeamEventBonus(Team(s, 0), b),
         NEW S \in Admissible(con, pool)
  PROVE  \E k, most, low \in Nat : InPercent(b, s, S, k, most, low)
<1> DEFINE f == [c \in pool |-> c.eventBonus]
           least == MinBonusContrib(Team(s, 0))
<1>1. /\ IsFiniteSet(pool) /\ PlainBonuses(pool)
      /\ \A c \in pool : c.eventBonus \in Nat /\ c.eventBonus % 100 = 0
  BY DEF PlainPool, PlainBonuses
<1>2. \A c \in pool : f[c] = c.eventBonus /\ f[c] \in Nat /\ f[c] % 100 = 0
  BY <1>1
<1> HIDE DEF f
<1>3. ASSUME NEW T \in Admissible(con, pool)
      PROVE  /\ T \in TeamSets(pool) /\ T \subseteq pool /\ IsFiniteSet(T)
             /\ \A c \in T : f[c] = c.eventBonus
             /\ \E n \in Nat : SetSum(f, T) = 100 * n
  <2>1. T \in TeamSets(pool) /\ T \subseteq pool /\ IsFiniteSet(T)
    BY <1>1, AdmissibleTeams
  <2>2. \A c \in T : f[c] = c.eventBonus /\ f[c] \in Nat /\ f[c] % 100 = 0
    BY <1>2, <2>1
  <2>3. \E n \in Nat : SetSum(f, T) = 100 * n
    BY <2>1, <2>2, WholeSum
  <2>4. QED
    BY <2>1, <2>2, <2>3
<1>4. ASSUME NEW T \in Admissible(con, pool), NEW t, Lists(t, T)
      PROVE  TeamEventBonus(Team(t, 0), b) = SetSum(f, T)
  BY <1>1, <1>3, <1>4, BonusOfTeam
<1>5. ASSUME NEW T \in Admissible(con, pool)
      PROVE  TeamEventBonus(AsTeam(T, 0), b) = SetSum(f, T)
  <2>1. Lists(SetToSeq(T), T)
    BY <1>3, SeqLists
  <2>2. QED
    BY <1>4, <2>1 DEF AsTeam
<1>6. (\A d \in P : least <= f[d]) /\ \E d \in P : least = f[d]
  <2> DEFINE bonuses == {c.eventBonus : c \in Range(s)}
  <2>1. Range(s) = P /\ P # {} /\ P \subseteq pool
    <3>1. P # {}
      BY <1>1, AdmissibleTeams
    <3>2. Range(s) = P
      BY <1>3, ListRange
    <3>3. QED
      BY <1>3, <3>1, <3>2
  <2>2. bonuses = {f[c] : c \in P}
    BY <1>2, <2>1
  <2>3. \A x \in bonuses : x \in Nat
    BY <1>2, <2>1, <2>2
  <2>4. bonuses # {}
    BY <2>1, <2>2
  <2>5. least = Least(bonuses)
    BY DEF MinBonusContrib, Team
  <2>6. (\A d \in P : f[d] \in bonuses) /\ \A x \in bonuses : \E d \in P : x = f[d]
    BY <2>2
  <2> HIDE DEF bonuses, least
  <2>7. Least(bonuses) \in bonuses /\ \A x \in bonuses : Least(bonuses) <= x
    BY <2>3, <2>4, LeastOfNats
  <2>8. QED
    BY <2>5, <2>6, <2>7
<1> HIDE DEF least
<1>7. PICK low \in Nat : least = 100 * low
  <2>1. PICK d \in P : least = f[d]
    BY <1>6
  <2>2. f[d] \in Nat /\ f[d] % 100 = 0
    BY <1>2, <1>3
  <2>3. QED
    BY <2>1, <2>2, WholePercents
<1>8. PICK k \in Nat : SetSum(f, S) = 100 * k
  BY <1>3
<1>9. PICK most \in Nat : SetSum(f, P) = 100 * most
  BY <1>3
<1>10. ASSUME NEW c \in S
       PROVE  \E x \in Nat : c.eventBonus = 100 * x /\ k <= most - low + x
  <2>1. SetSum(f, S) <= SetSum(f, P) - least + f[c]
    <3>1. \A x \in pool : f[x] \in Int
      BY <1>2
    <3>2. least \in Int
      BY <1>7
    <3>3. \A T \in Admissible(con, pool) : SetSum(f, T) <= SetSum(f, P)
      BY <1>4, <1>5
    <3>4. QED
      BY <1>1, <1>6, <3>1, <3>2, <3>3, ExchangeBound
  <2>2. c \in pool /\ f[c] = c.eventBonus /\ f[c] \in Nat /\ f[c] % 100 = 0
    BY <1>2, <1>3
  <2>3. PICK x \in Nat : f[c] = 100 * x
    BY <2>2, WholePercents
  <2>4. k <= most - low + x
    BY <1>7, <1>8, <1>9, <2>1, <2>3
  <2>5. QED
    BY <2>2, <2>3, <2>4
<1>11. TeamEventBonus(AsTeam(S, 0), b) = 100 * k
  BY <1>5, <1>8
<1>12. TeamEventBonus(Team(s, 0), b) = 100 * most
  BY <1>4, <1>9
<1>13. QED
  BY <1>7, <1>10, <1>11, <1>12 DEF least, InPercent

\* A team with a card of too little power earns no more than ep,
LEMMA PowerPruned ==
  ASSUME NEW e, SoundEstimator(e), NEW ep \in Nat, NEW skill \in Nat, skill <= kMaxSkillValue,
         NEW power \in Nat, NEW eb \in Nat, NEW maxPower \in Nat, NEW low \in Nat, NEW x \in Nat,
         NEW maxEb \in Nat, eb <= maxEb, power <= maxPower - low + x,
         x < Greater(0, MinRequiredPower(e, ep, maxEb, kMaxSkillValue) - maxPower + low)
  PROVE  ExpectedEp(e, power, eb, skill, skill) \div Point <= ep
<1> DEFINE required == MinRequiredPower(e, ep, maxEb, kMaxSkillValue)
           most == ExpectedEp(e, power, maxEb, kMaxSkillValue, kMaxSkillValue)
           own == ExpectedEp(e, power, eb, skill, skill)
<1>1. kMaxSkillValue \in Nat
  BY ScoresAssumption
<1>2. required \in Int /\ \A p \in Nat : p < required =>
        ExpectedEp(e, p, maxEb, kMaxSkillValue, kMaxSkillValue) \div Point <= ep
  BY <1>1, PowerTooSmall
<1> HIDE DEF required
<1>3. x < Greater(0, required - maxPower + low)
  BY DEF required
<1>4. power < required
  BY <1>2, <1>3 DEF Greater
<1>5. most \div Point <= ep
  BY <1>2, <1>4
<1>6. own \in Int /\ most \in Int /\ own <= most
  <2>1. power <= power
    OBVIOUS
  <2>2. own \in Int /\ most \in Int
    BY <1>1, <2>1, PointsGrow
  <2>3. own <= most
    BY <1>1, <2>1, PointsGrow
  <2>4. QED
    BY <2>2, <2>3
<1> HIDE DEF own, most
<1>7. own \div Point \in Int /\ most \div Point \in Int /\ own \div Point <= most \div Point
  BY <1>6, DivGrows DEF Point
<1> DEFINE u == own \div Point
           v == most \div Point
<1>8. u \in Int /\ v \in Int /\ u <= v /\ v <= ep
  BY <1>5, <1>7
<1> HIDE DEF u, v
<1>9. u <= ep
  BY <1>8
<1>10. QED
  BY <1>9 DEF u, own

\* and so does one with a card of too little bonus.
LEMMA BonusPruned ==
  ASSUME NEW e, SoundEstimator(e), NEW ep \in Nat, NEW skill \in Nat, skill <= kMaxSkillValue,
         NEW power \in Nat, NEW maxPower \in Nat, power <= maxPower,
         NEW k \in Nat, NEW most \in Nat, NEW low \in Nat, NEW x \in Nat, k <= most - low + x,
         100 * x < 100 * Greater(0, MinRequiredBonus(e, ep, maxPower, kMaxSkillValue) - most + low)
  PROVE  ExpectedEp(e, power, 100 * k, skill, skill) \div Point <= ep
<1> DEFINE required == MinRequiredBonus(e, ep, maxPower, kMaxSkillValue)
           limit == ExpectedEp(e, maxPower, 100 * k, kMaxSkillValue, kMaxSkillValue)
           own == ExpectedEp(e, power, 100 * k, skill, skill)
<1>1. kMaxSkillValue \in Nat /\ 100 * k \in Nat
  BY ScoresAssumption
<1>2. required \in Int /\ \A j \in Nat : j < required =>
        ExpectedEp(e, maxPower, 100 * j, kMaxSkillValue, kMaxSkillValue) \div Point <= ep
  BY <1>1, BonusTooSmall
<1> HIDE DEF required
<1>3. 100 * x < 100 * Greater(0, required - most + low)
  BY DEF required
<1>4. k < required
  BY <1>2, <1>3 DEF Greater
<1>5. limit \div Point <= ep
  BY <1>2, <1>4
<1>6. own \in Int /\ limit \in Int /\ own <= limit
  <2>1. 100 * k <= 100 * k
    OBVIOUS
  <2> DEFINE eb == 100 * k
  <2>2. eb \in Nat /\ eb <= eb
    BY <1>1, <2>1
  <2> HIDE DEF eb
  <2>3. ExpectedEp(e, power, eb, skill, skill) \in Int
    BY <1>1, <2>2, PointsGrow
  <2>4. ExpectedEp(e, maxPower, eb, kMaxSkillValue, kMaxSkillValue) \in Int
    BY <1>1, <2>2, PointsGrow
  <2>5. ExpectedEp(e, power, eb, skill, skill)
          <= ExpectedEp(e, maxPower, eb, kMaxSkillValue, kMaxSkillValue)
    BY <1>1, <2>2, PointsGrow
  <2>6. QED
    BY <2>3, <2>4, <2>5 DEF eb
<1> HIDE DEF own, limit
<1>7. own \div Point \in Int /\ limit \div Point \in Int /\ own \div Point <= limit \div Point
  BY <1>6, DivGrows DEF Point
<1> DEFINE u == own \div Point
           v == limit \div Point
<1>8. u \in Int /\ v \in Int /\ u <= v /\ v <= ep
  BY <1>5, <1>7
<1> HIDE DEF u, v
<1>9. u <= ep
  BY <1>8
<1>10. QED
  BY <1>9 DEF u, own

-----------------------------------------------------------------------------
(* What the search starts from.                                            *)

\* Both versions of a card have the bonus of its state.
LEMMA VersionsBonus ==
  ASSUME NEW p, NEW b, NEW c \in TeamBuilderCardPool(ApplyEventBonus(NewProfile(p), b)),
         NEW d \in TeamBuilderCardPool(ApplyEventBonus(NewProfile(p), b)), c.id = d.id
  PROVE  c.eventBonus = d.eventBonus
<1> DEFINE OfState(id) == b.cards[id] + b.deck[<<CardTable[id].char, CardTable[id].attr, PrimaryUnit(id)>>]
                            + b.mr[CardTable[id].rarity][p.cards[id].masterRank + 1]
<1>1. ASSUME NEW x \in TeamBuilderCardPool(ApplyEventBonus(NewProfile(p), b))
      PROVE  x.eventBonus = OfState(x.id)
  <2>1. PICK id \in DOMAIN p.cards \cap CardIds : \E second \in BOOLEAN : x = CardIn(id, p, second, b)
    BY PoolMade
  <2>2. PICK second \in BOOLEAN : x = CardIn(id, p, second, b)
    BY <2>1
  <2> DEFINE y == ApplyProfilePowerBonus(NewCard(id, p.cards[id], second), ProfileBonus(p))
  <2>3. y.id = id /\ y.state = p.cards[id] /\ CardFields \subseteq DOMAIN y
    BY PowerKeeps DEF ApplyProfilePowerBonus
  <2> HIDE DEF y
  <2>4. ApplyToCard(y, b).id = id /\ ApplyToCard(y, b).eventBonus = MainBonusOf(y, b)
    BY <2>3, ApplyKeeps
  <2>5. MainBonusOf(y, b) = OfState(id)
    BY <2>3 DEF MainBonusOf, CardCell
  <2>6. x = ApplyToCard(y, b)
    BY <2>2 DEF CardIn, y
  <2> HIDE DEF OfState
  <2>7. QED
    BY <2>4, <2>5, <2>6
<1>2. c.eventBonus = OfState(c.id) /\ d.eventBonus = OfState(d.id)
  BY <1>1
<1> HIDE DEF OfState
<1>3. QED
  BY <1>2

\* So teams of other versions have the same bonus.
LEMMA SameBonus ==
  ASSUME NEW pool, PlainBonuses(pool), \A c, d \in pool : c.id = d.id => c.eventBonus = d.eventBonus,
         NEW b, ~b.hasDiff, NEW S \in TeamSets(pool), NEW s, Lists(s, S), NEW T \in TeamSets(pool), NEW t, Lists(t, T),
         \A i \in 1..TeamSize : t[i].id = s[i].id
  PROVE  TeamEventBonus(Team(s, 0), b) = TeamEventBonus(Team(t, 0), b)
<1> DEFINE f == [c \in pool |-> c.eventBonus]
           n == TeamSize
<1>1. /\ S \subseteq pool /\ IsFiniteSet(S) /\ Cardinality(S) = n
      /\ T \subseteq pool /\ IsFiniteSet(T) /\ Cardinality(T) = n /\ n \in Nat
  BY FS_Subset, EventDataAssumption DEF TeamSets, kSubset, PlainBonuses
<1>2. s \in [1..n -> pool] /\ t \in [1..n -> pool]
  BY <1>1 DEF Lists
<1>3. \A c \in pool : f[c] = c.eventBonus /\ f[c] \in Int
  BY DEF PlainBonuses
<1> HIDE DEF f
<1>4. ASSUME NEW U \in TeamSets(pool), U \subseteq pool, IsFiniteSet(U), NEW u, Lists(u, U)
      PROVE  TeamEventBonus(Team(u, 0), b) = Folded(SumOf(f), u)
  <2>1. \A c \in U : f[c] = c.eventBonus /\ f[c] \in Int
    BY <1>3, <1>4
  <2>2. Folded(SumOf(f), u) = SetSum(f, U)
    BY <1>4, <2>1, ListedSum
  <2>3. ASSUME NEW wl
        PROVE  TeamEventBonus(Team(u, wl), b) = SetSum(f, U)
    BY <1>4, <2>1, BonusOfTeam
  <2>4. QED
    BY <2>2, <2>3
<1>5. \A i \in 1..n : f[s[i]] = f[t[i]]
  <2> TAKE i \in 1..n
  <2>1. s[i] \in pool /\ t[i] \in pool /\ t[i].id = s[i].id
    BY <1>2
  <2>2. QED
    BY <1>3, <2>1
<1> HIDE DEF n
<1>6. Folded(SumOf(f), s) = Folded(SumOf(f), t)
  <2>1. s \in Seq(pool) /\ t \in Seq(pool) /\ Len(s) = n /\ Len(t) = n
    BY <1>1, <1>2
  <2>2. Len(s) = Len(t) /\ \A i \in 1..Len(s) : f[s[i]] = f[t[i]]
    BY <1>5, <2>1
  <2>3. QED
    BY <2>1, <2>2, SameSums
<1>7. TeamEventBonus(Team(s, 0), b) = Folded(SumOf(f), s)
  BY <1>1, <1>4
<1>8. TeamEventBonus(Team(t, 0), b) = Folded(SumOf(f), t)
  BY <1>1, <1>4
<1>9. QED
  BY <1>6, <1>7, <1>8

\* The pool of the page: cards with power and bonuses.
LEMMA PagePool ==
  ASSUME PlanInv
  PROVE  LET pool == TeamBuilderCardPool(profile)
         IN /\ ProfileCards(profile) /\ PowersOf(profile, proto) /\ PowerRates(profile.bonus)
            /\ PoolPower(pool, profile.bonus) /\ IsFiniteSet(pool)
            /\ \A c \in pool : c.id \in CardIds /\ c.eventBonus \in Nat
            /\ \A c, d \in pool : c.id = d.id => c.eventBonus = d.eventBonus
<1> DEFINE pool == TeamBuilderCardPool(profile)
<1>1. ProfileCards(profile) /\ PowersOf(profile, proto)
  BY PowersMade DEF PlanInv, PageInv, ProfileInStep
<1>2. PowerRates(profile.bonus)
  <2>1. proto.title \in Nat
    BY DEF PlanInv, PageInv, Loadable
  <2>2. profile.bonus = ProfileBonus(proto)
    BY <1>1 DEF PowersOf
  <2>3. QED
    BY <2>1, <2>2, RatesMade
<1>3. PoolPower(pool, profile.bonus) /\ IsFiniteSet(pool)
  BY <1>1, PoolHasPower DEF PoolPower
<1>4. \A c \in pool : c.id \in CardIds /\ c.eventBonus \in Nat
  BY <1>1, BuilderPoolCards DEF ProfileCards, CardOf
<1>5. \A c, d \in pool : c.id = d.id => c.eventBonus = d.eventBonus
  <2>1. profile = ApplyEventBonus(NewProfile(proto), eventBonus)
    BY DEF PlanInv, ProfileInStep
  <2>2. QED
    BY <2>1, VersionsBonus
<1>6. QED
  BY <1>1, <1>2, <1>3, <1>4, <1>5

\* An answer lists an admissible team, and before the versions were chosen it was one of these.
LEMMA AnswerLists ==
  ASSUME PlanInv, NEW con, Con!SoundObject(con), NEW teams,
         \A s \in teams : \E S \in Admissible(con, TeamBuilderCardPool(profile)) : Lists(s, S),
         NEW t \in Finalized(profile, Estimate, teams)
  PROVE  \E s \in teams :
           /\ s \in [1..TeamSize -> TeamBuilderCardPool(profile)]
           /\ t \in [1..TeamSize -> TeamBuilderCardPool(profile)]
           /\ \A i \in 1..TeamSize : t[i].id = s[i].id
           /\ \E T \in Admissible(con, TeamBuilderCardPool(profile)) : Lists(t, T)
<1> DEFINE pool == TeamBuilderCardPool(profile)
           n == TeamSize
           est == Estimate
<1>1. n \in Nat /\ ProfileCards(profile) /\ IsFiniteSet(pool)
  BY EventDataAssumption, PagePool
<1>2. PICK s \in teams : t \in OptimizeSkillSelection(profile, est, s)
  BY DEF Finalized
<1>3. PICK S \in Admissible(con, pool) : Lists(s, S)
  OBVIOUS
<1>4. s \in [1..n -> pool]
  <2>1. S \subseteq pool /\ Cardinality(S) = n
    BY <1>1, AdmissibleTeams
  <2>2. QED
    BY <1>3, <2>1 DEF Lists
<1>5. \A r \in [1..n -> pool] : est[r] \in Int
  BY EstimateInt
<1> HIDE DEF est, n
<1>6. t \in [1..n -> pool] /\ \A i \in 1..n : t[i].id = s[i].id
  BY <1>1, <1>2, <1>4, <1>5, SomeChoice
<1>7. \E T \in Admissible(con, pool) : Lists(t, T)
  <2>1. t \in [1..TeamSize -> pool] /\ \A i \in 1..TeamSize : t[i].id = s[i].id
    BY <1>6 DEF n
  <2>2. QED
    BY <1>1, <1>3, <2>1, VersionsAdmissible
<1>8. QED
  BY <1>4, <1>6, <1>7 DEF n

\* Power and bonus of a team that is admitted.
LEMMA AdmissibleNumbers ==
  ASSUME PlanInv, NEW con, NEW S \in Admissible(con, TeamBuilderCardPool(profile))
  PROVE  Power(AsTeam(S, 0), profile) \in Nat /\ TeamEventBonus(AsTeam(S, 0), eventBonus) \in Nat
<1> DEFINE pool == TeamBuilderCardPool(profile)
           n == TeamSize
<1>1. ProfileCards(profile) /\ PowerRates(profile.bonus) /\ PoolPower(pool, profile.bonus) /\ IsFiniteSet(pool)
  BY PagePool
<1>2. S \in TeamSets(pool) /\ S \subseteq pool /\ IsFiniteSet(S) /\ Cardinality(S) = n /\ n \in Nat
  BY <1>1, AdmissibleTeams, EventDataAssumption
<1>3. SetToSeq(S) \in [1..n -> pool]
  <2>1. Lists(SetToSeq(S), S)
    BY <1>2, SeqLists
  <2>2. QED
    BY <1>2, <2>1 DEF Lists
<1>4. ASSUME NEW wl
      PROVE  /\ Power(Team(SetToSeq(S), wl), profile) \in Nat
             /\ TeamEventBonus(AsTeam(S, wl), eventBonus) \in Nat
  <2>1. TeamEventBonus(AsTeam(S, wl), eventBonus) \in Nat
    BY <1>1, <1>2, TeamBonusNat
  <2> HIDE DEF pool, n
  <2>2. Power(Team(SetToSeq(S), wl), profile) \in Nat
    BY <1>1, <1>2, <1>3, CardsPowerNat
  <2>3. QED
    BY <2>1, <2>2
<1>5. QED
  BY <1>4 DEF AsTeam

\* The entry of the lookup table brackets what the team earns.
LEMMA TableBrackets ==
  ASSUME PlanInv, NEW con, NEW S \in Admissible(con, TeamBuilderCardPool(profile)),
         Percent(ConstrainedMaxSkillValue(AsTeam(S, 0), Leads(con, S))) \in kMinSkillValue..kMaxSkillValue
  PROVE  BracketsTeam(EstimatorFor[mode], S, Leads(con, S))
<1> DEFINE e == EstimatorFor[mode]
           p == Power(AsTeam(S, 0), profile)
           eb == TeamEventBonus(AsTeam(S, 0), eventBonus)
           skill == Percent(ConstrainedMaxSkillValue(AsTeam(S, 0), Leads(con, S)))
<1>1. SoundEstimator(e)
  BY EstimatorSound DEF PlanInv, ModeKnown
<1>2. p \in Nat /\ eb \in Nat
  BY AdmissibleNumbers
<1>3. EpPoints(e, profile, eventBonus, AsTeam(S, 0), Leads(con, S)) = ExpectedEp(e, p, eb, skill, skill) \div Point
  BY DEF EpPoints, EpWithBonus
<1>4. skill \in kMinSkillValue..kMaxSkillValue
  OBVIOUS
<1> DEFINE ep == EpPoints(e, profile, eventBonus, AsTeam(S, 0), Leads(con, S))
<1>5. BracketsTeam(e, S, Leads(con, S)) <=>
        LookupEstimatedEp(e, p, eb \div 100).lower <= ep /\ ep <= LookupEstimatedEp(e, p, eb \div 100).upper
  BY DEF BracketsTeam
<1> HIDE DEF e, p, eb, skill, ep
<1>6. /\ LookupEstimatedEp(e, p, eb \div 100).lower <= ExpectedEp(e, p, eb, skill, skill) \div Point
      /\ ExpectedEp(e, p, eb, skill, skill) \div Point <= LookupEstimatedEp(e, p, eb \div 100).upper
  BY <1>1, <1>2, <1>4, CornersBracket
<1>7. QED
  BY <1>3, <1>5, <1>6 DEF e, ep

-----------------------------------------------------------------------------
(* What the search is given.                                               *)

\* A page on which nothing but the cards decides power and bonus.
LEMMA PlainPage ==
  ASSUME PlanInv, PlainRates
  PROVE  /\ PlainPool(TeamBuilderCardPool(profile)) /\ WorldBloomRules = 0 /\ ~eventBonus.hasDiff
         /\ profile.bonus.bonusPower \in Nat
<1> DEFINE pool == TeamBuilderCardPool(profile)
<1>1. /\ PoolPower(pool, profile.bonus) /\ PowerRates(profile.bonus) /\ IsFiniteSet(pool)
      /\ \A c \in pool : c.id \in CardIds /\ c.eventBonus \in Nat
  BY PagePool
<1>2. \A c \in pool : c.eventBonus % 100 = 0 /\ c.supportBonus = 0 /\ \A m \in Matches : c.power[m] = MaxPower(c)
  BY DEF PlainRates, BuilderPool
<1>3. GrowingPool(pool)
  BY <1>1, <1>2, PoolGrows
<1>4. PlainPool(pool)
  BY <1>1, <1>2, <1>3 DEF PlainPool, PlainBonuses
<1>5. WorldBloomRules = 0 /\ ~eventBonus.hasDiff
  BY DEF PlainRates, WorldBloomRules
<1>6. QED
  BY <1>1, <1>4, <1>5 DEF PowerRates

\* The answers of the max power builder: no team has more power.
LEMMA SearchPower ==
  ASSUME PlanInv, PlainRates, NEW con, Con!SoundObject(con), con.minSkill = 0,
         NEW power \in MaxPowerAnswers(con)
  PROVE  /\ \E P \in Admissible(con, TeamBuilderCardPool(profile)) : Lists(power, P)
         /\ \A T \in Admissible(con, TeamBuilderCardPool(profile)) :
              Power(AsTeam(T, 0), profile) <= Power(Team(power, 0), profile)
<1> DEFINE pool == TeamBuilderCardPool(profile)
           n == TeamSize
<1>1. /\ PlainPool(pool) /\ WorldBloomRules = 0 /\ profile.bonus.bonusPower \in Int
      /\ PowersOf(profile, proto) /\ n \in Nat
  BY PlainPage, PagePool, EventDataAssumption
<1>2. PICK wl : wl = 0
  OBVIOUS
<1> DEFINE teams == MaxPowerTeams(con, pool, profile, wl)
<1>3. power \in Finalized(profile, Estimate, teams)
  BY <1>1, <1>2 DEF MaxPowerAnswers, BuilderPool
<1>4. ASSUME NEW s \in teams
      PROVE  \E S \in Admissible(con, pool) : Lists(s, S)
  <2>1. PICK st \in CandidateStates : s \in RecommendForState(con, pool, profile, st, wl)
    BY Zenon DEF MaxPowerTeams
  <2>2. PICK S \in Admissible(con, FilterCards(st, pool)) : Lists(s, S)
    BY <2>1, GreedyListsAdmissible DEF RecommendForState
  <2>3. S \in Admissible(con, pool)
    BY DEF Admissible, TeamSets, kSubset, FilterCards, FilterCardPool
  <2>4. QED
    BY <2>2, <2>3
<1>5. ASSUME NEW T \in Admissible(con, pool), NEW s \in teams
      PROVE  Power(AsTeam(T, wl), profile) <= Power(Team(s, wl), profile)
  BY <1>1, MaxPowerIsBest DEF PlainPool
<1> HIDE DEF teams
<1>6. PICK s \in teams :
        /\ s \in [1..n -> TeamBuilderCardPool(profile)] /\ power \in [1..n -> TeamBuilderCardPool(profile)]
        /\ \A i \in 1..n : power[i].id = s[i].id
        /\ \E P \in Admissible(con, pool) : Lists(power, P)
  BY <1>3, <1>4, AnswerLists
<1>7. Power(Team(power, wl), profile) = Power(Team(s, wl), profile)
  <2> HIDE DEF n
  <2>1. QED
    BY <1>1, <1>6, SamePower
<1>8. QED
  BY <1>2, <1>5, <1>6, <1>7

\* And those of the max bonus builder: no team has more bonus.
LEMMA SearchBonus ==
  ASSUME PlanInv, PlainRates, NEW con, Con!SoundObject(con), con.minSkill = 0,
         NEW bonus \in MaxBonusAnswers(con)
  PROVE  /\ \E P \in Admissible(con, TeamBuilderCardPool(profile)) : Lists(bonus, P)
         /\ \A T \in Admissible(con, TeamBuilderCardPool(profile)) :
              TeamEventBonus(AsTeam(T, 0), eventBonus) <= TeamEventBonus(Team(bonus, 0), eventBonus)
<1> DEFINE pool == TeamBuilderCardPool(profile)
           teams == MaxBonusTeams(con, pool, eventBonus)
           b == eventBonus
<1>1. PlainBonuses(pool) /\ ~b.hasDiff /\ IsFiniteSet(pool) /\ \A c, d \in pool : c.id = d.id => c.eventBonus = d.eventBonus
  BY PlainPage, PagePool DEF PlainPool
<1>2. bonus \in Finalized(profile, Estimate, teams)
  BY DEF MaxBonusAnswers, BuilderPool
<1>3. ASSUME NEW s \in teams
      PROVE  \E S \in Admissible(con, pool) : Lists(s, S)
  BY GreedyListsAdmissible DEF MaxBonusTeams
<1>4. ASSUME NEW T \in Admissible(con, pool), NEW s \in teams
      PROVE  TeamEventBonus(AsTeam(T, 0), b) <= TeamEventBonus(Team(s, 0), b)
  BY <1>1, MaxBonusIsBest
<1> HIDE DEF teams
<1>5. PICK s \in teams :
        /\ \A i \in 1..TeamSize : bonus[i].id = s[i].id
        /\ \E P \in Admissible(con, pool) : Lists(bonus, P)
  BY <1>2, <1>3, AnswerLists
<1>6. PICK P \in Admissible(con, pool) : Lists(bonus, P)
  BY <1>5
<1>7. PICK S \in Admissible(con, pool) : Lists(s, S)
  BY <1>3
<1>8. P \in TeamSets(pool) /\ S \in TeamSets(pool)
  BY <1>1, AdmissibleTeams
<1> HIDE DEF b
<1>9. TeamEventBonus(Team(bonus, 0), b) = TeamEventBonus(Team(s, 0), b)
  <2> HIDE DEF pool
  <2>1. TeamEventBonus(Team(s, 0), b) = TeamEventBonus(Team(bonus, 0), b)
    BY <1>1, <1>5, <1>6, <1>7, <1>8, SameBonus
  <2>2. QED
    BY <2>1
<1>10. QED
  BY <1>4, <1>6, <1>9 DEF b

\* A team of a pruned card earns no more than the points reached.
LEMMA PrunedAreBehind ==
  ASSUME NEW e, SoundEstimator(e), NEW con, con.pairs = <<>>, NEW pool, PlainPool(pool),
         NEW q, q.bonus.bonusPower \in Nat, NEW b, ~b.hasDiff,
         NEW power, \E P \in Admissible(con, pool) : Lists(power, P),
         \A T \in Admissible(con, pool) : Power(AsTeam(T, 0), q) <= Power(Team(power, 0), q),
         NEW bonus, \E P \in Admissible(con, pool) : Lists(bonus, P),
         \A T \in Admissible(con, pool) : TeamEventBonus(AsTeam(T, 0), b) <= TeamEventBonus(Team(bonus, 0), b),
         NEW options,
         options.maxPower = Power(Team(power, 0), q), options.minPowerIn = MinPowerContrib(Team(power, 0)),
         options.maxBonus = TeamEventBonus(Team(bonus, 0), b) \div 100,
         options.minBonusIn = MinBonusContrib(Team(bonus, 0)) \div 100,
         NEW S \in Admissible(con, pool),
         NEW skill \in Nat, skill <= kMaxSkillValue,
         NEW c \in S, NEW ep \in Int, ShouldPrune(e, options, ep, c)
  PROVE  ExpectedEp(e, Power(AsTeam(S, 0), q), TeamEventBonus(AsTeam(S, 0), b), skill, skill) \div Point <= ep
<1> DEFINE p == Power(AsTeam(S, 0), q)
           eb == TeamEventBonus(AsTeam(S, 0), b)
           maxPower == Power(Team(power, 0), q)
           lowPower == MinPowerContrib(Team(power, 0))
           maxEb == TeamEventBonus(Team(bonus, 0), b)
           lowEb == MinBonusContrib(Team(bonus, 0))
<1>1. /\ p \in Nat /\ maxPower \in Nat /\ lowPower \in Nat /\ MaxPower(c) \in Nat
      /\ p <= maxPower - lowPower + MaxPower(c)
  <2>1. PICK P \in Admissible(con, pool) : Lists(power, P)
    OBVIOUS
  <2>2. p \in Nat /\ maxPower \in Nat /\ lowPower \in Nat
    BY <2>1, PowerBound
  <2>3. MaxPower(c) \in Nat /\ p <= maxPower - lowPower + MaxPower(c)
    BY <2>1, PowerBound
  <2>4. QED
    BY <2>2, <2>3
<1>2. p <= maxPower
  OBVIOUS
<1>3. PICK k \in Nat : \E most, low \in Nat : InPercent(b, bonus, S, k, most, low)
  <2>1. PICK P \in Admissible(con, pool) : Lists(bonus, P)
    OBVIOUS
  <2>2. QED
    BY <2>1, BonusBound
<1>4. PICK most \in Nat : \E low \in Nat : InPercent(b, bonus, S, k, most, low)
  BY <1>3
<1>5. PICK low \in Nat : InPercent(b, bonus, S, k, most, low)
  BY <1>4
<1>6. /\ eb = 100 * k /\ maxEb = 100 * most /\ lowEb = 100 * low
      /\ \A d \in S : \E x \in Nat : d.eventBonus = 100 * x /\ k <= most - low + x
  BY <1>5 DEF InPercent
<1>7. PICK x \in Nat : c.eventBonus = 100 * x /\ k <= most - low + x
  BY <1>6
<1>8. eb <= maxEb
  OBVIOUS
<1>9. options.maxBonus = most /\ options.minBonusIn = low
  <2>1. \A z \in Nat : (100 * z) \div 100 = z
    OBVIOUS
  <2>2. QED
    BY <1>6, <2>1
<1>10. options.maxPower = maxPower /\ options.minPowerIn = lowPower
  OBVIOUS
<1> HIDE DEF p, eb, maxPower, lowPower, maxEb, lowEb
<1>11. ep \in Nat
  BY DEF ShouldPrune
<1>12. CASE MaxPower(c) < MinPowerToKeep(e, options, ep)
  <2> DEFINE y == MaxPower(c)
  <2>1. y < Greater(0, MinRequiredPower(e, ep, 100 * most, kMaxSkillValue) - maxPower + lowPower)
    BY <1>9, <1>10, <1>12 DEF MinPowerToKeep
  <2>2. y \in Nat /\ p <= maxPower - lowPower + y
    BY <1>1
  <2> HIDE DEF y
  <2> DEFINE top == 100 * most
  <2>3. top \in Nat /\ eb \in Nat /\ eb <= top
    BY <1>6, <1>8
  <2>4. y < Greater(0, MinRequiredPower(e, ep, top, kMaxSkillValue) - maxPower + lowPower)
    BY <2>1
  <2> HIDE DEF top
  <2>5. ExpectedEp(e, p, eb, skill, skill) \div Point <= ep
    BY <1>1, <1>11, <2>2, <2>3, <2>4, PowerPruned
  <2>6. QED
    BY <2>5 DEF p, eb
<1>13. CASE c.eventBonus < 100 * MinBonusToKeep(e, options, ep)
  <2>1. 100 * x < 100 * Greater(0, MinRequiredBonus(e, ep, maxPower, kMaxSkillValue) - most + low)
    BY <1>7, <1>9, <1>10, <1>13 DEF MinBonusToKeep
  <2>2. ExpectedEp(e, p, 100 * k, skill, skill) \div Point <= ep
    BY <1>1, <1>2, <1>7, <1>11, <2>1, BonusPruned
  <2>3. QED
    BY <1>6, <2>2 DEF p, eb
<1>14. QED
  BY <1>12, <1>13 DEF ShouldPrune

-----------------------------------------------------------------------------
(* The invariant of the search: what is handed over comes from answers of  *)
(* the max power and the max bonus builder.                                *)

OptionsFrom(power, bonus, con) ==
  SearchOptions(EstimatorFor[mode], profile, eventBonus, Team(power, 0), Team(bonus, 0), con)
OptionsFor(con) ==
  {OptionsFrom(power, bonus, con) : power \in MaxPowerAnswers(con), bonus \in MaxBonusAnswers(con)}
AnswerIsSearch ==
  answer.by = "search" => answer.con \in Asked /\ answer.options \in OptionsFor(answer.con)
SearchInv == PlanInv /\ AnswerIsSearch

\* They are decided by the page,
LEMMA SameOptions ==
  ASSUME UNCHANGED page, NEW con
  PROVE  OptionsFor(con)' = OptionsFor(con)
BY DEF page, OptionsFor, OptionsFrom, MaxPowerAnswers, MaxBonusAnswers, Estimate, BuilderPool, WorldBloomRules

\* so that they stay right until an edit drops the answer.
LEMMA SearchStep ==
  ASSUME SearchInv, [Next]_vars
  PROVE  SearchInv'
<1>1. PlanInv'
  BY PlanStep DEF SearchInv
<1>2. CASE Edit
  <2>1. PICK p, oldMode : UpdateProfile(p, oldMode)
    BY <1>2, EditSaves DEF SearchInv, PlanInv, PageInv
  <2>2. AnswerIsSearch'
    BY <2>1 DEF UpdateProfile, NoAnswer, AnswerIsSearch
  <2>3. QED
    BY <1>1, <2>2 DEF SearchInv
<1>3. CASE Build
  <2>1. UNCHANGED page
    BY <1>3, BuildKeepsPage
  <2>2. ASSUME NEW con \in Asked, StartSearch(con)
        PROVE  AnswerIsSearch'
    <3>1. answer'.con = con /\ answer'.options \in OptionsFor(con)
      BY <2>2 DEF StartSearch, Answers, OptionsFor, OptionsFrom
    <3>2. OptionsFor(con)' = OptionsFor(con)
      BY <2>1, SameOptions
    <3>3. OptionsFor(answer.con)' = OptionsFor(con)'
      BY <3>1
    <3>4. QED
      BY <3>1, <3>2, <3>3 DEF AnswerIsSearch
  <2>3. ASSUME answer'.by # "search"
        PROVE  AnswerIsSearch'
    BY <2>3 DEF AnswerIsSearch
  <2>4. ASSUME NEW con, BuildMaxPower(con) \/ BuildMaxBonus(con)
        PROVE  answer'.by # "search"
    BY <2>4 DEF BuildMaxPower, BuildMaxBonus, AnswersOneOf, Answers
  <2>5. ASSUME NEW asked \in NaiveAsked, BuildNaive(asked.con, asked.objective)
        PROVE  answer'.by # "search"
    <3>1. \E teams : AnswersOneOf(asked.objective, asked.con, teams)
      BY <2>5, Zenon DEF BuildNaive
    <3>2. answer'.by = asked.objective
      BY <3>1 DEF AnswersOneOf, Answers
    <3>3. QED
      BY <3>2, InputsAssumption
  <2>6. ASSUME NEW char, BuildChallengeLive(char)
        PROVE  answer'.by # "search"
    BY <2>6 DEF BuildChallengeLive, AnswersOneOf, Answers
  <2>7. AnswerIsSearch'
    BY <1>3, <2>2, <2>3, <2>4, <2>5, <2>6 DEF Build
  <2>8. QED
    BY <1>1, <2>7 DEF SearchInv
<1>4. CASE UNCHANGED vars
  <2>1. UNCHANGED page /\ answer' = answer
    BY <1>4 DEF vars
  <2>2. OptionsFor(answer.con)' = OptionsFor(answer.con)
    BY <2>1 DEF page, OptionsFor, OptionsFrom, MaxPowerAnswers, MaxBonusAnswers, Estimate, BuilderPool,
                WorldBloomRules
  <2>3. AnswerIsSearch'
    BY <2>1, <2>2 DEF AnswerIsSearch, SearchInv
  <2>4. QED
    BY <1>1, <2>3 DEF SearchInv
<1>5. QED
  BY <1>2, <1>3, <1>4 DEF Next

\* Skills that the lookup table is made for.
SkillsFitTable ==
  answer.by = "search" =>
    \A S \in Admissible(answer.con, BuilderPool) :
      Percent(ConstrainedMaxSkillValue(AsTeam(S, 0), Leads(answer.con, S))) \in kMinSkillValue..kMaxSkillValue

\* The property from the invariant.
LEMMA PlanGivesPremises ==
  ASSUME SearchInv, SkillsFitTable
  PROVE  SearchPremises
<1> SUFFICES ASSUME answer.by = "search", answer.con.minSkill = 0
             PROVE  /\ \A S \in Admissible(answer.con, BuilderPool) :
                         BracketsTeam(EstimatorFor[mode], S, Leads(answer.con, S))
                    /\ PlainRates /\ answer.con.pairs = <<>> =>
                         KeepsBetterTeams(EstimatorFor[mode], answer.con, answer.options)
  BY DEF SearchPremises
<1> DEFINE con == answer.con
           pool == TeamBuilderCardPool(profile)
           e == EstimatorFor[mode]
           SkillOf(S) == Percent(ConstrainedMaxSkillValue(AsTeam(S, 0), Leads(con, S)))
           PointsOf(S) == EpPoints(e, profile, eventBonus, AsTeam(S, 0), Leads(con, S))
<1>1. PlanInv /\ Con!SoundObject(con) /\ SoundEstimator(e)
  <2>1. PlanInv /\ con \in Asked
    BY DEF SearchInv, AnswerIsSearch
  <2>2. QED
    BY <2>1, InputsAssumption, EstimatorSound DEF PlanInv, ModeKnown
<1>2. \A S \in Admissible(con, pool) : SkillOf(S) \in kMinSkillValue..kMaxSkillValue
  BY DEF SkillsFitTable, BuilderPool
<1>3. \A S \in Admissible(con, pool) : BracketsTeam(e, S, Leads(con, S))
  BY <1>1, <1>2, TableBrackets
<1>4. ASSUME NEW S \in Admissible(con, pool)
      PROVE  /\ SkillOf(S) \in Nat /\ SkillOf(S) <= kMaxSkillValue /\ PointsOf(S) \in Int
             /\ PointsOf(S) = ExpectedEp(e, Power(AsTeam(S, 0), profile), TeamEventBonus(AsTeam(S, 0), eventBonus),
                                         SkillOf(S), SkillOf(S)) \div Point
  <2> DEFINE p == Power(AsTeam(S, 0), profile)
             eb == TeamEventBonus(AsTeam(S, 0), eventBonus)
             skill == SkillOf(S)
  <2>1. p \in Nat /\ eb \in Nat
    BY <1>1, AdmissibleNumbers
  <2>2. skill \in Nat /\ skill <= kMaxSkillValue
    BY <1>2, ScoresAssumption
  <2>3. PointsOf(S) = ExpectedEp(e, p, eb, skill, skill) \div Point
    BY DEF EpPoints, EpWithBonus
  <2> HIDE DEF p, eb, skill, e, PointsOf
  <2>4. ExpectedEp(e, p, eb, skill, skill) \in Int
    <3>1. p <= p /\ eb <= eb /\ skill <= skill
      BY <2>1, <2>2
    <3>2. QED
      BY <1>1, <2>1, <2>2, <3>1, PointsGrow
  <2>5. ExpectedEp(e, p, eb, skill, skill) \div Point \in Int
    BY <2>4 DEF Point
  <2>6. QED
    BY <2>2, <2>3, <2>5 DEF p, eb, skill
<1>5. ASSUME PlainRates, con.pairs = <<>>
      PROVE  KeepsBetterTeams(e, con, answer.options)
  <2> DEFINE options == answer.options
  <2>1. PICK power \in MaxPowerAnswers(con), bonus \in MaxBonusAnswers(con) :
          options = OptionsFrom(power, bonus, con)
    BY DEF SearchInv, AnswerIsSearch, OptionsFor
  <2>2. /\ options.maxPower = Power(Team(power, 0), profile)
        /\ options.minPowerIn = MinPowerContrib(Team(power, 0))
        /\ options.maxBonus = TeamEventBonus(Team(bonus, 0), eventBonus) \div 100
        /\ options.minBonusIn = MinBonusContrib(Team(bonus, 0)) \div 100
    BY <2>1 DEF OptionsFrom, SearchOptions
  <2>3. PlainPool(pool) /\ ~eventBonus.hasDiff /\ profile.bonus.bonusPower \in Nat
    BY <1>1, <1>5, PlainPage
  <2>4. /\ \E P \in Admissible(con, pool) : Lists(power, P)
        /\ \A T \in Admissible(con, pool) : Power(AsTeam(T, 0), profile) <= Power(Team(power, 0), profile)
    BY <1>1, <1>5, SearchPower
  <2>5. /\ \E P \in Admissible(con, pool) : Lists(bonus, P)
        /\ \A T \in Admissible(con, pool) :
             TeamEventBonus(AsTeam(T, 0), eventBonus) <= TeamEventBonus(Team(bonus, 0), eventBonus)
    BY <1>1, <1>5, SearchBonus
  <2> HIDE DEF options, pool, con, e, SkillOf, PointsOf
  <2>6. ASSUME NEW S \in Admissible(con, pool), NEW T \in Admissible(con, pool), NEW c \in S,
               ShouldPrune(e, options, PointsOf(T), c)
        PROVE  PointsOf(S) <= PointsOf(T)
    <3> DEFINE skill == SkillOf(S)
               ep == PointsOf(T)
    <3>1. skill \in Nat /\ skill <= kMaxSkillValue /\ ep \in Int /\ ShouldPrune(e, options, ep, c)
      BY <1>4, <2>6
    <3> HIDE DEF skill, ep
    <3>2. ExpectedEp(e, Power(AsTeam(S, 0), profile), TeamEventBonus(AsTeam(S, 0), eventBonus), skill, skill) \div Point
            <= ep
      BY <1>1, <1>5, <2>2, <2>3, <2>4, <2>5, <3>1, PrunedAreBehind
    <3>3. QED
      BY <1>4, <3>2 DEF skill, ep
  <2>7. QED
    BY <2>6 DEF KeepsBetterTeams, BuilderPool, options, pool, con, e, PointsOf
<1>6. QED
  BY <1>3, <1>5 DEF BuilderPool

\* Whatever is saved, edited and asked for: as long as the skills of the teams are those the lookup
\* table is made for, the search is given a table whose entries bracket the teams, and limits under
\* which no card of a team that earns more is dropped.
THEOREM SearchIsGivenWhatItNeeds == Spec => [](SkillsFitTable => SearchPremises)
<1>1. Init => SearchInv
  BY InitPlan DEF SearchInv, AnswerIsSearch, Init, NoAnswer
<1>2. SearchInv /\ [Next]_vars => SearchInv'
  BY SearchStep
<1>3. SearchInv => (SkillsFitTable => SearchPremises)
  BY PlanGivesPremises
<1>4. QED
  BY <1>1, <1>2, <1>3, PTL DEF Spec
=============================================================================
