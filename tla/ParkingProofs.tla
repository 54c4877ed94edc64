---------------------------- MODULE ParkingProofs ----------------------------
(***************************************************************************)
(* Proofs about Parking, for every set of requests, boosts and limits.     *)
(***************************************************************************)
EXTENDS Parking, FiniteSetTheorems, SequenceTheorems, WellFoundedInduction, TLAPS
-----------------------------------------------------------------------------
(***************************************************************************)
(* The inductive invariant behind the properties above.                    *)
(***************************************************************************)
Calling == {"solve points", "solve plays", "table", "anneal", "have points", "have plays"}

\* Whose call is running, and what is known of the first one's solution.
CallInv ==
  /\ phase \in {"idle", "solve points", "have points"} => sol = EmptyBag
  /\ phase \in {"solve plays", "have plays"} => sol # EmptyBag
  /\ phase = "annotated" => todo = {}
  /\ IF sol = EmptyBag
     THEN /\ todo = {} /\ turns = {}
          /\ phase # "idle" => call = [values |-> request.points, goal |-> request.target]
     ELSE /\ IsSumOver(sol, Range(request.points)) /\ Total(sol) = request.target
          /\ phase \in Calling =>
               base \in todo /\ call = [values |-> Boosts, goal |-> sol[base]]

\* A table is right in its positive sums; 0 is the empty sum, and but for it only the goal may
\* have an empty entry.
IsTableOf(table, values, goal) ==
  /\ 0 \in DOMAIN table /\ table[0] = EmptyBag /\ DOMAIN table \subseteq 0 .. goal
  /\ \A s \in DOMAIN table : s \in {0, goal} \/ Reached(table, s)
  /\ \A s \in 1 .. goal : Reached(table, s) <=> WaysOf(values, s) # {}
  /\ \A s \in 1 .. goal : Reached(table, s) => IsShortest(table[s], values, s)

TableInv ==
  phase = "table" =>
    /\ Solvable /\ call.goal <= ExhaustiveLimit /\ place \in 0 .. Len(call.values)
    /\ IsTableOf(last, Taken, call.goal) /\ ~Reached(last, call.goal)

AnnealingInv ==
  phase = "anneal" =>
    /\ Solvable /\ call.goal > ExhaustiveLimit
    /\ step \in 0 .. MaxSteps - 1 /\ since \in 0 .. EarlyExitSteps
    /\ IsSumOver(current, Range(call.values)) /\ IsSumOver(best, Range(call.values))

\* The answer of the running call; that of the first call while it has found nothing.
AnswerInv ==
  phase \in {"have points", "have plays"} \/ (phase \in {"choose", "annotated"} /\ sol = EmptyBag) =>
    IF result.status = "ok"
    THEN RightAnswer(result) /\ (phase \in {"choose", "annotated"} => result.sum = EmptyBag)
    ELSE call.goal < 0 \/ call.values = <<>> \/ Misplaced(call.values) \/ call.goal > ExhaustiveLimit

\* The plays earn what is no longer to be done, and none is for points still to be done.
EarnInv ==
  /\ IsFiniteSet(turns)
  /\ \A t \in turns : t.base \in Nat \ todo /\ t.mult \in Nat /\ t.plays \in Nat
  /\ sol # EmptyBag => Earned + Total(Restrict(sol, todo)) = request.target

ParkingInv ==
  TypeOK /\ CallInv /\ TableInv /\ AnnealingInv /\ BestIsBestSeen /\ AnswerInv /\ EarnInv
-----------------------------------------------------------------------------
(***************************************************************************)
(* Sums over a finite set.  SumFunctionOnSet is a fold, that is, an entry  *)
(* of a function defined by recursion over the subsets: first it is shown  *)
(* that there is such a function, and that it does not matter in which     *)
(* order the elements are taken.  Each induction looks at a smallest       *)
(* subset for which the claim fails.                                       *)
(***************************************************************************)
Chosen(S) == CHOOSE x \in S : TRUE
Sums(g, f, S) ==
  g = [T \in SUBSET S |-> IF T = {} THEN 0 ELSE f[Chosen(T)] + g[T \ {Chosen(T)}]]

\* Subsets of a finite set: one of the bad ones is smallest.
LEMMA SmallestSubset ==
  ASSUME NEW S, IsFiniteSet(S), NEW Bad \in SUBSET SUBSET S, Bad # {}
  PROVE  \E T \in Bad : \A U \in SUBSET T : U \in Bad => U = T
<1>1. IsWellFoundedOn(StrictSubsetOrdering(S), SUBSET S)
  BY FS_StrictSubsetOrderingWellFounded, FS_FiniteSubsetsOfFinite
<1>2. PICK T \in Bad : \A U \in Bad : ~ (<<U, T>> \in StrictSubsetOrdering(S))
  BY <1>1, WFMin
<1>3. QED
  BY <1>2 DEF StrictSubsetOrdering

LEMMA ChosenIn == ASSUME NEW T, T # {} PROVE Chosen(T) \in T
BY DEF Chosen

LEMMA SumsAt ==
  ASSUME NEW f, NEW S, NEW g, Sums(g, f, S), NEW T \in SUBSET S
  PROVE  g[T] = IF T = {} THEN 0 ELSE f[Chosen(T)] + g[T \ {Chosen(T)}]
BY DEF Sums

LEMMA SumsAtEmpty ==
  ASSUME NEW f, NEW S, NEW g, Sums(g, f, S)
  PROVE  g[{}] = 0
<1>1. {} \in SUBSET S
  OBVIOUS
<1>2. QED
  BY <1>1, SumsAt

\* Two tables of sums agree where both have an entry.
LEMMA SumsAgree ==
  ASSUME NEW f, NEW S, IsFiniteSet(S), NEW R \in SUBSET S, NEW g, NEW h,
         Sums(g, f, S), Sums(h, f, R)
  PROVE  \A T \in SUBSET R : g[T] = h[T]
<1> DEFINE Bad == {T \in SUBSET R : g[T] # h[T]}
<1> SUFFICES ASSUME Bad # {} PROVE FALSE
  OBVIOUS
<1>1. IsFiniteSet(R)
  BY FS_Subset
<1>2. PICK T \in Bad : \A U \in SUBSET T : U \in Bad => U = T
  <2>1. Bad \in SUBSET SUBSET R
    OBVIOUS
  <2> HIDE DEF Bad
  <2>2. QED
    BY <1>1, <2>1, SmallestSubset
<1>3. T \in SUBSET R /\ T \in SUBSET S /\ g[T] # h[T]
  BY <1>2
<1>4. T # {}
  <2>1. g[{}] = 0 /\ h[{}] = 0
    BY SumsAtEmpty
  <2>2. QED
    BY <1>3, <2>1
<1>5. Chosen(T) \in T
  BY <1>4, ChosenIn
<1>6. g[T \ {Chosen(T)}] = h[T \ {Chosen(T)}]
  BY <1>2, <1>3, <1>5
<1>7. QED
  BY <1>3, <1>4, <1>6, SumsAt

\* A finite set has a table of sums.
LEMMA SumsExist ==
  ASSUME NEW f, NEW S, IsFiniteSet(S)
  PROVE  \E g : Sums(g, f, S)
<1> DEFINE Bad == {T \in SUBSET S : ~ \E g : Sums(g, f, T)}
<1> SUFFICES ASSUME Bad # {} PROVE FALSE
  OBVIOUS
<1>2. PICK T \in Bad : \A U \in SUBSET T : U \in Bad => U = T
  <2>1. Bad \in SUBSET SUBSET S
    OBVIOUS
  <2> HIDE DEF Bad
  <2>2. QED
    BY <2>1, SmallestSubset
<1>3. T \in SUBSET S /\ ~ \E g : Sums(g, f, T)
  BY <1>2
<1> DEFINE Table(U) == CHOOSE g : Sums(g, f, U)
           Below(U) == IF U = {} THEN 0 ELSE f[Chosen(U)] + Table(U \ {Chosen(U)})[U \ {Chosen(U)}]
           g == [U \in SUBSET T |-> Below(U)]
<1>4. \A U \in SUBSET T : U # T => Sums(Table(U), f, U) /\ IsFiniteSet(U)
  BY <1>2, <1>3, FS_Subset
<1>5. ASSUME NEW U \in SUBSET T, U # {}
      PROVE  Table(U \ {Chosen(U)})[U \ {Chosen(U)}] = Below(U \ {Chosen(U)})
  <2> DEFINE W == U \ {Chosen(U)}
  <2>1. Chosen(U) \in U
    BY <1>5, ChosenIn
  <2>2. W \in SUBSET T /\ W # T /\ Sums(Table(W), f, W) /\ IsFiniteSet(W)
    BY <1>4, <2>1
  <2>3. CASE W = {}
    <3>1. Sums(Table({}), f, {})
      BY <2>2, <2>3
    <3> HIDE DEF Table, W
    <3>2. Table({})[{}] = 0
      BY <3>1, SumsAtEmpty
    <3>3. QED
      BY <2>3, <3>2 DEF W
  <2>4. CASE W # {}
    <3> DEFINE V == W \ {Chosen(W)}
    <3>1. V \in SUBSET W /\ V # T /\ V \in SUBSET T
      BY <2>2, <2>4, ChosenIn
    <3>2. Sums(Table(V), f, V)
      BY <1>4, <3>1
    <3>3. Table(W)[W] = f[Chosen(W)] + Table(W)[V]
      <4> HIDE DEF Table, W
      <4>1. W \in SUBSET W
        OBVIOUS
      <4>2. QED
        BY <2>2, <2>4, <4>1, SumsAt
    <3>4. Table(W)[V] = Table(V)[V]
      <4>1. V \in SUBSET V
        OBVIOUS
      <4> HIDE DEF Table, W, V
      <4>2. \A X \in SUBSET V : Table(W)[X] = Table(V)[X]
        BY <2>2, <3>1, <3>2, SumsAgree
      <4>3. QED
        BY <4>1, <4>2
    <3>5. QED
      BY <2>4, <3>3, <3>4
  <2>5. QED
    BY <2>3, <2>4
<1>6. Sums(g, f, T)
  <2>1. ASSUME NEW U \in SUBSET T
        PROVE  Below(U) = IF U = {} THEN 0 ELSE f[Chosen(U)] + g[U \ {Chosen(U)}]
    <3>1. U \ {Chosen(U)} \in SUBSET T
      OBVIOUS
    <3>2. g[U \ {Chosen(U)}] = Below(U \ {Chosen(U)})
      BY <3>1
    <3>3. CASE U = {}
      BY <3>3
    <3>4. CASE U # {}
      <4>1. Below(U) = f[Chosen(U)] + Table(U \ {Chosen(U)})[U \ {Chosen(U)}]
        BY <3>4
      <4>2. Table(U \ {Chosen(U)})[U \ {Chosen(U)}] = Below(U \ {Chosen(U)})
        BY <1>5, <3>4
      <4> HIDE DEF Below, Table, g
      <4>3. QED
        BY <3>2, <3>4, <4>1, <4>2
    <3>5. QED
      BY <3>3, <3>4
  <2> HIDE DEF Below
  <2>2. QED
    BY <2>1 DEF Sums
<1>7. QED
  BY <1>3, <1>6

LEMMA SumIsSums ==
  ASSUME NEW f, NEW S
  PROVE  SumFunctionOnSet(f, S) = (CHOOSE g : Sums(g, f, S))[S]
BY DEF SumFunctionOnSet, FoldFunctionOnSet, MapThenFoldSet, Sums, Chosen

LEMMA SumEmpty ==
  ASSUME NEW f
  PROVE  SumFunctionOnSet(f, {}) = 0
<1> DEFINE g == CHOOSE g : Sums(g, f, {})
<1>1. Sums(g, f, {})
  BY SumsExist, FS_EmptySet
<1>2. g[{}] = 0
  <2> HIDE DEF g
  <2>1. QED
    BY <1>1, SumsAt
<1>3. QED
  BY <1>2, SumIsSums

LEMMA SumChosen ==
  ASSUME NEW f, NEW S, IsFiniteSet(S), S # {}
  PROVE  SumFunctionOnSet(f, S) = f[Chosen(S)] + SumFunctionOnSet(f, S \ {Chosen(S)})
<1> DEFINE R == S \ {Chosen(S)}
           g == CHOOSE g : Sums(g, f, S)
           h == CHOOSE h : Sums(h, f, R)
<1>1. R \in SUBSET S /\ IsFiniteSet(R)
  BY FS_Subset
<1>2. Sums(g, f, S) /\ Sums(h, f, R)
  BY <1>1, SumsExist
<1>3. SumFunctionOnSet(f, S) = g[S] /\ SumFunctionOnSet(f, R) = h[R]
  BY SumIsSums
<1> HIDE DEF g, h
<1>4. g[S] = f[Chosen(S)] + g[R]
  BY <1>2, SumsAt
<1>5. g[R] = h[R]
  <2>1. R \in SUBSET R
    OBVIOUS
  <2> HIDE DEF R
  <2>2. QED
    BY <1>1, <1>2, <2>1, SumsAgree
<1>6. QED
  BY <1>3, <1>4, <1>5

\* The sum of integers is one.
LEMMA SumInt ==
  ASSUME NEW f, NEW S, IsFiniteSet(S), \A x \in S : f[x] \in Int
  PROVE  SumFunctionOnSet(f, S) \in Int
<1> DEFINE Bad == {T \in SUBSET S : SumFunctionOnSet(f, T) \notin Int}
<1> SUFFICES ASSUME Bad # {} PROVE FALSE
  OBVIOUS
<1>1. PICK T \in Bad : \A U \in SUBSET T : U \in Bad => U = T
  <2>1. Bad \in SUBSET SUBSET S
    OBVIOUS
  <2> HIDE DEF Bad
  <2>2. QED
    BY <2>1, SmallestSubset
<1>2. T \in SUBSET S /\ IsFiniteSet(T) /\ SumFunctionOnSet(f, T) \notin Int
  BY <1>1, FS_Subset
<1>3. T # {}
  BY <1>2, SumEmpty
<1>4. Chosen(T) \in T
  BY <1>3, ChosenIn
<1>5. SumFunctionOnSet(f, T \ {Chosen(T)}) \in Int
  BY <1>1, <1>2, <1>4
<1>6. QED
  BY <1>2, <1>3, <1>4, <1>5, SumChosen

LEMMA SumNat ==
  ASSUME NEW f, NEW S, IsFiniteSet(S), \A x \in S : f[x] \in Nat
  PROVE  SumFunctionOnSet(f, S) \in Nat
<1> DEFINE Bad == {T \in SUBSET S : SumFunctionOnSet(f, T) \notin Nat}
<1> SUFFICES ASSUME Bad # {} PROVE FALSE
  OBVIOUS
<1>1. PICK T \in Bad : \A U \in SUBSET T : U \in Bad => U = T
  <2>1. Bad \in SUBSET SUBSET S
    OBVIOUS
  <2> HIDE DEF Bad
  <2>2. QED
    BY <2>1, SmallestSubset
<1>2. T \in SUBSET S /\ IsFiniteSet(T) /\ SumFunctionOnSet(f, T) \notin Nat
  BY <1>1, FS_Subset
<1>3. T # {}
  BY <1>2, SumEmpty
<1>4. Chosen(T) \in T
  BY <1>3, ChosenIn
<1>5. SumFunctionOnSet(f, T \ {Chosen(T)}) \in Nat
  BY <1>1, <1>2, <1>4
<1>6. QED
  BY <1>2, <1>3, <1>4, <1>5, SumChosen

\* Chosen element can be taken out first.
LEMMA SumTake ==
  ASSUME NEW f, NEW S, IsFiniteSet(S), \A x \in S : f[x] \in Int, NEW a \in S
  PROVE  SumFunctionOnSet(f, S) = f[a] + SumFunctionOnSet(f, S \ {a})
<1> DEFINE Holds(T, x) == SumFunctionOnSet(f, T) = f[x] + SumFunctionOnSet(f, T \ {x})
           Bad == {T \in SUBSET S : \E x \in T : ~Holds(T, x)}
<1>1. Bad = {}
  <2> SUFFICES ASSUME Bad # {} PROVE FALSE
    OBVIOUS
  <2>1. PICK T \in Bad : \A U \in SUBSET T : U \in Bad => U = T
    <3>1. Bad \in SUBSET SUBSET S
      OBVIOUS
    <3> HIDE DEF Bad
    <3>2. QED
      BY <3>1, SmallestSubset
  <2>2. T \in SUBSET S /\ IsFiniteSet(T)
    BY <2>1, FS_Subset
  <2>3. PICK x \in T : ~Holds(T, x)
    BY <2>1
  <2> DEFINE c == Chosen(T)
  <2>4. c \in T
    BY <2>3, ChosenIn
  <2>5. Holds(T, c)
    BY <2>2, <2>3, SumChosen
  <2>6. x # c
    BY <2>3, <2>5
  <2>7. Holds(T \ {c}, x)
    <3>1. T \ {c} \in SUBSET T /\ T \ {c} # T /\ T \ {c} \in SUBSET S /\ x \in T \ {c}
      BY <2>2, <2>3, <2>4, <2>6
    <3> HIDE DEF Holds, c
    <3>2. QED
      BY <2>1, <3>1
  <2>8. Holds(T \ {x}, c)
    <3>1. T \ {x} \in SUBSET T /\ T \ {x} # T /\ T \ {x} \in SUBSET S /\ c \in T \ {x}
      BY <2>2, <2>3, <2>4, <2>6
    <3> HIDE DEF Holds, c
    <3>2. QED
      BY <2>1, <3>1
  <2>9. (T \ {c}) \ {x} = (T \ {x}) \ {c}
    OBVIOUS
  <2>10. SumFunctionOnSet(f, (T \ {c}) \ {x}) \in Int /\ f[x] \in Int /\ f[c] \in Int
    <3>1. IsFiniteSet((T \ {c}) \ {x})
      BY <2>2, FS_Subset
    <3>2. QED
      BY <2>2, <2>3, <2>4, <3>1, SumInt
  <2>11. Holds(T, x)
    <3> DEFINE both == SumFunctionOnSet(f, (T \ {c}) \ {x})
    <3>1. /\ SumFunctionOnSet(f, T) = f[c] + (f[x] + both)
          /\ SumFunctionOnSet(f, T \ {x}) = f[c] + both
      BY <2>5, <2>7, <2>8, <2>9
    <3> HIDE DEF both, c
    <3>2. QED
      BY <2>10, <3>1 DEF both
  <2>12. QED
    BY <2>3, <2>11
<1>2. S \notin Bad
  BY <1>1
<1>3. QED
  BY <1>2

\* One more element.
LEMMA SumAdd ==
  ASSUME NEW f, NEW S, IsFiniteSet(S), NEW a, a \notin S, \A x \in S \cup {a} : f[x] \in Int
  PROVE  SumFunctionOnSet(f, S \cup {a}) = f[a] + SumFunctionOnSet(f, S)
<1>1. IsFiniteSet(S \cup {a}) /\ a \in S \cup {a} /\ (S \cup {a}) \ {a} = S
  BY FS_AddElement
<1>2. QED
  BY <1>1, SumTake

\* A common factor.
IsMultiple(f, k, g, S) == IsFiniteSet(S) /\ k \in Int /\ \A x \in S : g[x] \in Int /\ f[x] = k * g[x]
LEMMA SumScaled ==
  ASSUME NEW f, NEW g, NEW k, NEW S, IsMultiple(f, k, g, S)
  PROVE  SumFunctionOnSet(f, S) = k * SumFunctionOnSet(g, S)
<1> DEFINE Holds(T) == SumFunctionOnSet(f, T) = k * SumFunctionOnSet(g, T)
           Bad == {T \in SUBSET S : ~Holds(T)}
<1>0. IsFiniteSet(S) /\ k \in Int /\ \A x \in S : g[x] \in Int /\ f[x] = k * g[x]
  BY DEF IsMultiple
<1>1. Bad = {}
  <2> SUFFICES ASSUME Bad # {} PROVE FALSE
    OBVIOUS
  <2>1. PICK T \in Bad : \A U \in SUBSET T : U \in Bad => U = T
    <3>1. Bad \in SUBSET SUBSET S
      OBVIOUS
    <3> HIDE DEF Bad
    <3>2. QED
      BY <1>0, <3>1, SmallestSubset
  <2>2. T \in SUBSET S /\ IsFiniteSet(T) /\ ~Holds(T)
    BY <1>0, <2>1, FS_Subset
  <2>3. T # {}
    <3>1. Holds({})
      BY <1>0, SumEmpty
    <3>2. QED
      BY <2>2, <3>1
  <2>4. PICK a \in T : TRUE
    BY <2>3
  <2>5. Holds(T \ {a})
    <3>1. T \ {a} \in SUBSET T /\ T \ {a} # T /\ T \ {a} \in SUBSET S
      BY <2>2, <2>4
    <3> HIDE DEF Holds
    <3>2. QED
      BY <2>1, <3>1
  <2>6. IsFiniteSet(T \ {a})
    BY <2>2, FS_Subset
  <2>7. SumFunctionOnSet(g, T \ {a}) \in Int
    BY <1>0, <2>2, <2>6, SumInt
  <2>8. \A x \in T : f[x] \in Int /\ g[x] \in Int
    BY <1>0, <2>2
  <2>9. SumFunctionOnSet(f, T) = f[a] + SumFunctionOnSet(f, T \ {a})
    BY <2>2, <2>4, <2>8, SumTake
  <2>10. SumFunctionOnSet(g, T) = g[a] + SumFunctionOnSet(g, T \ {a})
    BY <2>2, <2>4, <2>8, SumTake
  <2>11. \A x, y \in Int : k * x + k * y = k * (x + y)
    BY <1>0
  <2>12. f[a] = k * g[a] /\ g[a] \in Int
    BY <1>0, <2>2, <2>4
  <2>13. Holds(T)
    BY <1>0, <2>5, <2>7, <2>9, <2>10, <2>11, <2>12
  <2>14. QED
    BY <2>2, <2>13
<1>2. S \notin Bad
  BY <1>1
<1>3. QED
  BY <1>2

\* The sum depends on the values alone.
AgreeOn(f, g, S) == IsFiniteSet(S) /\ \A x \in S : g[x] \in Int /\ f[x] = g[x]
LEMMA SumSame ==
  ASSUME NEW f, NEW g, NEW S, AgreeOn(f, g, S)
  PROVE  SumFunctionOnSet(f, S) = SumFunctionOnSet(g, S)
<1>1. IsMultiple(f, 1, g, S)
  BY DEF IsMultiple, AgreeOn
<1>2. SumFunctionOnSet(f, S) = 1 * SumFunctionOnSet(g, S)
  BY <1>1, SumScaled
<1>3. SumFunctionOnSet(g, S) \in Int
  BY SumInt DEF AgreeOn
<1>4. QED
  BY <1>2, <1>3

\* Two disjoint sets.
LEMMA SumUnion ==
  ASSUME NEW f, NEW S, NEW R, IsFiniteSet(S), IsFiniteSet(R), S \cap R = {},
         \A x \in S \cup R : f[x] \in Int
  PROVE  SumFunctionOnSet(f, S \cup R) = SumFunctionOnSet(f, S) + SumFunctionOnSet(f, R)
<1> DEFINE Holds(T) == SumFunctionOnSet(f, S \cup T) = SumFunctionOnSet(f, S) + SumFunctionOnSet(f, T)
           Bad == {T \in SUBSET R : ~Holds(T)}
<1>0. SumFunctionOnSet(f, S) \in Int
  BY SumInt
<1>1. Bad = {}
  <2> SUFFICES ASSUME Bad # {} PROVE FALSE
    OBVIOUS
  <2>1. PICK T \in Bad : \A U \in SUBSET T : U \in Bad => U = T
    <3>1. Bad \in SUBSET SUBSET R
      OBVIOUS
    <3> HIDE DEF Bad
    <3>2. QED
      BY <3>1, SmallestSubset
  <2>2. T \in SUBSET R /\ IsFiniteSet(T) /\ ~Holds(T)
    BY <2>1, FS_Subset
  <2>3. T # {}
    <3>1. S \cup {} = S
      OBVIOUS
    <3>2. Holds({})
      BY <1>0, <3>1, SumEmpty
    <3>3. QED
      BY <2>2, <3>2
  <2>4. PICK a \in T : TRUE
    BY <2>3
  <2> DEFINE U == T \ {a}
  <2>5. U \in SUBSET T /\ U # T /\ U \in SUBSET R /\ IsFiniteSet(U)
    BY <2>2, <2>4, FS_Subset
  <2>6. Holds(U)
    <3> HIDE DEF Holds, U
    <3>1. QED
      BY <2>1, <2>5
  <2>7. S \cup T = (S \cup U) \cup {a} /\ a \notin S \cup U /\ T = U \cup {a} /\ a \notin U
    BY <2>2, <2>4
  <2>8. IsFiniteSet(S \cup U)
    BY <2>5, FS_Union
  <2>9. \A x \in (S \cup U) \cup {a} : f[x] \in Int
    BY <2>2, <2>4
  <2> HIDE DEF U
  <2>10. SumFunctionOnSet(f, S \cup T) = f[a] + SumFunctionOnSet(f, S \cup U)
    BY <2>7, <2>8, <2>9, SumAdd
  <2>11. SumFunctionOnSet(f, T) = f[a] + SumFunctionOnSet(f, U)
    BY <2>5, <2>7, <2>9, SumAdd
  <2>12. SumFunctionOnSet(f, U) \in Int
    BY <2>5, <2>9, SumInt
  <2>13. f[a] \in Int
    BY <2>9
  <2>14. Holds(T)
    BY <1>0, <2>6, <2>10, <2>11, <2>12, <2>13
  <2>15. QED
    BY <2>2, <2>14
<1>2. R \notin Bad
  BY <1>1
<1>3. QED
  BY <1>2

\* Elements with the value 0 do not count.
LEMMA SumNonzero ==
  ASSUME NEW f, NEW S, IsFiniteSet(S), NEW R \in SUBSET S,
         \A x \in R : f[x] \in Int, \A x \in S \ R : f[x] = 0
  PROVE  SumFunctionOnSet(f, S) = SumFunctionOnSet(f, R)
<1>1. IsFiniteSet(R) /\ IsFiniteSet(S \ R) /\ S = R \cup (S \ R) /\ R \cap (S \ R) = {}
  BY FS_Subset
<1>2. \A x \in S : f[x] \in Int
  OBVIOUS
<1>3. SumFunctionOnSet(f, S) = SumFunctionOnSet(f, R) + SumFunctionOnSet(f, S \ R)
  BY <1>1, <1>2, SumUnion
<1>4. SumFunctionOnSet(f, S \ R) = 0
  <2>1. IsMultiple(f, 0, f, S \ R)
    BY <1>1 DEF IsMultiple
  <2>2. SumFunctionOnSet(f, S \ R) = 0 * SumFunctionOnSet(f, S \ R)
    BY <2>1, SumScaled
  <2>3. SumFunctionOnSet(f, S \ R) \in Int
    BY <1>1, <2>1, SumInt
  <2>4. QED
    BY <2>2, <2>3
<1>5. SumFunctionOnSet(f, R) \in Int
  BY <1>1, SumInt
<1>6. QED
  BY <1>3, <1>4, <1>5

\* No part is more than the whole.
LEMMA SumPart ==
  ASSUME NEW f, NEW S, IsFiniteSet(S), \A x \in S : f[x] \in Nat, NEW a \in S
  PROVE  f[a] <= SumFunctionOnSet(f, S)
<1>1. IsFiniteSet(S \ {a})
  BY FS_Subset
<1>2. SumFunctionOnSet(f, S \ {a}) \in Nat
  BY <1>1, SumNat
<1>3. SumFunctionOnSet(f, S) = f[a] + SumFunctionOnSet(f, S \ {a})
  BY SumTake
<1>4. QED
  BY <1>2, <1>3

\* Two sums that differ at one place at most.
At(f, S, a) == IF a \in S THEN f[a] ELSE 0
DifferAt(f, S, g, R, a) ==
  /\ IsFiniteSet(S) /\ S \ {a} = R \ {a}
  /\ \A x \in S : f[x] \in Int
  /\ \A x \in R : g[x] \in Int
  /\ \A x \in S \ {a} : f[x] = g[x]
LEMMA SumBut ==
  ASSUME NEW f, NEW S, NEW g, NEW R, NEW a, DifferAt(f, S, g, R, a)
  PROVE  SumFunctionOnSet(f, S) - At(f, S, a) = SumFunctionOnSet(g, R) - At(g, R, a)
<1>0. /\ IsFiniteSet(S) /\ S \ {a} = R \ {a}
      /\ \A x \in S : f[x] \in Int
      /\ \A x \in R : g[x] \in Int
      /\ \A x \in S \ {a} : f[x] = g[x]
  BY DEF DifferAt
<1> DEFINE T == S \ {a}
<1>1. IsFiniteSet(T) /\ IsFiniteSet(R)
  <2>1. IsFiniteSet(T)
    BY <1>0, FS_Subset
  <2>2. R \in SUBSET (T \cup {a})
    BY <1>0
  <2>3. IsFiniteSet(T \cup {a})
    BY <2>1, FS_AddElement
  <2>4. QED
    BY <2>1, <2>2, <2>3, FS_Subset
<1>2. SumFunctionOnSet(f, T) = SumFunctionOnSet(g, T)
  <2>1. AgreeOn(f, g, T)
    BY <1>0, <1>1 DEF AgreeOn
  <2>2. QED
    BY <2>1, SumSame
<1>3. SumFunctionOnSet(f, T) \in Int
  BY <1>0, <1>1, SumInt
<1>4. SumFunctionOnSet(f, S) = At(f, S, a) + SumFunctionOnSet(f, T)
  <2>1. CASE a \in S
    BY <1>0, <2>1, SumTake DEF At
  <2>2. CASE a \notin S
    <3>1. T = S
      BY <2>2
    <3> HIDE DEF T
    <3>2. QED
      BY <1>3, <2>2, <3>1 DEF At
  <2>3. QED
    BY <2>1, <2>2
<1>5. SumFunctionOnSet(g, R) = At(g, R, a) + SumFunctionOnSet(g, T)
  <2>1. CASE a \in R
    <3>1. T = R \ {a}
      BY <1>0
    <3> HIDE DEF T
    <3>2. QED
      BY <1>0, <1>1, <1>2, <2>1, <3>1, SumTake DEF At
  <2>2. CASE a \notin R
    <3>1. T = R
      BY <1>0, <2>2
    <3> HIDE DEF T
    <3>2. QED
      BY <1>2, <1>3, <2>2, <3>1 DEF At
  <2>3. QED
    BY <2>1, <2>2
<1>6. At(f, S, a) \in Int /\ At(g, R, a) \in Int
  BY <1>0 DEF At
<1> HIDE DEF T
<1>7. QED
  BY <1>2, <1>3, <1>4, <1>5, <1>6

\* Summing over the images of the elements, which differ.
MapsTo(f, g, h, S) ==
  /\ IsFiniteSet(S)
  /\ \A x \in S : g[x] \in Int /\ f[h[x]] = g[x]
  /\ \A x, y \in S : h[x] = h[y] => x = y
LEMMA SumImage ==
  ASSUME NEW f, NEW g, NEW h, NEW S, MapsTo(f, g, h, S)
  PROVE  IsFiniteSet({h[x] : x \in S}) /\ SumFunctionOnSet(f, {h[x] : x \in S}) = SumFunctionOnSet(g, S)
<1> DEFINE Image(T) == {h[x] : x \in T}
           Holds(T) == IsFiniteSet(Image(T)) /\ SumFunctionOnSet(f, Image(T)) = SumFunctionOnSet(g, T)
           Bad == {T \in SUBSET S : ~Holds(T)}
<1>0. /\ IsFiniteSet(S)
      /\ \A x \in S : g[x] \in Int /\ f[h[x]] = g[x]
      /\ \A x, y \in S : h[x] = h[y] => x = y
  BY DEF MapsTo
<1>1. Bad = {}
  <2> SUFFICES ASSUME Bad # {} PROVE FALSE
    OBVIOUS
  <2>1. PICK T \in Bad : \A U \in SUBSET T : U \in Bad => U = T
    <3>1. Bad \in SUBSET SUBSET S
      OBVIOUS
    <3> HIDE DEF Bad
    <3>2. QED
      BY <1>0, <3>1, SmallestSubset
  <2>2. T \in SUBSET S /\ IsFiniteSet(T) /\ ~Holds(T)
    BY <1>0, <2>1, FS_Subset
  <2>3. T # {}
    <3>1. Image({}) = {}
      OBVIOUS
    <3> HIDE DEF Image
    <3>2. Holds({})
      BY <3>1, SumEmpty, FS_EmptySet
    <3>3. QED
      BY <2>2, <3>2
  <2>4. PICK a \in T : TRUE
    BY <2>3
  <2> DEFINE U == T \ {a}
  <2>5. U \in SUBSET T /\ U # T /\ U \in SUBSET S /\ IsFiniteSet(U) /\ T = U \cup {a} /\ a \notin U
    BY <2>2, <2>4, FS_Subset
  <2>6. Holds(U)
    <3> HIDE DEF Holds, U
    <3>1. QED
      BY <2>1, <2>5
  <2>7. Image(T) = Image(U) \cup {h[a]} /\ h[a] \notin Image(U)
    BY <1>0, <2>2, <2>4, <2>5
  <2>8. \A y \in Image(U) \cup {h[a]} : f[y] \in Int
    BY <1>0, <2>2, <2>4, <2>5
  <2>9. f[h[a]] = g[a] /\ \A x \in U \cup {a} : g[x] \in Int
    BY <1>0, <2>2, <2>4, <2>5
  <2> HIDE DEF U, Image
  <2>10. IsFiniteSet(Image(T)) /\ SumFunctionOnSet(f, Image(T)) = f[h[a]] + SumFunctionOnSet(f, Image(U))
    BY <2>6, <2>7, <2>8, SumAdd, FS_AddElement
  <2>11. SumFunctionOnSet(g, T) = g[a] + SumFunctionOnSet(g, U)
    BY <2>5, <2>9, SumAdd
  <2>12. Holds(T)
    BY <2>6, <2>9, <2>10, <2>11
  <2>13. QED
    BY <2>2, <2>12
<1>2. S \notin Bad
  BY <1>1
<1>3. QED
  BY <1>2
-----------------------------------------------------------------------------
(***************************************************************************)
(* Sums with repetition: bags of positive numbers, and the functions of    *)
(* WaysOf, which also give numbers 0 times.                                *)
(***************************************************************************)
LEMMA TotalIs ==
  ASSUME NEW b
  PROVE  /\ Total(b) = SumFunctionOnSet([v \in DOMAIN b |-> v * b[v]], DOMAIN b)
         /\ Count(b) = SumFunctionOnSet(b, DOMAIN b)
BY DEF Total, Count, SumFunction

LEMMA TotalNat ==
  ASSUME NEW D, IsFiniteSet(D), D \subseteq Nat, NEW b \in [D -> Nat]
  PROVE  Total(b) \in Nat /\ Count(b) \in Nat
<1>1. \A v \in D : [w \in D |-> w * b[w]][v] \in Nat /\ b[v] \in Nat
  OBVIOUS
<1>2. SumFunctionOnSet([v \in D |-> v * b[v]], D) \in Nat /\ SumFunctionOnSet(b, D) \in Nat
  BY <1>1, SumNat
<1>3. QED
  BY <1>2, TotalIs

LEMMA TotalEmpty ==
  ASSUME NEW b, DOMAIN b = {}
  PROVE  Total(b) = 0 /\ Count(b) = 0
BY TotalIs, SumEmpty

\* A number is given no more often than there is room for.
LEMMA TotalPart ==
  ASSUME NEW D, IsFiniteSet(D), D \subseteq Nat \ {0}, NEW b \in [D -> Nat], NEW a \in D
  PROVE  b[a] <= a * b[a] /\ a * b[a] <= Total(b)
<1> DEFINE f == [v \in D |-> v * b[v]]
<1>1. \A v \in D : f[v] \in Nat
  OBVIOUS
<1>2. f[a] = a * b[a] /\ a \in Nat /\ a >= 1 /\ b[a] \in Nat
  OBVIOUS
<1>3. Total(b) = SumFunctionOnSet(f, D)
  BY TotalIs
<1> HIDE DEF f
<1>4. f[a] <= SumFunctionOnSet(f, D)
  BY <1>1, SumPart
<1>5. \A x, y \in Nat : x >= 1 => y <= x * y
  OBVIOUS
<1>6. QED
  BY <1>2, <1>3, <1>4, <1>5

\* Two sums that differ in one number.
Times(b, a) == IF a \in DOMAIN b THEN b[a] ELSE 0
DifferIn(b, c, a) ==
  /\ Total(b) - a * Times(b, a) = Total(c) - a * Times(c, a)
  /\ Count(b) - Times(b, a) = Count(c) - Times(c, a)
LEMMA TotalBut ==
  ASSUME NEW D, NEW E, NEW a \in Nat, IsFiniteSet(D), D \subseteq Nat, E \subseteq Nat,
         D \ {a} = E \ {a}, NEW b \in [D -> Nat], NEW c \in [E -> Nat],
         \A v \in D \ {a} : c[v] = b[v]
  PROVE  DifferIn(b, c, a)
<1> DEFINE f == [v \in D |-> v * b[v]]
           g == [v \in E |-> v * c[v]]
<1>1. DifferAt(f, D, g, E, a)
  <2>1. (\A v \in D : f[v] \in Int) /\ (\A v \in E : g[v] \in Int) /\ (\A v \in D \ {a} : f[v] = g[v])
    OBVIOUS
  <2> HIDE DEF f, g
  <2>2. QED
    BY <2>1 DEF DifferAt
<1>2. DifferAt(b, D, c, E, a)
  BY DEF DifferAt
<1>3. (a \in D => f[a] = a * b[a]) /\ (a \in E => g[a] = a * c[a])
  OBVIOUS
<1>4. /\ Total(b) = SumFunctionOnSet(f, D) /\ Total(c) = SumFunctionOnSet(g, E)
      /\ Count(b) = SumFunctionOnSet(b, D) /\ Count(c) = SumFunctionOnSet(c, E)
  BY TotalIs
<1> HIDE DEF f, g
<1>5. SumFunctionOnSet(f, D) - At(f, D, a) = SumFunctionOnSet(g, E) - At(g, E, a)
  BY <1>1, SumBut
<1>6. SumFunctionOnSet(b, D) - At(b, D, a) = SumFunctionOnSet(c, E) - At(c, E, a)
  BY <1>2, SumBut
<1>7. a * 0 = 0
  OBVIOUS
<1>8. QED
  BY <1>3, <1>4, <1>5, <1>6, <1>7 DEF At, Times, DifferIn

\* Numbers that are given 0 times.
LEMMA TotalZeros ==
  ASSUME NEW D, NEW E \in SUBSET D, IsFiniteSet(D), D \subseteq Nat,
         NEW b \in [D -> Nat], NEW c \in [E -> Nat],
         \A v \in E : b[v] = c[v], \A v \in D \ E : b[v] = 0
  PROVE  Total(b) = Total(c) /\ Count(b) = Count(c)
<1> DEFINE f == [v \in D |-> v * b[v]]
           g == [v \in E |-> v * c[v]]
<1>0. IsFiniteSet(E)
  BY FS_Subset
<1>1. /\ \A v \in E : f[v] \in Int /\ b[v] \in Int
      /\ \A v \in D \ E : f[v] = 0 /\ b[v] = 0
  OBVIOUS
<1>2. \A v \in E : g[v] \in Int /\ f[v] = g[v]
  OBVIOUS
<1>3. \A v \in E : c[v] \in Int /\ b[v] = c[v]
  OBVIOUS
<1>4. /\ Total(b) = SumFunctionOnSet(f, D) /\ Total(c) = SumFunctionOnSet(g, E)
      /\ Count(b) = SumFunctionOnSet(b, D) /\ Count(c) = SumFunctionOnSet(c, E)
  BY TotalIs
<1> HIDE DEF f, g
<1>5. SumFunctionOnSet(f, D) = SumFunctionOnSet(f, E) /\ SumFunctionOnSet(b, D) = SumFunctionOnSet(b, E)
  BY <1>1, SumNonzero
<1>6. SumFunctionOnSet(f, E) = SumFunctionOnSet(g, E)
  <2>1. AgreeOn(f, g, E)
    BY <1>0, <1>2 DEF AgreeOn
  <2>2. QED
    BY <2>1, SumSame
<1>7. SumFunctionOnSet(b, E) = SumFunctionOnSet(c, E)
  <2>1. AgreeOn(b, c, E)
    BY <1>0, <1>3 DEF AgreeOn
  <2>2. QED
    BY <2>1, SumSame
<1>8. QED
  BY <1>4, <1>5, <1>6, <1>7

\* What a bag of the given values is.
LEMMA SumOver ==
  ASSUME NEW V, IsFiniteSet(V), V \subseteq Nat \ {0}, NEW b, IsSumOver(b, V)
  PROVE  /\ IsFiniteSet(DOMAIN b) /\ DOMAIN b \subseteq V /\ DOMAIN b \subseteq Nat
         /\ b \in [DOMAIN b -> Nat] /\ \A v \in DOMAIN b : b[v] > 0
         /\ Total(b) \in Nat /\ Count(b) \in Nat
         /\ b = EmptyBag <=> Total(b) = 0
<1>1. DOMAIN b \subseteq V /\ b \in [DOMAIN b -> {n \in Nat : n > 0}]
  BY DEF IsSumOver, IsABag, BagToSet
<1>2. IsFiniteSet(DOMAIN b) /\ DOMAIN b \subseteq Nat \ {0}
  BY <1>1, FS_Subset
<1>3. b \in [DOMAIN b -> Nat] /\ \A v \in DOMAIN b : b[v] > 0
  BY <1>1
<1>4. Total(b) \in Nat /\ Count(b) \in Nat
  BY <1>2, <1>3, TotalNat
<1>5. b = EmptyBag => Total(b) = 0
  <2>1. DOMAIN EmptyBag = {}
    BY DEF EmptyBag, SetToBag
  <2>2. QED
    BY <2>1, TotalEmpty
<1>6. b # EmptyBag => Total(b) # 0
  <2>1. SUFFICES ASSUME b # EmptyBag PROVE Total(b) # 0
    OBVIOUS
  <2>2. DOMAIN b # {}
    BY <2>1, <1>3 DEF EmptyBag, SetToBag
  <2>3. PICK a \in DOMAIN b : TRUE
    BY <2>2
  <2>4. b[a] <= a * b[a] /\ a * b[a] <= Total(b)
    BY <1>2, <1>3, <2>3, TotalPart
  <2>5. b[a] > 0 /\ b[a] \in Nat /\ a \in Nat
    BY <1>1, <1>2, <2>3
  <2>6. a * b[a] \in Nat
    BY <2>5
  <2>7. QED
    BY <1>4, <2>4, <2>5, <2>6
<1>7. QED
  BY <1>1, <1>2, <1>3, <1>4, <1>5, <1>6

LEMMA EmptySum ==
  ASSUME NEW V
  PROVE  IsSumOver(EmptyBag, V) /\ Total(EmptyBag) = 0 /\ Count(EmptyBag) = 0
<1>1. DOMAIN EmptyBag = {}
  BY DEF EmptyBag, SetToBag
<1>2. IsSumOver(EmptyBag, V)
  BY DEF IsSumOver, IsABag, BagToSet, EmptyBag, SetToBag
<1>3. QED
  BY <1>1, <1>2, TotalEmpty

\* Some more of a value.
Plus(b, a, k) == b (+) [v \in {a} |-> k]
IsMore(c, b, a, k, V) ==
  /\ IsSumOver(c, V) /\ c # EmptyBag
  /\ Total(c) = Total(b) + a * k /\ Count(c) = Count(b) + k
LEMMA SumPlus ==
  ASSUME NEW V, IsFiniteSet(V), V \subseteq Nat \ {0}, NEW b, IsSumOver(b, V),
         NEW a \in V, NEW k \in Nat, k > 0
  PROVE  IsMore(Plus(b, a, k), b, a, k, V)
<1> DEFINE c == Plus(b, a, k)
           D == DOMAIN b
           E == D \cup {a}
           m == IF a \in D THEN b[a] ELSE 0
<1>1. /\ IsFiniteSet(D) /\ D \subseteq V /\ b \in [D -> Nat] /\ Total(b) \in Nat /\ Count(b) \in Nat
      /\ \A v \in D : b[v] > 0
  BY SumOver
<1>2. DOMAIN c = E /\ \A v \in E : c[v] = (IF v \in D THEN b[v] ELSE 0) + (IF v \in {a} THEN k ELSE 0)
  BY DEF Plus, (+)
<1>3. c \in [E -> Nat] /\ \A v \in E : c[v] > 0
  <2>1. \A v \in E : c[v] \in Nat /\ c[v] > 0
    BY <1>1, <1>2
  <2>2. c = [v \in E |-> c[v]]
    BY <1>2 DEF Plus, (+)
  <2> HIDE DEF c, E
  <2>3. QED
    BY <2>1, <2>2
<1>4. IsSumOver(c, V)
  <2>1. E \subseteq V
    BY <1>1
  <2>2. c \in [DOMAIN c -> {n \in Nat : n > 0}] /\ DOMAIN c \subseteq V
    <3> HIDE DEF c, E
    <3>1. QED
      BY <1>2, <1>3, <2>1
  <2>3. QED
    BY <2>2 DEF IsSumOver, IsABag, BagToSet
<1>5. m \in Nat /\ c[a] = m + k /\ a \in E /\ \A v \in D \ {a} : c[v] = b[v]
  <2>1. a \in E /\ a \in {a}
    OBVIOUS
  <2>2. m \in Nat
    BY <1>1
  <2>3. c[a] = m + k
    BY <1>2, <2>1
  <2>4. \A v \in D \ {a} : c[v] = b[v]
    <3> HIDE DEF c
    <3>1. QED
      BY <1>1, <1>2
  <2>5. QED
    BY <2>1, <2>2, <2>3, <2>4
<1>6. D \ {a} = E \ {a} /\ D \subseteq Nat /\ E \subseteq Nat /\ a \in Nat
  BY <1>1
<1>7. Total(b) - a * m = Total(c) - a * c[a] /\ Count(b) - m = Count(c) - c[a]
  <2> HIDE DEF c, E
  <2>1. DifferIn(b, c, a)
    BY <1>1, <1>3, <1>5, <1>6, TotalBut
  <2>2. Times(b, a) = m /\ Times(c, a) = c[a]
    BY <1>2, <1>5 DEF Times
  <2>3. QED
    BY <2>1, <2>2 DEF DifferIn
<1>8. Total(c) \in Nat /\ Count(c) \in Nat
  BY <1>4, SumOver
<1> HIDE DEF m, c
<1>9. a * c[a] = a * m + a * k /\ a * m \in Nat /\ a * k \in Nat
  <2>1. \A x, y, z \in Nat : x * (y + z) = x * y + x * z /\ x * y \in Nat
    OBVIOUS
  <2>2. QED
    BY <1>5, <1>6, <2>1
<1>10. Total(c) = Total(b) + a * k /\ Count(c) = Count(b) + k
  BY <1>1, <1>5, <1>7, <1>8, <1>9
<1>11. c # EmptyBag
  <2>1. DOMAIN EmptyBag = {}
    BY DEF EmptyBag, SetToBag
  <2>2. QED
    BY <1>2, <1>5, <2>1
<1>12. QED
  BY <1>4, <1>10, <1>11 DEF c, IsMore

\* One value, some times.
LEMMA SingleSum ==
  ASSUME NEW V, IsFiniteSet(V), V \subseteq Nat \ {0}, NEW a \in V, NEW k \in Nat, k > 0
  PROVE  LET b == [v \in {a} |-> k]
         IN  IsSumOver(b, V) /\ b # EmptyBag /\ Total(b) = a * k /\ Count(b) = k
<1>1. Plus(EmptyBag, a, k) = [v \in {a} |-> k]
  BY DEF EmptyBag, SetToBag, Plus, (+)
<1>2. IsSumOver(EmptyBag, V) /\ Total(EmptyBag) = 0 /\ Count(EmptyBag) = 0
  BY EmptySum
<1>3. IsMore(Plus(EmptyBag, a, k), EmptyBag, a, k, V)
  BY <1>2, SumPlus
<1>4. 0 + a * k = a * k /\ 0 + k = k
  OBVIOUS
<1>5. QED
  BY <1>1, <1>2, <1>3, <1>4 DEF IsMore

\* One fewer of a value.
LEMMA SumMinus ==
  ASSUME NEW V, NEW b, IsSumOver(b, V), NEW a
  PROVE  IsSumOver(b (-) SetToBag({a}), V)
<1> DEFINE B == [e \in DOMAIN b |-> IF e \in {a} THEN b[e] - 1 ELSE b[e]]
           c == [e \in {d \in DOMAIN B : B[d] > 0} |-> B[e]]
<1>1. b (-) SetToBag({a}) = c
  BY DEF (-), SetToBag
<1>2. DOMAIN b \subseteq V /\ b \in [DOMAIN b -> {n \in Nat : n > 0}]
  BY DEF IsSumOver, IsABag, BagToSet
<1>3. \A e \in DOMAIN b : B[e] \in Nat
  BY <1>2
<1>4. IsSumOver(c, V)
  BY <1>2, <1>3 DEF IsSumOver, IsABag, BagToSet
<1>5. QED
  BY <1>1, <1>4
\* There is a way with n values.
HasWay(V, s, n) == \E way \in WaysOf(V, s) : Count(way) = n

LEMMA WayIs ==
  ASSUME NEW V, IsFiniteSet(V), V \subseteq Nat \ {0}, NEW s, NEW w \in WaysOf(V, s)
  PROVE  w \in [V -> Nat] /\ Total(w) = s /\ Count(w) \in Nat
<1>1. w \in [V -> 0 .. s] /\ Total(w) = s
  BY DEF WaysOf
<1>2. w \in [V -> Nat]
  BY <1>1
<1>3. V \subseteq Nat
  OBVIOUS
<1>4. Count(w) \in Nat
  BY <1>2, <1>3, TotalNat
<1>5. QED
  BY <1>1, <1>2, <1>4

\* A sum of some values is a way, in which the others are given 0 times.
LEMMA SumIsWay ==
  ASSUME NEW V, IsFiniteSet(V), V \subseteq Nat \ {0}, NEW b, IsSumOver(b, V)
  PROVE  HasWay(V, Total(b), Count(b))
<1> DEFINE w == [v \in V |-> IF v \in DOMAIN b THEN b[v] ELSE 0]
<1>1. /\ DOMAIN b \subseteq V /\ b \in [DOMAIN b -> Nat] /\ Total(b) \in Nat /\ Count(b) \in Nat
  BY SumOver
<1>2. w \in [V -> Nat] /\ (\A v \in DOMAIN b : w[v] = b[v]) /\ (\A v \in V \ DOMAIN b : w[v] = 0)
  BY <1>1
<1>3. w = [v \in V |-> w[v]]
  OBVIOUS
<1> HIDE DEF w
<1>4. Total(w) = Total(b) /\ Count(w) = Count(b)
  <2>1. DOMAIN b \in SUBSET V /\ V \subseteq Nat
    BY <1>1
  <2>2. QED
    BY <1>1, <1>2, <2>1, TotalZeros
<1>5. \A v \in V : w[v] \in 0 .. Total(b)
  <2> TAKE v \in V
  <2>1. w[v] <= v * w[v] /\ v * w[v] <= Total(w)
    BY <1>2, TotalPart
  <2>2. w[v] \in Nat /\ v \in Nat
    BY <1>2
  <2>3. v * w[v] \in Nat
    BY <2>2
  <2>4. QED
    BY <1>1, <1>4, <2>1, <2>2, <2>3
<1>6. w \in [V -> 0 .. Total(b)]
  BY <1>2, <1>3, <1>5
<1>7. QED
  BY <1>4, <1>6 DEF WaysOf, HasWay

\* A way without one of its values.
LEMMA WayWithout ==
  ASSUME NEW V, IsFiniteSet(V), V \subseteq Nat \ {0}, NEW a \in Nat \ {0}, a \notin V,
         NEW s \in Nat, NEW n, HasWay(V \cup {a}, s, n)
  PROVE  \E k \in Nat : a * k <= s /\ k <= n /\ HasWay(V, s - a * k, n - k)
<1> DEFINE E == V \cup {a}
<1>1. PICK w \in WaysOf(E, s) : Count(w) = n
  BY DEF HasWay
<1>2. IsFiniteSet(E) /\ E \subseteq Nat \ {0} /\ E \subseteq Nat /\ V \subseteq Nat
  BY FS_AddElement
<1>3. w \in [E -> Nat] /\ Total(w) = s /\ Count(w) \in Nat
  BY <1>1, <1>2, WayIs
<1> DEFINE u == [v \in V |-> w[v]]
           k == w[a]
<1>4. u \in [V -> Nat] /\ k \in Nat /\ V \ {a} = E \ {a} /\ a \in E
  BY <1>3
<1>5. \A v \in V \ {a} : w[v] = u[v]
  OBVIOUS
<1>6. Total(u) \in Nat /\ Count(u) \in Nat
  <2> HIDE DEF u
  <2>1. QED
    BY <1>2, <1>4, TotalNat
<1> HIDE DEF u, E
<1>7. Total(u) - a * 0 = Total(w) - a * k /\ Count(u) - 0 = Count(w) - k
  <2>1. DifferIn(u, w, a)
    BY <1>2, <1>3, <1>4, <1>5, TotalBut
  <2>2. Times(u, a) = 0 /\ Times(w, a) = k
    BY <1>3, <1>4 DEF Times
  <2>3. QED
    BY <2>1, <2>2 DEF DifferIn
<1>8. a * 0 = 0 /\ a * k \in Nat
  BY <1>4
<1> HIDE DEF k
<1>9. Total(u) = s - a * k /\ Count(u) = n - k /\ a * k <= s /\ k <= n
  BY <1>1, <1>3, <1>4, <1>6, <1>7, <1>8
<1>10. \A v \in V : u[v] \in 0 .. s - a * k
  <2> TAKE v \in V
  <2>1. u[v] <= v * u[v] /\ v * u[v] <= Total(u)
    BY <1>4, TotalPart
  <2>2. u[v] \in Nat /\ v \in Nat
    BY <1>2, <1>4
  <2>3. v * u[v] \in Nat
    BY <2>2
  <2>4. QED
    BY <1>6, <1>9, <2>1, <2>2, <2>3
<1>11. u \in [V -> 0 .. s - a * k]
  BY <1>4, <1>10
<1>12. HasWay(V, s - a * k, n - k)
  BY <1>9, <1>11 DEF WaysOf, HasWay
<1>13. QED
  BY <1>4, <1>9, <1>12
-----------------------------------------------------------------------------
(***************************************************************************)
(* The table of sums.                                                      *)
(***************************************************************************)
\* The requirement on a table in terms of HasWay.
Minimal(sum, V, s) ==
  /\ IsSumOver(sum, V) /\ Total(sum) = s
  /\ \A n \in Nat : HasWay(V, s, n) => Count(sum) <= n
RightTable(table, V, goal) ==
  /\ 0 \in DOMAIN table /\ table[0] = EmptyBag /\ DOMAIN table \subseteq 0 .. goal
  /\ \A s \in DOMAIN table : s \in {0, goal} \/ Reached(table, s)
  /\ \A s \in 1 .. goal, n \in Nat : HasWay(V, s, n) => Reached(table, s)
  /\ \A s \in 1 .. goal : Reached(table, s) => Minimal(table[s], V, s)

LEMMA ShortestIsMinimal ==
  ASSUME NEW V, IsFiniteSet(V), V \subseteq Nat \ {0}, NEW s, NEW b
  PROVE  IsShortest(b, V, s) <=> Minimal(b, V, s)
<1>1. \A w \in WaysOf(V, s) : Count(w) \in Nat
  BY WayIs
<1>2. QED
  BY <1>1 DEF IsShortest, Minimal, HasWay

LEMMA TableIsRight ==
  ASSUME NEW V, IsFiniteSet(V), V \subseteq Nat \ {0}, NEW goal \in Nat, NEW table
  PROVE  IsTableOf(table, V, goal) <=> RightTable(table, V, goal)
<1>1. \A s : WaysOf(V, s) # {} <=> \E n \in Nat : HasWay(V, s, n)
  BY WayIs DEF HasWay
<1>2. \A s, b : IsShortest(b, V, s) <=> Minimal(b, V, s)
  BY ShortestIsMinimal
<1>3. \A s \in 1 .. goal : Reached(table, s) /\ Minimal(table[s], V, s) => \E n \in Nat : HasWay(V, s, n)
  <2> TAKE s \in 1 .. goal
  <2> HAVE Reached(table, s) /\ Minimal(table[s], V, s)
  <2>1. IsSumOver(table[s], V) /\ Total(table[s]) = s
    BY DEF Minimal
  <2>2. Count(table[s]) \in Nat /\ HasWay(V, s, Count(table[s]))
    BY <2>1, SumOver, SumIsWay
  <2>3. QED
    BY <2>2
<1>4. QED
  BY <1>1, <1>2, <1>3 DEF IsTableOf, RightTable

LEMMA LeastNat ==
  ASSUME NEW T, T \subseteq Nat, T # {}
  PROVE  \E m \in T : \A n \in T : m <= n
<1> DEFINE R == OpToRel(<, Nat)
<1>1. \A m, n \in Nat : <<m, n>> \in R <=> m < n
  BY DEF OpToRel
<1>2. IsWellFoundedOn(R, Nat)
  BY NatLessThanWellFounded
<1>3. PICK m \in T : \A n \in T : ~ (<<n, m>> \in R)
  <2> HIDE DEF R
  <2>1. QED
    BY <1>2, WFMin
<1>4. \A n \in T : ~ (n < m)
  BY <1>1, <1>3
<1>5. QED
  BY <1>4

\* There is a first of the shortest paths.
LEMMA OriginIs ==
  ASSUME NEW table, NEW val, NEW s, From(table, val, s) # {},
         \A o \in From(table, val, s) : o \in Nat /\ Plays(table, val, s, o) \in Nat
  PROVE  /\ Origin(table, val, s) \in From(table, val, s)
         /\ \A o \in From(table, val, s) :
              Plays(table, val, s, Origin(table, val, s)) <= Plays(table, val, s, o)
<1> DEFINE F == From(table, val, s)
           P(o) == Plays(table, val, s, o)
           First(o) == \A p \in F : P(o) < P(p) \/ (P(o) = P(p) /\ o <= p)
<1>1. PICK m \in {P(o) : o \in F} : \A n \in {P(o) : o \in F} : m <= n
  <2>1. {P(o) : o \in F} \subseteq Nat /\ {P(o) : o \in F} # {}
    OBVIOUS
  <2> HIDE DEF F, P
  <2>2. QED
    BY <2>1, LeastNat
<1>2. PICK o \in {x \in F : P(x) = m} : \A x \in {x \in F : P(x) = m} : o <= x
  <2>1. {x \in F : P(x) = m} \subseteq Nat /\ {x \in F : P(x) = m} # {}
    BY <1>1
  <2> HIDE DEF F, P
  <2>2. QED
    BY <2>1, LeastNat
<1>3. o \in F /\ First(o)
  <2>1. \A x \in F : P(x) \in Nat /\ x \in Nat /\ m <= P(x)
    BY <1>1
  <2> HIDE DEF F, P
  <2>2. QED
    BY <1>2, <2>1
<1>4. Origin(table, val, s) = CHOOSE x \in F : First(x)
  BY DEF Origin
<1>5. Origin(table, val, s) \in F /\ First(Origin(table, val, s))
  <2> HIDE DEF F, First
  <2>1. QED
    BY <1>3, <1>4
<1>6. \A x \in F : P(x) \in Nat
  OBVIOUS
<1>7. \A x \in F : P(Origin(table, val, s)) <= P(x)
  <2> HIDE DEF F, P
  <2>1. QED
    BY <1>5, <1>6
<1>8. QED
  BY <1>5, <1>7

LEMMA Exact ==
  ASSUME NEW d \in Nat, NEW v \in Nat, v > 0
  PROVE  /\ d % v = 0 => v * (d \div v) = d /\ d \div v \in Nat /\ (d > 0 => d \div v > 0)
         /\ \A k \in Nat : d = v * k => d % v = 0 /\ d \div v = k
<1>1. d = v * (d \div v) + (d % v) /\ d \div v \in Nat /\ d % v \in 0 .. v - 1
  OBVIOUS
<1>2. d % v = 0 => v * (d \div v) = d /\ d \div v \in Nat /\ (d > 0 => d \div v > 0)
  BY <1>1
<1>3. ASSUME NEW k \in Nat, d = v * k PROVE d % v = 0 /\ d \div v = k
  <2> DEFINE q == d \div v
             r == d % v
  <2>1. q \in Nat /\ r \in Nat /\ r < v /\ v * q + r = v * k
    BY <1>1, <1>3
  <2>2. \A x, y \in Nat : x < y => v * x + v <= v * y
    <3> TAKE x, y \in Nat
    <3> HAVE x < y
    <3>1. y - x - 1 \in Nat
      OBVIOUS
    <3>2. v * y = v * x + v + v * (y - x - 1) /\ v * (y - x - 1) \in Nat /\ v * x \in Nat
      BY <3>1
    <3>3. QED
      BY <3>2
  <2> HIDE DEF q, r
  <2>3. v * q \in Nat /\ v * k \in Nat
    BY <2>1
  <2>4. ~ (q < k) /\ ~ (k < q)
    BY <2>1, <2>2, <2>3
  <2>5. q = k
    BY <2>1, <2>4
  <2>6. r = 0
    BY <2>1, <2>3, <2>5
  <2>7. QED
    BY <2>5, <2>6 DEF q, r
<1>4. QED
  BY <1>2, <1>3

\* A round of the loop over the values.
Round(table, V, val, goal) ==
  /\ IsFiniteSet(V) /\ V \subseteq Nat \ {0}
  /\ goal \in Nat /\ goal > 0 /\ val \in 1 .. goal
  /\ RightTable(table, V, goal)

LEMMA EntryIs ==
  ASSUME NEW table, NEW V, NEW val, NEW goal, Round(table, V, val, goal),
         NEW o \in DOMAIN table, o < goal
  PROVE  /\ o \in Nat /\ IsSumOver(table[o], V) /\ Total(table[o]) = o
         /\ Count(table[o]) \in Nat
<1>1. IsFiniteSet(V) /\ V \subseteq Nat \ {0} /\ goal \in Nat /\ o \in Nat
  BY DEF Round, RightTable
<1>2. IsSumOver(table[o], V) /\ Total(table[o]) = o
  <2>1. CASE o = 0
    BY <2>1, EmptySum DEF Round, RightTable
  <2>2. CASE o # 0
    BY <1>1, <2>2 DEF Round, RightTable, Minimal
  <2>3. QED
    BY <2>1, <2>2
<1>3. QED
  BY <1>1, <1>2, SumOver

IsPath(path, V, s, n) == IsSumOver(path, V) /\ path # EmptyBag /\ Total(path) = s /\ Count(path) = n
LEMMA PathIs ==
  ASSUME NEW table, NEW V, NEW val, NEW goal, Round(table, V, val, goal),
         NEW s \in 1 .. goal, NEW o \in From(table, val, s)
  PROVE  /\ o \in Nat /\ Plays(table, val, s, o) \in Nat
         /\ IsPath(Path(table, val, s, o), V \cup {val}, s, Plays(table, val, s, o))
<1> DEFINE k == (s - o) \div val
           W == V \cup {val}
<1>1. goal \in Nat /\ val \in Nat /\ val > 0 /\ s \in Nat /\ s <= goal
  BY DEF Round
<1>2. o \in DOMAIN table /\ o < s /\ (s - o) % val = 0 /\ o \in 0 .. goal
  BY DEF From, Round, RightTable
<1>3. s - o \in Nat /\ s - o > 0 /\ o < goal /\ o \in Nat
  BY <1>1, <1>2
<1>4. k \in Nat /\ k > 0 /\ val * k = s - o
  BY <1>1, <1>2, <1>3, Exact
<1>5. IsSumOver(table[o], V) /\ Total(table[o]) = o /\ Count(table[o]) \in Nat
  BY <1>2, <1>3, EntryIs
<1>6. IsFiniteSet(W) /\ W \subseteq Nat \ {0} /\ val \in W /\ IsSumOver(table[o], W)
  BY <1>1, <1>5, FS_AddElement DEF Round, IsSumOver
<1>7. Path(table, val, s, o) = Plus(table[o], val, k) /\ Plays(table, val, s, o) = Count(table[o]) + k
  BY DEF Path, Plus, Plays
<1> HIDE DEF k, W
<1>8. IsMore(Plus(table[o], val, k), table[o], val, k, W)
  BY <1>4, <1>6, SumPlus
<1>9. o + (s - o) = s
  BY <1>1, <1>3
<1>10. IsPath(Plus(table[o], val, k), W, s, Count(table[o]) + k)
  BY <1>4, <1>5, <1>8, <1>9 DEF IsMore, IsPath
<1>11. QED
  BY <1>3, <1>4, <1>5, <1>7, <1>10 DEF W

\* What becomes of an entry.
LEMMA ExtendIs ==
  ASSUME NEW table, NEW val, NEW goal
  PROVE  /\ DOMAIN Extend(table, val, goal) = Entries(table, val, goal)
         /\ \A s \in Entries(table, val, goal) :
              /\ Kept(table, val, s) => Extend(table, val, goal)[s] = table[s]
              /\ ~Kept(table, val, s) =>
                   Extend(table, val, goal)[s] =
                     IF From(table, val, s) = {} THEN EmptyBag
                     ELSE Path(table, val, s, Origin(table, val, s))
BY DEF Extend

\* A sum is reached with no more than n values.
Within(table, s, n) ==
  Reached(table, s) /\ Count(table[s]) \in Nat /\ Count(table[s]) <= n

LEMMA FirstPath ==
  ASSUME NEW table, NEW V, NEW val, NEW goal, Round(table, V, val, goal),
         NEW s \in 1 .. goal, From(table, val, s) # {}
  PROVE  LET o == Origin(table, val, s)
         IN  /\ Plays(table, val, s, o) \in Nat
             /\ IsPath(Path(table, val, s, o), V \cup {val}, s, Plays(table, val, s, o))
             /\ \A p \in From(table, val, s) :
                  Plays(table, val, s, p) \in Nat /\ Plays(table, val, s, o) <= Plays(table, val, s, p)
<1>1. \A o \in From(table, val, s) : o \in Nat /\ Plays(table, val, s, o) \in Nat
  BY PathIs
<1>2. /\ Origin(table, val, s) \in From(table, val, s)
      /\ \A o \in From(table, val, s) :
           Plays(table, val, s, Origin(table, val, s)) <= Plays(table, val, s, o)
  BY <1>1, OriginIs
<1>3. IsPath(Path(table, val, s, Origin(table, val, s)), V \cup {val}, s, Plays(table, val, s, Origin(table, val, s)))
  BY <1>2, PathIs
<1>4. QED
  BY <1>1, <1>2, <1>3

\* What is reached stays so, with no more values.
LEMMA KeepsReached ==
  ASSUME NEW table, NEW V, NEW val, NEW goal, Round(table, V, val, goal),
         NEW s \in 1 .. goal, NEW n \in Nat, Within(table, s, n)
  PROVE  Within(Extend(table, val, goal), s, n)
<1> DEFINE E == Extend(table, val, goal)
           o == Origin(table, val, s)
           F == From(table, val, s)
<1>1. s \in Entries(table, val, goal) /\ s \in DOMAIN table /\ table[s] # EmptyBag /\ Count(table[s]) <= n
  BY DEF Entries, Within, Reached
<1>2. CASE Kept(table, val, s)
  <2>1. s \in DOMAIN E /\ E[s] = table[s]
    BY <1>1, <1>2, ExtendIs
  <2>2. QED
    BY <1>1, <2>1 DEF Within, Reached
<1>3. CASE ~Kept(table, val, s)
  <2>1. F # {} /\ ~ (Count(table[s]) <= Plays(table, val, s, o))
    BY <1>1, <1>3 DEF Kept
  <2>2. s \in DOMAIN E /\ E[s] = Path(table, val, s, o)
    BY <1>1, <1>3, <2>1, ExtendIs
  <2>3. IsPath(E[s], V \cup {val}, s, Plays(table, val, s, o)) /\ Plays(table, val, s, o) \in Nat
    BY <2>1, <2>2, FirstPath
  <2>4. Count(table[s]) \in Nat
    <3>1. Minimal(table[s], V, s)
      BY <1>1 DEF Round, RightTable, Reached
    <3>2. QED
      BY <3>1, SumOver DEF Minimal, Round
  <2> HIDE DEF E, o
  <2>5. QED
    BY <1>1, <2>1, <2>2, <2>3, <2>4 DEF IsPath, Within, Reached, E
<1>4. QED
  BY <1>2, <1>3

\* Every path there is is taken, or there is none longer.
LEMMA TakesPath ==
  ASSUME NEW table, NEW V, NEW val, NEW goal, Round(table, V, val, goal),
         NEW s \in 1 .. goal, NEW p \in From(table, val, s)
  PROVE  Within(Extend(table, val, goal), s, Plays(table, val, s, p))
<1> DEFINE E == Extend(table, val, goal)
           o == Origin(table, val, s)
<1>1. s \in Entries(table, val, goal) /\ From(table, val, s) # {}
  BY DEF Entries
<1>2. /\ Plays(table, val, s, o) \in Nat /\ Plays(table, val, s, p) \in Nat
      /\ Plays(table, val, s, o) <= Plays(table, val, s, p)
      /\ IsPath(Path(table, val, s, o), V \cup {val}, s, Plays(table, val, s, o))
  BY <1>1, FirstPath
<1>3. CASE Kept(table, val, s)
  <2>1. s \in DOMAIN E /\ E[s] = table[s]
    BY <1>1, <1>3, ExtendIs
  <2>2. s \in DOMAIN table /\ table[s] # EmptyBag /\ Count(table[s]) <= Plays(table, val, s, o)
    BY <1>1, <1>3 DEF Kept
  <2>3. Count(table[s]) \in Nat
    <3>1. Minimal(table[s], V, s)
      BY <2>2 DEF Round, RightTable, Reached
    <3>2. QED
      BY <3>1, SumOver DEF Minimal, Round
  <2> HIDE DEF E, o
  <2>4. QED
    BY <1>2, <2>1, <2>2, <2>3 DEF Within, Reached, E
<1>4. CASE ~Kept(table, val, s)
  <2>1. s \in DOMAIN E /\ E[s] = Path(table, val, s, o)
    BY <1>1, <1>4, ExtendIs
  <2> HIDE DEF E, o
  <2>2. QED
    BY <1>2, <2>1 DEF Within, Reached, IsPath, E
<1>5. QED
  BY <1>3, <1>4

\* So every way to make a sum is accounted for.
LEMMA TakesWay ==
  ASSUME NEW table, NEW V, NEW val, NEW goal, Round(table, V, val, goal),
         NEW s \in 1 .. goal, NEW n \in Nat, HasWay(V \cup {val}, s, n)
  PROVE  Within(Extend(table, val, goal), s, n)
<1>0. /\ IsFiniteSet(V) /\ V \subseteq Nat \ {0} /\ goal \in Nat /\ val \in Nat /\ val > 0
      /\ s \in Nat /\ RightTable(table, V, goal)
  BY DEF Round
<1>1. ASSUME HasWay(V, s, n) PROVE Within(Extend(table, val, goal), s, n)
  <2>1. Reached(table, s) /\ Minimal(table[s], V, s)
    BY <1>0, <1>1 DEF RightTable
  <2>2. Within(table, s, n)
    BY <1>0, <1>1, <2>1, SumOver DEF Minimal, Within
  <2>3. QED
    BY <2>2, KeepsReached
<1>2. CASE val \in V
  <2>1. V \cup {val} = V
    BY <1>2
  <2>2. QED
    BY <1>1, <2>1
<1>3. CASE val \notin V
  <2>0. val \in Nat \ {0}
    BY <1>0
  <2>1. PICK k \in Nat : val * k <= s /\ k <= n /\ HasWay(V, s - val * k, n - k)
    BY <1>0, <1>3, <2>0, WayWithout
  <2>2. CASE k = 0
    <3>1. s - val * k = s /\ n - k = n
      BY <1>0, <2>2
    <3>2. QED
      BY <1>1, <2>1, <3>1
  <2>3. CASE k # 0
    <3> DEFINE o == s - val * k
    <3>1. val * k \in Nat /\ val * k > 0
      BY <1>0, <2>3
    <3>2. o \in Nat /\ o < s /\ s - o = val * k /\ n - k \in Nat /\ o < goal /\ s - o \in Nat
      BY <1>0, <2>1, <3>1
    <3>3. o \in DOMAIN table /\ Count(table[o]) <= n - k
      <4> HIDE DEF o
      <4>1. CASE o = 0
        <5>1. Count(table[o]) = 0
          BY <1>0, <4>1, EmptySum DEF RightTable
        <5>2. QED
          BY <1>0, <3>2, <4>1, <5>1 DEF RightTable
      <4>2. CASE o # 0
        <5>1. o \in 1 .. goal
          BY <1>0, <3>2, <4>2
        <5>2. HasWay(V, o, n - k)
          BY <2>1 DEF o
        <5>3. QED
          BY <1>0, <3>2, <5>1, <5>2 DEF RightTable, Minimal, Reached
      <4>3. QED
        BY <4>1, <4>2
    <3>4. (s - o) % val = 0 /\ (s - o) \div val = k
      <4> HIDE DEF o
      <4>1. QED
        BY <1>0, <3>2, Exact
    <3> HIDE DEF o
    <3>5. o \in From(table, val, s)
      BY <3>2, <3>3, <3>4 DEF From
    <3>6. Plays(table, val, s, o) = Count(table[o]) + k
      BY <3>4 DEF Plays
    <3>7. Within(Extend(table, val, goal), s, Plays(table, val, s, o))
      BY <3>5, TakesPath
    <3>8. Count(table[o]) \in Nat
      BY <3>2, <3>3, EntryIs
    <3>9. QED
      BY <3>2, <3>3, <3>6, <3>7, <3>8 DEF Within
  <2>4. QED
    BY <2>2, <2>3
<1>4. QED
  BY <1>2, <1>3

\* What a round leaves in a table.
SoundIn(table, s, V) == IsSumOver(table[s], V) /\ Total(table[s]) = s
LEMMA ExtendSound ==
  ASSUME NEW table, NEW V, NEW val, NEW goal, Round(table, V, val, goal),
         NEW s \in 1 .. goal, Reached(Extend(table, val, goal), s)
  PROVE  SoundIn(Extend(table, val, goal), s, V \cup {val})
<1> DEFINE E == Extend(table, val, goal)
<1>1. s \in Entries(table, val, goal) /\ E[s] # EmptyBag
  BY ExtendIs DEF Reached
<1>2. CASE Kept(table, val, s)
  <2>1. E[s] = table[s] /\ s \in DOMAIN table
    BY <1>1, <1>2, ExtendIs DEF Kept
  <2>2. Reached(table, s)
    BY <1>1, <2>1 DEF Reached
  <2>3. Minimal(table[s], V, s)
    BY <2>2 DEF Round, RightTable
  <2>4. QED
    BY <2>1, <2>3 DEF Minimal, IsSumOver, SoundIn
<1>3. CASE ~Kept(table, val, s)
  <2>1. From(table, val, s) # {} /\ E[s] = Path(table, val, s, Origin(table, val, s))
    BY <1>1, <1>3, ExtendIs
  <2>2. IsPath(E[s], V \cup {val}, s, Plays(table, val, s, Origin(table, val, s)))
    BY <2>1, FirstPath
  <2>3. QED
    BY <2>2 DEF IsPath, SoundIn
<1>4. QED
  BY <1>2, <1>3

LEMMA ExtendEntries ==
  ASSUME NEW table, NEW V, NEW val, NEW goal, Round(table, V, val, goal)
  PROVE  /\ 0 \in DOMAIN Extend(table, val, goal) /\ Extend(table, val, goal)[0] = EmptyBag
         /\ DOMAIN Extend(table, val, goal) \subseteq 0 .. goal
         /\ \A s \in DOMAIN Extend(table, val, goal) :
              s \in {0, goal} \/ Reached(Extend(table, val, goal), s)
<1> DEFINE E == Extend(table, val, goal)
<1>0. /\ goal \in Nat /\ goal > 0 /\ DOMAIN table \subseteq 0 .. goal
      /\ 0 \in DOMAIN table /\ table[0] = EmptyBag
      /\ \A s \in DOMAIN table : s \in {0, goal} \/ Reached(table, s)
  BY DEF Round, RightTable
<1>1. 0 \in DOMAIN E /\ E[0] = EmptyBag
  <2>1. From(table, val, 0) = {}
    BY <1>0 DEF From
  <2>2. 0 \in Entries(table, val, goal) /\ Kept(table, val, 0)
    BY <1>0, <2>1 DEF Entries, Kept
  <2>3. QED
    BY <1>0, <2>2, ExtendIs
<1>2. DOMAIN E \subseteq 0 .. goal
  <2>1. Entries(table, val, goal) \subseteq 0 .. goal
    BY <1>0 DEF Entries
  <2>2. QED
    BY <2>1, ExtendIs
<1>3. ASSUME NEW s \in DOMAIN E, s \notin {0, goal} PROVE Reached(E, s)
  <2>1. s \in Entries(table, val, goal) /\ s \in 1 .. goal
    BY <1>0, <1>2, <1>3, ExtendIs
  <2>2. CASE Kept(table, val, s)
    <3>1. E[s] = table[s] /\ s \in DOMAIN table
      BY <2>1, <2>2, ExtendIs DEF Kept
    <3>2. Reached(table, s)
      BY <1>0, <1>3, <3>1
    <3> HIDE DEF E
    <3>3. QED
      BY <1>3, <3>1, <3>2 DEF Reached
  <2>3. CASE ~Kept(table, val, s)
    <3>1. From(table, val, s) # {}
      BY <1>0, <1>3, <2>1, <2>3 DEF Entries, Kept
    <3>2. E[s] = Path(table, val, s, Origin(table, val, s))
      BY <2>1, <2>3, <3>1, ExtendIs
    <3> DEFINE o == Origin(table, val, s)
    <3>3. IsPath(Path(table, val, s, o), V \cup {val}, s, Plays(table, val, s, o))
      BY <2>1, <3>1, FirstPath
    <3>4. QED
      BY <1>3, <3>2, <3>3 DEF Reached, IsPath
  <2>4. QED
    BY <2>2, <2>3
<1>4. QED
  BY <1>1, <1>2, <1>3

\* A round leaves a table that is right for one value more.
LEMMA RoundIsRight ==
  ASSUME NEW table, NEW V, NEW val, NEW goal, Round(table, V, val, goal)
  PROVE  RightTable(Extend(table, val, goal), V \cup {val}, goal)
<1> DEFINE E == Extend(table, val, goal)
           W == V \cup {val}
<1>1. \A s \in 1 .. goal, n \in Nat : HasWay(W, s, n) => Within(E, s, n)
  BY TakesWay
<1>2. ASSUME NEW s \in 1 .. goal, Reached(E, s) PROVE SoundIn(E, s, W)
  BY <1>2, ExtendSound
<1>3. /\ 0 \in DOMAIN E /\ E[0] = EmptyBag /\ DOMAIN E \subseteq 0 .. goal
      /\ \A s \in DOMAIN E : s \in {0, goal} \/ Reached(E, s)
  BY ExtendEntries
<1> HIDE DEF E, W
<1>4. \A s \in 1 .. goal : Reached(E, s) => Minimal(E[s], W, s)
  BY <1>1, <1>2 DEF Minimal, Within, SoundIn
<1>5. \A s \in 1 .. goal, n \in Nat : HasWay(W, s, n) => Reached(E, s)
  BY <1>1 DEF Within
<1>6. RightTable(E, W, goal)
  BY <1>3, <1>4, <1>5 DEF RightTable
<1>7. QED
  BY <1>6 DEF E, W

\* A value above the goal adds nothing.
LEMMA SkipIsRight ==
  ASSUME NEW table, NEW V, IsFiniteSet(V), V \subseteq Nat \ {0}, NEW val \in Nat \ {0},
         NEW goal \in Nat, val > goal, RightTable(table, V, goal)
  PROVE  RightTable(table, V \cup {val}, goal)
<1>1. ASSUME NEW s \in 1 .. goal, NEW n \in Nat, HasWay(V \cup {val}, s, n) PROVE HasWay(V, s, n)
  <2>1. CASE val \in V
    <3>1. V \cup {val} = V
      BY <2>1
    <3>2. QED
      BY <1>1, <3>1
  <2>2. CASE val \notin V
    <3>1. s \in Nat
      OBVIOUS
    <3>2. PICK k \in Nat : val * k <= s /\ k <= n /\ HasWay(V, s - val * k, n - k)
      BY <1>1, <2>2, <3>1, WayWithout
    <3>3. k = 0
      <4>1. k > 0 => val * k >= val
        OBVIOUS
      <4>2. val * k \in Nat
        OBVIOUS
      <4>3. QED
        BY <3>2, <4>1, <4>2
    <3>4. s - val * k = s /\ n - k = n
      BY <3>3
    <3>5. QED
      BY <3>2, <3>4
  <2>3. QED
    BY <2>1, <2>2
<1>2. \A s \in 1 .. goal : Minimal(table[s], V, s) => Minimal(table[s], V \cup {val}, s)
  BY <1>1 DEF Minimal, IsSumOver
<1>3. QED
  BY <1>1, <1>2 DEF RightTable

\* At first there is the empty sum alone.
LEMMA FirstIsRight ==
  ASSUME NEW goal \in Nat
  PROVE  RightTable([s \in {0} |-> EmptyBag], {}, goal)
<1> DEFINE table == [s \in {0} |-> EmptyBag]
<1>1. \A s \in 1 .. goal : \A n : ~HasWay({}, s, n)
  <2> TAKE s \in 1 .. goal
  <2> TAKE n
  <2>1. \A w \in WaysOf({}, s) : DOMAIN w = {} /\ Total(w) = s
    BY DEF WaysOf
  <2>2. \A w \in WaysOf({}, s) : 0 = s
    BY <2>1, TotalEmpty
  <2>3. QED
    BY <2>2 DEF HasWay
<1>2. \A s \in 1 .. goal : ~Reached(table, s)
  BY DEF Reached
<1>3. DOMAIN table = {0} /\ table[0] = EmptyBag
  OBVIOUS
<1> HIDE DEF table
<1>4. RightTable(table, {}, goal)
  BY <1>1, <1>2, <1>3 DEF RightTable
<1>5. QED
  BY <1>4 DEF table
-----------------------------------------------------------------------------
(***************************************************************************)
(* The calls.                                                              *)
(***************************************************************************)
LEMMA Limits ==
  /\ \A r \in Requests : r.target \in Int /\ r.points \in Seq(1 .. ExhaustiveLimit)
  /\ Boosts \in Seq(1 .. ExhaustiveLimit) /\ 1 \in Range(Boosts)
  /\ ExhaustiveLimit \in Nat /\ MaxSteps \in Nat \ {0} /\ EarlyExitSteps \in Nat
BY ParkingAssumption DEF IsSorted

LEMMA ValuesIn ==
  ASSUME NEW L \in Nat, NEW values \in Seq(1 .. L)
  PROVE  /\ IsFiniteSet(Range(values)) /\ Range(values) \subseteq 1 .. L
         /\ Range(values) \subseteq Nat \ {0}
         /\ Range(values) = {values[j] : j \in 1 .. Len(values)}
         /\ values # <<>> => Last(values) \in Range(values) /\ Len(values) \in Nat /\ Len(values) > 0
<1>1. DOMAIN values = 1 .. Len(values) /\ Len(values) \in Nat /\ \A j \in 1 .. Len(values) : values[j] \in 1 .. L
  OBVIOUS
<1>2. Range(values) \subseteq 1 .. L /\ Range(values) = {values[j] : j \in 1 .. Len(values)}
  BY <1>1 DEF Range
<1>3. IsFiniteSet(1 .. L)
  BY FS_Interval
<1>4. IsFiniteSet(Range(values))
  BY <1>2, <1>3, FS_Subset
<1>5. values # <<>> => Last(values) \in Range(values) /\ Len(values) > 0
  <2>1. values # <<>> => Len(values) > 0
    BY <1>1
  <2>2. QED
    BY <1>1, <1>2, <2>1 DEF Last
<1>6. QED
  BY <1>1, <1>2, <1>4, <1>5

\* What any call is given.
GivenCall ==
  /\ call.values \in Seq(1 .. ExhaustiveLimit) /\ call.goal \in Int
  /\ IsFiniteSet(Range(call.values)) /\ Range(call.values) \subseteq Nat \ {0}
  /\ Range(call.values) \subseteq 1 .. ExhaustiveLimit
  /\ Range(call.values) = {call.values[j] : j \in 1 .. Len(call.values)}
  /\ Len(call.values) \in Nat
  /\ call.values # <<>> => Last(call.values) \in Range(call.values) /\ Len(call.values) > 0

LEMMA SolIs ==
  ASSUME TypeOK, CallInv, sol # EmptyBag
  PROVE  /\ IsSumOver(sol, Range(request.points)) /\ Total(sol) = request.target
         /\ IsFiniteSet(Range(request.points)) /\ Range(request.points) \subseteq Nat \ {0}
         /\ IsFiniteSet(DOMAIN sol) /\ DOMAIN sol \subseteq Nat \ {0}
         /\ sol \in [DOMAIN sol -> Nat] /\ todo \subseteq DOMAIN sol
         /\ \A v \in DOMAIN sol : sol[v] > 0
<1>1. request.points \in Seq(1 .. ExhaustiveLimit) /\ ExhaustiveLimit \in Nat
  BY Limits DEF TypeOK
<1>2. IsFiniteSet(Range(request.points)) /\ Range(request.points) \subseteq Nat \ {0}
  BY <1>1, ValuesIn
<1>3. IsSumOver(sol, Range(request.points)) /\ Total(sol) = request.target
  BY DEF CallInv
<1>4. /\ IsFiniteSet(DOMAIN sol) /\ DOMAIN sol \subseteq Range(request.points)
      /\ sol \in [DOMAIN sol -> Nat] /\ \A v \in DOMAIN sol : sol[v] > 0
  BY <1>2, <1>3, SumOver
<1>5. todo \subseteq DOMAIN sol
  BY DEF TypeOK, BagToSet
<1>6. QED
  BY <1>2, <1>3, <1>4, <1>5

LEMMA CallIs ==
  ASSUME TypeOK, CallInv, phase \in Calling
  PROVE  GivenCall
<1>1. call.values \in Seq(1 .. ExhaustiveLimit) /\ call.goal \in Int
  <2>1. CASE sol = EmptyBag
    <3>1. phase # "idle" /\ request \in Requests
      BY DEF TypeOK, Calling
    <3>2. call = [values |-> request.points, goal |-> request.target]
      BY <2>1, <3>1, Zenon DEF CallInv
    <3>3. call.values = request.points /\ call.goal = request.target
      BY <3>2
    <3>4. QED
      BY <3>1, <3>3, Limits
  <2>2. CASE sol # EmptyBag
    <3>0. base \in todo /\ call = [values |-> Boosts, goal |-> sol[base]]
      BY <2>2, Zenon DEF CallInv
    <3>1. call.values = Boosts /\ call.goal = sol[base] /\ base \in todo
      BY <3>0
    <3>2. sol[base] \in Nat
      BY <2>2, <3>1, SolIs
    <3>3. QED
      BY <3>1, <3>2, Limits
  <2>3. QED
    BY <2>1, <2>2
<1>2. ExhaustiveLimit \in Nat
  BY Limits
<1> DEFINE values == call.values
<1> HIDE DEF values
<1>3. values \in Seq(1 .. ExhaustiveLimit)
  BY <1>1 DEF values
<1>4. /\ IsFiniteSet(Range(values)) /\ Range(values) \subseteq 1 .. ExhaustiveLimit
      /\ Range(values) \subseteq Nat \ {0}
      /\ Range(values) = {values[j] : j \in 1 .. Len(values)}
      /\ values # <<>> => Last(values) \in Range(values) /\ Len(values) \in Nat /\ Len(values) > 0
  BY <1>2, <1>3, ValuesIn
<1>5. Len(values) \in Nat
  BY <1>3
<1>6. QED
  BY <1>1, <1>4, <1>5 DEF GivenCall, values

\* The invariant is about the running call and the plan; most actions leave one of them alone.
PlanKept == UNCHANGED plan
LEMMA EarnKept ==
  ASSUME EarnInv, PlanKept
  PROVE  EarnInv'
BY DEF EarnInv, PlanKept, plan, Earned

\* Who is running: the phases of the call leave the plan alone.
LEMMA CallKept ==
  ASSUME CallInv, PlanKept, UNCHANGED call, phase \in Calling, phase' \in Calling,
         phase' \in {"solve points", "have points"} => sol = EmptyBag,
         phase' \in {"solve plays", "have plays"} => sol # EmptyBag
  PROVE  CallInv'
<1>1. phase # "idle" /\ phase' # "idle" /\ phase' # "annotated"
  BY DEF Calling
<1>2. sol' = sol /\ todo' = todo /\ turns' = turns /\ request' = request /\ base' = base /\ call' = call
  BY DEF PlanKept, plan
<1>3. CASE sol = EmptyBag
  BY <1>1, <1>2, <1>3, Zenon DEF CallInv
<1>4. CASE sol # EmptyBag
  BY <1>1, <1>2, <1>4, Zenon DEF CallInv
<1>5. QED
  BY <1>3, <1>4

\* A call that ends with an answer.
Answered(answer) ==
  IF answer.status = "ok" THEN RightAnswer(answer)
  ELSE call.goal < 0 \/ call.values = <<>> \/ Misplaced(call.values) \/ call.goal > ExhaustiveLimit
LEMMA ReturnPreserves ==
  ASSUME ParkingInv, phase \in {"solve points", "solve plays", "table", "anneal"},
         PlanKept, UNCHANGED call, NEW answer, Return(answer), Answered(answer),
         answer.status \in {"none", "ok", "not found", "failed precondition", "exhausted"},
         \A s \in DOMAIN last' : IsABag(last'[s]), IsABag(current'), IsABag(best'),
         step' \in 0 .. MaxSteps - 1 /\ since' \in 0 .. EarlyExitSteps
  PROVE  ParkingInv'
<1>0. phase' = Returned /\ result' = answer /\ call' = call /\ phase \in Calling
  BY DEF Return, Calling
<1>1. /\ phase' \in {"have points", "have plays"} /\ phase' \in Calling
      /\ phase' = "have points" => sol = EmptyBag
      /\ phase' = "have plays" => sol # EmptyBag
  BY <1>0 DEF Returned, Calling
<1>2. sol' = sol /\ todo' = todo /\ turns' = turns /\ request' = request /\ base' = base
  BY DEF PlanKept, plan
<1>3. TypeOK'
  BY <1>0, <1>1, <1>2 DEF ParkingInv, TypeOK
<1>4. CallInv'
  BY <1>0, <1>1, CallKept DEF ParkingInv
<1>5. TableInv' /\ AnnealingInv' /\ BestIsBestSeen'
  BY <1>1 DEF TableInv, AnnealingInv, BestIsBestSeen
<1>6. AnswerInv'
  BY <1>0, <1>1 DEF AnswerInv, Answered, RightAnswer
<1>7. EarnInv'
  BY EarnKept DEF ParkingInv
<1>8. QED
  BY <1>3, <1>4, <1>5, <1>6, <1>7 DEF ParkingInv

LEMMA AnnotatePreserves ==
  ASSUME ParkingInv, Annotate
  PROVE  ParkingInv'
<1>0. /\ phase = "idle" /\ phase' = "solve points" /\ UNCHANGED <<place, last, result, annealing, plan>>
      /\ call' = [values |-> request.points, goal |-> request.target]
  BY DEF Annotate
<1>1. sol' = sol /\ todo' = todo /\ turns' = turns /\ request' = request /\ base' = base
  BY <1>0 DEF plan
<1>2. TypeOK'
  BY <1>0, <1>1 DEF ParkingInv, TypeOK, annealing
<1>3. CallInv'
  <2>1. sol = EmptyBag /\ todo = {} /\ turns = {}
    BY <1>0 DEF ParkingInv, CallInv
  <2>2. QED
    BY <1>0, <1>1, <2>1, Zenon DEF CallInv
<1>4. TableInv' /\ AnnealingInv' /\ BestIsBestSeen' /\ AnswerInv'
  BY <1>0 DEF TableInv, AnnealingInv, BestIsBestSeen, AnswerInv
<1>5. EarnInv'
  BY <1>0, EarnKept DEF ParkingInv, PlanKept
<1>6. QED
  BY <1>2, <1>3, <1>4, <1>5 DEF ParkingInv

LEMMA EmptyIsBag == IsABag(EmptyBag) /\ BagToSet(EmptyBag) = {} /\ DOMAIN EmptyBag = {}
BY DEF IsABag, BagToSet, EmptyBag, SetToBag

\* At the start nothing is known and nothing is to be done.
LEMMA FreshInv ==
  ASSUME phase = "idle", request \in Requests, sol = EmptyBag, todo = {}, turns = {},
         current = EmptyBag, best = EmptyBag, step = 0, since = 0,
         last = [s \in {0} |-> EmptyBag], result = Answer("none", EmptyBag)
  PROVE  ParkingInv
<1>1. 0 \in 0 .. MaxSteps - 1 /\ 0 \in 0 .. EarlyExitSteps
  BY Limits
<1>2. TypeOK
  BY <1>1, EmptyIsBag DEF TypeOK, Answer
<1>3. CallInv
  BY Zenon DEF CallInv
<1>4. TableInv /\ AnnealingInv /\ BestIsBestSeen /\ AnswerInv
  BY DEF TableInv, AnnealingInv, BestIsBestSeen, AnswerInv
<1>5. EarnInv
  BY FS_EmptySet DEF EarnInv
<1>6. QED
  BY <1>2, <1>3, <1>4, <1>5 DEF ParkingInv

LEMMA InitInv == Init => ParkingInv
BY FreshInv DEF Init

LEMMA SolveAtOncePreserves ==
  ASSUME ParkingInv, SolveAtOnce
  PROVE  ParkingInv'
<1> DEFINE Statuses == {"none", "ok", "not found", "failed precondition", "exhausted"}
           Good(answer) == Return(answer) /\ Answered(answer) /\ answer.status \in Statuses
<1>0. phase \in {"solve points", "solve plays"} /\ UNCHANGED <<call, place, last, annealing, plan>>
  BY DEF SolveAtOnce, Solving
<1>2. \A s, sum : Answer(s, sum).status = s /\ Answer(s, sum).sum = sum
  BY DEF Answer
<1>3. PICK answer : Good(answer)
  <2>1. CASE call.goal = 0 /\ Return(Answer("ok", EmptyBag))
    <3>1. Good(Answer("ok", EmptyBag))
      BY <1>2, <2>1 DEF Answered, RightAnswer
    <3>2. QED
      BY <3>1
  <2>2. CASE (call.goal < 0 \/ call.values = <<>>) /\ Return(Answer("not found", EmptyBag))
    <3> DEFINE answer == Answer("not found", EmptyBag)
    <3>1. answer.status = "not found"
      BY <1>2
    <3> HIDE DEF answer
    <3>2. Answered(answer) /\ answer.status \in Statuses
      BY <2>2, <3>1 DEF Answered
    <3>3. Return(answer)
      BY <2>2 DEF answer
    <3>4. QED
      BY <3>2, <3>3
  <2>3. CASE Misplaced(call.values) /\ Return(Answer("failed precondition", EmptyBag))
    <3> DEFINE answer == Answer("failed precondition", EmptyBag)
    <3>1. answer.status = "failed precondition"
      BY <1>2
    <3> HIDE DEF answer
    <3>2. Answered(answer) /\ answer.status \in Statuses
      BY <2>3, <3>1 DEF Answered
    <3>3. Return(answer)
      BY <2>3 DEF answer
    <3>4. QED
      BY <3>2, <3>3
  <2>4. QED
    BY <2>1, <2>2, <2>3 DEF SolveAtOnce
<1>1. PlanKept /\ call' = call /\ last' = last /\ current' = current /\ best' = best /\ step' = step /\ since' = since
  BY <1>0 DEF PlanKept, annealing
<1>4. QED
  BY <1>0, <1>1, <1>3, ReturnPreserves DEF ParkingInv, TypeOK

LEMMA ForgetPreserves ==
  ASSUME ParkingInv, Forget
  PROVE  ParkingInv'
<1>1. /\ phase' = "idle" /\ request' \in Requests /\ sol' = EmptyBag /\ todo' = {} /\ turns' = {}
      /\ current' = EmptyBag /\ best' = EmptyBag /\ step' = 0 /\ since' = 0
      /\ last' = [s \in {0} |-> EmptyBag] /\ result' = Answer("none", EmptyBag)
  BY DEF Forget
<1>2. 0 \in 0 .. MaxSteps - 1 /\ 0 \in 0 .. EarlyExitSteps
  BY Limits
<1>3. TypeOK'
  BY <1>1, <1>2, EmptyIsBag DEF TypeOK, Answer
<1>4. CallInv'
  BY <1>1, Zenon DEF CallInv
<1>5. TableInv' /\ AnnealingInv' /\ BestIsBestSeen' /\ AnswerInv'
  BY <1>1 DEF TableInv, AnnealingInv, BestIsBestSeen, AnswerInv
<1>6. EarnInv'
  BY <1>1, FS_EmptySet DEF EarnInv
<1>7. QED
  BY <1>3, <1>4, <1>5, <1>6 DEF ParkingInv

\* The entries of a right table are bags.
LEMMA RightIsBags ==
  ASSUME NEW goal \in Nat, NEW V, NEW table, RightTable(table, V, goal)
  PROVE  \A s \in DOMAIN table : IsABag(table[s])
<1>0. /\ 0 \in DOMAIN table /\ table[0] = EmptyBag /\ DOMAIN table \subseteq 0 .. goal
      /\ \A s \in 1 .. goal : Reached(table, s) => IsABag(table[s])
  BY DEF RightTable, Minimal, IsSumOver
<1> TAKE s \in DOMAIN table
<1>1. CASE s = 0
  BY <1>0, <1>1, EmptyIsBag
<1>2. CASE s # 0
  <2>1. s \in 1 .. goal
    BY <1>0, <1>2
  <2>2. CASE table[s] = EmptyBag
    BY <2>2, EmptyIsBag
  <2>3. CASE table[s] # EmptyBag
    BY <1>0, <2>1, <2>3 DEF Reached
  <2>4. QED
    BY <2>2, <2>3
<1>3. QED
  BY <1>1, <1>2

\* The loop over the values goes on.
LEMMA TablePreserves ==
  ASSUME ParkingInv, phase \in {"solve points", "solve plays", "table"}, phase' = "table",
         PlanKept, UNCHANGED <<call, result, annealing>>, TableInv',
         \A s \in DOMAIN last' : IsABag(last'[s])
  PROVE  ParkingInv'
<1>0. phase \in Calling /\ phase' \in Calling /\ phase' \notin {"solve points", "have points", "solve plays", "have plays"}
  BY DEF Calling
<1>1. sol' = sol /\ todo' = todo /\ request' = request
  BY DEF PlanKept, plan
<1>2. TypeOK'
  BY <1>1 DEF ParkingInv, TypeOK, annealing, TableInv
<1>3. CallInv'
  BY <1>0, CallKept DEF ParkingInv
<1>4. AnnealingInv' /\ BestIsBestSeen' /\ AnswerInv'
  BY DEF AnnealingInv, BestIsBestSeen, AnswerInv
<1>5. EarnInv'
  BY EarnKept DEF ParkingInv
<1>6. QED
  BY <1>2, <1>3, <1>4, <1>5 DEF ParkingInv

LEMMA StartTablePreserves ==
  ASSUME ParkingInv, StartTable
  PROVE  ParkingInv'
<1>0. /\ phase \in {"solve points", "solve plays"} /\ phase \in Calling
      /\ Solvable /\ call.goal <= ExhaustiveLimit
      /\ phase' = "table" /\ place' = Len(call.values) /\ last' = [s \in {0} |-> EmptyBag]
      /\ UNCHANGED <<call, result, annealing, plan>>
  BY DEF StartTable, Solving, Calling
<1>1. GivenCall
  BY <1>0, CallIs DEF ParkingInv
<1>2. call.goal \in Nat /\ call.goal > 0 /\ Len(call.values) \in Nat
  <2>1. call.goal \in Int /\ Len(call.values) \in Nat
    BY <1>1 DEF GivenCall
  <2>2. call.goal > 0
    BY <1>0 DEF Solvable
  <2>3. QED
    BY <2>1, <2>2
<1>3. Taken' = {} /\ place' \in 0 .. Len(call.values)
  <2>1. \A j : j \notin Len(call.values) + 1 .. Len(call.values)
    BY <1>2
  <2>2. call' = call
    BY <1>0
  <2>3. Taken' = {}
    BY <1>0, <2>1, <2>2 DEF Taken
  <2>4. place' = Len(call.values)
    BY <1>0
  <2>5. QED
    BY <1>2, <2>3, <2>4
<1>4. RightTable(last', {}, call.goal)
  BY <1>0, <1>2, FirstIsRight
<1>5. IsTableOf(last', {}, call.goal)
  BY <1>2, <1>4, TableIsRight, FS_EmptySet
<1>6. ~Reached(last', call.goal)
  BY <1>0 DEF Reached, Solvable
<1>7. TableInv'
  BY <1>0, <1>2, <1>3, <1>5, <1>6 DEF TableInv, Solvable
<1>8. \A s \in DOMAIN last' : IsABag(last'[s])
  BY <1>0, EmptyIsBag
<1>9. QED
  BY <1>0, <1>7, <1>8, TablePreserves DEF PlanKept

\* What is known while the table is filled.
LEMMA InTable ==
  ASSUME ParkingInv, phase = "table"
  PROVE  /\ GivenCall /\ Solvable /\ call.goal \in Nat /\ call.goal > 0
         /\ call.goal <= ExhaustiveLimit /\ place \in 0 .. Len(call.values)
         /\ IsFiniteSet(Taken) /\ Taken \subseteq Range(call.values)
         /\ RightTable(last, Taken, call.goal) /\ ~Reached(last, call.goal)
<1>1. GivenCall
  BY CallIs DEF ParkingInv, Calling
<1>2. /\ Solvable /\ call.goal <= ExhaustiveLimit /\ place \in 0 .. Len(call.values)
      /\ IsTableOf(last, Taken, call.goal) /\ ~Reached(last, call.goal)
  BY DEF ParkingInv, TableInv
<1>3. call.goal \in Nat /\ call.goal > 0
  BY <1>1, <1>2 DEF Solvable, GivenCall
<1>4. Taken \subseteq Range(call.values)
  BY <1>1, <1>2 DEF Taken, GivenCall
<1>5. IsFiniteSet(Taken) /\ Taken \subseteq Nat \ {0}
  BY <1>1, <1>4, FS_Subset DEF GivenCall
<1>6. RightTable(last, Taken, call.goal)
  BY <1>2, <1>3, <1>5, TableIsRight
<1>7. QED
  BY <1>1, <1>2, <1>3, <1>4, <1>5, <1>6

LEMMA EndTablePreserves ==
  ASSUME ParkingInv, EndTable
  PROVE  ParkingInv'
<1>0. /\ phase = "table" /\ place = 0 /\ Return(Answer("ok", EmptyBag))
      /\ UNCHANGED <<call, place, last, annealing, plan>>
  BY DEF EndTable
<1>1. /\ GivenCall /\ call.goal \in Nat /\ call.goal > 0 /\ ~Reached(last, call.goal)
      /\ IsTableOf(last, Taken, call.goal)
  BY <1>0, InTable DEF ParkingInv, TableInv
<1>2. Taken = Range(call.values)
  BY <1>0, <1>1 DEF Taken, GivenCall
<1>3. WaysOf(Range(call.values), call.goal) = {}
  BY <1>1, <1>2 DEF IsTableOf
<1> DEFINE answer == Answer("ok", EmptyBag)
<1>4. answer.status = "ok" /\ answer.sum = EmptyBag
  BY DEF Answer
<1> HIDE DEF answer
<1>5. Answered(answer)
  BY <1>3, <1>4 DEF Answered, RightAnswer
<1>6. Return(answer) /\ answer.status \in {"none", "ok", "not found", "failed precondition", "exhausted"}
  BY <1>0, <1>4 DEF answer
<1>7. PlanKept /\ call' = call /\ last' = last /\ current' = current /\ best' = best /\ step' = step /\ since' = since
  BY <1>0 DEF PlanKept, annealing
<1>8. QED
  BY <1>0, <1>5, <1>6, <1>7, ReturnPreserves DEF ParkingInv, TypeOK

LEMMA TakeValuePreserves ==
  ASSUME ParkingInv, TakeValue
  PROVE  ParkingInv'
<1> DEFINE val == call.values[place]
<1>0. /\ phase = "table" /\ place > 0 /\ place' = place - 1 /\ UNCHANGED <<call, annealing, plan>>
      /\ val > call.goal => UNCHANGED <<phase, last, result>>
      /\ ~ (val > call.goal) => last' = Extend(last, val, call.goal)
      /\ ~ (val > call.goal) /\ last'[call.goal] = EmptyBag => UNCHANGED <<phase, result>>
      /\ ~ (val > call.goal) /\ last'[call.goal] # EmptyBag => Return(Answer("ok", last'[call.goal]))
  BY DEF TakeValue
<1>1. /\ GivenCall /\ Solvable /\ call.goal \in Nat /\ call.goal > 0
      /\ call.goal <= ExhaustiveLimit /\ place \in 0 .. Len(call.values)
      /\ IsFiniteSet(Taken) /\ Taken \subseteq Range(call.values)
      /\ RightTable(last, Taken, call.goal) /\ ~Reached(last, call.goal)
  BY <1>0, InTable
<1>2. val \in Range(call.values) /\ val \in Nat \ {0} /\ Taken \subseteq Nat \ {0}
  BY <1>0, <1>1 DEF GivenCall
<1>3. Taken' = Taken \cup {val}
  <2>1. place \in 1 .. Len(call.values) /\ Len(call.values) \in Nat
    BY <1>0, <1>1 DEF GivenCall
  <2>2. \A j : j \in place' + 1 .. Len(call.values) <=> j = place \/ j \in place + 1 .. Len(call.values)
    BY <1>0, <2>1
  <2>3. QED
    BY <1>0, <2>2 DEF Taken
<1>4. IsFiniteSet(Taken') /\ Taken' \subseteq Range(call.values) /\ Taken' \subseteq Nat \ {0}
  BY <1>1, <1>2, <1>3, FS_AddElement
<1>5. RightTable(last', Taken', call.goal)
  <2>1. CASE val > call.goal
    <3>1. RightTable(last, Taken \cup {val}, call.goal)
      BY <1>1, <1>2, <2>1, SkipIsRight
    <3>2. QED
      BY <1>0, <1>3, <2>1, <3>1
  <2>2. CASE ~ (val > call.goal)
    <3>1. val \in 1 .. call.goal
      BY <1>1, <1>2, <2>2
    <3>2. Round(last, Taken, val, call.goal)
      BY <1>1, <1>2, <3>1 DEF Round
    <3>3. RightTable(Extend(last, val, call.goal), Taken \cup {val}, call.goal)
      BY <3>2, RoundIsRight
    <3>4. QED
      BY <1>0, <1>3, <2>2, <3>3
  <2>3. QED
    BY <2>1, <2>2
<1>6. \A s \in DOMAIN last' : IsABag(last'[s])
  BY <1>1, <1>5, RightIsBags
<1>7. ASSUME UNCHANGED <<phase, result>>, ~Reached(last', call.goal) PROVE ParkingInv'
  <2>1. IsTableOf(last', Taken', call.goal)
    BY <1>1, <1>4, <1>5, TableIsRight
  <2>2. place' \in 0 .. Len(call.values)
    BY <1>0, <1>1
  <2>3. TableInv'
    BY <1>0, <1>1, <1>7, <2>1, <2>2 DEF TableInv, Solvable
  <2>4. QED
    BY <1>0, <1>6, <1>7, <2>3, TablePreserves DEF PlanKept
<1>8. CASE val > call.goal
  BY <1>0, <1>1, <1>7, <1>8 DEF Reached
<1>9. CASE ~ (val > call.goal) /\ last'[call.goal] = EmptyBag
  BY <1>0, <1>7, <1>9 DEF Reached
<1>10. CASE ~ (val > call.goal) /\ last'[call.goal] # EmptyBag
  <2>1. call.goal \in DOMAIN last'
    <3>1. call.goal \in Entries(last, val, call.goal)
      BY DEF Entries
    <3>2. QED
      BY <1>0, <1>10, <3>1, ExtendIs
  <2>2. Reached(last', call.goal) /\ call.goal \in 1 .. call.goal
    BY <1>1, <1>10, <2>1 DEF Reached
  <2>3. IsSumOver(last'[call.goal], Taken') /\ Total(last'[call.goal]) = call.goal
    BY <1>5, <2>2 DEF RightTable, Minimal
  <2> DEFINE answer == Answer("ok", last'[call.goal])
  <2>4. answer.status = "ok" /\ answer.sum = last'[call.goal]
    BY DEF Answer
  <2> HIDE DEF answer
  <2>5. Answered(answer)
    BY <1>4, <1>10, <2>3, <2>4 DEF Answered, RightAnswer, IsSumOver
  <2>6. Return(answer) /\ answer.status \in {"none", "ok", "not found", "failed precondition", "exhausted"}
    BY <1>0, <1>10, <2>4 DEF answer
  <2>7. PlanKept /\ call' = call /\ current' = current /\ best' = best /\ step' = step /\ since' = since
    BY <1>0 DEF PlanKept, annealing
  <2>8. QED
    BY <1>0, <1>6, <2>5, <2>6, <2>7, ReturnPreserves DEF ParkingInv, TypeOK
<1>11. QED
  BY <1>8, <1>9, <1>10

LEMMA WorthIs ==
  ASSUME GivenCall, Solvable, NEW b, IsSumOver(b, Range(call.values))
  PROVE  /\ Worth(b) \in Int
         /\ Worth(b) >= 0 => Total(b) = call.goal /\ b # EmptyBag
<1>1. /\ IsFiniteSet(Range(call.values)) /\ Range(call.values) \subseteq Nat \ {0}
      /\ Len(call.values) \in Nat /\ Len(call.values) > 0 /\ call.goal \in Int /\ call.goal > 0
  BY DEF GivenCall, Solvable
<1>2. IsFiniteSet(BagToSet(b)) /\ Total(b) \in Nat /\ (b = EmptyBag <=> Total(b) = 0)
  BY <1>1, SumOver DEF BagToSet
<1>3. Cardinality(BagToSet(b)) \in Nat
  BY <1>2, FS_CardinalityType
<1> DEFINE n == Len(call.values)
           k == Cardinality(BagToSet(b))
           t == Total(b)
           goal == call.goal
<1>4. Worth(b) = IF t # goal THEN 0 - (IF t > goal THEN t - goal ELSE goal - t) ELSE (n - k) \div n
  BY DEF Worth
<1>5. n \in Nat /\ n > 0 /\ k \in Nat /\ t \in Nat /\ goal \in Int /\ goal > 0
  BY <1>1, <1>2, <1>3
<1> HIDE DEF n, k, t, goal
<1>6. (n - k) \div n \in Int
  BY <1>5
<1>7. Worth(b) \in Int /\ (Worth(b) >= 0 => t = goal)
  BY <1>4, <1>5, <1>6
<1>8. QED
  BY <1>2, <1>5, <1>7 DEF t, goal

LEMMA MutationIsSum ==
  ASSUME GivenCall, NEW b, IsSumOver(b, Range(call.values)), NEW next \in Mutations(b, call.values)
  PROVE  IsSumOver(next, Range(call.values))
<1> DEFINE V == Range(call.values)
<1>0. IsFiniteSet(V) /\ V \subseteq Nat \ {0}
  BY DEF GivenCall
<1>1. CASE \E v \in BagToSet(b) : next = b (-) SetToBag({v})
  BY <1>1, SumMinus
<1>2. CASE \E v \in V : next = b (+) SetToBag({v})
  <2>1. PICK v \in V : next = b (+) SetToBag({v})
    BY <1>2
  <2>2. SetToBag({v}) = [w \in {v} |-> 1]
    BY DEF SetToBag
  <2>3. next = Plus(b, v, 1)
    BY <2>1, <2>2 DEF Plus
  <2>4. 1 \in Nat /\ 1 > 0
    OBVIOUS
  <2> HIDE DEF V
  <2>5. IsSumOver(b, V)
    BY DEF V
  <2>6. IsMore(Plus(b, v, 1), b, v, 1, V)
    BY <1>0, <2>4, <2>5, SumPlus
  <2>7. QED
    BY <2>3, <2>6 DEF IsMore, V
<1>3. QED
  BY <1>1, <1>2 DEF Mutations

\* What is known in the annealing.
LEMMA InAnnealing ==
  ASSUME ParkingInv, phase = "anneal"
  PROVE  /\ GivenCall /\ Solvable /\ call.goal \in Int /\ call.goal > ExhaustiveLimit
         /\ IsSumOver(current, Range(call.values)) /\ IsSumOver(best, Range(call.values))
         /\ Worth(best) \in Int /\ Worth(current) \in Int
         /\ Worth(best) = seen /\ Worth(current) <= seen
         /\ step \in 0 .. MaxSteps - 1 /\ since \in 0 .. EarlyExitSteps
<1>1. GivenCall
  BY CallIs DEF ParkingInv, Calling
<1>2. /\ Solvable /\ call.goal > ExhaustiveLimit
      /\ IsSumOver(current, Range(call.values)) /\ IsSumOver(best, Range(call.values))
      /\ step \in 0 .. MaxSteps - 1 /\ since \in 0 .. EarlyExitSteps
  BY DEF ParkingInv, AnnealingInv
<1>3. Worth(best) \in Int /\ Worth(current) \in Int
  BY <1>1, <1>2, WorthIs
<1>4. Worth(best) = seen /\ Worth(current) <= seen
  BY DEF ParkingInv, BestIsBestSeen
<1>5. QED
  BY <1>1, <1>2, <1>3, <1>4 DEF GivenCall

\* The annealing goes on.
LEMMA AnnealPreserves ==
  ASSUME ParkingInv, phase \in {"solve points", "solve plays", "anneal"}, phase' = "anneal",
         PlanKept, UNCHANGED <<call, last, result>>, Solvable, call.goal > ExhaustiveLimit,
         IsSumOver(current', Range(call.values)), IsSumOver(best', Range(call.values)),
         step' \in 0 .. MaxSteps - 1, since' \in 0 .. EarlyExitSteps,
         Worth(best') = seen', Worth(current') <= seen'
  PROVE  ParkingInv'
<1>0. phase \in Calling /\ phase' \in Calling /\ phase' \notin {"solve points", "have points", "solve plays", "have plays"}
  BY DEF Calling
<1>1. sol' = sol /\ todo' = todo /\ request' = request
  BY DEF PlanKept, plan
<1>2. TypeOK'
  BY <1>1 DEF ParkingInv, TypeOK, IsSumOver
<1>3. CallInv'
  BY <1>0, CallKept DEF ParkingInv
<1>4. AnnealingInv'
  BY DEF AnnealingInv, Solvable
<1>5. BestIsBestSeen'
  BY DEF BestIsBestSeen, Worth
<1>6. TableInv' /\ AnswerInv'
  BY DEF TableInv, AnswerInv
<1>7. EarnInv'
  BY EarnKept DEF ParkingInv
<1>8. QED
  BY <1>2, <1>3, <1>4, <1>5, <1>6, <1>7 DEF ParkingInv

LEMMA StartAnnealingPreserves ==
  ASSUME ParkingInv, StartAnnealing
  PROVE  ParkingInv'
<1> DEFINE v == Last(call.values)
           V == Range(call.values)
<1>0. /\ phase \in {"solve points", "solve plays"} /\ Solvable /\ call.goal > ExhaustiveLimit
      /\ phase' = "anneal" /\ best' = FillSumWithBound(call.values, call.goal) /\ current' = best'
      /\ seen' = Worth(best') /\ step' = 0 /\ since' = 0
      /\ UNCHANGED <<call, place, last, result, plan>>
  BY DEF StartAnnealing, Solving
<1>1. GivenCall /\ ExhaustiveLimit \in Nat /\ 0 \in 0 .. MaxSteps - 1 /\ 0 \in 0 .. EarlyExitSteps
  <2>1. phase \in Calling
    BY <1>0 DEF Calling
  <2>2. QED
    BY <2>1, CallIs, Limits DEF ParkingInv
<1>2. v \in V /\ v \in 1 .. ExhaustiveLimit /\ call.goal \in Int
  BY <1>0, <1>1 DEF GivenCall, Solvable
<1>3. call.goal \div v \in Nat /\ call.goal \div v > 0
  <2> DEFINE goal == call.goal
  <2> HIDE DEF v
  <2>0. v \in Nat /\ v > 0 /\ v <= ExhaustiveLimit
    BY <1>1, <1>2
  <2>1. goal \in Int /\ goal > ExhaustiveLimit /\ ExhaustiveLimit \in Nat
    BY <1>0, <1>1, <1>2
  <2> HIDE DEF goal
  <2>2. v \in Nat /\ v > 0 /\ goal \in Nat /\ goal > v
    BY <2>0, <2>1
  <2>3. goal \div v \in Nat /\ goal \div v > 0
    <3>1. goal = v * (goal \div v) + (goal % v) /\ goal \div v \in Nat /\ goal % v \in 0 .. v - 1
      BY <2>2
    <3>2. v * 0 = 0
      BY <2>2
    <3>3. QED
      BY <2>2, <3>1, <3>2
  <2>4. QED
    BY <2>3 DEF v, goal
<1>4. IsFiniteSet(V) /\ V \subseteq Nat \ {0}
  BY <1>1 DEF GivenCall
<1>5. IsSumOver(best', V)
  <2> DEFINE k == call.goal \div v
  <2>1. best' = [w \in {v} |-> k]
    BY <1>0 DEF FillSumWithBound
  <2>2. k \in Nat /\ k > 0
    BY <1>3
  <2> HIDE DEF v, V, k
  <2>3. IsSumOver([w \in {v} |-> k], V)
    BY <1>2, <1>4, <2>2, SingleSum
  <2>4. QED
    BY <2>1, <2>3
<1>6. Worth(best') \in Int
  BY <1>0, <1>1, <1>5, WorthIs
<1>7. PlanKept /\ Worth(best') = seen' /\ Worth(current') <= seen'
  <2>1. Worth(current') = Worth(best')
    BY <1>0 DEF Worth
  <2>2. PlanKept /\ Worth(best') = seen'
    BY <1>0 DEF PlanKept
  <2>3. Worth(current') <= seen'
    BY <1>6, <2>1, <2>2
  <2>4. QED
    BY <2>2, <2>3
<1>8. QED
  BY <1>0, <1>1, <1>5, <1>7, AnnealPreserves

\* The end of a round of the annealing.
LEMMA RoundPreserves ==
  ASSUME ParkingInv, phase = "anneal", IsSumOver(current', Range(call.values)),
         IsSumOver(best', Range(call.values)), Worth(best') = seen', Worth(current') <= seen',
         NEW u \in 0 .. EarlyExitSteps, EndOfStep(u)
  PROVE  ParkingInv'
<1>1. /\ GivenCall /\ Solvable /\ call.goal \in Int /\ call.goal > ExhaustiveLimit
      /\ step \in 0 .. MaxSteps - 1 /\ since \in 0 .. EarlyExitSteps
  BY InAnnealing
<1>2. ExhaustiveLimit \in Nat /\ MaxSteps \in Nat \ {0} /\ EarlyExitSteps \in Nat
  BY Limits
<1>3. PlanKept /\ call' = call /\ last' = last
  BY DEF EndOfStep, PlanKept
<1>4. CASE u >= EarlyExitSteps \/ step + 1 = MaxSteps
  <2> DEFINE answer == IF Worth(best') >= 0 THEN Answer("ok", best') ELSE Answer("exhausted", EmptyBag)
  <2>1. Return(answer) /\ step' = step /\ since' = since
    BY <1>4 DEF EndOfStep
  <2>2. CASE Worth(best') >= 0
    <3>1. answer.status = "ok" /\ answer.sum = best'
      BY <2>2 DEF Answer
    <3>2. Total(best') = call.goal /\ best' # EmptyBag
      BY <1>1, <2>2, WorthIs
    <3> HIDE DEF answer
    <3>3. Answered(answer)
      BY <3>1, <3>2 DEF Answered, RightAnswer
    <3>4. IsABag(current') /\ IsABag(best')
      BY DEF IsSumOver
    <3>5. QED
      BY <1>1, <1>3, <2>1, <3>1, <3>3, <3>4, ReturnPreserves DEF ParkingInv, TypeOK
  <2>3. CASE ~ (Worth(best') >= 0)
    <3>1. answer.status = "exhausted"
      BY <2>3 DEF Answer
    <3> HIDE DEF answer
    <3>2. Answered(answer)
      BY <1>1, <3>1 DEF Answered
    <3>3. IsABag(current') /\ IsABag(best')
      BY DEF IsSumOver
    <3>4. QED
      BY <1>1, <1>3, <2>1, <3>1, <3>2, <3>3, ReturnPreserves DEF ParkingInv, TypeOK
  <2>4. QED
    BY <2>2, <2>3
<1>5. CASE ~ (u >= EarlyExitSteps \/ step + 1 = MaxSteps)
  <2>1. step' = step + 1 /\ since' = u + 1 /\ phase' = phase /\ result' = result
    BY <1>5 DEF EndOfStep
  <2>2. step' \in 0 .. MaxSteps - 1 /\ since' \in 0 .. EarlyExitSteps
    BY <1>1, <1>2, <1>5, <2>1
  <2>3. QED
    BY <1>1, <1>3, <2>1, <2>2, AnnealPreserves
<1>6. QED
  BY <1>4, <1>5

LEMMA MutationPreserves ==
  ASSUME ParkingInv, NEW next \in Mutations(current, call.values),
         Improve(next) \/ Move(next) \/ Reject(next)
  PROVE  ParkingInv'
<1> DEFINE V == Range(call.values)
<1>0. phase = "anneal" /\ seen' = IF Worth(next) > seen THEN Worth(next) ELSE seen
  BY DEF Improve, Move, Reject, Look
<1>1. /\ GivenCall /\ Solvable /\ IsSumOver(current, V) /\ IsSumOver(best, V)
      /\ Worth(best) \in Int /\ Worth(current) \in Int /\ Worth(best) = seen /\ Worth(current) <= seen
      /\ since \in 0 .. EarlyExitSteps
  BY <1>0, InAnnealing
<1>2. IsSumOver(next, V)
  BY <1>1, MutationIsSum
<1>3. Worth(next) \in Int
  BY <1>1, <1>2, WorthIs
<1>4. CASE Improve(next)
  <2>1. best' = next /\ current' = next /\ Worth(next) > Worth(best) /\ EndOfStep(0)
    BY <1>4 DEF Improve
  <2>2. Worth(best') = Worth(next) /\ Worth(current') = Worth(next)
    BY <2>1 DEF Worth
  <2>3. Worth(best') = seen' /\ Worth(current') <= seen'
    BY <1>0, <1>1, <1>3, <2>1, <2>2
  <2>4. 0 \in 0 .. EarlyExitSteps
    BY Limits
  <2>5. QED
    BY <1>0, <1>2, <2>1, <2>3, <2>4, RoundPreserves
<1>5. CASE Move(next)
  <2>1. best' = best /\ current' = next /\ Worth(next) <= Worth(best) /\ EndOfStep(since)
    BY <1>5 DEF Move
  <2>2. Worth(best') = Worth(best) /\ Worth(current') = Worth(next)
    BY <2>1 DEF Worth
  <2>3. Worth(best') = seen' /\ Worth(current') <= seen'
    BY <1>0, <1>1, <1>3, <2>1, <2>2
  <2>4. QED
    BY <1>0, <1>1, <1>2, <2>1, <2>3, RoundPreserves
<1>6. CASE Reject(next)
  <2>1. best' = best /\ current' \in {current, best} /\ Worth(next) < Worth(current) /\ EndOfStep(since)
    BY <1>6 DEF Reject
  <2>2. Worth(best') = Worth(best) /\ (Worth(current') = Worth(current) \/ Worth(current') = Worth(best))
    <3>1. CASE current' = current
      BY <2>1, <3>1 DEF Worth
    <3>2. CASE current' = best
      BY <2>1, <3>2 DEF Worth
    <3>3. QED
      BY <2>1, <3>1, <3>2
  <2>3. Worth(best') = seen' /\ Worth(current') <= seen'
    BY <1>0, <1>1, <1>3, <2>1, <2>2
  <2>4. IsSumOver(current', V)
    BY <1>1, <2>1
  <2>5. QED
    BY <1>0, <1>1, <2>1, <2>3, <2>4, RoundPreserves
<1>7. QED
  BY <1>4, <1>5, <1>6
-----------------------------------------------------------------------------
(***************************************************************************)
(* From the answers to the plays.                                          *)
(***************************************************************************)
\* The call is over: what is left to show of a step that does not call.
LEMMA IdlePreserves ==
  ASSUME ParkingInv, phase' \in {"choose", "annotated", "solve plays"},
         UNCHANGED <<request, last, annealing, result>>, IsABag(sol'), todo' \subseteq BagToSet(sol'),
         CallInv', AnswerInv', EarnInv'
  PROVE  ParkingInv'
<1>1. TypeOK'
  BY DEF ParkingInv, TypeOK, annealing
<1>2. TableInv' /\ AnnealingInv' /\ BestIsBestSeen'
  BY DEF TableInv, AnnealingInv, BestIsBestSeen
<1>3. QED
  BY <1>1, <1>2 DEF ParkingInv

LEMMA TakePointsPreserves ==
  ASSUME ParkingInv, TakePoints
  PROVE  ParkingInv'
<1>0. /\ phase = "have points" /\ phase' \in {"choose", "annotated"}
      /\ UNCHANGED <<request, call, place, last, result, base, turns, annealing>>
      /\ result.status = "ok" =>
           phase' = "choose" /\ sol' = result.sum /\ todo' = BagToSet(result.sum)
      /\ result.status # "ok" => phase' = "annotated" /\ UNCHANGED <<sol, todo>>
  BY DEF TakePoints
<1>1. /\ sol = EmptyBag /\ todo = {} /\ turns = {} /\ phase \in Calling /\ phase # "idle" /\ phase' # "idle"
      /\ phase' \notin Calling
  BY <1>0 DEF ParkingInv, CallInv, Calling
<1>2. call = [values |-> request.points, goal |-> request.target]
  BY <1>1, Zenon DEF ParkingInv, CallInv
<1>3. GivenCall
  BY <1>1, CallIs DEF ParkingInv
<1>4. CASE result.status # "ok" \/ result.sum = EmptyBag
  <2>1. sol' = EmptyBag /\ todo' = {} /\ turns' = {}
    BY <1>0, <1>1, <1>4, EmptyIsBag
  <2>2. CallInv'
    BY <1>0, <1>1, <1>2, <2>1, Zenon DEF CallInv
  <2>3. AnswerInv'
    BY <1>0, <1>4 DEF ParkingInv, AnswerInv, RightAnswer
  <2>4. EarnInv'
    BY <2>1, FS_EmptySet DEF EarnInv
  <2>5. IsABag(sol') /\ todo' \subseteq BagToSet(sol')
    BY <2>1, EmptyIsBag
  <2>6. QED
    BY <1>0, <2>2, <2>3, <2>4, <2>5, IdlePreserves
<1>5. CASE result.status = "ok" /\ result.sum # EmptyBag
  <2>1. /\ phase' = "choose" /\ sol' = result.sum /\ todo' = BagToSet(result.sum) /\ turns' = {}
        /\ sol' # EmptyBag
    BY <1>0, <1>1, <1>5
  <2>2. RightAnswer(result)
    BY <1>0, <1>5 DEF ParkingInv, AnswerInv
  <2>3. IsSumOver(sol', Range(request.points)) /\ Total(sol') = request.target
    BY <1>2, <1>5, <2>1, <2>2 DEF RightAnswer
  <2>4. CallInv'
    <3>1. request' = request /\ phase' # "annotated" /\ phase' \notin {"idle", "solve points", "have points"}
      BY <1>0, <2>1
    <3>2. QED
      BY <1>1, <2>1, <2>3, <3>1, Zenon DEF CallInv
  <2>5. AnswerInv'
    BY <2>1 DEF AnswerInv
  <2>6. EarnInv'
    <3>1. Earned' = 0
      BY <2>1, SumEmpty DEF Earned, SumFunction
    <3>2. Restrict(sol', todo') = sol'
      BY <2>1, <2>3 DEF Restrict, BagToSet, IsSumOver, IsABag
    <3>3. request.target \in Int
      BY Limits DEF ParkingInv, TypeOK
    <3>4. Total(Restrict(sol', todo')) = request.target /\ request' = request
      BY <1>0, <2>3, <3>2
    <3>5. 0 + request.target = request.target
      BY <3>3
    <3>6. Earned' + Total(Restrict(sol', todo')) = request'.target
      BY <3>1, <3>4, <3>5
    <3>7. QED
      BY <2>1, <3>6, FS_EmptySet DEF EarnInv
  <2>7. IsABag(sol') /\ todo' \subseteq BagToSet(sol')
    BY <2>1, <2>3 DEF IsSumOver
  <2>8. QED
    BY <1>0, <2>4, <2>5, <2>6, <2>7, IdlePreserves
<1>6. QED
  BY <1>4, <1>5

LEMMA SolvePlaysPreserves ==
  ASSUME ParkingInv, SolvePlays
  PROVE  ParkingInv'
<1>0. /\ phase = "choose" /\ phase' = "solve plays"
      /\ UNCHANGED <<request, place, last, result, sol, todo, turns, annealing>>
      /\ base' \in todo /\ call' = [values |-> Boosts, goal |-> sol[base']]
  BY DEF SolvePlays
<1>1. sol # EmptyBag
  BY <1>0 DEF ParkingInv, CallInv
<1>2. IsSumOver(sol, Range(request.points)) /\ Total(sol) = request.target
  BY <1>1, SolIs DEF ParkingInv
<1>3. CallInv'
  <2>1. phase' # "annotated" /\ phase' \notin {"idle", "solve points", "have points"}
    BY <1>0
  <2>2. QED
    BY <1>0, <1>1, <1>2, <2>1, Zenon DEF CallInv
<1>4. AnswerInv'
  BY <1>0 DEF AnswerInv
<1>5. EarnInv'
  BY <1>0 DEF ParkingInv, EarnInv, Earned
<1>6. IsABag(sol') /\ todo' \subseteq BagToSet(sol')
  BY <1>0 DEF ParkingInv, TypeOK
<1>7. QED
  BY <1>0, <1>3, <1>4, <1>5, <1>6, IdlePreserves

LEMMA FinishPreserves ==
  ASSUME ParkingInv, Finish
  PROVE  ParkingInv'
<1>0. /\ phase = "choose" /\ todo = {} /\ phase' = "annotated"
      /\ UNCHANGED <<call, place, last, result, annealing, plan>>
  BY DEF Finish
<1>1. sol' = sol /\ todo' = todo /\ turns' = turns /\ request' = request /\ base' = base /\ call' = call
  BY <1>0 DEF plan
<1>2. CallInv'
  <2>1. phase' \notin Calling /\ phase # "idle" /\ phase' # "idle"
    BY <1>0 DEF Calling
  <2>2. CASE sol = EmptyBag
    <3>1. todo = {} /\ turns = {} /\ call = [values |-> request.points, goal |-> request.target]
      BY <2>1, <2>2, Zenon DEF ParkingInv, CallInv
    <3>2. QED
      BY <1>0, <1>1, <2>1, <2>2, <3>1 DEF CallInv
  <2>3. CASE sol # EmptyBag
    <3>1. IsSumOver(sol, Range(request.points)) /\ Total(sol) = request.target
      BY <2>3, SolIs DEF ParkingInv
    <3>2. QED
      BY <1>0, <1>1, <2>1, <2>3, <3>1 DEF CallInv
  <2>4. QED
    BY <2>2, <2>3
<1>3. AnswerInv'
  <2>1. result' = result
    BY <1>0
  <2>2. QED
    BY <1>0, <1>1, <2>1 DEF ParkingInv, AnswerInv, RightAnswer
<1>4. EarnInv'
  BY <1>0, EarnKept DEF ParkingInv, PlanKept
<1>5. IsABag(sol') /\ todo' \subseteq BagToSet(sol')
  BY <1>1 DEF ParkingInv, TypeOK
<1>6. QED
  BY <1>0, <1>1, <1>2, <1>3, <1>4, <1>5, IdlePreserves

\* The turns of one number of points, and what turns earn.
TurnsOf(b, plays) == {[base |-> b, mult |-> m, plays |-> plays[m]] : m \in BagToSet(plays)}
Points(T) == [t \in T |-> t.base * t.mult * t.plays]

LEMMA TurnsOfEarn ==
  ASSUME NEW V, IsFiniteSet(V), V \subseteq Nat \ {0}, NEW plays, IsSumOver(plays, V),
         NEW b \in Nat, NEW T, TurnsOf(b, plays) \subseteq T
  PROVE  /\ IsFiniteSet(TurnsOf(b, plays))
         /\ \A t \in TurnsOf(b, plays) : t.base = b /\ t.mult \in Nat /\ t.plays \in Nat
         /\ SumFunctionOnSet(Points(T), TurnsOf(b, plays)) = b * Total(plays)
<1> DEFINE D == DOMAIN plays
           h == [m \in D |-> [base |-> b, mult |-> m, plays |-> plays[m]]]
           f == [m \in D |-> m * plays[m]]
           g == [m \in D |-> b * f[m]]
           e == Points(T)
<1>1. /\ IsFiniteSet(D) /\ D \subseteq Nat /\ plays \in [D -> Nat] /\ Total(plays) \in Nat
  BY SumOver
<1>2. TurnsOf(b, plays) = {h[m] : m \in D}
  BY DEF TurnsOf, BagToSet
<1>3. \A m \in D : h[m].base = b /\ h[m].mult = m /\ h[m].plays = plays[m] /\ h[m] \in T
  BY <1>2
<1>4. \A m, n \in D : h[m] = h[n] => m = n
  BY <1>3
<1>5. \A m \in D : f[m] \in Int /\ g[m] = b * f[m]
  BY <1>1
<1>6. \A m \in D : g[m] \in Int /\ e[h[m]] = g[m]
  <2> TAKE m \in D
  <2>1. e[h[m]] = b * m * plays[m]
    BY <1>3 DEF Points
  <2>2. g[m] = b * (m * plays[m])
    OBVIOUS
  <2>3. m \in Nat /\ plays[m] \in Nat
    BY <1>1
  <2>4. \A x, y, z \in Nat : x * y * z = x * (y * z) /\ x * (y * z) \in Int
    OBVIOUS
  <2>5. QED
    BY <2>1, <2>2, <2>3, <2>4
<1>7. Total(plays) = SumFunctionOnSet(f, D)
  BY TotalIs
<1>8. \A t \in TurnsOf(b, plays) : t.base = b /\ t.mult \in Nat /\ t.plays \in Nat
  BY <1>1, <1>2, <1>3
<1>9. MapsTo(e, g, h, D)
  BY <1>1, <1>4, <1>6 DEF MapsTo
<1>10. IsMultiple(g, b, f, D)
  BY <1>1, <1>5 DEF IsMultiple
<1> HIDE DEF D, h, f, g, e
<1>11. /\ IsFiniteSet({h[m] : m \in D})
       /\ SumFunctionOnSet(e, {h[m] : m \in D}) = SumFunctionOnSet(g, D)
  BY <1>9, SumImage
<1>12. SumFunctionOnSet(g, D) = b * SumFunctionOnSet(f, D)
  BY <1>10, SumScaled
<1>13. QED
  BY <1>2, <1>7, <1>8, <1>11, <1>12 DEF e

\* One number of points is done.
LEMMA TodoBut ==
  ASSUME TypeOK, CallInv, sol # EmptyBag, NEW b \in todo
  PROVE  /\ Total(Restrict(sol, todo)) = Total(Restrict(sol, todo \ {b})) + b * sol[b]
         /\ Total(Restrict(sol, todo \ {b})) \in Nat
<1> DEFINE D == todo
           E == todo \ {b}
           r == [v \in D |-> sol[v]]
           q == [v \in E |-> sol[v]]
<1>0. /\ IsFiniteSet(DOMAIN sol) /\ DOMAIN sol \subseteq Nat \ {0}
      /\ sol \in [DOMAIN sol -> Nat] /\ todo \subseteq DOMAIN sol
  BY SolIs
<1>1. IsFiniteSet(D) /\ IsFiniteSet(E) /\ D \subseteq Nat /\ E \subseteq Nat /\ b \in Nat /\ b \in D
  BY <1>0, FS_Subset
<1>2. r \in [D -> Nat] /\ q \in [E -> Nat] /\ \A v \in D \ {b} : q[v] = r[v]
  BY <1>0
<1>3. D \ {b} = E \ {b}
  OBVIOUS
<1>4. Times(r, b) = sol[b] /\ Times(q, b) = 0 /\ sol[b] \in Nat
  BY <1>0, <1>1 DEF Times
<1>5. Restrict(sol, todo) = r /\ Restrict(sol, todo \ {b}) = q
  BY DEF Restrict
<1> HIDE DEF D, E, r, q
<1>6. DifferIn(r, q, b)
  BY <1>1, <1>2, <1>3, TotalBut
<1>7. Total(r) \in Nat /\ Total(q) \in Nat
  BY <1>1, <1>2, TotalNat
<1>8. b * 0 = 0 /\ b * sol[b] \in Nat
  BY <1>1, <1>4
<1>9. Total(r) = Total(q) + b * sol[b]
  BY <1>4, <1>6, <1>7, <1>8 DEF DifferIn
<1>10. QED
  BY <1>5, <1>7, <1>9

\* Every number of plays can be split, if only into single ones.
LEMMA BoostsReach ==
  ASSUME NEW goal \in Nat, goal > 0
  PROVE  WaysOf(Range(Boosts), goal) # {}
<1>1. IsFiniteSet(Range(Boosts)) /\ Range(Boosts) \subseteq Nat \ {0} /\ 1 \in Range(Boosts)
  BY Limits, ValuesIn
<1> DEFINE b == [v \in {1} |-> goal]
<1>2. IsSumOver(b, Range(Boosts)) /\ Total(b) = 1 * goal
  BY <1>1, SingleSum
<1>3. 1 * goal = goal
  OBVIOUS
<1> HIDE DEF b
<1>4. HasWay(Range(Boosts), goal, Count(b))
  BY <1>1, <1>2, <1>3, SumIsWay
<1>5. QED
  BY <1>4 DEF HasWay

LEMMA TakePlaysPreserves ==
  ASSUME ParkingInv, TakePlays
  PROVE  ParkingInv'
<1> DEFINE plays == IF result.status = "ok" THEN result.sum ELSE [m \in {1} |-> call.goal]
           new == TurnsOf(base, plays)
           V == Range(Boosts)
<1>0. /\ phase = "have plays" /\ phase' = "choose" /\ turns' = turns \cup new /\ todo' = todo \ {base}
      /\ UNCHANGED <<request, call, place, last, result, sol, base, annealing>>
  BY DEF TakePlays, TurnsOf
<1>1. sol # EmptyBag /\ base \in todo /\ call = [values |-> Boosts, goal |-> sol[base]]
  <2>1. phase \in Calling
    BY <1>0 DEF Calling
  <2>2. sol # EmptyBag
    BY <1>0 DEF ParkingInv, CallInv
  <2>3. QED
    BY <2>1, <2>2, Zenon DEF ParkingInv, CallInv
<1>2. /\ IsSumOver(sol, Range(request.points)) /\ Total(sol) = request.target
      /\ base \in Nat \ {0} /\ sol[base] \in Nat /\ sol[base] > 0
  BY <1>1, SolIs DEF ParkingInv
<1>3. call.values = Boosts /\ call.goal = sol[base]
  BY <1>1
<1>4. IsFiniteSet(V) /\ V \subseteq Nat \ {0} /\ 1 \in V
  BY Limits, ValuesIn
<1>5. IsSumOver(plays, V) /\ Total(plays) = sol[base]
  <2>1. CASE result.status = "ok"
    <3>1. RightAnswer(result) /\ plays = result.sum
      BY <1>0, <2>1 DEF ParkingInv, AnswerInv
    <3>2. WaysOf(V, sol[base]) # {}
      BY <1>2, BoostsReach
    <3>3. result.sum # EmptyBag
      BY <1>2, <1>3, <3>1, <3>2 DEF RightAnswer
    <3>4. IsSumOver(result.sum, Range(call.values)) /\ Total(result.sum) = call.goal
      BY <3>1, <3>3 DEF RightAnswer
    <3>5. QED
      BY <1>3, <3>1, <3>4
  <2>2. CASE result.status # "ok"
    <3>1. plays = [m \in {1} |-> sol[base]]
      BY <1>3, <2>2
    <3> HIDE DEF plays, V
    <3>2. IsSumOver([m \in {1} |-> sol[base]], V) /\ Total([m \in {1} |-> sol[base]]) = 1 * sol[base]
      <4> DEFINE k == sol[base]
      <4>1. k \in Nat /\ k > 0
        BY <1>2
      <4> HIDE DEF k
      <4>2. IsSumOver([m \in {1} |-> k], V) /\ Total([m \in {1} |-> k]) = 1 * k
        BY <1>4, <4>1, SingleSum
      <4>3. QED
        BY <4>2 DEF k
    <3>3. 1 * sol[base] = sol[base]
      BY <1>2
    <3>4. QED
      BY <3>1, <3>2, <3>3
  <2>3. QED
    BY <2>1, <2>2
<1> HIDE DEF plays, V
<1>6. /\ IsFiniteSet(turns) /\ \A t \in turns : t.base \in Nat \ todo /\ t.mult \in Nat /\ t.plays \in Nat
      /\ Earned + Total(Restrict(sol, todo)) = request.target
  BY <1>1 DEF ParkingInv, EarnInv
<1>7. new \subseteq turns' /\ turns \subseteq turns'
  BY <1>0
<1>8. /\ IsFiniteSet(new) /\ \A t \in new : t.base = base /\ t.mult \in Nat /\ t.plays \in Nat
      /\ SumFunctionOnSet(Points(turns'), new) = base * Total(plays)
  BY <1>2, <1>4, <1>5, <1>7, TurnsOfEarn
<1> HIDE DEF new
<1>9. turns \cap new = {} /\ IsFiniteSet(turns')
  BY <1>0, <1>1, <1>6, <1>8, FS_Union
<1>10. \A t \in turns' : t.base \in Nat /\ t.mult \in Nat /\ t.plays \in Nat
  BY <1>0, <1>2, <1>6, <1>8
<1>11. \A x, y, z \in Nat : x * y * z \in Nat
  OBVIOUS
<1>12. \A T : (T \subseteq turns' => \A t \in T : Points(T)[t] \in Nat /\ Points(turns')[t] = Points(T)[t])
  BY <1>10, <1>11 DEF Points
<1>13. Earned = SumFunctionOnSet(Points(turns), turns) /\ Earned' = SumFunctionOnSet(Points(turns'), turns')
  BY DEF Earned, SumFunction, Points
<1>14. SumFunctionOnSet(Points(turns'), turns) = Earned /\ Earned \in Nat
  <2>1. \A t \in turns : Points(turns)[t] \in Nat /\ Points(turns)[t] \in Int /\ Points(turns')[t] = Points(turns)[t]
    BY <1>7, <1>12
  <2>2. SumFunctionOnSet(Points(turns'), turns) = SumFunctionOnSet(Points(turns), turns)
    <3>1. AgreeOn(Points(turns'), Points(turns), turns)
      BY <1>6, <2>1 DEF AgreeOn
    <3>2. QED
      BY <3>1, SumSame
  <2>3. SumFunctionOnSet(Points(turns), turns) \in Nat
    BY <1>6, <2>1, SumNat
  <2>4. QED
    BY <1>13, <2>2, <2>3
<1>15. Earned' = Earned + base * sol[base]
  <2>1. \A t \in turns \cup new : Points(turns')[t] \in Int
    <3>1. \A t \in turns' : Points(turns')[t] \in Nat
      BY <1>12
    <3> DEFINE e == Points(turns')
    <3>2. \A t \in turns' : e[t] \in Int
      BY <3>1
    <3>3. turns' = turns \cup new
      BY <1>0
    <3> HIDE DEF e
    <3>4. \A t \in turns \cup new : e[t] \in Int
      BY <3>2, <3>3
    <3>5. QED
      BY <3>4 DEF e
  <2>2. SumFunctionOnSet(Points(turns'), turns \cup new) =
          SumFunctionOnSet(Points(turns'), turns) + SumFunctionOnSet(Points(turns'), new)
    BY <1>6, <1>8, <1>9, <2>1, SumUnion
  <2>3. QED
    BY <1>0, <1>5, <1>8, <1>13, <1>14, <2>2
<1>16. /\ Total(Restrict(sol, todo)) = Total(Restrict(sol, todo \ {base})) + base * sol[base]
       /\ Total(Restrict(sol, todo \ {base})) \in Nat
  BY <1>1, TodoBut DEF ParkingInv
<1>17. Earned' + Total(Restrict(sol', todo')) = request'.target
  <2>1. base * sol[base] \in Nat
    BY <1>2
  <2>2. sol' = sol /\ request' = request
    BY <1>0
  <2>3. Earned + base * sol[base] + Total(Restrict(sol, todo \ {base})) = request.target
    BY <1>6, <1>14, <1>16, <2>1
  <2>4. QED
    BY <1>0, <1>15, <2>2, <2>3
<1>18. EarnInv'
  <2>1. \A t \in turns' : t.base \in Nat \ todo' /\ t.mult \in Nat /\ t.plays \in Nat
    BY <1>0, <1>2, <1>6, <1>8
  <2>2. QED
    BY <1>9, <1>17, <2>1 DEF EarnInv
<1>19. CallInv'
  <2>1. phase' \notin Calling /\ phase' # "idle" /\ phase' # "annotated" /\ phase' \notin {"idle", "solve points", "have points"}
    BY <1>0 DEF Calling
  <2>2. sol' = sol /\ request' = request
    BY <1>0
  <2>3. QED
    BY <1>1, <1>2, <2>1, <2>2, Zenon DEF CallInv
<1>20. AnswerInv'
  BY <1>0, <1>1 DEF AnswerInv
<1>21. IsABag(sol') /\ todo' \subseteq BagToSet(sol')
  BY <1>0 DEF ParkingInv, TypeOK
<1>22. QED
  BY <1>0, <1>18, <1>19, <1>20, <1>21, IdlePreserves

LEMMA StutterPreserves == ASSUME ParkingInv, UNCHANGED vars PROVE ParkingInv'
<1>1. /\ phase' = phase /\ request' = request /\ call' = call /\ place' = place /\ last' = last
      /\ current' = current /\ best' = best /\ step' = step /\ since' = since /\ seen' = seen
      /\ result' = result /\ sol' = sol /\ todo' = todo /\ base' = base /\ turns' = turns
  BY DEF vars, annealing, plan
<1>2. TypeOK' /\ CallInv' /\ AnnealingInv' /\ EarnInv'
  BY <1>1 DEF ParkingInv, TypeOK, CallInv, AnnealingInv, EarnInv, Solvable, Earned
<1>3. BestIsBestSeen'
  BY <1>1 DEF ParkingInv, BestIsBestSeen, Worth
<1>4. TableInv'
  BY <1>1 DEF ParkingInv, TableInv, Solvable, Taken
<1>5. AnswerInv'
  BY <1>1 DEF ParkingInv, AnswerInv, RightAnswer
<1>6. QED
  BY <1>2, <1>3, <1>4, <1>5 DEF ParkingInv

\* The invariant holds in every state.
THEOREM ParkingInvariant == Spec => []ParkingInv
<1>1. ParkingInv /\ [Next]_vars => ParkingInv'
  BY AnnotatePreserves, ForgetPreserves, SolveAtOncePreserves, StartTablePreserves,
     TakeValuePreserves, EndTablePreserves, StartAnnealingPreserves, MutationPreserves,
     TakePointsPreserves, SolvePlaysPreserves, TakePlaysPreserves, FinishPreserves,
     StutterPreserves DEF Next
<1>2. QED
  BY InitInv, <1>1, PTL DEF Spec

\* Every variable of the two solvers and of the plan stays in its range.
THEOREM ParkingTypeCorrect == Spec => []TypeOK
BY ParkingInvariant, PTL DEF ParkingInv

\* Between two rounds of the outer loop of the table (parking.cc:44-66) the entries are shortest
\* sums of the values seen so far, and there is one for each sum that they can make.
THEOREM TableIsAlwaysShortest == Spec => []TableIsShortest
<1>1. ParkingInv => TableIsShortest
  BY DEF ParkingInv, TableInv, IsTableOf, TableIsShortest
<1>2. QED
  BY <1>1, ParkingInvariant, PTL

\* What SolveSubsetSumWithRepetition returns without an error adds up to the goal, and it is
\* empty only when there is nothing to earn or no way to.
THEOREM AnswerIsAlwaysRight == Spec => []AnswerIsRight
<1>1. ParkingInv => AnswerIsRight
  BY DEF ParkingInv, AnswerInv, AnswerIsRight
<1>2. QED
  BY <1>1, ParkingInvariant, PTL

\* The best sum of the annealing is as good as any it has looked at.
THEOREM BestIsAlwaysBestSeen == Spec => []BestIsBestSeen
BY ParkingInvariant, PTL DEF ParkingInv

\* The plays of a finished strategy earn the target to the point.
THEOREM TurnsAlwaysEarnTarget == Spec => []TurnsEarnTarget
<1>1. ASSUME ParkingInv, phase = "annotated", sol # EmptyBag PROVE Earned = request.target
  <2>1. todo = {}
    BY <1>1 DEF ParkingInv, CallInv
  <2>2. Total(Restrict(sol, todo)) = 0
    <3>1. DOMAIN Restrict(sol, todo) = {}
      BY <2>1 DEF Restrict
    <3>2. QED
      BY <3>1, TotalEmpty
  <2>3. Earned \in Int
    <3>1. IsFiniteSet(turns) /\ \A t \in turns : t.base \in Nat /\ t.mult \in Nat /\ t.plays \in Nat
      BY <1>1 DEF ParkingInv, EarnInv
    <3>2. \A x, y, z \in Nat : x * y * z \in Int
      OBVIOUS
    <3>3. \A t \in turns : Points(turns)[t] \in Int
      BY <3>1, <3>2 DEF Points
    <3>4. SumFunctionOnSet(Points(turns), turns) \in Int
      BY <3>1, <3>3, SumInt
    <3>5. QED
      BY <3>4 DEF Earned, SumFunction, Points
  <2>4. Earned + Total(Restrict(sol, todo)) = request.target
    BY <1>1 DEF ParkingInv, EarnInv
  <2>5. QED
    BY <2>2, <2>3, <2>4
<1>2. ASSUME ParkingInv, phase = "annotated", turns = {}, request.target \in 1 .. ExhaustiveLimit,
             IsSorted(request.points, <=)
      PROVE  WaysOf(Range(request.points), request.target) = {}
  <2>0. /\ ParkingInv /\ phase = "annotated" /\ turns = {}
        /\ request.target \in 1 .. ExhaustiveLimit
    BY <1>2, Zenon
  <2>1. ExhaustiveLimit \in Nat /\ request.points \in Seq(1 .. ExhaustiveLimit)
    BY <2>0, Limits DEF ParkingInv, TypeOK
  <2>2. sol = EmptyBag
    <3>1. Earned = 0
      BY <2>0, SumEmpty DEF Earned, SumFunction
    <3>2. request.target # 0
      BY <2>0, <2>1
    <3>3. QED
      BY <1>1, <2>0, <3>1, <3>2
  <2>3. call.values = request.points /\ call.goal = request.target
    <3>1. call = [values |-> request.points, goal |-> request.target]
      BY <2>0, <2>2 DEF ParkingInv, CallInv
    <3>2. QED
      BY <3>1
  <2>4. CASE result.status = "ok"
    <3>1. RightAnswer(result) /\ result.sum = EmptyBag
      BY <2>0, <2>2, <2>4 DEF ParkingInv, AnswerInv
    <3>2. request.target # 0
      BY <2>0, <2>1
    <3>3. QED
      BY <2>3, <3>1, <3>2 DEF RightAnswer
  <2>5. CASE result.status # "ok"
    <3>1. \/ call.goal < 0 \/ call.values = <<>> \/ Misplaced(call.values)
          \/ call.goal > ExhaustiveLimit
      BY <2>0, <2>2, <2>5 DEF ParkingInv, AnswerInv
    <3>2. ~Misplaced(call.values)
      <4> DEFINE values == request.points
      <4>1. \A i, j \in 1 .. Len(values) : i < j => values[i] <= values[j]
        BY <1>2 DEF IsSorted
      <4>2. Len(values) \in Nat /\ \A i \in 1 .. Len(values) : values[i] \in Nat /\ values[i] > 0
        BY <2>1
      <4> HIDE DEF values
      <4>3. ~Misplaced(values)
        <5> SUFFICES ASSUME NEW i \in 1 .. Len(values) - 1
                     PROVE  ~ (values[i] > Last(values) \/ values[i] > values[i + 1] \/ values[i] <= 0)
          BY DEF Misplaced
        <5>1. i \in 1 .. Len(values) /\ i + 1 \in 1 .. Len(values) /\ Len(values) \in 1 .. Len(values)
              /\ i < i + 1 /\ i < Len(values)
          BY <4>2
        <5>2. QED
          BY <4>1, <4>2, <5>1 DEF Last
      <4>4. QED
        BY <2>3, <4>3 DEF values
    <3>3. request.points = <<>>
      BY <2>0, <2>1, <2>3, <3>1, <3>2
    <3>4. Range(request.points) = {}
      BY <3>3 DEF Range
    <3>5. \A w \in WaysOf({}, request.target) : 0 = request.target
      BY TotalEmpty DEF WaysOf
    <3>6. QED
      BY <2>0, <2>1, <3>4, <3>5
  <2>6. QED
    BY <2>4, <2>5
<1>3. ParkingInv => TurnsEarnTarget
  BY <1>1, <1>2 DEF TurnsEarnTarget
<1>4. QED
  BY <1>3, ParkingInvariant, PTL
=============================================================================
