---------------------- MODULE SimulatedAnnealingProofs ----------------------
(***************************************************************************)
(* Proofs about SimulatedAnnealing, for every pool, every sound constraints*)
(* object, every objective and estimate, and all options.                  *)
(***************************************************************************)
EXTENDS SimulatedAnnealing, FiniteSetTheorems, SequenceTheorems, TLAPS
-----------------------------------------------------------------------------
(***************************************************************************)
(* Objects, teams and values.                                              *)
(***************************************************************************)
Considered == Objects \cup {Unconstrained}

\* Every object a builder holds is sound, a default one included.
LEMMA ConsideredSound ==
  ASSUME NEW c \in Considered
  PROVE  SoundObject(c)
<1>1. CASE c \in Objects
  BY <1>1, AnnealingAssumption
<1>2. CASE c = Unconstrained
  <2>1. Unconstrained \in ConstraintsType
    BY DEF Unconstrained, ConstraintsType
  <2>2. UpdateEmpty(Unconstrained) = [Unconstrained EXCEPT !.empty = TRUE]
    BY DEF Unconstrained, UpdateEmpty
  <2>3. [Unconstrained EXCEPT !.empty = TRUE] = Unconstrained
    <3>1. Unconstrained.empty = TRUE
      BY DEF Unconstrained
    <3>2. QED
      BY <2>1, <3>1 DEF ConstraintsType
  <2>4. Range(Unconstrained.pairs) = {}
    BY DEF Unconstrained, Range
  <2>5. QED
    BY <1>2, <2>1, <2>2, <2>3, <2>4 DEF SoundObject
<1>3. QED
  BY <1>1, <1>2 DEF Considered

\* An object that calls itself empty restricts neither the skill nor the rarities, and lists
\* no pair.
LEMMA EmptyAsksNothing ==
  ASSUME NEW c, SoundObject(c), c.empty
  PROVE  c.minSkill = 0 /\ c.rarities = {} /\ c.pairs = <<>>
BY DEF SoundObject, ConstraintsType, UpdateEmpty

\* The filtered pool is part of the pool, its cards have no excluded rarity.
LEMMA FilteredTeam ==
  ASSUME NEW c, NEW team \in TeamsOf(FilterCardPool(c))
  PROVE  /\ team \in TeamsOf(Pool) /\ team \in [Slots -> Pool]
         /\ \A k \in Slots : team[k].rarity \notin c.rarities
<1>1. team \in [Slots -> FilterCardPool(c)]
  BY DEF TeamsOf, Slots
<1>2. FilterCardPool(c) \subseteq Pool
  BY DEF FilterCardPool
<1>3. team \in [Slots -> Pool]
  BY <1>1, <1>2
<1>4. team \in TeamsOf(Pool)
  BY <1>3 DEF TeamsOf, Slots
<1>5. \A k \in Slots : team[k].rarity \notin c.rarities
  BY <1>1 DEF FilterCardPool
<1>6. QED
  BY <1>3, <1>4, <1>5

\* The value of a team is one of Values, hence an integer, and so is its value as a float.
LEMMA ValueIsInt ==
  ASSUME NEW team \in [Slots -> Pool], con \in Considered
  PROVE  /\ Value(team) \in Values /\ Value(team) \in Int
         /\ Single(Value(team)) \in Floats /\ Single(Value(team)) \in Int
         /\ Single(Single(Value(team))) = Single(Value(team))
<1>1. Value(team) \in Values
  BY DEF Value, Values, Considered
<1>2. Value(team) \in Int
  BY AnnealingAssumption DEF Value, Considered
<1>3. Single(Value(team)) \in Floats
  BY <1>1 DEF Floats
<1>4. QED
  BY <1>1, <1>2, <1>3, SingleAssumption

\* The teams a search may start from satisfy the constraints.
LEMMA ValidTeamSatisfies ==
  ASSUME pool = FilterCardPool(con), NEW first, NEW team \in ValidTeams(first)
  PROVE  team \in TeamsOf(pool) /\ SatisfiesConstraints(con, team)
<1>1. /\ team \in TeamsOf(pool) /\ CharacterSetSatisfies(con, CharsOf(team))
      /\ LeadReaches(con, team)
  BY DEF ValidTeams
<1>2. \A k \in Slots : team[k].rarity \notin con.rarities
  BY <1>1, FilteredTeam
<1>3. QED
  BY <1>1, <1>2 DEF SatisfiesConstraints, Slots

\* A search tries the first cards in the places of the other characters, whichever they are: if a
\* leader's card satisfies the constraints with any of them, it finds a team.
LEMMA SearchFinds ==
  ASSUME pool = FilterCardPool(con), NEW first \in FirstCards,
         NEW team \in TeamsOf(pool), NEW k \in Slots, MayLead(con, team, k),
         \A other \in Replacements(team, k) : SatisfiesConstraints(con, other)
  PROVE  ValidTeams(first) # {}
<1> DEFINE t == [l \in Slots |-> IF l = k THEN team[k] ELSE first[team[l].char]]
<1>1. /\ team \in [Slots -> pool]
      /\ \A i, j \in Slots : i # j => team[i].char # team[j].char
  BY DEF TeamsOf, Slots
<1>2. /\ first \in [{card.char : card \in pool} -> pool]
      /\ \A char \in {card.char : card \in pool} : first[char].char = char
  BY DEF FirstCards
<1>3. ASSUME NEW l \in Slots PROVE t[l] \in pool /\ t[l].char = team[l].char
  <2>1. team[l] \in pool /\ team[k] \in pool
    BY <1>1
  <2>2. team[l].char \in {card.char : card \in pool}
    BY <2>1
  <2>3. first[team[l].char] \in pool /\ first[team[l].char].char = team[l].char
    BY <1>2, <2>2
  <2>4. QED
    BY <2>1, <2>3
<1>4. t[k] = team[k] /\ \A l \in Slots \ {k} : t[l] = first[team[l].char]
  OBVIOUS
<1>5. t \in [Slots -> pool]
  BY <1>3
<1> HIDE DEF t
<1>6. t \in TeamsOf(pool)
  <2>1. \A i, j \in Slots : i # j => t[i].char # t[j].char
    BY <1>1, <1>3
  <2>2. QED
    BY <1>5, <2>1 DEF TeamsOf, Slots
<1>7. CharsOf(t) = CharsOf(team)
  BY <1>3 DEF CharsOf, Slots
<1>8. MayLead(con, t, k)
  BY <1>4, <1>7 DEF MayLead
<1>9. Tried(first, t, k)
  BY <1>3, <1>4 DEF Tried
<1>10. t \in Replacements(team, k)
  BY <1>3, <1>4, <1>6 DEF Replacements
<1>11. SatisfiesConstraints(con, t)
  BY <1>10
<1>12. t \in ValidTeams(first)
  BY <1>6, <1>8, <1>9, <1>11 DEF ValidTeams, SatisfiesConstraints
<1>13. QED
  BY <1>12

\* What a move makes of the current team.
LEMMA NeighborIsMove ==
  ASSUME NEW new \in Neighbors
  PROVE  \E k \in Slots, card \in pool :
           /\ new = [current EXCEPT ![k] = card]
           /\ IF mode = "simple" THEN SimpleViable(k, card) ELSE ChallengeViable(k, card)
BY DEF Neighbors, Viable

\* A neighbour is a team of the pool; it holds no card twice that the current team does not.
LEMMA NeighborTeam ==
  ASSUME current \in [Slots -> pool], NEW new \in Neighbors
  PROVE  new \in [Slots -> pool] /\ RepeatedCards(new) \subseteq RepeatedCards(current)
<1>1. PICK k \in Slots, card \in pool :
             /\ new = [current EXCEPT ![k] = card]
             /\ IF mode = "simple" THEN SimpleViable(k, card) ELSE ChallengeViable(k, card)
  BY NeighborIsMove
<1>2. \A l \in Slots : current[l].id # card.id
  BY <1>1 DEF SimpleViable, ChallengeViable
<1>3. new \in [Slots -> pool]
  BY <1>1
<1>4. ASSUME NEW m \in Slots, NEW l \in Slots \ {m}, new[m].id = new[l].id
      PROVE  m # k /\ l # k /\ new[m] = current[m] /\ new[l] = current[l]
  <2>1. \A n \in Slots : new[n] = IF n = k THEN card ELSE current[n]
    BY <1>1
  <2>2. QED
    BY <1>2, <1>4, <2>1
<1>5. RepeatedCards(new) \subseteq RepeatedCards(current)
  BY <1>4 DEF RepeatedCards
<1>6. QED
  BY <1>3, <1>5

\* For an event, a neighbour satisfies the constraints.
LEMMA NeighborSatisfies ==
  ASSUME con \in Considered, mode = "simple", pool = FilterCardPool(con),
         current \in TeamsOf(pool), NEW new \in Neighbors
  PROVE  new \in TeamsOf(pool) /\ SatisfiesConstraints(con, new)
<1>1. PICK k \in Slots, card \in pool :
             new = [current EXCEPT ![k] = card] /\ SimpleViable(k, card)
  BY NeighborIsMove
<1>2. /\ current \in [Slots -> pool]
      /\ \A i, j \in Slots : i # j => current[i].char # current[j].char
  BY DEF TeamsOf, Slots
<1>3. \A n \in Slots : new[n] = IF n = k THEN card ELSE current[n]
  BY <1>1, <1>2
<1>4. \A l \in Slots : l # k => current[l].char # card.char
  BY <1>1 DEF SimpleViable
<1>5. new \in TeamsOf(pool)
  <2>1. new \in [Slots -> pool]
    BY <1>1, <1>2
  <2>2. \A i, j \in Slots : i # j => new[i].char # new[j].char
    BY <1>2, <1>3, <1>4
  <2>3. QED
    BY <2>1, <2>2 DEF TeamsOf, Slots
<1>6. CASE ~con.empty
  BY <1>1, <1>5, <1>6 DEF SimpleViable
<1>7. CASE con.empty
  <2>1. con.minSkill = 0 /\ con.rarities = {}
    BY <1>7, ConsideredSound, EmptyAsksNothing
  <2>2. QED
    BY <1>5, <1>7, <2>1 DEF SatisfiesConstraints, CharacterSetSatisfies, LeadReaches
<1>8. QED
  BY <1>5, <1>6, <1>7

\* Other versions of its cards leave a team its characters and rarities.
LEMMA VersionsKeepCharacters ==
  ASSUME NEW c, NEW team \in TeamsOf(FilterCardPool(c)), NEW t \in VersionsOf(team)
  PROVE  t \in TeamsOf(FilterCardPool(c)) /\ CharsOf(t) = CharsOf(team)
<1>1. /\ team \in [Slots -> FilterCardPool(c)] /\ team \in [Slots -> Pool]
      /\ \A i, j \in Slots : i # j => team[i].char # team[j].char
      /\ \A k \in Slots : team[k].rarity \notin c.rarities
  BY FilteredTeam DEF TeamsOf, Slots
<1>2. t \in [Slots -> Pool] /\ \A k \in Slots : t[k].id = team[k].id
  BY DEF VersionsOf, Versions
<1>3. \A k \in Slots : t[k].char = team[k].char /\ t[k].rarity = team[k].rarity
  BY <1>1, <1>2, AnnealingAssumption
<1>4. t \in [Slots -> FilterCardPool(c)]
  BY <1>1, <1>2, <1>3 DEF FilterCardPool
<1>5. QED
  BY <1>1, <1>3, <1>4 DEF TeamsOf, CharsOf, Slots
-----------------------------------------------------------------------------
(***************************************************************************)
(* The invariant.                                                          *)
(***************************************************************************)

\* What a round leaves untouched is what the properties say of every held team.
GoodTeam(team) ==
  /\ team \in [Slots -> pool]
  /\ mode = "simple" => team \in TeamsOf(pool) /\ SatisfiesConstraints(con, team)

\* Division by a positive number does not increase.
LEMMA QuotientBound ==
  ASSUME NEW a \in Nat, NEW h \in Nat \ {0}
  PROVE  a \div h \in 0 .. a
<1>1. a \div h \in Int /\ h * (a \div h) <= a /\ a < h * (a \div h) + h
  OBVIOUS
<1>2. a \div h >= 0
  BY <1>1
<1>3. a \div h <= a
  BY <1>1, <1>2
<1>4. QED
  BY <1>1, <1>2, <1>3

\* The initial state satisfies the invariant.
LEMMA InitInv == Init => AnnealingInv
<1> SUFFICES ASSUME Init PROVE AnnealingInv
  OBVIOUS
<1>1. TypeOK
  BY AnnealingAssumption DEF Init, TypeOK
<1>2. FreshInv /\ PoolInv /\ ValueInv /\ HeldTeamsSatisfyConstraints /\ BestIsBestSeen
  BY DEF Init, FreshInv, PoolInv, ValueInv, HeldTeamsSatisfyConstraints, BestIsBestSeen
<1>3. AnswerKeepsCharacters /\ AnswerIfAny
  BY DEF Init, AnswerKeepsCharacters, AnswerIfAny
<1>4. QED
  BY <1>1, <1>2, <1>3 DEF AnnealingInv

\* A call filters the pool.
LEMMA CallInv ==
  ASSUME AnnealingInv, Call
  PROVE  AnnealingInv'
<1>1. /\ phase = "idle" /\ phase' = "first"
      /\ UNCHANGED <<current, currentVal, best, bestVal, step, since, temp, seen, answer>>
  BY DEF Call
<1>2. TypeOK /\ current = NoTeam /\ best = NoTeam /\ answer = NoTeam
  BY <1>1 DEF AnnealingInv, FreshInv
<1>3. /\ mode' \in {"simple", "challenge"} /\ con' \in Objects \cup {Unconstrained}
      /\ pool' \subseteq Pool /\ (mode' = "simple" => pool' = FilterCardPool(con)')
  BY DEF Call, FilterCardPool
<1>4. TypeOK'
  BY <1>1, <1>2, <1>3 DEF TypeOK
<1>5. FreshInv' /\ PoolInv' /\ ValueInv' /\ HeldTeamsSatisfyConstraints' /\ BestIsBestSeen'
  BY <1>1, <1>2, <1>3
     DEF FreshInv, PoolInv, ValueInv, HeldTeamsSatisfyConstraints, BestIsBestSeen
<1>6. AnswerKeepsCharacters' /\ AnswerIfAny'
  BY <1>1 DEF AnswerKeepsCharacters, AnswerIfAny
<1>7. QED
  BY <1>4, <1>5, <1>6 DEF AnnealingInv

\* A first team is a good one: for an event by what it is looked for.
LEMMA FirstTeamGood ==
  ASSUME AnnealingInv, phase = "first", NEW first, NEW team \in FirstTeams(first)
  PROVE  GoodTeam(team)
<1>1. con \in Considered /\ mode \in {"simple", "challenge"}
      /\ (mode = "simple" => pool = FilterCardPool(con))
  BY DEF AnnealingInv, TypeOK, PoolInv, Considered
<1>2. CASE mode = "simple"
  <2>1. team \in TeamsOf(pool) /\ SatisfiesConstraints(con, team)
    BY <1>1, <1>2, ValidTeamSatisfies DEF FirstTeams
  <2>2. QED
    BY <2>1 DEF GoodTeam, TeamsOf, Slots
<1>3. CASE mode # "simple"
  BY <1>3 DEF FirstTeams, AnyTeams, GoodTeam
<1>4. QED
  BY <1>2, <1>3

\* The first team is current and best.
LEMMA PickTeamInv ==
  ASSUME AnnealingInv, PickTeam
  PROVE  AnnealingInv'
<1>0. PICK first \in FirstCards :
        \E team \in FirstTeams(first) :
          /\ current' = team /\ currentVal' = Value(team)
          /\ best' = team /\ bestVal' = Value(team)
          /\ seen' = Single(Value(team))
  BY DEF PickTeam
<1>1. PICK team \in FirstTeams(first) :
        /\ current' = team /\ currentVal' = Value(team)
        /\ best' = team /\ bestVal' = Value(team)
        /\ seen' = Single(Value(team))
  BY <1>0
<1>2. /\ phase = "first" /\ phase' = "anneal" /\ step' = 0 /\ since' = 0
      /\ temp' = InitialTemp /\ answer' = answer
      /\ mode' = mode /\ con' = con /\ pool' = pool
  BY DEF PickTeam, call
<1>3. TypeOK /\ con \in Considered /\ answer = NoTeam
  BY <1>2 DEF AnnealingInv, TypeOK, FreshInv, Considered
<1>4. GoodTeam(team)
  BY <1>1, <1>2, FirstTeamGood
<1>5. team \in [Slots -> pool] /\ team \in [Slots -> Pool]
  BY <1>3, <1>4 DEF GoodTeam, TypeOK
<1>6. Value(team) \in Int /\ Single(Value(team)) \in Int
  BY <1>3, <1>5, ValueIsInt
<1>7. TypeOK'
  BY <1>1, <1>2, <1>3, <1>5, <1>6, AnnealingAssumption DEF TypeOK
<1>8. ValueInv' /\ BestIsBestSeen'
  <2>1. Value(best)' = Value(team) /\ (bestVal = Value(best))'
    BY <1>1, <1>2 DEF Value
  <2>2. QED
    BY <1>1, <1>2, <1>6, <2>1 DEF ValueInv, BestIsBestSeen
<1>9. HeldTeamsSatisfyConstraints'
  BY <1>1, <1>2, <1>4 DEF GoodTeam, HeldTeamsSatisfyConstraints
<1>10. FreshInv' /\ PoolInv' /\ AnswerKeepsCharacters' /\ AnswerIfAny'
  BY <1>2 DEF FreshInv, PoolInv, AnswerKeepsCharacters, AnswerIfAny, AnnealingInv
<1>11. QED
  BY <1>7, <1>8, <1>9, <1>10 DEF AnnealingInv

\* Without a first team no leader's card would do with the first cards of the others.
LEMMA NoFirstTeamInv ==
  ASSUME AnnealingInv, NoFirstTeam
  PROVE  AnnealingInv'
<1>1. /\ phase = "first" /\ phase' = "answered" /\ answer' = NoTeam
      /\ UNCHANGED <<current, currentVal, best, bestVal, step, since, temp, seen>>
      /\ mode' = mode /\ con' = con /\ pool' = pool
  BY DEF NoFirstTeam, call
<1>2. TypeOK /\ (mode = "simple" => pool = FilterCardPool(con))
  BY <1>1 DEF AnnealingInv, TypeOK, PoolInv
<1>3. TypeOK'
  BY <1>1, <1>2 DEF TypeOK
<1>4. AnswerIfAny'
  <2> SUFFICES ASSUME mode = "simple",
                      NEW team \in TeamsOf(FilterCardPool(con)), NEW k \in Slots,
                      MayLead(con, team, k),
                      \A other \in Replacements(team, k) : SatisfiesConstraints(con, other)
               PROVE  FALSE
    BY <1>1 DEF AnswerIfAny, Replacements
  <2>1. PICK first \in FirstCards : FirstTeams(first) = {}
    BY DEF NoFirstTeam
  <2>2. QED
    BY <1>2, <2>1, SearchFinds DEF FirstTeams
<1>5. FreshInv' /\ ValueInv' /\ HeldTeamsSatisfyConstraints' /\ BestIsBestSeen'
      /\ AnswerKeepsCharacters'
  BY <1>1 DEF FreshInv, ValueInv, HeldTeamsSatisfyConstraints, BestIsBestSeen,
              AnswerKeepsCharacters
<1>6. PoolInv'
  BY <1>1, <1>2 DEF PoolInv
<1>7. QED
  BY <1>3, <1>4, <1>5, <1>6 DEF AnnealingInv

\* The bookkeeping at the end of a round.
LEMMA EndOfStepType ==
  ASSUME TypeOK, phase = "anneal", NEW s \in 0 .. since, EndOfStep(s)
  PROVE  /\ temp' \in Nat /\ step' \in 0 .. MaxSteps /\ since' \in 0 .. step'
         /\ phase' \in {"anneal", "versions"} /\ (phase' = "anneal" => step' < MaxSteps)
<1>1. /\ step \in 0 .. MaxSteps /\ step < MaxSteps /\ since \in 0 .. step /\ temp \in Nat
      /\ MaxSteps \in Nat /\ StepsBeforeCooling \in Nat /\ MinTemp \in Nat
  BY AnnealingAssumption DEF TypeOK
<1>2. Cooled \in Nat
  <2>1. CASE step > StepsBeforeCooling
    <3>1. step - StepsBeforeCooling \in Nat /\ step - StepsBeforeCooling <= MaxSteps
      BY <1>1, <2>1
    <3>2. (step - StepsBeforeCooling) \div HalfLife \in 0 .. (step - StepsBeforeCooling)
      BY <3>1, AnnealingAssumption, QuotientBound
    <3>3. (step - StepsBeforeCooling) \div HalfLife \in 0 .. MaxSteps
      BY <1>1, <3>1, <3>2
    <3>4. Exp[(step - StepsBeforeCooling) \div HalfLife] \in Nat
      BY <3>3, AnnealingAssumption
    <3>5. QED
      BY <2>1, <3>4 DEF Cooled
  <2>2. CASE ~ (step > StepsBeforeCooling)
    BY <1>1, <2>2 DEF Cooled
  <2>3. QED
    BY <2>1, <2>2
<1>3. temp' \in Nat
  BY <1>1, <1>2 DEF EndOfStep
<1>4. step' = step + 1 /\ since' = s + 1
  BY DEF EndOfStep
<1>5. phase' \in {"anneal", "versions"} /\ (phase' = "anneal" => step + 1 # MaxSteps)
  BY DEF EndOfStep, LastStep
<1>6. QED
  BY <1>1, <1>3, <1>4, <1>5

\* What a round must leave behind for the invariant to hold after it.
LEMMA RoundInv ==
  ASSUME AnnealingInv, phase = "anneal", NEW s \in 0 .. since, EndOfStep(s),
         GoodTeam(current'), GoodTeam(best'),
         {currentVal', bestVal', seen'} \subseteq Int,
         bestVal' \in {Value(best'), Single(Value(best'))},
         Single(bestVal') = seen', Single(Value(best')) = seen', currentVal' <= bestVal'
  PROVE  AnnealingInv'
<1>1. TypeOK /\ answer' = answer /\ mode' = mode /\ con' = con /\ pool' = pool
  BY DEF AnnealingInv, EndOfStep, call
<1>2. /\ temp' \in Nat /\ step' \in 0 .. MaxSteps /\ since' \in 0 .. step'
      /\ phase' \in {"anneal", "versions"} /\ (phase' = "anneal" => step' < MaxSteps)
  BY <1>1, EndOfStepType
<1>3. TypeOK'
  <2>1. {current', best'} \subseteq [Slots -> pool]
    BY DEF GoodTeam
  <2>2. QED
    BY <1>1, <1>2, <2>1 DEF TypeOK
<1>4. Value(best)' = Value(best')
  BY <1>1 DEF Value
<1>5. ValueInv' /\ BestIsBestSeen'
  BY <1>4 DEF ValueInv, BestIsBestSeen
<1>6. HeldTeamsSatisfyConstraints'
  BY <1>1 DEF GoodTeam, HeldTeamsSatisfyConstraints
<1>7. FreshInv' /\ PoolInv' /\ AnswerKeepsCharacters' /\ AnswerIfAny'
  BY <1>1, <1>2 DEF AnnealingInv, FreshInv, PoolInv, AnswerKeepsCharacters, AnswerIfAny
<1>8. QED
  BY <1>3, <1>5, <1>6, <1>7 DEF AnnealingInv

\* The teams held in the loop are good ones.
LEMMA HeldAreGood ==
  ASSUME AnnealingInv, phase = "anneal"
  PROVE  GoodTeam(current) /\ GoodTeam(best)
BY DEF AnnealingInv, TypeOK, HeldTeamsSatisfyConstraints, GoodTeam

\* So is a neighbour.
LEMMA NeighborIsGood ==
  ASSUME AnnealingInv, phase = "anneal", NEW new \in Neighbors
  PROVE  GoodTeam(new)
<1>1. /\ con \in Considered /\ (mode = "simple" => pool = FilterCardPool(con))
      /\ GoodTeam(current)
  BY HeldAreGood DEF AnnealingInv, TypeOK, PoolInv, Considered
<1>2. new \in [Slots -> pool]
  BY <1>1, NeighborTeam DEF GoodTeam
<1>3. mode = "simple" => new \in TeamsOf(pool) /\ SatisfiesConstraints(con, new)
  BY <1>1, NeighborSatisfies DEF GoodTeam
<1>4. QED
  BY <1>2, <1>3 DEF GoodTeam

\* Comparing a neighbour with the best team keeps what is known of the best value.
LEMMA BestStep ==
  ASSUME AnnealingInv, phase = "anneal", NEW new \in Neighbors,
         BestAfter(new, Single(Value(new)))
  PROVE  /\ GoodTeam(best') /\ {bestVal', seen', Single(Value(new))} \subseteq Int
         /\ bestVal' \in {Value(best'), Single(Value(best'))}
         /\ Single(bestVal') = seen' /\ Single(Value(best')) = seen'
         /\ bestVal <= bestVal' /\ Single(Value(new)) <= bestVal'
<1> DEFINE v == Value(new)
           w == Value(best)
           val == Single(v)
<1>1. GoodTeam(new) /\ GoodTeam(best)
  BY NeighborIsGood, HeldAreGood
<1>2. con \in Considered /\ pool \subseteq Pool /\ bestVal \in Int /\ seen \in Int
  BY DEF AnnealingInv, TypeOK, Considered
<1>3. new \in [Slots -> Pool] /\ best \in [Slots -> Pool]
  BY <1>1, <1>2 DEF GoodTeam
<1>4. /\ v \in Values /\ v \in Int /\ val \in Floats /\ val \in Int /\ Single(val) = val
      /\ w \in Values /\ w \in Int /\ Single(w) \in Floats /\ Single(w) \in Int
      /\ Single(Single(w)) = Single(w)
  BY <1>2, <1>3, ValueIsInt
<1>5. bestVal \in {w, Single(w)} /\ Single(bestVal) = seen /\ Single(w) = seen
  BY DEF AnnealingInv, ValueInv, BestIsBestSeen
<1>6. /\ best' = IF val > bestVal THEN new ELSE best
      /\ bestVal' = IF val > bestVal THEN val ELSE bestVal
      /\ seen' = IF val > seen THEN val ELSE seen
  BY DEF BestAfter, ImprovesBest
<1>7. bestVal \in Values \cup Floats /\ val \in Values \cup Floats
  BY <1>4, <1>5
<1>8. (val <= bestVal => Single(val) <= Single(bestVal))
      /\ (bestVal <= val => Single(bestVal) <= Single(val))
  BY <1>7, SingleAssumption
<1> HIDE DEF v, w, val
<1>9. CASE val > bestVal
  <2>1. bestVal <= val
    BY <1>2, <1>4, <1>9
  <2>2. seen <= val
    BY <1>4, <1>5, <1>8, <2>1
  <2>3. best' = new /\ bestVal' = val /\ seen' = val
    BY <1>2, <1>4, <1>6, <1>9, <2>2
  <2>4. Value(best') = v /\ Single(Value(best')) = val /\ Single(bestVal') = val
    BY <1>4, <2>3 DEF v, val
  <2>5. bestVal <= bestVal' /\ val <= bestVal'
    BY <1>4, <2>1, <2>3
  <2>6. QED
    BY <1>1, <1>4, <2>3, <2>4, <2>5 DEF val, v
<1>10. CASE ~ (val > bestVal)
  <2>1. val <= bestVal
    BY <1>2, <1>4, <1>10
  <2>2. val <= seen
    BY <1>4, <1>5, <1>8, <2>1
  <2>3. best' = best /\ bestVal' = bestVal /\ seen' = seen
    BY <1>2, <1>4, <1>6, <1>10, <2>2
  <2>4. Value(best') = w
    BY <2>3 DEF w
  <2>5. bestVal <= bestVal' /\ val <= bestVal'
    BY <1>2, <2>1, <2>3
  <2>6. QED
    BY <1>1, <1>2, <1>4, <1>5, <2>3, <2>4, <2>5 DEF val, v
<1>11. QED
  BY <1>9, <1>10

\* Rounds without a neighbour, with a move, with a refusal.
LEMMA NoNeighborInv ==
  ASSUME AnnealingInv, NoNeighbor
  PROVE  AnnealingInv'
<1>1. /\ phase = "anneal" /\ EndOfStep(since)
      /\ current' = current /\ currentVal' = currentVal
      /\ best' = best /\ bestVal' = bestVal /\ seen' = seen
  BY DEF NoNeighbor
<1>2. GoodTeam(current') /\ GoodTeam(best')
  BY <1>1, HeldAreGood
<1>3. /\ {currentVal, bestVal, seen} \subseteq Int /\ since \in 0 .. since
      /\ bestVal \in {Value(best), Single(Value(best))}
      /\ Single(bestVal) = seen /\ Single(Value(best)) = seen /\ currentVal <= bestVal
  BY <1>1 DEF AnnealingInv, TypeOK, ValueInv, BestIsBestSeen
<1>4. Value(best') = Value(best)
  BY <1>1
<1>5. QED
  BY <1>1, <1>2, <1>3, <1>4, RoundInv

LEMMA MoveInv ==
  ASSUME AnnealingInv, Move
  PROVE  AnnealingInv'
<1>1. PICK new \in Neighbors :
        /\ current' = new /\ currentVal' = Single(Value(new))
        /\ BestAfter(new, Single(Value(new)))
        /\ EndOfStep(IF ImprovesBest(Single(Value(new))) THEN 0 ELSE since)
  BY DEF Move
<1>2. phase = "anneal" /\ since \in Nat
  BY DEF Move, AnnealingInv, TypeOK
<1>3. PICK s \in 0 .. since : EndOfStep(s)
  BY <1>1, <1>2
<1>4. GoodTeam(current')
  BY <1>1, <1>2, NeighborIsGood
<1>5. /\ GoodTeam(best') /\ {bestVal', seen', Single(Value(new))} \subseteq Int
      /\ bestVal' \in {Value(best'), Single(Value(best'))}
      /\ Single(bestVal') = seen' /\ Single(Value(best')) = seen'
      /\ Single(Value(new)) <= bestVal'
  BY <1>1, <1>2, BestStep
<1>6. {currentVal', bestVal', seen'} \subseteq Int /\ currentVal' <= bestVal'
  BY <1>1, <1>5
<1>7. QED
  BY <1>2, <1>3, <1>4, <1>5, <1>6, RoundInv

LEMMA RefuseInv ==
  ASSUME AnnealingInv, Refuse
  PROVE  AnnealingInv'
<1>1. PICK new \in Neighbors :
        /\ BestAfter(new, Single(Value(new)))
        /\ \/ current' = best' /\ currentVal' = bestVal'
           \/ UNCHANGED <<current, currentVal>>
        /\ EndOfStep(IF ImprovesBest(Single(Value(new))) THEN 0 ELSE since)
  BY DEF Refuse
<1>2. /\ phase = "anneal" /\ since \in Nat /\ currentVal \in Int /\ bestVal \in Int
      /\ currentVal <= bestVal
  BY DEF Refuse, AnnealingInv, TypeOK, BestIsBestSeen
<1>3. PICK s \in 0 .. since : EndOfStep(s)
  BY <1>1, <1>2
<1>4. /\ GoodTeam(best') /\ {bestVal', seen', Single(Value(new))} \subseteq Int
      /\ bestVal' \in {Value(best'), Single(Value(best'))}
      /\ Single(bestVal') = seen' /\ Single(Value(best')) = seen'
      /\ bestVal <= bestVal'
  BY <1>1, <1>2, BestStep
<1>5. GoodTeam(current')
  BY <1>1, <1>2, <1>4, HeldAreGood
<1>6. {currentVal', bestVal', seen'} \subseteq Int /\ currentVal' <= bestVal'
  BY <1>1, <1>2, <1>4
<1>7. QED
  BY <1>2, <1>3, <1>4, <1>5, <1>6, RoundInv

\* The versions chosen at the end make a team of the same characters and rarities, so that an
\* answer is given and it is one of them.
LEMMA ChooseVersionsInv ==
  ASSUME AnnealingInv, ChooseVersions
  PROVE  AnnealingInv'
<1>1. PICK team \in VersionsOf(best) : answer' = team
  BY DEF ChooseVersions
<1>2. /\ phase = "versions" /\ phase' = "answered"
      /\ UNCHANGED <<current, currentVal, best, bestVal, step, since, temp, seen>>
      /\ mode' = mode /\ con' = con /\ pool' = pool
  BY DEF ChooseVersions, call
<1>3. TypeOK /\ (mode = "simple" => pool = FilterCardPool(con))
      /\ (mode = "simple" => best \in TeamsOf(pool) /\ SatisfiesConstraints(con, best))
  BY <1>2 DEF AnnealingInv, PoolInv, HeldTeamsSatisfyConstraints
<1>4. team \in [Slots -> Pool] /\ team # NoTeam
  <2>1. team \in [Slots -> Pool]
    BY DEF VersionsOf
  <2>2. 1 \in Slots
    BY ConstraintsAssumption DEF Slots
  <2>3. DOMAIN team = Slots /\ DOMAIN NoTeam = {}
    BY <2>1 DEF NoTeam
  <2>4. QED
    BY <2>1, <2>2, <2>3
<1>5. TypeOK'
  BY <1>1, <1>2, <1>3, <1>4 DEF TypeOK
<1>6. AnswerKeepsCharacters'
  <2>1. ASSUME mode = "simple"
        PROVE  team \in TeamsOf(FilterCardPool(con)) /\ CharsOf(team) = CharsOf(best)
    BY <1>3, <2>1, VersionsKeepCharacters
  <2>2. QED
    BY <1>1, <1>2, <1>3, <2>1 DEF AnswerKeepsCharacters, SatisfiesConstraints
<1>7. AnswerIfAny'
  BY <1>1, <1>2, <1>3, <1>4 DEF AnswerIfAny
<1>8. FreshInv' /\ PoolInv' /\ ValueInv' /\ HeldTeamsSatisfyConstraints' /\ BestIsBestSeen'
  BY <1>2, <1>3 DEF FreshInv, PoolInv, ValueInv, HeldTeamsSatisfyConstraints, BestIsBestSeen
<1>9. QED
  BY <1>5, <1>6, <1>7, <1>8 DEF AnnealingInv

\* After an answer everything is as at the start.
LEMMA ReturnInv ==
  ASSUME AnnealingInv, Return
  PROVE  AnnealingInv'
<1>1. Init'
  BY DEF Return, Init
<1>2. TypeOK'
  BY <1>1, AnnealingAssumption DEF Init, TypeOK
<1>3. FreshInv' /\ PoolInv' /\ ValueInv' /\ HeldTeamsSatisfyConstraints' /\ BestIsBestSeen'
  BY <1>1 DEF Init, FreshInv, PoolInv, ValueInv, HeldTeamsSatisfyConstraints, BestIsBestSeen
<1>4. AnswerKeepsCharacters' /\ AnswerIfAny'
  BY <1>1 DEF Init, AnswerKeepsCharacters, AnswerIfAny
<1>5. QED
  BY <1>2, <1>3, <1>4 DEF AnnealingInv

\* Every step keeps the invariant.
LEMMA NextInv == AnnealingInv /\ [Next]_vars => AnnealingInv'
<1> SUFFICES ASSUME AnnealingInv, [Next]_vars PROVE AnnealingInv'
  OBVIOUS
<1>1. CASE Call
  BY <1>1, CallInv
<1>2. CASE PickTeam
  BY <1>2, PickTeamInv
<1>3. CASE NoFirstTeam
  BY <1>3, NoFirstTeamInv
<1>4. CASE NoNeighbor
  BY <1>4, NoNeighborInv
<1>5. CASE Move
  BY <1>5, MoveInv
<1>6. CASE Refuse
  BY <1>6, RefuseInv
<1>7. CASE ChooseVersions
  BY <1>7, ChooseVersionsInv
<1>8. CASE Return
  BY <1>8, ReturnInv
<1>9. CASE UNCHANGED vars
  <2>1. /\ phase' = phase /\ mode' = mode /\ con' = con /\ pool' = pool
        /\ current' = current /\ currentVal' = currentVal /\ best' = best
        /\ bestVal' = bestVal /\ step' = step /\ since' = since /\ temp' = temp
        /\ seen' = seen /\ answer' = answer
    BY <1>9 DEF vars, call
  <2>2. TypeOK' /\ FreshInv' /\ PoolInv' /\ AnswerKeepsCharacters' /\ AnswerIfAny'
    BY <2>1 DEF AnnealingInv, TypeOK, FreshInv, PoolInv, AnswerKeepsCharacters, AnswerIfAny,
                Replacements
  <2>3. ValueInv' /\ BestIsBestSeen' /\ HeldTeamsSatisfyConstraints'
    BY <2>1 DEF AnnealingInv, ValueInv, BestIsBestSeen, HeldTeamsSatisfyConstraints, Value
  <2>4. QED
    BY <2>2, <2>3 DEF AnnealingInv
<1>10. QED
  BY <1>1, <1>2, <1>3, <1>4, <1>5, <1>6, <1>7, <1>8, <1>9 DEF Next
-----------------------------------------------------------------------------
(***************************************************************************)
(* Theorems.                                                               *)
(***************************************************************************)

\* The invariant holds throughout.
THEOREM AnnealingSafe == Spec => []AnnealingInv
BY InitInv, NextInv, PTL DEF Spec

\* Every variable keeps its range (the Options and the loop of RecommendTeamsImpl).
THEOREM TypeCorrect == Spec => []TypeOK
<1>1. AnnealingInv => TypeOK
  BY DEF AnnealingInv
<1>2. QED
  BY <1>1, AnnealingSafe, PTL

\* Whatever the objective, each team the loop holds satisfies the constraints.
THEOREM HeldTeamsSatisfy == Spec => []HeldTeamsSatisfyConstraints
<1>1. AnnealingInv => HeldTeamsSatisfyConstraints
  BY DEF AnnealingInv
<1>2. QED
  BY <1>1, AnnealingSafe, PTL

\* OptimizeSkillSelection leaves the characters and rarities of the team found.
THEOREM AnswerKeeps == Spec => []AnswerKeepsCharacters
<1>1. AnnealingInv => AnswerKeepsCharacters
  BY DEF AnnealingInv
<1>2. QED
  BY <1>1, AnnealingSafe, PTL

\* Whatever the order of the shuffled pool: an answer only if some team satisfies the
\* constraints, and one if a leader's card does so with any cards of the others.
THEOREM AnsweredIfAny == Spec => []AnswerIfAny
<1>1. AnnealingInv => AnswerIfAny
  BY DEF AnnealingInv
<1>2. QED
  BY <1>1, AnnealingSafe, PTL

\* best_val is the greatest value seen, although it starts as a double and goes on as a float.
THEOREM BestSeen == Spec => []BestIsBestSeen
<1>1. AnnealingInv => BestIsBestSeen
  BY DEF AnnealingInv
<1>2. QED
  BY <1>1, AnnealingSafe, PTL

\* Moves never put two versions of a card together: those of a challenge live team come from
\* GetRandomTeamAllowRepeat.
THEOREM NoNewRepeats == Spec => RepeatsOnlyFromStart
<1>1. ASSUME AnnealingInv, [Next]_vars, phase = "anneal"
      PROVE  RepeatedCards(current') \cup RepeatedCards(best')
               \subseteq RepeatedCards(current) \cup RepeatedCards(best)
  <2>1. current \in [Slots -> pool]
    BY <1>1 DEF AnnealingInv, TypeOK
  <2>2. CASE Move \/ Refuse
    <3>1. PICK new \in Neighbors : /\ current' \in {new, best', current}
                                   /\ best' \in {new, best}
      BY <2>2 DEF Move, Refuse, BestAfter
    <3>2. RepeatedCards(new) \subseteq RepeatedCards(current)
      BY <2>1, NeighborTeam
    <3>3. current' \in {new, best, current} /\ best' \in {new, best}
      BY <3>1
    <3>4. /\ RepeatedCards(current') \subseteq RepeatedCards(current) \cup RepeatedCards(best)
          /\ RepeatedCards(best') \subseteq RepeatedCards(current) \cup RepeatedCards(best)
      BY <3>2, <3>3
    <3>5. QED
      BY <3>4
  <2>3. CASE NoNeighbor \/ UNCHANGED vars
    <3>1. current' = current /\ best' = best
      BY <2>3 DEF NoNeighbor, vars
    <3>2. QED
      BY <3>1
  <2>4. QED
    BY <1>1, <2>2, <2>3 DEF Next, Call, PickTeam, NoFirstTeam, ChooseVersions, Return
<1>2. AnnealingInv /\ [Next]_vars =>
        [phase = "anneal" =>
           RepeatedCards(current') \cup RepeatedCards(best')
             \subseteq RepeatedCards(current) \cup RepeatedCards(best)]_vars
  BY <1>1
<1>3. QED
  BY <1>2, AnnealingSafe, PTL DEF Spec, RepeatsOnlyFromStart
=============================================================================
