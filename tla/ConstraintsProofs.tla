------------------------- MODULE ConstraintsProofs -------------------------
(***************************************************************************)
(* Proofs about Constraints, for every number of characters, team size,    *)
(* pool and list of kizuna pairs.                                          *)
(***************************************************************************)
EXTENDS Constraints, FiniteSetTheorems, SequenceTheorems, WellFoundedInduction, TLAPS
-----------------------------------------------------------------------------
\* A set of two elements is determined by them.
LEMMA TwoElements ==
  ASSUME NEW p, IsFiniteSet(p), Cardinality(p) = 2, NEW a \in p
  PROVE  \E b \in p : b # a /\ p = {a, b}
<1>1. IsFiniteSet(p \ {a}) /\ Cardinality(p \ {a}) = 1
  BY FS_RemoveElement
<1>2. PICK b : p \ {a} = {b}
  BY <1>1, FS_Singleton
<1>3. QED
  BY <1>2

\* Pairs that are listed are two characters, written from either of them.
LEMMA PairOf ==
  ASSUME NEW p \in KizunaPairs, NEW a \in p
  PROVE  \E b \in p : b # a /\ p = {a, b}
<1>1. p \subseteq 1 .. MaxChar /\ Cardinality(p) = 2 /\ MaxChar \in Nat
  BY ConstraintsAssumption DEF CharIds
<1>2. IsFiniteSet(1 .. MaxChar)
  BY <1>1, FS_Interval
<1>3. IsFiniteSet(p)
  BY <1>1, <1>2, FS_Subset
<1>4. Cardinality(p) = 2
  BY <1>1
<1>5. QED
  BY <1>3, <1>4, TwoElements
-----------------------------------------------------------------------------
(***************************************************************************)
(* The object alone.                                                       *)
(***************************************************************************)

\* The two sides of UpdateEmpty.
LEMMA EmptyFlag ==
  ASSUME NEW c \in ConstraintsType
  PROVE  /\ UpdateEmpty(c) \in ConstraintsType
         /\ UpdateEmpty(UpdateEmpty(c)) = UpdateEmpty(c)
         /\ UpdateEmpty(c).leads = c.leads /\ UpdateEmpty(c).pairs = c.pairs
         /\ UpdateEmpty(c).minSkill = c.minSkill /\ UpdateEmpty(c).rarities = c.rarities
         /\ c = UpdateEmpty(c) =>
              (c.empty <=> /\ c.leads = {} \/ Cardinality(c.leads) = MaxChar
                           /\ c.pairs = <<>> /\ c.minSkill = 0 /\ c.rarities = {})
BY DEF ConstraintsType, UpdateEmpty

\* As many lead characters as there are characters: all of them.
LEMMA AllLeads ==
  ASSUME NEW L \in SUBSET CharIds, Cardinality(L) = MaxChar
  PROVE  L = CharIds
<1>1. MaxChar \in Nat /\ 0 < MaxChar
  BY ConstraintsAssumption
<1>2. IsFiniteSet(CharIds) /\ Cardinality(CharIds) = MaxChar
  BY <1>1, FS_Interval DEF CharIds
<1>3. QED
  BY <1>2, FS_Subset

\* A listed pair is a pair of characters.
LEMMA ListedPairs ==
  ASSUME NEW c \in ConstraintsType, NEW pair \in Range(c.pairs)
  PROVE  pair \in KizunaPairs /\ pair \subseteq CharIds
<1>1. c.pairs \in Seq(KizunaPairs)
  BY DEF ConstraintsType
<1>2. PICK j \in DOMAIN c.pairs : c.pairs[j] = pair
  BY DEF Range
<1>3. c.pairs[j] \in KizunaPairs
  BY <1>1, <1>2
<1>4. QED
  BY <1>2, <1>3, ConstraintsAssumption

\* There is a listed pair unless the list is empty.
LEMMA SomePair ==
  ASSUME NEW c \in ConstraintsType
  PROVE  c.pairs # <<>> <=> Range(c.pairs) # {}
<1>1. c.pairs \in Seq(KizunaPairs)
  BY DEF ConstraintsType
<1>2. c.pairs # <<>> <=> 1 \in DOMAIN c.pairs
  BY <1>1
<1>3. DOMAIN c.pairs # {} <=> 1 \in DOMAIN c.pairs
  BY <1>1
<1>4. QED
  BY <1>2, <1>3 DEF Range

\* A set of characters is admissible exactly when one of them may lead it.
LEMMA AdmissibleIffLeader ==
  ASSUME NEW c, SoundObject(c), NEW chars \in SUBSET CharIds, chars # {}
  PROVE  CharacterSetSatisfies(c, chars) <=> EligibleLeads(c, chars) \cap chars # {}
<1>1. /\ c \in ConstraintsType
      /\ \A pair \in Range(c.pairs) : pair \cap c.leads # {}
      /\ c.leads \subseteq CharIds
      /\ c.empty => c.pairs = <<>>
  BY EmptyFlag DEF SoundObject, ConstraintsType
<1>2. CASE c.pairs = <<>>
  <2>1. CASE c.empty \/ c.leads = {}
    <3>1. EligibleLeads(c, chars) = CharIds
      BY <1>2, <2>1 DEF EligibleLeads
    <3>2. CharacterSetSatisfies(c, chars)
      BY <1>2, <2>1 DEF CharacterSetSatisfies
    <3>3. QED
      BY <3>1, <3>2
  <2>2. CASE ~c.empty /\ c.leads # {}
    <3>1. EligibleLeads(c, chars) = c.leads
      BY <1>2, <2>2 DEF EligibleLeads
    <3>2. CharacterSetSatisfies(c, chars) <=> c.leads \cap chars # {}
      BY <1>2, <2>2 DEF CharacterSetSatisfies
    <3>3. QED
      BY <3>1, <3>2
  <2>3. QED
    BY <2>1, <2>2
<1>3. CASE c.pairs # <<>>
  <2>1. ~c.empty /\ c.leads # {}
    <3>1. PICK pair \in Range(c.pairs) : TRUE
      BY <1>1, <1>3, SomePair
    <3>2. QED
      BY <1>1, <1>3, <3>1
  <2>2. EligibleLeads(c, chars) =
          c.leads \cap UNION {pair \in Range(c.pairs) : pair \subseteq chars}
    BY <1>3, <2>1 DEF EligibleLeads
  <2>3. CharacterSetSatisfies(c, chars) <=>
          /\ c.leads \cap chars # {}
          /\ \E pair \in Range(c.pairs) : pair \subseteq chars
    BY <1>3, <2>1 DEF CharacterSetSatisfies
  <2>4. QED
    BY <1>1, <2>2, <2>3
<1>4. QED
  BY <1>2, <1>3

\* An object that calls itself empty asks for nothing.
LEMMA EmptyAsksNothing ==
  ASSUME NEW c, SoundObject(c), c.empty
  PROVE  /\ c.minSkill = 0 /\ c.rarities = {} /\ c.pairs = <<>>
         /\ c.leads = {} \/ c.leads = CharIds
BY EmptyFlag, AllLeads DEF SoundObject, ConstraintsType
-----------------------------------------------------------------------------
(***************************************************************************)
(* Teams.                                                                  *)
(***************************************************************************)

\* The cards of a team and its characters.
LEMMA TeamCards ==
  ASSUME NEW team \in TeamsOf(Pool)
  PROVE  /\ \A k \in 1 .. TeamSize : /\ team[k] \in Pool /\ SkillOf(team, k) \in Nat
                                     /\ SkillOf(team, k) > 0 /\ team[k].char \in CharIds
         /\ CharsOf(team) \subseteq CharIds /\ CharsOf(team) # {}
         /\ 1 \in 1 .. TeamSize
<1>1. Pool \subseteq Card /\ TeamSize \in Nat \ {0}
  BY ConstraintsAssumption
<1>2. 1 \in 1 .. TeamSize
  BY <1>1
<1>3. ASSUME NEW k \in 1 .. TeamSize
      PROVE  /\ team[k] \in Pool /\ SkillOf(team, k) \in Nat
             /\ SkillOf(team, k) > 0 /\ team[k].char \in CharIds
  <2>1. team \in [1 .. TeamSize -> Pool]
    BY DEF TeamsOf
  <2>2. team[k] \in Pool /\ Range(team) \in SUBSET Pool
    BY <2>1 DEF Range
  <2>3. SkillOf(team, k) \in Nat /\ SkillOf(team, k) > 0
    BY <2>2, SkillAssumption DEF SkillOf
  <2>4. QED
    BY <1>1, <2>2, <2>3 DEF Card
<1>4. CharsOf(team) \subseteq CharIds /\ CharsOf(team) # {}
  BY <1>2, <1>3 DEF CharsOf
<1>5. QED
  BY <1>2, <1>3, <1>4

\* A team of admissible characters has a card that may lead.
LEMMA AdmissibleTeamHasLeader ==
  ASSUME NEW c, SoundObject(c), NEW team \in TeamsOf(Pool),
         CharacterSetSatisfies(c, CharsOf(team))
  PROVE  \E k \in 1 .. TeamSize : MayLead(c, team, k)
<1>1. CharsOf(team) \subseteq CharIds /\ CharsOf(team) # {}
  BY TeamCards
<1>2. EligibleLeads(c, CharsOf(team)) \cap CharsOf(team) # {}
  BY <1>1, AdmissibleIffLeader
<1>3. QED
  BY <1>2 DEF MayLead, CharsOf
-----------------------------------------------------------------------------
(***************************************************************************)
(* Sets and numbers.                                                       *)
(***************************************************************************)

\* A set of naturals has a least element.
LEMMA LeastNat ==
  ASSUME NEW T, T \subseteq Nat, T # {}
  PROVE  \E m \in T : \A n \in T : m <= n
<1> DEFINE R == OpToRel(<, Nat)
<1>1. \A m, n \in Nat : <<m, n>> \in R <=> m < n
  BY DEF OpToRel
<1>2. IsWellFoundedOn(R, Nat)
  BY NatLessThanWellFounded
<1>3. PICK m \in T : \A n \in T : ~ (<<n, m>> \in R)
  <2> HIDE DEF R
  <2>1. QED
    BY <1>2, WFMin
<1>4. \A n \in T : ~ (n < m)
  BY <1>1, <1>3
<1>5. QED
  BY <1>4

\* Among the indices of a set, one has the greatest value, and the least index with it.
LEMMA FirstMaximum ==
  ASSUME NEW N \in Nat, NEW S \in SUBSET (1 .. N), S # {},
         NEW v, \A k \in 1 .. N : v[k] \in Nat
  PROVE  \E k \in S : \A l \in S : v[l] < v[k] \/ (v[l] = v[k] /\ k <= l)
<1> DEFINE Best(m) == \E k \in S \cap (1 .. m) : \A l \in S \cap (1 .. m) :
                        v[l] < v[k] \/ (v[l] = v[k] /\ k <= l)
           Bad == {m \in 0 .. N : S \cap (1 .. m) # {} /\ ~Best(m)}
<1>1. Bad = {}
  <2> SUFFICES ASSUME Bad # {} PROVE FALSE
    OBVIOUS
  <2>0. Bad \subseteq Nat
    OBVIOUS
  <2>1. PICK m \in Bad : \A n \in Bad : m <= n
    <3> HIDE DEF Bad
    <3>1. QED
      BY <2>0, LeastNat
  <2>2. m \in 1 .. N /\ m - 1 \in 0 .. N /\ m - 1 \notin Bad
    <3>1. m \in 0 .. N /\ S \cap (1 .. m) # {}
      OBVIOUS
    <3>2. m \in 1 .. N /\ m - 1 \in 0 .. N
      BY <3>1
    <3>3. m - 1 \notin Bad
      <4>1. m - 1 < m /\ m \in Nat
        BY <3>2
      <4> HIDE DEF Bad
      <4>2. QED
        BY <2>0, <2>1, <4>1
    <3>4. QED
      BY <3>2, <3>3
  <2>3. CASE S \cap (1 .. m - 1) = {}
    <3>1. m \in S /\ \A l \in S \cap (1 .. m) : l = m
      BY <2>1, <2>2, <2>3
    <3>2. Best(m)
      BY <2>2, <3>1
    <3>3. QED
      BY <2>1, <3>2
  <2>4. CASE S \cap (1 .. m - 1) # {}
    <3>1. Best(m - 1)
      BY <2>2, <2>4
    <3>2. PICK k \in S \cap (1 .. m - 1) : \A l \in S \cap (1 .. m - 1) :
                 v[l] < v[k] \/ (v[l] = v[k] /\ k <= l)
      BY <3>1
    <3>3. v[k] \in Nat /\ v[m] \in Nat /\ k < m /\ k \in 1 .. m
      BY <2>2, <3>2
    <3>4. \A l \in S \cap (1 .. m) : l \in S \cap (1 .. m - 1) \/ l = m
      BY <2>2
    <3>5. CASE m \in S /\ v[m] > v[k]
      <4>1. \A l \in S \cap (1 .. m) : v[l] < v[m] \/ (v[l] = v[m] /\ m <= l)
        <5>1. m \in Nat /\ \A l \in S \cap (1 .. m - 1) : v[l] \in Nat /\ v[l] <= v[k]
          BY <2>2, <3>2, <3>3
        <5>2. QED
          BY <3>3, <3>4, <3>5, <5>1
      <4>2. Best(m)
        BY <2>2, <3>5, <4>1
      <4>3. QED
        BY <2>1, <4>2
    <3>6. CASE ~ (m \in S /\ v[m] > v[k])
      <4>1. \A l \in S \cap (1 .. m) : v[l] < v[k] \/ (v[l] = v[k] /\ k <= l)
        <5>1. \A l \in S \cap (1 .. m - 1) : v[l] < v[k] \/ (v[l] = v[k] /\ k <= l)
          BY <3>2
        <5>2. m \in S => v[m] < v[k] \/ (v[m] = v[k] /\ k <= m)
          <6>1. ASSUME NEW x \in Nat, NEW y \in Nat, ~ (x > y)
                PROVE  x < y \/ x = y
            BY <6>1
          <6>2. k <= m
            BY <2>2, <3>3
          <6>3. QED
            BY <3>3, <3>6, <6>1, <6>2, Zenon
        <5>3. QED
          BY <3>4, <5>1, <5>2
      <4>2. Best(m)
        BY <3>2, <3>3, <4>1
      <4>3. QED
        BY <2>1, <4>2
    <3>7. QED
      BY <3>5, <3>6
  <2>5. QED
    BY <2>3, <2>4
<1>2. N \in 0 .. N /\ S \cap (1 .. N) = S
  <2>1. N \in 0 .. N
    OBVIOUS
  <2>2. S \cap (1 .. N) = S
    OBVIOUS
  <2>3. QED
    BY <2>1, <2>2
<1>3. N \notin Bad
  BY <1>1
<1>4. Best(N)
  BY <1>2, <1>3
<1>5. QED
  BY <1>2, <1>4

-----------------------------------------------------------------------------
(***************************************************************************)
(* Teams.                                                                  *)
(***************************************************************************)

\* Swapping two cards of a team changes neither its characters nor its cards.
LEMMA SwapTeam ==
  ASSUME NEW team \in TeamsOf(Pool), NEW k \in 1 .. TeamSize, NEW l \in 1 .. TeamSize
  PROVE  /\ Swap(team, k, l) \in TeamsOf(Pool)
         /\ CharsOf(Swap(team, k, l)) = CharsOf(team)
         /\ Swap(team, k, l)[k] = team[l] /\ Swap(team, k, l)[l] = team[k]
         /\ \A m \in 1 .. TeamSize : m # k /\ m # l => Swap(team, k, l)[m] = team[m]
         /\ \A m \in 1 .. TeamSize : \E n \in 1 .. TeamSize : Swap(team, k, l)[m] = team[n]
<1> DEFINE s == Swap(team, k, l)
           at(m) == IF m = k THEN l ELSE IF m = l THEN k ELSE m
<1>1. team \in [1 .. TeamSize -> Pool]
      /\ \A i, j \in 1 .. TeamSize : i # j => team[i].char # team[j].char
  BY DEF TeamsOf
<1>2. s \in [1 .. TeamSize -> Pool]
  BY <1>1 DEF Swap
<1>3. ASSUME NEW m \in 1 .. TeamSize
      PROVE  at(m) \in 1 .. TeamSize /\ s[m] = team[at(m)] /\ at(at(m)) = m
  BY <1>1 DEF Swap
<1>4. \A i, j \in 1 .. TeamSize : i # j => s[i].char # s[j].char
  <2> SUFFICES ASSUME NEW i \in 1 .. TeamSize, NEW j \in 1 .. TeamSize, i # j
               PROVE  s[i].char # s[j].char
    OBVIOUS
  <2>1. at(i) # at(j)
    BY <1>3
  <2>2. QED
    BY <1>1, <1>3, <2>1
<1>5. CharsOf(s) = CharsOf(team)
  <2>1. ASSUME NEW x \in CharsOf(s)
        PROVE  x \in CharsOf(team)
    BY <1>3 DEF CharsOf
  <2>2. ASSUME NEW x \in CharsOf(team)
        PROVE  x \in CharsOf(s)
    <3>1. PICK m \in 1 .. TeamSize : x = team[m].char
      BY DEF CharsOf
    <3>2. at(m) \in 1 .. TeamSize /\ s[at(m)] = team[m]
      BY <1>3
    <3>3. QED
      BY <3>1, <3>2 DEF CharsOf
  <2>3. QED
    BY <2>1, <2>2
<1>6. s \in TeamsOf(Pool)
  BY <1>2, <1>4 DEF TeamsOf
<1>7. QED
  BY <1>3, <1>5, <1>6

\* Nor its set of cards.
LEMMA SwapRange ==
  ASSUME NEW team \in TeamsOf(Pool), NEW k \in 1 .. TeamSize, NEW l \in 1 .. TeamSize
  PROVE  Range(Swap(team, k, l)) = Range(team)
<1> DEFINE s == Swap(team, k, l)
<1>1. team \in [1 .. TeamSize -> Pool] /\ s \in [1 .. TeamSize -> Pool]
  BY DEF TeamsOf, Swap
<1>2. /\ s[k] = team[l] /\ s[l] = team[k]
      /\ \A m \in 1 .. TeamSize : m # k /\ m # l => s[m] = team[m]
  BY SwapTeam
<1> HIDE DEF s
<1>3. ASSUME NEW m \in 1 .. TeamSize
      PROVE  /\ \E n \in 1 .. TeamSize : s[m] = team[n]
             /\ \E n \in 1 .. TeamSize : team[m] = s[n]
  BY <1>2
<1>4. Range(s) = {s[m] : m \in 1 .. TeamSize} /\ Range(team) = {team[m] : m \in 1 .. TeamSize}
  BY <1>1 DEF Range
<1>5. {s[m] : m \in 1 .. TeamSize} = {team[m] : m \in 1 .. TeamSize}
  BY <1>3
<1>6. QED
  BY <1>4, <1>5 DEF s

\* max_skill_index is the index of the best card that may lead, if any may.
LEMMA LeadIndexIsBest ==
  ASSUME NEW c, NEW team \in TeamsOf(Pool), \E k \in 1 .. TeamSize : MayLead(c, team, k)
  PROVE  /\ LeadIndex(c, team) \in 1 .. TeamSize
         /\ MayLead(c, team, LeadIndex(c, team))
         /\ \A k \in 1 .. TeamSize :
              MayLead(c, team, k) => SkillOf(team, k) <= SkillOf(team, LeadIndex(c, team))
<1> DEFINE S == {k \in 1 .. TeamSize : MayLead(c, team, k)}
           v == [k \in 1 .. TeamSize |-> SkillOf(team, k)]
           First(k) == \A l \in S : v[l] < v[k] \/ (v[l] = v[k] /\ k <= l)
<1>1. TeamSize \in Nat /\ \A k \in 1 .. TeamSize : v[k] \in Nat
  BY ConstraintsAssumption, TeamCards
<1>2. S # {} /\ S \subseteq 1 .. TeamSize
  OBVIOUS
<1>3. \E k \in S : First(k)
  <2> HIDE DEF S, v
  <2>1. QED
    BY <1>1, <1>2, FirstMaximum
<1>4. LeadIndex(c, team) = CHOOSE k \in S : First(k)
  BY <1>2 DEF LeadIndex
<1>5. LeadIndex(c, team) \in S /\ First(LeadIndex(c, team))
  BY <1>3, <1>4
<1>6. QED
  BY <1>1, <1>5
-----------------------------------------------------------------------------
(***************************************************************************)
(* The invariant, part by part.                                            *)
(***************************************************************************)

\* Each setter yields an object in order: it recomputes the flag after its change, and leads
\* are only added, so that no listed pair loses its leader.
LEMMA SettersKeepObject ==
  ASSUME NEW c, SoundObject(c)
  PROVE  /\ \A char \in CharIds :
              SoundObject(UpdateEmpty([c EXCEPT !.leads = @ \cup {char}]))
         /\ \A pair \in KizunaPairs : KeepsPair(c, pair) =>
              SoundObject(UpdateEmpty([c EXCEPT !.pairs = Append(@, pair)]))
         /\ \A skill \in MinSkills : SoundObject(UpdateEmpty([c EXCEPT !.minSkill = skill]))
         /\ \A rarity \in Rarities :
              SoundObject(UpdateEmpty([c EXCEPT !.rarities = @ \cup {rarity}]))
<1>1. c \in ConstraintsType /\ \A pair \in Range(c.pairs) : pair \cap c.leads # {}
  BY DEF SoundObject
<1>2. ASSUME NEW d \in ConstraintsType, \A pair \in Range(d.pairs) : pair \cap d.leads # {}
      PROVE  SoundObject(UpdateEmpty(d))
  BY <1>2, EmptyFlag DEF SoundObject
<1>3. ASSUME NEW char \in CharIds
      PROVE  SoundObject(UpdateEmpty([c EXCEPT !.leads = @ \cup {char}]))
  <2> DEFINE d == [c EXCEPT !.leads = @ \cup {char}]
  <2>1. d \in ConstraintsType /\ d.pairs = c.pairs /\ c.leads \subseteq d.leads
    BY <1>1 DEF ConstraintsType
  <2>2. \A pair \in Range(d.pairs) : pair \cap d.leads # {}
    BY <1>1, <2>1
  <2>3. QED
    BY <1>2, <2>1, <2>2
<1>4. ASSUME NEW pair \in KizunaPairs, KeepsPair(c, pair)
      PROVE  SoundObject(UpdateEmpty([c EXCEPT !.pairs = Append(@, pair)]))
  <2> DEFINE d == [c EXCEPT !.pairs = Append(@, pair)]
  <2>1. c.pairs \in Seq(KizunaPairs)
    BY <1>1 DEF ConstraintsType
  <2> DEFINE more == Append(c.pairs, pair)
  <2>2. d \in ConstraintsType /\ d.leads = c.leads /\ d.pairs = Append(c.pairs, pair)
    <3>1. more \in Seq(KizunaPairs)
      BY <2>1
    <3> HIDE DEF more
    <3>2. [c EXCEPT !.pairs = more] \in ConstraintsType
      BY <1>1, <3>1 DEF ConstraintsType
    <3>3. [c EXCEPT !.pairs = more].leads = c.leads /\ [c EXCEPT !.pairs = more].pairs = more
      BY <1>1 DEF ConstraintsType
    <3> USE DEF more
    <3>4. QED
      BY <3>2, <3>3
  <2>3. \A p \in Range(Append(c.pairs, pair)) : p \in Range(c.pairs) \/ p = pair
    BY <2>1 DEF Range
  <2>4. \A p \in Range(d.pairs) : p \cap d.leads # {}
    BY <1>1, <1>4, <2>2, <2>3 DEF KeepsPair
  <2>5. QED
    BY <1>2, <2>2, <2>4
<1>5. ASSUME NEW skill \in MinSkills
      PROVE  SoundObject(UpdateEmpty([c EXCEPT !.minSkill = skill]))
  <2> DEFINE d == [c EXCEPT !.minSkill = skill]
  <2>1. skill \in Nat
    BY ConstraintsAssumption
  <2>2. d \in ConstraintsType /\ d.pairs = c.pairs /\ c.leads = d.leads
    BY <1>1, <2>1 DEF ConstraintsType
  <2>3. QED
    BY <1>1, <1>2, <2>2
<1>6. ASSUME NEW rarity \in Rarities
      PROVE  SoundObject(UpdateEmpty([c EXCEPT !.rarities = @ \cup {rarity}]))
  <2> DEFINE d == [c EXCEPT !.rarities = @ \cup {rarity}]
  <2>1. d \in ConstraintsType /\ d.pairs = c.pairs /\ c.leads = d.leads
    BY <1>1 DEF ConstraintsType
  <2>2. QED
    BY <1>1, <1>2, <2>1
<1>7. QED
  BY <1>3, <1>4, <1>5, <1>6

\* ObjectInv with the type of con is SoundObject.
LEMMA ObjectInvIsSound ==
  con \in ConstraintsType /\ ObjectInv <=> SoundObject(con)
BY DEF ObjectInv, SoundObject

\* The initial state satisfies the invariant.
LEMMA InitInv == Init => ConstraintsInv
<1> SUFFICES ASSUME Init PROVE ConstraintsInv
  OBVIOUS
<1> USE DEF Init
<1>1. con \in ConstraintsType
  BY DEF Unconstrained, ConstraintsType
<1>2. con = UpdateEmpty(con)
  <2>1. UpdateEmpty(con) = [con EXCEPT !.empty = TRUE]
    BY DEF Unconstrained, UpdateEmpty
  <2>2. con.empty = TRUE
    BY DEF Unconstrained
  <2>3. [con EXCEPT !.empty = TRUE] = con
    BY <1>1, <2>2 DEF ConstraintsType
  <2>4. QED
    BY <2>1, <2>3
<1>3. Range(con.pairs) = {}
  BY DEF Unconstrained, Range
<1>4. QED
  BY <1>1, <1>2, <1>3 DEF ConstraintsInv, TypeOK, ObjectInv, LeaderIsBest, PartnerInv

\* Setting up the object keeps the invariant.
LEMMA ConfigureInv ==
  ASSUME ConstraintsInv,
         \/ \E char \in CharIds : AddLeadChar(char)
         \/ \E pair \in KizunaPairs : AddKizunaPair(pair)
         \/ \E skill \in MinSkills : SetMinLeadSkill(skill)
         \/ \E rarity \in Rarities : AddExcludedRarity(rarity)
  PROVE  ConstraintsInv'
<1>1. SoundObject(con)
  BY ObjectInvIsSound DEF ConstraintsInv, TypeOK
<1>2. SoundObject(con')
  <2>1. ASSUME NEW char \in CharIds, AddLeadChar(char)
        PROVE  SoundObject(con')
    BY <1>1, <2>1, SettersKeepObject DEF AddLeadChar
  <2>2. ASSUME NEW pair \in KizunaPairs, AddKizunaPair(pair)
        PROVE  SoundObject(con')
    BY <1>1, <2>2, SettersKeepObject DEF AddKizunaPair
  <2>3. ASSUME NEW skill \in MinSkills, SetMinLeadSkill(skill)
        PROVE  SoundObject(con')
    BY <1>1, <2>3, SettersKeepObject DEF SetMinLeadSkill
  <2>4. ASSUME NEW rarity \in Rarities, AddExcludedRarity(rarity)
        PROVE  SoundObject(con')
    BY <1>1, <2>4, SettersKeepObject DEF AddExcludedRarity
  <2>5. QED
    BY <2>1, <2>2, <2>3, <2>4
<1>3. phase = "configure" /\ phase' = "configure"
  BY DEF AddLeadChar, AddKizunaPair, SetMinLeadSkill, AddExcludedRarity
<1>4. asked' \subseteq KizunaPairs
  BY DEF AddLeadChar, AddKizunaPair, SetMinLeadSkill, AddExcludedRarity, ConstraintsInv, TypeOK
<1>5. con' \in ConstraintsType /\ ObjectInv'
  BY <1>2 DEF SoundObject, ObjectInv
<1>6. TypeOK'
  BY <1>3, <1>4, <1>5 DEF TypeOK
<1>7. QED
  BY <1>3, <1>5, <1>6 DEF ConstraintsInv, LeaderIsBest, PartnerInv

\* A recommended team enters the reordering admissible.
LEMMA RecommendInv ==
  ASSUME ConstraintsInv, Recommend
  PROVE  ConstraintsInv'
<1> USE DEF ConstraintsInv, Recommend
<1>1. cards' \in TeamsOf(Pool)
  BY DEF TeamsOf, FilterCardPool
<1>2. TypeOK'
  BY <1>1 DEF TypeOK
<1>3. ObjectInv'
  BY DEF ObjectInv
<1>4. CharacterSetSatisfies(con, CharsOf(cards))'
  OBVIOUS
<1>5. QED
  BY <1>2, <1>3, <1>4 DEF LeaderIsBest, PartnerInv

\* Who may lead depends on the characters of the team only, and a card on its own.
LEMMA MayLeadOf ==
  ASSUME NEW c, NEW s, NEW t, CharsOf(s) = CharsOf(t), NEW k, NEW l, s[k] = t[l]
  PROVE  MayLead(c, s, k) <=> MayLead(c, t, l)
BY DEF MayLead

\* What its skill is worth depends on the set of cards, and on the card.
LEMMA SkillOfMoved ==
  ASSUME NEW s, NEW t, Range(s) = Range(t), NEW k, NEW l, s[k] = t[l]
  PROVE  SkillOf(s, k) = SkillOf(t, l)
BY DEF SkillOf

\* Putting the best admissible leader first establishes LeaderIsBest, and its partner is
\* somewhere behind it.
LEMMA ReorderLeadInv ==
  ASSUME ConstraintsInv, ReorderLead
  PROVE  ConstraintsInv'
<1> DEFINE team == cards
           lead == LeadIndex(con, team)
           S == CharsOf(team)
<1>1. SoundObject(con) /\ con \in ConstraintsType
  BY ObjectInvIsSound DEF ConstraintsInv, TypeOK
<1>2. team \in TeamsOf(Pool) /\ CharacterSetSatisfies(con, CharsOf(team))
  BY DEF ConstraintsInv, TypeOK, ReorderLead
<1>3. \E k \in 1 .. TeamSize : MayLead(con, team, k)
  BY <1>1, <1>2, AdmissibleTeamHasLeader
<1>4. /\ lead \in 1 .. TeamSize /\ MayLead(con, team, lead)
      /\ \A k \in 1 .. TeamSize : MayLead(con, team, k) => SkillOf(team, k) <= SkillOf(team, lead)
  BY <1>2, <1>3, LeadIndexIsBest
<1>5. /\ cards' = Swap(team, 1, lead) /\ phase' = "kizuna" /\ next' = 3
      /\ con' = con /\ asked' = asked
  BY DEF ReorderLead
<1>6. 1 \in 1 .. TeamSize
  BY <1>2, TeamCards
<1>7. /\ cards' \in TeamsOf(Pool) /\ CharsOf(cards') = S /\ cards'[1] = team[lead]
      /\ \A m \in 1 .. TeamSize : \E n \in 1 .. TeamSize : cards'[m] = team[n]
  <2> DEFINE s == Swap(team, 1, lead)
  <2>1. /\ s \in TeamsOf(Pool) /\ CharsOf(s) = CharsOf(team) /\ s[1] = team[lead]
        /\ \A m \in 1 .. TeamSize : \E n \in 1 .. TeamSize : s[m] = team[n]
    <3>1. lead \in 1 .. TeamSize
      BY <1>4
    <3> HIDE DEF lead
    <3>2. s \in TeamsOf(Pool)
      BY <1>2, <1>6, <3>1, SwapTeam
    <3>3. CharsOf(s) = CharsOf(team)
      BY <1>2, <1>6, <3>1, SwapTeam
    <3>4. s[1] = team[lead]
      BY <1>2, <1>6, <3>1, SwapTeam
    <3>5. \A m \in 1 .. TeamSize : \E n \in 1 .. TeamSize : s[m] = team[n]
      BY <1>2, <1>6, <3>1, SwapTeam
    <3>6. QED
      BY <3>2, <3>3, <3>4, <3>5
  <2>2. QED
    BY <1>5, <2>1
<1>14. Range(cards') = Range(team)
  <2>1. lead \in 1 .. TeamSize
    BY <1>4
  <2> HIDE DEF lead
  <2>2. QED
    BY <1>2, <1>5, <1>6, <2>1, SwapRange
<1>8. TypeOK'
  BY <1>5, <1>7 DEF ConstraintsInv, TypeOK
<1>9. ObjectInv'
  BY <1>5 DEF ConstraintsInv, ObjectInv
<1>10. LeaderIsBest'
  <2>1. MayLead(con, cards', 1)
    BY <1>4, <1>7, MayLeadOf
  <2>2. ASSUME NEW k \in 1 .. TeamSize, MayLead(con, cards', k)
        PROVE  SkillOf(cards', k) <= SkillOf(cards', 1)
    <3>1. PICK n \in 1 .. TeamSize : cards'[k] = team[n]
      BY <1>7
    <3>2. MayLead(con, team, n)
      BY <1>7, <2>2, <3>1, MayLeadOf
    <3>3. SkillOf(cards', k) = SkillOf(team, n) /\ SkillOf(cards', 1) = SkillOf(team, lead)
      BY <1>7, <1>14, <3>1, SkillOfMoved
    <3>4. QED
      BY <1>4, <3>2, <3>3
  <2>3. QED
    BY <1>5, <2>1, <2>2 DEF LeaderIsBest
<1>11. PartnerInv'
  <2> SUFFICES ASSUME con.pairs # <<>>
               PROVE  \E k \in 2 .. TeamSize :
                        {cards'[1].char, cards'[k].char} \in Range(con.pairs)
    <3>1. 3 .. TeamSize \subseteq Nat /\ \A k \in 2 .. TeamSize : k = 2 \/ k \in 3 .. TeamSize
      BY ConstraintsAssumption
    <3>2. 2 \in 2 .. TeamSize => 2 \in 1 .. TeamSize
      BY ConstraintsAssumption
    <3>3. QED
      BY <1>5, <3>1, <3>2 DEF PartnerInv, IsKizuna
  <2>1. cards'[1].char \in EligibleLeads(con, S)
    BY <1>4, <1>7 DEF MayLead
  <2>2. PICK pair \in Range(con.pairs) : pair \subseteq S /\ cards'[1].char \in pair
    BY <2>1 DEF EligibleLeads
  <2>3. pair \in KizunaPairs
    BY <1>1, ListedPairs
  <2>4. PICK b \in pair : b # cards'[1].char /\ pair = {cards'[1].char, b}
    BY <2>2, <2>3, PairOf
  <2>5. PICK k \in 1 .. TeamSize : cards'[k].char = b
    BY <1>7, <2>2, <2>4 DEF CharsOf
  <2>6. k \in 2 .. TeamSize
    BY <2>4, <2>5
  <2>7. QED
    BY <2>2, <2>4, <2>5, <2>6
<1>12. QED
  BY <1>5, <1>8, <1>9, <1>10, <1>11 DEF ConstraintsInv

\* A pair listed once swaps once, a pair not listed never.
LEMMA SwapsForListed ==
  ASSUME NEW c \in ConstraintsType, NEW pair,
         \A j, k \in DOMAIN c.pairs : c.pairs[j] = c.pairs[k] => j = k
  PROVE  SwapsFor(c, pair) <=> pair \in Range(c.pairs)
<1> DEFINE J == {j \in DOMAIN c.pairs : c.pairs[j] = pair}
<1>1. CASE pair \in Range(c.pairs)
  <2>1. PICK j \in DOMAIN c.pairs : c.pairs[j] = pair
    BY <1>1 DEF Range
  <2>2. J = {j}
    BY <2>1
  <2>3. Cardinality(J) = 1
    BY <2>2, FS_Singleton
  <2>4. SwapsFor(c, pair)
    BY <2>3 DEF SwapsFor
  <2>5. QED
    BY <1>1, <2>4
<1>2. CASE pair \notin Range(c.pairs)
  <2>1. J = {}
    BY <1>2 DEF Range
  <2>2. Cardinality(J) = 0
    BY <2>1, FS_EmptySet
  <2>3. ~SwapsFor(c, pair)
    BY <2>2 DEF SwapsFor
  <2>4. QED
    BY <1>2, <2>3
<1>3. QED
  BY <1>1, <1>2

\* The kizuna loop leaves the leader in place, and brings its partner to the second place
\* when it comes to it.
LEMMA ReorderKizunaInv ==
  ASSUME ConstraintsInv, ReorderKizuna
  PROVE  ConstraintsInv'
<1> DEFINE swaps == SwapsFor(con, {cards[1].char, cards[next].char})
<1>1. /\ con \in ConstraintsType /\ cards \in TeamsOf(Pool)
      /\ phase = "kizuna" /\ phase' = "kizuna" /\ con' = con /\ asked' = asked
      /\ next \in Nat /\ next >= 3 /\ next <= TeamSize /\ next' = next + 1
      /\ TeamSize \in Nat
  BY ConstraintsAssumption DEF ConstraintsInv, TypeOK, ReorderKizuna
<1>2. cards' = IF swaps THEN Swap(cards, 2, next) ELSE cards
  BY DEF ReorderKizuna
<1>3. 1 \in 1 .. TeamSize /\ 2 \in 1 .. TeamSize /\ next \in 1 .. TeamSize
  BY <1>1
<1>4. /\ cards' \in TeamsOf(Pool) /\ CharsOf(cards') = CharsOf(cards) /\ cards'[1] = cards[1]
      /\ \A m \in 1 .. TeamSize : \E n \in 1 .. TeamSize : cards'[m] = cards[n]
      /\ \A m \in 1 .. TeamSize : m # 2 /\ m # next => cards'[m] = cards[m]
      /\ cards'[2] = IF swaps THEN cards[next] ELSE cards[2]
  <2>1. CASE swaps
    <3>1. cards' = Swap(cards, 2, next)
      BY <1>2, <2>1
    <3> DEFINE s == Swap(cards, 2, next)
    <3>2. /\ s \in TeamsOf(Pool) /\ CharsOf(s) = CharsOf(cards)
          /\ s[2] = cards[next]
          /\ \A m \in 1 .. TeamSize : m # 2 /\ m # next => s[m] = cards[m]
          /\ \A m \in 1 .. TeamSize : \E n \in 1 .. TeamSize : s[m] = cards[n]
      <4>1. s \in TeamsOf(Pool)
        BY <1>1, <1>3, SwapTeam
      <4>2. CharsOf(s) = CharsOf(cards)
        BY <1>1, <1>3, SwapTeam
      <4>3. s[2] = cards[next]
        BY <1>1, <1>3, SwapTeam
      <4>4. \A m \in 1 .. TeamSize : m # 2 /\ m # next => s[m] = cards[m]
        BY <1>1, <1>3, SwapTeam
      <4>5. \A m \in 1 .. TeamSize : \E n \in 1 .. TeamSize : s[m] = cards[n]
        <5>1. /\ cards \in TeamsOf(Pool) /\ 2 \in 1 .. TeamSize
              /\ next \in 1 .. TeamSize
          BY <1>1, <1>3
        <5>2. QED
          BY <5>1, SwapTeam
      <4>6. QED
        BY <4>1, <4>2, <4>3, <4>4, <4>5
    <3>3. s[1] = cards[1]
      BY <1>1, <1>3, <3>2
    <3>4. QED
      BY <2>1, <3>1, <3>2, <3>3
  <2>2. CASE ~swaps
    <3>1. cards' = cards
      BY <1>2, <2>2
    <3>2. QED
      BY <1>1, <2>2, <3>1
  <2>3. QED
    BY <2>1, <2>2
<1>10. Range(cards') = Range(cards)
  BY <1>1, <1>2, <1>3, SwapRange
<1>5. TypeOK'
  BY <1>1, <1>4 DEF ConstraintsInv, TypeOK
<1>6. ObjectInv'
  BY <1>1 DEF ConstraintsInv, ObjectInv
<1>7. LeaderIsBest'
  <2>1. /\ MayLead(con, cards, 1)
        /\ \A k \in 1 .. TeamSize :
             MayLead(con, cards, k) => SkillOf(cards, k) <= SkillOf(cards, 1)
    BY <1>1 DEF ConstraintsInv, LeaderIsBest
  <2>2. MayLead(con, cards', 1)
    BY <1>4, <2>1, MayLeadOf
  <2>3. ASSUME NEW k \in 1 .. TeamSize, MayLead(con, cards', k)
        PROVE  SkillOf(cards', k) <= SkillOf(cards', 1)
    <3>1. PICK n \in 1 .. TeamSize : cards'[k] = cards[n]
      BY <1>4
    <3>2. MayLead(con, cards, n)
      BY <1>4, <2>3, <3>1, MayLeadOf
    <3>3. SkillOf(cards', k) = SkillOf(cards, n) /\ SkillOf(cards', 1) = SkillOf(cards, 1)
      BY <1>4, <1>10, <3>1, SkillOfMoved
    <3>4. QED
      BY <2>1, <3>2, <3>3
  <2>4. QED
    BY <1>1, <1>4, <2>1, <2>2, <2>3 DEF LeaderIsBest
<1>8. PartnerInv'
  <2> DEFINE listed(k) == {cards[1].char, cards[k].char} \in Range(con.pairs)
             listedAfter(k) == {cards'[1].char, cards'[k].char} \in Range(con.pairs)
  <2> SUFFICES ASSUME con.pairs # <<>>, ListedOnce
               PROVE  listedAfter(2) \/ \E k \in next + 1 .. TeamSize : listedAfter(k)
    BY <1>1, <1>3 DEF PartnerInv, IsKizuna, ListedOnce
  <2>1. listed(2) \/ \E k \in next .. TeamSize : listed(k)
    BY <1>1 DEF ConstraintsInv, PartnerInv, IsKizuna
  <2>2. swaps <=> listed(next)
    BY <1>1, SwapsForListed DEF ListedOnce
  <2>3. CASE listed(next)
    <3>1. listedAfter(2)
      BY <1>4, <2>2, <2>3
    <3>2. QED
      BY <3>1
  <2>4. CASE ~listed(next) /\ listed(2)
    <3>1. listedAfter(2)
      BY <1>4, <2>2, <2>4
    <3>2. QED
      BY <3>1
  <2>5. CASE ~listed(next) /\ ~listed(2)
    <3>0. PICK k \in next .. TeamSize : listed(k)
      BY <2>1, <2>5
    <3>1. k \in next + 1 .. TeamSize /\ listed(k)
      <4>1. k # next
        BY <2>5, <3>0
      <4>2. k \in next + 1 .. TeamSize
        BY <1>1, <3>0, <4>1
      <4>3. QED
        BY <3>0, <4>2
    <3>2. k \in 1 .. TeamSize /\ k # 2 /\ k # next
      BY <1>1, <3>1
    <3>3. listedAfter(k)
      BY <1>4, <3>1, <3>2
    <3>4. QED
      BY <3>1, <3>3
  <2>6. QED
    BY <2>3, <2>4, <2>5
<1>9. QED
  BY <1>1, <1>5, <1>6, <1>7, <1>8 DEF ConstraintsInv

\* Past the last card, the partner can only be in the second place.
LEMMA OrderedInv ==
  ASSUME ConstraintsInv, Ordered
  PROVE  ConstraintsInv'
<1>1. /\ phase = "kizuna" /\ phase' = "ordered" /\ next > TeamSize /\ next \in Nat
      /\ TeamSize \in Nat
      /\ UNCHANGED <<con, asked, cards, next>>
  BY ConstraintsAssumption DEF ConstraintsInv, TypeOK, Ordered
<1>2. TypeOK' /\ ObjectInv'
  BY <1>1 DEF ConstraintsInv, TypeOK, ObjectInv
<1>3. LeaderIsBest'
  BY <1>1 DEF ConstraintsInv, LeaderIsBest, MayLead, CharsOf
<1>4. PartnerInv'
  <2>1. next .. TeamSize = {}
    BY <1>1
  <2>2. con.pairs # <<>> /\ ListedOnce => 2 \in 1 .. TeamSize /\ IsKizuna(2)
    BY <1>1, <2>1 DEF ConstraintsInv, PartnerInv
  <2>3. ListedOnce' = ListedOnce /\ IsKizuna(2)' = IsKizuna(2)
    BY <1>1 DEF ListedOnce, IsKizuna
  <2>4. QED
    BY <1>1, <2>2, <2>3 DEF PartnerInv
<1>5. QED
  BY <1>1, <1>2, <1>3, <1>4 DEF ConstraintsInv

\* Every step keeps the invariant.
LEMMA NextInv == ConstraintsInv /\ [Next]_vars => ConstraintsInv'
<1> SUFFICES ASSUME ConstraintsInv, [Next]_vars PROVE ConstraintsInv'
  OBVIOUS
<1>1. CASE UNCHANGED vars
  <2>1. con' = con /\ asked' = asked /\ phase' = phase /\ cards' = cards /\ next' = next
    BY <1>1 DEF vars
  <2>2. TypeOK'
    BY <2>1 DEF ConstraintsInv, TypeOK
  <2>3. ObjectInv'
    BY <2>1 DEF ConstraintsInv, ObjectInv
  <2>4. (phase = "lead" => CharacterSetSatisfies(con, CharsOf(cards)))'
    BY <2>1 DEF ConstraintsInv, CharacterSetSatisfies, CharsOf
  <2>5. LeaderIsBest'
    BY <2>1 DEF ConstraintsInv, LeaderIsBest, MayLead, CharsOf
  <2>6. PartnerInv'
    BY <2>1 DEF ConstraintsInv, PartnerInv, IsKizuna, ListedOnce
  <2>7. QED
    BY <2>2, <2>3, <2>4, <2>5, <2>6 DEF ConstraintsInv
<1>2. CASE \/ \E char \in CharIds : AddLeadChar(char)
           \/ \E pair \in KizunaPairs : AddKizunaPair(pair)
           \/ \E skill \in MinSkills : SetMinLeadSkill(skill)
           \/ \E rarity \in Rarities : AddExcludedRarity(rarity)
  BY <1>2, ConfigureInv
<1>3. CASE Recommend
  BY <1>3, RecommendInv
<1>4. CASE ReorderLead
  BY <1>4, ReorderLeadInv
<1>5. CASE ReorderKizuna
  BY <1>5, ReorderKizunaInv
<1>6. CASE Ordered
  BY <1>6, OrderedInv
<1>7. QED
  BY <1>1, <1>2, <1>3, <1>4, <1>5, <1>6 DEF Next

\* The invariant holds in every reachable state.
THEOREM ConstraintsInvHolds == Spec => []ConstraintsInv
<1>1. QED
  BY InitInv, NextInv, PTL DEF Spec
-----------------------------------------------------------------------------
(***************************************************************************)
(* What follows for the code.                                              *)
(***************************************************************************)

\* Every variable stays in its range: a reordered team is always a team of the pool.
THEOREM TypeCorrect == Spec => []TypeOK
<1>1. ConstraintsInv => TypeOK
  BY DEF ConstraintsInv
<1>2. QED
  BY ConstraintsInvHolds, <1>1, PTL

\* Whatever the order of the calls, the object's two answers agree
\* (CharacterSetSatisfiesConstraint and GetCharactersEligibleForLead).
THEOREM TwoAnswersAgree == Spec => []AdmissibleHasLeader
<1>1. ConstraintsInv => AdmissibleHasLeader
  <2> SUFFICES ASSUME ConstraintsInv, NEW chars \in CharSets
               PROVE  CharacterSetSatisfies(con, chars)
                        <=> EligibleLeads(con, chars) \cap chars # {}
    BY DEF AdmissibleHasLeader
  <2>1. SoundObject(con)
    BY ObjectInvIsSound DEF ConstraintsInv, TypeOK
  <2>2. chars \subseteq CharIds /\ chars # {}
    BY ConstraintsAssumption, FS_EmptySet DEF CharSets
  <2>3. QED
    BY <2>1, <2>2, AdmissibleIffLeader
<1>2. QED
  BY ConstraintsInvHolds, <1>1, PTL

\* The flag empty_ is never stale in the direction that matters: the checks the builders skip
\* because of it would all have passed.
THEOREM EmptyFlagIsSound == Spec => []EmptyIsUnconstrained
<1>1. ConstraintsInv => EmptyIsUnconstrained
  <2> SUFFICES ASSUME ConstraintsInv, con.empty
               PROVE  /\ con.minSkill = 0 /\ FilterCardPool(con) = Pool
                      /\ \A chars \in CharSets :
                           /\ EligibleLeads(con, chars) = CharIds
                           /\ CharacterSetSatisfies([con EXCEPT !.empty = FALSE], chars)
    BY DEF EmptyIsUnconstrained
  <2>1. SoundObject(con) /\ con \in ConstraintsType
    BY ObjectInvIsSound DEF ConstraintsInv, TypeOK
  <2>2. /\ con.minSkill = 0 /\ con.rarities = {} /\ con.pairs = <<>>
        /\ con.leads = {} \/ con.leads = CharIds
    BY <2>1, EmptyAsksNothing
  <2>3. FilterCardPool(con) = Pool
    BY <2>2 DEF FilterCardPool
  <2>4. ASSUME NEW chars \in CharSets
        PROVE  /\ EligibleLeads(con, chars) = CharIds
               /\ CharacterSetSatisfies([con EXCEPT !.empty = FALSE], chars)
    <3>1. chars \subseteq CharIds /\ chars # {}
      BY ConstraintsAssumption, FS_EmptySet DEF CharSets
    <3>2. EligibleLeads(con, chars) = CharIds
      BY <2>2 DEF EligibleLeads
    <3>3. [con EXCEPT !.empty = FALSE].leads = con.leads
          /\ [con EXCEPT !.empty = FALSE].pairs = con.pairs
      BY <2>1 DEF ConstraintsType
    <3>4. CharacterSetSatisfies([con EXCEPT !.empty = FALSE], chars)
      BY <2>2, <3>1, <3>3 DEF CharacterSetSatisfies
    <3>5. QED
      BY <3>2, <3>4
  <2>5. QED
    BY <2>2, <2>3, <2>4
<1>2. QED
  BY ConstraintsInvHolds, <1>1, PTL

\* ReorderTeamForOptimalSkillValue puts the best admissible leader first, and
\* ReorderTeamForKizuna leaves it there.
THEOREM BestLeaderLeads == Spec => []LeaderIsBest
<1>1. ConstraintsInv => LeaderIsBest
  BY DEF ConstraintsInv
<1>2. QED
  BY ConstraintsInvHolds, <1>1, PTL

\* If no pair is listed twice, a finished team's first two cards are one of the listed pairs.
THEOREM PartnerFollowsLeader == Spec => []SubLeaderIsPartnerOnce
<1>1. ConstraintsInv => SubLeaderIsPartnerOnce
  BY DEF ConstraintsInv, PartnerInv, SubLeaderIsPartnerOnce, SubLeaderIsPartner
<1>2. QED
  BY ConstraintsInvHolds, <1>1, PTL
=============================================================================
