----------------------- MODULE MCSimulatedAnnealing -----------------------
(***************************************************************************)
(* Six cards of four characters, two of them with two versions; four cards *)
(* and versions belong to one character.  The skill of card 5 refers to    *)
(* the best skill of the other members: it reaches 6 with one of 9 or more.*)
(***************************************************************************)
EXTENDS SimulatedAnnealing, SequencesExt

MCCard(id, char, skill, rarity) == [id |-> id, char |-> char, skill |-> skill, rarity |-> rarity]

MCPool == {
  MCCard(1, 1, 2, "high"), MCCard(1, 1, 9, "high"), MCCard(2, 1, 10, "low"), MCCard(3, 1, 8, "high"),
  MCCard(4, 2, 5, "high"), MCCard(4, 2, 6, "high"), MCCard(5, 3, 5, "high"), MCCard(6, 4, 7, "high")}

MCObject(leads, pairs, minSkill, rarities) ==
  UpdateEmpty([leads |-> leads, pairs |-> pairs, minSkill |-> minSkill, rarities |-> rarities,
               empty |-> FALSE])

MCSkillIn(card, team) ==
  IF card.id = 5 /\ \E other \in team : other.skill >= 9 THEN card.skill + 1 ELSE card.skill

MCPairs == {{2, 3}}
MCObjects == {
  Unconstrained,
  MCObject({2, 4}, <<>>, 6, {"low"}),
  MCObject({2, 3}, <<{2, 3}>>, 6, {}),
  MCObject({3}, <<>>, 6, {})}

MCTotal(team) == FoldSet(LAMBDA k, sum : sum + SkillOf(team, k), 0, Slots)

\* Twice OptimizeSkill: the greatest skill of a leader counts in full, the others by a fifth.
MCObjective(team, leads) ==
  LET lead == Max({0} \cup {SkillOf(team, k) : k \in {l \in Slots : team[l].char \in leads}})
  IN  8 * lead + 2 * MCTotal(team)

\* The skill value as an integer: the first card counts in full (Estimator::ExpectedValue).
MCEstimate(team) == (4 * SkillOf(team, 1) + MCTotal(team)) \div 5

\* Values are rounded to multiples of four, halves upwards.
MCSingle(v) == ((v + 2) \div 4) * 4

MCExp == [k \in 0 .. MaxSteps |-> IF k = 0 THEN 10 ELSE IF k = 1 THEN 27 ELSE 74]
=============================================================================
