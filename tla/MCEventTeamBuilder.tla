------------------------- MODULE MCEventTeamBuilder -------------------------
(***************************************************************************)
(* Small instances of the team search: two-card teams from five cards of   *)
(* three characters, scored by the sum of the cards' values.               *)
(***************************************************************************)
EXTENDS EventTeamBuilder, FiniteSetsExt

CONSTANTS
  Values,     \* the card values tried, each a function on Cards
  MinEps,     \* the min_ep tried
  Bucket      \* width of a bucket of the lookup table

MCCharOf == <<1, 1, 2, 3, 3>>
MCLowRarity == {2}

TwoValues == {<<1, 3, 2, 4, 1>>, <<4, 0, 4, 1, 2>>}

\* All character sets, or those that contain character 2.
MCSatisfying == {Combos, {c \in Combos : 2 \in {c[i] : i \in Slots}}}

\* A leader constraint that the teams containing card 1 or 4 fulfil.
MCLeadOk == {d \in Decks : CardsOf(d) \cap {1, 4} # {}}

MCProblem(v, sat, leadSkill, least) ==
  LET ep == [d \in Decks |-> v[d[1]] + v[d[2]]]
      leadOk == IF leadSkill THEN MCLeadOk ELSE Decks
  IN  [ep |-> ep,
       lo |-> [d \in Decks |-> (ep[d] \div Bucket) * Bucket],
       hi |-> [d \in Decks |-> (ep[d] \div Bucket) * Bucket + Bucket],
       leadOk |-> leadOk, hasLeadSkill |-> leadSkill, satisfying |-> sat, minEp |-> least,
       pruneAt |-> [x \in Cards |-> Max({0} \cup {ep[d] : d \in {e \in Decks : x \in CardsOf(e)}})]]

MCProblems ==
  {MCProblem(v, sat, l, m) : v \in Values, sat \in MCSatisfying, l \in BOOLEAN, m \in MinEps}
=============================================================================
