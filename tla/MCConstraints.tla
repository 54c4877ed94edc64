--------------------------- MODULE MCConstraints ---------------------------
(***************************************************************************)
(* Four characters with one card each, teams of three.  The skill of the   *)
(* third card counts the low cards of the team.                            *)
(***************************************************************************)
EXTENDS Constraints

MCSkill == <<3, 1, 2, 2>>
MCPool == {[id |-> k, char |-> k, skill |-> MCSkill[k], rarity |-> IF k = 2 THEN "low" ELSE "high"] :
             k \in 1 .. 4}
MCSkillIn(card, team) ==
  card.skill + IF card.id = 3 THEN 2 * Cardinality({d \in team : d.rarity = "low"}) ELSE 0
MCPairs == {{1, 2}, {2, 3}, {3, 4}}
=============================================================================
