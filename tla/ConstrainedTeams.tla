-------------------------- MODULE ConstrainedTeams --------------------------
(***************************************************************************)
(* sekai/team.cc: when a team satisfies a Constraints object.  The skill a *)
(* card is worth in a team may depend on the other cards of the team: on   *)
(* their units, or on their skills (CardSkillContrib, Skill::SkillValue).  *)
(***************************************************************************)
EXTENDS TeamConstraints

CONSTANT SkillIn(_, _)  (* value of a card's skill in a team of these cards  *)

ASSUME SkillAssumption ==
  \A card \in Pool, S \in SUBSET Pool : SkillIn(card, S) \in Nat /\ SkillIn(card, S) > 0

CharsOf(team) == {team[k].char : k \in 1 .. TeamSize}

TeamsOf(pool) ==
  {team \in [1 .. TeamSize -> pool] :
     \A k, l \in 1 .. TeamSize : k # l => team[k].char # team[l].char}

SkillOf(team, k) == SkillIn(team[k], Range(team))

MayLead(c, team, k) == team[k].char \in EligibleLeads(c, CharsOf(team))

\* lead_skill of ConstrainedMaxSkillValue: the greatest skill among the characters that may lead.
LeadReaches(c, team) ==
  c.minSkill > 0 =>
    \E k \in 1 .. TeamSize : MayLead(c, team, k) /\ SkillOf(team, k) >= c.minSkill

\* Team::SatisfiesConstraints.
SatisfiesConstraints(c, team) ==
  /\ CharacterSetSatisfies(c, CharsOf(team))
  /\ LeadReaches(c, team)
  /\ \A k \in 1 .. TeamSize : team[k].rarity \notin c.rarities
=============================================================================
