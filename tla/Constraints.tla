---------------------------- MODULE Constraints ----------------------------
(***************************************************************************)
(* A Constraints object filled by calls in any order, and the part of      *)
(* sekai/team.cc that puts the leader and the sub-leader of a finished     *)
(* team in place: the programs reorder each recommended team, the best     *)
(* admissible leader first, a character it has a kizuna with second.       *)
(***************************************************************************)
EXTENDS ConstrainedTeams

CONSTANT MaxPairs  (* bound: calls of AddKizunaPair that are kept            *)

ASSUME MaxPairsAssumption == MaxPairs \in Nat

VARIABLES
  con,    \* the object: lead_chars_, kizuna_pairs_, min_lead_skill_, excluded_rarities_, empty_
  asked,  \* the kizuna pairs asked for so far, whether the object kept them or not
  phase,  \* "configure", then "lead" and "kizuna" while a team is reordered, then "ordered"
  cards,  \* the team's cards_
  next    \* the loop index of ReorderTeamForKizuna

vars == <<con, asked, phase, cards, next>>

-----------------------------------------------------------------------------
(***************************************************************************)
(* Reordering.                                                             *)
(***************************************************************************)
\* (One of the two assignments is missing.)
SwapCopies(team, k, l) == [team EXCEPT ![k] = team[l]]

Swap(team, k, l) == [team EXCEPT ![k] = team[l], ![l] = team[k]]

\* (The best skill, whoever has it.)
BestSkillIndex(c, team) ==
  CHOOSE k \in 1 .. TeamSize : \A l \in 1 .. TeamSize : SkillOf(team, l) <= SkillOf(team, k)

\* max_skill_index: the first best skill among the characters that may lead, or the first card.
LeadIndex(c, team) ==
  LET leads == {k \in 1 .. TeamSize : MayLead(c, team, k)}
  IN  IF leads = {} THEN 1
      ELSE CHOOSE k \in leads :
             \A l \in leads : \/ SkillOf(team, l) < SkillOf(team, k)
                              \/ SkillOf(team, l) = SkillOf(team, k) /\ k <= l

\* (The test the wrong way round.)
SwapsUnlessListed(c, pair) == Cardinality({j \in DOMAIN c.pairs : c.pairs[j] = pair}) % 2 = 0

\* Every entry of kizuna_pairs_ that equals the candidate pair swaps once more, so that an
\* even number of them changes nothing.
SwapsFor(c, pair) == Cardinality({j \in DOMAIN c.pairs : c.pairs[j] = pair}) % 2 = 1
-----------------------------------------------------------------------------
Init ==
  /\ con = Unconstrained
  /\ asked = {}
  /\ phase = "configure"
  /\ cards = <<>>
  /\ next = 0

AddLeadChar(char) ==
  /\ phase = "configure"
  /\ con' = UpdateEmpty([con EXCEPT !.leads = @ \cup {char}])
  /\ UNCHANGED <<asked, phase, cards, next>>

AddKizunaPair(pair) ==
  /\ phase = "configure"
  /\ Len(con.pairs) < MaxPairs
  /\ con' = IF KeepsPair(con, pair)
            THEN UpdateEmpty([con EXCEPT !.pairs = Append(@, pair)])
            ELSE con
  /\ asked' = asked \cup {pair}
  /\ UNCHANGED <<phase, cards, next>>

SetMinLeadSkill(skill) ==
  /\ phase = "configure"
  /\ con' = UpdateEmpty([con EXCEPT !.minSkill = skill])
  /\ UNCHANGED <<asked, phase, cards, next>>

AddExcludedRarity(rarity) ==
  /\ phase = "configure"
  /\ con' = UpdateEmpty([con EXCEPT !.rarities = @ \cup {rarity}])
  /\ UNCHANGED <<asked, phase, cards, next>>

\* A builder recommends a team of admissible characters and rarities.  (The versions of its
\* cards are chosen last and may miss the minimal leader skill: see SimulatedAnnealing.)
Recommend ==
  /\ phase \in {"configure", "ordered"}
  /\ \E team \in TeamsOf(FilterCardPool(con)) :
       CharacterSetSatisfies(con, CharsOf(team)) /\ cards' = team
  /\ phase' = "lead"
  /\ next' = 0
  /\ UNCHANGED <<con, asked>>

\* ReorderTeamForOptimalSkillValue(eligible_leads).
ReorderLead ==
  /\ phase = "lead"
  /\ cards' = Swap(cards, 1, LeadIndex(con, cards))
  /\ phase' = "kizuna"
  /\ next' = 3
  /\ UNCHANGED <<con, asked>>

\* One round of the loop in ReorderTeamForKizuna.
ReorderKizuna ==
  /\ phase = "kizuna"
  /\ next <= TeamSize
  /\ cards' = IF SwapsFor(con, {cards[1].char, cards[next].char})
              THEN Swap(cards, 2, next)
              ELSE cards
  /\ next' = next + 1
  /\ UNCHANGED <<con, asked, phase>>

Ordered ==
  /\ phase = "kizuna"
  /\ next > TeamSize
  /\ phase' = "ordered"
  /\ UNCHANGED <<con, asked, cards, next>>

Next ==
  \/ \E char \in CharIds : AddLeadChar(char)
  \/ \E pair \in KizunaPairs : AddKizunaPair(pair)
  \/ \E skill \in MinSkills : SetMinLeadSkill(skill)
  \/ \E rarity \in Rarities : AddExcludedRarity(rarity)
  \/ Recommend \/ ReorderLead \/ ReorderKizuna \/ Ordered

Spec == Init /\ [][Next]_vars
-----------------------------------------------------------------------------
(***************************************************************************)
(* Properties.                                                             *)
(***************************************************************************)
CharSets == {chars \in SUBSET CharIds : Cardinality(chars) = TeamSize}

\* Every variable stays in its range.
TypeOK ==
  /\ con \in ConstraintsType
  /\ asked \subseteq KizunaPairs
  /\ phase \in {"configure", "lead", "kizuna", "ordered"}
  /\ phase # "configure" => cards \in TeamsOf(Pool)
  /\ phase = "kizuna" => next \in Nat /\ next >= 3

\* The two questions asked of the object agree: a character set is admissible exactly when one
\* of its characters may lead it.  (The builders skip a set by the first answer and pick the
\* leader by the second.)
AdmissibleHasLeader ==
  \A chars \in CharSets :
    CharacterSetSatisfies(con, chars) <=> EligibleLeads(con, chars) \cap chars # {}

\* While empty() says so, nothing is constrained, so the builders may skip the checks: any
\* characters, any leader, any leader skill, any rarity.
EmptyIsUnconstrained ==
  con.empty =>
    /\ con.minSkill = 0
    /\ FilterCardPool(con) = Pool
    /\ \A chars \in CharSets :
         /\ EligibleLeads(con, chars) = CharIds
         /\ CharacterSetSatisfies([con EXCEPT !.empty = FALSE], chars)

\* From the first reordering on, the leader is one of the admissible ones, the best of them, and
\* the kizuna loop leaves it there.
LeaderIsBest ==
  phase \in {"kizuna", "ordered"} =>
    /\ MayLead(con, cards, 1)
    /\ \A k \in 1 .. TeamSize :
         MayLead(con, cards, k) => SkillOf(cards, k) <= SkillOf(cards, 1)

IsKizuna(k) == {cards[1].char, cards[k].char} \in Range(con.pairs)

\* If pairs are listed, the leader and the sub-leader of a finished team are one of them.
\* (constraints.proto:11: "desired kizuna pairs for lead/sublead positions")
SubLeaderIsPartner == phase = "ordered" /\ con.pairs # <<>> => IsKizuna(2)

ListedOnce == \A j, k \in DOMAIN con.pairs : con.pairs[j] = con.pairs[k] => j = k

\* The same when no pair is listed twice.
SubLeaderIsPartnerOnce == ListedOnce => SubLeaderIsPartner

\* If pairs were asked for, an admissible team contains one of them: "To restrict lead/sublead
\* to Miku and LN kizunas, add: kizuna_pairs" (data/profile/constraints.textproto:23).
AskedPairsHonoured ==
  asked # {} =>
    \A chars \in CharSets :
      CharacterSetSatisfies(con, chars) => \E pair \in asked : pair \subseteq chars

(***************************************************************************)
(* The inductive invariant: empty_ is up to date and every pair has a      *)
(* character that may lead; the team being reordered was admissible; until *)
(* the loop has passed it, a partner of the leader waits at or after the   *)
(* loop index.                                                             *)
(***************************************************************************)
ObjectInv ==
  /\ con = UpdateEmpty(con)
  /\ \A pair \in Range(con.pairs) : pair \cap con.leads # {}

PartnerInv ==
  phase \in {"kizuna", "ordered"} /\ con.pairs # <<>> /\ ListedOnce =>
    \/ 2 \in 1 .. TeamSize /\ IsKizuna(2)
    \/ phase = "kizuna" /\ \E k \in next .. TeamSize : IsKizuna(k)

ConstraintsInv ==
  /\ TypeOK
  /\ ObjectInv
  /\ phase = "lead" => CharacterSetSatisfies(con, CharsOf(cards))
  /\ LeaderIsBest
  /\ PartnerInv
=============================================================================
