-------------------------------- MODULE Teams --------------------------------
(***************************************************************************)
(* A team: what its cards are worth together (team.cc, unit_count.cc).     *)
(*                                                                         *)
(* The first card leads: its skill counts in full, those of the others by  *)
(* a fifth, so that skill sums are kept in fifths of a hundredth.          *)
(***************************************************************************)
EXTENDS EventBonuses

NoCap == 0
\* The cap on the power of the world bloom rules in force, if any are.
CapOf(wl) == IF wl # 0 /\ GetWorldBloomConfig(wl).capped THEN MaxTeamPower ELSE NoCap
Team(cards, wl) == [cards |-> cards, support |-> <<>>, cap |-> CapOf(wl)]

CharOf(c) == CardTable[c.id].char
SumOver(cards, F(_)) == FoldLeft(LAMBDA sum, c : sum + F(c), 0, cards)
Same(S) == Cardinality(S) = 1
AttrsOf(cards) == {CardTable[c.id].attr : c \in Range(cards)}
CharsPresent(cards) == {CharOf(c) : c \in Range(cards)}
MatchOf(cards) ==
    [attr |-> Same(AttrsOf(cards)),
     primary |-> Same({PrimaryUnit(c.id) : c \in Range(cards)}),
     secondary |-> Same({SecondaryUnit(c.id) : c \in Range(cards)})]

-----------------------------------------------------------------------------
(* Power and bonus.                                                        *)

PowerUnder(cards, match) == SumOver(cards, LAMBDA c : c.power[match])
Capped(power, cap) == IF cap = NoCap THEN power ELSE Lesser(power, cap)
Power(team, profile) ==
    Capped(profile.bonus.bonusPower + PowerUnder(team.cards, MatchOf(team.cards)), team.cap)

AreaUnder(cards, match) == SumOver(cards, LAMBDA c : c.area[match])
PowerDetailed(team, profile) ==
    <<SumOver(team.cards, LAMBDA c : SumOfParts(c.vec)), AreaUnder(team.cards, MatchOf(team.cards)),
      SumOver(team.cards, LAMBDA c : c.cr), profile.bonus.bonusPower,
      SumOver(team.cards, LAMBDA c : c.fixture), SumOver(team.cards, LAMBDA c : c.gate)>>

Least(S) == CHOOSE n \in S : \A k \in S : n <= k
LeastPowerUnder(cards, match) == Least({c.power[match] : c \in Range(cards)})
MinPowerContrib(team) == LeastPowerUnder(team.cards, MatchOf(team.cards))
MinBonusContrib(team) == Least({c.eventBonus : c \in Range(team.cards)})

SupportBonus(team) == SumOver(team.support, LAMBDA c : c.supportBonus)
TeamEventBonus(team, b) ==
    SumOver(team.cards, LAMBDA c : c.eventBonus) + SupportBonus(team)
      + (IF b.hasDiff THEN DiffAttrRates[Cardinality(AttrsOf(team.cards))] ELSE 0)

FillSupportCardsByVersion(team, pool, version) ==
    LET left == SelectSeq(pool, LAMBDA c : c \notin Range(team.cards))
    IN [team EXCEPT !.support = SubSeq(left, 1, Lesser(Len(left), SupportTeamSize[version]))]
\* The cards of the pool that are not in the team, in the pool's order.
SupportLeft(pool, ids) ==
    FoldLeft(LAMBDA left, c : IF c.id \in ids THEN left ELSE Append(left, c), <<>>, pool)
\* The best of them.
FillSupportCards(team, pool, version) ==
    LET left == SupportLeft(pool, {c.id : c \in Range(team.cards)})
    IN [team EXCEPT !.support = SubSeq(left, 1, Lesser(Len(left), SupportTeamSize[version]))]

-----------------------------------------------------------------------------
(* Skills.                                                                 *)

CharacterCount(cards, unit) == Cardinality({i \in DOMAIN cards : PrimaryUnit(cards[i].id) = unit})
UnitsPresent(cards) == Cardinality({PrimaryUnit(c.id) : c \in Range(cards)})

\* The mean of the other cards' greatest skill values, each capped by the level of card i's skill.
ReferenceAverage(cards, i) ==
    LET capAt == kReferenceScoreBoostCaps[cards[i].skill.level]
        others == MapThenSumSet(LAMBDA j : Lesser(capAt, MaxSkillValueOf(cards[j].skill)),
                                DOMAIN cards \ {i})
    IN IF Len(cards) > 1 THEN others \div (Len(cards) - 1) ELSE 0

SkillContrib(cards, i) ==
    SkillValueIn(cards[i].skill, CharacterCount(cards, cards[i].skill.extra.unit),
                 UnitsPresent(cards), ReferenceAverage(cards, i))
GetSkillValues(cards) == [i \in DOMAIN cards |-> SkillContrib(cards, i)]

Fifths(lead, total) == 5 * lead + (total - lead)
SumOfValues(values) == FoldLeft(LAMBDA sum, v : sum + v, 0, values)
LedBy(values, lead) == Fifths(lead, SumOfValues(values))

SkillValue(team) ==
    IF team.cards = <<>> THEN 0 ELSE LedBy(GetSkillValues(team.cards), SkillContrib(team.cards, 1))
BestLead(values, cards, leads) ==
    Max({0} \cup {values[i] : i \in {j \in DOMAIN cards : CharOf(cards[j]) \in leads}})
ConstrainedLeadSkill(team, leads) == BestLead(GetSkillValues(team.cards), team.cards, leads)
ConstrainedMaxSkillValue(team, leads) ==
    LedBy(GetSkillValues(team.cards), ConstrainedLeadSkill(team, leads))
MaxSkillValue(team) == ConstrainedMaxSkillValue(team, CharsPresent(team.cards))

\* As a number of percent, as the estimators take it.
Percent(fifths) == fifths \div 500

-----------------------------------------------------------------------------
(* What is shown of a team.                                                *)

ToProto(team, profile, b) ==
    [cards |-> [i \in DOMAIN team.cards |-> [id |-> team.cards[i].id, second |-> team.cards[i].second]],
     support |-> [i \in DOMAIN team.support |-> team.support[i].id],
     power |-> Power(team, profile), detail |-> PowerDetailed(team, profile),
     eventBonus |-> TeamEventBonus(team, b), supportBonus |-> SupportBonus(team),
     skill |-> SkillValue(team)]
=============================================================================
