------------------------------- MODULE Cards -------------------------------
(***************************************************************************)
(* A player's cards: what a card's power and skill are made of and what    *)
(* the profile adds to them (card.cc, card_base.cc, skill.cc, profile.cc). *)
(*                                                                         *)
(* Rates that scale power are in tenths of a percent, skill values in      *)
(* hundredths of a percent.  Power is a vector of three, and is cut to an  *)
(* integer component by component.                                         *)
(***************************************************************************)
EXTENDS Integers, Sequences, FiniteSetsExt, SequencesExt

CONSTANTS
    TeamSize,       \* cards in a team
    CharUnit,       \* the unit of each character
    Units, Attrs,
    CardTable,      \* the rows of the master database, by card
    SkillTable,     \* the effects of each skill
    MasterLessons,  \* power by rarity and master rank
    CanvasBonus,    \* power by rarity
    Episodes,       \* power by card and episode
    AreaItemLevels, CharacterRanks, Fixtures, GateLevels

Chars == DOMAIN CharUnit
CardIds == DOMAIN CardTable
Rarities == 1..5
kBirthday == 5
kMasterRankMax == 5
kSkillLevelMax == 4

Greater(a, b) == IF a > b THEN a ELSE b
Lesser(a, b) == IF a < b THEN a ELSE b
Clamp(n, lo, hi) == Greater(lo, Lesser(n, hi))

Plus(u, v) == [k \in 1..3 |-> u[k] + v[k]]
Zero == <<0, 0, 0>>
SumOfParts(v) == v[1] + v[2] + v[3]
Scaled(v, rate) == SumOfParts([k \in 1..3 |-> (v[k] * rate) \div 1000])

-----------------------------------------------------------------------------
(* Units: a virtual singer's card may belong to another unit first.        *)

PrimaryUnit(id) ==
    IF CardTable[id].support # "NONE" THEN CardTable[id].support ELSE CharUnit[CardTable[id].char]
SecondaryUnit(id) == CharUnit[CardTable[id].char]
IsUnit(id, unit) == unit \in {PrimaryUnit(id), SecondaryUnit(id)}

ASSUME UnitDataAssumption ==
    /\ CharUnit \in Seq(Units) /\ "NONE" \notin Units \cup Attrs
    /\ \A id \in CardIds : CardTable[id].support # "NONE" => SecondaryUnit(id) = "VS"

\* Powers and rates are natural numbers.
PowerVectors == [1..3 -> Nat]
ASSUME PowerDataAssumption ==
    /\ \A id \in CardIds :
         /\ \A level \in DOMAIN CardTable[id].params : CardTable[id].params[level] \in PowerVectors
         /\ CardTable[id].trainBonus \in PowerVectors
         /\ IsFiniteSet(DOMAIN Episodes[id])
         /\ \A e \in DOMAIN Episodes[id] : Episodes[id][e] \in PowerVectors
    /\ \A r \in Rarities : CanvasBonus[r] \in PowerVectors
    /\ IsFiniteSet(MasterLessons) /\ \A l \in MasterLessons : l.bonus \in PowerVectors
    /\ \A rows \in {AreaItemLevels, CharacterRanks, Fixtures, GateLevels} :
         IsFiniteSet(rows) /\ \A r \in rows : r.rate \in Nat
    /\ \A r \in AreaItemLevels : r.allMatch \in Nat

-----------------------------------------------------------------------------
(* Skills.                                                                 *)

kMaxUnitCount == 2
kBonusCharacterRankStep == 2
kMaxBonusCharacterRank == 100
\* By the level of the skill that refers to another.
kReferenceScoreBoostCaps == <<12000, 13000, 14000, 14000>>

\* What a card refers to has a row, and its numbers are natural at every level.
ASSUME SkillDataAssumption ==
    /\ \A id \in CardIds :
         /\ CardTable[id].skill \in DOMAIN SkillTable
         /\ CardTable[id].trainedSkill \in DOMAIN SkillTable \cup {"NONE"}
    /\ \A skill \in DOMAIN SkillTable :
         /\ IsFiniteSet(SkillTable[skill])
         /\ \A e \in SkillTable[skill] :
              /\ e.enhance \in Nat
              /\ \A level \in 1..kSkillLevelMax : e.value[level] \in Nat /\ e.cap[level] \in Nat

kScoreUpTypes == {"score_up", "score_up_condition_life", "score_up_keep"}
GetMaxSkill(effects, level) ==
    Max({0} \cup {e.value[level] : e \in {f \in effects : f.type \in kScoreUpTypes}})

\* What the effects add to the skill's own value.  A unit enhancement comes first; an effect that
\* has one is looked at for no other.
Enhancement(effects, level) ==
    LET subUnit == {e \in effects : e.unit # "NONE"}
        Of(type) == {e \in effects \ subUnit : e.type = type}
        Extra(kind, e, rate) == [kind |-> kind, unit |-> e.unit, enhance |-> rate, cap |-> e.cap[level]]
        First(S) == CHOOSE e \in S : TRUE
        ByLevel(type) == Extra(type, First(Of(type)), First(Of(type)).value[level])
    IN IF subUnit # {} THEN Extra("sub_unit", First(subUnit), First(subUnit).enhance)
       ELSE IF Of("unit_count") # {} THEN ByLevel("unit_count")
       ELSE IF Of("character_rank") # {} THEN ByLevel("character_rank")
       ELSE IF Of("reference") # {} THEN ByLevel("reference")
       ELSE [kind |-> "plain", unit |-> "NONE", enhance |-> 0, cap |-> 0]

NewSkill(skillId, level) ==
    [value |-> GetMaxSkill(SkillTable[skillId], level), level |-> level, rank |-> 0,
     extra |-> Enhancement(SkillTable[skillId], level)]

RankSteps(rank) == Lesser(rank, kMaxBonusCharacterRank) \div kBonusCharacterRankStep
ApplyCharacterRank(skill, rank) == [skill EXCEPT !.rank = RankSteps(rank)]

\* In a team with unitCards cards of the enhanced unit, cards of units units,
\* and others whose capped skills average to average.
SkillValueIn(skill, unitCards, units, average) ==
    LET extra == skill.extra
        factor == IF unitCards = TeamSize THEN TeamSize ELSE unitCards - 1
    IN skill.value + CASE extra.kind = "sub_unit" -> factor * extra.enhance
                       [] extra.kind = "unit_count" ->
                            extra.enhance * Lesser(units - 1, kMaxUnitCount)
                       [] extra.kind = "character_rank" -> skill.rank * extra.enhance
                       [] extra.kind = "reference" -> (average * extra.enhance) \div 10000
                       [] extra.kind = "plain" -> 0

MaxSkillValueOf(skill) ==
    LET extra == skill.extra
    IN skill.value + CASE extra.kind = "sub_unit" -> TeamSize * extra.enhance
                       [] extra.kind = "unit_count" -> kMaxUnitCount * extra.enhance
                       [] extra.kind = "character_rank" ->
                            RankSteps(kMaxBonusCharacterRank) * extra.enhance
                       [] extra.kind = "reference" -> extra.cap
                       [] extra.kind = "plain" -> 0

-----------------------------------------------------------------------------
(* The card.                                                               *)

MaxLevelForRarity(rarity) == CASE rarity = 1 -> 20 [] rarity = 2 -> 30 [] rarity = 3 -> 50
                               [] rarity \in {4, kBirthday} -> 60
TrainableCard(id) == CardTable[id].rarity \in {3, 4} /\ ~CardTable[id].alwaysTrained

GetBasePower(id, level) ==
    IF level \in DOMAIN CardTable[id].params THEN CardTable[id].params[level] ELSE Zero
GetMasterRankBonus(rarity, rank) ==
    LET lessons == {l \in MasterLessons : l.rarity = rarity /\ l.rank <= rank}
    IN [k \in 1..3 |-> MapThenSumSet(LAMBDA l : l.bonus[k], lessons)]
GetCardEpisodeBonus(id, read) ==
    [k \in 1..3 |-> MapThenSumSet(LAMBDA e : Episodes[id][e][k], read \cap DOMAIN Episodes[id])]

GetCardPower(id, st) ==
    Plus(GetBasePower(id, st.level),
         Plus(IF st.trained \/ CardTable[id].alwaysTrained THEN CardTable[id].trainBonus ELSE Zero,
              Plus(GetMasterRankBonus(CardTable[id].rarity, st.masterRank),
                   GetCardEpisodeBonus(id, st.episodes))))
PowerVec(id, st) ==
    Plus(GetCardPower(id, st), IF st.canvas THEN CanvasBonus[CardTable[id].rarity] ELSE Zero)

HasSecondarySkill(id, st) == CardTable[id].trainedSkill # "NONE" /\ st.trained
Matches == [attr : BOOLEAN, primary : BOOLEAN, secondary : BOOLEAN]

\* second: the card is used with the skill it has after training.
NewCard(id, st, second) ==
    [id |-> id, state |-> st, vec |-> PowerVec(id, st), second |-> second,
     skill |-> NewSkill(IF second THEN CardTable[id].trainedSkill ELSE CardTable[id].skill,
                        st.skillLevel),
     cr |-> 0, fixture |-> 0, gate |-> 0, area |-> [m \in Matches |-> 0],
     power |-> [m \in Matches |-> 0], eventBonus |-> 0, supportBonus |-> 0]

Rate(r, matching) == IF matching THEN r.matching ELSE r.rate
AreaItemRate(id, b, m) ==
    b.char[CardTable[id].char] + Rate(b.attr[CardTable[id].attr], m.attr)
      + Greater(Rate(b.unit[PrimaryUnit(id)], m.primary), Rate(b.unit[SecondaryUnit(id)], m.secondary))

WithPower(c, char, b) ==
    LET cr == Scaled(c.vec, b.cr[char])
        fixture == (SumOfParts(c.vec) * b.fixture[char]) \div 1000
        gate == (SumOfParts(c.vec) * b.gate[PrimaryUnit(c.id)]) \div 1000
        area == [m \in Matches |-> Scaled(c.vec, AreaItemRate(c.id, b, m))]
    IN [c EXCEPT !.skill = ApplyCharacterRank(c.skill, b.rank[char]),
                 !.cr = cr, !.fixture = fixture, !.gate = gate, !.area = area,
                 !.power = [m \in Matches |-> SumOfParts(c.vec) + cr + area[m] + fixture + gate]]
ApplyProfilePowerBonus(c, b) == WithPower(c, CardTable[c.id].char, b)
MaxPower(c) == c.power[[attr |-> TRUE, primary |-> TRUE, secondary |-> TRUE]]

CreateMaxCardState(id) ==
    [level |-> MaxLevelForRarity(CardTable[id].rarity), trained |-> TrainableCard(id),
     canvas |-> FALSE, masterRank |-> kMasterRankMax, skillLevel |-> kSkillLevelMax,
     episodes |-> DOMAIN Episodes[id]]

-----------------------------------------------------------------------------
(* The profile.                                                            *)

kMaxMySekaiFixtureBonusLimit == 100

ActiveAreaItems(proto) ==
    {row \in AreaItemLevels :
       row.level = IF row.item \in DOMAIN proto.areaItems THEN proto.areaItems[row.item] ELSE 0}
SumRate(rows) == MapThenSumSet(LAMBDA r : r.rate, rows)
SumMatching(rows) == MapThenSumSet(LAMBDA r : r.allMatch, rows)

\* An item for every unit doubles its rate for the teams that do not match.
LoadAreaItemBonus(items) ==
    LET multi == {r \in items : r.unit = "MULTI"}
        OfUnit(u) == {r \in items : r.unit = u}
        OfAttr(a) == {r \in items : r.attr = a}
    IN [unit |-> [u \in Units |-> [rate |-> SumRate(OfUnit(u)) + 2 * SumRate(multi),
                                   matching |-> SumMatching(OfUnit(u)) + SumRate(multi)]],
        attr |-> [a \in Attrs |-> [rate |-> SumRate(OfAttr(a)), matching |-> SumMatching(OfAttr(a))]],
        char |-> [c \in Chars |-> SumRate({r \in items : r.char = c})]]

LoadMySekaiFixtureBonus(crafted) ==
    [c \in Chars |-> Lesser(kMaxMySekaiFixtureBonusLimit,
        SumRate({f \in Fixtures : f.id \in crafted /\ f.char = c}))]

\* The virtual singers have the best of the gates.
LoadMySekaiGateBonus(levels) ==
    LET open == {g \in GateLevels : g.gate \in DOMAIN levels /\ g.level = levels[g.gate]}
        Best(gates) == Max({0} \cup {g.rate : g \in gates})
    IN [u \in Units |-> Best(IF u = "VS" THEN open ELSE {g \in open : g.unit = u})]

LoadCharacterRankBonus(ranks) ==
    [c \in Chars |-> SumRate({r \in CharacterRanks : r.char = c /\ r.rank = ranks[c]})]

BonusOf(proto, areaItems) ==
    [bonusPower |-> proto.title, rank |-> proto.ranks,
     attr |-> areaItems.attr, char |-> areaItems.char, unit |-> areaItems.unit,
     cr |-> LoadCharacterRankBonus(proto.ranks),
     fixture |-> LoadMySekaiFixtureBonus(proto.fixtures),
     gate |-> LoadMySekaiGateBonus(proto.gates)]
ProfileBonus(proto) == BonusOf(proto, LoadAreaItemBonus(ActiveAreaItems(proto)))

LoadCards(states, b) ==
    LET known == DOMAIN states \cap CardIds
    IN [cards |-> [id \in known |-> ApplyProfilePowerBonus(NewCard(id, states[id], FALSE), b)],
        secondary |-> [id \in {k \in known : HasSecondarySkill(k, states[k])} |->
                         ApplyProfilePowerBonus(NewCard(id, states[id], TRUE), b)]]
WithBonus(loaded, b) ==
    [cards |-> loaded.cards, secondary |-> loaded.secondary, bonus |-> b, support |-> <<>>]
LoadProfile(states, b) == WithBonus(LoadCards(states, b), b)
NewProfile(proto) == LoadProfile(proto.cards, ProfileBonus(proto))

PrimaryCardPool(profile) == Range(profile.cards)
TeamBuilderCardPool(profile) == Range(profile.cards) \cup Range(profile.secondary)

\* The states of the cards listed; an unknown card and one listed before are
\* skipped, a row that cannot be read fails the whole import.
ListedState(row) ==
    [CreateMaxCardState(row.id) EXCEPT !.masterRank = Clamp(row.masterRank, 0, kMasterRankMax),
                                       !.skillLevel = Clamp(row.skillLevel, 1, kSkillLevelMax),
                                       !.canvas = row.canvas]
ReadRow(acc, row) ==
    CASE ~acc.ok \/ ~row.owned -> acc
      [] acc.ok /\ row.owned /\ ~row.readable -> [acc EXCEPT !.ok = FALSE]
      [] acc.ok /\ row.owned /\ row.readable ->
           IF row.id \notin CardIds \/ row.id \in DOMAIN acc.cards THEN acc
           ELSE [acc EXCEPT !.cards = [id \in DOMAIN acc.cards \cup {row.id} |->
                   IF id = row.id THEN ListedState(row) ELSE acc.cards[id]]]
LoadCardsFromCsv(rows) ==
    FoldLeft(ReadRow, [ok |-> TRUE, cards |-> [id \in {} |-> CreateMaxCardState(id)]], rows)
=============================================================================
