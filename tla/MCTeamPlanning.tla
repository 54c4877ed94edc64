---------------------------- MODULE MCTeamPlanning ----------------------------
(***************************************************************************)
(* Teams of two from six cards: a character of one unit, one of another,   *)
(* and two virtual singers, each with a card of the first unit, one with a *)
(* card of her own.  One card has two skills.  Powers, points and scores   *)
(* are scaled down together, so that buckets, steps and the cap still      *)
(* bite.                                                                   *)
(***************************************************************************)
EXTENDS TeamPlanning, TLC

MCCharUnit == <<"LN", "VS", "MMJ", "VS">>

-----------------------------------------------------------------------------
(* The master database.                                                    *)

None == "NONE"
Flat(n) == <<n, n, n>>
Row(char, attr, support, rarity, skill, trainedSkill, alwaysTrained) ==
    [char |-> char, attr |-> attr, support |-> support, rarity |-> rarity, skill |-> skill,
     trainedSkill |-> trainedSkill, alwaysTrained |-> alwaysTrained, trainBonus |-> Flat(2),
     params |-> (1 :> Flat(6)) @@ (MaxLevelForRarity(rarity) :> <<14 + rarity, 13 + rarity, 12>>)]
MCCardTable ==
    (1 :> Row(1, "cool", None, 4, "plain", None, FALSE))
      @@ (2 :> Row(2, "cute", "LN", 4, "counts", "refers", FALSE))
      @@ (3 :> Row(3, "cool", None, 3, "unit", None, FALSE))
      @@ (4 :> Row(4, "cool", "LN", 4, "rank", None, FALSE))
      @@ (6 :> Row(1, "cute", None, 3, "plain", None, TRUE))
      @@ (785 :> Row(4, "cute", None, 5, "plain", None, FALSE))

Effect(type, values) ==
    [type |-> type, value |-> values, unit |-> None, enhance |-> 0, cap |-> kReferenceScoreBoostCaps]
ScoreUp == Effect("score_up", <<6000, 7000, 8000, 10000>>)
MCSkillTable ==
    [plain |-> {ScoreUp, Effect("score_up_condition_life", <<7000, 8000, 9000, 11000>>)},
     unit |-> {[ScoreUp EXCEPT !.unit = "MMJ", !.enhance = 1500]},
     counts |-> {ScoreUp, Effect("unit_count", <<3000, 3000, 3000, 3000>>)},
     rank |-> {ScoreUp, Effect("character_rank", <<100, 100, 100, 100>>)},
     refers |-> {Effect("score_up_keep", <<4000, 5000, 6000, 6000>>),
                 Effect("reference", <<5000, 5000, 5000, 5000>>)}]

MCMasterLessons == [rarity : Rarities, rank : 1..5, bonus : {Flat(1)}]
MCCanvasBonus == [r \in Rarities |-> Flat(1)]
MCEpisodes == [id \in DOMAIN MCCardTable |-> (1 :> Flat(1)) @@ (2 :> Flat(1))]
Item(item, level, unit, attr, char, rate, allMatch) ==
    [item |-> item, level |-> level, unit |-> unit, attr |-> attr, char |-> char,
     rate |-> rate, allMatch |-> allMatch]
MCAreaItemLevels ==
    UNION {{Item(1, level, "LN", None, 0, 100 * level, 200 * level),
            Item(2, level, None, "cool", 0, 100 * level, 200 * level),
            Item(3, level, None, None, 4, 150 * level, 0),
            Item(4, level, "MULTI", None, 0, 150 * level, 0),
            Item(5, level, "VS", None, 0, 20 * level, 400 * level)} : level \in 1..2}
MCCharacterRanks == [char : 1..4, rank : {20}, rate : {40}] \cup [char : 1..4, rank : {102}, rate : {100}]
MCFixtures == {[id |-> 1, char |-> 1, rate |-> 60], [id |-> 2, char |-> 1, rate |-> 60],
               [id |-> 3, char |-> 4, rate |-> 60]}
MCGateLevels == {[gate |-> 1, unit |-> "LN", level |-> 1, rate |-> 60],
                 [gate |-> 2, unit |-> "MMJ", level |-> 1, rate |-> 90]}

\* A marathon, a carnival, and a world bloom with two chapters.
For(char, unit, attr, rate) == [char |-> char, unit |-> unit, attr |-> attr, rate |-> rate]
Event(type, deck, cards, chapters) ==
    [type |-> type, deck |-> deck, cards |-> cards, chapters |-> chapters]
MCEvents ==
    (1 :> Event("MARATHON",
                {For(1, "LN", None, 2500), For(4, "LN", None, 2500), For(0, None, "cool", 2500),
                 For(1, "LN", "cool", 5000), For(4, "LN", "cool", 5000)}, 1 :> 2000, <<>>))
      @@ (153 :> Event("CHEERFUL_CARNIVAL", {For(0, None, "cute", 2500)}, 2 :> 2000, <<>>))
      @@ (199 :> Event("WORLD_BLOOM", {For(1, "LN", None, 2500), For(2, "LN", None, 2500)},
                       2 :> 2000, <<4, 1>>))

MCMasterRankRates == <<<<0, 0, 0, 0, 0, 0>>, <<0, 0, 0, 0, 0, 0>>, <<0, 100, 200, 300, 400, 500>>,
                       <<1000, 1250, 1500, 1750, 2000, 2500>>, <<500, 700, 900, 1100, 1300, 1500>>>>
MCDiffAttrRates == [n \in 0..2 |-> 500 * n]
MCSupportTeamSize == <<1, 2, 3>>

MCSongs == {[difficulty |-> "expert", eventRate |-> 10, base |-> 1, fever |-> 1, baseAuto |-> 1,
             skillSolo |-> <<1, 0, 1>>, skillMulti |-> <<1, 1, 2>>, skillAuto |-> <<0, 0, 0>>],
            [difficulty |-> "master", eventRate |-> 12, base |-> 2, fever |-> 1, baseAuto |-> 1,
             skillSolo |-> <<1, 2, 2>>, skillMulti |-> <<1, 1, 2>>, skillAuto |-> <<0, 0, 0>>]}
MCEbiSong == CHOOSE s \in MCSongs : s.difficulty = "master"
MCEpFactor == [solo |-> 800, multi |-> 800, cheerful |-> 800, auto |-> 800]
MCBoostMultipliers == <<1, 5>>

-----------------------------------------------------------------------------
(* Saved data, and what may be done to it.                                 *)

Custom(attr, chars, cards, chapterChar) ==
    [attr |-> attr, chars |-> chars, cards |-> cards, chapterChar |-> chapterChar]
Fresh ==
    [areaItems |-> [i \in 1..5 |-> 0], title |-> 0, ranks |-> [c \in 1..4 |-> 20], fixtures |-> {},
     gates |-> [g \in 1..2 |-> 0],
     cards |-> [id \in DOMAIN MCCardTable |-> CreateMaxCardState(id)],
     event |-> 0, chapter |-> 0, custom |-> Custom(None, {}, {}, 0), wlVersion |-> 0,
     useOld |-> FALSE]
CustomVs == {[char |-> 4, unit |-> "LN"], [char |-> 4, unit |-> None]}

\* Nothing earned yet; matching pays, in a marathon; world bloom; an event made up under the old
\* rules.
MCSaved ==
    {Fresh,
     [Fresh EXCEPT !.areaItems = <<1, 2, 1, 0, 1>>, !.event = 1, !.title = 3],
     [Fresh EXCEPT !.areaItems[4] = 1, !.event = 199, !.chapter = 1, !.fixtures = {1, 3},
                   !.gates[1] = 1],
     [Fresh EXCEPT !.custom = Custom("cute", CustomVs, {6}, 0), !.useOld = TRUE,
                   !.cards = Without(@, 785)]}

MCCustomChars == {[char |-> 4, unit |-> "LN"]}
MCNumberEdits == {[id |-> 1, field |-> "level", value |-> 1],
                  [id |-> 4, field |-> "masterRank", value |-> 0],
                  [id |-> 785, field |-> "skillLevel", value |-> 1]}
MCFlagEdits == {[id |-> 2, field |-> "trained", value |-> FALSE],
                [id |-> 3, field |-> "canvas", value |-> TRUE]}
MCEpisodeEdits == {[id |-> 6, read |-> {2}]}
MCAreaEdits == {[item |-> 1, level |-> 2], [item |-> 4, level |-> 2], [item |-> 5, level |-> 2]}
MCRankEdits == {[char |-> 4, rank |-> 102]}
MCGateEdits == {[gate |-> 2, level |-> 1]}
MCEventEdits == {[event |-> 0, chapter |-> 0], [event |-> 153, chapter |-> 0],
                 [event |-> 199, chapter |-> 2]}

Listed(id, rank, level) ==
    [id |-> id, owned |-> TRUE, readable |-> TRUE, masterRank |-> rank, skillLevel |-> level,
     canvas |-> FALSE]
MCCsvFiles ==
    {<<Listed(1, 9, 0), Listed(99, 1, 1), Listed(3, 0, 4), Listed(1, 0, 1)>>,
     <<Listed(1, 0, 1), [Listed(2, 0, 1) EXCEPT !.readable = FALSE]>>}

Constrained(leads, pairs, minSkill, rarities) ==
    [leads |-> leads, pairs |-> pairs, minSkill |-> minSkill, rarities |-> rarities, empty |-> FALSE]
MCKizunaPairs == {{1, 4}, {2, 3}}
PairLed == Constrained({2, 4}, <<{1, 4}>>, 0, {})
SkillLed == Constrained({1, 2, 4}, <<>>, 105, {5})
MCAsked == {Con!Unconstrained, PairLed, SkillLed}
MCNaiveAsked ==
    [con : {Con!Unconstrained}, objective : {"points", "power", "bonus"}]
      \cup [con : {PairLed}, objective : {"mysaki", "skill"}]
      \cup [con : {SkillLed}, objective : {"fill"}]
=============================================================================
