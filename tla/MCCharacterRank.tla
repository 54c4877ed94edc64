--------------------------- MODULE MCCharacterRank ---------------------------
(***************************************************************************)
(* Two characters, and four databases: one in which all kinds of rows      *)
(* occur, one with fewer alternate vocals and an old asset version, one in *)
(* which the characters lack most missions, and one on which the checks    *)
(* fail.                                                                   *)
(***************************************************************************)
EXTENDS CharacterRank, TLC

MCCharacters == {1, 21}
\* The 4.5 anniversary is listed after the movie and lies before it.
MCReleases == <<1, 2, 4, 5, 9, 3, 11, 13, 15, 18>>
MCBirthday == 1 :> 12 @@ 21 :> 14
MCRankXp == <<1, 2, 4, 7, 10>>

Row(seq, requirement, exp) == [seq |-> seq, requirement |-> requirement, exp |-> exp]
Few == {Row(1, 1, 1), Row(4, 3, 2)}                     \* steps 2 and 3 repeat step 1
Ended == {Row(1, 2, 1), Row(2, 4, 1), Row(4, 9, 0)}     \* step 3 repeats step 2
Ex == {Row(1, 2, 1), Row(2, 1, 1), Row(3, 1, 1)}

RowsOf(type) == CASE type \in ExMissions -> Ex
                  [] type \in AreaItemMissions \cup {"COLLECT_STAMP"} -> {Row(1, 1, 1), Row(2, 2, 1)}
                  [] type \in {"COLLECT_MEMBER", "SKILL_LEVEL_UP_RARE"} -> Ended
                  [] OTHER -> Few

Card(id, character, rarity, trainedOnly, published) ==
    [id |-> id, character |-> character, rarity |-> rarity, trainedOnly |-> trainedOnly,
     published |-> published, episodes |-> {"FIRST_PART", "SECOND_PART"}]
Game(id) == [type |-> "GAME_CHARACTER", id |-> id]
Item(id, mission, character, unit) ==
    [id |-> id, mission |-> mission, character |-> character, unit |-> unit, levels |-> 2]

Full == [
    version |-> 10,
    chapters |-> {[event |-> 170, character |-> 1, start |-> 7],
                  [event |-> 200, character |-> 1, start |-> 16],
                  [event |-> 100, character |-> 21, start |-> 2],
                  [event |-> 180, character |-> 21, start |-> 12]},   \* counts in both rounds
    stages |-> [c \in MCCharacters |-> <<10, 10, 20, 20, 30>>],
    cards |-> {Card(1, 1, "RARITY_1", FALSE, 0), Card(2, 1, "RARITY_4", FALSE, 6),
               Card(3, 1, "RARITY_BD", FALSE, 10), Card(4, 21, "RARITY_3", FALSE, 3),
               Card(5, 21, "RARITY_4", TRUE, 8)},
    vocals |-> {[id |-> 1, type |-> "ANOTHER_VOCAL", published |-> 0, characters |-> {Game(1), Game(21)}],
                [id |-> 2, type |-> "ANOTHER_VOCAL", published |-> 8, characters |-> {Game(1)}],
                [id |-> 3, type |-> "SEKAI", published |-> 0, characters |-> {Game(1)}],
                [id |-> 4, type |-> "ANOTHER_VOCAL", published |-> 10,
                 characters |-> {[type |-> "OUTSIDE_CHARACTER", id |-> 21]}]},
    costumes |-> {[id |-> 1, character |-> 1, part |-> "BODY", published |-> 4],
                  [id |-> 2, character |-> 1, part |-> "HAIR", published |-> 4]},
    stamps |-> {[id |-> 1, characters |-> {1, 21}, published |-> 0],
                [id |-> 2, characters |-> {1}, published |-> 7]},
    character2d |-> (101 :> 1 @@ 102 :> 21),
    actionSets |-> {[id |-> 1, models |-> {101, 102}, published |-> 6]},
    voices |-> {[id |-> 1, character |-> 1, type |-> "PRACTICE", published |-> 0],
                [id |-> 2, character |-> 1, type |-> "TITLE", published |-> 9]},
    gameCharacterUnit |-> (1 :> 1 @@ 21 :> 21 @@ 27 :> 21),
    talks |-> {[id |-> 1, units |-> {1, 27}, condition |-> "MYSEKAI_FIXTURE_ID", lua |-> "a"],
               [id |-> 2, units |-> {21}, condition |-> "MYSEKAI_FIXTURE_ID", lua |-> "a"],
               [id |-> 3, units |-> {1}, condition |-> "WEATHER", lua |-> "b"]},
    fixtureTag |-> ("t" :> Game(1) @@ "u" :> [type |-> "UNIT", id |-> 21]),
    fixtures |-> {[id |-> 1, tags |-> {"t", "u"}], [id |-> 2, tags |-> {"u"}]},
    unit |-> (1 :> "LN" @@ 21 :> "VS"),
    areaItems |-> {Item(1, "AREA_ITEM_LEVEL_UP_CHARACTER", 1, "any"),
                   Item(2, "AREA_ITEM_LEVEL_UP_CHARACTER", 21, "any"),
                   Item(3, "AREA_ITEM_LEVEL_UP_UNIT", 0, "LN"),
                   Item(4, "AREA_ITEM_LEVEL_UP_UNIT", 0, "VS"),
                   Item(5, "AREA_ITEM_LEVEL_UP_REALITY_WORLD", 0, "any"),
                   Item(6, "AREA_ITEM_LEVEL_UP_ALL_CHARACTER", 0, "any")},
    missions |-> [m \in MCCharacters \X MissionTypes |-> RowsOf(m[2])]]

Old == [Full EXCEPT !.version = 8, !.vocals = {}]
AreaMissions(chars) == chars \X AreaItemMissions
Sparse == [Full EXCEPT
    !.missions = [m \in AreaMissions(MCCharacters) \cup {<<21, "COLLECT_STAMP">>} |-> Few]]
Lacking == [Full EXCEPT !.missions = [m \in AreaMissions({1}) |-> Few]]

MCDatabases == {Full, Old, Sparse, Lacking}
==============================================================================
