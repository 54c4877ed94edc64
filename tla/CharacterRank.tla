---------------------------- MODULE CharacterRank ----------------------------
(***************************************************************************)
(* The max character rank planner (max_character_rank.cc, version.cc,      *)
(* challenge_live.cc, frontend/max_cr_main.cc): the highest rank each      *)
(* character can have at a time.  Rank comes from XP, XP from sources:     *)
(* missions counted in the master database, and rewards that are released  *)
(* on dates the program lists.                                             *)
(***************************************************************************)
EXTENDS Integers, Sequences, FiniteSetsExt, Functions

CONSTANTS
    Databases,          \* master databases
    Characters,
    LastTime,           \* bound: times are 0 .. LastTime
    Day,                \* a day, in units of time
    Releases,           \* the release times, in the order GetAssetVersionAt tries them
    Reset4, Reset6,     \* the days of challenge points are counted from here
    Birthday,           \* of each character
    Year,
    Cap4, Cap6,         \* kPre4thAnniCap, kPre6thAnniCap
    ExPoints,           \* kPre4thAnniExPts
    PerDay4, PerDay6,   \* kMaxChallengePts4, kMaxChallengePts6
    RankXp,             \* kCharacterRankXpRequirement
    RankXpIncrement,    \* kCharacterRankXpIncrement
    MaxRank,            \* kMaxCharacterRank
    StampRank,          \* 168
    MasterRankMax, SkillLevelMax

VARIABLES
    masterDb,   \* the master database that was loaded
    now,        \* the clock
    shown       \* the time of the table on the page, and its ranks

rankVars == <<masterDb, now, shown>>

Times == 0..LastTime
NotShown == [time |-> -1, ranks |-> <<>>]
Aborted == [time |-> -2, ranks |-> <<>>]    \* a check of the computation failed

ASSUME RankAssumption ==
    /\ RankXp \in Seq(Nat \ {0}) /\ RankXp # <<>>
    /\ \A k \in 1..Len(RankXp) - 1 : RankXp[k] < RankXp[k + 1]
    /\ RankXpIncrement \in Nat \ {0}
    /\ MaxRank \in Nat /\ Len(RankXp) < MaxRank
    /\ StampRank \in 2..MaxRank

ASSUME PointsAssumption ==
    /\ LastTime \in Nat /\ Day \in Nat \ {0} /\ Year \in Nat \ {0}
    /\ Reset4 \in Int /\ Reset6 \in Int
    /\ PerDay4 \in Nat /\ PerDay6 \in Nat /\ ExPoints \in Nat
    /\ MasterRankMax \in Nat /\ SkillLevelMax \in Nat \ {0}

-----------------------------------------------------------------------------
\* Versions are numbered in their order: 0 is kPreAnni2AssetVersion, and the
\* k-th release brings version k.
kAnni2 == 1
kAnni3 == 2
kEndOfWl == 3
kAnni4 == 4
kMovie == 5
kAnni4p5 == 6
kAnni5 == 7
kNewYear5 == 8
kAnni5p5 == 9
kAnni6 == 10

\* The release dates and the birthdays are constants of the program: the
\* first birthday that counts comes after the fifth anniversary.
ASSUME ReleasesAssumption ==
    /\ Releases \in Seq(Int) /\ Len(Releases) = kAnni6
    /\ Birthday \in [Characters -> Int]
    /\ \A char \in Characters : \A k \in 1..kAnni5 : Releases[k] <= Birthday[char]

\* The rows of the master database that the counts go through.  The stages
\* go beyond both caps, and a mission has a row for its first step; of the
\* rows of one that is not EX, later ones do not ask for less (what
\* GetMaxChallengeLiveStage and GetMaxProgressFromMissionParams check, or
\* rely on).  Chapters of world link events start at any time.
MissionRowsAssumed(rows, ex) ==
    /\ IsFiniteSet(rows)
    /\ \A p \in rows : p.seq \in Nat \ {0} /\ p.requirement \in Nat /\ p.exp \in Nat
    /\ \E p \in rows : p.seq = 1
    /\ \A p \in rows : p.seq = 1 => p.exp > 0
    /\ ~ex => \A p, q \in rows : p.seq < q.seq => p.requirement <= q.requirement
Dated(rows) == IsFiniteSet(rows) /\ \A r \in rows : r.published \in Int
ASSUME DatabaseAssumption ==
    \A db \in Databases :
        /\ db.version \in Int
        /\ \A c \in db.chapters : c.start \in Int
        /\ \A char \in Characters :
            /\ db.stages[char] \in Seq(Nat)
            /\ {Cap4, Cap6} \subseteq 0..Len(db.stages[char]) + 1
        /\ Dated(db.cards) /\ Dated(db.vocals) /\ Dated(db.costumes) /\ Dated(db.stamps)
        /\ Dated(db.actionSets) /\ Dated(db.voices)
        /\ IsFiniteSet(db.talks) /\ IsFiniteSet(db.fixtures) /\ IsFiniteSet(db.areaItems)
        /\ \A item \in db.areaItems : item.levels \in Nat
        /\ \A m \in DOMAIN db.missions :
            MissionRowsAssumed(db.missions[m], m[2] \in {"PLAY_LIVE_EX", "WAITING_ROOM_EX"})

\* The first release that is still to come says which version is out; after
\* the last it is the database's.
GetAssetVersionAt(db, time) ==
    LET ahead == {k \in DOMAIN Releases : time < Releases[k]}
    IN IF ahead = {} THEN db.version ELSE Min(ahead) - 1

\* What a source gives once its version is out.
Reward == [
    ANNI_2_STAMP           |-> [version |-> kAnni2, amount |-> 3],
    ANNI_3_STAMP           |-> [version |-> kAnni3, amount |-> 3],
    WORLD_LINK             |-> [version |-> kEndOfWl, amount |-> 2],
    ANNI_4_STAMP           |-> [version |-> kAnni4, amount |-> 2],
    ANNI_4_MEMORIAL_SELECT |-> [version |-> kAnni4, amount |-> 1],
    MOVIE_STAMP            |-> [version |-> kMovie, amount |-> 2],
    ANNI_4_5_STAMP         |-> [version |-> kAnni4p5, amount |-> 2],
    WORLD_LINK_2           |-> [version |-> kAnni4, amount |-> 2],
    ANNI_5_STAMP           |-> [version |-> kAnni5, amount |-> 2],
    ANNI_5_MEMORIAL_SELECT |-> [version |-> kAnni5, amount |-> 2],
    BDAY_LIVE              |-> [version |-> kAnni5, amount |-> 1],
    NEW_YEAR_5_GACHA       |-> [version |-> kNewYear5, amount |-> 3],
    PLATINUM_EXCHANGE      |-> [version |-> kAnni5p5, amount |-> 5],
    ANNI_5_5_STAMP         |-> [version |-> kAnni5p5, amount |-> 3],
    WORLD_LINK_3           |-> [version |-> kAnni5p5, amount |-> 2],
    ANNI_6_STAMP           |-> [version |-> kAnni6, amount |-> 3],
    ANNI_6_MEMORIAL_SELECT |-> [version |-> kAnni6, amount |-> 1]]

\* The points that each stage asks for; stages 0 and 1 ask for none.
GetChallengeLiveStagePointRequirement(db, char) ==
    [rank \in 0..Len(db.stages[char]) + 1 |->
        SumFunctionOnSet(db.stages[char], 1..rank - 1)]
LastStage(db, char) == Len(db.stages[char]) + 1

\* Started days since the reset, at least one from the release on.
DaysSince(release, reset, time) ==
    IF time < release THEN 0 ELSE Max({(time - reset + Day - 1) \div Day, 1})

GetMaxChallengeLiveStage(db, char, time) ==
    LET reqs == GetChallengeLiveStagePointRequirement(db, char)
        points == IF time < Releases[kAnni6]
                  THEN reqs[Cap4] + ExPoints - 1 + DaysSince(Releases[kAnni4], Reset4, time) * PerDay4
                  ELSE reqs[Cap6] + DaysSince(Releases[kAnni6], Reset6, time) * PerDay6
        beyond == {rank \in DOMAIN reqs : points < reqs[rank]}
    IN IF beyond = {} THEN LastStage(db, char) ELSE Min(beyond) - 1

\* A chapter of the second round of world link events (160 .. 180), of the
\* third (180 .. 218): event 180 counts in both.
ChapterStarted(db, char, time, events) ==
    \E c \in db.chapters : c.event \in events /\ c.character = char /\ c.start <= time
WorldLink2ChapterStarted(db, char, time) == ChapterStarted(db, char, time, 160..180)
WorldLink3ChapterStarted(db, char, time) == ChapterStarted(db, char, time, 180..218)

kMaxBdayXp == 1
BdayProgressOfYear(char, time) ==
    IF (time - Birthday[char]) % Year < Day THEN 1 ELSE 0
GetCharBdayProgressAt(char, time) ==
    IF time < Birthday[char] THEN 0
    ELSE Min({kMaxBdayXp, (time - Birthday[char]) \div Year + 1})

OtherSources == {"CHALLENGE_LIVE"} \cup DOMAIN Reward

Rewarded(db, source, time) ==
    IF GetAssetVersionAt(db, time) >= Reward[source].version THEN Reward[source].amount ELSE 0

OtherProgress(db, char, source, time) ==
    CASE source = "CHALLENGE_LIVE" -> GetMaxChallengeLiveStage(db, char, time)
      [] source = "WORLD_LINK_2" -> IF WorldLink2ChapterStarted(db, char, time) THEN 2 ELSE 0
      [] source = "WORLD_LINK_3" -> IF WorldLink3ChapterStarted(db, char, time) THEN 2 ELSE 0
      [] source = "BDAY_LIVE" -> GetCharBdayProgressAt(char, time)
      [] OTHER -> Rewarded(db, source, time)

OtherMaxProgress(db, char, source, time) ==
    IF source = "CHALLENGE_LIVE" THEN LastStage(db, char) ELSE Rewarded(db, source, time)

OtherXp(source, progress) == IF source = "CHALLENGE_LIVE" THEN progress - 1 ELSE progress

-----------------------------------------------------------------------------
\* What the database holds for a character at a time.
Out(rows, time) == {r \in rows : r.published <= time}
CardsOf(db, char, time) == {c \in Out(db.cards, time) : c.character = char}

CountAlts(db, char, time) ==
    Cardinality({v \in Out(db.vocals, time) :
        v.type = "ANOTHER_VOCAL" /\ [type |-> "GAME_CHARACTER", id |-> char] \in v.characters})
CountCostumes(db, char, time) ==
    Cardinality({c \in Out(db.costumes, time) : c.character = char /\ c.part = "BODY"})

\* A card that can be trained fills two places of the album, unless it is
\* trained from the start.
AlbumRarityFactor(rarity) == IF rarity \in {"RARITY_3", "RARITY_4"} THEN 2 ELSE 1
IsRare(rarity) == rarity \in {"RARITY_BD", "RARITY_4"}
IsCommon(rarity) == rarity \in {"RARITY_1", "RARITY_2", "RARITY_3"}
CountTrainedOnlyCards(db, char, time) == Cardinality({c \in CardsOf(db, char, time) : c.trainedOnly})
CountAlbumMember(db, char, time) ==
    SumFunction([c \in CardsOf(db, char, time) |-> AlbumRarityFactor(c.rarity)])
        - CountTrainedOnlyCards(db, char, time)
CountRareMember(db, char, time) == Cardinality({c \in CardsOf(db, char, time) : IsRare(c.rarity)})
CountCommonMember(db, char, time) == Cardinality({c \in CardsOf(db, char, time) : IsCommon(c.rarity)})
CountMembers(db, char, time) == CountRareMember(db, char, time) + CountCommonMember(db, char, time)

CountStamps(db, char, time) == Cardinality({s \in Out(db.stamps, time) : char \in s.characters})
CountAreaConvos(db, char, time) ==
    Cardinality({a \in Out(db.actionSets, time) : \E m \in a.models : db.character2d[m] = char})
CountCardEpisodes(db, char, part, time) ==
    Cardinality({c \in CardsOf(db, char, time) : part \in c.episodes})
CountVoiceLine(db, char, time) ==
    Cardinality({v \in Out(db.voices, time) : v.character = char
        /\ v.type \notin {"COMMENT_LIVE_TOP", "COMMENT_LOGIN_BONUS", "PRACTICE"}})

\* Talks about a fixture, each script once; furniture is not dated.
CountMySekaiTalks(db, char) ==
    Cardinality({t.lua : t \in {t \in db.talks :
        /\ \E u \in t.units : db.gameCharacterUnit[u] = char
        /\ t.condition = "MYSEKAI_FIXTURE_ID"}})
CountMySekaiFixtures(db, char) ==
    Cardinality({f \in db.fixtures :
        \E tag \in f.tags : db.fixtureTag[tag] = [type |-> "GAME_CHARACTER", id |-> char]})

\* Items for everyone have no character (0) and no unit ("any").
GetValidAreaItemsForMission(db, char, type) ==
    {item \in db.areaItems : item.mission = type
        /\ item.character \in {char, 0} /\ item.unit \in {db.unit[char], "any"}}
GetMaxAreaItemLevelForMission(db, char, type) ==
    SumFunction([item \in GetValidAreaItemsForMission(db, char, type) |-> item.levels])

AreaItemMissions == {"AREA_ITEM_LEVEL_UP_CHARACTER", "AREA_ITEM_LEVEL_UP_ALL_CHARACTER",
                     "AREA_ITEM_LEVEL_UP_REALITY_WORLD", "AREA_ITEM_LEVEL_UP_UNIT"}
ExMissions == {"PLAY_LIVE_EX", "WAITING_ROOM_EX"}
EndlessMissions == {"PLAY_LIVE", "WAITING_ROOM"} \cup ExMissions
Endless == 2147483647

MissionProgress(db, char, type, time) ==
    CASE type \in AreaItemMissions -> GetMaxAreaItemLevelForMission(db, char, type)
      [] type \in EndlessMissions -> Endless
      [] type = "COLLECT_ANOTHER_VOCAL" -> CountAlts(db, char, time)
      [] type = "COLLECT_COSTUME_3D" -> CountCostumes(db, char, time)
      [] type = "COLLECT_MEMBER" -> CountAlbumMember(db, char, time)
      [] type = "COLLECT_STAMP" -> CountStamps(db, char, time)
      [] type = "MASTER_RANK_UP_RARE" -> CountRareMember(db, char, time) * MasterRankMax
      [] type = "MASTER_RANK_UP_STANDARD" -> CountCommonMember(db, char, time) * MasterRankMax
      [] type = "READ_AREA_TALK" -> CountAreaConvos(db, char, time)
      [] type = "READ_CARD_EPISODE_FIRST" -> CountCardEpisodes(db, char, "FIRST_PART", time)
      [] type = "READ_CARD_EPISODE_SECOND" -> CountCardEpisodes(db, char, "SECOND_PART", time)
      [] type = "SKILL_LEVEL_UP_RARE" -> CountRareMember(db, char, time) * (SkillLevelMax - 1)
      [] type = "SKILL_LEVEL_UP_STANDARD" -> CountCommonMember(db, char, time) * (SkillLevelMax - 1)
      [] type = "COLLECT_CHARACTER_ARCHIVE_VOICE" -> CountVoiceLine(db, char, time)
      [] type = "COLLECT_MYSEKAI_FIXTURE" -> CountMySekaiFixtures(db, char)
      [] type = "COLLECT_MYSEKAI_CANVAS" -> CountMembers(db, char, time)
      [] type = "READ_MYSEKAI_FIXTURE_TALK" -> CountMySekaiTalks(db, char)

\* The rows of a mission stand for one step per number up to the last row: a
\* number without a row repeats the row before it, and a row that gives no
\* XP ends the list.  An EX mission asks for its requirements on top of each
\* other.
LastStep(params) ==
    LET zeros == {p.seq : p \in {p \in params : p.exp = 0}}
    IN IF zeros = {} THEN Max({p.seq : p \in params}) ELSE Min(zeros) - 1
RowOfStep(params, k) ==
    CHOOSE p \in params : p.seq = Max({q.seq : q \in {q \in params : q.seq <= k}})
ExpandGroup(params, ex) ==
    [k \in 1..LastStep(params) |->
        [exp |-> RowOfStep(params, k).exp,
         requirement |->
             IF ex THEN SumFunction([j \in 1..k |-> RowOfStep(params, j).requirement])
             ELSE RowOfStep(params, k).requirement]]

HasMission(db, char, type) == <<char, type>> \in DOMAIN db.missions
Steps(db, char, type) == ExpandGroup(db.missions[<<char, type>>], type \in ExMissions)

\* What the last row asks for, not on top of the rows before it.
MaxProgressOfLastRow(db, char, type) ==
    IF type \in AreaItemMissions THEN GetMaxAreaItemLevelForMission(db, char, type)
    ELSE LET rows == db.missions[<<char, type>>]
         IN RowOfStep(rows, Max({p.seq : p \in rows})).requirement

MissionMaxProgress(db, char, type) ==
    IF type \in AreaItemMissions THEN GetMaxAreaItemLevelForMission(db, char, type)
    ELSE Steps(db, char, type)[Len(Steps(db, char, type))].requirement

\* The steps up to the first whose requirement is not met.
MissionXp(db, char, type, progress) ==
    LET steps == Steps(db, char, type)
    IN SumFunctionOnSet([k \in DOMAIN steps |-> steps[k].exp],
           {k \in DOMAIN steps : \A j \in 1..k : steps[j].requirement <= progress})

MissionTypes == AreaItemMissions \cup EndlessMissions \cup
    {"COLLECT_ANOTHER_VOCAL", "COLLECT_COSTUME_3D", "COLLECT_MEMBER", "COLLECT_STAMP",
     "MASTER_RANK_UP_RARE", "MASTER_RANK_UP_STANDARD", "READ_AREA_TALK",
     "READ_CARD_EPISODE_FIRST", "READ_CARD_EPISODE_SECOND", "SKILL_LEVEL_UP_RARE",
     "SKILL_LEVEL_UP_STANDARD", "COLLECT_CHARACTER_ARCHIVE_VOICE", "COLLECT_MYSEKAI_FIXTURE",
     "COLLECT_MYSEKAI_CANVAS", "READ_MYSEKAI_FIXTURE_TALK"}

-----------------------------------------------------------------------------
\* The XP that rank r asks for: the table's, then steps of RankXpIncrement.
XpFor(r) ==
    IF r = 1 THEN 0
    ELSE IF r - 1 <= Len(RankXp) THEN RankXp[r - 1]
    ELSE RankXp[Len(RankXp)] + (r - 1 - Len(RankXp)) * RankXpIncrement

\* The ranks are passed one after the other until one asks for more.
GetRank(xp) ==
    LET short == {r \in 2..MaxRank : xp < XpFor(r)}
        rank == IF short = {} THEN MaxRank ELSE Min(short) - 1
    IN [rank |-> rank, excess |-> xp - XpFor(rank)]

Source(progress, max, xp, maxXp) ==
    [progress |-> progress, max |-> max, xp |-> xp, maxXp |-> maxXp]

MissionSource(db, char, type, time) ==
    LET progress == MissionProgress(db, char, type, time)
        max == MissionMaxProgress(db, char, type)
    IN Source(progress, max, MissionXp(db, char, type, progress), MissionXp(db, char, type, max))
OtherSource(db, char, source, time) ==
    LET progress == OtherProgress(db, char, source, time)
        max == OtherMaxProgress(db, char, source, time)
    IN Source(progress, max, OtherXp(source, progress), OtherXp(source, max))

\* A mission that the database does not give the character is left out, but
\* for the area items: those have a maximum without it.
SourcesOf(db, char) ==
    {type \in MissionTypes : type \in AreaItemMissions \/ HasMission(db, char, type)}
        \cup OtherSources
Sources(db, char, time) ==
    [source \in SourcesOf(db, char) |->
        IF source \in MissionTypes THEN MissionSource(db, char, source, time)
        ELSE OtherSource(db, char, source, time)]

\* The stamp of rank 168 is a reward of that rank: it is taken off when the
\* rank is not passed without it.
StampUnearnedBelow(rank) == rank.rank < StampRank
StampUnearned(rank) == rank.rank < StampRank \/ (rank.rank = StampRank /\ rank.excess = 0)
WithoutStamp(db, sources, char) ==
    [source \in DOMAIN sources |->
        IF source = "COLLECT_STAMP"
        THEN LET s == sources[source]
             IN Source(s.progress - 1, s.max, MissionXp(db, char, source, s.progress - 1), s.maxXp)
        ELSE sources[source]]

GetMaxCharacterRank(db, char, time) ==
    LET sources == Sources(db, char, time)
        xp == SumFunction([s \in DOMAIN sources |-> sources[s].xp])
        maxXp == SumFunction([s \in DOMAIN sources |-> sources[s].maxXp])
        unearned == StampUnearned(GetRank(xp))
    IN [sources |-> IF unearned THEN WithoutStamp(db, sources, char) ELSE sources,
        xp |-> xp, maxXp |-> maxXp,
        rank |-> GetRank(IF unearned THEN xp - 1 ELSE xp), maxRank |-> GetRank(maxXp)]

GetMaxCharacterRanks(db, time) == [char \in Characters |-> GetMaxCharacterRank(db, char, time)]

\* The checks on the way: every character has items of every kind of area,
\* and the mission that turns their levels into XP.
ChecksHold(db) ==
    \A char \in Characters, type \in AreaItemMissions :
        GetValidAreaItemsForMission(db, char, type) # {} /\ HasMission(db, char, type)

\* The ranks depend on the database and the time alone.
RanksAt == [db \in {db \in Databases : ChecksHold(db)} |->
    [time \in Times |-> GetMaxCharacterRanks(db, time)]]

-----------------------------------------------------------------------------
RankInit == masterDb \in Databases /\ now = 0 /\ shown = NotShown

\* The clock.
Tick == now < LastTime /\ now' = now + 1 /\ UNCHANGED <<masterDb, shown>>

\* A check that fails ends the program.
Show(time) ==
    /\ shown # Aborted
    /\ shown' = IF ChecksHold(masterDb)
                THEN [time |-> time, ranks |-> RanksAt[masterDb][time]]
                ELSE Aborted

\* The page shows the ranks of now when the save data is read, and when no
\* time is given or the one given cannot be read.
OnSaveDataRead == Show(now) /\ UNCHANGED <<masterDb, now>>
RefreshMaxCr(time) == Show(time) /\ UNCHANGED <<masterDb, now>>

RankNext == Tick \/ OnSaveDataRead \/ \E time \in Times : RefreshMaxCr(time)

RankSpec == RankInit /\ [][RankNext]_rankVars

-----------------------------------------------------------------------------
RankTypeOK ==
    /\ masterDb \in Databases /\ now \in Times
    /\ \/ shown = NotShown
       \/ shown = Aborted /\ ~ChecksHold(masterDb)
       \/ /\ ChecksHold(masterDb)
          /\ \E time \in Times : shown = [time |-> time, ranks |-> RanksAt[masterDb][time]]

\* Nobody reaches rank 168 with the XP of the stamp that rank 168 gives: a
\* character shown at that rank or above has the XP for it without the stamp
\* (the adjustment at the end of GetMaxCharacterRank).
StampEarnsItself ==
    \A char \in DOMAIN shown.ranks :
        shown.ranks[char].rank.rank >= StampRank => shown.ranks[char].xp - 1 >= XpFor(StampRank)

\* Up to the sixth anniversary, from which on the program trusts the version
\* of its database, a character shown has no more from a source than its
\* maximum, but for the chapters of a world link round that started before
\* the release which the maximum of the round waits for (nothing in the code
\* or the database keeps them from it); and without such chapters the rank is
\* no higher than the maximal one.  The two tables of sources, one by dates
\* and chapters and one by versions, the steps of the missions and the stamp
\* that is taken off agree on this.
ByChapters == {"WORLD_LINK_2", "WORLD_LINK_3"}
CurrentWithinMax ==
    shown.time < Releases[kAnni6] =>
        \A char \in DOMAIN shown.ranks :
            LET r == shown.ranks[char]
                over == {s \in DOMAIN r.sources : r.sources[s].xp > r.sources[s].maxXp}
            IN /\ \A s \in over :
                    /\ s \in ByChapters
                    /\ GetAssetVersionAt(masterDb, shown.time) < Reward[s].version
               /\ over = {} => r.xp <= r.maxXp /\ r.rank.rank <= r.maxRank.rank

\* A later table never shows a lower rank, up to the sixth anniversary, from
\* which on the program also counts the challenge points anew.
RanksNeverFall ==
    [][0 <= shown.time /\ shown.time <= shown'.time /\ shown'.time < Releases[kAnni6]
        => \A char \in Characters :
            /\ shown.ranks[char].rank.rank <= shown'.ranks[char].rank.rank
            /\ shown.ranks[char].xp <= shown'.ranks[char].xp]_rankVars
=============================================================================
