SPECIFICATION RankSpec
CONSTANTS
    Databases <- MCDatabases
    Characters <- MCCharacters
    Releases <- MCReleases
    Birthday <- MCBirthday
    RankXp <- MCRankXp
    LastTime = 20
    Day = 2
    Reset4 = 6
    Reset6 = 17
    Year = 8
    Cap4 = 2
    Cap6 = 4
    ExPoints = 5
    PerDay4 = 8
    PerDay6 = 9
    RankXpIncrement = 4
    MaxRank = 30
    StampRank = 20
    MasterRankMax = 5
    SkillLevelMax = 4
INVARIANTS StampEarnsItself CurrentWithinMax
PROPERTY RanksNeverFall
\* A check that fails ends the program.
CHECK_DEADLOCK FALSE
