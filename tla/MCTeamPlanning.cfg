SPECIFICATION Spec
CONSTANTS
    TeamSize = 2
    CharUnit <- MCCharUnit
    Units = {"LN", "MMJ", "VS"}
    Attrs = {"cool", "cute"}
    CardTable <- MCCardTable
    SkillTable <- MCSkillTable
    MasterLessons <- MCMasterLessons
    CanvasBonus <- MCCanvasBonus
    Episodes <- MCEpisodes
    AreaItemLevels <- MCAreaItemLevels
    CharacterRanks <- MCCharacterRanks
    Fixtures <- MCFixtures
    GateLevels <- MCGateLevels
    Events <- MCEvents
    MasterRankRates <- MCMasterRankRates
    DiffAttrRates <- MCDiffAttrRates
    SupportTeamSize <- MCSupportTeamSize
    MaxTeamPower = 150
    Songs <- MCSongs
    SoloSongs <- MCSongs
    EbiSong <- MCEbiSong
    EpFactor <- MCEpFactor
    ThirdPartySkill = 180
    kMinSkillValue = 24
    kMaxSkillValue = 192
    kMaxEventBonus = 60
    kMaxScore = 9400
    kMaxBaseEventPoint = 400
    PowerBucket = 64
    EventBonusBucket = 16
    MySakiStep = 20
    SoloScoreStep = 200
    BoostMultipliers <- MCBoostMultipliers
    KizunaPairs <- MCKizunaPairs
    MinSkills = {0, 105}
    ChallengePoolLimit = 70
    Saved <- MCSaved
    OwnEdits = {2, 4, 785}
    NumberEdits <- MCNumberEdits
    FlagEdits <- MCFlagEdits
    EpisodeEdits <- MCEpisodeEdits
    AreaEdits <- MCAreaEdits
    RankEdits <- MCRankEdits
    TitleEdits = {7}
    FixtureEdits = {2}
    GateEdits <- MCGateEdits
    EventEdits <- MCEventEdits
    CustomAttrs = {"NONE", "cool"}
    CustomChars <- MCCustomChars
    CustomChapters = {4}
    CsvFiles <- MCCsvFiles
    Asked <- MCAsked
    NaiveAsked <- MCNaiveAsked
    Targets = {105, 525, 130}
    Accuracy = 95
    MaxEdits = 1
INVARIANTS
    MaxPowerIsMax
    SupportDeckIsBest
    TargetMeansEarnable
    SearchPremises
PROPERTY OffsetSettles
CHECK_DEADLOCK FALSE
