\* Teams of three; early exits, the floor of the temperature and its rise within three steps.
CONSTANTS
  MaxChar = 4
  TeamSize = 3
  Pool <- MCPool
  KizunaPairs <- MCPairs
  MinSkills = {0, 6}
  Rarities = {"low", "high"}
  Objects <- MCObjects
  Objective <- MCObjective
  Estimate <- MCEstimate
  Single <- MCSingle
  SkillIn <- MCSkillIn
  MaxSteps = 3
  EarlyExitSteps = 1
  StepsBeforeCooling = 0
  HalfLife = 1
  InitialTemp = 50
  MinTemp = 30
  Exp <- MCExp
SPECIFICATION Spec
INVARIANTS
  HeldTeamsSatisfyConstraints
  AnswerKeepsCharacters
  AnswerIfAny
  BestIsBestSeen
PROPERTY RepeatsOnlyFromStart
