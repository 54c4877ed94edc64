\* The minimal leader skill is checked before the versions are chosen.
CONSTANTS
  MaxChar = 4
  TeamSize = 3
  Pool <- MCPool
  KizunaPairs <- MCPairs
  MinSkills = {0, 6}
  Rarities = {"low", "high"}
  Objects <- MCObjects
  Objective <- MCObjective
  Estimate <- MCEstimate
  Single <- MCSingle
  SkillIn <- MCSkillIn
  MaxSteps = 3
  EarlyExitSteps = 1
  StepsBeforeCooling = 0
  HalfLife = 1
  InitialTemp = 50
  MinTemp = 30
  Exp <- MCExp
SPECIFICATION Spec
INVARIANT AnswerReachesMinSkill
