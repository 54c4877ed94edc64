\* Every order of calls with up to two pairs kept, then any number of teams reordered.
CONSTANTS
  MaxChar = 4
  TeamSize = 3
  Pool <- MCPool
  KizunaPairs <- MCPairs
  MinSkills = {0, 3}
  Rarities = {"low", "high"}
  MaxPairs = 2
  SkillIn <- MCSkillIn
SPECIFICATION Spec
INVARIANTS
  AdmissibleHasLeader
  EmptyIsUnconstrained
  LeaderIsBest
  SubLeaderIsPartnerOnce
