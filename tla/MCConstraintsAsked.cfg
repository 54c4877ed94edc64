\* Pairs asked for before, or without, lead characters.
CONSTANTS
  MaxChar = 4
  TeamSize = 3
  Pool <- MCPool
  KizunaPairs <- MCPairs
  MinSkills = {0, 3}
  Rarities = {"low", "high"}
  MaxPairs = 2
  SkillIn <- MCSkillIn
SPECIFICATION Spec
INVARIANT AskedPairsHonoured
