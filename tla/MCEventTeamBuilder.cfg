\* Two workers, blocks of one team, pruning before every character set, a queue of two, the low
\* rarity card dropped from a pool of more than four; every thread fair.
CONSTANTS
  TeamSize = 2
  NumChars = 3
  Cards = {1, 2, 3, 4, 5}
  CharOf <- MCCharOf
  LowRarity <- MCLowRarity
  SkipLowValThresh = 4
  Problems <- MCProblems
  Workers = {w1, w2}
  NoWorker = NoWorker
  BlockSize = 1
  PruneEvery = 1
  QueueHigh = 2
  QueueLow = 0
  Values <- TwoValues
  MinEps = {0, 3}
  Bucket = 4
SPECIFICATION FairSpec
INVARIANTS
  ScannedCardsInPools
  QueueBounded
  BestIsAttained
  AnswerBeatsAll
  ProgressConserved
PROPERTIES
  IsTeamSearch
  Termination
