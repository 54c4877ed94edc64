\* The table for targets up to 10, annealing above.
CONSTANTS
  Requests <- MCRequests
  MaxTarget = 14
  Boosts <- MCBoosts
  ExhaustiveLimit = 10
  MaxSteps = 7
  EarlyExitSteps = 3
SPECIFICATION Spec
INVARIANTS
  TableIsShortest
  AnswerIsRight
  BestIsBestSeen
  TurnsEarnTarget
