SPECIFICATION Spec
CONSTANTS
  M = 3
  N = 4
  Box = 3
  MaxCostDegree = 2
  MaxFill = 2
  Collide = TRUE
  AllowOneSided = TRUE
  KeepFree = TRUE
  MaxRounds = 4
  MaxBoundOnly = 2
  MatchingRounds = 8
  MaxBatches = 2
  MinSelected = 1
  MinPercent = 40
  SinglePhase = FALSE
  TimeLimit = TRUE
  Families <- AllFamilies
INVARIANTS RecoversPoint NoOptimumLost VerdictIsRight FreeStaysFree RecoversDuals
PROPERTIES SamePoints SupportRowsImply BatchesShrink
CHECK_DEADLOCK FALSE
