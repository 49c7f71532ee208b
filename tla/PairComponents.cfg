SPECIFICATION Spec
CONSTANTS
  M = 4
  N = 6
  Box = 2
  Families <- AllFamilies
  MaxTail = 2
  MaxTerms = 6
  MinPairs = 1
  MinGainPercent = 20
INVARIANTS RecoversFeasible NoBetterOptimumLost
CHECK_DEADLOCK FALSE
