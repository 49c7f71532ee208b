SPECIFICATION Spec
CONSTANTS
  M = 4
  N = 5
  Box = 2
  Families <- FixedRootFamilies
  MaxTail = 2
  MaxTerms = 6
  MinPairs = 1
  MinGainPercent = 20
INVARIANTS RecoversFeasible
CHECK_DEADLOCK FALSE
