SPECIFICATION Spec
CONSTANTS
  M = 1
  N = 2
  Box = 4
  MaxCostDegree = 1
  Largest = 2
  Families <- OneRowFamilies
INVARIANTS RecoversFinite
CHECK_DEADLOCK FALSE
