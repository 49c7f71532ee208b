SPECIFICATION Spec
CONSTANTS
  M = 2
  N = 4
  Box = 4
  MaxCostDegree = 2
  Largest = 2
  Families <- CascadeFamilies
INVARIANTS OneCompactionRecovers
CHECK_DEADLOCK FALSE
