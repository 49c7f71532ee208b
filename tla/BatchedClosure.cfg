SPECIFICATION Spec
CONSTANTS
  M = 2
  N = 3
  Box = 3
  MaxCostDegree = 1
  Largest = 2
  Families <- SmallFamilies
INVARIANTS StatsAreLive CandidatesComplete RecoversFeasible NoBetterPointLost VerdictIsRight RoundsShrink
CHECK_DEADLOCK FALSE
