SPECIFICATION Spec
CONSTANTS
  M = 2
  N = 3
  Box = 2
  MaxCostDegree = 2
  MaxFill = 2
  Matrices <- TwoRows
  ColumnKinds <- FewColumns
  RowKinds <- FewRows
INVARIANT AnyRowsAreExact
CHECK_DEADLOCK FALSE
