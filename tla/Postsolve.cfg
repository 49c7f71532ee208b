SPECIFICATION PSpec
CONSTANTS
  M0 = 2
  N0 = 3
  MaxPlans = 2
  MaxRecords = 1
  MaxSupport = 1
INVARIANTS RecordAccepted MapsMatchLp RecoversSolution LastInFirstOut
PROPERTIES ImplementsUndoLog RowsRenamed PostsolveEnds
CHECK_DEADLOCK FALSE
