SPECIFICATION Spec
CONSTANTS
  Schedulers = {"TieredMain", "FixedMain"}
  Bootstraps = TRUE
  SingleBatch = FALSE
  EnabledRules <- AllRules
  MaxIters = 5
  MaxRounds = 3
  MaxBoundOnly = 2
  MaxNnz = 1
  ClosureNnz = 1
  MaxCommits = 3
INVARIANTS StopsAtFixpoint FalseMeansUnchanged CleanMeansQuiet OneLateCommit FastNeverEnds
PROPERTIES VerdictIsFinal Ends
CHECK_DEADLOCK FALSE
