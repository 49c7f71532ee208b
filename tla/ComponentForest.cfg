SPECIFICATION LiveSpec
CONSTANTS
  PairCount = 4
  EdgeCount = 3
INVARIANTS ForestDescends RootsAreComponents
PROPERTIES OnlyMerges Finishes
