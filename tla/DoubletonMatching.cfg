SPECIFICATION Spec
CONSTANTS
  M = 4
  N = 4
  MatchingRounds = 4
  Candidates <- Chains
INVARIANTS PivotsDisjoint TakesTheMatching LeavesNoFreeRow
