SPECIFICATION Spec
CONSTANT N0 = 4
INVARIANTS MapMatchesLp NeverThrows FixedExactlyOnce
CHECK_DEADLOCK FALSE
