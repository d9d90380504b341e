SPECIFICATION LateSpec
CONSTANT N = 2
INVARIANT FinishedKeepsResult
CHECK_DEADLOCK FALSE
