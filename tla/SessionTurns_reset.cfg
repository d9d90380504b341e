SPECIFICATION Spec
CONSTANTS
  MaxActors = 4
  MaxPrompts = 2
  MaxSteers = 1
  MaxResults = 0
  MaxAborts = 1
  MaxCalls = 4
INVARIANT NoSecondRun
CHECK_DEADLOCK FALSE
