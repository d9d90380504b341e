SPECIFICATION FairSpec
CONSTANTS
  MaxActors = 4
  MaxPrompts = 2
  MaxSteers = 1
  MaxResults = 1
  MaxAborts = 2
  MaxCalls = 4
INVARIANTS TypeOK OneRunAtATime RunIsKnown
PROPERTIES EndMeansIdle  AbortReturns
CHECK_DEADLOCK FALSE
