SPECIFICATION FairSpec
CONSTANTS
  MaxActors = 4
  MaxPrompts = 1
  MaxSteers = 0
  MaxResults = 1
  MaxAborts = 0
  MaxCalls = 2
CHECK_DEADLOCK FALSE
PROPERTY ResultsArrive
