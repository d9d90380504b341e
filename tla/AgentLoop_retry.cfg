SPECIFICATION Spec
CONSTANTS
  Sends = 1
  Requirements = {}
  MaxPaused = 0
  MaxEscalations = 1
  MaxLeaks = 1
INVARIANTS RetriedTurnIsAnswered
CHECK_DEADLOCK FALSE
