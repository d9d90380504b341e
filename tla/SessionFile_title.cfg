SPECIFICATION Spec
CONSTANTS
  MaxSessions = 1
  MaxEntries = 2
  MaxTasks = 2
  MaxEpoch = 1
  MaxCrashes = 0
INVARIANT RepairIsComplete
CHECK_DEADLOCK FALSE
