SPECIFICATION FairSpec
CONSTANTS
  MaxJobs = 2
  Ids = {1,2}
  MaxRunning = 2
  Slots = {s1, s2}
  MaxCalls = 2
  MaxFails = 1
  s1 = s1
  s2 = s2
INVARIANTS RunningIsListed
PROPERTIES NoEcho EventuallyTold
CHECK_DEADLOCK FALSE
