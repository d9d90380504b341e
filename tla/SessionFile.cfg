SPECIFICATION FairSpec
CONSTANTS
  MaxSessions = 2
  MaxEntries = 2
  MaxTasks = 2
  MaxEpoch = 2
  MaxCrashes = 1
INVARIANTS TypeOK WriterAttached CurrentIsComplete
PROPERTIES JournalIsKept BarrierSaves EventuallySaved
CHECK_DEADLOCK FALSE
