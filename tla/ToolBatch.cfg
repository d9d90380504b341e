SPECIFICATION MCSpec
CONSTANT N = 3
INVARIANTS TypeOK OneResultPerCall ExclusiveIsolation ConflictsInOrder PeerSparesForeground
PROPERTIES NoExecuteAfterAbort AbortEndsBatch QueuedEndsBatch
CHECK_DEADLOCK FALSE
