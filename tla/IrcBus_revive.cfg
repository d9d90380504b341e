SPECIFICATION Spec
CONSTANTS
    Callers = {c1, c2}
    Chatters = {c1, c2}
    MaxSessions = 2
    MaxReleases = 1
    MailboxCap = 1
PROPERTIES RemovedOnlyByTeardown
CHECK_DEADLOCK FALSE
