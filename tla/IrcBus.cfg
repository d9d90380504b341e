SPECIFICATION FairSpec
CONSTANTS
    Callers = {c1, c2, c3}
    Chatters = {c1}
    MaxSessions = 3
    MaxReleases = 2
    MailboxCap = 1
INVARIANTS TypeOK OneWriter
PROPERTIES  IdleIsParked AwaitHearsReply
CHECK_DEADLOCK FALSE
