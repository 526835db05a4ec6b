SPECIFICATION FairSpec
CONSTANTS
    Closers = {c1, c2, c3}
    Handlers = {f}
    MaxInbox = 2
    MaxNotified = 2
INVARIANTS TypeOK DeathHasReason
PROPERTIES NoErrorAfterStop QuietAfterClose CloseEnds
CHECK_DEADLOCK FALSE
