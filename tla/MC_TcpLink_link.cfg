CONSTANTS
    a = a
    b = b
    Reader = reader
    NoSocket = NoSocket
    Callers = {a, b}
    MaxAttempts = 2
    MaxHandles = 3
    MaxCalls = 2
SPECIFICATION FairSpec
CHECK_DEADLOCK FALSE
INVARIANTS OneDialer ClosedLinkHasNoSocket NoSocketLeaks
PROPERTIES OwnershipKept EveryThreadEnds
