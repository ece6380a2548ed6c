CONSTANTS
    a = a b = b h = h
    Callers = {a}
    Handlers = {h}
    Worker = worker
    NoClient = none
    AutoReconnect = TRUE
    HeartbeatFails = TRUE
    MaxClients = 2
    MaxCalls = 2
SPECIFICATION FairSpec
CHECK_DEADLOCK FALSE
INVARIANTS NothingLeftBehind ClosedHasNoClient
PROPERTIES LiveClientKept EveryThreadEnds
