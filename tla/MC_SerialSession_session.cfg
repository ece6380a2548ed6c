CONSTANTS
    a = a b = b p1 = p1 p2 = p2 p3 = p3
    Callers = {a, b}
    Ports = {p1, p2}
    First = p1
    None = none
    MaxCalls = 1
    MaxTries = 2
    MaxBeats = 1
SPECIFICATION FairSpec
CHECK_DEADLOCK FALSE
INVARIANTS CloseIsFinal
PROPERTIES SuccessMeansConfigured EstablishedOnce CallsReturn
