CONSTANTS
    a = a b = b c = c d = d w1 = w1 w2 = w2 l1 = l1 l2 = l2
    Interfaces = {a, b}
    Nobody = nobody
    Ages = TRUE
    MaxConnects = 2
    Locks = {l1, l2}
    Callers = {c, d}
    Workers = {w1, w2}
    NoWorker = noworker
    MaxOwners = 3
    MaxCalls = 3
    MaxReceivers = 3
    MaxClients = 2
    MaxFails = 1
    AutoReconnect = TRUE
    Main = main
    Helper = helper
SPECIFICATION Spec4
SYMMETRY CallerSymmetry
CHECK_DEADLOCK FALSE
INVARIANTS OneLockHolder PairArbitrated NothingLeft OneOwner NoLostFuture LiveIsTracked ReceiverRemains
PROPERTIES StopTrueMeansGone
