CONSTANTS
    MaxReceivers = 2
    MaxClients = 2
    MaxFails = 0
    AutoReconnect = FALSE
    Main = main
    Helper = helper
SPECIFICATION Spec
CHECK_DEADLOCK FALSE
INVARIANTS ReconnectedReceives
