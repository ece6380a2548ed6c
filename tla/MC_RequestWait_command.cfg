SPECIFICATION FairSpec
CONSTANTS
    Callers = {c1, c2}
    c1 = c1
    c2 = c2
    getter = getter
    writer = writer
    nak = nak
    trace = trace
    Attrs <- MCAttrs
    Nak = nak
    Ids = {1, 2}
    Kind <- KindTY
    AttrOf <- AttrTY
    InCommand = {c1, c2}
    Replies <- RepliesTY
    MaxCalls = 1
    Unscoped = Unscoped
    NoHandler = NoHandler
    NoPacket = NoPacket
CHECK_DEADLOCK FALSE
INVARIANTS NoHandlerAfterCommand
PROPERTIES ErrorIsReported
