SPECIFICATION PairSpec
CONSTANTS
    Callers = {c1, c2, getter, writer}
    c1 = c1
    c2 = c2
    getter = getter
    writer = writer
    nak = nak
    trace = trace
    Attrs <- MCAttrs
    Nak = nak
    Ids = {1, 2}
    Kind <- KindPairs
    AttrOf <- AttrPairs
    InCommand = {}
    Replies <- RepliesPairs
    MaxCalls = 2
    Unscoped = Unscoped
    NoHandler = NoHandler
    NoPacket = NoPacket
SYMMETRY CallerSymmetry
CHECK_DEADLOCK FALSE
INVARIANTS OneOwnerPerId OutcomesAreActive UnscopedUntouched GetterCanComplete
PROPERTIES OutcomesComeFromOwnReply
