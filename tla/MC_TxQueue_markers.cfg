CONSTANTS
    s1 = s1 s2 = s2 p1 = p1 p2 = p2 pz = pz pl = pl
    Senders = {s1, s2}
    Packets = {p1}
    PacketId <- McIds
    LocalPackets <- McLocal
    ForeignIds <- McForeignIds
    NoPacket = NoPacket
    Acked = Acked
    Absent = Absent
    MaxLen = 1
    MaxTombstones = 1
    AgingIds = {1}
    MaxCalls = 2
    MaxReplies = 2
SPECIFICATION FairSpec
INVARIANTS SlotAccounting
PROPERTIES EarlyAckPinned EveryCallReturns
CHECK_DEADLOCK FALSE
