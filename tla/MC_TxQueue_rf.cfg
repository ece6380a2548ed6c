CONSTANTS
    s1 = s1 s2 = s2 p1 = p1 p2 = p2 pz = pz pl = pl
    Senders = {s1, s2}
    Packets = {p1, pz, pl}
    PacketId <- McIds
    LocalPackets <- McLocal
    ForeignIds <- McNoIds
    NoPacket = NoPacket
    Acked = Acked
    Absent = Absent
    MaxLen = 1
    MaxTombstones = 1
    AgingIds = {}
    MaxCalls = 2
    MaxReplies = 1
SPECIFICATION Spec
SYMMETRY SenderSymmetry
CHECK_DEADLOCK FALSE
INVARIANTS ClaimsExact NothingLost
