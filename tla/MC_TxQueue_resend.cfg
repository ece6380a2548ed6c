CONSTANTS
    s1 = s1 s2 = s2 p1 = p1 p2 = p2 pz = pz pl = pl
    Senders = {s1, s2}
    Packets = {p1, p2}
    PacketId <- McIds
    LocalPackets <- McLocal
    ForeignIds <- McNoIds
    NoPacket = NoPacket
    Acked = Acked
    Absent = Absent
    MaxLen = 1
    MaxTombstones = 1
    AgingIds = {}
    MaxCalls = 3
    MaxReplies = 2
SPECIFICATION Spec
PROPERTY AckedNotResent
CHECK_DEADLOCK FALSE
