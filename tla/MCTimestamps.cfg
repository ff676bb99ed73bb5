SPECIFICATION MCSpec
CONSTANTS
    t1 = t1
    t2 = t2
    dawn = dawn
    unreadable = unreadable
    Absent = Absent
    Null = Null
    Malformed = Malformed
    Blank = Blank
    None = None
    Unavailable = Unavailable
    NoDevice = NoDevice
    Slashed = {"n/2"}
    Texts <- MCTexts
    Times <- MCTimes
    Unrepresentable <- MCUnrepresentable
    PeerIds = {"p1", "p2"}
    NetworkIds = {"n1", "n2", "n/2"}
    ResourceIds = {"r1", "r2"}
    PeerReplies <- MCPeerReplies
    TopologyReplies <- MCTopologyReplies
INVARIANTS
    InvalidTimestampIsUnknown
