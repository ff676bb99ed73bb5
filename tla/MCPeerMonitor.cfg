SPECIFICATION Spec
CONSTANTS
    p1 = p1
    p2 = p2
    other = other
    Peers <- MCPeers
    RequiredKeys = {"connected"}
    OptionalKeys = {"hostname"}
    OtherDevices = {other}
    RelinkTargets = {}
    Threshold = 3
    NoDevice = NoDevice
    NoEntity = NoEntity
    Omitted = Omitted
SYMMETRY Symmetry
INVARIANTS
    CountsAreEarned
    DiscoveryComplete
PROPERTIES
    RemovalIsEarned
    KeepsRetentionPromise
