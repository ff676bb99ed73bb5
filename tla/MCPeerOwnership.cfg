SPECIFICATION FairSpec
CONSTANTS
    p1 = p1
    p2 = p2
    other = other
    Peers <- MCPeers
    RequiredKeys = {"connected"}
    OptionalKeys <- NoKeys
    OtherDevices = {other}
    RelinkTargets <- MCRelinkTargets
    Threshold = 2
    NoDevice = NoDevice
    NoEntity = NoEntity
    Omitted = Omitted
INVARIANTS
    RegistryConsistent
    RepairsFollowCleanups
    TrackingMatchesRegistry
PROPERTIES
    RemovalIsExclusive
    StaleIsResolved
