SPECIFICATION Spec
CONSTANTS
    n1 = n1
    r1 = r1
    r2 = r2
    Networks <- OneNetwork
    Resources <- TwoResources
    NetworkOf <- SameNetwork
    Keys = {"enabled"}
    RelinkTargets <- Nowhere
    Threshold = 3
    Elsewhere = Elsewhere
    NoEntity = NoEntity
    Omitted = Omitted
    Unknown = Unknown
SYMMETRY ResourceSymmetry
INVARIANTS
    CountsAreEarned
    TrackingMatchesRegistry
    DiscoveryComplete
PROPERTIES
    RemovalIsEarned
    NetworksKeepRetentionPromise
