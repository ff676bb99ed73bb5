SPECIFICATION FairSpec
CONSTANTS
    n1 = n1
    r1 = r1
    r2 = r2
    Networks <- OneNetwork
    Resources <- OneResource
    NetworkOf <- ItsNetwork
    Keys = {"enabled"}
    RelinkTargets <- Anywhere
    Threshold = 2
    Elsewhere = Elsewhere
    NoEntity = NoEntity
    Omitted = Omitted
    Unknown = Unknown
INVARIANTS
    NoOrphans
PROPERTIES
    RemovalIsExclusive
    StaleIsRemoved
