SPECIFICATION FairSpec
CONSTANTS
    n1 = n1
    n2 = n2
    Networks <- MCNetworks
    Sections <- MCSections
    Batches <- MCSections
    BatchOf <- CoordinatorBatchOf
    FatalKinds <- CoordinatorFatal
    Limit = 2
INVARIANTS
    ConcurrencyBounded
    NothingOutlivesRefresh
    ResultIsHonest
PROPERTIES
    StopsSending
    RefreshEnds
