SPECIFICATION FairSpec
CONSTANTS
    n1 = n1
    n2 = n2
    Networks <- MCNetworks
    Sections <- MCSections
    Batches <- ContractBatches
    BatchOf <- ContractBatchOf
    FatalKinds <- ContractFatal
    Limit = 2
PROPERTIES
    RefreshEnds
