SPECIFICATION Spec
CONSTANTS
    ReindexSize = 2
    BulkIndexSize = 2
    RewindToHeight = 0
    BulkTargetHeight = 0
    BulkIndex = {TRUE, FALSE}
    LagSites <- WriteLag
    WordSize = 16
    Mark = {0, 1, 2}
    InitHeight = 1
    MaxHeight = 6
    MaxReorgs = 2
    MaxReorgDepth = 3
    BranchesReturn = TRUE
    MaxCrashes = 2
INVARIANTS
    TypeOK
    AlwaysAnchored
    IdleIndexIsOneChain
    IdleLastIsTop
    IndexInv
PROPERTIES
    RepairedBeforeGrowing
    RewoundToHeight
    RewindLeavesChain
    BulkIndexComplete
CHECK_DEADLOCK FALSE
