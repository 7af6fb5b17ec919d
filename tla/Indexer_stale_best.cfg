SPECIFICATION Spec
CONSTANTS
    ReindexSize = 2
    BulkIndexSize = 2
    RewindToHeight = 0
    BulkTargetHeight = 0
    BulkIndex = {TRUE, FALSE}
    LagSites <- CheckLag
    WordSize = 16
    Mark = {0, 1, 2}
    InitHeight = 4
    MaxHeight = 6
    MaxReorgs = 2
    MaxReorgDepth = 3
    BranchesReturn = TRUE
    MaxCrashes = 2
PROPERTIES
    RewoundToHeight
CHECK_DEADLOCK FALSE
