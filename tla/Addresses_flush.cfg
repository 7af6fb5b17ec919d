SPECIFICATION Spec
CONSTANTS
    a = a
    b = b
    m = m
    Address = {a, b}
    MultiSig = {m}
    Blocks <- SomeBlocks
    MaxTxs = 2
    BatchSize = 2
    ReindexSize = 2
    Targets <- BulkRun
    MayFlush = TRUE
    LagSites <- NoLag
    FinalHeight = 3
    MaxHeight = 5
    MaxKills = 1
PROPERTIES
    AddressIndexComplete
CHECK_DEADLOCK FALSE
