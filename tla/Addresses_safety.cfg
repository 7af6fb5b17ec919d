SPECIFICATION Spec
CONSTANTS
    a = a
    b = b
    m = m
    Address = {a, b}
    MultiSig = {m}
    Blocks <- SomeBlocks
    MaxTxs = 2
    BatchSize = 2
    ReindexSize = 2
    Targets <- Both
    MayFlush = FALSE
    LagSites <- NoLag
    FinalHeight = 3
    MaxHeight = 6
    MaxKills = 1
INVARIANTS
    TypeOK
    HistoryIsComplete
    AddressIsLatest
    MultiSigBalance
PROPERTIES
    AddressIndexComplete
    AddressesAreReset
CHECK_DEADLOCK FALSE
