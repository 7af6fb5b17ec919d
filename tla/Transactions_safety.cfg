SPECIFICATION Spec
CONSTANTS
    Tx <- Names
    Raw <- SomeTxs
    Address <- People
    WordSize = 64
    CycleSize = 3
    PrivateHeight = 3
    PrivateSupply = 7
    Blocks <- SomeBlocks
    FinalHeight = 2
    BatchSize = 2
    ReindexSize = 2
    Targets <- SomeTargets
    Lags <- BothLags
    MaxKills = 1
INVARIANTS
    TypeOK
    TransactionsMatchChain
    SpentIsMarked
    UpdatesFindTheirDocument
    FeeGoesToStaker
    SupplyIsUnspent
    PrivateSupplyIsHidden
    MoneyIsConserved
    BlockCycleFollowsHeight
CHECK_DEADLOCK FALSE
