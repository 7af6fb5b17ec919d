SPECIFICATION Spec
CONSTANTS
    static = static
    coldstaking = coldstaking
    Fork = {static}
    Versions <- StaticOnly
    CycleLength = 3
    VotingLength = 3
    Quorum = 2
    ReindexSize = 2
    BatchSize = 2
    FinalHeight = 5
    MaxHeight = 12
    MaxKills = 1
PROPERTIES
    AllSignalsCounted
CHECK_DEADLOCK FALSE
