SPECIFICATION Spec
CONSTANTS
    static = static
    coldstaking = coldstaking
    Fork = {static, coldstaking}
    Versions <- StaticFirst
    CycleLength = 3
    VotingLength = 3
    Quorum = 2
    ReindexSize = 2
    BatchSize = 2
    FinalHeight = 5
    MaxHeight = 11
    MaxKills = 1
INVARIANTS
    TypeOK
    LockInIsEarned
    CountsAreReal
    StoredStateMatches
PROPERTIES
    RewindReplays
CHECK_DEADLOCK FALSE
