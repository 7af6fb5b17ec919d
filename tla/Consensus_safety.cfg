SPECIFICATION Spec
CONSTANTS
    c1 = c1
    c2 = c2
    SoftForkBlockCycle = 20160
    ReindexSize = 2
    MaxHeight = 4
    InitHeight = 3
    Consultation = {c1, c2}
    ParameterOf <- Parameters
    Answer <- Answers
    CreatedAt <- Creation
INVARIANTS
    TypeOK
    CycleLengthKnown
    CacheIsStored
    RewindCompletes
CHECK_DEADLOCK FALSE
