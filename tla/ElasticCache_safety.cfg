SPECIFICATION FairSpec
CONSTANTS
    a = a
    b = b
    c = c
    Slug = {a, b, c}
    Height <- SomeHeights
    PartSize = 2
    SaveAttempts = 3
    Expiration = 2
    MaxContent = 3
INVARIANTS
    TypeOK
    NothingIsLost
    UpdatesFindTheirDocument
PROPERTIES
    NewestWins
    CallsReturn
CHECK_DEADLOCK FALSE
