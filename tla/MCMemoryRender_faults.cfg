SPECIFICATION SafetySpec
CONSTANTS
    Videos = {v1, v2}
    Users = {captain, member}
    Captain = captain
    Slots = 2
    MaxPerUser = 1
    MaxPerTrip = 2
    MaxRecoveries = 1
    MaxRetries = 1
    StaleAfter = 1
    HardLimit = 3
    MaxTime = 4
    PairTime = 3
    LastCrash = 4
    AmbiguousPublish = TRUE
    LateException = FALSE
SYMMETRY Symmetry
CHECK_DEADLOCK FALSE
INVARIANTS
    ClaimsAreDistinct
    LoserSparesWinner
    RowFilesStored
PROPERTIES
    ReadyIsFinal
    PublicStays
