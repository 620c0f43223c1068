SPECIFICATION Spec
CONSTANTS
    Videos = {v1}
    Users = {captain}
    Captain = captain
    Slots = 1
    MaxPerUser = 1
    MaxPerTrip = 3
    MaxRecoveries = 1
    MaxRetries = 1
    StaleAfter = 1
    HardLimit = 3
    MaxTime = 3
    LastCrash = 1
    AmbiguousPublish = FALSE
    LateException = TRUE
CHECK_DEADLOCK FALSE
INVARIANTS
    RowFilesStored
