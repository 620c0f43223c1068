SPECIFICATION FairSpec
CONSTANTS
    Videos = {v1}
    Users = {captain}
    Captain = captain
    Slots = 2
    MaxPerUser = 1
    MaxPerTrip = 3
    MaxRecoveries = 1
    MaxRetries = 1
    StaleAfter = 1
    HardLimit = 1
    MaxTime = 5
    LastCrash = 3
    AmbiguousPublish = FALSE
    LateException = TRUE
CHECK_DEADLOCK FALSE
INVARIANTS
    OneLiveRender
PROPERTIES
    EventuallySettled
