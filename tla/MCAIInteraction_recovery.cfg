SPECIFICATION Spec
CONSTANTS
    Prompts = {p1}
    Slots = 2
    LockTTL = 2
    HardLimit = 2
    MaxAttempts = 1
    MaxBusyRetries = 1
    BusyDelay = 1
    Budgets = {0, 1}
    TimeoutBudget = 1
    RetryDelays = {0, 1}
    MaxTime = 4
    MaxFaults = 1
    LastFault = 3
PROPERTY
    RecoveryFailsExpiredOnly
CHECK_DEADLOCK FALSE
