SPECIFICATION FairSpec
CONSTANTS
    Prompts = {p1}
    Slots = 2
    LockTTL = 2
    HardLimit = 3
    MaxAttempts = 1
    MaxBusyRetries = 1
    BusyDelay = 1
    Budgets = {0, 1}
    TimeoutBudget = 1
    RetryDelays = {0}
    MaxTime = 5
    MaxFaults = 2
    LastFault = 1
PROPERTIES
    EveryPromptAnswered
CHECK_DEADLOCK FALSE
