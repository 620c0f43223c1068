SPECIFICATION BackendSpec
CONSTANTS
    Prompts = {p1, p2}
    Slots = 2
    LockTTL = 2
    HardLimit = 2
    MaxAttempts = 1
    MaxBusyRetries = 1
    BusyDelay = 1
    Budgets = {0, 1}
    TimeoutBudget = 1
    RetryDelays = {1}
    MaxTime = 3
    MaxFaults = 1
    LastFault = 3
    MaxBodies = 2
    MaxMoves = 1
    MaxNews = 1
    Users = {1, 2, 3}
    Ids = {1, 2}
    Servers = {w1, w2, w3}
    FriendLimit = 1
    MaxPosts = 2
    MaxSwitches = 3
    Capacity = 2
SYMMETRY Symmetry
INVARIANTS
    OneAnswer
    OneActivePrompt
    OneWorker
    DraftsAttached
    ExecutedAsReviewed
    NoBlindConfirm
    CardSettles
    FriendsSound
    NoWaitCycle
    GatewaySound
CHECK_DEADLOCK FALSE
