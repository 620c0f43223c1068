SPECIFICATION AppFairSpec
CONSTANTS
    SignIns = {s1}
    Callers = {}
    MaxTokens = 3
    MaxRestarts = 1
    MaxWriteFailures = 0
    Downloads = {d1}
    Uploads = {u1}
    MaxToggles = 1
INVARIANTS
    GateIsClean
    RevokeIsQuiet
PROPERTY
    SessionSettles
CHECK_DEADLOCK FALSE
