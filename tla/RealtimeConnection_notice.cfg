SPECIFICATION RealtimeSpec
CONSTANTS
    MaxOwners = 1
    MaxAttempts = 0
INVARIANTS
    AuthFailureShown
CHECK_DEADLOCK FALSE
