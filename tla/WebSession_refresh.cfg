SPECIFICATION WebSpec
CONSTANTS
    Tabs = {t1}
    Slots = {1, 2}
    MaxLoads = 1
    MaxAsks = 1
    MaxGivenUp = 0
INVARIANT
    RefreshIsTransparent
CHECK_DEADLOCK FALSE
