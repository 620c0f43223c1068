SPECIFICATION ClientSpec
CONSTANTS
    SignIns = {s1, s2}
    Callers = {c1, c2}
    MaxTokens = 4
    MaxRestarts = 1
    MaxWriteFailures = 1
    MaxOwners = 2
    MaxAttempts = 1
    MaxSubscribes = 2
    MaxEpochs = 2
    MaxQueue = 3
    MaxMessages = 2
    MaxChanges = 2
    PageSize = 1
    MaxPages = 2
    MaxPicked = 4
    Unreadable = {2}
    BatchFiles = 2
    Before = 1
    MaxNotes = 2
    Invitations = {1}
    NotesPerPage = 1
    MaxMoves = 3
    Tabs = {c1, c2}
    Slots = {1, 2}
    MaxLoads = 2
    MaxAsks = 1
    MaxGivenUp = 1
SYMMETRY Symmetry
INVARIANTS
    ClientTypeOK
    HandoffIsComplete
    DurableAgrees
    FreshOnTheWire
    ConnectionSound
    SubscriptionSound
    TranscriptConverges
    UploadSound
    InboxSound
    WebSound
PROPERTIES
    ReplayStaysInSession
    FeedIsKept
    ClientSteady
CHECK_DEADLOCK FALSE
