SPECIFICATION TranscriptSpec
CONSTANTS
    MaxMessages = 1
    MaxChanges = 3
    PageSize = 1
    MaxPages = 1
INVARIANTS
    ContentConverges
CHECK_DEADLOCK FALSE
