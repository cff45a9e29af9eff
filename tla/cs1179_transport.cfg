\* Three exchanges of any of nine requests, with replies lost, late and run together.
CONSTANTS
    MaxExchanges = 3
    Requests <- SomeRequests
SPECIFICATION Spec
CHECK_DEADLOCK FALSE
INVARIANTS
    BlockedOnlyByFailures
    EndsOnce
    OwnReplies
PROPERTY
    ImplementsContract
