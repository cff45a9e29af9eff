\* Two requests, one of which is sent again, and three sequence numbers.
CONSTANTS
    Request = {r1, r2}
    MaxExchanges = 4
    SeqLimit = 3
    NoRequest = NoRequest
SPECIFICATION Spec
CHECK_DEADLOCK FALSE
INVARIANTS
    TimerGuardsCurrent
    OwnAnswer
PROPERTY
    ImplementsContract
