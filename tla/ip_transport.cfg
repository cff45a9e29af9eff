\* Three exchanges and two identifiers, so that the third reuses the first's.
CONSTANTS
    MaxExchanges = 3
    IdLimit = 2
    HeaderLength = 2
    BodyLength = 1
SPECIFICATION Spec
CHECK_DEADLOCK FALSE
INVARIANTS
    OpenIsRegistered
    OwnAnswer
PROPERTY
    ImplementsContract
