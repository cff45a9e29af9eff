\* Three exchanges, answers in chunks of any size, late and with characters lost.
CONSTANTS
    MaxExchanges = 3
    Header <- TwoUnits
    Deliveries <- AnyLoss
SPECIFICATION Spec
CHECK_DEADLOCK FALSE
INVARIANTS
    ReaderFollowsFrame
    InStepOnQuietLine
PROPERTY
    ImplementsContract
