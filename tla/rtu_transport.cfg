\* Three exchanges of two chunks and more, with late and damaged answers.
CONSTANTS
    MaxExchanges = 3
    Header <- TwoUnits
    FrameLength = 3
    MinFrameLength = 2
SPECIFICATION Spec
CHECK_DEADLOCK FALSE
INVARIANTS
    TimersGuardTransaction
    InStepOnQuietLine
PROPERTY
    ImplementsContract
