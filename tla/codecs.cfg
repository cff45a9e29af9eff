\* Every class, at the limits of its fields, with replies cut short.
CONSTANTS
    Value <- LimitsOf
    Cut <- SomeCut
SPECIFICATION CodecsSpec
CHECK_DEADLOCK FALSE
INVARIANTS
    RequestArrives
    
