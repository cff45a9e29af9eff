\* Every choice of the options, with delays of up to three units.
CONSTANTS
    MaxDelay = 3
    MaxOrphans = 2
    Off = Off
SPECIFICATION ConnectionSpec
CHECK_DEADLOCK FALSE
INVARIANTS
    FlagsMatchSocket
    TimersEndBeforeNextOpens
    NoFlood
PROPERTIES
    CloseIsFinal
    KeepsConnecting
