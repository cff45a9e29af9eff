\* Three exchanges of any of five transactions, each of which may be sent again.
CONSTANTS
    motor = motor
    comm = comm
    write = write
    command = command
    other = other
    Transaction = {motor, comm, write, command, other}
    Request <- Requests
    MaxExchanges = 3
    MaxResends = 2
SPECIFICATION Spec
CHECK_DEADLOCK FALSE
INVARIANTS
    TimersFollowEntry
    MotorMemoryInOrder
    OtherMemoryOnQuietBus
PROPERTY
    ImplementsContract
