\* Three exchanges with two units, and one message of each that nobody asked for.
CONSTANTS
    Unit = {u1, u2}
    MaxExchanges = 3
    MaxUnasked = 1
SPECIFICATION Spec
CHECK_DEADLOCK FALSE
INVARIANTS
    OpenIsTimed
    AloneIsServed
PROPERTY
    ImplementsContract
