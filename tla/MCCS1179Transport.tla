-------------------------- MODULE MCCS1179Transport --------------------------
(***************************************************************************)
(* CS1179Transport with requests that cross from RAM to the shadowed       *)
(* EEPROM and out of the banks, a command, the reset and an unknown        *)
(* function.                                                               *)
(***************************************************************************)
EXTENDS CS1179Transport

Of(code, address, count) == [code |-> code, address |-> address, count |-> count, reset |-> FALSE]

SomeRequests == {
    Of(MB_READ_MEMORY, 511, 2),          \* RAM, then shadowed
    Of(MB_READ_MEMORY, 1023, 2),         \* EEPROM, then out of range
    Of(MB_WRITE_MEMORY, 623, 2),         \* shadowed, then invalid
    Of(MB_WRITE_MEMORY_VERIFY, 1022, 3), \* EEPROM, then out of range
    Of(MB_WRITE_MEMORY_VERIFY, 255, 1),  \* RAM: a plain write
    Of(MB_SLAVEID, 0, 0),
    Of(MB_COMMAND, 0, 0),
    [Of(MB_COMMAND, 0, 0) EXCEPT !.reset = TRUE],
    Of(3, 0, 1) }                        \* an unknown function

=============================================================================
