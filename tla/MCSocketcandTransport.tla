------------------------ MODULE MCSocketcandTransport ------------------------
(***************************************************************************)
(* SocketcandTransport with a read of the motor controller, a read of the  *)
(* communication processor, a write, a command and an unknown function.    *)
(***************************************************************************)
EXTENDS SocketcandTransport, TLC

CONSTANTS motor, comm, write, command, other

Of(code, address, count) == [code |-> code, address |-> address, count |-> count]

Requests ==
    motor :> Of(READ, 600, 3) @@ comm :> Of(READ, 1030, 2) @@ write :> Of(WRITE, 20, 2)
        @@ command :> Of(COMMAND, 0, 1) @@ other :> Of(3, 0, 1)

=============================================================================
