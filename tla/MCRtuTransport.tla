--------------------------- MODULE MCRtuTransport ---------------------------
(***************************************************************************)
(* RtuTransport with two requests alike and one of another unit.           *)
(***************************************************************************)
EXTENDS RtuTransport

TwoUnits == <<1, 1, 2>>

=============================================================================
