-------------------------- MODULE MCAsciiTransport --------------------------
(***************************************************************************)
(* AsciiTransport with two requests alike and one of another unit, and     *)
(* answers that are whole, lose their colon, their CR, their LF or their   *)
(* end, or never come.                                                     *)
(***************************************************************************)
EXTENDS AsciiTransport

TwoUnits == <<1, 1, 2>>
AnyLoss == {<<1, 2, 3, 4>>, <<2, 3, 4>>, <<1, 2, 4>>, <<1, 2, 3>>, <<1, 2>>, <<>>}

=============================================================================
