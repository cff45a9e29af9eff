-------------------------- MODULE TransportContract --------------------------
(***************************************************************************)
(* What Master relies on in a transport: sendRequest begins an exchange,   *)
(* unless the transport is full (it throws), and every exchange that was   *)
(* begun ends exactly once, with one call of handleResponse or handleError *)
(* on its transaction, unless the transport is destroyed first.            *)
(*                                                                         *)
(* A transport that does not keep this names the exchanges concerned:      *)
(* `faulty` ones may be completed though sendRequest threw, or again after *)
(* their end, and `surviving` ones end although the transport was          *)
(* destroyed.  Both are empty for a transport that keeps all of it.        *)
(***************************************************************************)
EXTENDS Naturals, FiniteSets

CONSTANTS Exchange, Capacity

VARIABLES phase, closed, faulty, surviving

Open == {e \in Exchange : phase[e] = "open"}

Init == phase = [e \in Exchange |-> "new"] /\ closed = FALSE

Begin(e) ==
    /\ ~closed
    /\ phase[e] = "new" /\ Cardinality(Open) < Capacity
    /\ phase' = [phase EXCEPT ![e] = "open"]
    /\ UNCHANGED closed

End(e) ==
    /\ ~closed \/ e \in surviving
    /\ phase[e] = "open"
    /\ phase' = [phase EXCEPT ![e] = "ended"]
    /\ UNCHANGED closed

\* A completion that Master does not count with.
Spoil(e) ==
    /\ ~closed
    /\ e \in faulty'
    /\ phase[e] \in {"new", "ended"}
    /\ phase' = [phase EXCEPT ![e] = "spoiled"]
    /\ UNCHANGED closed

Close == closed' = TRUE /\ UNCHANGED phase

Next == Close \/ \E e \in Exchange : Begin(e) \/ End(e) \/ Spoil(e)

\* The steps that are allowed, and that what was begun ends.
Safety == Init /\ [][Next]_<<phase, closed>>
Spec == Safety /\ \A e \in Exchange : WF_<<phase, closed>>(End(e))

=============================================================================
