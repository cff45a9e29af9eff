---------------------------- MODULE J1939Transport ----------------------------
(***************************************************************************)
(* The transport over J1939, lib/transports/J1939Transport.js.             *)
(*                                                                         *)
(* Transactions are kept by unit: a request replaces whatever is kept for  *)
(* its unit, a message from the unit completes the transaction kept for it *)
(* and leaves it there, and a response timer removes what is kept for its  *)
(* unit by then.  destroy() is inherited from Transport and does nothing:  *)
(* exchanges go on after it, so that it is no action here.                 *)
(*                                                                         *)
(* Every call of sendRequest is an exchange of its own, a retry included.  *)
(***************************************************************************)
EXTENDS Naturals, FiniteSets

CONSTANTS
    Unit,             \* the units on the bus
    MaxExchanges,     \* bound: calls of sendRequest
    MaxUnasked        \* bound: messages that answer no request

Exchange == 1 .. MaxExchanges
None == 0

ASSUME BoundAssumption == MaxExchanges \in Nat /\ MaxUnasked \in Nat

VARIABLES
    transactions, \* J1939Transport.transactions, as exchanges
    timers,       \* the exchanges whose response timer is live
    \* The bus.
    owed,         \* requests that their unit has not answered yet
    \* History.
    sent,         \* calls of sendRequest so far
    unit,         \* the unit of each exchange
    outcome,      \* how each exchange ended last
    ends,         \* how often its transaction was completed
    alone,        \* exchanges begun with none open and nothing owed by their unit
    overtaken,    \* exchanges open or owed an answer when the next one of their unit began
    answered,     \* exchanges whose answer came while they were open
    unasked       \* messages that answered no request, by unit

port == <<transactions, timers>>
history == <<sent, unit, outcome, ends, alone, overtaken, answered, unasked>>
vars == <<port, owed, history>>

Outcome == {"none", "response", "foreign", "error", "timeout"}
Sent == 1 .. sent
With(u) == {e \in Sent : unit[e] = u}

Init ==
    /\ transactions = [u \in Unit |-> None] /\ timers = {}
    /\ owed = {}
    /\ sent = 0 /\ unit \in [Exchange -> Unit]
    /\ outcome = [e \in Exchange |-> "none"] /\ ends = [e \in Exchange |-> 0]
    /\ alone = {} /\ overtaken = {} /\ answered = {}
    /\ unasked = [u \in Unit |-> 0]

----------------------------------------------------------------------------
\* The transport

\* Mutants: the first transaction is kept; the timer of the one replaced is stopped.
KeepFirst(e) ==
    IF transactions[unit[e]] = None THEN [transactions EXCEPT ![unit[e]] = e] ELSE transactions
Registered(e) == [transactions EXCEPT ![unit[e]] = e]

OnlyLatestTimed(e) == (timers \ With(unit[e])) \cup {e}
Timed(e) == timers \cup {e}

\* sendRequest, which refuses nothing.
SendRequest ==
    LET e == sent + 1
        before == With(unit[e]) \cap (timers \cup owed)
    IN  /\ e \in Exchange
        /\ sent' = e
        /\ transactions' = Registered(e)
        /\ timers' = Timed(e)
        /\ owed' = owed \cup {e}
        /\ alone' = IF before = {} THEN alone \cup {e} ELSE alone
        /\ overtaken' = overtaken \cup before
        /\ UNCHANGED <<unit, outcome, ends, answered, unasked>>

\* Transaction.handleResponse or handleError, which stop the response timer.
Ends(e, how) ==
    /\ outcome' = [outcome EXCEPT ![e] = how]
    /\ ends' = [ends EXCEPT ![e] = @ + 1]
    /\ timers' = timers \ {e}

\* onPgn: a message about exchange of, or about none, from unit u; createResponse may
\* throw on what it says.
OnPgn(u, of, throws) ==
    LET e == transactions[u]
    IN  /\ IF e = None THEN UNCHANGED <<outcome, ends, timers>>
           ELSE Ends(e, IF throws THEN "error" ELSE IF e = of THEN "response" ELSE "foreign")
        /\ UNCHANGED <<transactions, sent, unit, alone, overtaken>>

\* The handler of createTimeoutHandler.
Forget(e) == [transactions EXCEPT ![unit[e]] = None]

HandleTimeout(e) ==
    /\ e \in timers
    /\ transactions' = Forget(e)
    /\ Ends(e, "timeout")
    /\ UNCHANGED <<owed, sent, unit, alone, overtaken, answered, unasked>>

----------------------------------------------------------------------------
\* The units: the answer to a request comes, in any order, or never; a message may
\* come that answers nothing.
Answer(e, throws) ==
    /\ e \in owed
    /\ owed' = owed \ {e}
    /\ answered' = IF e \in timers THEN answered \cup {e} ELSE answered
    /\ OnPgn(unit[e], e, throws)
    /\ UNCHANGED unasked

NoAnswer(e) == e \in owed /\ owed' = owed \ {e} /\ UNCHANGED <<port, history>>

Unasked(u, throws) ==
    /\ unasked[u] < MaxUnasked
    /\ unasked' = [unasked EXCEPT ![u] = @ + 1]
    /\ OnPgn(u, None, throws)
    /\ UNCHANGED <<owed, answered>>

Next ==
    \/ SendRequest
    \/ \E e \in Exchange : HandleTimeout(e) \/ NoAnswer(e)
    \/ \E throws \in BOOLEAN :
         \/ \E e \in Exchange : Answer(e, throws)
         \/ \E u \in Unit : Unasked(u, throws)

\* Only the response timers are bound to fire.
Spec == Init /\ [][Next]_vars /\ \A e \in Exchange : WF_vars(HandleTimeout(e))

----------------------------------------------------------------------------
\* Properties

\* Every variable of the transport keeps its type.
TypeOK ==
    /\ transactions \in [Unit -> Exchange \cup {None}]
    /\ timers \in SUBSET Exchange
    /\ owed \in SUBSET Exchange
    /\ sent \in 0 .. MaxExchanges
    /\ unit \in [Exchange -> Unit]
    /\ outcome \in [Exchange -> Outcome]
    /\ ends \in [Exchange -> Nat]
    /\ alone \in SUBSET Exchange /\ overtaken \in SUBSET Exchange
    /\ answered \in SUBSET Exchange
    /\ unasked \in [Unit -> 0 .. MaxUnasked]

\* An exchange that is alone with a unit which speaks only when asked.
Undisturbed == {e \in alone \ overtaken : unasked[unit[e]] = 0}

\* What is kept for a unit is an exchange of that unit, and exactly the exchanges that
\* have not ended have a live response timer, replaced ones too: nothing else would
\* end those, and nothing fires for an exchange that is over.
OpenIsTimed ==
    /\ TypeOK
    /\ \A u \in Unit : transactions[u] \in With(u) \cup {None}
    /\ timers = {e \in Sent : ends[e] = 0}

\* A transaction stays registered when it is completed, so that a second message
\* completes it again, and Master counts the completion twice; and a timer removes
\* whatever its unit has registered by then, so that an exchange may wait in vain
\* although it is answered.  One that is alone with its unit is completed once, never
\* with the answer to another and with its own if that comes in time, whatever timers
\* fire and other units do.
AloneIsServed ==
    \A e \in Undisturbed :
        /\ ends[e] <= 1 /\ outcome[e] # "foreign"
        /\ e \in answered => outcome[e] \in {"response", "error"}

\* Every exchange ends, those included that another one has replaced, and only those
\* that are not alone with a unit which speaks when asked are completed again: what
\* Master relies on, and where it cannot.
Phase(e) ==
    IF e > sent THEN "new" ELSE IF ends[e] = 0 THEN "open"
    ELSE IF ends[e] = 1 THEN "ended" ELSE "spoiled"
Contract == INSTANCE TransportContract WITH
    Capacity <- MaxExchanges, phase <- [e \in Exchange |-> Phase(e)], closed <- FALSE,
    faulty <- Exchange \ Undisturbed, surviving <- {}
ImplementsContract == Contract!Spec

=============================================================================
