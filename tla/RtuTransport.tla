----------------------------- MODULE RtuTransport -----------------------------
(***************************************************************************)
(* The MODBUS RTU transport, lib/transports/RtuTransport.js, between its   *)
(* caller and a serial line.                                               *)
(*                                                                         *)
(* One exchange is open at a time.  The transport knows no lengths and no  *)
(* request identifiers: it collects whatever arrives while an exchange is  *)
(* open, and takes the collected bytes for a frame once the line has been  *)
(* silent for eofTimeout.  The line delivers a frame in chunks, may lose   *)
(* its end, and may deliver it after the request has timed out.            *)
(*                                                                         *)
(* Every call of sendRequest is an exchange of its own, a retry included;  *)
(* exchanges are numbered in the order of the calls.                       *)
(***************************************************************************)
EXTENDS Naturals, Sequences, FiniteSets, SequencesExt

CONSTANTS
    MaxExchanges,     \* bound: calls of sendRequest
    Header,           \* the unit and the function code of each request
    FrameLength,      \* bytes of a response frame
    MinFrameLength    \* MIN_FRAME_LENGTH

ASSUME BoundAssumption == MaxExchanges \in Nat
ASSUME LengthAssumption == MinFrameLength \in 1 .. FrameLength /\ FrameLength \in Nat

Exchange == 1 .. MaxExchanges
None == 0

ASSUME HeaderAssumption == Header \in [Exchange -> Nat]

VARIABLES
    transaction,  \* RtuTransport.transaction, as an exchange
    reader,       \* the bytes collected so far
    eofTimer,     \* the end-of-frame timer is live
    timeout,      \* the exchange whose response timer is live
    destroyed,    \* destroy() was called
    \* The line and the slave.
    line,         \* bytes the slave has sent and the port has not delivered
    owed,         \* requests on the line that the slave has not answered yet
    \* History.
    sent,         \* calls of sendRequest so far
    outcome,      \* how each exchange ended
    quiet,        \* exchanges begun with nothing owed and nothing on the line
    damaged       \* exchanges whose answer lost bytes or was cut by a pause

port == <<transaction, reader, eofTimer, timeout, destroyed>>
remote == <<line, owed>>
history == <<sent, outcome, quiet, damaged>>
vars == <<port, remote, history>>

Frame(e) == [i \in 1 .. FrameLength |-> <<e, i>>]
Outcome == {"none", "response", "foreign", "incomplete", "error", "timeout"}

Init ==
    /\ transaction = None /\ reader = <<>> /\ eofTimer = FALSE /\ timeout = None
    /\ destroyed = FALSE
    /\ line = <<>> /\ owed = {}
    /\ sent = 0 /\ outcome = [e \in Exchange |-> "none"]
    /\ quiet = {} /\ damaged = {}

----------------------------------------------------------------------------
\* The transport

\* sendRequest; it throws, and changes nothing, while an exchange is open.
SendRequest ==
    LET e == sent + 1
    IN  /\ ~destroyed
        /\ transaction = None
        /\ e \in Exchange
        /\ transaction' = e
        /\ timeout' = e
        /\ sent' = e
        /\ owed' = owed \cup {e}
        /\ quiet' = IF owed = {} /\ line = <<>> THEN quiet \cup {e} ELSE quiet
        /\ UNCHANGED <<reader, eofTimer, destroyed, line, outcome, damaged>>

\* skipResponseData: the mutant keeps the bytes.
SkipNothing(collected) == collected
SkipResponseData(collected) == <<>>

\* onData: the port delivers the first n bytes of the line.
OnData(n) ==
    /\ n \in 1 .. Len(line)
    /\ line' = SubSeq(line, n + 1, Len(line))
    /\ IF transaction = None \/ destroyed
       THEN UNCHANGED <<reader, eofTimer>>
       ELSE /\ reader' = reader \o SubSeq(line, 1, n)
            /\ eofTimer' = TRUE
    /\ UNCHANGED <<transaction, timeout, destroyed, owed, history>>

\* What the collected bytes mean to validate and createResponse.  The checksum
\* singles out whole frames; the unit and the function code must be those of the
\* request, and nothing else ties a frame to it.
Verdict(e, bytes) ==
    LET fitting == {other \in Exchange : bytes = Frame(other) /\ Header[other] = Header[e]}
    IN  IF Len(bytes) < MinFrameLength THEN "incomplete"
        ELSE CASE fitting = {} -> "error"
               [] fitting = {e} -> "response"
               [] OTHER -> "foreign"

\* Transaction.handleResponse or handleError, which stop the response timer.
\* Mutants: the timer is left running; a short frame is only discarded.
EndsUntimed(e, how) == outcome' = [outcome EXCEPT ![e] = how] /\ UNCHANGED timeout
ShortFrameDropped(e, how) ==
    IF how = "incomplete" THEN UNCHANGED <<outcome, timeout>>
    ELSE outcome' = [outcome EXCEPT ![e] = how] /\ timeout' = None
Ends(e, how) == outcome' = [outcome EXCEPT ![e] = how] /\ timeout' = None

HandleFrameData ==
    /\ eofTimer
    /\ eofTimer' = FALSE
    /\ reader' = SkipResponseData(reader)
    /\ transaction' = None
    /\ Ends(transaction, Verdict(transaction, reader))
    /\ damaged' = IF line = <<>> THEN damaged ELSE damaged \cup {transaction}
    /\ UNCHANGED <<destroyed, line, owed, sent, quiet>>

\* Transaction.handleTimeout with the transport's handleTimeout: it clears the
\* end-of-frame timer.
HandleTimeout ==
    /\ timeout # None
    /\ eofTimer' = FALSE
    /\ reader' = SkipResponseData(reader)
    /\ transaction' = None
    /\ Ends(timeout, "timeout")
    /\ UNCHANGED <<destroyed, line, owed, sent, quiet, damaged>>

Destroy ==
    /\ ~destroyed
    /\ destroyed' = TRUE
    /\ transaction' = None /\ timeout' = None /\ eofTimer' = FALSE
    /\ UNCHANGED <<reader, remote, history>>

----------------------------------------------------------------------------
\* The slave and the line: the answer to an owed request reaches the line, at
\* any time, with its first k bytes; k = 0 is an answer that never comes.
SlaveAnswers(e, k) ==
    /\ e \in owed
    /\ owed' = owed \ {e}
    /\ line' = line \o SubSeq(Frame(e), 1, k)
    /\ damaged' = IF k = FrameLength THEN damaged ELSE damaged \cup {e}
    /\ UNCHANGED <<port, sent, outcome, quiet>>

Remote == \E e \in owed, k \in 0 .. FrameLength : SlaveAnswers(e, k)

Next ==
    \/ SendRequest \/ HandleFrameData \/ HandleTimeout \/ Destroy
    \/ \E n \in 1 .. Len(line) : OnData(n)
    \/ Remote

\* Only the two timers of the transport are bound to fire.
Spec == Init /\ [][Next]_vars /\ WF_vars(HandleFrameData) /\ WF_vars(HandleTimeout)

----------------------------------------------------------------------------
\* Properties

\* Every variable of the transport keeps its type.
TypeOK ==
    /\ transaction \in Exchange \cup {None}
    /\ reader \in Seq(Exchange \X (1 .. FrameLength))
    /\ eofTimer \in BOOLEAN
    /\ timeout \in Exchange \cup {None}
    /\ destroyed \in BOOLEAN
    /\ line \in Seq(Exchange \X (1 .. FrameLength))
    /\ owed \in SUBSET Exchange
    /\ sent \in 0 .. MaxExchanges
    /\ outcome \in [Exchange -> Outcome]
    /\ quiet \in SUBSET Exchange
    /\ damaged \in SUBSET Exchange

\* handleFrameData calls its transaction without a check: the end-of-frame timer
\* must never be live without one.  An open exchange always has its response
\* timer, and bytes are held only for an open exchange with that timer running.
TimersGuardTransaction ==
    /\ eofTimer => transaction # None
    /\ timeout = transaction
    /\ (reader # <<>> /\ ~destroyed) => eofTimer

\* An exchange begun on a quiet line never takes the answer to another request,
\* and fails on its frame only when that frame was damaged: after a timeout or a
\* bad frame the transport is back in step as soon as the line is quiet.
InStepOnQuietLine ==
    \A e \in quiet :
        /\ outcome[e] # "foreign"
        /\ outcome[e] \in {"incomplete", "error"} => e \in damaged

\* Each exchange ends exactly once unless the transport is destroyed, and no two
\* are open at a time: what Master relies on.
Phase(e) ==
    IF e > sent THEN "new" ELSE IF outcome[e] = "none" THEN "open" ELSE "ended"
Contract == INSTANCE TransportContract WITH
    Capacity <- 1, phase <- [e \in Exchange |-> Phase(e)], closed <- destroyed,
    faulty <- {}, surviving <- {}
ImplementsContract == Contract!Spec

=============================================================================
