---------------------------- MODULE AsciiTransport ----------------------------
(***************************************************************************)
(* The MODBUS ASCII transport, lib/transports/AsciiTransport.js, between   *)
(* its caller and a serial line.                                           *)
(*                                                                         *)
(* One exchange is open at a time.  A frame starts with a colon and ends   *)
(* with CR LF; there is no end-of-frame timer, so that a frame whose end   *)
(* is lost waits for the response timer of its exchange.  The line         *)
(* delivers frames in chunks of any size, may lose characters, and may     *)
(* deliver an answer after its request has timed out.                      *)
(*                                                                         *)
(* Exchanges are numbered in the order of the calls of sendRequest.  A     *)
(* character is its kind and, when it is data, the exchange whose answer   *)
(* it belongs to: the two digits of a byte and the bytes of an answer are  *)
(* one data character.                                                     *)
(***************************************************************************)
EXTENDS Naturals, Sequences, FiniteSets, SequencesExt

CONSTANTS
    MaxExchanges,     \* bound: calls of sendRequest
    Header,           \* the unit and the function code of each request
    Deliveries        \* what reaches the port of an answer, as its characters' places

Exchange == 1 .. MaxExchanges
None == 0

ASSUME BoundAssumption == MaxExchanges \in Nat
ASSUME HeaderAssumption == Header \in [Exchange -> Nat]
ASSUME DeliveriesAssumption == Deliveries \subseteq Seq(1 .. 4)

VARIABLES
    transaction,  \* AsciiTransport.transaction, as an exchange
    reader,       \* the characters collected so far
    lastByte,     \* the last character of the last chunk looked at
    timeout,      \* the exchange whose response timer is live
    destroyed,    \* destroy() was called
    \* The line and the slave.
    line,         \* characters the slave has sent and the port has not delivered
    owed,         \* requests on the line that the slave has not answered yet
    \* History.
    sent,         \* calls of sendRequest so far
    outcome,      \* how each exchange ended
    quiet,        \* exchanges begun with nothing owed and nothing on the line
    damaged       \* exchanges whose answer lost characters

port == <<transaction, reader, lastByte, timeout, destroyed>>
remote == <<line, owed>>
history == <<sent, outcome, quiet, damaged>>
vars == <<port, remote, history>>

Start == <<"colon", None>>
Cr == <<"cr", None>>
Lf == <<"lf", None>>
Data(e) == <<"data", e>>
Character == {Start, Cr, Lf} \cup {Data(e) : e \in Exchange}

\* frame and its encoding, as the slave uses it.
Frame(e) == <<Start, Data(e), Cr, Lf>>
Outcome == {"none", "response", "foreign", "error", "timeout"}

Init ==
    /\ transaction = None /\ reader = <<>> /\ lastByte = Data(None) /\ timeout = None
    /\ destroyed = FALSE
    /\ line = <<>> /\ owed = {}
    /\ sent = 0 /\ outcome = [e \in Exchange |-> "none"]
    /\ quiet = {} /\ damaged = {}

----------------------------------------------------------------------------
\* The transport

\* sendRequest; it throws, and changes nothing, while an exchange is open.
SendRequest ==
    LET e == sent + 1
    IN  /\ ~destroyed
        /\ transaction = None
        /\ e \in Exchange
        /\ transaction' = e
        /\ timeout' = e
        /\ sent' = e
        /\ owed' = owed \cup {e}
        /\ quiet' = IF owed = {} /\ line = <<>> THEN quiet \cup {e} ELSE quiet
        /\ UNCHANGED <<reader, lastByte, destroyed, line, outcome, damaged>>

\* skipResponseData: it flushes the reader and frees the transport.
SkipResponseData == reader' = <<>> /\ transaction' = None

\* Transaction.handleResponse or handleError, which stop the response timer.
\* Mutant: a bad frame is dropped and its exchange is not told.
EndsIfRight(e, how) ==
    IF how = "error" THEN UNCHANGED <<outcome, timeout>>
    ELSE outcome' = [outcome EXCEPT ![e] = how] /\ timeout' = None
Ends(e, how) == outcome' = [outcome EXCEPT ![e] = how] /\ timeout' = None

\* isValidChunk: a chunk goes on with a frame or begins one.
IsValidChunk(chunk) == reader # <<>> \/ Head(chunk) = Start

\* endsWithCrLf: a chunk of one character is judged with the one before it.
\* Mutant: it is judged by itself.
EndsAlone(chunk) ==
    Len(chunk) > 1 /\ chunk[Len(chunk) - 1] = Cr /\ Last(chunk) = Lf
EndsWithCrLf(chunk) ==
    /\ Last(chunk) = Lf
    /\ IF Len(chunk) = 1 THEN lastByte = Cr ELSE chunk[Len(chunk) - 1] = Cr

\* decodeBytes, validate and createResponse.  The checksum singles out whole
\* frames, two frames run together are not one; the unit and the function code
\* must be those of the request, and nothing else ties a frame to it.
Verdict(e, chars) ==
    LET fitting == {other \in Exchange : chars = Frame(other) /\ Header[other] = Header[e]}
    IN  CASE fitting = {} -> "error"
          [] fitting = {e} -> "response"
          [] OTHER -> "foreign"

\* The port delivers the first n characters of the line.
Arrives(n) ==
    /\ n \in 1 .. Len(line)
    /\ line' = SubSeq(line, n + 1, Len(line))
    /\ UNCHANGED <<destroyed, owed, sent, quiet, damaged>>

\* onData without an exchange.
DataIgnored(n) ==
    /\ Arrives(n)
    /\ transaction = None \/ destroyed
    /\ UNCHANGED <<transaction, reader, lastByte, timeout, outcome>>

\* onData with a chunk from the middle of a frame: the exchange fails at once.
DataRejected(n) ==
    /\ Arrives(n)
    /\ transaction # None /\ ~destroyed
    /\ ~IsValidChunk(SubSeq(line, 1, n))
    /\ SkipResponseData
    /\ Ends(transaction, "error")
    /\ UNCHANGED lastByte

\* onData with a part of a frame.
DataCollected(n) ==
    LET chunk == SubSeq(line, 1, n)
    IN  /\ Arrives(n)
        /\ transaction # None /\ ~destroyed
        /\ IsValidChunk(chunk) /\ ~EndsWithCrLf(chunk)
        /\ reader' = reader \o chunk
        /\ lastByte' = Last(chunk)
        /\ UNCHANGED <<transaction, timeout, outcome>>

\* onData with the end of a frame, and handleFrameData.
FrameReceived(n) ==
    LET chunk == SubSeq(line, 1, n)
    IN  /\ Arrives(n)
        /\ transaction # None /\ ~destroyed
        /\ IsValidChunk(chunk) /\ EndsWithCrLf(chunk)
        /\ lastByte' = Last(chunk)
        /\ SkipResponseData
        /\ Ends(transaction, Verdict(transaction, reader \o chunk))

OnData(n) == DataIgnored(n) \/ DataRejected(n) \/ DataCollected(n) \/ FrameReceived(n)

\* Transaction.handleTimeout with the transport's handleTimeout.  Mutant: the
\* reader is not flushed.
FlushNothing == UNCHANGED reader /\ transaction' = None
AfterTimeout == SkipResponseData

HandleTimeout ==
    /\ timeout # None
    /\ AfterTimeout
    /\ Ends(timeout, "timeout")
    /\ UNCHANGED <<lastByte, destroyed, remote, sent, quiet, damaged>>

Destroy ==
    /\ ~destroyed
    /\ destroyed' = TRUE
    /\ transaction' = None /\ timeout' = None
    /\ UNCHANGED <<reader, lastByte, remote, history>>

----------------------------------------------------------------------------
\* The slave and the line: the answer to an owed request reaches the line, at
\* any time, without the characters it loses; it may lose all of them.
SlaveAnswers(e, places) ==
    /\ e \in owed
    /\ owed' = owed \ {e}
    /\ line' = line \o [i \in 1 .. Len(places) |-> Frame(e)[places[i]]]
    /\ damaged' = IF places = <<1, 2, 3, 4>> THEN damaged ELSE damaged \cup {e}
    /\ UNCHANGED <<port, sent, outcome, quiet>>

Remote == \E e \in owed, places \in Deliveries : SlaveAnswers(e, places)

Next ==
    \/ SendRequest \/ HandleTimeout \/ Destroy
    \/ \E n \in 1 .. Len(line) : OnData(n)
    \/ Remote

\* Only the response timer is bound to fire.
Spec == Init /\ [][Next]_vars /\ WF_vars(HandleTimeout)

----------------------------------------------------------------------------
\* Properties

\* Every variable of the transport keeps its type.
TypeOK ==
    /\ transaction \in Exchange \cup {None}
    /\ reader \in Seq(Character)
    /\ lastByte \in Character \cup {Data(None)}
    /\ timeout \in Exchange \cup {None}
    /\ destroyed \in BOOLEAN
    /\ line \in Seq(Character)
    /\ owed \in SUBSET Exchange
    /\ sent \in 0 .. MaxExchanges
    /\ outcome \in [Exchange -> Outcome]
    /\ quiet \in SUBSET Exchange
    /\ damaged \in SUBSET Exchange

\* What onData collects is one unfinished frame of the exchange that is open and
\* timed: it begins with a colon, lastByte is its last character although chunks
\* that nobody waits for leave lastByte alone, and a collected end of frame is
\* acted upon, however the chunks cut it.
ReaderFollowsFrame ==
    /\ timeout = transaction
    /\ (reader # <<>> /\ ~destroyed) =>
        /\ transaction # None
        /\ Head(reader) = Start
        /\ lastByte = Last(reader)
        /\ Len(reader) > 1 => ~(reader[Len(reader) - 1] = Cr /\ lastByte = Lf)

\* An exchange begun on a quiet line never takes the answer to another request,
\* and fails on what it receives only when its own answer lost characters: what
\* a timeout or a bad frame leaves behind does not outlive the quiet.
InStepOnQuietLine ==
    \A e \in quiet :
        /\ outcome[e] # "foreign"
        /\ outcome[e] = "error" => e \in damaged

\* Each exchange ends exactly once unless the transport is destroyed, and no two
\* are open at a time: what Master relies on.
Phase(e) ==
    IF e > sent THEN "new" ELSE IF outcome[e] = "none" THEN "open" ELSE "ended"
Contract == INSTANCE TransportContract WITH
    Capacity <- 1, phase <- [e \in Exchange |-> Phase(e)], closed <- destroyed,
    faulty <- {}, surviving <- {}
ImplementsContract == Contract!Spec

=============================================================================
