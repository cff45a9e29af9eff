----------------------------- MODULE IpTransport -----------------------------
(***************************************************************************)
(* The MODBUS TCP transport, lib/transports/IpTransport.js, between its    *)
(* caller and a byte stream.                                               *)
(*                                                                         *)
(* Any number of exchanges is open at a time, each registered under the    *)
(* identifier its request carries.  Identifiers count up and wrap around.  *)
(* The stream is cut into frames by the length in their headers; it may    *)
(* deliver them in any chunks, the slave may answer in any order or not at *)
(* all, and the connection may be replaced by a new one at any point,      *)
(* inside a frame too.                                                     *)
(*                                                                         *)
(* Every call of sendRequest is an exchange of its own, a retry included;  *)
(* exchanges are numbered in the order of the calls.                       *)
(***************************************************************************)
EXTENDS Naturals, Sequences, FiniteSets

CONSTANTS
    MaxExchanges,  \* bound: calls of sendRequest
    IdLimit,       \* identifiers are 0 .. IdLimit - 1 (0xFFFF in the code)
    HeaderLength,  \* bytes of a header
    BodyLength     \* bytes of the body of a response

ASSUME BoundAssumption == MaxExchanges \in Nat
ASSUME IdAssumption == IdLimit \in Nat \ {0, 1}
ASSUME LengthAssumption == HeaderLength \in Nat \ {0} /\ BodyLength \in Nat \ {0}

Exchange == 1 .. MaxExchanges
None == 0
Id == 0 .. IdLimit - 1
FrameLength == HeaderLength + BodyLength

VARIABLES
    nextTransactionId,
    transactions,  \* IpTransport.transactions, the exchange of each identifier
    reader,        \* the bytes collected so far
    header,        \* IpTransport.header
    timeouts,      \* exchanges whose response timer is live
    destroyed,
    \* The stream and the slave.
    stream,        \* bytes sent by the slave and not delivered yet
    owed,          \* requests the slave has not answered
    \* History.
    ids,           \* the identifier of each exchange
    sent,          \* calls of sendRequest so far
    outcome,       \* how each exchange ended
    shared,        \* exchanges whose identifier another one had while both were open
    stale,         \* exchanges begun while an answer to their identifier was due
    cut            \* a connection ended inside a frame

port == <<nextTransactionId, transactions, reader, header, timeouts, destroyed>>
remote == <<stream, owed>>
history == <<ids, sent, outcome, shared, stale, cut>>
vars == <<port, remote, history>>

Frame(e) == [i \in 1 .. FrameLength |-> <<e, i>>]
FrameHeader(e) == SubSeq(Frame(e), 1, HeaderLength)
Rest(bytes, n) == SubSeq(bytes, n + 1, Len(bytes))
Headers == [id : Id, length : 0 .. BodyLength]
NoHeader == [id |-> IdLimit, length |-> 0]   \* reset() sets id to -1
Outcome == {"none", "response", "foreign", "error", "timeout"}
Due == owed \cup {bytes[1] : bytes \in {stream[i] : i \in DOMAIN stream}
                                     \cup {reader[i] : i \in DOMAIN reader}}

Init ==
    /\ nextTransactionId = 0
    /\ transactions = [i \in Id |-> None]
    /\ reader = <<>> /\ header = NoHeader
    /\ timeouts = {} /\ destroyed = FALSE
    /\ stream = <<>> /\ owed = {}
    /\ ids = [e \in Exchange |-> 0] /\ sent = 0
    /\ outcome = [e \in Exchange |-> "none"]
    /\ shared = {} /\ stale = {} /\ cut = FALSE

----------------------------------------------------------------------------
\* onData calls itself until neither a header nor a frame is complete; nothing
\* else runs meanwhile.

HeaderComplete == header = NoHeader /\ Len(reader) >= HeaderLength
FrameComplete == header # NoHeader /\ Len(reader) >= header.length
NotReading == ~HeaderComplete /\ ~FrameComplete
Idle == ~destroyed /\ NotReading

\* getNextTransactionId.
NextId == IF nextTransactionId + 1 = IdLimit THEN 0 ELSE nextTransactionId + 1

SendRequest ==
    LET e == sent + 1
        sharing == {f \in timeouts : ids[f] = NextId}
    IN  /\ Idle
        /\ e \in Exchange
        /\ sent' = e
        /\ nextTransactionId' = NextId
        /\ ids' = [ids EXCEPT ![e] = NextId]
        /\ transactions' = [transactions EXCEPT ![NextId] = e]
        /\ timeouts' = timeouts \cup {e}
        /\ owed' = owed \cup {e}
        /\ shared' = IF sharing = {} THEN shared ELSE shared \cup sharing \cup {e}
        /\ stale' = IF \E f \in Due : ids[f] = NextId THEN stale \cup {e} ELSE stale
        /\ UNCHANGED <<reader, header, destroyed, stream, outcome, cut>>

\* onData: the connection delivers the first n bytes of the stream.
OnData(n) ==
    /\ Idle
    /\ n \in 1 .. Len(stream)
    /\ reader' = reader \o SubSeq(stream, 1, n)
    /\ stream' = Rest(stream, n)
    /\ UNCHANGED <<nextTransactionId, transactions, header, timeouts, destroyed,
                   owed, history>>

\* Header.read: what is not the beginning of a frame may read as any header.
ReadHeader ==
    LET bytes == SubSeq(reader, 1, HeaderLength)
        senders == {e \in Exchange : bytes = FrameHeader(e)}
    IN  /\ ~destroyed
        /\ HeaderComplete
        /\ reader' = Rest(reader, HeaderLength)
        /\ header' \in IF senders = {} THEN Headers
                       ELSE {[id |-> ids[e], length |-> BodyLength] : e \in senders}
        /\ UNCHANGED <<nextTransactionId, transactions, timeouts, destroyed, remote, history>>

\* The bytes of a frame leave the reader.  Mutant: they stay when it is skipped.
SkipNothing(known) == IF known THEN Rest(reader, header.length) ELSE reader
AfterFrame(known) == Rest(reader, header.length)

\* Header.validate and createResponse: a body that is not the answer to this
\* request is told apart when its unit or its function differs, at best.
Verdict(e) ==
    IF SubSeq(reader, 1, header.length) = SubSeq(Frame(e), HeaderLength + 1, FrameLength)
    THEN {"response"}
    ELSE IF header.length = 0 THEN {"error"} ELSE {"foreign", "error"}

\* Transaction.handleResponse or handleError, which stop the response timer.
\* Mutant: an answer found wrong is not reported.
SettledIfRight(e, verdict) ==
    /\ outcome' = IF verdict = "error" THEN outcome ELSE [outcome EXCEPT ![e] = verdict]
    /\ timeouts' = timeouts \ {e}
Settled(e, verdict) ==
    /\ outcome' = [outcome EXCEPT ![e] = verdict]
    /\ timeouts' = timeouts \ {e}

\* Mutant: the registration outlives the answer.
DeleteNothing(id) == transactions
Delete(id) == [transactions EXCEPT ![id] = None]

HandleFrameData ==
    LET e == transactions[header.id]
    IN  /\ ~destroyed
        /\ FrameComplete
        /\ reader' = AfterFrame(e # None)
        /\ header' = NoHeader
        /\ transactions' = Delete(header.id)
        /\ IF e = None
           THEN UNCHANGED <<timeouts, outcome>>
           ELSE \E verdict \in Verdict(e) : Settled(e, verdict)
        /\ UNCHANGED <<nextTransactionId, destroyed, remote, ids, sent, shared, stale, cut>>

\* Transaction.handleTimeout with the handler made by createTimeoutHandler, which
\* deletes whatever its identifier stands for by now.  Mutant: it deletes nothing.
\* The handler has its own reference to the registrations, and fires after destroy()
\* too if destroy() did not reach its transaction.
TimedOutKept(id) == transactions
TimedOut(id) == [transactions EXCEPT ![id] = None]

Timeout(e) ==
    /\ NotReading
    /\ e \in timeouts
    /\ timeouts' = timeouts \ {e}
    /\ transactions' = TimedOut(ids[e])
    /\ outcome' = [outcome EXCEPT ![e] = "timeout"]
    /\ UNCHANGED <<nextTransactionId, reader, header, destroyed, remote,
                   ids, sent, shared, stale, cut>>

\* destroy() reaches the registered transactions, and no other that is open.  Mutant:
\* it reaches none.
NotCleared == timeouts
LeftByDestroy == timeouts \ {transactions[i] : i \in Id}

Destroy ==
    /\ Idle
    /\ destroyed' = TRUE
    /\ timeouts' = LeftByDestroy
    /\ UNCHANGED <<nextTransactionId, transactions, reader, header, remote, history>>

----------------------------------------------------------------------------
\* The slave and the connection

SlaveAnswers(e) ==
    /\ Idle
    /\ e \in owed
    /\ owed' = owed \ {e}
    /\ stream' = stream \o Frame(e)
    /\ UNCHANGED <<port, history>>

\* The slave never answers, or the connection was down when the request was sent.
NeverAnswered(e) ==
    /\ Idle
    /\ e \in owed
    /\ owed' = owed \ {e}
    /\ UNCHANGED <<port, stream, history>>

\* The connection is replaced: what was under way on the old one is gone, and the
\* transport is not told.
Reconnected ==
    /\ Idle
    /\ <<stream, owed>> # <<<<>>, {}>> \/ reader # <<>> \/ header # NoHeader
    /\ stream' = <<>> /\ owed' = {}
    /\ cut' = (cut \/ reader # <<>> \/ header # NoHeader)
    /\ UNCHANGED <<port, ids, sent, outcome, shared, stale>>

Remote == Reconnected \/ \E e \in owed : SlaveAnswers(e) \/ NeverAnswered(e)
Receive == ReadHeader \/ HandleFrameData \/ \E n \in 1 .. Len(stream) : OnData(n)

Next == SendRequest \/ Destroy \/ Receive \/ Remote \/ \E e \in timeouts : Timeout(e)

\* The response timers fire, and onData runs to its end.
Spec ==
    /\ Init /\ [][Next]_vars
    /\ WF_vars(ReadHeader) /\ WF_vars(HandleFrameData)
    /\ \A e \in Exchange : SF_vars(Timeout(e))

----------------------------------------------------------------------------
\* Properties

\* Every variable of the transport keeps its type.
TypeOK ==
    /\ nextTransactionId \in Id
    /\ transactions \in [Id -> Exchange \cup {None}]
    /\ reader \in Seq(Exchange \X (1 .. FrameLength))
    /\ header \in Headers \cup {NoHeader}
    /\ timeouts \in SUBSET Exchange
    /\ destroyed \in BOOLEAN
    /\ stream \in Seq(Exchange \X (1 .. FrameLength))
    /\ owed \in SUBSET Exchange
    /\ ids \in [Exchange -> Id]
    /\ sent \in 0 .. MaxExchanges
    /\ outcome \in [Exchange -> Outcome]
    /\ shared \in SUBSET Exchange /\ stale \in SUBSET Exchange
    /\ cut \in BOOLEAN

\* An open exchange is registered under its identifier, and only there, as long
\* as identifiers did not come round while it was open; nothing but open
\* exchanges is registered.
OpenIsRegistered ==
    ~destroyed =>
        /\ \A e \in timeouts \ shared : transactions[ids[e]] = e
        /\ \A i \in Id : transactions[i] # None =>
              transactions[i] \in timeouts /\ ids[transactions[i]] = i

\* While no connection has ended inside a frame the transport is in step with
\* the stream, whatever was skipped, and an exchange is given its own answer,
\* unless its identifier came round while an older answer was due.
OwnAnswer ==
    ~cut => \A e \in Exchange \ stale : outcome[e] \in {"none", "response", "timeout"}

\* Each exchange ends exactly once, by its answer or by its timer, unless the
\* transport is destroyed: what Master relies on, with no limit on the number.  Only
\* an exchange whose identifier came round, and whose timer destroy() did not find, is
\* completed after destroy(); such a one is.
Phase(e) ==
    IF e > sent THEN "new" ELSE IF outcome[e] = "none" THEN "open" ELSE "ended"
Contract == INSTANCE TransportContract WITH
    Capacity <- MaxExchanges, phase <- [e \in Exchange |-> Phase(e)], closed <- destroyed,
    faulty <- {}, surviving <- shared \cap timeouts
ImplementsContract == Contract!Spec

=============================================================================
