--------------------------- MODULE TunnelTransport ---------------------------
(***************************************************************************)
(* The tunnel transport, lib/transports/TunnelTransport.js, and the bus    *)
(* master that polls it, as test/transports/TunnelTransport.js plays it.   *)
(*                                                                         *)
(* The transport is a slave on the bus.  A poll carries a sequence number  *)
(* and perhaps the answer to a request; the transport replies with its own *)
(* sequence number and perhaps a request.  A poll with the number of the   *)
(* transport acknowledges what it sent last and advances the number.  The  *)
(* bus master takes a reply with a number other than its own for new, and  *)
(* drops the answer it held.  Polls and replies get lost.                  *)
(*                                                                         *)
(* At most two exchanges are open: the current one, and one that waits.    *)
(* Exchanges are numbered in the order of sendRequest; each is an attempt  *)
(* of a request, which keeps the frame of its first attempt for good.      *)
(***************************************************************************)
EXTENDS Naturals, Sequences, FiniteSets

CONSTANTS
    Request,       \* the Transaction objects
    MaxExchanges,  \* bound: calls of sendRequest
    SeqLimit,      \* sequence numbers are 0 .. SeqLimit - 1 (256 in the code)
    NoRequest      \* null

ASSUME BoundAssumption == MaxExchanges \in Nat
ASSUME SequenceAssumption == SeqLimit \in Nat \ {0, 1}
ASSUME RequestAssumption == NoRequest \notin Request

Exchange == 1 .. MaxExchanges
None == 0
Sequence == 0 .. SeqLimit - 1
Unframed == SeqLimit

VARIABLES
    transaction,      \* TunnelTransport.transaction, as an exchange
    nextTransaction,  \* TunnelTransport.nextTransaction
    sequence,
    reader,           \* what has arrived since the last pause: a frame, at best
    eofTimer,         \* the end-of-frame timer is live
    timeout,          \* the exchange whose response timer is live
    adu,              \* the sequence number in the frame each request keeps
    destroyed,
    \* The bus master.
    busSequence,      \* its sequence number
    busAnswer,        \* the request it holds the answer to
    \* History.
    sent,             \* calls of sendRequest so far
    owner,            \* the request of each exchange
    outcome,          \* how each exchange ended
    unsettled,        \* an exchange timed out since the sequence last advanced
    late              \* exchanges that were answered while one was unsettled

port == <<transaction, nextTransaction, sequence, reader, eofTimer, timeout, adu>>
bus == <<busSequence, busAnswer>>
vars == <<port, destroyed, bus, sent, owner, outcome, unsettled, late>>

PollFrame == [seq : Sequence, answer : Request \cup {NoRequest}]
Garbage == [seq |-> SeqLimit, answer |-> NoRequest]   \* does not validate
Outcome == {"none", "response", "foreign", "error", "timeout"}

Init ==
    /\ transaction = None /\ nextTransaction = None
    /\ sequence = 0
    /\ reader = <<>> /\ eofTimer = FALSE /\ timeout = None
    /\ adu = [r \in Request |-> Unframed]
    /\ destroyed = FALSE
    /\ busSequence \in Sequence /\ busAnswer = NoRequest
    /\ sent = 0 /\ owner = [e \in Exchange |-> NoRequest]
    /\ outcome = [e \in Exchange |-> "none"]
    /\ unsettled = FALSE /\ late = {}

Current == IF transaction = None THEN NoRequest ELSE owner[transaction]

----------------------------------------------------------------------------
\* sendRequest; it throws, and changes nothing, while two exchanges are open.
\* A request is not sent again before its last exchange has ended.
SendRequest(r) ==
    LET e == sent + 1
    IN  /\ ~destroyed
        /\ e \in Exchange
        /\ nextTransaction = None
        /\ Current # r
        /\ sent' = e
        /\ owner' = [owner EXCEPT ![e] = r]
        /\ IF transaction = None
           THEN transaction' = e /\ timeout' = e /\ UNCHANGED nextTransaction
           ELSE nextTransaction' = e /\ UNCHANGED <<transaction, timeout>>
        /\ UNCHANGED <<sequence, reader, eofTimer, adu, destroyed, bus,
                       outcome, unsettled, late>>

\* The next exchange becomes the current one and its response timer starts.
\* Mutants: the timer does not start; the waiting exchange is forgotten.
AdvanceUntimed ==
    transaction' = nextTransaction /\ nextTransaction' = None /\ timeout' = None
AdvanceEmpty == transaction' = None /\ nextTransaction' = None /\ timeout' = None
Advance ==
    /\ transaction' = nextTransaction
    /\ nextTransaction' = None
    /\ timeout' = nextTransaction

\* Transaction.handleTimeout with the transport's handleTimeout.
HandleTimeout ==
    /\ timeout # None
    /\ outcome' = [outcome EXCEPT ![timeout] = "timeout"]
    /\ reader' = <<>> /\ eofTimer' = FALSE
    /\ Advance
    /\ unsettled' = TRUE
    /\ UNCHANGED <<sequence, adu, destroyed, bus, sent, owner, late>>

Destroy ==
    /\ ~destroyed
    /\ destroyed' = TRUE
    /\ transaction' = None /\ nextTransaction' = None
    /\ timeout' = None /\ eofTimer' = FALSE
    /\ UNCHANGED <<sequence, reader, adu, bus, sent, owner, outcome, unsettled, late>>

----------------------------------------------------------------------------
\* Receiving

\* onData: bytes of a frame, or of several, up to the next pause.
Arrives(frame) ==
    /\ ~destroyed
    /\ reader' = IF reader = <<>> THEN <<frame>> ELSE <<Garbage>>
    /\ eofTimer' = TRUE
    /\ UNCHANGED <<transaction, nextTransaction, sequence, timeout, adu, destroyed, bus,
                   sent, owner, outcome, unsettled, late>>

\* A poll by the bus master; one that is damaged, and what other nodes of the bus
\* say to each other.
Poll == Arrives([seq |-> busSequence, answer |-> busAnswer])
Noise == Arrives(Garbage)

\* sendSlaveResponse and getAdu: the frame a request was given at its first
\* attempt, whatever the sequence number is by now.
FrameSequence(r, seq) == IF r # NoRequest /\ adu[r] # Unframed THEN adu[r] ELSE seq

\* The bus master receives a reply, or does not.  A new number makes it drop the
\* answer it held; the device the request is for answers, or does not.
BusReceives(seq, r) ==
    \/ UNCHANGED bus
    \/ IF seq = busSequence
       THEN UNCHANGED bus
       ELSE busSequence' = seq /\ busAnswer' \in {NoRequest, r}

\* Mutant: a poll that carries an answer does not advance the number.
AfterPollIdle(inSequence, p) ==
    IF inSequence /\ p.answer = NoRequest THEN (sequence + 1) % SeqLimit ELSE sequence
AfterPoll(inSequence, p) ==
    IF inSequence THEN (sequence + 1) % SeqLimit ELSE sequence

\* handleSlaveCommand.
HandleSlaveCommand(p) ==
    LET inSequence == p.seq = sequence
        closes == inSequence /\ transaction # None /\ p.answer # NoRequest
        now == AfterPoll(inSequence, p)
        replying == IF ~closes THEN Current
                    ELSE IF nextTransaction = None THEN NoRequest ELSE owner[nextTransaction]
        number == FrameSequence(replying, now)
    IN  /\ sequence' = now
        /\ IF closes
           THEN /\ Advance
                /\ \E how \in IF p.answer = Current THEN {"response"} ELSE {"foreign", "error"} :
                      outcome' = [outcome EXCEPT ![transaction] = how]
                /\ late' = IF unsettled THEN late \cup {transaction} ELSE late
           ELSE UNCHANGED <<transaction, nextTransaction, timeout, outcome, late>>
        /\ unsettled' = (unsettled /\ ~inSequence)
        /\ adu' = IF replying = NoRequest THEN adu ELSE [adu EXCEPT ![replying] = number]
        /\ BusReceives(number, replying)

HandleFrameData ==
    /\ eofTimer
    /\ eofTimer' = FALSE
    /\ reader' = <<>>
    /\ IF reader[1] = Garbage
       THEN UNCHANGED <<transaction, nextTransaction, sequence, timeout, adu, bus,
                        outcome, unsettled, late>>
       ELSE HandleSlaveCommand(reader[1])
    /\ UNCHANGED <<destroyed, sent, owner>>

Next ==
    \/ Destroy \/ Poll \/ Noise \/ HandleFrameData \/ HandleTimeout
    \/ \E r \in Request : SendRequest(r)

\* The response timer and the end-of-frame timer fire.
Spec ==
    /\ Init /\ [][Next]_vars
    /\ WF_vars(HandleTimeout) /\ WF_vars(HandleFrameData)

----------------------------------------------------------------------------
\* Properties

\* Every variable keeps its type.
TypeOK ==
    /\ {transaction, nextTransaction, timeout} \subseteq Exchange \cup {None}
    /\ sequence \in Sequence
    /\ reader \in {<<>>} \cup {<<frame>> : frame \in PollFrame \cup {Garbage}}
    /\ {eofTimer, destroyed, unsettled} \subseteq BOOLEAN
    /\ adu \in [Request -> Sequence \cup {Unframed}]
    /\ busSequence \in Sequence /\ busAnswer \in Request \cup {NoRequest}
    /\ sent \in 0 .. MaxExchanges
    /\ owner \in [Exchange -> Request \cup {NoRequest}]
    /\ outcome \in [Exchange -> Outcome]
    /\ late \in SUBSET Exchange

\* The current exchange, and no other, has its response timer; one waits only
\* behind another; and what is in the reader will be handled.
TimerGuardsCurrent ==
    /\ timeout = transaction
    /\ nextTransaction # None => transaction # None /\ nextTransaction # transaction
    /\ ~destroyed => (eofTimer <=> reader # <<>>)

\* An exchange is given the answer to another request only if an exchange timed
\* out, and the sequence number has not advanced since: whatever is lost,
\* repeated or merged on the bus, sequence numbers keep answers apart.
OwnAnswer ==
    \A e \in Exchange \ late : outcome[e] \in {"none", "response", "timeout"}

\* Each exchange ends exactly once, two at most are open, and the one that waits
\* gets its turn: what Master relies on.
Phase(e) ==
    IF e > sent THEN "new" ELSE IF outcome[e] = "none" THEN "open" ELSE "ended"
Contract == INSTANCE TransportContract WITH
    Capacity <- 2, phase <- [e \in Exchange |-> Phase(e)], closed <- destroyed,
    faulty <- {}, surviving <- {}
ImplementsContract == Contract!Spec

=============================================================================
