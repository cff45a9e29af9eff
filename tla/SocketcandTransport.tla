-------------------------- MODULE SocketcandTransport --------------------------
(***************************************************************************)
(* The transport over socketcand, lib/transports/SocketcandTransport.js,   *)
(* for one unit: exchanges with different units share nothing.             *)
(*                                                                         *)
(* A memory request becomes one CAN message (a chunk) per byte.  A chunk   *)
(* is written when the one before it is answered, and again when its chunk *)
(* timer fires.  The chunks of a transaction are the frame it caches, and  *)
(* answered chunks are shifted off that very array: a transaction that is  *)
(* sent again goes on where it stopped.                                    *)
(*                                                                         *)
(* Answers about the memory of the motor controller carry an address,      *)
(* those about the memory of the communication processor do not.  A byte   *)
(* of an answer is represented by the address it was read from.            *)
(***************************************************************************)
EXTENDS Naturals, Sequences, FiniteSets, SequencesExt

CONSTANTS
    Transaction,      \* the transactions of the application
    Request,          \* the request of each: function code, address, count
    MaxExchanges,     \* bound: calls of sendRequest
    MaxResends        \* bound: chunks written again by a chunk timer

Exchange == 1 .. MaxExchanges
None == 0

READ == 69
WRITE == 70
COMMAND == 71
Codes == {READ, WRITE, COMMAND}

ASSUME BoundAssumption == MaxExchanges \in Nat /\ MaxResends \in Nat
\* The requests hold an address of two bytes: prepareAddress refuses any other.
Address == 0 .. 65535
ASSUME RequestAssumption ==
    /\ Transaction # {}
    /\ Request \in [Transaction -> [code : Nat, address : Address, count : Nat \ {0}]]

VARIABLES
    entry,        \* transactions[unit], as an exchange
    response,     \* the bytes collected after the function code
    chunkTimer,   \* the entry refers to a live chunk timer
    chunkTimers,  \* live chunk timers of the unit
    built,        \* transactions whose frame has been built
    adu,          \* the chunks each transaction caches
    timeout,      \* the exchange whose response timer is live
    destroyed,    \* destroy() was called
    \* The unit on the bus.
    owed,         \* chunks written that the unit has not answered yet
    \* History.
    sent,         \* calls of sendRequest so far
    sender,       \* the transaction of each exchange
    outcome,      \* how each exchange ended
    fresh,        \* exchanges that began with all the chunks of their request
    quiet,        \* exchanges begun with nothing owed and no chunk timer live
    resent,       \* exchanges during which a chunk was written again
    strayed,      \* exchanges given a communication processor answer they did not ask for
    resends       \* chunks written again so far

port == <<entry, response, chunkTimer, chunkTimers, built, adu, timeout, destroyed>>
history == <<sent, sender, outcome, fresh, quiet, resent, strayed, resends>>
vars == <<port, owed, history>>

Outcome == {"none", "response", "wrong", "error", "timeout", "refused"}

\* A message: command, opcode, the address byte, and the whole address it is about.
Message == [cmd : Nat, op : Nat, address : Nat, loc : Nat]

Init ==
    /\ entry = None /\ response = <<>> /\ chunkTimer = FALSE /\ chunkTimers = 0
    /\ built = {} /\ adu = [tx \in Transaction |-> <<>>]
    /\ timeout = None /\ destroyed = FALSE
    /\ owed = <<>>
    /\ sent = 0 /\ sender = [e \in Exchange |-> CHOOSE tx \in Transaction : TRUE]
    /\ outcome = [e \in Exchange |-> "none"]
    /\ fresh = {} /\ quiet = {} /\ resent = {} /\ strayed = {} /\ resends = 0

----------------------------------------------------------------------------
\* Requests as chunks

Bank(r) == (r.address \div 256) % 256
OfMotor(r) == r.code \in {READ, WRITE} /\ Bank(r) \in 0 .. 3

ReadOpcodes == <<5, 7, 195, 193>>
WriteOpcodes == <<4, 6, 194, 192>>

\* The i-th chunk of a memory request; its address is one byte, and wraps.  Mutant:
\* it counts from one.
LowOffByOne(r, i) == ((r.address % 256) + i) % 256
Low(r, i) == ((r.address % 256) + i - 1) % 256
MemoryChunk(r, i) ==
    LET low == Low(r, i)
    IN  [cmd |-> IF OfMotor(r) THEN 72 ELSE IF r.code = READ THEN 69 ELSE 73,
         op |-> IF OfMotor(r)
                THEN (IF r.code = READ THEN ReadOpcodes ELSE WriteOpcodes)[Bank(r) + 1]
                ELSE IF r.code = READ THEN 4 ELSE 43,
         address |-> low,
         loc |-> (256 * Bank(r)) + low]

BuildAdu(r) ==
    IF r.code = COMMAND THEN <<[cmd |-> COMMAND, op |-> 0, address |-> 0, loc |-> 0]>>
    ELSE [i \in 1 .. r.count |-> MemoryChunk(r, i)]

\* What the application asked for, to compare a response with.
Asked(r) == [i \in 1 .. r.count |-> r.address + i - 1]

----------------------------------------------------------------------------
\* The transport

t(e) == sender[e]
Chunks(e) == adu[t(e)]

\* getAdu: built once for a transaction.
GetAdu(tx) == IF tx \in built THEN adu[tx] ELSE BuildAdu(Request[tx])

\* sendNextChunk: it writes the first chunk, if there is one, and starts a chunk
\* timer when others follow.
Written(chunks) == IF chunks = <<>> THEN owed ELSE Append(owed, Head(chunks))
Timed(chunks) == Len(chunks) > 1

\* sendRequest throws, and changes nothing, while the unit has an entry.  Mutant:
\* it replaces the entry.
FreeAlways == TRUE
Free == entry = None

Called(tx) ==
    LET e == sent + 1
    IN  /\ ~destroyed
        /\ Free
        /\ e \in Exchange
        /\ sent' = e
        /\ sender' = [sender EXCEPT ![e] = tx]
        /\ entry' = e
        /\ response' = <<>>

SendRequest(tx) ==
    LET e == sent + 1
        chunks == GetAdu(tx)
    IN  /\ Called(tx)
        /\ Request[tx].code \in Codes
        /\ built' = built \cup {tx}
        /\ adu' = [adu EXCEPT ![tx] = chunks]
        /\ owed' = Written(chunks)
        /\ IF Timed(chunks)
           THEN chunkTimer' = TRUE /\ chunkTimers' = chunkTimers + 1
           ELSE chunkTimer' = FALSE /\ UNCHANGED chunkTimers
        /\ timeout' = e
        /\ fresh' = IF chunks = BuildAdu(Request[tx]) THEN fresh \cup {e} ELSE fresh
        /\ quiet' = IF owed = <<>> /\ chunkTimers = 0 THEN quiet \cup {e} ELSE quiet
        /\ UNCHANGED <<destroyed, outcome, resent, strayed, resends>>

\* An unknown function: the transaction is failed, its entry made, and reading the
\* first of no chunks throws.
SendUnsupported(tx) ==
    /\ Called(tx)
    /\ Request[tx].code \notin Codes
    /\ chunkTimer' = FALSE
    /\ outcome' = [outcome EXCEPT ![sent + 1] = "refused"]
    /\ UNCHANGED <<chunkTimers, built, adu, timeout, destroyed, owed, fresh, quiet,
                   resent, strayed, resends>>

\* Transaction.handleResponse or handleError, which stop the response timer.
Ends(e, how) == outcome' = [outcome EXCEPT ![e] = how] /\ timeout' = None

\* delete transactions[unit]: the collected bytes and the timer go out of reach.
Forgotten == entry' = None /\ response' = <<>> /\ chunkTimer' = FALSE

\* clearTimeout of the chunk timer the entry refers to.  Mutant: not cleared.
KeepChunkTimer == chunkTimers
LeftAfterClear == IF chunkTimer THEN chunkTimers - 1 ELSE chunkTimers

\* The message answers the current chunk: always, when it is about the memory of
\* the communication processor; otherwise by command, opcode and address.  Mutant:
\* the address is not compared.
FitsAnyAddress(message) ==
    LET chunk == Head(Chunks(entry))
    IN  message.cmd = READ \/ (message.cmd = chunk.cmd /\ message.op = chunk.op)
Fits(message) ==
    LET chunk == Head(Chunks(entry))
    IN  \/ message.cmd = READ
        \/ /\ message.cmd = chunk.cmd /\ message.op = chunk.op
           /\ message.address = (Request[t(entry)].address % 256) + Len(response)

\* The unit answers the oldest chunk, and onData is called with the answer.
Arrives == owed # <<>> /\ ~destroyed
Expected == entry # None /\ Request[t(entry)].code \in Codes /\ Chunks(entry) # <<>>

NotExpected ==
    /\ Arrives
    /\ Expected => Head(owed).cmd # COMMAND /\ ~Fits(Head(owed))
    /\ owed' = Tail(owed)
    /\ UNCHANGED <<port, history>>

Strayed(message) ==
    IF message.cmd = READ /\ Head(Chunks(entry)).cmd # READ THEN strayed \cup {entry} ELSE strayed

\* handleChunk, with chunks left to send.
ChunkAnswered ==
    LET left == Tail(Chunks(entry))
    IN  /\ Arrives /\ Expected
        /\ Head(owed).cmd # COMMAND /\ Fits(Head(owed))
        /\ left # <<>>
        /\ response' = Append(response, Head(owed).loc)
        /\ adu' = [adu EXCEPT ![t(entry)] = left]
        /\ owed' = Append(Tail(owed), Head(left))
        /\ IF Timed(left)
           THEN chunkTimer' = TRUE /\ chunkTimers' = LeftAfterClear + 1
           ELSE chunkTimer' = FALSE /\ chunkTimers' = LeftAfterClear
        /\ strayed' = Strayed(Head(owed))
        /\ UNCHANGED <<entry, built, timeout, destroyed, sent, sender, outcome, fresh, quiet, resent, resends>>

\* handleChunk, with the last chunk answered: the response is made of whatever was
\* collected.  For a command it has no identifier, and createResponse throws.
LastChunkAnswered ==
    LET r == Request[t(entry)]
        bytes == Append(response, Head(owed).loc)
    IN  /\ Arrives /\ Expected
        /\ Head(owed).cmd # COMMAND /\ Fits(Head(owed))
        /\ Tail(Chunks(entry)) = <<>>
        /\ adu' = [adu EXCEPT ![t(entry)] = <<>>]
        /\ owed' = Tail(owed)
        /\ chunkTimers' = LeftAfterClear
        /\ Forgotten
        /\ Ends(entry, IF r.code = COMMAND THEN "error"
                       ELSE IF bytes = Asked(r) THEN "response" ELSE "wrong")
        /\ strayed' = Strayed(Head(owed))
        /\ UNCHANGED <<built, destroyed, sent, sender, fresh, quiet, resent, resends>>

\* onData with the answer to a command: it ends the exchange whatever that is
\* about; createResponse throws unless it is a command.
CommandAnswered ==
    /\ Arrives /\ Expected
    /\ Head(owed).cmd = COMMAND
    /\ owed' = Tail(owed)
    /\ chunkTimers' = LeftAfterClear
    /\ Forgotten
    /\ Ends(entry, IF Request[t(entry)].code = COMMAND THEN "response" ELSE "error")
    /\ UNCHANGED <<built, adu, destroyed, sent, sender, fresh, quiet, resent, strayed,
                   resends>>

\* The chunk timer handler: the timer the entry refers to, or an older one of the
\* same unit.  It writes the present chunk again and starts a timer for it.
Resend(own) ==
    /\ entry # None /\ Request[t(entry)].code \in Codes
    /\ Chunks(entry) # <<>>
    /\ resends < MaxResends
    /\ resends' = resends + 1
    /\ resent' = resent \cup {entry}
    /\ owed' = Written(Chunks(entry))
    /\ IF Timed(Chunks(entry))
       THEN chunkTimer' = TRUE /\ UNCHANGED chunkTimers
       ELSE chunkTimer' = (chunkTimer /\ ~own) /\ chunkTimers' = chunkTimers - 1

NothingToResend(own) ==
    /\ entry # None => Request[t(entry)].code \notin Codes \/ Chunks(entry) = <<>>
    /\ chunkTimers' = chunkTimers - 1
    /\ chunkTimer' = (chunkTimer /\ ~own)
    /\ UNCHANGED <<owed, resent, resends>>

ChunkTimeout(own) ==
    /\ IF own THEN chunkTimer ELSE chunkTimers > (IF chunkTimer THEN 1 ELSE 0)
    /\ ~destroyed
    /\ Resend(own) \/ NothingToResend(own)
    /\ UNCHANGED <<entry, response, built, adu, timeout, destroyed, sent, sender, outcome, fresh,
                   quiet, strayed>>

\* Transaction.handleTimeout with the handler of createTimeoutHandler.
HandleTimeout ==
    /\ timeout # None
    /\ Forgotten
    /\ Ends(timeout, "timeout")
    /\ UNCHANGED <<chunkTimers, built, adu, destroyed, owed, sent, sender, fresh, quiet,
                   resent, strayed, resends>>

\* destroy does not clear the chunk timer; after it the entry is gone, so that the
\* timer finds nothing to send.
Destroy ==
    /\ ~destroyed
    /\ destroyed' = TRUE
    /\ timeout' = None
    /\ Forgotten
    /\ UNCHANGED <<chunkTimers, built, adu, owed, history>>

----------------------------------------------------------------------------
\* A chunk or its answer is lost.
Lost ==
    /\ owed # <<>>
    /\ owed' = Tail(owed)
    /\ UNCHANGED <<port, history>>

Next ==
    \/ \E tx \in Transaction : SendRequest(tx) \/ SendUnsupported(tx)
    \/ NotExpected \/ ChunkAnswered \/ LastChunkAnswered \/ CommandAnswered
    \/ \E own \in BOOLEAN : ChunkTimeout(own)
    \/ HandleTimeout \/ Destroy
    \/ Lost

\* Only the response timer is bound to fire.
Spec == Init /\ [][Next]_vars /\ WF_vars(HandleTimeout)

----------------------------------------------------------------------------
\* Properties

\* Every variable of the transport keeps its type.
TypeOK ==
    /\ entry \in Exchange \cup {None}
    /\ response \in Seq(Nat)
    /\ chunkTimer \in BOOLEAN
    /\ chunkTimers \in Nat
    /\ built \in SUBSET Transaction
    /\ adu \in [Transaction -> Seq(Message)]
    /\ timeout \in Exchange \cup {None}
    /\ destroyed \in BOOLEAN
    /\ owed \in Seq(Message)
    /\ sent \in 0 .. MaxExchanges
    /\ sender \in [Exchange -> Transaction]
    /\ outcome \in [Exchange -> Outcome]
    /\ fresh \in SUBSET Exchange /\ quiet \in SUBSET Exchange
    /\ resent \in SUBSET Exchange /\ strayed \in SUBSET Exchange
    /\ resends \in 0 .. MaxResends

TimedOut == {e \in Exchange : outcome[e] = "timeout"}

\* The unit is blocked only by an exchange whose response timer is live, or for
\* ever by a transaction of an unknown function.  At most one chunk timer is the
\* entry's own; the others are left from exchanges that timed out, one each, and
\* write chunks of transactions they do not belong to.
TimersFollowEntry ==
    ~destroyed =>
        /\ timeout # None => timeout = entry
        /\ (entry # None /\ timeout = None) => Request[t(entry)].code \notin Codes
        /\ chunkTimer => entry # None /\ chunkTimers > 0
        /\ chunkTimers <= Cardinality(TimedOut) + (IF chunkTimer THEN 1 ELSE 0)

\* A transaction about the memory of the motor controller that is sent with all its
\* chunks never completes with the wrong bytes, whatever answers are late, lost or
\* repeated by chunk timers, its own or stale ones: addresses keep them in order.
\* The exception is an answer about the other memory, which is taken for any chunk.
MotorMemoryInOrder ==
    \A e \in fresh \ strayed :
        OfMotor(Request[t(e)]) => outcome[e] # "wrong"

\* The bytes of the communication processor are the right ones only on a quiet bus
\* and if no chunk is written twice, since nothing tells its answers apart.
OtherMemoryOnQuietBus ==
    \A e \in (fresh \cap quiet) \ resent :
        (Request[t(e)].code = READ /\ (Request[t(e)].address % 256) + Request[t(e)].count <= 256)
            => outcome[e] # "wrong"

\* Each exchange that sendRequest begins ends exactly once, unless the transport is
\* destroyed, and the unit has one open at a time: what Master relies on.  Only a
\* request of an unknown function is completed although sendRequest throws.
Phase(e) ==
    IF e > sent THEN "new"
    ELSE CASE outcome[e] = "none" -> "open"
           [] outcome[e] = "refused" -> "spoiled"
           [] OTHER -> "ended"
Contract == INSTANCE TransportContract WITH
    Capacity <- 1, phase <- [e \in Exchange |-> Phase(e)], closed <- destroyed,
    faulty <- {e \in Exchange : Request[t(e)].code \notin Codes}, surviving <- {}
ImplementsContract == Contract!Spec

=============================================================================
