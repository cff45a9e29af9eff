---------------------------- MODULE CS1179Transport ----------------------------
(***************************************************************************)
(* The transport of the CS1179 adapter, lib/transports/CS1179Transport.js. *)
(*                                                                         *)
(* A request becomes a list of three-byte chunks, one per memory location. *)
(* The transport writes one chunk, waits for its reply, keeps the first    *)
(* byte of the reply and writes the next chunk.  Replies carry neither     *)
(* address nor identifier, only the order ties them to chunks.  Before it  *)
(* builds the chunks getAdu puts the function code into the same buffer    *)
(* that collects the replies.                                              *)
(*                                                                         *)
(* Every call of sendRequest is an exchange of its own, a retry included.  *)
(* A retry brings the request of the first attempt again, but for the      *)
(* reset: its builder replaces the request of the transaction by one       *)
(* without a function code, and that is what is sent again.                *)
(* Data bytes are represented by the chunk they answer.                    *)
(***************************************************************************)
EXTENDS Naturals, Sequences, FiniteSets, SequencesExt

CONSTANTS
    MaxExchanges,     \* bound: calls of sendRequest
    Requests          \* what the application may ask for

Exchange == 1 .. MaxExchanges
None == 0

MB_SLAVEID == 17
MB_READ_MEMORY == 69
MB_WRITE_MEMORY == 70
MB_COMMAND == 71
MB_WRITE_MEMORY_VERIFY == 100

ARAM_WR_CMD == 64
HRAM_WR_CMD == 32
E2_WR_CMD == 6
ARAM_RD_CMD == 65
HRAM_RD_CMD == 33
E2_RD_CMD == 7
E2_WRVFY_CMD == 11
INVALID == 255
USB_I2C_RESET == 15

\* A request: its function code, the first address and the number of bytes it is
\* about, and whether it is the command that resets the unit.
Request == [code : Nat, address : Nat, count : Nat, reset : BOOLEAN]

Known == {MB_SLAVEID, MB_READ_MEMORY, MB_WRITE_MEMORY, MB_WRITE_MEMORY_VERIFY, MB_COMMAND}
OfMemory == {MB_READ_MEMORY, MB_WRITE_MEMORY, MB_WRITE_MEMORY_VERIFY}

\* The constructors of the memory requests take no empty ones, and the reset is a
\* command.
ASSUME BoundAssumption == MaxExchanges \in Nat
ASSUME RequestsAssumption ==
    Requests \subseteq {r \in Request : /\ r.code \in OfMemory => r.count > 0
                                        /\ r.reset => r.code = MB_COMMAND}

\* What buildAduCommand leaves of the reset: an address and a value, and no function
\* code, for which 0 stands.
Replaced == [code |-> 0, address |-> 480, count |-> 1, reset |-> FALSE]

VARIABLES
    transaction,  \* CS1179Transport.transaction, as an exchange
    adu,          \* the chunks of that transaction not yet answered, <<>> for null
    reader,       \* the function code and the bytes collected so far
    timeout,      \* the exchange whose response timer is live
    destroyed,    \* destroy() was called
    \* The adapter and the line.
    owed,         \* chunks written that the adapter has not answered yet
    line,         \* replies that the port has not delivered yet
    \* History.
    sent,         \* calls of sendRequest so far
    request,      \* the request of each exchange, as sendRequest found it
    outcome,      \* how each exchange ended
    ends,         \* how often its transaction was completed
    inStep,       \* exchanges begun with nothing collected, owed or on the line
    dirty         \* exchanges begun with something left in the reader

port == <<transaction, adu, reader, timeout, destroyed>>
remote == <<owed, line>>
history == <<sent, request, outcome, ends, inStep, dirty>>
vars == <<port, remote, history>>

Outcome == {"none", "response", "foreign", "error", "timeout", "refused"}
NoRequest == [code |-> 0, address |-> 0, count |-> 0, reset |-> FALSE]
Byte == [of : Exchange \cup {None}, op : Nat, offset : Nat]
Reply == [kind : {"data", "invalid", "absent"}, byte : Byte]
CodeByte(code) == [of |-> None, op |-> code, offset |-> 0]

Init ==
    /\ transaction = None /\ adu = <<>> /\ reader = <<>> /\ timeout = None
    /\ destroyed = FALSE
    /\ owed = <<>> /\ line = <<>>
    /\ sent = 0 /\ request = [e \in Exchange |-> NoRequest]
    /\ outcome = [e \in Exchange |-> "none"] /\ ends = [e \in Exchange |-> 0]
    /\ inStep = {} /\ dirty = {}

----------------------------------------------------------------------------
\* Requests as chunks

\* addressTranslator: where the shadowed bytes of the EEPROM are in the RAM.
AddressTranslator(address) ==
    address + (CASE address \in 0 .. 79 -> 160
                 [] address \in 80 .. 111 -> 320
                 [] address \in 128 .. 159 -> 304
                 [] address \in 176 .. 223 -> 128
                 [] OTHER -> 768)

\* The bank of an address, as the code computes it and for a shadowed byte after
\* translation: 0 and 1 are RAM, 3 is EEPROM.
CodeBank(address) == (address \div 256) % 256
Shadow(address) == CodeBank(address) = 2
Supported(address) == CodeBank(address) \in 0 .. 3
Bank(address) ==
    IF Shadow(address) THEN AddressTranslator(address - 512) \div 256 ELSE CodeBank(address)
Offset(address) ==
    IF Shadow(address) THEN AddressTranslator(address - 512) % 256 ELSE address % 256

ReadOpcode(address) ==
    CASE Bank(address) = 0 -> ARAM_RD_CMD
      [] Bank(address) = 1 -> HRAM_RD_CMD
      [] OTHER -> E2_RD_CMD

WriteOpcode(code, address) ==
    CASE Bank(address) = 0 -> ARAM_WR_CMD
      [] Bank(address) = 1 -> HRAM_WR_CMD
      [] OTHER -> IF Shadow(address) THEN INVALID
                  ELSE IF code = MB_WRITE_MEMORY_VERIFY THEN E2_WRVFY_CMD ELSE E2_WR_CMD

Addresses(r) == [i \in 1 .. r.count |-> r.address + i - 1]
Chunk(e, op, offset) == [of |-> e, op |-> op, offset |-> offset]

AduReadMemory(e, r) ==
    [i \in 1 .. r.count |-> Chunk(e, ReadOpcode(Addresses(r)[i]), Offset(Addresses(r)[i]))]
AduWriteMemory(e, r) ==
    [i \in 1 .. r.count |-> Chunk(e, WriteOpcode(r.code, Addresses(r)[i]), Offset(Addresses(r)[i]))]

SlaveIdOffsets == <<249, 250, 3, 4, 251, 252, 253, 254>>
AduSlaveId(e) == [i \in 1 .. 8 |-> Chunk(e, E2_RD_CMD, SlaveIdOffsets[i])]

\* The reset command writes two bytes to the restart address 0x1E0.
AduCommand(e, r) ==
    IF r.reset THEN <<Chunk(e, HRAM_WR_CMD, 224), Chunk(e, HRAM_WR_CMD, 224)>>
    ELSE <<Chunk(e, USB_I2C_RESET, 0)>>

\* A memory request that leaves the four banks makes its builder throw.
OutOfRange(r) ==
    r.code \in OfMemory /\ \E i \in 1 .. r.count : ~Supported(Addresses(r)[i])

Chunks(e, r) ==
    CASE r.code = MB_READ_MEMORY -> AduReadMemory(e, r)
      [] r.code \in {MB_WRITE_MEMORY, MB_WRITE_MEMORY_VERIFY} -> AduWriteMemory(e, r)
      [] r.code = MB_SLAVEID -> AduSlaveId(e)
      [] OTHER -> AduCommand(e, r)

\* What getAdu leaves in the reader.  A verified write is turned into a plain one
\* as soon as one byte of it, before the one that throws, is not in the EEPROM.
PushedCode(r) ==
    IF /\ r.code = MB_WRITE_MEMORY_VERIFY
       /\ \E i \in 1 .. r.count :
            /\ \A j \in 1 .. i : Supported(Addresses(r)[j])
            /\ WriteOpcode(r.code, Addresses(r)[i]) # E2_WRVFY_CMD
    THEN MB_WRITE_MEMORY ELSE r.code
Pushed(r) == IF r.code \in OfMemory THEN <<CodeByte(PushedCode(r))>> ELSE <<>>

----------------------------------------------------------------------------
\* The transport

\* sendRequest throws, and changes nothing, while a transaction is kept.  Mutant:
\* it replaces the transaction.
FreeAlways == TRUE
Free == transaction = None

Called(r) ==
    LET e == sent + 1
    IN  /\ ~destroyed
        /\ Free
        /\ e \in Exchange
        /\ sent' = e
        /\ request' = [request EXCEPT ![e] = r]

\* The requests that transactions which were completed bring when they are sent again,
\* if they are not those of the first attempt.
Repeated == IF \E e \in Exchange : request[e].reset /\ ends[e] > 0 THEN {Replaced} ELSE {}

\* The builder throws, after getAdu has put the code into the reader.
SendFails(r) ==
    /\ Called(r)
    /\ OutOfRange(r)
    /\ reader' = reader \o Pushed(r)
    /\ outcome' = [outcome EXCEPT ![sent + 1] = "refused"]
    /\ UNCHANGED <<transaction, adu, timeout, destroyed, remote, ends, inStep, dirty>>

\* A function that getAdu does not know, or none since the request is what is left of
\* a reset: the transaction is failed and nevertheless kept, without chunks and
\* without a timer, and sendRequest throws.
SendUnsupported(r) ==
    /\ Called(r)
    /\ r.code \notin Known
    /\ transaction' = sent + 1
    /\ adu' = <<>>
    /\ outcome' = [outcome EXCEPT ![sent + 1] = "error"]
    /\ ends' = [ends EXCEPT ![sent + 1] = 1]
    /\ UNCHANGED <<reader, timeout, destroyed, remote, inStep, dirty>>

SendRequest(r) ==
    LET e == sent + 1
    IN  /\ Called(r)
        /\ r.code \in Known /\ ~OutOfRange(r)
        /\ transaction' = e
        /\ adu' = Chunks(e, r)
        /\ reader' = reader \o Pushed(r)
        /\ owed' = Append(owed, Head(Chunks(e, r)))
        /\ timeout' = e
        /\ inStep' = IF reader = <<>> /\ owed = <<>> /\ line = <<>> THEN inStep \cup {e} ELSE inStep
        /\ dirty' = IF reader # <<>> THEN dirty \cup {e} ELSE dirty
        /\ UNCHANGED <<destroyed, line, outcome, ends>>

\* clearTransaction.  Mutant: it keeps the bytes.
ClearKeepsBytes == transaction' = None /\ adu' = <<>> /\ UNCHANGED reader
ClearTransaction == transaction' = None /\ adu' = <<>> /\ reader' = <<>>

\* Transaction.handleResponse or handleError, which stop the response timer.
\* Mutant: the timer is left running.
EndsUntimed(e, how) ==
    /\ outcome' = [outcome EXCEPT ![e] = how]
    /\ ends' = [ends EXCEPT ![e] = @ + 1]
    /\ UNCHANGED timeout
Ends(e, how) ==
    /\ outcome' = [outcome EXCEPT ![e] = how]
    /\ ends' = [ends EXCEPT ![e] = @ + 1]
    /\ timeout' = None

\* The response finishResponse makes of the collected bytes: the bytes read, the
\* bytes of the identification (its first one is not used), or only the fact that
\* so many replies came, behind what was left in the reader.
Verdict(e, bytes) ==
    LET r == request[e]
        own == CASE r.code = MB_READ_MEMORY -> Tail(bytes) = Chunks(e, r)
                 [] r.code = MB_SLAVEID -> SubSeq(bytes, 2, 8) = Tail(Chunks(e, r))
                 [] OTHER -> SubSeq(bytes, Len(bytes) - Len(Chunks(e, r)) + 1, Len(bytes)) = Chunks(e, r)
    IN  IF own THEN "response" ELSE "foreign"

\* The port delivers n replies at once; onData looks at the first.
Arrives(n) ==
    /\ n \in 1 .. Len(line)
    /\ line' = SubSeq(line, n + 1, Len(line))
    /\ UNCHANGED <<destroyed, sent, request, inStep, dirty>>

\* A reply in pieces of at most two bytes, or without a transaction.
DataIgnored(n) ==
    /\ Arrives(n)
    /\ n = 1 \/ transaction = None \/ destroyed
    /\ UNCHANGED <<transaction, adu, reader, timeout, owed, outcome, ends>>

Counts(n) == Arrives(n) /\ transaction # None /\ ~destroyed

\* onData: 88 88 88 and 77 77 77.
ErrorReply(n) ==
    /\ Counts(n)
    /\ Head(line).kind # "data"
    /\ ClearTransaction
    /\ Ends(transaction, "error")
    /\ UNCHANGED owed

Collected == Append(reader, Head(line).byte)

\* The chunk written after a reply: the first that is left once the answered one is
\* shifted off.  Mutant: written before the shift.
NextChunkEarly == adu[1]
NextChunk == adu[2]

ChunkReply(n) ==
    /\ Counts(n)
    /\ Head(line).kind = "data"
    /\ Len(adu) > 1
    /\ reader' = Collected
    /\ adu' = Tail(adu)
    /\ owed' = Append(owed, NextChunk)
    /\ UNCHANGED <<transaction, timeout, outcome, ends>>

\* finishResponse.
LastReply(n) ==
    /\ Counts(n)
    /\ Head(line).kind = "data"
    /\ Len(adu) = 1
    /\ ~request[transaction].reset
    /\ request[transaction].code = MB_READ_MEMORY => Head(Collected).op = MB_READ_MEMORY
    /\ ClearTransaction
    /\ Ends(transaction, Verdict(transaction, Collected))
    /\ UNCHANGED owed

\* finishResponse, when createResponse throws because the reader does not begin
\* with the function code: the transaction is failed and kept.
LastReplyRejected(n) ==
    /\ Counts(n)
    /\ Head(line).kind = "data"
    /\ Len(adu) = 1
    /\ request[transaction].code = MB_READ_MEMORY /\ Head(Collected).op # MB_READ_MEMORY
    /\ reader' = Collected
    /\ UNCHANGED <<transaction, adu>>
    /\ Ends(transaction, "error")
    /\ UNCHANGED owed

\* finishResponse after the reset command, whose request buildAduCommand replaced
\* by one without a function code: no case fits.
ResetReply(n) ==
    /\ Counts(n)
    /\ Head(line).kind = "data"
    /\ Len(adu) = 1
    /\ request[transaction].reset
    /\ reader' = Collected
    /\ UNCHANGED <<transaction, adu, timeout, owed, outcome, ends>>

\* onData with a transaction that has no chunks: adu.length throws.
UnsupportedReply(n) ==
    /\ Counts(n)
    /\ Head(line).kind = "data"
    /\ adu = <<>>
    /\ reader' = Collected
    /\ UNCHANGED <<transaction, adu, timeout, owed, outcome, ends>>

OnData(n) ==
    \/ DataIgnored(n) \/ ErrorReply(n) \/ ChunkReply(n) \/ LastReply(n)
    \/ LastReplyRejected(n) \/ ResetReply(n) \/ UnsupportedReply(n)

HandleTimeout ==
    /\ timeout # None
    /\ ClearTransaction
    /\ Ends(timeout, "timeout")
    /\ UNCHANGED <<destroyed, remote, sent, request, inStep, dirty>>

Destroy ==
    /\ ~destroyed
    /\ destroyed' = TRUE
    /\ timeout' = None
    /\ IF transaction # None THEN ClearTransaction ELSE UNCHANGED <<transaction, adu, reader>>
    /\ UNCHANGED <<remote, history>>

----------------------------------------------------------------------------
\* The adapter answers chunks in the order it got them: an invalid opcode with
\* 88 88 88, a unit that is asleep with 77 77 77.
Answer(kind) ==
    /\ owed # <<>>
    /\ kind = "invalid" <=> Head(owed).op = INVALID
    /\ owed' = Tail(owed)
    /\ line' = Append(line, [kind |-> kind, byte |-> Head(owed)])
    /\ UNCHANGED <<port, history>>

\* A chunk or its reply is lost.
Lost ==
    /\ owed # <<>>
    /\ owed' = Tail(owed)
    /\ UNCHANGED <<port, line, history>>

Next ==
    \/ \E r \in Requests \cup Repeated : SendRequest(r) \/ SendFails(r) \/ SendUnsupported(r)
    \/ \E n \in 1 .. Len(line) : OnData(n)
    \/ HandleTimeout \/ Destroy
    \/ \E kind \in {"data", "invalid", "absent"} : Answer(kind)
    \/ Lost

\* Only the response timer is bound to fire.
Spec == Init /\ [][Next]_vars /\ WF_vars(HandleTimeout)

----------------------------------------------------------------------------
\* Properties

\* Every variable of the transport keeps its type.
TypeOK ==
    /\ transaction \in Exchange \cup {None}
    /\ adu \in Seq(Byte)
    /\ reader \in Seq(Byte)
    /\ timeout \in Exchange \cup {None}
    /\ destroyed \in BOOLEAN
    /\ owed \in Seq(Byte) /\ line \in Seq(Reply)
    /\ sent \in 0 .. MaxExchanges
    /\ request \in [Exchange -> Requests \cup {NoRequest, Replaced}]
    /\ outcome \in [Exchange -> Outcome]
    /\ ends \in [Exchange -> Nat]
    /\ inStep \in SUBSET Exchange /\ dirty \in SUBSET Exchange

\* The exchanges for which sendRequest throws although it completes their transaction.
Unknown == {e \in 1 .. sent : request[e].code \notin Known}

\* sendRequest refuses every request while a transaction is kept, so that one
\* without a timer blocks the transport until the adapter happens to report an
\* error.  There are three ways to that: an unknown function, a reset that timed out
\* or failed and is sent again, and createResponse that throws on what a request which
\* could not be built left in the reader.  What blocks was completed before, and what
\* has a timer was not; nothing else is ever kept or timed.
BlockedOnlyByFailures ==
    /\ timeout # None => timeout = transaction /\ ends[timeout] = 0
    /\ (transaction # None /\ timeout = None) =>
         /\ ends[transaction] > 0
         /\ transaction \in Unknown \cup dirty
    /\ (transaction = None /\ reader # <<>>) =>
         \A i \in 1 .. Len(reader) : reader[i].of = None

\* A transaction is completed for a sendRequest that threw, or more than once for one
\* call, only in those three cases: whatever replies the adapter sends late, twice or
\* in one piece, every other one is completed once for each time it is sent, and not
\* at all if it could not be built.
EndsOnce ==
    \A e \in 1 .. sent :
        /\ outcome[e] = "refused" => ends[e] = 0
        /\ e \notin Unknown \cup dirty => ends[e] <= 1

\* The bytes of a response are those of its own chunks, and a write is confirmed by
\* replies to its own chunks, if the exchange began with nothing collected, owed
\* or on the line: losses within an exchange cannot put it out of step.
OwnReplies == \A e \in inStep : outcome[e] # "foreign"

\* Each exchange that sendRequest begins ends, unless the transport is destroyed, and
\* no two are open at a time: what Master relies on.  It does not get that it ends
\* only once from an exchange begun on a dirty reader, and an unknown function, or a
\* reset that is sent again, is completed without having begun.
Phase(e) ==
    IF e > sent \/ outcome[e] = "refused" THEN "new"
    ELSE IF e \in Unknown \/ ends[e] > 1 THEN "spoiled"
    ELSE IF ends[e] = 0 THEN "open" ELSE "ended"
Contract == INSTANCE TransportContract WITH
    Capacity <- 1, phase <- [e \in Exchange |-> Phase(e)], closed <- destroyed,
    faulty <- Unknown \cup dirty, surviving <- {}
ImplementsContract == Contract!Spec

=============================================================================
