-------------------------------- MODULE Codecs --------------------------------
(***************************************************************************)
(* The codecs of lib/functions: how requests and responses are made,       *)
(* written to bytes and read back, and one exchange of a master and a      *)
(* slave that both use them.                                               *)
(*                                                                         *)
(* A class is described by its function code, the shortest buffer its      *)
(* fromBuffer accepts and its fields; a message by the values of these     *)
(* fields, numbers or sequences.  What is done with a field, by the        *)
(* constructor, toBuffer and fromBuffer, depends on its kind.  The two     *)
(* kinds of out-of-range reads differ: Buffer.copy leaves zeros for what   *)
(* is missing, the readers of h5.buffers and Buffer throw.                 *)
(***************************************************************************)
EXTENDS Integers, Sequences, FiniteSets, SequencesExt, FiniteSetsExt

CONSTANTS
    Value(_),         \* the values tried for a field
    Cut               \* how many bytes a reply may lose at its end

Undefined == -1       \* an option that was not given
NotANumber == -2

ASSUME CutAssumption == Cut \subseteq Nat

VARIABLES
    function,     \* the request class and the response class in use
    message,      \* the request, as made by its constructor
    frame,        \* the request as bytes
    received,     \* what the slave read from them
    answer,       \* the slave's response or exception
    reply,        \* its bytes
    lost,         \* how many of them did not arrive
    result        \* what createResponse made of the others

codecsVars == <<function, message, frame, received, answer, reply, lost, result>>

----------------------------------------------------------------------------
\* Kinds of fields

Number(kind, lo, hi, default) == [kind |-> kind, lo |-> lo, hi |-> hi, default |-> default]
Address == Number("word", 0, 65535, 0)
Quantity(max) == Number("word", 1, max, 1)
RegisterValue == Number("word", 0, 65535, 0)
Octet(lo, hi, default) == Number("octet", lo, hi, default)
Coil == Number("coil", 0, 1, 0)

\* Bytes: after their count, after the count of registers and their own, to the end;
\* bits, likewise; file records.
Bytes(kind, lo, hi, step) == [kind |-> kind, lo |-> lo, hi |-> hi, step |-> step]
Counted(lo, hi) == Bytes("counted", lo, hi, 1)
Rest(lo, hi) == Bytes("rest", lo, hi, 1)
Records(kind) == Bytes(kind, 0, 65535, 1)

Numeric == {"word", "octet", "limit", "flags", "coil"}
OfRecords == {"reads", "data", "writes"}
OfBits == {"states", "coils"}
Byte == 0 .. 255

----------------------------------------------------------------------------
\* Constructors

\* prepareNumericOption, parseInt aside.
Prepare(f, v) == IF f.kind \in Numeric /\ v = Undefined THEN f.default ELSE v

FileNumber == 1 .. 65535
RecordNumber == 0 .. 9999
ReadLength == 1 .. 120
DataLength == 2 .. 240
Even(data) == Len(data) \in DataLength /\ Len(data) % 2 = 0

SubFits(kind, s) ==
    CASE kind = "reads" -> s.file \in FileNumber /\ s.record \in RecordNumber /\ s.length \in ReadLength
      [] kind = "data" -> Even(s.data)
      [] kind = "writes" -> s.file \in FileNumber /\ s.record \in RecordNumber /\ Even(s.data)

Fits(f, v) ==
    CASE f.kind \in Numeric -> v \in f.lo .. f.hi
      [] f.kind \in OfRecords -> \A i \in DOMAIN v : SubFits(f.kind, v[i])
      [] OTHER -> Len(v) \in f.lo .. f.hi /\ Len(v) % f.step = 0

Rejected == [ok |-> FALSE, values |-> <<>>]
Accepted(values) == [ok |-> TRUE, values |-> values]

\* new of a class; the diagnostics request demands that its arguments are given.
New(c, m) ==
    LET prepared == [i \in DOMAIN m |-> Prepare(c.fields[i], m[i])]
    IN  IF /\ c.given => \A i \in DOMAIN m : m[i] \notin {Undefined, 0}
           /\ \A i \in DOMAIN m : Fits(c.fields[i], prepared[i])
        THEN Accepted(prepared) ELSE Rejected

\* fromOptions: the limit of a FIFO is also replaced when it is 0.
FromOptions(c, m) ==
    New(c, [i \in DOMAIN m |-> IF c.fields[i].kind = "limit" /\ m[i] = 0 THEN Undefined ELSE m[i]])

----------------------------------------------------------------------------
\* toBuffer

Word(n) == <<(n \div 256) % 256, n % 256>>
CeilDiv(n, d) == (n + d - 1) \div d

\* pushBits: the first bit is the lowest of the first byte.
Bit(bits, i) == IF i <= Len(bits) THEN bits[i] ELSE 0
Packed(bits, i) ==
    Bit(bits, i + 1) + 2 * Bit(bits, i + 2) + 4 * Bit(bits, i + 3) + 8 * Bit(bits, i + 4)
        + 16 * Bit(bits, i + 5) + 32 * Bit(bits, i + 6) + 64 * Bit(bits, i + 7) + 128 * Bit(bits, i + 8)
PushBits(bits) == [j \in 1 .. CeilDiv(Len(bits), 8) |-> Packed(bits, 8 * (j - 1))]

\* Mutant: the length of a record to write is its bytes, not its registers.
PushSubInBytes(kind, s) ==
    IF kind = "data" THEN <<Len(s.data) + 1, 6>> \o s.data
    ELSE <<6>> \o Word(s.file) \o Word(s.record)
             \o Word(IF kind = "reads" THEN s.length ELSE Len(s.data)) \o s.data
PushSub(kind, s) ==
    CASE kind = "reads" -> <<6>> \o Word(s.file) \o Word(s.record) \o Word(s.length)
      [] kind = "data" -> <<Len(s.data) + 1, 6>> \o s.data
      [] kind = "writes" -> <<6>> \o Word(s.file) \o Word(s.record) \o Word(Len(s.data) \div 2) \o s.data
PushSubs(kind, subs) == FlattenSeq([i \in DOMAIN subs |-> PushSub(kind, subs[i])])

\* Counts are written to one byte, whatever they are.
Push(f, v) ==
    CASE f.kind \in {"octet", "limit", "flags"} -> <<v>>
      [] f.kind = "word" -> Word(v)
      [] f.kind = "coil" -> IF v = 1 THEN <<255, 0>> ELSE <<0, 0>>
      [] f.kind = "counted" -> <<Len(v) % 256>> \o v
      [] f.kind = "registers" -> Word(Len(v) \div 2) \o <<Len(v) % 256>> \o v
      [] f.kind = "states" -> <<CeilDiv(Len(v), 8) % 256>> \o PushBits(v)
      [] f.kind = "coils" -> Word(Len(v)) \o <<CeilDiv(Len(v), 8) % 256>> \o PushBits(v)
      [] f.kind \in {"rest", "shifted"} -> v
      [] f.kind = "generic" -> Tail(v)
      [] f.kind = "identity" -> <<(Len(v) - 2) % 256>> \o v
      [] f.kind \in OfRecords ->
            LET subs == PushSubs(f.kind, v) IN <<Len(subs) % 256>> \o subs

\* No class has more than two fields.
Part(c, values, i) == IF i \in DOMAIN values THEN Push(c.fields[i], values[i]) ELSE <<>>
ToBuffer(c, values) == <<c.code>> \o Part(c, values, 1) \o Part(c, values, 2)

----------------------------------------------------------------------------
\* fromBuffer

\* What a reader gives: a value and where it stopped, or an error.
Read(value, next) == [ok |-> TRUE, value |-> value, next |-> next]
Thrown == [ok |-> FALSE, value |-> 0, next |-> 0]

Has(b, at, n) == n >= 0 /\ at + n - 1 <= Len(b)

\* readUInt16BE.
WordAt(b, at) == (256 * b[at]) + b[at + 1]
Weight == <<1, 2, 4, 8, 16, 32, 64, 128>>
BitsAt(b, at, n) == [i \in 1 .. n |-> (b[at + ((i - 1) \div 8)] \div Weight[1 + ((i - 1) % 8)]) % 2]

\* Buffer.alloc and copy: the n bytes from at on, zeros where there are none.
Copy(b, at, n) == [i \in 1 .. n |-> IF at + i - 1 <= Len(b) THEN b[at + i - 1] ELSE 0]

Sub(file, record, length, data) ==
    [file |-> file, record |-> record, length |-> length, data |-> data]

ShiftSub(kind, b, at) ==
    CASE kind = "data" ->
            IF Has(b, at, 2) /\ b[at + 1] = 6 /\ Has(b, at + 2, b[at] - 1)
            THEN Read(Sub(0, 0, 0, SubSeq(b, at + 2, at + b[at])), at + b[at] + 1) ELSE Thrown
      [] OTHER ->
            IF ~Has(b, at, 7) \/ b[at] # 6 THEN Thrown
            ELSE LET file == WordAt(b, at + 1)
                     record == WordAt(b, at + 3)
                     length == WordAt(b, at + 5)
                 IN  IF kind = "reads" THEN Read(Sub(file, record, length, <<>>), at + 7)
                     ELSE IF ~Has(b, at + 7, 2 * length) THEN Thrown
                     ELSE Read(Sub(file, record, 0, SubSeq(b, at + 7, at + 6 + (2 * length))),
                               at + 7 + (2 * length))

\* The records up to the end of the buffer; their count is skipped.
ShiftSubs(kind, b, start) ==
    LET from[at \in start .. Len(b) + 1] ==
            IF at > Len(b) THEN Read(<<>>, at)
            ELSE LET first == ShiftSub(kind, b, at)
                     others == from[first.next]
                 IN  IF ~first.ok THEN Thrown
                     ELSE IF ~others.ok THEN Thrown
                     ELSE Read(<<first.value>> \o others.value, others.next)
    IN  from[start]

Shift(f, b, at) ==
    IF ~Has(b, at, CASE f.kind \in {"word", "coil", "coils"} -> 2
                     [] f.kind = "registers" -> 3
                     [] f.kind \in {"rest", "shifted", "generic"} -> 0
                     [] OTHER -> 1) THEN Thrown
    ELSE CASE f.kind \in {"octet", "limit"} -> Read(b[at], at + 1)
           [] f.kind = "flags" -> Read(b[at] % 4, at + 1)
           [] f.kind = "word" -> Read(WordAt(b, at), at + 2)
           [] f.kind = "coil" -> Read(IF WordAt(b, at) = 65280 THEN 1 ELSE 0, at + 2)
           [] f.kind = "counted" -> Read(Copy(b, at + 1, b[at]), at + 1 + b[at])
           [] f.kind = "registers" -> Read(Copy(b, at + 3, b[at + 2]), at + 3 + b[at + 2])
           [] f.kind = "states" ->
                 IF Has(b, at + 1, b[at]) THEN Read(BitsAt(b, at + 1, 8 * b[at]), at + 1 + b[at]) ELSE Thrown
           [] f.kind = "coils" ->
                 LET n == WordAt(b, at)
                 IN  IF Has(b, at + 3, CeilDiv(n, 8)) THEN Read(BitsAt(b, at + 3, n), at + 3 + CeilDiv(n, 8))
                     ELSE Thrown
           [] f.kind \in {"rest", "generic"} -> Read(SubSeq(b, at, Len(b)), Len(b) + 1)
           [] f.kind = "shifted" -> Read(Copy(b, at + 1, Len(b) - at + 1), Len(b) + 1)
           [] f.kind = "identity" -> Read(SubSeq(b, at + 1, Len(b)), Len(b) + 1)
           [] f.kind \in OfRecords -> ShiftSubs(f.kind, b, at + 1)

ShiftField(c, b, i, before) ==
    IF ~before.ok \/ i \notin DOMAIN c.fields THEN before
    ELSE LET read == Shift(c.fields[i], b, before.next)
         IN  IF read.ok THEN Read(Append(before.value, read.value), read.next) ELSE Thrown
ShiftAll(c, b) == ShiftField(c, b, 2, ShiftField(c, b, 1, Read(<<>>, 2)))

\* Mutant: the function code is not looked at.
FromBufferOfAnyCode(c, b) ==
    IF Len(b) < c.min \/ (c.exact /\ Len(b) # c.min) \/ ~ShiftAll(c, b).ok THEN Rejected
    ELSE New(c, ShiftAll(c, b).value)
FromBuffer(c, b) ==
    IF \/ Len(b) < c.min \/ (c.exact /\ Len(b) # c.min)
       \/ b = <<>> \/ Head(b) \notin c.expects \/ ~ShiftAll(c, b).ok
    THEN Rejected ELSE New(c, ShiftAll(c, b).value)

----------------------------------------------------------------------------
\* The classes

Plain(code, min, fields) ==
    [code |-> code, expects |-> {code}, min |-> min, exact |-> FALSE, given |-> FALSE, fields |-> fields]

\* A request class and the class of its responses.
Request(class, response) == [class |-> class, response |-> response]

Span(code, max) == Plain(code, 5, <<Address, Quantity(max)>>)
States(code) == Plain(code, 2, <<Bytes("states", 1, 2000, 1)>>)
Registers(code) == Plain(code, 4, <<Bytes("counted", 2, 250, 2)>>)
WriteRest(code) == Plain(code, 4, <<Address, Rest(1, 250)>>)
Status(code) == Plain(code, 2, <<Octet(0, 250, 0)>>)

ReadCoilsResponse == States(1)
ReadCoilsRequest == Request(Span(1, 2000), ReadCoilsResponse)

ReadDiscreteInputsResponse == States(2)
ReadDiscreteInputsRequest == Request(Span(2, 2000), ReadDiscreteInputsResponse)

ReadHoldingRegistersResponse == Registers(3)
ReadHoldingRegistersRequest == Request(Span(3, 125), ReadHoldingRegistersResponse)

ReadInputRegistersResponse == Registers(4)
ReadInputRegistersRequest == Request(Span(4, 125), ReadInputRegistersResponse)

WriteSingleCoilResponse == Plain(5, 5, <<Address, Coil>>)
WriteSingleCoilRequest == Request(Plain(5, 1, <<Address, Coil>>), WriteSingleCoilResponse)

WriteSingleRegisterResponse == Plain(6, 5, <<Address, RegisterValue>>)
WriteSingleRegisterRequest == Request(Plain(6, 5, <<Address, RegisterValue>>), WriteSingleRegisterResponse)

ReadDiagnosticsResponse == Span(8, 125)
ReadDiagnosticsRequest == Request([Span(8, 125) EXCEPT !.given = TRUE], ReadDiagnosticsResponse)

WriteMultipleCoilsResponse == Span(15, 1968)
WriteMultipleCoilsRequest ==
    Request(Plain(15, 1, <<Address, Bytes("coils", 1, 1968, 1)>>), WriteMultipleCoilsResponse)

WriteMultipleRegistersResponse == Span(16, 123)
WriteMultipleRegistersRequest ==
    Request(Plain(16, 8, <<Address, Bytes("registers", 2, 246, 2)>>), WriteMultipleRegistersResponse)

\* Product, run indicator and three numbers of a version, then any values.
ReportSlaveIdResponse == Plain(17, 7, <<Bytes("identity", 5, 65535, 1)>>)
ReportSlaveIdRequest == Request([Plain(17, 1, <<>>) EXCEPT !.exact = TRUE], ReportSlaveIdResponse)

ReadFileRecordResponse == Plain(20, 6, <<Records("data")>>)
ReadFileRecordRequest == Request(Plain(20, 9, <<Records("reads")>>), ReadFileRecordResponse)

WriteFileRecordResponse == Plain(21, 11, <<Records("writes")>>)
WriteFileRecordRequest == Request(Plain(21, 11, <<Records("writes")>>), WriteFileRecordResponse)

ReadFifo8Response == Plain(65, 3, <<Number("flags", 0, 3, 0), Counted(0, 250)>>)
ReadFifo8Request ==
    Request(Plain(65, 3, <<Octet(0, 255, 0), Number("limit", 0, 250, 250)>>), ReadFifo8Response)

WriteFifo8Response == Status(66)
WriteFifo8Request == Request(Plain(66, 4, <<Octet(0, 255, 0), Counted(1, 250)>>), WriteFifo8Response)

ReadObjectResponse == Plain(67, 2, <<Counted(0, 500)>>)
ReadObjectRequest == Request(Plain(67, 2, <<Octet(0, 255, 0)>>), ReadObjectResponse)

WriteObjectResponse == Status(68)
WriteObjectRequest == Request(Plain(68, 4, <<Octet(0, 255, 0), Counted(1, 500)>>), WriteObjectResponse)

ReadMemoryResponse == Plain(69, 2, <<Rest(0, 250)>>)
ReadMemoryRequest == Request(Plain(69, 4, <<Address, Octet(1, 250, 250)>>), ReadMemoryResponse)

WriteMemoryResponse == Status(70)
WriteMemoryRequest == Request(WriteRest(70), WriteMemoryResponse)

WriteMemoryVerifyResponse == Status(100)
WriteMemoryVerifyRequest == Request(WriteRest(100), WriteMemoryVerifyResponse)

\* The values of a command are read from one place too far.
CommandResponse == Plain(71, 2, <<Octet(0, 255, 0), Rest(0, 500)>>)
CommandRequest ==
    Request(Plain(71, 2, <<Octet(0, 255, 0), Bytes("shifted", 0, 65535, 1)>>), CommandResponse)

\* fromBuffer of the generic request compares the code with a property that the class
\* does not have; that of the generic response compares nothing and takes the second
\* byte for the code: its value is the code and the values after it.
GenericResponse(code) ==
    [Plain(code, 2, <<Bytes("generic", 1, 65535, 1)>>) EXCEPT !.expects = 0 .. 255]
GenericRequest(code) ==
    Request([Plain(code, 2, <<Rest(0, 65535)>>) EXCEPT !.expects = {}], GenericResponse(code))

\* index.js: the request class of a function code; 0x42 names a class that does not
\* exist.
Registered == {
    ReadCoilsRequest, ReadDiscreteInputsRequest, ReadHoldingRegistersRequest,
    ReadInputRegistersRequest, WriteSingleCoilRequest, WriteSingleRegisterRequest,
    ReadDiagnosticsRequest, WriteMultipleCoilsRequest, WriteMultipleRegistersRequest,
    ReportSlaveIdRequest, ReadFileRecordRequest, WriteFileRecordRequest, ReadFifo8Request,
    ReadObjectRequest, WriteObjectRequest, ReadMemoryRequest, WriteMemoryRequest,
    CommandRequest, WriteMemoryVerifyRequest }

\* Every function of the library, with those no function code leads to.
Function == Registered \cup {WriteFifo8Request, GenericRequest(7)}
Class == {f.class : f \in Function} \cup {f.response : f \in Function}

\* What the values of a field are: the constructors take them as they are given and
\* look at their ranges only.
FileRecord(kind) == [
    file : IF kind = "data" THEN {0} ELSE Nat,
    record : IF kind = "data" THEN {0} ELSE Nat,
    length : IF kind = "reads" THEN Nat ELSE {0},
    data : IF kind = "reads" THEN {<<>>} ELSE Seq(Byte)]
Type(f) ==
    IF f.kind \in Numeric THEN Int
    ELSE IF f.kind \in OfRecords THEN Seq(FileRecord(f.kind))
    ELSE IF f.kind \in OfBits THEN Seq({0, 1})
    ELSE Seq(Byte)

ASSUME ValueAssumption ==
    \A c \in Class : \A i \in DOMAIN c.fields : Value(c.fields[i]) \subseteq Type(c.fields[i])

----------------------------------------------------------------------------
\* Exceptions

ExceptionResponse(code, exception) == [code |-> code, exception |-> exception]
ExceptionToBuffer(e) == <<(e.code + 128) % 256, e.exception>>

ExceptionFromBuffer(b) ==
    IF Len(b) < 2 \/ Head(b) <= 128 THEN Rejected
    ELSE Accepted(ExceptionResponse(Head(b) - 128, b[2]))

Result(how, read) ==
    [how |-> IF read.ok THEN how ELSE "rejected", values |-> read.values]

\* createExceptionOrResponse: an exception of any function will do.
CreateResponse(f, b) ==
    IF b # <<>> /\ Head(b) > 128 THEN Result("exception", ExceptionFromBuffer(b))
    ELSE Result("response", FromBuffer(f.response, b))

----------------------------------------------------------------------------
\* An exchange

NoResult == [how |-> "none", values |-> <<>>]
NoReply == [by |-> "none", values |-> <<>>]

CodecsInit ==
    /\ function = ReadCoilsRequest /\ message = <<>> /\ frame = <<>>
    /\ received = NoResult /\ answer = NoReply /\ reply = <<>> /\ lost = 0
    /\ result = NoResult

\* One value for each field of a class; classes have at most two.
Messages(c) ==
    CASE Len(c.fields) = 0 -> {<<>>}
      [] Len(c.fields) = 1 -> {<<v>> : v \in Value(c.fields[1])}
      [] OTHER -> {<<v, w>> : v \in Value(c.fields[1]), w \in Value(c.fields[2])}

Sends(f, made) ==
    /\ frame = <<>>
    /\ made.ok
    /\ function' = f
    /\ message' = made.values
    /\ frame' = ToBuffer(f.class, made.values)
    /\ UNCHANGED <<received, answer, reply, lost, result>>

\* Request.fromOptions, by function code.
RequestFromOptions == \E f \in Registered : \E m \in Messages(f.class) : Sends(f, FromOptions(f.class, m))

\* What the helpers of Master pass to the constructors.  Options in the place of a
\* length stand for the length 1, those in the place of a limit for null, which is not
\* a number; a diagnostics request gets one argument, so that its constructor throws.
Passed(f, m) ==
    CASE f = ReadDiagnosticsRequest -> {<<m[1], Undefined>>}
      [] f = ReadFifo8Request /\ m[2] = Undefined -> {m, <<m[1], NotANumber>>}
      [] f = ReadMemoryRequest /\ m[2] = Undefined -> {m, <<m[1], 1>>}
      [] OTHER -> {m}

Helper ==
    \E f \in Function :
        \E m \in Messages(f.class) : \E passed \in Passed(f, m) : Sends(f, New(f.class, passed))

\* The slave reads the request, and answers with a response or an exception.
SlaveReads ==
    /\ frame # <<>> /\ reply = <<>> /\ received = NoResult
    /\ received' = Result("request", FromBuffer(function.class, frame))
    /\ UNCHANGED <<function, message, frame, answer, reply, lost, result>>

SlaveResponds(m) ==
    /\ frame # <<>> /\ reply = <<>>
    /\ New(function.response, m).ok
    /\ answer' = [by |-> "response", values |-> New(function.response, m).values]
    /\ reply' = ToBuffer(function.response, New(function.response, m).values)
    /\ UNCHANGED <<function, message, frame, received, lost, result>>

\* An exception, of this function or of another one.
SlaveRefuses(code, exception) ==
    /\ frame # <<>> /\ reply = <<>>
    /\ answer' = [by |-> "exception", values |-> ExceptionResponse(code, exception)]
    /\ reply' = ExceptionToBuffer(ExceptionResponse(code, exception))
    /\ UNCHANGED <<function, message, frame, received, lost, result>>

\* A response to a request of another function.
OtherResponds(f, m) ==
    /\ frame # <<>> /\ reply = <<>>
    /\ f.class.code # function.class.code
    /\ New(f.response, m).ok
    /\ answer' = [by |-> "other", values |-> <<>>]
    /\ reply' = ToBuffer(f.response, New(f.response, m).values)
    /\ UNCHANGED <<function, message, frame, received, lost, result>>

\* The reply arrives without its last n bytes.
MasterReads(n) ==
    /\ reply # <<>> /\ result = NoResult
    /\ n <= Len(reply)
    /\ lost' = n
    /\ result' = CreateResponse(function, SubSeq(reply, 1, Len(reply) - n))
    /\ UNCHANGED <<function, message, frame, received, answer, reply>>

CodecsNext ==
    \/ RequestFromOptions \/ Helper
    \/ SlaveReads
    \/ \E m \in Messages(function.response) : SlaveResponds(m)
    \/ \E code \in {function.class.code, 127}, exception \in {1, 128} : SlaveRefuses(code, exception)
    \/ \E f \in {ReadCoilsRequest, ReadMemoryRequest, CommandRequest} :
          \E m \in Messages(f.response) : OtherResponds(f, m)
    \/ \E n \in Cut : MasterReads(n)

CodecsSpec == CodecsInit /\ [][CodecsNext]_codecsVars

----------------------------------------------------------------------------
\* Properties

Holds(c, values, kind, Bad(_)) ==
    \E i \in DOMAIN values : c.fields[i].kind = kind /\ Bad(values[i])

\* What a slave gets of the value of a field: of counted bytes as many as their count of
\* eight bits says, of the values of a command those behind the first and a zero.
Carried(f, v) ==
    CASE f.kind = "counted" -> SubSeq(v, 1, Len(v) % 256)
      [] f.kind = "shifted" -> [i \in 1 .. Len(v) |-> Bit(v, i + 1)]
      [] OTHER -> v

\* A request that its constructor accepts is what the slave reads, whatever the class,
\* the options left out and the limits reached, with two exceptions, of which the slave
\* reads exactly what Carried says: the values of a command, and objects above 255
\* bytes.  The tests allow an object 250 bytes and the constructor 500; up to 255 none
\* loses a byte.  Refused are only generic requests, empty lists of file records and
\* objects of which the count leaves nothing.
RequestArrives ==
    LET c == function.class
    IN  /\ received.how = "request" =>
            received.values = [i \in DOMAIN message |-> Carried(c.fields[i], message[i])]
        /\ received.how = "rejected" =>
            \/ Holds(c, message, "counted", LAMBDA v : Len(v) > 255 /\ Len(v) % 256 = 0)
            \/ \E kind \in OfRecords : Holds(c, message, kind, LAMBDA v : v = <<>>)
            \/ c.expects = {}

\* What may become of a field of a response of which the last n bytes were lost.
Padded(v, w) == \A i \in DOMAIN w : w[i] = Bit(v, i)
Follows(f, v, w, n) ==
    CASE f.kind \in Numeric -> w = v
      [] f.kind = "states" -> Padded(v, w) /\ Len(w) = 8 * CeilDiv(Len(v), 8) /\ n = 0
      [] f.kind = "counted" ->
            /\ Len(w) = Len(v) % 256
            /\ \A i \in DOMAIN w : w[i] = IF i <= Len(v) - n THEN v[i] ELSE 0
      [] f.kind = "generic" -> w = SubSeq(v, 2, Len(v) - n)
      [] f.kind = "identity" -> w = SubSeq(v, 1, Len(v) - n)
      [] f.kind = "rest" -> w = SubSeq(v, 1, Len(v) - n)
      [] OTHER -> IsPrefix(w, v) /\ (n = 0 => w = v)

\* A reply is taken for an exception if and only if it is a whole one, and the exception
\* is the one the slave wrote; of which function it is is not looked at, as the tests
\* demand.  A response to another function is taken by the generic class only.  What is
\* read of a whole response is what the slave wrote: bits up to a whole byte, objects as
\* many bytes as their count says (all up to 255, where the tests allow 250 and the
\* constructor 500), generic values without the first one; it is refused only when it
\* is empty.  Of a response that lost its end numbers and bits are right or all of it is
\* refused; of counted bytes exactly those that are missing are zeros, and like whole
\* records are not missed where none were announced.
AnswerFaithful ==
    LET c == function.response
    IN  /\ result # NoResult =>
            (result.how = "exception" <=> answer.by = "exception" /\ lost = 0)
        /\ result.how = "exception" => result.values = answer.values
        /\ result.how = "response" =>
            IF answer.by = "other" THEN c.expects # {c.code}
            ELSE /\ answer.by = "response"
                 /\ \A i \in DOMAIN c.fields : Follows(c.fields[i], answer.values[i], result.values[i], lost)
        /\ (result.how = "rejected" /\ lost = 0) => Len(reply) < c.min \/ answer.by = "other"

=============================================================================
