------------------------ MODULE CS1179TransportProofs ------------------------
(***************************************************************************)
(* Proofs about CS1179Transport, for every set of requests and every       *)
(* number of exchanges: its types, that only three kinds of failure keep a *)
(* transaction without a timer or complete one without need, that replies  *)
(* are those to the chunks of their request, and that the contract is kept *)
(* but for the exchanges of these three kinds.                             *)
(***************************************************************************)
EXTENDS CS1179Transport, SequenceTheorems, FiniteSetTheorems, TLAPS

----------------------------------------------------------------------------
\* Requests as chunks

LEMMA OpcodesAreBytes ==
    ASSUME NEW a \in Nat, NEW code
    PROVE  ReadOpcode(a) \in Nat /\ WriteOpcode(code, a) \in Nat
  BY DEF ReadOpcode, WriteOpcode, ARAM_RD_CMD, HRAM_RD_CMD, E2_RD_CMD, ARAM_WR_CMD,
         HRAM_WR_CMD, INVALID, E2_WRVFY_CMD, E2_WR_CMD

LEMMA OffsetsAreBytes == ASSUME NEW a \in Nat PROVE Offset(a) \in Nat
<1>1. AddressTranslator(a - 512) \in Int
  BY DEF AddressTranslator
<1>2. AddressTranslator(a - 512) % 256 \in Nat /\ a % 256 \in Nat
  BY <1>1
<1> QED
  BY <1>2 DEF Offset

\* The requests that may be sent: those of the application, and what is left of a reset.
Sendable == Requests \cup {Replaced}

LEMMA RepeatedIsSendable == Requests \cup Repeated \subseteq Sendable
  BY DEF Repeated, Sendable

LEMMA RequestsAreTyped ==
    ASSUME NEW r \in Sendable
    PROVE  /\ r.code \in Nat /\ r.address \in Nat /\ r.count \in Nat /\ r.reset \in BOOLEAN
           /\ r.code \in OfMemory => r.count > 0
<1>1. CASE r \in Requests
  <2>1. r \in Request /\ (r.code \in OfMemory => r.count > 0)
    BY <1>1, RequestsAssumption
  <2> QED
    BY <2>1 DEF Request
<1>2. CASE r = Replaced
  BY <1>2 DEF Replaced, OfMemory, MB_READ_MEMORY, MB_WRITE_MEMORY, MB_WRITE_MEMORY_VERIFY
<1> QED
  BY <1>1, <1>2 DEF Sendable

LEMMA ChunkType ==
    ASSUME NEW e \in Exchange, NEW op \in Nat, NEW offset \in Nat
    PROVE  Chunk(e, op, offset) \in Byte
  BY DEF Chunk, Byte

\* A request of a known function becomes a list of chunks that is not empty.
LEMMA ChunksType ==
    ASSUME NEW e \in Exchange, NEW r \in Sendable
    PROVE  Chunks(e, r) \in Seq(Byte) /\ Chunks(e, r) # <<>>
<1> USE RequestsAreTyped
<1>1. \A i \in 1 .. r.count : Addresses(r)[i] \in Nat
  BY DEF Addresses
<1>2. ASSUME r.count > 0
      PROVE  /\ AduReadMemory(e, r) \in Seq(Byte) /\ AduReadMemory(e, r) # <<>>
             /\ AduWriteMemory(e, r) \in Seq(Byte) /\ AduWriteMemory(e, r) # <<>>
  <2>1. AduReadMemory(e, r) \in [1 .. r.count -> Byte]
    BY <1>1, ChunkType, OpcodesAreBytes, OffsetsAreBytes DEF AduReadMemory
  <2>2. AduWriteMemory(e, r) \in [1 .. r.count -> Byte]
    BY <1>1, ChunkType, OpcodesAreBytes, OffsetsAreBytes DEF AduWriteMemory
  <2>3. ASSUME NEW s \in [1 .. r.count -> Byte] PROVE s \in Seq(Byte) /\ s # <<>>
    <3>1. s \in Seq(Byte)
      BY SeqDef
    <3>2. Len(s) = r.count
      BY <3>1, LenProperties
    <3> QED
      BY <1>2, <3>1, <3>2
  <2> QED
    BY <2>1, <2>2, <2>3
<1>3. AduSlaveId(e) \in Seq(Byte) /\ AduSlaveId(e) # <<>>
  <2>1. \A i \in 1 .. 8 : SlaveIdOffsets[i] \in Nat
    BY DEF SlaveIdOffsets
  <2>2. AduSlaveId(e) \in [1 .. 8 -> Byte]
    BY <2>1, ChunkType DEF AduSlaveId, E2_RD_CMD
  <2>3. AduSlaveId(e) \in Seq(Byte)
    BY <2>2, SeqDef
  <2>4. Len(AduSlaveId(e)) = 8
    BY <2>2, <2>3, LenProperties
  <2>5. ASSUME NEW s \in Seq(Byte), Len(s) > 0 PROVE s # <<>>
    BY <2>5
  <2>6. Len(AduSlaveId(e)) > 0
    BY <2>4
  <2> QED
    BY <2>3, <2>5, <2>6
<1>4. AduCommand(e, r) \in Seq(Byte) /\ AduCommand(e, r) # <<>>
  BY ChunkType DEF AduCommand, HRAM_WR_CMD, USB_I2C_RESET
<1> QED
  BY <1>2, <1>3, <1>4 DEF Chunks, OfMemory

LEMMA PushedType ==
    ASSUME NEW r \in Sendable
    PROVE  /\ Pushed(r) \in Seq(Byte)
           /\ \A i \in 1 .. Len(Pushed(r)) : Pushed(r)[i].of = None
           /\ r.code = MB_READ_MEMORY => Pushed(r) = <<CodeByte(MB_READ_MEMORY)>>
<1>1. PushedCode(r) \in Nat
  BY RequestsAreTyped DEF PushedCode, MB_WRITE_MEMORY
<1>2. CodeByte(PushedCode(r)) \in Byte /\ CodeByte(PushedCode(r)).of = None
  BY <1>1 DEF CodeByte, Byte
<1>3. CASE r.code \in OfMemory
  <2>1. Pushed(r) = <<CodeByte(PushedCode(r))>>
    BY <1>3 DEF Pushed
  <2>2. r.code = MB_READ_MEMORY => PushedCode(r) = MB_READ_MEMORY
    BY DEF PushedCode, MB_READ_MEMORY, MB_WRITE_MEMORY_VERIFY
  <2> QED
    BY <1>2, <2>1, <2>2
<1>4. CASE r.code \notin OfMemory
  <2>1. Pushed(r) = <<>> /\ r.code # MB_READ_MEMORY
    BY <1>4 DEF Pushed, OfMemory
  <2> QED
    BY <2>1, EmptySeq
<1> QED
  BY <1>3, <1>4

LEMMA VerdictType ==
    ASSUME NEW e, NEW bytes PROVE Verdict(e, bytes) \in Outcome \ {"refused"}
  BY DEF Verdict, Outcome

LEMMA LineFacts ==
    ASSUME TypeOK, NEW n \in 1 .. Len(line)
    PROVE  /\ SubSeq(line, n + 1, Len(line)) \in Seq(Reply)
           /\ Head(line) \in Reply /\ Head(line).byte \in Byte
<1>1. line \in Seq(Reply) /\ Len(line) \in Nat /\ \A i \in 1 .. Len(line) : line[i] \in Reply
  BY ElementOfSeq, LenProperties DEF TypeOK
<1>2. SubSeq(line, n + 1, Len(line)) \in Seq(Reply)
  BY <1>1, SubSeqProperties
<1>3. line # <<>>
  BY <1>1, EmptySeq
<1>4. Head(line) \in Reply
  BY <1>1, <1>3, HeadTailProperties
<1> QED
  BY <1>2, <1>4 DEF Reply

LEMMA CollectedFacts ==
    ASSUME NEW bytes \in Seq(Byte), NEW b \in Byte
    PROVE  /\ Append(bytes, b) \in Seq(Byte) /\ Append(bytes, b) # <<>>
           /\ bytes # <<>> => Head(Append(bytes, b)) = Head(bytes)
<1>1. /\ Append(bytes, b) \in Seq(Byte) /\ Len(Append(bytes, b)) = Len(bytes) + 1
      /\ \A i \in 1 .. Len(bytes) : Append(bytes, b)[i] = bytes[i]
  BY AppendProperties
<1>2. Len(bytes) \in Nat
  BY LenProperties
<1>3. Append(bytes, b) # <<>>
  BY <1>1, <1>2, EmptySeq
<1>4. ASSUME bytes # <<>> PROVE Head(Append(bytes, b)) = Head(bytes)
  <2>1. 1 \in 1 .. Len(bytes)
    BY <1>2, <1>4, EmptySeq
  <2>2. Head(Append(bytes, b)) = Append(bytes, b)[1] /\ Head(bytes) = bytes[1]
    OBVIOUS
  <2> QED
    BY <1>1, <2>1, <2>2
<1> QED
  BY <1>1, <1>3, <1>4

----------------------------------------------------------------------------
\* The inductive invariant

\* An exchange that has not begun has no outcome, and the one that is kept has begun and
\* could be built or was not even tried.
Begun ==
    /\ \A e \in Exchange : e > sent => ends[e] = 0 /\ outcome[e] = "none"
    /\ transaction <= sent
    /\ transaction # None => outcome[transaction] # "refused"

\* What a read that began with an empty reader collects is headed by the function code
\* getAdu put there, so createResponse does not throw.
HeadedByCode ==
    (/\ transaction # None
     /\ request[transaction].code = MB_READ_MEMORY
     /\ transaction \notin dirty)
       => reader # <<>> /\ Head(reader).op = MB_READ_MEMORY

Inv == TypeOK /\ BlockedOnlyByFailures /\ EndsOnce /\ Begun /\ HeadedByCode

LEMMA InitInv == Init => Inv
<1> SUFFICES ASSUME Init PROVE Inv
  OBVIOUS
<1>1. <<>> \in Seq(Byte) /\ <<>> \in Seq(Reply) /\ 0 \in 0 .. MaxExchanges
  BY EmptySeq, BoundAssumption
<1>2. outcome \in [Exchange -> Outcome] /\ ends \in [Exchange -> Nat]
  BY DEF Init, Outcome
<1>3. TypeOK
  BY <1>1, <1>2 DEF Init, TypeOK, None
<1> QED
  BY <1>3 DEF Init, Inv, BlockedOnlyByFailures, EndsOnce, Unknown, Begun, HeadedByCode, None

\* The exchange of a call is new.
LEMMA CalledFacts ==
    ASSUME Inv, NEW r \in Sendable, Called(r)
    PROVE  /\ sent + 1 \in Exchange /\ sent' = sent + 1 /\ sent' \in 0 .. MaxExchanges
           /\ request' \in [Exchange -> Requests \cup {NoRequest, Replaced}]
           /\ request' = [request EXCEPT ![sent + 1] = r]
           /\ transaction = None /\ timeout = None
           /\ ends[sent + 1] = 0 /\ outcome[sent + 1] = "none"
           /\ \A e \in Exchange : e # sent + 1 => request'[e] = request[e]
           /\ request'[sent + 1] = r
           /\ 1 .. sent' = (1 .. sent) \cup {sent + 1} /\ sent + 1 \notin 1 .. sent
           /\ 1 .. sent \subseteq Exchange
<1>1. sent \in Nat /\ sent + 1 \in Exchange /\ sent' = sent + 1 /\ transaction = None
  BY DEF Called, Free, Inv, TypeOK
<1>2. request' = [request EXCEPT ![sent + 1] = r]
  BY DEF Called
<1>3. timeout = None
  BY <1>1 DEF Inv, TypeOK, BlockedOnlyByFailures, None
<1>4. ends[sent + 1] = 0 /\ outcome[sent + 1] = "none"
  BY <1>1 DEF Inv, Begun
<1>5. sent' \in 0 .. MaxExchanges
  BY <1>1, BoundAssumption DEF Exchange
<1>6. request \in [Exchange -> Requests \cup {NoRequest, Replaced}]
  BY DEF Inv, TypeOK
<1>7. 1 .. sent' = (1 .. sent) \cup {sent + 1} /\ sent + 1 \notin 1 .. sent
  BY <1>1
<1>8. 1 .. sent \subseteq Exchange
  BY <1>1, <1>5, BoundAssumption DEF Exchange
<1>9. request' \in [Exchange -> Requests \cup {NoRequest, Replaced}]
  BY <1>2, <1>6 DEF Sendable
<1> QED
  BY <1>1, <1>2, <1>3, <1>4, <1>5, <1>6, <1>7, <1>8, <1>9

\* What the call leaves as it was: which of the earlier exchanges are Unknown.
LEMMA CalledUnknown ==
    ASSUME Inv, NEW r \in Sendable, Called(r)
    PROVE  Unknown' = IF r.code \in Known THEN Unknown ELSE Unknown \cup {sent + 1}
<1>1. \A e \in 1 .. sent : request'[e] = request[e]
  BY CalledFacts
<1> QED
  BY <1>1, CalledFacts DEF Unknown

LEMMA SendFailsInv == ASSUME Inv, NEW r \in Sendable, SendFails(r) PROVE Inv'
<1> USE CalledFacts DEF SendFails
<1>1. /\ reader' = reader \o Pushed(r)
      /\ UNCHANGED <<transaction, adu, timeout, destroyed, owed, line, ends, inStep, dirty>>
  BY DEF remote
<1>2. /\ reader' \in Seq(Byte)
      /\ Len(reader') = Len(reader) + Len(Pushed(r))
      /\ \A i \in 1 .. Len(reader') :
           reader'[i] = IF i <= Len(reader) THEN reader[i] ELSE Pushed(r)[i - Len(reader)]
  BY <1>1, PushedType, ConcatProperties DEF Inv, TypeOK
<1>3. outcome' \in [Exchange -> Outcome] /\ outcome' = [outcome EXCEPT ![sent + 1] = "refused"]
  BY DEF Inv, TypeOK, Outcome
<1>4. TypeOK'
  BY <1>1, <1>2, <1>3 DEF Inv, TypeOK
<1>5. \A i \in 1 .. Len(reader') : reader'[i].of = None
  <2>1. Len(reader) \in Nat /\ Len(Pushed(r)) \in Nat
    BY PushedType, LenProperties DEF Inv, TypeOK
  <2>2. \A i \in 1 .. Len(reader) : reader[i].of = None
    BY <2>1, EmptySeq DEF Inv, BlockedOnlyByFailures
  <2>3. TAKE i \in 1 .. Len(reader')
  <2>4. CASE i <= Len(reader)
    BY <1>2, <2>1, <2>2, <2>4
  <2>5. CASE ~(i <= Len(reader))
    <3>1. i - Len(reader) \in 1 .. Len(Pushed(r))
      BY <1>2, <2>1, <2>5
    <3> QED
      BY <1>2, <2>5, <3>1, PushedType
  <2> QED
    BY <2>4, <2>5
<1>6. BlockedOnlyByFailures'
  BY <1>1, <1>5 DEF BlockedOnlyByFailures
<1>7. EndsOnce'
  <2>1. Unknown \subseteq Unknown'
    BY CalledUnknown
  <2>2. ASSUME NEW e \in 1 .. sent PROVE outcome'[e] = outcome[e]
    BY <1>3 DEF Inv, TypeOK
  <2> QED
    BY <1>1, <2>1, <2>2 DEF Inv, EndsOnce
<1>8. Begun' /\ HeadedByCode'
  BY <1>1, <1>3 DEF Inv, TypeOK, Begun, HeadedByCode, None, Exchange
<1> QED
  BY <1>4, <1>6, <1>7, <1>8 DEF Inv

LEMMA SendUnsupportedInv == ASSUME Inv, NEW r \in Sendable, SendUnsupported(r) PROVE Inv'
<1> USE CalledFacts DEF SendUnsupported
<1>1. /\ transaction' = sent + 1 /\ adu' = <<>> /\ r.code \notin Known
      /\ UNCHANGED <<reader, timeout, destroyed, owed, line, inStep, dirty>>
  BY DEF remote
<1>2. /\ outcome' \in [Exchange -> Outcome] /\ ends' = [ends EXCEPT ![sent + 1] = 1]
      /\ outcome' = [outcome EXCEPT ![sent + 1] = "error"]
  BY DEF Inv, TypeOK, Outcome
<1>3. ends' \in [Exchange -> Nat]
  BY <1>2 DEF Inv, TypeOK
<1>4. TypeOK'
  BY <1>1, <1>2, <1>3, EmptySeq DEF Inv, TypeOK
<1>u. Unknown' = Unknown \cup {sent + 1}
  BY <1>1, CalledUnknown
<1>5. BlockedOnlyByFailures'
  <2>1. ends'[sent + 1] > 0
    BY <1>2 DEF Inv, TypeOK
  <2> QED
    BY <1>1, <1>u, <2>1 DEF BlockedOnlyByFailures, None, Exchange
<1>6. EndsOnce'
  <2>1. ASSUME NEW e \in 1 .. sent PROVE outcome'[e] = outcome[e] /\ ends'[e] = ends[e]
    BY <1>2 DEF Inv, TypeOK
  <2>2. outcome'[sent + 1] # "refused"
    BY <1>2 DEF Inv, TypeOK
  <2> QED
    BY <1>1, <1>u, <2>1, <2>2 DEF Inv, EndsOnce
<1>7. Begun'
  BY <1>1, <1>2 DEF Inv, TypeOK, Begun, Exchange
<1>8. HeadedByCode'
  BY <1>1 DEF HeadedByCode, Known
<1> QED
  BY <1>4, <1>5, <1>6, <1>7, <1>8 DEF Inv

LEMMA SendRequestInv == ASSUME Inv, NEW r \in Sendable, SendRequest(r) PROVE Inv'
<1> DEFINE e == sent + 1
<1>0. Called(r) /\ e \in Exchange
  BY CalledFacts DEF SendRequest
<1>1. /\ transaction' = e /\ adu' = Chunks(e, r) /\ reader' = reader \o Pushed(r)
      /\ owed' = Append(owed, Head(Chunks(e, r))) /\ timeout' = e
      /\ UNCHANGED <<destroyed, line, outcome, ends>>
  BY DEF SendRequest
<1>2. dirty' = IF reader # <<>> THEN dirty \cup {e} ELSE dirty
  BY DEF SendRequest
<1>3. inStep' \in SUBSET Exchange /\ dirty' \in SUBSET Exchange
  BY <1>0 DEF SendRequest, Inv, TypeOK
<1>4. Chunks(e, r) \in Seq(Byte) /\ Head(Chunks(e, r)) \in Byte
  BY <1>0, ChunksType, HeadTailProperties
<1>5. owed' \in Seq(Byte) /\ reader' \in Seq(Byte)
  BY <1>1, <1>4, AppendProperties, ConcatProperties, PushedType DEF Inv, TypeOK
<1>6. TypeOK'
  BY <1>0, <1>1, <1>3, <1>4, <1>5, CalledFacts DEF Inv, TypeOK
<1>7. BlockedOnlyByFailures'
  BY <1>0, <1>1, CalledFacts DEF BlockedOnlyByFailures, None, Exchange
<1>8. EndsOnce'
  <2>1. dirty \subseteq dirty' /\ Unknown \subseteq Unknown'
    BY <1>0, <1>2, CalledUnknown
  <2>2. ends'[e] = 0 /\ outcome'[e] # "refused"
    BY <1>0, <1>1, CalledFacts
  <2> QED
    BY <1>0, <1>1, <2>1, <2>2, CalledFacts DEF Inv, EndsOnce
<1>9. Begun'
  BY <1>0, <1>1, CalledFacts DEF Inv, TypeOK, Begun, Exchange
<1>10. HeadedByCode'
  <2> SUFFICES ASSUME r.code = MB_READ_MEMORY, e \notin dirty'
               PROVE  reader' # <<>> /\ Head(reader').op = MB_READ_MEMORY
    BY <1>0, <1>1, CalledFacts DEF HeadedByCode
  <2>1. reader = <<>> /\ Pushed(r) = <<CodeByte(MB_READ_MEMORY)>>
    BY <1>2, PushedType
  <2>2. reader' = <<CodeByte(MB_READ_MEMORY)>>
    BY <1>1, <2>1
  <2> QED
    BY <2>2 DEF CodeByte
<1> QED
  BY <1>6, <1>7, <1>8, <1>9, <1>10 DEF Inv

\* The end of the kept transaction, which is its first one unless it is of the three kinds.
LEMMA EndFacts ==
    ASSUME Inv, transaction # None, NEW how \in Outcome \ {"refused"}, Ends(transaction, how),
           UNCHANGED <<sent, request, dirty>>
    PROVE  /\ outcome' \in [Exchange -> Outcome] /\ ends' \in [Exchange -> Nat]
           /\ ends'[transaction] > 0 /\ timeout' = None
           /\ EndsOnce'
           /\ \A e \in Exchange : e > sent => ends'[e] = 0 /\ outcome'[e] = "none"
           /\ outcome'[transaction] # "refused"
<1> DEFINE k == transaction
<1>1. /\ k \in Exchange /\ k <= sent /\ sent \in Nat /\ ends \in [Exchange -> Nat]
      /\ k \in 1 .. sent
  BY DEF Inv, TypeOK, Begun, Exchange, None
<1>2. /\ ends' = [ends EXCEPT ![k] = ends[k] + 1] /\ timeout' = None
      /\ outcome' = [outcome EXCEPT ![k] = how]
  BY DEF Ends
<1>3. /\ outcome' \in [Exchange -> Outcome] /\ outcome'[k] = how
      /\ \A e \in Exchange : e # k => outcome'[e] = outcome[e]
  BY <1>1, <1>2 DEF Inv, TypeOK
<1>4. /\ ends' \in [Exchange -> Nat] /\ ends'[k] = ends[k] + 1 /\ ends[k] \in Nat
      /\ \A e \in Exchange : e # k => ends'[e] = ends[e]
  BY <1>1, <1>2
<1>5. ends[k] > 0 => k \in Unknown \cup dirty
  BY <1>1 DEF Inv, BlockedOnlyByFailures
<1>6. EndsOnce'
  <2>1. Unknown' = Unknown /\ 1 .. sent \subseteq Exchange
    BY <1>1, BoundAssumption DEF Unknown, Exchange, Inv, TypeOK
  <2>2. ASSUME NEW e \in 1 .. sent
        PROVE  /\ outcome'[e] = "refused" => ends'[e] = 0
               /\ e \notin Unknown \cup dirty => ends'[e] <= 1
    <3>1. e = k => ends'[e] = ends[k] + 1 /\ outcome'[e] # "refused"
      BY <1>3, <1>4
    <3>2. e # k => ends'[e] = ends[e] /\ outcome'[e] = outcome[e]
      BY <1>3, <1>4, <2>1
    <3> QED
      BY <1>4, <1>5, <3>1, <3>2 DEF Inv, EndsOnce
  <2> QED
    BY <2>1, <2>2 DEF EndsOnce
<1>7. \A e \in Exchange : e > sent => ends'[e] = 0 /\ outcome'[e] = "none"
  BY <1>1, <1>3, <1>4 DEF Inv, Begun, Exchange
<1> QED
  BY <1>2, <1>3, <1>4, <1>6, <1>7

\* Ending it with clearTransaction frees the transport.
LEMMA ClearInv ==
    ASSUME Inv, transaction # None, NEW how \in Outcome \ {"refused"}, Ends(transaction, how),
           ClearTransaction, UNCHANGED <<destroyed, owed, sent, request, inStep, dirty>>,
           line' \in Seq(Reply)
    PROVE  Inv'
<1>1. transaction' = None /\ adu' = <<>> /\ reader' = <<>>
  BY DEF ClearTransaction
<1>2. TypeOK'
  BY <1>1, EndFacts, EmptySeq DEF Inv, TypeOK, None
<1>3. BlockedOnlyByFailures'
  BY <1>1, EndFacts DEF BlockedOnlyByFailures
<1>4. Begun' /\ HeadedByCode'
  BY <1>1, EndFacts DEF Inv, TypeOK, Begun, HeadedByCode, None
<1> QED
  BY <1>2, <1>3, <1>4, EndFacts DEF Inv

\* A reply that is collected and changes nothing else of what the invariant relates.
LEMMA CollectInv ==
    ASSUME Inv, transaction # None, NEW b \in Byte, reader' = Append(reader, b),
           adu' \in Seq(Byte), owed' \in Seq(Byte), line' \in Seq(Reply),
           UNCHANGED <<transaction, timeout, destroyed, sent, request, outcome, ends, inStep, dirty>>
    PROVE  Inv'
<1>1. reader \in Seq(Byte)
  BY DEF Inv, TypeOK
<1>2. reader' \in Seq(Byte) /\ reader' # <<>> /\ (reader # <<>> => Head(reader') = Head(reader))
  BY <1>1, CollectedFacts
<1>3. TypeOK'
  BY <1>2 DEF Inv, TypeOK
<1>4. BlockedOnlyByFailures'
  BY DEF Inv, BlockedOnlyByFailures, Unknown
<1>5. EndsOnce' /\ Begun'
  BY DEF Inv, EndsOnce, Unknown, Begun
<1>6. HeadedByCode'
  BY <1>2 DEF Inv, HeadedByCode
<1> QED
  BY <1>3, <1>4, <1>5, <1>6 DEF Inv

LEMMA OnDataInv == ASSUME Inv, NEW n \in 1 .. Len(line), OnData(n) PROVE Inv'
<1>1. /\ line' \in Seq(Reply) /\ Head(line).byte \in Byte
      /\ UNCHANGED <<destroyed, sent, request, inStep, dirty>>
  <2>1. Arrives(n)
    BY DEF OnData, DataIgnored, ErrorReply, ChunkReply, LastReply, LastReplyRejected,
       ResetReply,
           UnsupportedReply, Counts
  <2> QED
    BY <2>1, LineFacts DEF Arrives, Inv
<1>2. CASE DataIgnored(n)
  BY <1>1, <1>2 DEF DataIgnored, Inv, TypeOK, BlockedOnlyByFailures, EndsOnce, Unknown,
     Begun, HeadedByCode
<1>3. CASE ErrorReply(n)
  BY <1>1, <1>3, ClearInv DEF ErrorReply, Counts, Outcome
<1>4. CASE ChunkReply(n)
  <2>1. adu \in Seq(Byte) /\ Len(adu) > 1 /\ Len(adu) \in Nat
    BY <1>4, LenProperties DEF ChunkReply, Inv, TypeOK
  <2>2. Tail(adu) \in Seq(Byte) /\ adu[2] \in Byte
    BY <2>1, HeadTailProperties, ElementOfSeq, EmptySeq
  <2>3. Append(owed, adu[2]) \in Seq(Byte)
    BY <2>2, AppendProperties DEF Inv, TypeOK
  <2> QED
    BY <1>1, <1>4, <2>2, <2>3, CollectInv DEF ChunkReply, Counts, Collected, NextChunk
<1>5. CASE LastReply(n)
  BY <1>1, <1>5, VerdictType, ClearInv DEF LastReply, Counts
<1>6. CASE LastReplyRejected(n)
  <2> USE DEF LastReplyRejected
  <2>1. /\ transaction # None /\ Ends(transaction, "error") /\ "error" \in Outcome \ {"refused"}
        /\ UNCHANGED <<transaction, adu, owed>> /\ reader' = Append(reader, Head(line).byte)
    BY <1>6 DEF Counts, Collected, Outcome
  <2>2. reader' \in Seq(Byte) /\ reader' # <<>> /\ (reader # <<>> => Head(reader') = Head(reader))
    BY <1>1, <2>1, CollectedFacts DEF Inv, TypeOK
  <2>3. transaction \in dirty
    BY <1>6, <2>1, <2>2 DEF Inv, HeadedByCode, Collected
  <2>4. TypeOK'
    BY <1>1, <2>1, <2>2, EndFacts DEF Inv, TypeOK, None
  <2>5. BlockedOnlyByFailures'
    BY <1>1, <2>1, <2>3, EndFacts DEF BlockedOnlyByFailures
  <2>6. Begun' /\ HeadedByCode'
    BY <1>1, <2>1, <2>3, EndFacts DEF Inv, Begun, HeadedByCode
  <2> QED
    BY <1>1, <2>1, <2>4, <2>5, <2>6, EndFacts DEF Inv
<1>7. CASE ResetReply(n)
  BY <1>1, <1>7, CollectInv DEF ResetReply, Counts, Collected, Inv, TypeOK
<1>8. CASE UnsupportedReply(n)
  BY <1>1, <1>8, CollectInv DEF UnsupportedReply, Counts, Collected, Inv, TypeOK
<1> QED
  BY <1>2, <1>3, <1>4, <1>5, <1>6, <1>7, <1>8 DEF OnData

LEMMA StepInv == Inv /\ [Next]_vars => Inv'
<1> SUFFICES ASSUME Inv, [Next]_vars PROVE Inv'
  OBVIOUS
<1>1. CASE HandleTimeout
  <2>1. timeout = transaction /\ transaction # None
    BY <1>1 DEF HandleTimeout, Inv, BlockedOnlyByFailures
  <2> QED
    BY <1>1, <2>1, ClearInv DEF HandleTimeout, remote, Outcome, Inv, TypeOK
<1>2. CASE Destroy
  <2>1. /\ destroyed' = TRUE /\ timeout' = None
        /\ UNCHANGED <<owed, line, sent, request, outcome, ends, inStep, dirty>>
    BY <1>2 DEF Destroy, remote, history
  <2>2. \/ transaction' = None /\ adu' = <<>> /\ reader' = <<>>
        \/ transaction = None /\ UNCHANGED <<transaction, adu, reader>>
    BY <1>2 DEF Destroy, ClearTransaction
  <2>3. TypeOK'
    BY <2>1, <2>2, EmptySeq DEF Inv, TypeOK, None
  <2>4. BlockedOnlyByFailures'
    BY <2>1, <2>2 DEF Inv, BlockedOnlyByFailures
  <2>5. EndsOnce' /\ Begun' /\ HeadedByCode'
    BY <2>1, <2>2 DEF Inv, TypeOK, EndsOnce, Unknown, Begun, HeadedByCode, None
  <2> QED
    BY <2>3, <2>4, <2>5 DEF Inv
<1>3. ASSUME owed # <<>>, owed' = Tail(owed), line' \in Seq(Reply), UNCHANGED <<port, history>>
      PROVE  Inv'
  <2>1. owed' \in Seq(Byte)
    BY <1>3, HeadTailProperties DEF Inv, TypeOK
  <2> QED
    BY <1>3, <2>1 DEF port, history, Inv, TypeOK, BlockedOnlyByFailures, EndsOnce, Unknown,
       Begun, HeadedByCode
<1>4. ASSUME NEW kind \in {"data", "invalid", "absent"}, Answer(kind) PROVE Inv'
  <2>1. owed # <<>> /\ Head(owed) \in Byte
    BY <1>4, HeadTailProperties DEF Answer, Inv, TypeOK
  <2>2. [kind |-> kind, byte |-> Head(owed)] \in Reply
    BY <2>1 DEF Reply
  <2>3. line' \in Seq(Reply)
    BY <1>4, <2>2, AppendProperties DEF Answer, Inv, TypeOK
  <2> QED
    BY <1>3, <1>4, <2>1, <2>3 DEF Answer
<1>5. CASE Lost
  BY <1>3, <1>5 DEF Lost, Inv, TypeOK
<1>6. CASE UNCHANGED vars
  BY <1>6 DEF vars, port, remote, history, Inv, TypeOK, BlockedOnlyByFailures, EndsOnce,
     Unknown, Begun,
              HeadedByCode
<1> QED
  BY <1>1, <1>2, <1>4, <1>5, <1>6, SendRequestInv, SendFailsInv, SendUnsupportedInv,
     OnDataInv,
     RepeatedIsSendable DEF Next

\* Every variable of the transport keeps its type, for every set of requests, those
\* outside the four banks and of unknown functions included.
THEOREM TypeCorrect == Spec => []TypeOK
<1>1. Inv => TypeOK
  BY DEF Inv
<1> QED
  BY <1>1, InitInv, StepInv, PTL DEF Spec

\* A transaction is kept without a timer, so that sendRequest refuses every later one,
\* only after an unknown function, a reset that is sent again, or createResponse that threw
\* on a dirty reader.
THEOREM BlockedOnlyThen == Spec => []BlockedOnlyByFailures
<1>1. Inv => BlockedOnlyByFailures
  BY DEF Inv
<1> QED
  BY <1>1, InitInv, StepInv, PTL DEF Spec

\* Whatever replies come late, twice or in one piece, only a transaction of those three
\* kinds is completed without having begun or a second time.
THEOREM CompletedOnce == Spec => []EndsOnce
<1>1. Inv => EndsOnce
  BY DEF Inv
<1> QED
  BY <1>1, InitInv, StepInv, PTL DEF Spec

----------------------------------------------------------------------------
\* What is open

\* Only the exchange that is kept is open.
KeptIsOpen ==
    /\ ~destroyed => \A e \in Exchange : Phase(e) = "open" => e = transaction
    /\ destroyed => timeout = None

OpenInv == Inv /\ KeptIsOpen

LEMMA InitOpen == Init => OpenInv
<1>1. Init => KeptIsOpen
  BY DEF Init, KeptIsOpen, Phase, Exchange, None
<1> QED
  BY <1>1, InitInv DEF OpenInv

----------------------------------------------------------------------------
\* Whose replies make a response

\* What the exchanges that began in step are numbered, and what getAdu found.
Clean == inStep \subseteq 1 .. sent /\ dirty \subseteq 1 .. sent /\ inStep \cap dirty = {}

\* In an exchange that began in step, what is collected and the chunks left make up the
\* request, and what is under way is the first of these chunks, the reply to it, or
\* nothing: replies and chunks take turns, so that a loss leaves nothing behind.
TakesTurns ==
    (transaction # None /\ transaction \in inStep /\ ~request[transaction].reset) =>
        /\ request[transaction] \in Sendable /\ request[transaction].code \in Known
        /\ adu # <<>>
        /\ reader \o adu = Pushed(request[transaction]) \o Chunks(transaction, request[transaction])
        /\ \/ owed = <<>> /\ line = <<>>
           \/ owed = <<Head(adu)>> /\ line = <<>>
           \/ /\ owed = <<>>
              /\ \E kind \in {"data", "invalid", "absent"} :
                    line = <<[kind |-> kind, byte |-> Head(adu)]>>

TurnInv == Inv /\ Clean /\ TakesTurns /\ OwnReplies

LEMMA InitTurn == Init => TurnInv
<1>1. Init => Clean /\ TakesTurns /\ OwnReplies
  BY DEF Init, Clean, TakesTurns, OwnReplies, None
<1> QED
  BY <1>1, InitInv DEF TurnInv

LEMMA SlaveIdLength == ASSUME NEW e \in Exchange PROVE Len(AduSlaveId(e)) = 8
<1>1. \A i \in 1 .. 8 : SlaveIdOffsets[i] \in Nat
  BY DEF SlaveIdOffsets
<1>2. AduSlaveId(e) \in [1 .. 8 -> Byte]
  BY <1>1, ChunkType DEF AduSlaveId, E2_RD_CMD
<1>3. AduSlaveId(e) \in Seq(Byte)
  BY <1>2, SeqDef
<1> QED
  BY <1>2, <1>3, LenProperties

\* Replies to all the chunks, and nothing else, make the response of the request.
LEMMA OwnVerdict ==
    ASSUME TypeOK, NEW e \in Exchange, request[e] \in Sendable, request[e].code \in Known,
           NEW bytes, bytes = Pushed(request[e]) \o Chunks(e, request[e])
    PROVE  Verdict(e, bytes) = "response"
<1> DEFINE r == request[e]
           c == Chunks(e, r)
           p == Pushed(r)
<1>1. c \in Seq(Byte) /\ c # <<>>
  BY ChunksType
<1>2. p \in Seq(Byte) /\ (r.code = MB_READ_MEMORY => p = <<CodeByte(MB_READ_MEMORY)>>)
  BY PushedType
<1>3. CASE r.code = MB_READ_MEMORY
  <2>1. p = <<CodeByte(MB_READ_MEMORY)>> /\ CodeByte(MB_READ_MEMORY) \in Byte
    BY <1>2, <1>3 DEF CodeByte, Byte, MB_READ_MEMORY
  <2>2. Tail(bytes) = c
    <3> HIDE DEF c
    <3> DEFINE b == CodeByte(MB_READ_MEMORY)
    <3> HIDE DEF b
    <3>1. <<b>> \in Seq(Byte) /\ Len(<<b>>) = 1 /\ bytes = <<b>> \o c
      BY <2>1 DEF b, c
    <3>2. bytes \in Seq(Byte) /\ Len(bytes) = 1 + Len(c)
      BY <1>1, <3>1, ConcatProperties
    <3>3. \A i \in 1 .. 1 + Len(c) : bytes[i] = IF i <= 1 THEN <<b>>[i] ELSE c[i - 1]
      BY <1>1, <3>1, ConcatProperties
    <3>4. Len(c) \in Nat
      BY <1>1, LenProperties
    <3>5. bytes # <<>>
      BY <3>2, <3>4
    <3>6. /\ Tail(bytes) \in Seq(Byte) /\ Len(Tail(bytes)) = Len(bytes) - 1
          /\ \A i \in 1 .. Len(bytes) - 1 : Tail(bytes)[i] = bytes[i + 1]
      BY <3>2, <3>5, HeadTailProperties
    <3>7. Len(Tail(bytes)) = Len(c)
      BY <3>2, <3>4, <3>6
    <3>8. ASSUME NEW i \in 1 .. Len(c) PROVE Tail(bytes)[i] = c[i]
      <4>1. /\ i \in 1 .. Len(bytes) - 1 /\ i + 1 \in 1 .. 1 + Len(c) /\ ~(i + 1 <= 1)
            /\ (i + 1) - 1 = i
        BY <3>2, <3>4
      <4> QED
        BY <3>3, <3>6, <4>1
    <3> QED
      BY <1>1, <3>6, <3>7, <3>8, SeqEqual
  <2> QED
    BY <1>3, <2>2 DEF Verdict, MB_SLAVEID, MB_READ_MEMORY
<1>4. CASE r.code = MB_SLAVEID
  <2>1. p = <<>> /\ c = AduSlaveId(e)
    BY <1>4 DEF Pushed, OfMemory, Chunks, MB_SLAVEID, MB_READ_MEMORY, MB_WRITE_MEMORY,
                MB_WRITE_MEMORY_VERIFY
  <2>2. bytes = c
    BY <1>1, <2>1, ConcatEmptySeq
  <2>3. Len(c) = 8
    BY <2>1, SlaveIdLength
  <2>4. Tail(c) = SubSeq(c, 2, Len(c))
    BY <1>1, TailIsSubSeq
  <2>5. SubSeq(bytes, 2, 8) = Tail(c)
    BY <2>2, <2>3, <2>4
  <2> QED
    BY <1>4, <2>5 DEF Verdict, MB_SLAVEID, MB_READ_MEMORY
<1>5. CASE r.code # MB_READ_MEMORY /\ r.code # MB_SLAVEID
  <2>1. SubSeq(bytes, Len(bytes) - Len(c) + 1, Len(bytes)) = c
    <3> HIDE DEF c, p
    <3>0. bytes = p \o c
      BY DEF c, p
    <3>1. Len(bytes) = Len(p) + Len(c) /\ Len(p) \in Nat /\ Len(c) \in Nat /\ Len(c) # 0
      BY <1>1, <1>2, <3>0, ConcatProperties, LenProperties, EmptySeq
    <3>2. /\ Len(p) + 1 \in Len(p) + 1 .. Len(p) + Len(c)
          /\ Len(p) + Len(c) \in Len(p) + 1 .. Len(p) + Len(c)
          /\ (Len(p) + 1) - Len(p) = 1 /\ (Len(p) + Len(c)) - Len(p) = Len(c)
          /\ Len(bytes) - Len(c) + 1 = Len(p) + 1
      BY <3>1
    <3>3. SubSeq(p \o c, Len(p) + 1, Len(p) + Len(c))
             = SubSeq(c, (Len(p) + 1) - Len(p), (Len(p) + Len(c)) - Len(p))
      BY <1>1, <1>2, <3>2, SubSeqOfConcat2
    <3>4. SubSeq(c, 1, Len(c)) = c
      BY <1>1, SubSeqFull
    <3> QED
      BY <3>0, <3>1, <3>2, <3>3, <3>4
  <2> QED
    BY <1>5, <2>1 DEF Verdict
<1> QED
  BY <1>3, <1>4, <1>5

\* The reply under way, when it arrives, is the only one.
LEMMA TheReply ==
    ASSUME TurnInv, NEW n \in 1 .. Len(line), Arrives(n), transaction # None,
           transaction \in inStep, ~request[transaction].reset
    PROVE  /\ n = 1 /\ line' = <<>> /\ owed = <<>>
           /\ Head(line).byte = Head(adu)
<1>1. \/ line = <<>>
      \/ owed = <<>> /\ \E kind \in {"data", "invalid", "absent"} :
                           line = <<[kind |-> kind, byte |-> Head(adu)]>>
  BY DEF TurnInv, TakesTurns
<1>2. line # <<>>
  <2>1. Len(line) \in Nat
    BY LenProperties DEF TurnInv, Inv, TypeOK
  <2> QED
    BY <2>1
<1>3. owed = <<>> /\ Len(line) = 1 /\ Head(line).byte = Head(adu)
  BY <1>1, <1>2
<1>4. n = 1
  BY <1>3
<1>5. SubSeq(line, 1 + 1, Len(line)) = <<>>
  BY <1>3, SubSeqEmpty
<1> QED
  BY <1>3, <1>4, <1>5 DEF Arrives

\* A chunk moves from the list to what is collected.
LEMMA ChunkMoves ==
    ASSUME NEW a \in Seq(Byte), NEW b \in Seq(Byte), b # <<>>
    PROVE  Append(a, Head(b)) \o Tail(b) = a \o b
<1>1. Head(b) \in Byte /\ Tail(b) \in Seq(Byte)
  BY HeadTailProperties
<1>2. <<Head(b)>> \in Seq(Byte)
  BY <1>1
<1>3. Append(a, Head(b)) = a \o <<Head(b)>>
  BY <1>1, AppendIsConcat
<1>4. <<Head(b)>> \o Tail(b) = b
  <2>1. /\ Len(b) \in Nat /\ Len(b) # 0 /\ Len(Tail(b)) = Len(b) - 1
        /\ \A i \in 1 .. Len(b) - 1 : Tail(b)[i] = b[i + 1]
    BY HeadTailProperties, LenProperties, EmptySeq
  <2> DEFINE h == <<Head(b)>>
  <2>2. Len(h) = 1 /\ h[1] = b[1]
    OBVIOUS
  <2> HIDE DEF h
  <2>3. h \o Tail(b) \in Seq(Byte) /\ Len(h \o Tail(b)) = Len(h) + Len(Tail(b))
    BY <1>1, <1>2, ConcatProperties DEF h
  <2>4. \A i \in 1 .. Len(h) + Len(Tail(b)) :
            (h \o Tail(b))[i] = IF i <= Len(h) THEN h[i] ELSE Tail(b)[i - Len(h)]
    BY <1>1, <1>2, ConcatProperties DEF h
  <2>5. ASSUME NEW i \in 1 .. Len(b) PROVE (h \o Tail(b))[i] = b[i]
    <3>1. i \in 1 .. Len(h) + Len(Tail(b)) /\ (i <= Len(h) <=> i = 1)
      BY <2>1, <2>2
    <3>2. i # 1 => i - 1 \in 1 .. Len(b) - 1 /\ (i - 1) + 1 = i
      BY <2>1
    <3> QED
      BY <2>1, <2>2, <2>4, <3>1, <3>2
  <2>6. Len(h \o Tail(b)) = Len(b)
    BY <2>1, <2>2, <2>3
  <2>7. h \o Tail(b) = b
    BY <2>3, <2>5, <2>6, SeqEqual
  <2> QED
    BY <2>7 DEF h
<1>5. (a \o <<Head(b)>>) \o Tail(b) = a \o (<<Head(b)>> \o Tail(b))
  BY <1>1, <1>2, ConcatAssociative
<1> QED
  BY <1>3, <1>4, <1>5

\* An exchange that ends with anything but a foreign answer, and none is kept.
LEMMA ClearTurn ==
    ASSUME TurnInv, NEW how \in Outcome \ {"foreign"}, Ends(transaction, how),
           ClearTransaction, UNCHANGED <<sent, inStep, dirty>>
    PROVE  Clean' /\ TakesTurns' /\ OwnReplies'
<1>1. transaction' = None
  BY DEF ClearTransaction
<1>2. OwnReplies'
  BY DEF Ends, TurnInv, OwnReplies, Inv, TypeOK
<1> QED
  BY <1>1, <1>2 DEF TurnInv, Clean, TakesTurns

LEMMA OnDataTurn ==
    ASSUME TurnInv, NEW n \in 1 .. Len(line), OnData(n)
    PROVE  Clean' /\ TakesTurns' /\ OwnReplies'
<1>0. TypeOK /\ Inv /\ Clean /\ TakesTurns /\ OwnReplies /\ reader \in Seq(Byte) /\ adu \in Seq(Byte)
  BY DEF TurnInv, Inv, TypeOK
<1>1. Arrives(n) /\ UNCHANGED <<destroyed, sent, request, inStep, dirty>>
  BY DEF OnData, DataIgnored, ErrorReply, ChunkReply, LastReply, LastReplyRejected,
     ResetReply,
         UnsupportedReply, Counts, Arrives
<1>2. Clean'
  BY <1>0, <1>1 DEF Clean
<1> DEFINE Applies == transaction # None /\ transaction \in inStep /\ ~request[transaction].reset
<1>3. CASE DataIgnored(n)
  <2>1. UNCHANGED <<transaction, adu, reader, owed, outcome>>
    BY <1>3 DEF DataIgnored
  <2>2. Applies => owed = <<>> /\ line' = <<>>
    BY <1>1, TheReply
  <2>3. TakesTurns'
    BY <1>0, <1>1, <2>1, <2>2 DEF TakesTurns
  <2> QED
    BY <1>0, <1>1, <1>2, <2>1, <2>3 DEF OwnReplies
<1>4. CASE ErrorReply(n)
  <2>1. Ends(transaction, "error") /\ ClearTransaction /\ "error" \in Outcome \ {"foreign"}
    BY <1>4 DEF ErrorReply, Outcome
  <2> QED
    BY <1>1, <2>1, ClearTurn
<1>5. CASE ChunkReply(n)
  <2>1. /\ Len(adu) > 1 /\ reader' = Append(reader, Head(line).byte) /\ adu' = Tail(adu)
        /\ owed' = Append(owed, adu[2]) /\ UNCHANGED <<transaction, outcome>>
    BY <1>5 DEF ChunkReply, Collected, NextChunk
  <2>2. TakesTurns'
    <3> SUFFICES ASSUME Applies PROVE TakesTurns'
      BY <1>1, <2>1 DEF TakesTurns
    <3>1. line' = <<>> /\ owed = <<>> /\ Head(line).byte = Head(adu)
      BY <1>1, TheReply
    <3>2. adu # <<>> /\ Len(adu) \in Nat
      BY <1>0, <2>1, LenProperties, EmptySeq
    <3>3. reader' \o adu' = reader \o adu
      BY <1>0, <2>1, <3>1, <3>2, ChunkMoves
    <3>4. /\ Len(Tail(adu)) = Len(adu) - 1 /\ Tail(adu)[1] = adu[2] /\ Tail(adu) \in Seq(Byte)
      <4>1. /\ Tail(adu) \in Seq(Byte) /\ Len(Tail(adu)) = Len(adu) - 1
            /\ \A i \in 1 .. Len(adu) - 1 : Tail(adu)[i] = adu[i + 1]
        BY <1>0, <3>2, HeadTailProperties
      <4>2. 1 \in 1 .. Len(adu) - 1 /\ 1 + 1 = 2
        BY <2>1, <3>2
      <4> QED
        BY <4>1, <4>2
    <3>5. adu' # <<>>
      <4>1. Len(adu') # 0
        BY <2>1, <3>2, <3>4
      <4> QED
        BY <4>1
    <3>6. owed' = <<Head(adu')>>
      <4>1. Head(adu') = adu[2]
        BY <2>1, <3>4
      <4>2. Append(<<>>, adu[2]) = <<adu[2]>>
        OBVIOUS
      <4> QED
        BY <2>1, <3>1, <4>1, <4>2
    <3> QED
      BY <1>0, <1>1, <2>1, <3>1, <3>3, <3>5, <3>6 DEF TakesTurns
  <2> QED
    BY <1>0, <1>1, <1>2, <2>1, <2>2 DEF OwnReplies
<1>6. CASE LastReply(n)
  <2>1. /\ transaction # None /\ ~request[transaction].reset /\ Len(adu) = 1
        /\ ClearTransaction /\ Ends(transaction, Verdict(transaction, Collected))
    BY <1>6 DEF LastReply, Counts
  <2>2. transaction \in Exchange
    BY <1>0, <2>1 DEF TypeOK
  <2>3. transaction \in inStep => Verdict(transaction, Collected) = "response"
    <3> SUFFICES ASSUME transaction \in inStep
                 PROVE  Verdict(transaction, Collected) = "response"
      OBVIOUS
    <3>1. Head(line).byte = Head(adu)
      BY <1>1, <2>1, TheReply
    <3>2. adu # <<>>
      BY <2>1
    <3>3. Append(reader, Head(adu)) \o Tail(adu) = reader \o adu
      BY <1>0, <3>2, ChunkMoves
    <3>4. Tail(adu) = <<>>
      <4>1. Len(Tail(adu)) = 0 /\ Tail(adu) \in Seq(Byte)
        BY <1>0, <2>1, <3>2, HeadTailProperties
      <4> QED
        BY <4>1, EmptySeq
    <3>5. Append(reader, Head(adu)) \in Seq(Byte)
      <4>1. Head(adu) \in Byte
        BY <1>0, <3>2, HeadTailProperties
      <4> QED
        BY <1>0, <4>1, AppendProperties
    <3>6. Append(reader, Head(adu)) \o <<>> = Append(reader, Head(adu))
      BY <3>5, ConcatEmptySeq
    <3>7. Collected = reader \o adu
      BY <3>1, <3>3, <3>4, <3>6 DEF Collected
    <3>8. /\ request[transaction] \in Sendable /\ request[transaction].code \in Known
          /\ reader \o adu
                = Pushed(request[transaction]) \o Chunks(transaction, request[transaction])
      BY <1>0, <2>1 DEF TakesTurns
    <3> QED
      BY <1>0, <2>2, <3>7, <3>8, OwnVerdict
  <2>4. outcome' = [outcome EXCEPT ![transaction] = Verdict(transaction, Collected)]
    BY <2>1 DEF Ends
  <2>5. OwnReplies'
    <3> SUFFICES ASSUME NEW e \in inStep PROVE outcome'[e] # "foreign"
      BY <1>1 DEF OwnReplies
    <3>1. e \in Exchange /\ outcome \in [Exchange -> Outcome] /\ outcome[e] # "foreign"
      BY <1>0 DEF TypeOK, OwnReplies
    <3> QED
      BY <2>2, <2>3, <2>4, <3>1
  <2>6. TakesTurns'
    BY <2>1 DEF ClearTransaction, TakesTurns
  <2> QED
    BY <1>2, <2>5, <2>6
<1>7. CASE LastReplyRejected(n)
\* It takes a reader that was not empty when the exchange began.
  <2>1. /\ transaction # None /\ request[transaction].code = MB_READ_MEMORY
        /\ Head(Append(reader, Head(line).byte)).op # MB_READ_MEMORY
        /\ Ends(transaction, "error") /\ UNCHANGED transaction
    BY <1>7 DEF LastReplyRejected, Counts, Collected
  <2>2. transaction \in dirty
    <3>1. Head(line).byte \in Byte
      BY <1>0, LineFacts
    <3> QED
      BY <1>0, <2>1, <3>1, CollectedFacts DEF Inv, HeadedByCode
  <2>3. transaction \notin inStep
    BY <1>0, <2>2 DEF Clean
  <2>4. TakesTurns'
    BY <1>1, <2>1, <2>3 DEF TakesTurns
  <2>5. OwnReplies'
    BY <1>0, <1>1, <2>1, <2>3 DEF Ends, OwnReplies, TypeOK
  <2> QED
    BY <1>2, <2>4, <2>5
<1>8. CASE ResetReply(n) \/ UnsupportedReply(n)
  <2>1. UNCHANGED <<transaction, outcome>> /\ (request[transaction].reset \/ adu = <<>>)
    BY <1>8 DEF ResetReply, UnsupportedReply
  <2>2. TakesTurns'
    BY <1>0, <1>1, <2>1 DEF TakesTurns
  <2> QED
    BY <1>0, <1>1, <1>2, <2>1, <2>2 DEF OwnReplies
<1> QED
  BY <1>3, <1>4, <1>5, <1>6, <1>7, <1>8 DEF OnData

LEMMA SendTurn ==
    ASSUME TurnInv, NEW r \in Sendable, SendRequest(r)
    PROVE  Clean' /\ TakesTurns' /\ OwnReplies'
<1>0. TypeOK /\ Inv /\ Clean /\ TakesTurns /\ OwnReplies /\ reader \in Seq(Byte)
  BY DEF TurnInv, Inv, TypeOK
<1>a. Called(r)
  BY DEF SendRequest
<1>b. /\ sent + 1 \in Exchange /\ sent' = sent + 1 /\ request'[sent + 1] = r /\ sent \in Nat
      /\ transaction = None
  BY <1>0, <1>a, CalledFacts DEF TypeOK
<1>1. PICK e \in Exchange : e = sent + 1
  BY <1>b
<1>2. /\ r.code \in Known /\ transaction' = e /\ adu' = Chunks(e, r) /\ reader' = reader \o Pushed(r)
      /\ owed' = Append(owed, Head(Chunks(e, r)))
      /\ inStep' = IF reader = <<>> /\ owed = <<>> /\ line = <<>> THEN inStep \cup {e} ELSE inStep
      /\ dirty' = IF reader # <<>> THEN dirty \cup {e} ELSE dirty
      /\ UNCHANGED <<line, outcome>>
  BY <1>1 DEF SendRequest
<1>3. e \notin inStep /\ e \notin dirty /\ 1 .. sent' = (1 .. sent) \cup {e}
  BY <1>0, <1>b, <1>1 DEF Clean
<1>4. Clean'
  BY <1>0, <1>2, <1>3 DEF Clean
<1>5. TakesTurns'
  <2> SUFFICES ASSUME e \in inStep' PROVE TakesTurns'
    BY <1>2 DEF TakesTurns
  <2>1. reader = <<>> /\ owed = <<>> /\ line = <<>>
    BY <1>2, <1>3
  <2>2. Chunks(e, r) \in Seq(Byte) /\ Chunks(e, r) # <<>>
    BY ChunksType
  <2>3. reader' = Pushed(r)
    BY <1>2, <2>1, PushedType, ConcatEmptySeq
  <2>4. owed' = <<Head(adu')>>
    <3>1. Append(<<>>, Head(Chunks(e, r))) = <<Head(Chunks(e, r))>>
      OBVIOUS
    <3> QED
      BY <1>2, <2>1, <3>1
  <2>5. request'[transaction'] = r
    BY <1>b, <1>1, <1>2
  <2> QED
    BY <1>2, <2>1, <2>2, <2>3, <2>4, <2>5 DEF TakesTurns
<1>6. OwnReplies'
  <2>1. outcome[e] # "foreign" \/ e \notin inStep'
    BY <1>0, <1>1, <1>b DEF Inv, Begun
  <2> QED
    BY <1>0, <1>2, <2>1 DEF OwnReplies
<1> QED
  BY <1>4, <1>5, <1>6

LEMMA NextTurn == TurnInv /\ [Next]_vars => TurnInv'
<1> SUFFICES ASSUME TurnInv, [Next]_vars PROVE Clean' /\ TakesTurns' /\ OwnReplies'
  BY StepInv DEF TurnInv
<1>0. TypeOK /\ Inv /\ Clean /\ TakesTurns /\ OwnReplies
  BY DEF TurnInv, Inv
<1>1. ASSUME NEW r \in Sendable, SendFails(r) \/ SendUnsupported(r)
      PROVE  Clean' /\ TakesTurns' /\ OwnReplies'
  <2>1. Called(r)
    BY <1>1 DEF SendFails, SendUnsupported
  <2>2. sent \in Nat /\ sent' = sent + 1 /\ sent + 1 \in Exchange /\ transaction = None
    BY <1>0, <2>1, CalledFacts DEF TypeOK
  <2>3. /\ transaction' \in {None, sent + 1} /\ UNCHANGED <<inStep, dirty>>
        /\ \E how \in {"refused", "error"} : outcome' = [outcome EXCEPT ![sent + 1] = how]
    BY <1>1, <2>2 DEF SendFails, SendUnsupported
  <2>4. 1 .. sent \subseteq 1 .. sent' /\ sent + 1 \notin 1 .. sent
    BY <2>2
  <2>5. Clean' /\ TakesTurns'
    BY <1>0, <2>3, <2>4 DEF Clean, TakesTurns
  <2>6. OwnReplies'
    BY <1>0, <2>2, <2>3 DEF OwnReplies, TypeOK
  <2> QED
    BY <2>5, <2>6
<1>2. CASE HandleTimeout
  <2>1. timeout = transaction /\ transaction # None
    BY <1>0, <1>2 DEF HandleTimeout, Inv, BlockedOnlyByFailures
  <2>2. /\ Ends(transaction, "timeout") /\ ClearTransaction /\ UNCHANGED <<sent, inStep, dirty>>
        /\ "timeout" \in Outcome \ {"foreign"}
    BY <1>2, <2>1 DEF HandleTimeout, Outcome
  <2> QED
    BY <2>2, ClearTurn
<1>3. CASE Destroy
  <2>1. UNCHANGED <<owed, line, sent, request, outcome, inStep, dirty>>
    BY <1>3 DEF Destroy, remote, history
  <2>2. transaction' = None
    BY <1>3 DEF Destroy, ClearTransaction
  <2> QED
    BY <1>0, <2>1, <2>2 DEF Clean, TakesTurns, OwnReplies
<1>4. ASSUME owed # <<>>, UNCHANGED <<port, history>>, owed' = Tail(owed),
             line' = line \/ \E kind \in {"data", "invalid", "absent"} :
                                line' = Append(line, [kind |-> kind, byte |-> Head(owed)])
      PROVE  Clean' /\ TakesTurns' /\ OwnReplies'
  <2>1. Clean' /\ OwnReplies'
    BY <1>0, <1>4 DEF port, history, Clean, OwnReplies
  <2>2. TakesTurns'
    <3> SUFFICES ASSUME transaction # None, transaction \in inStep, ~request[transaction].reset
                 PROVE  TakesTurns'
      BY <1>4 DEF TakesTurns, port, history
    <3>1. owed = <<Head(adu)>> /\ line = <<>>
      BY <1>0, <1>4 DEF TakesTurns
    <3>2. Tail(owed) = <<>> /\ Head(owed) = Head(adu)
      BY <3>1
    <3>3. \/ line' = <<>>
          \/ \E kind \in {"data", "invalid", "absent"} :
                line' = <<[kind |-> kind, byte |-> Head(adu)]>>
      BY <1>4, <3>1, <3>2
    <3> QED
      BY <1>0, <1>4, <3>2, <3>3 DEF TakesTurns, port, history
  <2> QED
    BY <2>1, <2>2
<1>5. CASE (\E kind \in {"data", "invalid", "absent"} : Answer(kind)) \/ Lost
  BY <1>4, <1>5 DEF Answer, Lost
<1>6. CASE UNCHANGED vars
  <2>1. UNCHANGED <<transaction, adu, reader, owed, line, sent, request, outcome, inStep, dirty>>
    BY <1>6 DEF vars, port, remote, history
  <2> QED
    BY <1>0, <2>1 DEF Clean, TakesTurns, OwnReplies
<1> QED
  BY <1>1, <1>2, <1>3, <1>5, <1>6, SendTurn, OnDataTurn, RepeatedIsSendable DEF Next

\* The bytes of a response are those of the chunks of its own request, whatever is lost,
\* if nothing was left over when the exchange began.
THEOREM OwnRepliesHold == Spec => []OwnReplies
<1>1. TurnInv => OwnReplies
  BY DEF TurnInv
<1> QED
  BY <1>1, InitTurn, NextTurn, PTL DEF Spec

----------------------------------------------------------------------------
\* The contract

phaseBar == [e \in Exchange |-> Phase(e)]
ContractStep == Contract!Next \/ (phaseBar' = phaseBar /\ destroyed' = destroyed)

\* The contract counts with a Cardinality of its own instance, which is the same one.
LEMMA SameCardinality == ASSUME NEW S PROVE Contract!Cardinality(S) = Cardinality(S)
  BY DEF Contract!Cardinality, Cardinality

LEMMA PhaseMoves ==
    ASSUME NEW e \in Exchange, NEW to, Phase(e)' = to,
           \A u \in Exchange : u # e => Phase(u)' = Phase(u)
    PROVE  phaseBar' = [phaseBar EXCEPT ![e] = to]
  BY DEF phaseBar

Ended == {"response", "foreign", "error", "timeout"}

\* The end of the transaction that is kept ends its exchange, or spoils what had ended.
LEMMA EndPhases ==
    ASSUME Inv, NEW k \in Exchange, k = transaction, NEW how \in Ended, Ends(k, how),
           UNCHANGED <<sent, request>>
    PROVE  /\ Phase(k) = IF k \in Unknown \/ ends[k] > 1 THEN "spoiled"
                         ELSE IF ends[k] = 0 THEN "open" ELSE "ended"
           /\ Phase(k)' = IF k \in Unknown \/ ends[k] > 0 THEN "spoiled" ELSE "ended"
           /\ \A u \in Exchange : u # k => Phase(u)' = Phase(u)
           /\ ends[k] \in Nat /\ ends'[k] = ends[k] + 1 /\ k \in 1 .. sent
<1>1. /\ outcome \in [Exchange -> Outcome] /\ ends \in [Exchange -> Nat]
      /\ k <= sent /\ k \in Nat /\ sent \in Nat /\ k # None
  BY DEF Inv, TypeOK, Begun, Exchange, None
<1>2. /\ outcome'[k] = how /\ \A u \in Exchange : u # k => outcome'[u] = outcome[u]
      /\ ends'[k] = ends[k] + 1 /\ \A u \in Exchange : u # k => ends'[u] = ends[u]
  BY <1>1 DEF Ends
<1>3. ~(k > sent) /\ how # "refused" /\ outcome[k] # "refused"
  BY <1>1 DEF Ended, Inv, Begun
<1>4. Unknown' = Unknown
  BY DEF Unknown
<1>5. \A u \in Exchange : u # k => Phase(u)' = Phase(u)
  BY <1>2, <1>4 DEF Phase
<1>6. k \in 1 .. sent
  BY <1>1 DEF Exchange
<1> QED
  BY <1>1, <1>2, <1>3, <1>4, <1>5, <1>6 DEF Phase

LEMMA ExchangeEnds ==
    ASSUME Inv, Inv', ~destroyed, NEW k \in Exchange, k = transaction, NEW how \in Ended,
           Ends(k, how), UNCHANGED <<sent, request, destroyed, dirty>>
    PROVE  ContractStep
<1>1. /\ Phase(k) = IF k \in Unknown \/ ends[k] > 1 THEN "spoiled"
                    ELSE IF ends[k] = 0 THEN "open" ELSE "ended"
      /\ Phase(k)' = IF k \in Unknown \/ ends[k] > 0 THEN "spoiled" ELSE "ended"
      /\ \A u \in Exchange : u # k => Phase(u)' = Phase(u)
      /\ ends[k] \in Nat /\ ends'[k] = ends[k] + 1 /\ k \in 1 .. sent
  BY EndPhases
<1>2. CASE Phase(k) = "open"
  <2>1. Phase(k)' = "ended"
    BY <1>1, <1>2
  <2>2. phaseBar' = [phaseBar EXCEPT ![k] = "ended"] /\ phaseBar[k] = "open"
    BY <1>1, <1>2, <2>1, PhaseMoves DEF phaseBar
  <2> QED
    BY <2>2 DEF ContractStep, Contract!Next, Contract!End, phaseBar
<1>3. CASE Phase(k) = "ended"
  <2>1. Phase(k)' = "spoiled" /\ ends'[k] > 1 /\ k \in 1 .. sent'
    BY <1>1, <1>3
  <2>2. k \in (Unknown \cup dirty)'
    <3>1. ends'[k] \in Nat /\ (k \notin (Unknown \cup dirty)' => ends'[k] <= 1)
      BY <1>1, <2>1 DEF Inv, EndsOnce
    <3> QED
      BY <2>1, <3>1
  <2>3. phaseBar' = [phaseBar EXCEPT ![k] = "spoiled"] /\ phaseBar[k] = "ended"
    BY <1>1, <1>3, <2>1, PhaseMoves DEF phaseBar
  <2> QED
    BY <2>2, <2>3 DEF ContractStep, Contract!Next, Contract!Spoil, phaseBar
<1>4. CASE Phase(k) = "spoiled"
  <2>1. \A u \in Exchange : Phase(u)' = Phase(u)
    BY <1>1, <1>4
  <2>2. phaseBar' = phaseBar
    BY <2>1 DEF phaseBar
  <2> QED
    BY <2>2 DEF ContractStep
<1> QED
  BY <1>1, <1>2, <1>3, <1>4

\* Afterwards no exchange is open, whether the transaction is kept or not.
LEMMA EndedKept ==
    ASSUME OpenInv, ~destroyed, NEW k \in Exchange, k = transaction, NEW how \in Ended,
           Ends(k, how), UNCHANGED <<sent, request, destroyed>>
    PROVE  KeptIsOpen'
<1>1. /\ Phase(k)' = IF k \in Unknown \/ ends[k] > 0 THEN "spoiled" ELSE "ended"
      /\ \A u \in Exchange : u # k => Phase(u)' = Phase(u)
  BY EndPhases DEF OpenInv
<1>2. ASSUME NEW e \in Exchange PROVE Phase(e)' # "open"
  <2>1. e # k => Phase(e) # "open"
    BY DEF OpenInv, KeptIsOpen
  <2> QED
    BY <1>1, <2>1
<1> QED
  BY <1>2 DEF KeptIsOpen

\* What the steps are to the contract: one completes the transaction that is kept, or none.
LEMMA DataSteps ==
    ASSUME Inv, NEW n \in 1 .. Len(line), OnData(n)
    PROVE  /\ UNCHANGED <<sent, request, destroyed, dirty>>
           /\ \/ UNCHANGED <<transaction, outcome, ends, timeout>>
              \/ ~destroyed /\ transaction # None /\ \E how \in Ended : Ends(transaction, how)
           /\ transaction # None => transaction \in Exchange
<1>0. transaction # None => transaction \in Exchange
  BY DEF Inv, TypeOK
<1>1. CASE DataIgnored(n) \/ ChunkReply(n) \/ ResetReply(n) \/ UnsupportedReply(n)
  BY <1>0, <1>1 DEF DataIgnored, ChunkReply, ResetReply, UnsupportedReply, Counts, Arrives
<1>2. CASE ErrorReply(n) \/ LastReplyRejected(n)
  BY <1>0, <1>2 DEF ErrorReply, LastReplyRejected, Counts, Arrives, Ended
<1>3. CASE LastReply(n)
  <2>1. Verdict(transaction, Collected) \in Ended
    BY DEF Verdict, Ended
  <2> QED
    BY <1>0, <1>3, <2>1 DEF LastReply, Counts, Arrives
<1> QED
  BY <1>1, <1>2, <1>3 DEF OnData

LEMMA TimeoutStep ==
    ASSUME OpenInv, HandleTimeout
    PROVE  /\ UNCHANGED <<sent, request, destroyed, dirty>>
           /\ ~destroyed /\ transaction \in Exchange /\ "timeout" \in Ended
           /\ Ends(transaction, "timeout")
  BY DEF HandleTimeout, Ended, OpenInv, Inv, TypeOK, BlockedOnlyByFailures, KeptIsOpen

\* A new exchange: open if it gets its chunks, spoiled if its function is not known, and
\* none at all if it cannot be built.
LEMMA NewPhases ==
    ASSUME OpenInv, NEW r \in Sendable, SendFails(r) \/ SendUnsupported(r) \/ SendRequest(r)
    PROVE  /\ sent + 1 \in Exchange /\ transaction = None /\ ~destroyed
           /\ Phase(sent + 1) = "new" /\ \A u \in Exchange : Phase(u) # "open"
           /\ \A e \in Exchange : e # sent + 1 => Phase(e)' = Phase(e)
           /\ SendRequest(r) => transaction' = sent + 1
           /\ \A e \in Exchange : e = sent + 1 =>
                /\ Phase(e)' \in {"new", "spoiled", "open"}
                /\ Phase(e)' = "open" => SendRequest(r)
                /\ Phase(e)' = "spoiled" => e \in Unknown'
           /\ UNCHANGED destroyed
<1>1. Called(r)
  BY DEF SendFails, SendUnsupported, SendRequest
<1>2. /\ sent + 1 \in Exchange /\ sent' = sent + 1 /\ transaction = None /\ sent \in Nat
      /\ ends[sent + 1] = 0 /\ outcome[sent + 1] = "none"
      /\ sent + 1 \notin 1 .. sent
  BY <1>1, CalledFacts DEF OpenInv, Inv, TypeOK
<1>3. ~destroyed /\ UNCHANGED destroyed
  BY <1>1 DEF Called, SendFails, SendUnsupported, SendRequest
<1>4. \A u \in Exchange : Phase(u) # "open"
  BY <1>2, <1>3 DEF OpenInv, KeptIsOpen, None, Exchange
<1>5. Unknown' = IF r.code \in Known THEN Unknown ELSE Unknown \cup {sent + 1}
  BY <1>1, CalledUnknown DEF OpenInv
<1>6. PICK e \in Exchange : e = sent + 1
  BY <1>2
<1>7. Phase(e) = "new"
  BY <1>2, <1>6 DEF Phase
<1>8. outcome \in [Exchange -> Outcome] /\ ends \in [Exchange -> Nat] /\ e \notin Unknown
  BY <1>2, <1>6 DEF OpenInv, Inv, TypeOK, Unknown
<1>9. ASSUME NEW u \in Exchange, u # e, outcome'[u] = outcome[u], ends'[u] = ends[u]
      PROVE  Phase(u)' = Phase(u)
  <2>1. u \in Unknown' <=> u \in Unknown
    BY <1>5, <1>6, <1>9
  <2>2. u > sent' <=> u > sent
    BY <1>2, <1>6, <1>9 DEF Exchange
  <2>3. CASE u > sent
    BY <2>2, <2>3 DEF Phase
  <2> QED
    BY <1>9, <2>1, <2>2 DEF Phase
<1>10. ~(e > sent')
  BY <1>2, <1>6
<1>11. CASE SendRequest(r)
  <2>1. UNCHANGED <<outcome, ends>> /\ r.code \in Known /\ transaction' = sent + 1
    BY <1>11 DEF SendRequest
  <2>2. Phase(e)' = "open"
    BY <1>2, <1>5, <1>6, <1>8, <1>10, <2>1 DEF Phase
  <2> QED
    BY <1>2, <1>3, <1>4, <1>6, <1>7, <1>9, <1>11, <2>1, <2>2
<1>12. CASE SendFails(r) /\ ~SendRequest(r)
  <2>1. outcome' = [outcome EXCEPT ![e] = "refused"] /\ UNCHANGED ends
    BY <1>6, <1>12 DEF SendFails
  <2>2. Phase(e)' = "new"
    BY <1>8, <2>1 DEF Phase
  <2>3. \A u \in Exchange : u # e => outcome'[u] = outcome[u] /\ ends'[u] = ends[u]
    BY <1>8, <2>1
  <2> QED
    BY <1>2, <1>3, <1>4, <1>6, <1>7, <1>9, <1>12, <2>2, <2>3
<1>13. CASE SendUnsupported(r) /\ ~SendRequest(r)
  <2>1. /\ outcome' = [outcome EXCEPT ![e] = "error"] /\ ends' = [ends EXCEPT ![e] = 1]
        /\ r.code \notin Known
    BY <1>6, <1>13 DEF SendUnsupported
  <2>2. e \in Unknown' /\ outcome'[e] = "error"
    BY <1>5, <1>6, <1>8, <2>1
  <2>3. Phase(e)' = "spoiled"
    BY <1>10, <2>2 DEF Phase
  <2>4. \A u \in Exchange : u # e => outcome'[u] = outcome[u] /\ ends'[u] = ends[u]
    BY <1>8, <2>1
  <2> QED
    BY <1>2, <1>3, <1>4, <1>6, <1>7, <1>9, <1>13, <2>2, <2>3, <2>4
<1> QED
  BY <1>11, <1>12, <1>13

LEMMA NextOpen == OpenInv /\ [Next]_vars => OpenInv'
<1> SUFFICES ASSUME OpenInv, [Next]_vars PROVE KeptIsOpen'
  BY StepInv DEF OpenInv
<1>1. ASSUME NEW r \in Sendable, SendFails(r) \/ SendUnsupported(r) \/ SendRequest(r)
      PROVE  KeptIsOpen'
  <2>1. /\ ~destroyed' /\ \A u \in Exchange : Phase(u) # "open"
        /\ SendRequest(r) => transaction' = sent + 1
        /\ \A e \in Exchange : e # sent + 1 => Phase(e)' = Phase(e)
        /\ \A e \in Exchange : e = sent + 1 => (Phase(e)' = "open" => SendRequest(r))
    BY <1>1, NewPhases
  <2> QED
    BY <2>1 DEF KeptIsOpen
<1>same. ASSUME UNCHANGED <<transaction, request, outcome, ends, sent, destroyed>>,
                timeout' = timeout
         PROVE  KeptIsOpen'
  BY <1>same DEF OpenInv, KeptIsOpen, Phase, Unknown
<1>2. ASSUME NEW n \in 1 .. Len(line), OnData(n) PROVE KeptIsOpen'
  <2>1. /\ UNCHANGED <<sent, request, destroyed>>
        /\ \/ UNCHANGED <<transaction, outcome, ends, timeout>>
           \/ ~destroyed /\ transaction \in Exchange /\ \E how \in Ended : Ends(transaction, how)
    BY <1>2, DataSteps DEF OpenInv
  <2> QED
    BY <1>same, <2>1, EndedKept
<1>3. CASE HandleTimeout
  BY <1>3, TimeoutStep, EndedKept
<1>4. CASE Destroy
  <2>1. destroyed' = TRUE /\ timeout' = None
    BY <1>4 DEF Destroy
  <2> QED
    BY <2>1 DEF KeptIsOpen
<1>5. CASE (\E kind \in {"data", "invalid", "absent"} : Answer(kind)) \/ Lost \/ UNCHANGED vars
  BY <1>5, <1>same DEF Answer, Lost, port, history, vars
<1> QED
  BY <1>1, <1>2, <1>3, <1>4, <1>5, RepeatedIsSendable DEF Next

LEMMA ContractNext == OpenInv /\ [Next]_vars => ContractStep
<1> SUFFICES ASSUME OpenInv, [Next]_vars PROVE ContractStep
  OBVIOUS
<1>inv. Inv /\ Inv'
  BY StepInv DEF OpenInv
<1>same. ASSUME UNCHANGED <<sent, outcome, ends, request>> PROVE phaseBar' = phaseBar
  BY <1>same DEF phaseBar, Phase, Unknown
<1>1. ASSUME NEW r \in Sendable, SendFails(r) \/ SendUnsupported(r) \/ SendRequest(r)
      PROVE  ContractStep
  <2>1. /\ sent + 1 \in Exchange /\ ~destroyed /\ UNCHANGED destroyed
        /\ Phase(sent + 1) = "new" /\ \A u \in Exchange : Phase(u) # "open"
        /\ \A e \in Exchange : e # sent + 1 => Phase(e)' = Phase(e)
        /\ \A e \in Exchange : e = sent + 1 =>
             /\ Phase(e)' \in {"new", "spoiled", "open"}
             /\ Phase(e)' = "spoiled" => e \in Unknown'
    BY <1>1, NewPhases
  <2>2. PICK e \in Exchange : e = sent + 1
    BY <2>1
  <2>3. CASE Phase(e)' = "open"
    <3>1. phaseBar' = [phaseBar EXCEPT ![e] = "open"] /\ phaseBar[e] = "new"
      BY <2>1, <2>2, <2>3, PhaseMoves DEF phaseBar
    <3>2. Contract!Open = {}
      BY <2>1 DEF Contract!Open
    <3>3. Contract!Cardinality(Contract!Open) < 1
      BY <3>2, FS_EmptySet, SameCardinality
    <3>4. Contract!Begin(e)
      BY <2>1, <3>1, <3>3 DEF Contract!Begin, phaseBar
    <3> QED
      BY <3>4 DEF ContractStep, Contract!Next
  <2>4. CASE Phase(e)' = "spoiled"
    <3>1. phaseBar' = [phaseBar EXCEPT ![e] = "spoiled"] /\ phaseBar[e] = "new"
      BY <2>1, <2>2, <2>4, PhaseMoves DEF phaseBar
    <3>2. e \in (Unknown \cup dirty)'
      BY <2>1, <2>2, <2>4
    <3> QED
      BY <2>1, <3>1, <3>2 DEF ContractStep, Contract!Next, Contract!Spoil, phaseBar
  <2>5. CASE Phase(e)' = "new"
    <3>1. \A u \in Exchange : Phase(u)' = Phase(u)
      BY <2>1, <2>2, <2>5
    <3>2. phaseBar' = phaseBar
      BY <3>1 DEF phaseBar
    <3> QED
      BY <2>1, <3>2 DEF ContractStep
  <2> QED
    BY <2>1, <2>2, <2>3, <2>4, <2>5
<1>2. ASSUME NEW n \in 1 .. Len(line), OnData(n) PROVE ContractStep
  <2>1. /\ UNCHANGED <<sent, request, destroyed, dirty>>
        /\ \/ UNCHANGED <<outcome, ends>>
           \/ ~destroyed /\ transaction \in Exchange /\ \E how \in Ended : Ends(transaction, how)
    BY <1>2, <1>inv, DataSteps
  <2>2. CASE UNCHANGED <<outcome, ends>>
    BY <1>same, <2>1, <2>2 DEF ContractStep
  <2>3. CASE ~destroyed /\ transaction \in Exchange /\ \E how \in Ended : Ends(transaction, how)
    BY <1>inv, <2>1, <2>3, ExchangeEnds
  <2> QED
    BY <2>1, <2>2, <2>3
<1>3. CASE HandleTimeout
  BY <1>3, <1>inv, TimeoutStep, ExchangeEnds
<1>4. CASE Destroy
  <2>1. destroyed' = TRUE /\ UNCHANGED <<sent, outcome, ends, request>>
    BY <1>4 DEF Destroy, history
  <2> QED
    BY <1>same, <2>1 DEF ContractStep, Contract!Next, Contract!Close, phaseBar
<1>5. CASE (\E kind \in {"data", "invalid", "absent"} : Answer(kind)) \/ Lost \/ UNCHANGED vars
  <2>1. UNCHANGED <<sent, outcome, ends, request, destroyed>>
    BY <1>5 DEF Answer, Lost, port, history, vars
  <2> QED
    BY <1>same, <2>1 DEF ContractStep
<1> QED
  BY <1>1, <1>2, <1>3, <1>4, <1>5, RepeatedIsSendable DEF Next

\* Each step begins an exchange while none is open, ends the open one, closes, or completes
\* a transaction that Master does not count with; the last only for an unknown function, for
\* a reset that is sent again, or in an exchange begun on a dirty reader, and such a one is
\* never taken for a new or an open exchange again.
THEOREM KeepsContract == Spec => Contract!Safety
<1>1. Init => Contract!Init
  <2> SUFFICES ASSUME Init PROVE phaseBar = [e \in Exchange |-> "new"] /\ destroyed = FALSE
    BY DEF Contract!Init, phaseBar
  <2>1. ASSUME NEW e \in Exchange PROVE Phase(e) = "new"
    BY DEF Init, Phase, Exchange
  <2> QED
    BY <2>1 DEF Init, phaseBar
<1>2. OpenInv /\ [Next]_vars => [Contract!Next]_<<phaseBar, destroyed>>
  BY ContractNext DEF ContractStep
<1>3. OpenInv /\ [Next]_vars => [Contract!Next]_<<[e \in Exchange |-> Phase(e)], destroyed>>
  BY <1>2 DEF phaseBar
<1> QED
  BY <1>1, <1>3, InitOpen, NextOpen, PTL DEF Spec, Contract!Safety

=============================================================================
