----------------------- MODULE SocketcandTransportProofs -----------------------
(***************************************************************************)
(* Proofs about SocketcandTransport: its types, what keeps the unit        *)
(* blocked and how many chunk timers are left behind, that the bytes it    *)
(* collects are those it asked for, and that it keeps the contract, for    *)
(* every set of transactions and every number of exchanges and of repeated *)
(* chunks.                                                                 *)
(***************************************************************************)
EXTENDS SocketcandTransport, SequenceTheorems, FiniteSetTheorems, TLAPS

----------------------------------------------------------------------------
\* Requests as chunks

LEMMA RequestsAreTyped ==
    ASSUME NEW tx \in Transaction
    PROVE  /\ Request[tx].code \in Nat /\ Request[tx].address \in Nat
           /\ Request[tx].count \in Nat /\ Request[tx].count > 0
           /\ Request[tx].address \in Address
<1>1. /\ Request[tx].address \in Address
      /\ Request[tx].code \in Nat /\ Request[tx].count \in Nat \ {0}
  BY RequestAssumption
<1>2. \A a \in Address : a \in Nat
  BY DEF Address
<1> QED
  BY <1>1, <1>2

LEMMA MemoryChunkType ==
    ASSUME NEW tx \in Transaction, NEW i \in 1 .. Request[tx].count
    PROVE  MemoryChunk(Request[tx], i) \in Message
<1> DEFINE r == Request[tx]
<1>1. r.address \in Nat /\ i \in Nat /\ i > 0
  BY RequestsAreTyped
<1>2. r.address % 256 \in Nat /\ r.address \div 256 \in Nat
  BY <1>1
<1>3. Low(r, i) \in Nat
  BY <1>1, <1>2 DEF Low
<1>4. Bank(r) \in Nat
  BY <1>2 DEF Bank
<1>5. OfMotor(r) => Bank(r) \in 0 .. 3
  BY DEF OfMotor
<1>6. \A b \in 0 .. 3 : ReadOpcodes[b + 1] \in Nat /\ WriteOpcodes[b + 1] \in Nat
  BY DEF ReadOpcodes, WriteOpcodes
<1>7. (256 * Bank(r)) + Low(r, i) \in Nat
  BY <1>3, <1>4
<1>8. /\ MemoryChunk(r, i).cmd \in Nat /\ MemoryChunk(r, i).op \in Nat
      /\ MemoryChunk(r, i) = [cmd |-> MemoryChunk(r, i).cmd, op |-> MemoryChunk(r, i).op,
                              address |-> Low(r, i), loc |-> (256 * Bank(r)) + Low(r, i)]
  BY <1>5, <1>6 DEF MemoryChunk
<1> QED
  BY <1>3, <1>7, <1>8 DEF Message

LEMMA ChunksType ==
    ASSUME NEW tx \in Transaction PROVE BuildAdu(Request[tx]) \in Seq(Message)
<1>1. CASE Request[tx].code = COMMAND
  BY <1>1 DEF BuildAdu, Message, COMMAND
<1>2. CASE Request[tx].code # COMMAND
  <2>1. BuildAdu(Request[tx]) \in [1 .. Request[tx].count -> Message]
    BY <1>2, MemoryChunkType DEF BuildAdu
  <2> QED
    BY <2>1, RequestsAreTyped, SeqDef
<1> QED
  BY <1>1, <1>2

----------------------------------------------------------------------------
\* Exchanges that timed out

LEMMA TimedOutFacts ==
    /\ IsFiniteSet(TimedOut) /\ Cardinality(TimedOut) \in Nat
    /\ \A e : e \notin TimedOut => Cardinality(TimedOut \cup {e}) = Cardinality(TimedOut) + 1
<1>1. IsFiniteSet(Exchange)
  BY FS_Interval, BoundAssumption DEF Exchange
<1>2. IsFiniteSet(TimedOut)
  BY <1>1, FS_Subset DEF TimedOut
<1> QED
  BY <1>2, FS_CardinalityType, FS_AddElement

----------------------------------------------------------------------------
\* The inductive invariant

\* What is kept has been sent, and the response timer runs only for an exchange that has
\* not ended, so that each exchange adds at most one to those that timed out.
Begun ==
    /\ entry <= sent /\ timeout <= sent
    /\ timeout # None => outcome[timeout] = "none"
    /\ \A e \in Exchange : e > sent => outcome[e] = "none"

Inv == TypeOK /\ TimersFollowEntry /\ Begun

LEMMA InitInv == Init => Inv
<1> SUFFICES ASSUME Init PROVE Inv
  OBVIOUS
<1>1. /\ <<>> \in Seq(Message) /\ <<>> \in Seq(Nat)
      /\ 0 \in 0 .. MaxExchanges /\ 0 \in 0 .. MaxResends
  BY EmptySeq, BoundAssumption
<1>2. outcome \in [Exchange -> Outcome]
  BY DEF Init, Outcome
<1>3. adu \in [Transaction -> Seq(Message)]
  BY <1>1 DEF Init
<1>4. sender \in [Exchange -> Transaction]
  BY RequestAssumption DEF Init
<1>5. TypeOK
  BY <1>1, <1>2, <1>3, <1>4 DEF Init, TypeOK, None
<1>6. TimersFollowEntry
  BY TimedOutFacts DEF Init, TimersFollowEntry, None
<1>7. Begun
  BY DEF Init, Begun, None
<1> QED
  BY <1>5, <1>6, <1>7 DEF Inv

\* The exchange of a call is new, and no chunk timer is the entry's own.
LEMMA CalledFacts ==
    ASSUME Inv, NEW tx \in Transaction, Called(tx)
    PROVE  /\ sent + 1 \in Exchange /\ sent' = sent + 1 /\ sent' \in 0 .. MaxExchanges
           /\ sender' \in [Exchange -> Transaction] /\ sender'[sent + 1] = tx
           /\ entry' = sent + 1 /\ response' = <<>>
           /\ timeout = None /\ ~chunkTimer /\ chunkTimers <= Cardinality(TimedOut)
           /\ outcome[sent + 1] = "none"
           /\ sent \in Nat
<1>1. sent \in Nat /\ sent + 1 \in Exchange /\ sent' = sent + 1 /\ entry = None /\ ~destroyed
  BY DEF Called, Free, Inv, TypeOK
<1>2. sender' = [sender EXCEPT ![sent + 1] = tx] /\ entry' = sent + 1 /\ response' = <<>>
  BY DEF Called
<1>3. sender' \in [Exchange -> Transaction] /\ sender'[sent + 1] = tx
  BY <1>1, <1>2 DEF Inv, TypeOK
<1>4. timeout = None /\ ~chunkTimer
  BY <1>1 DEF Inv, TypeOK, TimersFollowEntry
<1>5. chunkTimers \in Nat /\ chunkTimers <= Cardinality(TimedOut)
  BY <1>1, <1>4, TimedOutFacts DEF Inv, TypeOK, TimersFollowEntry
<1>6. outcome[sent + 1] = "none"
  BY <1>1 DEF Inv, Begun
<1>7. sent' \in 0 .. MaxExchanges
  BY <1>1, BoundAssumption DEF Exchange
<1> QED
  BY <1>1, <1>2, <1>3, <1>4, <1>5, <1>6, <1>7

LEMMA WrittenType ==
    ASSUME TypeOK, NEW chunks \in Seq(Message) PROVE Written(chunks) \in Seq(Message)
<1>1. CASE chunks = <<>>
  BY <1>1 DEF Written, TypeOK
<1>2. CASE chunks # <<>>
  <2>1. Head(chunks) \in Message
    BY <1>2, HeadTailProperties
  <2> QED
    BY <1>2, <2>1, AppendProperties DEF Written, TypeOK
<1> QED
  BY <1>1, <1>2

LEMMA SendRequestInv == ASSUME Inv, NEW tx \in Transaction, SendRequest(tx) PROVE Inv'
<1> DEFINE chunks == GetAdu(tx)
<1>1. /\ Called(tx)
      /\ built' = built \cup {tx} /\ adu' = [adu EXCEPT ![tx] = chunks]
      /\ owed' = Written(chunks)
      /\ timeout' = sent + 1
      /\ UNCHANGED <<destroyed, outcome, resent, strayed, resends>>
  BY DEF SendRequest
<1>2. \/ chunkTimer' = TRUE /\ chunkTimers' = chunkTimers + 1
      \/ chunkTimer' = FALSE /\ chunkTimers' = chunkTimers
  BY DEF SendRequest
<1>3. chunks \in Seq(Message)
  BY ChunksType DEF GetAdu, Inv, TypeOK
<1>4. owed' \in Seq(Message) /\ adu' \in [Transaction -> Seq(Message)]
  BY <1>1, <1>3, WrittenType DEF Inv, TypeOK
<1>5. fresh' \in SUBSET Exchange /\ quiet' \in SUBSET Exchange
  BY <1>1, CalledFacts DEF SendRequest, Inv, TypeOK
<1>6. chunkTimers' \in Nat /\ chunkTimer' \in BOOLEAN
  <2>1. chunkTimers \in Nat
    BY DEF Inv, TypeOK
  <2>2. chunkTimers' \in Nat
    BY <1>2, <2>1
  <2>3. chunkTimer' \in BOOLEAN
    BY <1>2, Zenon
  <2> QED
    BY <2>2, <2>3
<1>7. TypeOK'
  BY <1>1, <1>4, <1>5, <1>6, CalledFacts, EmptySeq DEF Inv, TypeOK
<1>8. TimedOut' = TimedOut
  BY <1>1 DEF TimedOut
<1>9. TimersFollowEntry'
  <2>1. chunkTimers \in Nat /\ Cardinality(TimedOut) \in Nat
    BY TimedOutFacts DEF Inv, TypeOK
  <2>2. /\ chunkTimer' => chunkTimers' > 0
        /\ chunkTimers' <= Cardinality(TimedOut) + (IF chunkTimer' THEN 1 ELSE 0)
    BY <1>1, <1>2, <2>1, CalledFacts
  <2>3. timeout' = entry' /\ entry' # None /\ timeout' # None
    BY <1>1, CalledFacts DEF None
  <2> QED
    BY <1>8, <2>2, <2>3 DEF TimersFollowEntry
<1>10. Begun'
  BY <1>1, CalledFacts DEF Inv, Begun, Exchange
<1> QED
  BY <1>7, <1>9, <1>10 DEF Inv

LEMMA SendUnsupportedInv == ASSUME Inv, NEW tx \in Transaction, SendUnsupported(tx) PROVE Inv'
<1>1. /\ Called(tx) /\ Request[tx].code \notin Codes
      /\ chunkTimer' = FALSE
      /\ outcome' = [outcome EXCEPT ![sent + 1] = "refused"]
      /\ UNCHANGED <<chunkTimers, built, adu, timeout, destroyed, owed, fresh, quiet, resent,
                     strayed, resends>>
  BY DEF SendUnsupported
<1>2. outcome' \in [Exchange -> Outcome]
  BY <1>1 DEF Inv, TypeOK, Outcome
<1>3. TypeOK'
  BY <1>1, <1>2, CalledFacts, EmptySeq DEF Inv, TypeOK
<1>4. TimedOut' = TimedOut
  BY <1>1, CalledFacts DEF TimedOut, Inv, TypeOK
<1>5. TimersFollowEntry'
  <2>1. chunkTimers \in Nat /\ Cardinality(TimedOut) \in Nat
    BY TimedOutFacts DEF Inv, TypeOK
  <2>2. chunkTimers' <= Cardinality(TimedOut) + (IF chunkTimer' THEN 1 ELSE 0)
    BY <1>1, <2>1, CalledFacts
  <2> QED
    BY <1>1, <1>4, <2>2, CalledFacts DEF TimersFollowEntry, t
<1>6. Begun'
  BY <1>1, CalledFacts DEF Inv, TypeOK, Begun, None, Exchange
<1> QED
  BY <1>3, <1>5, <1>6 DEF Inv

\* The first chunk that is owed, and what is left after it.
LEMMA OwedFacts ==
    ASSUME TypeOK, owed # <<>>
    PROVE  Tail(owed) \in Seq(Message) /\ Head(owed) \in Message /\ Head(owed).loc \in Nat
<1>1. Tail(owed) \in Seq(Message) /\ Head(owed) \in Message
  BY HeadTailProperties DEF TypeOK
<1> QED
  BY <1>1 DEF Message

\* An exchange whose chunks are answered has a live response timer.
LEMMA ExpectedFacts ==
    ASSUME Inv, Arrives, Expected
    PROVE  /\ entry \in Exchange /\ entry <= sent /\ timeout = entry /\ outcome[entry] = "none"
           /\ t(entry) \in Transaction /\ Chunks(entry) \in Seq(Message)
           /\ Tail(Chunks(entry)) \in Seq(Message)
           /\ LeftAfterClear \in Nat /\ LeftAfterClear <= Cardinality(TimedOut)
<1>1. entry \in Exchange /\ Request[t(entry)].code \in Codes /\ Chunks(entry) # <<>> /\ ~destroyed
  BY DEF Expected, Arrives, Inv, TypeOK
<1>2. timeout = entry
  BY <1>1 DEF Expected, Inv, TimersFollowEntry
<1>3. t(entry) \in Transaction
  BY <1>1 DEF t, Inv, TypeOK
<1>4. Chunks(entry) \in Seq(Message)
  BY <1>3 DEF Chunks, Inv, TypeOK
<1>5. Tail(Chunks(entry)) \in Seq(Message)
  BY <1>1, <1>4, HeadTailProperties
<1>6. LeftAfterClear \in Nat /\ LeftAfterClear <= Cardinality(TimedOut)
  <2>1. chunkTimers \in Nat /\ Cardinality(TimedOut) \in Nat
    BY TimedOutFacts DEF Inv, TypeOK
  <2>2. CASE chunkTimer
    BY <1>1, <2>1, <2>2 DEF Inv, TimersFollowEntry, LeftAfterClear
  <2>3. CASE ~chunkTimer
    BY <1>1, <2>1, <2>3 DEF Inv, TimersFollowEntry, LeftAfterClear
  <2> QED
    BY <2>2, <2>3
<1> QED
  BY <1>1, <1>2, <1>3, <1>4, <1>5, <1>6 DEF Expected, Inv, Begun

LEMMA StrayedType ==
    ASSUME TypeOK, entry \in Exchange, NEW message PROVE Strayed(message) \in SUBSET Exchange
  BY DEF Strayed, TypeOK

LEMMA ChunkAnsweredInv == ASSUME Inv, ChunkAnswered PROVE Inv'
<1> DEFINE left == Tail(Chunks(entry))
<1>1. /\ Arrives /\ Expected /\ owed # <<>> /\ left # <<>> /\ ~destroyed
      /\ response' = Append(response, Head(owed).loc)
      /\ adu' = [adu EXCEPT ![t(entry)] = left]
      /\ owed' = Append(Tail(owed), Head(left))
      /\ strayed' = Strayed(Head(owed))
      /\ UNCHANGED <<entry, built, timeout, destroyed, sent, sender, outcome, fresh, quiet,
                     resent, resends>>
  BY DEF ChunkAnswered, Arrives
<1>2. \/ chunkTimer' = TRUE /\ chunkTimers' = LeftAfterClear + 1
      \/ chunkTimer' = FALSE /\ chunkTimers' = LeftAfterClear
  BY DEF ChunkAnswered
<1>3. left \in Seq(Message) /\ Head(left) \in Message
  BY <1>1, ExpectedFacts, HeadTailProperties
<1>4. owed' \in Seq(Message) /\ adu' \in [Transaction -> Seq(Message)]
  BY <1>1, <1>3, OwedFacts, AppendProperties DEF Inv, TypeOK
<1>5. response' \in Seq(Nat)
  BY <1>1, OwedFacts, AppendProperties DEF Inv, TypeOK
<1>6. strayed' \in SUBSET Exchange
  BY <1>1, ExpectedFacts, StrayedType DEF Inv
<1>7. TypeOK'
  <2>1. chunkTimers' \in Nat
    BY <1>1, <1>2, ExpectedFacts
  <2>2. chunkTimer' \in BOOLEAN
    BY <1>2, Zenon
  <2> QED
    BY <1>1, <1>4, <1>5, <1>6, <2>1, <2>2 DEF Inv, TypeOK
<1>8. TimersFollowEntry'
  <2>1. TimedOut' = TimedOut /\ Cardinality(TimedOut) \in Nat
    BY <1>1, TimedOutFacts DEF TimedOut
  <2>2. /\ chunkTimer' => chunkTimers' > 0
        /\ chunkTimers' <= Cardinality(TimedOut) + (IF chunkTimer' THEN 1 ELSE 0)
    BY <1>1, <1>2, <2>1, ExpectedFacts
  <2> QED
    BY <1>1, <2>1, <2>2, ExpectedFacts DEF TimersFollowEntry, Expected
<1>9. Begun'
  BY <1>1 DEF Inv, Begun
<1> QED
  BY <1>7, <1>8, <1>9 DEF Inv

\* An exchange that ends by an answer frees the unit and leaves no chunk timer behind.
LEMMA AnsweredInv ==
    ASSUME Inv, Arrives, Expected, NEW how \in Outcome, how # "timeout", Ends(entry, how),
           Forgotten, chunkTimers' = LeftAfterClear, owed' = Tail(owed),
           adu' \in [Transaction -> Seq(Message)], strayed' \in SUBSET Exchange,
           UNCHANGED <<built, destroyed, sent, sender, fresh, quiet, resent, resends>>
    PROVE  Inv'
<1>1. outcome' = [outcome EXCEPT ![entry] = how] /\ timeout' = None
  BY DEF Ends
<1>2. entry' = None /\ response' = <<>> /\ chunkTimer' = FALSE
  BY DEF Forgotten
<1>3. outcome' \in [Exchange -> Outcome] /\ owed' \in Seq(Message)
  BY <1>1, OwedFacts, ExpectedFacts DEF Arrives, Inv, TypeOK
<1>4. TypeOK'
  BY <1>1, <1>2, <1>3, ExpectedFacts, EmptySeq DEF Inv, TypeOK, None
<1>5. TimedOut' = TimedOut
  BY <1>1, ExpectedFacts DEF TimedOut, Inv, TypeOK
<1>6. TimersFollowEntry'
  <2>1. chunkTimers' <= Cardinality(TimedOut) + 0
    BY ExpectedFacts, TimedOutFacts
  <2> QED
    BY <1>1, <1>2, <1>5, <2>1 DEF TimersFollowEntry
<1>7. Begun'
  BY <1>1, <1>2, ExpectedFacts DEF Inv, TypeOK, Begun, None, Exchange
<1> QED
  BY <1>4, <1>6, <1>7 DEF Inv

LEMMA LastChunkAnsweredInv == ASSUME Inv, LastChunkAnswered PROVE Inv'
<1> DEFINE r == Request[t(entry)]
           bytes == Append(response, Head(owed).loc)
           how == IF r.code = COMMAND THEN "error"
                  ELSE IF bytes = Asked(r) THEN "response" ELSE "wrong"
<1>1. /\ Arrives /\ Expected /\ Forgotten /\ Ends(entry, how)
      /\ chunkTimers' = LeftAfterClear /\ owed' = Tail(owed)
      /\ adu' = [adu EXCEPT ![t(entry)] = <<>>] /\ strayed' = Strayed(Head(owed))
      /\ UNCHANGED <<built, destroyed, sent, sender, fresh, quiet, resent, resends>>
  BY DEF LastChunkAnswered
<1>2. how \in Outcome /\ how # "timeout"
  BY DEF Outcome
<1>3. adu' \in [Transaction -> Seq(Message)] /\ strayed' \in SUBSET Exchange
  BY <1>1, ExpectedFacts, StrayedType, EmptySeq DEF Inv, TypeOK
<1> HIDE DEF how
<1> QED
  BY <1>1, <1>2, <1>3, AnsweredInv

LEMMA CommandAnsweredInv == ASSUME Inv, CommandAnswered PROVE Inv'
<1> DEFINE how == IF Request[t(entry)].code = COMMAND THEN "response" ELSE "error"
<1>1. /\ Arrives /\ Expected /\ Forgotten /\ Ends(entry, how)
      /\ chunkTimers' = LeftAfterClear /\ owed' = Tail(owed)
      /\ UNCHANGED <<built, adu, destroyed, sent, sender, fresh, quiet, resent, strayed, resends>>
  BY DEF CommandAnswered
<1>2. how \in Outcome /\ how # "timeout"
  BY DEF Outcome
<1>3. adu' \in [Transaction -> Seq(Message)] /\ strayed' \in SUBSET Exchange
  BY <1>1 DEF Inv, TypeOK
<1> HIDE DEF how
<1> QED
  BY <1>1, <1>2, <1>3, AnsweredInv

LEMMA ChunkTimeoutInv == ASSUME Inv, NEW own \in BOOLEAN, ChunkTimeout(own) PROVE Inv'
<1>1. /\ ~destroyed
      /\ UNCHANGED <<entry, response, built, adu, timeout, destroyed, sent, sender, outcome, fresh,
                     quiet, strayed>>
  BY DEF ChunkTimeout
<1>2. /\ chunkTimers \in Nat /\ Cardinality(TimedOut) \in Nat /\ TimedOut' = TimedOut
      /\ chunkTimer => entry # None /\ chunkTimers > 0
      /\ chunkTimers <= Cardinality(TimedOut) + (IF chunkTimer THEN 1 ELSE 0)
  BY <1>1, TimedOutFacts DEF Inv, TypeOK, TimersFollowEntry, TimedOut
<1>3. IF own THEN chunkTimer ELSE chunkTimers > (IF chunkTimer THEN 1 ELSE 0)
  BY DEF ChunkTimeout
<1>4. \/ entry # None /\ chunkTimer' = TRUE /\ chunkTimers' = chunkTimers
      \/ chunkTimer' = (chunkTimer /\ ~own) /\ chunkTimers' = chunkTimers - 1
  BY DEF ChunkTimeout, Resend, NothingToResend
<1>5. chunkTimer' \in BOOLEAN
  BY <1>4, Zenon
<1>6. /\ chunkTimers' \in Nat
      /\ chunkTimer' => entry # None /\ chunkTimers' > 0
      /\ chunkTimers' <= Cardinality(TimedOut) + (IF chunkTimer' THEN 1 ELSE 0)
  <2>1. CASE entry # None /\ chunkTimer' = TRUE /\ chunkTimers' = chunkTimers
    <3>1. chunkTimers <= Cardinality(TimedOut) + 1 /\ chunkTimers > 0
      BY <1>2, <1>3
    <3> QED
      BY <1>2, <2>1, <3>1
  <2>2. CASE chunkTimer' = (chunkTimer /\ ~own) /\ chunkTimers' = chunkTimers - 1
    <3>1. CASE own
      <4>1. chunkTimer /\ ~chunkTimer'
        BY <1>3, <2>2, <3>1
      <4> QED
        BY <1>2, <2>2, <4>1
    <3>2. CASE ~own /\ chunkTimer
      <4>1. chunkTimer' /\ chunkTimers > 1
        BY <1>3, <2>2, <3>2
      <4> QED
        BY <1>2, <2>2, <3>2, <4>1
    <3>3. CASE ~own /\ ~chunkTimer
      <4>1. ~chunkTimer' /\ chunkTimers > 0
        BY <1>3, <2>2, <3>3
      <4> QED
        BY <1>2, <2>2, <3>3, <4>1
    <3> QED
      BY <3>1, <3>2, <3>3
  <2> QED
    BY <1>4, <2>1, <2>2
<1>7. /\ owed' \in Seq(Message) /\ resends' \in 0 .. MaxResends /\ resent' \in SUBSET Exchange
  <2>1. CASE Resend(own)
    <3>1. entry \in Exchange /\ t(entry) \in Transaction
      BY <2>1 DEF Resend, Inv, TypeOK, t
    <3>2. Chunks(entry) \in Seq(Message)
      BY <3>1 DEF Chunks, Inv, TypeOK
    <3>3. owed' \in Seq(Message)
      BY <2>1, <3>2, WrittenType DEF Resend, Inv
    <3>4. resends' \in 0 .. MaxResends
      BY <2>1, BoundAssumption DEF Resend, Inv, TypeOK
    <3> QED
      BY <2>1, <3>1, <3>3, <3>4 DEF Resend, Inv, TypeOK
  <2>2. CASE NothingToResend(own)
    BY <2>2 DEF NothingToResend, Inv, TypeOK
  <2> QED
    BY <2>1, <2>2 DEF ChunkTimeout
<1>8. TypeOK'
  BY <1>1, <1>5, <1>6, <1>7 DEF Inv, TypeOK
<1>9. TimersFollowEntry'
  BY <1>1, <1>2, <1>6 DEF Inv, TimersFollowEntry, t
<1>10. Begun'
  BY <1>1 DEF Inv, Begun
<1> QED
  BY <1>8, <1>9, <1>10 DEF Inv

\* The response timer leaves the chunk timer of its exchange behind, if there is one.
LEMMA HandleTimeoutInv == ASSUME Inv, HandleTimeout PROVE Inv'
<1>1. /\ timeout # None /\ entry' = None /\ response' = <<>> /\ chunkTimer' = FALSE
      /\ outcome' = [outcome EXCEPT ![timeout] = "timeout"] /\ timeout' = None
      /\ UNCHANGED <<chunkTimers, built, adu, destroyed, owed, sent, sender, fresh, quiet, resent,
                     strayed, resends>>
  BY DEF HandleTimeout, Forgotten, Ends
<1>2. timeout \in Exchange /\ timeout <= sent /\ outcome[timeout] = "none"
  BY <1>1 DEF Inv, TypeOK, Begun
<1>3. outcome' \in [Exchange -> Outcome]
  BY <1>1 DEF Inv, TypeOK, Outcome
<1>4. TypeOK'
  BY <1>1, <1>3, EmptySeq DEF Inv, TypeOK, None
<1>5. timeout \notin TimedOut /\ TimedOut' = TimedOut \cup {timeout}
  BY <1>1, <1>2 DEF TimedOut, Inv, TypeOK
<1>6. Cardinality(TimedOut') = Cardinality(TimedOut) + 1 /\ Cardinality(TimedOut) \in Nat
  BY <1>5, TimedOutFacts
<1>7. TimersFollowEntry'
  <2> SUFFICES ASSUME ~destroyed PROVE chunkTimers' <= Cardinality(TimedOut')
    BY <1>1, <1>6 DEF TimersFollowEntry, TypeOK, Inv
  <2>1. chunkTimers <= Cardinality(TimedOut) + (IF chunkTimer THEN 1 ELSE 0) /\ chunkTimers \in Nat
    BY DEF Inv, TypeOK, TimersFollowEntry
  <2>2. chunkTimers <= Cardinality(TimedOut) + 1
    BY <1>6, <2>1
  <2> QED
    BY <1>1, <1>6, <2>2
<1>8. Begun'
  BY <1>1, <1>2 DEF Inv, TypeOK, Begun, None, Exchange
<1> QED
  BY <1>4, <1>7, <1>8 DEF Inv

LEMMA StepInv == Inv /\ [Next]_vars => Inv'
<1> SUFFICES ASSUME Inv, [Next]_vars PROVE Inv'
  OBVIOUS
<1>1. ASSUME owed' \in Seq(Message), UNCHANGED <<port, history>> PROVE Inv'
  <2>1. TypeOK'
    BY <1>1 DEF port, history, Inv, TypeOK
  <2>2. TimersFollowEntry'
    BY <1>1 DEF port, history, Inv, TimersFollowEntry, TimedOut, t
  <2>3. Begun'
    BY <1>1 DEF port, history, Inv, Begun
  <2> QED
    BY <2>1, <2>2, <2>3 DEF Inv
<1>2. CASE NotExpected \/ Lost
  <2>1. owed # <<>> /\ owed' = Tail(owed) /\ UNCHANGED <<port, history>>
    BY <1>2 DEF NotExpected, Arrives, Lost
  <2>2. owed' \in Seq(Message)
    BY <2>1, OwedFacts DEF Inv
  <2> QED
    BY <1>1, <2>1, <2>2
<1>3. CASE UNCHANGED vars
  BY <1>1, <1>3 DEF vars, Inv, TypeOK
<1>4. CASE Destroy
  <2>1. /\ destroyed' = TRUE /\ timeout' = None
        /\ entry' = None /\ response' = <<>> /\ chunkTimer' = FALSE
        /\ UNCHANGED <<chunkTimers, built, adu, owed, sent, sender, outcome, fresh, quiet, resent,
                       strayed, resends>>
    BY <1>4 DEF Destroy, Forgotten, history
  <2>2. TypeOK'
    BY <2>1, EmptySeq DEF Inv, TypeOK, None
  <2>3. TimersFollowEntry' /\ Begun'
    BY <2>1 DEF Inv, TypeOK, TimersFollowEntry, Begun, None
  <2> QED
    BY <2>2, <2>3 DEF Inv
<1> QED
  BY <1>2, <1>3, <1>4, SendRequestInv, SendUnsupportedInv, ChunkAnsweredInv,
     LastChunkAnsweredInv,
     CommandAnsweredInv, ChunkTimeoutInv, HandleTimeoutInv DEF Next

\* Every variable of the transport keeps its type, for every set of transactions, those
\* of unknown functions included.
THEOREM TypeCorrect == Spec => []TypeOK
<1>1. Inv => TypeOK
  BY DEF Inv
<1> QED
  BY <1>1, InitInv, StepInv, PTL DEF Spec

\* The unit is blocked only by an exchange whose response timer is live or by an unknown
\* function, and every exchange that times out leaves at most one chunk timer behind,
\* however often chunks are repeated and answers lost.
THEOREM TimersFollow == Spec => []TimersFollowEntry
<1>1. Inv => TimersFollowEntry
  BY DEF Inv
<1> QED
  BY <1>1, InitInv, StepInv, PTL DEF Spec

----------------------------------------------------------------------------
\* What is open

\* Only the exchange that has the entry is open, and no response timer survives destroy().
OnlyEntryOpen ==
    /\ ~destroyed => \A e \in Exchange : Phase(e) = "open" => e = entry
    /\ destroyed => timeout = None

OpenInv == Inv /\ OnlyEntryOpen

LEMMA InitOpen == Init => OpenInv
<1>1. Init => OnlyEntryOpen
  BY DEF Init, OnlyEntryOpen, Phase, Exchange, None
<1> QED
  BY <1>1, InitInv DEF OpenInv

Ended == {"response", "wrong", "error", "timeout"}

\* What the steps are to the contract: an exchange begins, ...
LEMMA NewPhases ==
    ASSUME OpenInv, NEW tx \in Transaction, SendRequest(tx) \/ SendUnsupported(tx)
    PROVE  \E e \in Exchange :
              /\ ~destroyed /\ UNCHANGED destroyed
              /\ entry' = e /\ Phase(e) = "new" /\ \A u \in Exchange : Phase(u) # "open"
              /\ Phase(e)' = IF SendRequest(tx) THEN "open" ELSE "spoiled"
              /\ ~SendRequest(tx) => Request[t(e)'].code \notin Codes
              /\ \A u \in Exchange : u # e => Phase(u)' = Phase(u)
<1>1. Called(tx) /\ entry = None /\ ~destroyed
  BY DEF SendRequest, SendUnsupported, Called, Free
<1>2. /\ sent + 1 \in Exchange /\ sent' = sent + 1 /\ sent \in Nat /\ entry' = sent + 1
      /\ outcome[sent + 1] = "none" /\ outcome \in [Exchange -> Outcome]
  BY <1>1, CalledFacts DEF OpenInv, Inv, TypeOK
<1>3. PICK e \in Exchange : e = sent + 1
  BY <1>2
<1>4. Phase(e) = "new"
  BY <1>2, <1>3 DEF Phase
<1>5. \A u \in Exchange : Phase(u) # "open"
  BY <1>1 DEF OpenInv, OnlyEntryOpen, None, Exchange
<1>6. UNCHANGED destroyed
  BY DEF SendRequest, SendUnsupported
<1>7. CASE SendRequest(tx)
  <2>1. UNCHANGED outcome
    BY <1>7 DEF SendRequest
  <2>2. Phase(e)' = "open"
    BY <1>2, <1>3, <2>1 DEF Phase
  <2>3. ASSUME NEW u \in Exchange, u # e PROVE Phase(u)' = Phase(u)
    BY <1>2, <1>3, <2>1, <2>3 DEF Phase, Exchange
  <2> QED
    BY <1>1, <1>2, <1>3, <1>4, <1>5, <1>6, <1>7, <2>2, <2>3
<1>8. CASE SendUnsupported(tx) /\ ~SendRequest(tx)
  <2>1. outcome' = [outcome EXCEPT ![e] = "refused"] /\ UNCHANGED timeout
    BY <1>3, <1>8 DEF SendUnsupported
  <2>2. outcome'[e] = "refused" /\ sent' = e /\ ~(e > sent') /\ e \in Nat
    BY <1>2, <1>3, <2>1 DEF Exchange
  <2>3. Phase(e)' = "spoiled"
    BY <2>2 DEF Phase
  <2>4. Request[t(e)'].code \notin Codes
    <3>1. sender \in [Exchange -> Transaction] /\ sender' = [sender EXCEPT ![e] = tx]
      BY <1>1, <1>3 DEF Called, OpenInv, Inv, TypeOK
    <3>2. sender'[e] = tx
      BY <3>1
    <3> QED
      BY <1>8, <3>2 DEF SendUnsupported, t
  <2>5. ASSUME NEW u \in Exchange, u # e PROVE Phase(u)' = Phase(u)
    BY <1>2, <1>3, <2>1, <2>5 DEF Phase, Exchange
  <2> QED
    BY <1>1, <1>2, <1>3, <1>4, <1>5, <1>6, <1>8, <2>3, <2>4, <2>5
<1> QED
  BY <1>7, <1>8

\* ... the one with the entry ends, ...
LEMMA EntryEnds ==
    ASSUME OpenInv, LastChunkAnswered \/ CommandAnswered \/ HandleTimeout
    PROVE  \E e \in Exchange, how \in Ended :
              /\ e = entry /\ ~destroyed /\ outcome' = [outcome EXCEPT ![e] = how]
              /\ outcome[e] = "none" /\ e <= sent
              /\ UNCHANGED <<sent, destroyed>> /\ entry' = None
<1>1. CASE LastChunkAnswered
  <2> DEFINE bytes == Append(response, Head(owed).loc)
             how == IF Request[t(entry)].code = COMMAND THEN "error"
                    ELSE IF bytes = Asked(Request[t(entry)]) THEN "response" ELSE "wrong"
  <2>1. Arrives /\ Expected /\ Ends(entry, how) /\ Forgotten /\ UNCHANGED <<destroyed, sent>>
    BY <1>1 DEF LastChunkAnswered
  <2>2. how \in Ended
    BY DEF Ended
  <2> HIDE DEF how
  <2> QED
    BY <2>1, <2>2, ExpectedFacts DEF Ends, Forgotten, OpenInv, Arrives
<1>2. CASE CommandAnswered
  <2> DEFINE how == IF Request[t(entry)].code = COMMAND THEN "response" ELSE "error"
  <2>1. Arrives /\ Expected /\ Ends(entry, how) /\ Forgotten /\ UNCHANGED <<destroyed, sent>>
    BY <1>2 DEF CommandAnswered
  <2>2. how \in Ended
    BY DEF Ended
  <2> HIDE DEF how
  <2> QED
    BY <2>1, <2>2, ExpectedFacts DEF Ends, Forgotten, OpenInv, Arrives
<1>3. CASE HandleTimeout
  <2>1. /\ timeout # None /\ Ends(timeout, "timeout") /\ Forgotten /\ UNCHANGED <<destroyed, sent>>
    BY <1>3 DEF HandleTimeout
  <2>2. timeout \in Exchange /\ ~destroyed /\ timeout = entry
    BY <2>1 DEF OpenInv, OnlyEntryOpen, Inv, TypeOK, TimersFollowEntry
  <2>3. outcome[timeout] = "none" /\ timeout <= sent
    BY <2>1 DEF OpenInv, Inv, Begun
  <2> QED
    BY <2>1, <2>2, <2>3 DEF Ends, Forgotten, Ended
<1> QED
  BY <1>1, <1>2, <1>3

\* ... or nothing changes for it.
Aside == UNCHANGED <<entry, timeout, destroyed, sent, outcome>>

LEMMA AsideSteps ==
    ASSUME \/ NotExpected \/ ChunkAnswered \/ \E own \in BOOLEAN : ChunkTimeout(own)
           \/ Lost \/ UNCHANGED vars
    PROVE  Aside
  BY DEF Aside, NotExpected, ChunkAnswered, ChunkTimeout, Lost, vars, port, history

LEMMA EndPhases ==
    ASSUME NEW e \in Exchange, NEW how \in Ended, outcome' = [outcome EXCEPT ![e] = how],
           outcome \in [Exchange -> Outcome], outcome[e] = "none", e <= sent, sent \in Nat,
           UNCHANGED sent
    PROVE  /\ Phase(e) = "open" /\ Phase(e)' = "ended"
           /\ \A u \in Exchange : u # e => Phase(u)' = Phase(u)
<1>1. outcome'[e] = how /\ how # "none" /\ how # "refused" /\ e \in Nat /\ ~(e > sent)
  BY DEF Ended, Exchange
<1>2. Phase(e) = "open" /\ Phase(e)' = "ended"
  BY <1>1 DEF Phase
<1>3. ASSUME NEW u \in Exchange, u # e PROVE Phase(u)' = Phase(u)
  BY <1>3 DEF Phase
<1> QED
  BY <1>2, <1>3

LEMMA NextOpen == OpenInv /\ [Next]_vars => OpenInv'
<1> SUFFICES ASSUME OpenInv, [Next]_vars PROVE OnlyEntryOpen'
  BY StepInv DEF OpenInv
<1>0. outcome \in [Exchange -> Outcome] /\ sent \in Nat
  BY DEF OpenInv, Inv, TypeOK
<1>1. ASSUME NEW tx \in Transaction, SendRequest(tx) \/ SendUnsupported(tx) PROVE OnlyEntryOpen'
  <2>1. PICK e \in Exchange :
              /\ ~destroyed /\ UNCHANGED destroyed
              /\ entry' = e /\ \A u \in Exchange : Phase(u) # "open"
              /\ \A u \in Exchange : u # e => Phase(u)' = Phase(u)
    BY <1>1, NewPhases
  <2> QED
    BY <2>1 DEF OnlyEntryOpen
<1>2. CASE LastChunkAnswered \/ CommandAnswered \/ HandleTimeout
  <2>1. PICK e \in Exchange, how \in Ended :
              /\ e = entry /\ ~destroyed /\ outcome' = [outcome EXCEPT ![e] = how]
              /\ outcome[e] = "none" /\ e <= sent
              /\ UNCHANGED <<sent, destroyed>> /\ entry' = None
    BY <1>2, EntryEnds
  <2>2. Phase(e)' = "ended" /\ \A u \in Exchange : u # e => Phase(u)' = Phase(u)
    BY <1>0, <2>1, EndPhases
  <2>3. ASSUME NEW u \in Exchange PROVE Phase(u)' # "open"
    BY <2>1, <2>2 DEF OpenInv, OnlyEntryOpen
  <2> QED
    BY <2>1, <2>3 DEF OnlyEntryOpen
<1>3. CASE Destroy
  BY <1>3 DEF Destroy, OnlyEntryOpen
<1>4. CASE Aside
  BY <1>4 DEF Aside, OpenInv, OnlyEntryOpen, Phase
<1> QED
  BY <1>1, <1>2, <1>3, <1>4, AsideSteps DEF Next

----------------------------------------------------------------------------
\* The contract

phaseBar == [e \in Exchange |-> Phase(e)]
ContractStep == Contract!Next \/ (phaseBar' = phaseBar /\ destroyed' = destroyed)

\* The contract counts with a Cardinality of its own instance, which is the same one.
LEMMA SameCardinality == ASSUME NEW S PROVE Contract!Cardinality(S) = Cardinality(S)
  BY DEF Contract!Cardinality, Cardinality

LEMMA PhaseMoves ==
    ASSUME NEW e \in Exchange, NEW to, Phase(e)' = to,
           \A u \in Exchange : u # e => Phase(u)' = Phase(u)
    PROVE  phaseBar' = [phaseBar EXCEPT ![e] = to]
  BY DEF phaseBar

LEMMA ContractNext == OpenInv /\ [Next]_vars => ContractStep
<1> SUFFICES ASSUME OpenInv, [Next]_vars PROVE ContractStep
  OBVIOUS
<1>0. outcome \in [Exchange -> Outcome] /\ sent \in Nat
  BY DEF OpenInv, Inv, TypeOK
<1>1. ASSUME NEW tx \in Transaction, SendRequest(tx) \/ SendUnsupported(tx) PROVE ContractStep
  <2>1. PICK e \in Exchange :
              /\ ~destroyed /\ UNCHANGED destroyed
              /\ Phase(e) = "new" /\ \A u \in Exchange : Phase(u) # "open"
              /\ Phase(e)' = IF SendRequest(tx) THEN "open" ELSE "spoiled"
              /\ ~SendRequest(tx) => Request[t(e)'].code \notin Codes
              /\ \A u \in Exchange : u # e => Phase(u)' = Phase(u)
    BY <1>1, NewPhases
  <2>2. CASE SendRequest(tx)
    <3>1. phaseBar' = [phaseBar EXCEPT ![e] = "open"] /\ phaseBar[e] = "new"
      BY <2>1, <2>2, PhaseMoves DEF phaseBar
    <3>2. Contract!Open = {}
      BY <2>1 DEF Contract!Open
    <3>3. Contract!Cardinality(Contract!Open) < 1
      BY <3>2, FS_EmptySet, SameCardinality
    <3>4. Contract!Begin(e)
      BY <2>1, <3>1, <3>3 DEF Contract!Begin, phaseBar
    <3> QED
      BY <3>4 DEF ContractStep, Contract!Next
  <2>3. CASE ~SendRequest(tx)
    <3>1. phaseBar' = [phaseBar EXCEPT ![e] = "spoiled"] /\ phaseBar[e] = "new"
      BY <2>1, <2>3, PhaseMoves DEF phaseBar
    <3>2. Contract!Spoil(e)
      BY <2>1, <2>3, <3>1 DEF Contract!Spoil, phaseBar
    <3> QED
      BY <3>2 DEF ContractStep, Contract!Next
  <2> QED
    BY <2>2, <2>3
<1>2. CASE LastChunkAnswered \/ CommandAnswered \/ HandleTimeout
  <2>1. PICK e \in Exchange, how \in Ended :
              /\ ~destroyed /\ outcome' = [outcome EXCEPT ![e] = how]
              /\ outcome[e] = "none" /\ e <= sent /\ UNCHANGED <<sent, destroyed>>
    BY <1>2, EntryEnds
  <2>2. /\ Phase(e) = "open" /\ Phase(e)' = "ended"
        /\ \A u \in Exchange : u # e => Phase(u)' = Phase(u)
    BY <1>0, <2>1, EndPhases
  <2>3. phaseBar' = [phaseBar EXCEPT ![e] = "ended"] /\ phaseBar[e] = "open"
    BY <2>2, PhaseMoves DEF phaseBar
  <2> QED
    BY <2>1, <2>3 DEF ContractStep, Contract!Next, Contract!End, phaseBar
<1>same. ASSUME UNCHANGED <<sent, outcome>> PROVE phaseBar' = phaseBar
  BY <1>same DEF phaseBar, Phase
<1>3. CASE Destroy
  <2>1. destroyed' = TRUE /\ UNCHANGED <<sent, outcome>>
    BY <1>3 DEF Destroy, history
  <2> QED
    BY <1>same, <2>1 DEF ContractStep, Contract!Next, Contract!Close, phaseBar
<1>4. CASE Aside
  BY <1>same, <1>4 DEF Aside, ContractStep
<1> QED
  BY <1>1, <1>2, <1>3, <1>4, AsideSteps DEF Next

\* Each step begins an exchange while none is open, ends the open one, completes one of an
\* unknown function although sendRequest throws, closes, or is none of the contract's
\* business, as whatever the stale chunk timers write.  That an exchange is over for good
\* is TimersFollow: what completes it is its entry or its response timer, and both go.
THEOREM KeepsContract == Spec => Contract!Safety
<1>1. Init => Contract!Init
  <2> SUFFICES ASSUME Init PROVE phaseBar = [e \in Exchange |-> "new"] /\ destroyed = FALSE
    BY DEF Contract!Init, phaseBar
  <2>1. ASSUME NEW e \in Exchange PROVE Phase(e) = "new"
    BY DEF Init, Phase, Exchange
  <2> QED
    BY <2>1 DEF Init, phaseBar
<1>2. OpenInv /\ [Next]_vars => [Contract!Next]_<<phaseBar, destroyed>>
  BY ContractNext DEF ContractStep
<1>3. OpenInv /\ [Next]_vars => [Contract!Next]_<<[e \in Exchange |-> Phase(e)], destroyed>>
  BY <1>2 DEF phaseBar
<1> QED
  BY <1>1, <1>3, InitOpen, NextOpen, PTL DEF Spec, Contract!Safety

----------------------------------------------------------------------------
\* The bytes of a response

\* The exchanges whose bytes are vouched for, by their addresses or because nothing else
\* is on the bus.
Ordered(e) == e \in fresh \ strayed /\ OfMotor(Request[t(e)])
Alone(e) ==
    /\ e \in (fresh \cap quiet) \ resent
    /\ Request[t(e)].code = READ
    /\ (Request[t(e)].address % 256) + Request[t(e)].count <= 256
Trusted(e) == Ordered(e) \/ Alone(e)

\* A message about the memory of the motor controller, read or written, and the answer to
\* it, are about the address that opcode and address byte make: no other message has them.
Opcodes(b) == {ReadOpcodes[b + 1], WriteOpcodes[b + 1]}
Genuine ==
    {m \in Message :
        m.cmd = 72 => \E b \in 0 .. 3 : m.op \in Opcodes(b) /\ m.loc = (256 * b) + m.address}
AllGenuine == owed \in Seq(Genuine) /\ adu \in [Transaction -> Seq(Genuine)]

\* Of an exchange that began with all its chunks as many are left as bytes are missing,
\* and they are the last ones of its request; the bytes so far are the first ones, if the
\* exchange is vouched for; on a quiet bus no chunk is owed but the one that was written last.
Progress(e) ==
    LET r == Request[t(e)]
    IN  /\ Len(response) + Len(Chunks(e)) = r.count
        /\ \A k \in 1 .. Len(Chunks(e)) : Chunks(e)[k] = MemoryChunk(r, Len(response) + k)
SoFar(e) == \A i \in 1 .. Len(response) : response[i] = Request[t(e)].address + i - 1
OneOwed(e) == owed = <<>> \/ owed = <<Head(Chunks(e))>>
Collects ==
    \A e \in fresh :
        e = entry /\ Request[t(e)].code \in {READ, WRITE} =>
            /\ Progress(e)
            /\ Trusted(e) => SoFar(e)
            /\ Alone(e) => OneOwed(e)

Right == \A e \in Exchange : Trusted(e) => outcome[e] # "wrong"
HistorySent == fresh \subseteq 1 .. sent /\ quiet \subseteq 1 .. sent

MemoryInv == Inv /\ HistorySent /\ AllGenuine /\ Collects /\ Right

----------------------------------------------------------------------------
\* Genuine messages

LEMMA MemoryChunkGenuine ==
    ASSUME NEW tx \in Transaction, NEW i \in 1 .. Request[tx].count
    PROVE  MemoryChunk(Request[tx], i) \in Genuine
<1> DEFINE r == Request[tx]
<1>1. MemoryChunk(r, i) \in Message
  BY MemoryChunkType
<1>2. ASSUME MemoryChunk(r, i).cmd = 72
      PROVE  /\ Bank(r) \in 0 .. 3 /\ MemoryChunk(r, i).op \in Opcodes(Bank(r))
             /\ MemoryChunk(r, i).loc = (256 * Bank(r)) + MemoryChunk(r, i).address
  <2>1. OfMotor(r)
    BY <1>2 DEF MemoryChunk
  <2>2. Bank(r) \in 0 .. 3
    BY <2>1 DEF OfMotor
  <2>3. MemoryChunk(r, i).op \in Opcodes(Bank(r))
    BY <2>1 DEF MemoryChunk, Opcodes
  <2> QED
    BY <2>2, <2>3 DEF MemoryChunk
<1> QED
  BY <1>1, <1>2 DEF Genuine

LEMMA ChunksGenuine ==
    ASSUME NEW tx \in Transaction PROVE BuildAdu(Request[tx]) \in Seq(Genuine)
<1>1. CASE Request[tx].code = COMMAND
  <2>1. [cmd |-> COMMAND, op |-> 0, address |-> 0, loc |-> 0] \in Genuine
    BY DEF Genuine, Message, COMMAND
  <2> QED
    BY <1>1, <2>1 DEF BuildAdu
<1>2. CASE Request[tx].code # COMMAND
  <2>1. BuildAdu(Request[tx]) \in [1 .. Request[tx].count -> Genuine]
    BY <1>2, MemoryChunkGenuine DEF BuildAdu
  <2> QED
    BY <2>1, RequestsAreTyped, SeqDef
<1> QED
  BY <1>1, <1>2

LEMMA WrittenGenuine ==
    ASSUME AllGenuine, NEW chunks \in Seq(Genuine) PROVE Written(chunks) \in Seq(Genuine)
<1>1. CASE chunks = <<>>
  BY <1>1 DEF Written, AllGenuine
<1>2. CASE chunks # <<>>
  <2>1. Head(chunks) \in Genuine
    BY <1>2, HeadTailProperties
  <2> QED
    BY <1>2, <2>1, AppendProperties DEF Written, AllGenuine
<1> QED
  BY <1>1, <1>2

LEMMA TailGenuine ==
    ASSUME AllGenuine, owed # <<>> PROVE Tail(owed) \in Seq(Genuine) /\ Head(owed) \in Genuine
  BY HeadTailProperties DEF AllGenuine

LEMMA EntryGenuine ==
    ASSUME Inv, AllGenuine, entry # None
    PROVE  /\ entry \in Exchange /\ t(entry) \in Transaction /\ Chunks(entry) \in Seq(Genuine)
           /\ Chunks(entry) # <<>> => /\ Tail(Chunks(entry)) \in Seq(Genuine)
                                      /\ Head(Chunks(entry)) \in Genuine
<1>1. entry \in Exchange /\ t(entry) \in Transaction
  BY DEF Inv, TypeOK, t
<1>2. Chunks(entry) \in Seq(Genuine)
  BY <1>1 DEF Chunks, AllGenuine
<1> QED
  BY <1>1, <1>2, HeadTailProperties

LEMMA NextGenuine == Inv /\ AllGenuine /\ [Next]_vars => AllGenuine'
<1> SUFFICES ASSUME Inv, AllGenuine, [Next]_vars PROVE AllGenuine'
  OBVIOUS
<1>1. ASSUME NEW tx \in Transaction, SendRequest(tx) PROVE AllGenuine'
  <2>1. owed' = Written(GetAdu(tx)) /\ adu' = [adu EXCEPT ![tx] = GetAdu(tx)]
    BY <1>1 DEF SendRequest
  <2>2. GetAdu(tx) \in Seq(Genuine)
    BY ChunksGenuine DEF GetAdu, AllGenuine
  <2>3. owed' \in Seq(Genuine)
    BY <2>1, <2>2, WrittenGenuine
  <2> QED
    BY <2>1, <2>2, <2>3 DEF AllGenuine
<1>2. ASSUME UNCHANGED <<owed, adu>> PROVE AllGenuine'
  BY <1>2 DEF AllGenuine
<1>3. CASE ChunkAnswered
  <2> DEFINE left == Tail(Chunks(entry))
  <2>1. /\ owed # <<>> /\ entry # None /\ Chunks(entry) # <<>> /\ left # <<>>
        /\ adu' = [adu EXCEPT ![t(entry)] = left] /\ owed' = Append(Tail(owed), Head(left))
    BY <1>3 DEF ChunkAnswered, Arrives, Expected
  <2>2. left \in Seq(Genuine) /\ t(entry) \in Transaction
    BY <2>1, EntryGenuine
  <2>3. Head(left) \in Genuine
    BY <2>1, <2>2, HeadTailProperties
  <2>4. owed' \in Seq(Genuine)
    BY <2>1, <2>3, TailGenuine, AppendProperties
  <2> QED
    BY <2>1, <2>2, <2>4 DEF AllGenuine
<1>4. CASE LastChunkAnswered
  <2>1. /\ owed # <<>> /\ entry # None
        /\ adu' = [adu EXCEPT ![t(entry)] = <<>>] /\ owed' = Tail(owed)
    BY <1>4 DEF LastChunkAnswered, Arrives, Expected
  <2> QED
    BY <2>1, TailGenuine, EmptySeq DEF AllGenuine
<1>5. ASSUME owed # <<>>, owed' = Tail(owed), UNCHANGED adu PROVE AllGenuine'
  BY <1>5, TailGenuine DEF AllGenuine
<1>6. ASSUME NEW own \in BOOLEAN, ChunkTimeout(own) PROVE AllGenuine'
  <2>1. UNCHANGED adu /\ (UNCHANGED owed \/ (entry # None /\ owed' = Written(Chunks(entry))))
    BY <1>6 DEF ChunkTimeout, Resend, NothingToResend
  <2> QED
    BY <2>1, EntryGenuine, WrittenGenuine DEF AllGenuine
<1>7. ASSUME NEW tx \in Transaction, SendUnsupported(tx) PROVE AllGenuine'
  BY <1>2, <1>7 DEF SendUnsupported
<1>8. CASE HandleTimeout \/ Destroy \/ UNCHANGED vars
  BY <1>2, <1>8 DEF HandleTimeout, Destroy, vars, port
<1>9. CASE NotExpected \/ Lost \/ CommandAnswered
  BY <1>5, <1>9 DEF NotExpected, Lost, CommandAnswered, Arrives, port
<1> QED
  BY <1>1, <1>3, <1>4, <1>6, <1>7, <1>8, <1>9 DEF Next

----------------------------------------------------------------------------
\* What an answer tells

LEMMA AddressSplits ==
    ASSUME NEW a \in Address PROVE a = (256 * ((a \div 256) % 256)) + (a % 256)
<1>1. a \in Nat /\ a <= 65535
  BY DEF Address
<1>2. a = (256 * (a \div 256)) + (a % 256) /\ a \div 256 \in Nat /\ a % 256 \in 0 .. 255
  BY <1>1
<1>3. a \div 256 \in 0 .. 255
  BY <1>1, <1>2
<1>4. \A n \in 0 .. 255 : n % 256 = n
  OBVIOUS
<1>5. (a \div 256) % 256 = a \div 256
  BY <1>3, <1>4
<1> QED
  BY <1>2, <1>5

LEMMA OpcodesTell ==
    ASSUME NEW a \in 0 .. 3, NEW b \in 0 .. 3, NEW op \in Opcodes(a), op \in Opcodes(b)
    PROVE  a = b
  BY DEF Opcodes, ReadOpcodes, WriteOpcodes

\* A chunk of a request whose addresses do not wrap is about the byte of its place.
LEMMA ChunkPlace ==
    ASSUME NEW tx \in Transaction, NEW i \in 1 .. Request[tx].count,
           (Request[tx].address % 256) + Request[tx].count <= 256
    PROVE  MemoryChunk(Request[tx], i).loc = Request[tx].address + i - 1
<1> DEFINE r == Request[tx]
           low == r.address % 256
<1>1. r.address \in Address /\ r.address \in Nat /\ r.count \in Nat
  BY RequestsAreTyped
<1>2. i \in Nat /\ i >= 1 /\ i <= r.count
  BY <1>1
<1>3. low \in Nat
  BY <1>1
<1>4. low + i - 1 \in 0 .. 255
  BY <1>1, <1>2, <1>3
<1>5. \A n \in 0 .. 255 : n % 256 = n
  OBVIOUS
<1>6. Low(r, i) = low + i - 1
  BY <1>4, <1>5 DEF Low
<1>7. r.address = (256 * Bank(r)) + low /\ Bank(r) \in Nat
  BY <1>1, AddressSplits DEF Bank
<1>8. MemoryChunk(r, i).loc = (256 * Bank(r)) + Low(r, i)
  BY DEF MemoryChunk
<1> HIDE DEF low
<1> QED
  BY <1>1, <1>2, <1>3, <1>6, <1>7, <1>8

\* The chunk that is answered next, while an exchange with all its chunks collects.
LEMMA HeadChunk ==
    ASSUME Inv, Expected, entry \in Exchange, Progress(entry)
    PROVE  /\ Len(response) \in Nat /\ Len(response) + 1 \in 1 .. Request[t(entry)].count
           /\ Head(Chunks(entry)) = MemoryChunk(Request[t(entry)], Len(response) + 1)
           /\ Chunks(entry) \in Seq(Message) /\ Chunks(entry) # <<>> /\ t(entry) \in Transaction
           /\ Request[t(entry)].count \in Nat
<1>1. t(entry) \in Transaction
  BY DEF t, Inv, TypeOK
<1>2. Chunks(entry) \in Seq(Message) /\ Chunks(entry) # <<>> /\ response \in Seq(Nat)
  BY <1>1 DEF Chunks, Inv, TypeOK, Expected
<1>3. Len(Chunks(entry)) \in Nat /\ Len(Chunks(entry)) >= 1 /\ Len(response) \in Nat
  BY <1>2, LenProperties, EmptySeq
<1>4. Request[t(entry)].count \in Nat
  BY <1>1, RequestsAreTyped
<1>5. Len(response) + 1 \in 1 .. Request[t(entry)].count
  BY <1>3, <1>4 DEF Progress
<1>6. Head(Chunks(entry)) = Chunks(entry)[1]
  BY <1>2
<1>7. 1 \in 1 .. Len(Chunks(entry))
  BY <1>3
<1>8. Head(Chunks(entry)) = MemoryChunk(Request[t(entry)], Len(response) + 1)
  BY <1>6, <1>7 DEF Progress
<1> QED
  BY <1>1, <1>2, <1>3, <1>4, <1>5, <1>8

\* An answer that is taken for the next chunk of a trusted exchange is about its byte: by
\* its command, opcode and address byte, or because it is the only one there is.
LEMMA AnswerTells ==
    ASSUME Inv, AllGenuine, Arrives, Expected, Fits(Head(owed)), entry \in Exchange,
           Progress(entry),
           \/ entry \in fresh \ Strayed(Head(owed)) /\ OfMotor(Request[t(entry)])
           \/ Alone(entry) /\ OneOwed(entry)
    PROVE  Head(owed).loc = Request[t(entry)].address + (Len(response) + 1) - 1
<1> DEFINE r == Request[t(entry)]
           m == Head(owed)
           chunk == Head(Chunks(entry))
<1>1. /\ Len(response) \in Nat /\ Len(response) + 1 \in 1 .. r.count
      /\ chunk = MemoryChunk(r, Len(response) + 1) /\ t(entry) \in Transaction
  BY HeadChunk
<1>2. r.address \in Address /\ r.address \in Nat
  BY <1>1, RequestsAreTyped
<1>3. CASE entry \in fresh \ Strayed(m) /\ OfMotor(r)
  <2>1. chunk.cmd = 72 /\ Bank(r) \in 0 .. 3
    BY <1>1, <1>3 DEF MemoryChunk, OfMotor
  <2>2. chunk.op \in Opcodes(Bank(r))
    BY <1>1, <1>3 DEF MemoryChunk, Opcodes
  <2>3. m.cmd # READ
    BY <1>3, <2>1 DEF Strayed, READ
  <2>4. m.cmd = 72 /\ m.op = chunk.op /\ m.address = (r.address % 256) + Len(response)
    BY <2>1, <2>3 DEF Fits
  <2>5. m \in Genuine
    BY TailGenuine DEF Arrives
  <2>6. PICK b \in 0 .. 3 : m.op \in Opcodes(b) /\ m.loc = (256 * b) + m.address
    BY <2>4, <2>5 DEF Genuine
  <2>7. b = Bank(r)
    BY <2>1, <2>2, <2>4, <2>6, OpcodesTell
  <2>8. r.address = (256 * Bank(r)) + (r.address % 256) /\ r.address % 256 \in Nat
    BY <1>2, AddressSplits DEF Bank
  <2>9. \A bank \in 0 .. 3, low \in Nat, n \in Nat :
           (256 * bank) + (low + n) = ((256 * bank) + low) + (n + 1) - 1
    OBVIOUS
  <2>10. m.loc = (256 * Bank(r)) + ((r.address % 256) + Len(response))
    BY <2>4, <2>6, <2>7
  <2>11. (256 * Bank(r)) + ((r.address % 256) + Len(response))
            = ((256 * Bank(r)) + (r.address % 256)) + (Len(response) + 1) - 1
    BY <1>1, <2>1, <2>8, <2>9
  <2> QED
    BY <2>8, <2>10, <2>11
<1>4. CASE Alone(entry) /\ OneOwed(entry)
  <2>1. owed = <<chunk>>
    BY <1>4 DEF OneOwed, Arrives
  <2>2. m = MemoryChunk(r, Len(response) + 1)
    BY <1>1, <2>1
  <2> QED
    BY <1>1, <1>4, <2>2, ChunkPlace DEF Alone
<1> QED
  BY <1>3, <1>4

----------------------------------------------------------------------------
\* The steps

LEMMA InitMemory == Init => MemoryInv
<1> SUFFICES ASSUME Init PROVE MemoryInv
  OBVIOUS
<1>1. Inv
  BY InitInv
<1>2. HistorySent /\ Collects
  BY DEF Init, HistorySent, Collects
<1>3. AllGenuine
  <2>1. <<>> \in Seq(Genuine)
    BY EmptySeq
  <2> QED
    BY <2>1 DEF Init, AllGenuine
<1>4. Right
  BY DEF Init, Right
<1> QED
  BY <1>1, <1>2, <1>3, <1>4 DEF MemoryInv

\* Nothing is collected while there is no entry.
LEMMA NoEntry ==
    ASSUME entry' = None, fresh' \subseteq Exchange PROVE Collects'
  BY DEF Collects, Exchange, None

\* Who is trusted may only be fewer, as long as requests are sent by the same.
LEMMA TrustShrinks ==
    ASSUME NEW e \in Exchange, t(e)' = t(e), e \in fresh' => e \in fresh,
           e \in quiet' => e \in quiet, strayed \subseteq strayed', resent \subseteq resent'
    PROVE  (Alone(e)' => Alone(e)) /\ (Trusted(e)' => Trusted(e))
  BY DEF Trusted, Ordered, Alone

\* An exchange that ends, rightly if it is trusted.
LEMMA EndsRight ==
    ASSUME MemoryInv, NEW x \in Exchange, NEW how, outcome' = [outcome EXCEPT ![x] = how],
           Trusted(x)' => how # "wrong", entry' = None,
           strayed \subseteq strayed', UNCHANGED <<sent, sender, fresh, quiet, resent>>
    PROVE  HistorySent' /\ Collects' /\ Right'
<1>1. HistorySent' /\ Collects'
  BY NoEntry DEF MemoryInv, HistorySent, Inv, TypeOK
<1>2. ASSUME NEW e \in Exchange, Trusted(e)' PROVE outcome'[e] # "wrong"
  <2>1. Trusted(e) /\ outcome[e] # "wrong"
    BY <1>2, TrustShrinks DEF MemoryInv, Right, t
  <2>2. outcome \in [Exchange -> Outcome]
    BY DEF MemoryInv, Inv, TypeOK
  <2> QED
    BY <1>2, <2>1, <2>2
<1> QED
  BY <1>1, <1>2 DEF Right

LEMMA SendRequestMemory ==
    ASSUME MemoryInv, NEW tx \in Transaction, SendRequest(tx)
    PROVE  HistorySent' /\ Collects' /\ Right'
<1>0. Inv /\ HistorySent /\ Right /\ TypeOK
  BY DEF MemoryInv, Inv
<1>1. /\ Called(tx) /\ adu' = [adu EXCEPT ![tx] = GetAdu(tx)] /\ owed' = Written(GetAdu(tx))
      /\ UNCHANGED <<outcome, resent, strayed>>
  BY DEF SendRequest
<1>2. /\ sent \in Nat /\ sent' = sent + 1 /\ sender' = [sender EXCEPT ![sent + 1] = tx]
      /\ sender'[sent + 1] = tx /\ entry' = sent + 1 /\ response' = <<>>
      /\ outcome[sent + 1] = "none" /\ sent + 1 \in Exchange
  BY <1>0, <1>1, CalledFacts DEF Called
<1>3. PICK x \in Exchange : x = sent + 1
  BY <1>2
<1>4. /\ fresh' = IF GetAdu(tx) = BuildAdu(Request[tx]) THEN fresh \cup {x} ELSE fresh
      /\ quiet' = IF owed = <<>> /\ chunkTimers = 0 THEN quiet \cup {x} ELSE quiet
  BY <1>3 DEF SendRequest
<1>5. HistorySent'
  BY <1>0, <1>2, <1>3, <1>4 DEF HistorySent
<1>6. ASSUME NEW e \in Exchange, e # x PROVE t(e)' = t(e)
  BY <1>0, <1>2, <1>3, <1>6 DEF t, TypeOK
<1>7. Right'
  <2>1. ASSUME NEW e \in Exchange, e # x, Trusted(e)' PROVE outcome'[e] # "wrong"
    <3>1. (e \in fresh' => e \in fresh) /\ (e \in quiet' => e \in quiet)
      BY <1>4, <2>1
    <3>2. Trusted(e)
      BY <1>1, <1>6, <2>1, <3>1, TrustShrinks
    <3> QED
      BY <1>0, <1>1, <3>2 DEF Right
  <2>2. outcome'[x] # "wrong"
    BY <1>1, <1>2, <1>3
  <2> QED
    BY <2>1, <2>2 DEF Right
<1>8. Collects'
  <2> SUFFICES ASSUME x \in fresh', Request[t(x)'].code \in {READ, WRITE}
               PROVE  Progress(x)' /\ SoFar(x)' /\ (Alone(x)' => OneOwed(x)')
    BY <1>2, <1>3 DEF Collects
  <2>1. t(x)' = tx
    BY <1>2, <1>3 DEF t
  <2>2. x \notin fresh
    BY <1>0, <1>2, <1>3 DEF HistorySent
  <2>3. GetAdu(tx) = BuildAdu(Request[tx])
    BY <1>4, <2>2
  <2>4. Chunks(x)' = BuildAdu(Request[tx])
    BY <1>0, <1>1, <2>1, <2>3 DEF Chunks, TypeOK
  <2>5. Request[tx].code # COMMAND /\ Request[tx].count \in Nat /\ Request[tx].count > 0
    BY <2>1, RequestsAreTyped DEF READ, WRITE, COMMAND
  <2>6. /\ BuildAdu(Request[tx]) = [i \in 1 .. Request[tx].count |-> MemoryChunk(Request[tx], i)]
        /\ Len(BuildAdu(Request[tx])) = Request[tx].count
    BY <2>5, ChunksType, LenProperties DEF BuildAdu
  <2>7. Len(response') = 0
    BY <1>2
  <2>8. Progress(x)'
    <3>1. ASSUME NEW k \in 1 .. Request[tx].count PROVE Chunks(x)'[k] = MemoryChunk(Request[tx], 0 + k)
      <4>1. 0 + k = k
        BY <2>5
      <4> QED
        BY <2>4, <2>6, <4>1
    <3>2. 0 + Request[tx].count = Request[tx].count
      BY <2>5
    <3> QED
      BY <2>1, <2>4, <2>6, <2>7, <3>1, <3>2 DEF Progress
  <2>9. SoFar(x)'
    BY <2>7 DEF SoFar
  <2>10. ASSUME Alone(x)' PROVE OneOwed(x)'
    <3>1. x \notin quiet /\ x \in quiet'
      BY <1>0, <1>2, <1>3, <2>10 DEF HistorySent, Alone
    <3>2. owed = <<>>
      BY <1>4, <3>1
    <3>3. \A m : Append(<<>>, m) = <<m>>
      OBVIOUS
    <3> QED
      BY <1>1, <2>3, <2>4, <3>2, <3>3 DEF OneOwed, Written
  <2> QED
    BY <2>8, <2>9, <2>10
<1> QED
  BY <1>5, <1>7, <1>8

LEMMA TailOfOne == \A c : Tail(<<c>>) = <<>>
  OBVIOUS

LEMMA ChunkAnsweredMemory ==
    ASSUME MemoryInv, ChunkAnswered PROVE HistorySent' /\ Collects' /\ Right'
<1>0. Inv /\ TypeOK /\ HistorySent /\ AllGenuine /\ Collects /\ Right
  BY DEF MemoryInv, Inv
<1>1. /\ Arrives /\ Expected /\ Fits(Head(owed)) /\ owed # <<>>
      /\ response' = Append(response, Head(owed).loc)
      /\ adu' = [adu EXCEPT ![t(entry)] = Tail(Chunks(entry))]
      /\ owed' = Append(Tail(owed), Head(Tail(Chunks(entry))))
      /\ strayed' = Strayed(Head(owed))
      /\ UNCHANGED <<entry, sent, sender, outcome, fresh, quiet, resent>>
  BY DEF ChunkAnswered, Arrives
<1>2. PICK x \in Exchange : x = entry
  BY <1>0, <1>1 DEF Expected, TypeOK
<1>3. strayed \subseteq strayed'
  BY <1>1 DEF Strayed
<1>4. HistorySent'
  BY <1>0, <1>1 DEF HistorySent
<1>5. ASSUME NEW e \in Exchange PROVE t(e)' = t(e) /\ (Alone(e)' => Alone(e)) /\ (Trusted(e)' => Trusted(e))
  BY <1>1, <1>3, TrustShrinks DEF t
<1>6. Right'
  BY <1>0, <1>1, <1>5 DEF Right
<1>7. Collects'
  <2> DEFINE r == Request[t(x)]
             m == Head(owed)
  <2> SUFFICES ASSUME x \in fresh, r.code \in {READ, WRITE}
               PROVE  Progress(x)' /\ (Trusted(x)' => SoFar(x)') /\ (Alone(x)' => OneOwed(x)')
    BY <1>1, <1>2, <1>5 DEF Collects
  <2>1. Progress(x) /\ (Trusted(x) => SoFar(x)) /\ (Alone(x) => OneOwed(x))
    BY <1>0, <1>2 DEF Collects
  <2>2. /\ Len(response) \in Nat /\ Chunks(x) \in Seq(Message) /\ Chunks(x) # <<>>
        /\ t(x) \in Transaction /\ response \in Seq(Nat)
    BY <1>0, <1>1, <1>2, <2>1, HeadChunk DEF TypeOK
  <2>3. m.loc \in Nat
    BY <1>0, <1>1, OwedFacts
  <2>4. /\ Len(response') = Len(response) + 1 /\ response'[Len(response) + 1] = m.loc
        /\ \A i \in 1 .. Len(response) : response'[i] = response[i]
    BY <1>1, <2>2, <2>3, AppendProperties
  <2>5. Chunks(x)' = Tail(Chunks(x))
    <3>1. sender' = sender /\ t(x) = t(entry)
      BY <1>1, <1>2
    <3> QED
      BY <1>0, <1>1, <1>2, <1>5, <2>2, <3>1 DEF Chunks, TypeOK
  <2>6. /\ Len(Tail(Chunks(x))) = Len(Chunks(x)) - 1 /\ Len(Chunks(x)) \in Nat
        /\ \A k \in 1 .. Len(Tail(Chunks(x))) : Tail(Chunks(x))[k] = Chunks(x)[k + 1]
    BY <2>2, HeadTailProperties, LenProperties
  <2>7. Progress(x)'
    <3>1. Len(response) + 1 + (Len(Chunks(x)) - 1) = r.count
      BY <2>1, <2>2, <2>6 DEF Progress
    <3>2. ASSUME NEW k \in 1 .. Len(Tail(Chunks(x)))
          PROVE  Tail(Chunks(x))[k] = MemoryChunk(r, (Len(response) + 1) + k)
      <4>1. k + 1 \in 1 .. Len(Chunks(x)) /\ Len(response) + (k + 1) = (Len(response) + 1) + k
        BY <2>2, <2>6
      <4>2. Chunks(x)[k + 1] = MemoryChunk(r, Len(response) + (k + 1))
        BY <2>1, <4>1 DEF Progress
      <4> QED
        BY <2>6, <4>1, <4>2
    <3>3. Len(Chunks(x)') = Len(Chunks(x)) - 1 /\ t(x)' = t(x)
      BY <1>5, <2>5, <2>6
    <3> HIDE DEF r
    <3>4. r = Request[t(x)]
      BY DEF r
    <3> QED
      BY <2>4, <2>5, <3>1, <3>2, <3>3, <3>4 DEF Progress
  <2>8. ASSUME Trusted(x)' PROVE SoFar(x)'
    <3>1. \/ x \in fresh \ Strayed(m) /\ OfMotor(r)
          \/ Alone(x) /\ OneOwed(x)
      BY <1>1, <1>5, <2>1, <2>8 DEF Trusted, Ordered
    <3>2. m.loc = r.address + (Len(response) + 1) - 1
      BY <1>0, <1>1, <1>2, <2>1, <3>1, AnswerTells
    <3>3. SoFar(x)
      BY <1>5, <2>1, <2>8
    <3>4. ASSUME NEW i \in 1 .. Len(response) + 1 PROVE response'[i] = r.address + i - 1
      <4>1. i \in 1 .. Len(response) \/ i = Len(response) + 1
        BY <2>2
      <4> QED
        BY <2>4, <3>2, <3>3, <4>1 DEF SoFar
    <3> QED
      BY <1>5, <2>4, <3>4 DEF SoFar
  <2>9. ASSUME Alone(x)' PROVE OneOwed(x)'
    <3>1. OneOwed(x)
      BY <1>5, <2>1, <2>9
    <3>2. Tail(owed) = <<>>
      BY <1>1, <3>1, TailOfOne DEF OneOwed
    <3>3. \A c : Append(<<>>, c) = <<c>>
      OBVIOUS
    <3>4. owed' = <<Head(Tail(Chunks(x)))>>
      BY <1>1, <1>2, <3>2, <3>3
    <3> QED
      BY <2>5, <3>4 DEF OneOwed
  <2> QED
    BY <2>7, <2>8, <2>9
<1> QED
  BY <1>4, <1>6, <1>7

LEMMA LastChunkAnsweredMemory ==
    ASSUME MemoryInv, LastChunkAnswered PROVE HistorySent' /\ Collects' /\ Right'
<1>0. Inv /\ TypeOK /\ HistorySent /\ AllGenuine /\ Collects /\ Right
  BY DEF MemoryInv, Inv
<1> DEFINE r == Request[t(entry)]
           m == Head(owed)
           bytes == Append(response, m.loc)
           how == IF r.code = COMMAND THEN "error"
                  ELSE IF bytes = Asked(r) THEN "response" ELSE "wrong"
<1>1. /\ Arrives /\ Expected /\ Fits(m) /\ owed # <<>> /\ Tail(Chunks(entry)) = <<>>
      /\ outcome' = [outcome EXCEPT ![entry] = how] /\ entry' = None
      /\ strayed' = Strayed(m) /\ r.code \in Codes
      /\ UNCHANGED <<sent, sender, fresh, quiet, resent>>
  BY DEF LastChunkAnswered, Arrives, Ends, Forgotten, Expected
<1>2. PICK x \in Exchange : x = entry
  BY <1>0, <1>1 DEF Expected, TypeOK
<1>3. strayed \subseteq strayed'
  BY <1>1 DEF Strayed
<1>4. ASSUME Trusted(x)' PROVE how # "wrong"
  <2>1. Trusted(x) /\ t(x)' = t(x) /\ (Alone(x)' => Alone(x))
    BY <1>1, <1>3, <1>4, TrustShrinks DEF t
  <2>2. x \in fresh /\ r.code \in {READ, WRITE}
    BY <1>2, <2>1 DEF Trusted, Ordered, Alone, OfMotor
  <2>3. Progress(entry) /\ SoFar(entry) /\ (Alone(entry) => OneOwed(entry))
    BY <1>0, <1>2, <2>1, <2>2 DEF Collects
  <2>4. \/ entry \in fresh \ Strayed(m) /\ OfMotor(r)
        \/ Alone(entry) /\ OneOwed(entry)
    BY <1>1, <1>2, <1>4, <2>1, <2>3 DEF Trusted, Ordered
  <2>5. m.loc = r.address + (Len(response) + 1) - 1
    BY <1>0, <1>1, <1>2, <2>3, <2>4, AnswerTells
  <2>6. /\ Len(response) \in Nat /\ Chunks(entry) \in Seq(Message) /\ Chunks(entry) # <<>>
        /\ t(entry) \in Transaction /\ response \in Seq(Nat) /\ r.count \in Nat /\ m.loc \in Nat
    BY <1>0, <1>1, <1>2, <2>3, HeadChunk, OwedFacts DEF TypeOK
  <2>7. Len(Chunks(entry)) = 1
    <3>1. Len(Tail(Chunks(entry))) = Len(Chunks(entry)) - 1 /\ Len(Chunks(entry)) \in Nat
      BY <2>6, HeadTailProperties, LenProperties
    <3>2. Len(Tail(Chunks(entry))) = 0
      <4>1. Tail(Chunks(entry)) = <<>> /\ Len(<<>>) = 0
        BY <1>1
      <4> QED
        BY <4>1, Zenon
    <3> QED
      BY <3>1, <3>2
  <2>8. Len(response) + 1 = r.count
    BY <2>3, <2>7 DEF Progress
  <2>9. /\ bytes \in Seq(Nat) /\ Len(bytes) = Len(response) + 1 /\ bytes[Len(response) + 1] = m.loc
        /\ \A i \in 1 .. Len(response) : bytes[i] = response[i]
    BY <2>6, AppendProperties
  <2>10. ASSUME NEW i \in 1 .. r.count PROVE bytes[i] = r.address + i - 1
    <3>1. i \in 1 .. Len(response) \/ i = Len(response) + 1
      BY <2>6, <2>8
    <3> QED
      BY <2>3, <2>5, <2>9, <3>1 DEF SoFar
  <2>11. DOMAIN bytes = 1 .. r.count /\ bytes = [i \in DOMAIN bytes |-> bytes[i]]
    BY <2>8, <2>9, LenProperties
  <2>12. bytes = Asked(r)
    BY <2>10, <2>11 DEF Asked
  <2>13. r.code # COMMAND
    BY <2>2 DEF READ, WRITE, COMMAND
  <2> QED
    BY <2>12, <2>13
<1> HIDE DEF how
<1>5. outcome' = [outcome EXCEPT ![x] = how]
  BY <1>1, <1>2
<1> QED
  BY <1>1, <1>3, <1>4, <1>5, EndsRight

\* The steps that neither collect nor end anything: of what is owed and of the exchanges a
\* chunk was repeated for, one or the other may change.
LEMMA AsideMemory ==
    ASSUME MemoryInv, UNCHANGED <<entry, response, adu, sent, sender, outcome, fresh, quiet, strayed>>,
           \/ UNCHANGED <<owed, resent>>
           \/ owed # <<>> /\ owed' = Tail(owed) /\ UNCHANGED resent
           \/ entry # None /\ resent' = resent \cup {entry}
    PROVE  HistorySent' /\ Collects' /\ Right'
<1>0. HistorySent /\ Collects /\ Right /\ fresh \subseteq Exchange
  BY DEF MemoryInv, Inv, TypeOK
<1>1. resent \subseteq resent'
  OBVIOUS
<1>2. ASSUME NEW e \in Exchange PROVE t(e)' = t(e) /\ (Alone(e)' => Alone(e)) /\ (Trusted(e)' => Trusted(e))
  BY <1>1, TrustShrinks DEF t
<1>3. HistorySent' /\ Right'
  BY <1>0, <1>2 DEF HistorySent, Right
<1>4. ASSUME NEW e \in fresh, e = entry, Request[t(e)].code \in {READ, WRITE}
      PROVE  Progress(e)' /\ (Trusted(e)' => SoFar(e)') /\ (Alone(e)' => OneOwed(e)')
  <2>1. e \in Exchange
    BY <1>0, <1>4
  <2>2. Progress(e) /\ (Trusted(e) => SoFar(e)) /\ (Alone(e) => OneOwed(e))
    BY <1>0, <1>4 DEF Collects
  <2>3. Chunks(e)' = Chunks(e) /\ t(e)' = t(e)
    BY DEF Chunks, t
  <2>4. Progress(e)'
    BY <2>2, <2>3 DEF Progress
  <2>5. SoFar(e) => SoFar(e)'
    BY <2>3 DEF SoFar
  <2>6. ASSUME Alone(e)' PROVE OneOwed(e)'
    <3>1. OneOwed(e) /\ e \notin resent'
      BY <1>2, <2>1, <2>2, <2>6 DEF Alone
    <3>2. owed' = owed \/ (owed # <<>> /\ owed' = Tail(owed))
      BY <1>4, <3>1
    <3>3. owed' = owed \/ owed' = <<>>
      BY <3>1, <3>2, TailOfOne DEF OneOwed
    <3>4. owed = <<>> \/ owed = <<Head(Chunks(e))>>
      BY <3>1 DEF OneOwed
    <3> QED
      BY <2>3, <3>3, <3>4 DEF OneOwed
  <2> QED
    BY <1>2, <2>1, <2>2, <2>4, <2>5, <2>6
<1>5. Collects'
  BY <1>4 DEF Collects, t
<1> QED
  BY <1>3, <1>5

LEMMA NextMemory == MemoryInv /\ [Next]_vars => MemoryInv'
<1> SUFFICES ASSUME MemoryInv, [Next]_vars PROVE HistorySent' /\ Collects' /\ Right'
  BY StepInv, NextGenuine DEF MemoryInv
<1>0. Inv /\ TypeOK /\ HistorySent /\ Collects /\ Right
  BY DEF MemoryInv, Inv
<1>1. ASSUME NEW tx \in Transaction, SendUnsupported(tx) PROVE HistorySent' /\ Collects' /\ Right'
  <2>1. Called(tx) /\ UNCHANGED <<fresh, quiet, resent, strayed>>
        /\ outcome' = [outcome EXCEPT ![sent + 1] = "refused"]
    BY <1>1 DEF SendUnsupported
  <2>2. /\ sent \in Nat /\ sent' = sent + 1 /\ sender' = [sender EXCEPT ![sent + 1] = tx]
        /\ entry' = sent + 1 /\ sent + 1 \in Exchange
    BY <1>0, <2>1, CalledFacts DEF Called
  <2>3. HistorySent' /\ sent + 1 \notin fresh
    BY <1>0, <2>1, <2>2 DEF HistorySent
  <2>4. Collects'
    BY <2>1, <2>2, <2>3 DEF Collects
  <2>5. ASSUME NEW e \in Exchange, Trusted(e)' PROVE outcome'[e] # "wrong"
    <3>1. e \in fresh /\ e # sent + 1
      BY <2>1, <2>3, <2>5 DEF Trusted, Ordered, Alone
    <3>2. t(e)' = t(e)
      BY <1>0, <2>2, <3>1 DEF t, TypeOK
    <3>3. Trusted(e)
      BY <2>1, <2>5, <3>2, TrustShrinks
    <3> QED
      BY <1>0, <2>1, <3>1, <3>3 DEF Right, TypeOK
  <2> QED
    BY <2>3, <2>4, <2>5 DEF Right
<1>2. CASE CommandAnswered \/ HandleTimeout
  <2>1. \E x \in Exchange, how \in Outcome \ {"wrong"} :
           /\ outcome' = [outcome EXCEPT ![x] = how] /\ entry' = None
           /\ UNCHANGED <<sent, sender, fresh, quiet, resent, strayed>>
    <3>1. CASE CommandAnswered
      BY <1>0, <3>1, ExpectedFacts DEF CommandAnswered, Ends, Forgotten, Outcome
    <3>2. CASE HandleTimeout
      BY <1>0, <3>2 DEF HandleTimeout, Ends, Forgotten, Outcome, TypeOK
    <3> QED
      BY <1>2, <3>1, <3>2
  <2> QED
    BY <2>1, EndsRight
<1>3. CASE Destroy
  <2>1. entry' = None /\ UNCHANGED <<sent, sender, outcome, fresh, quiet, resent, strayed>>
    BY <1>3 DEF Destroy, Forgotten, history
  <2>2. Collects'
    BY <1>0, <2>1, NoEntry DEF TypeOK
  <2>3. ASSUME NEW e \in Exchange PROVE Trusted(e)' => Trusted(e)
    BY <2>1, TrustShrinks DEF t
  <2> QED
    BY <1>0, <2>1, <2>2, <2>3 DEF HistorySent, Right
<1>4. ASSUME NEW own \in BOOLEAN, ChunkTimeout(own) PROVE HistorySent' /\ Collects' /\ Right'
  BY <1>4, AsideMemory DEF ChunkTimeout, Resend, NothingToResend
<1>5. CASE NotExpected \/ Lost
  BY <1>5, AsideMemory DEF NotExpected, Lost, Arrives, port, history
<1>6. CASE UNCHANGED vars
  BY <1>6, AsideMemory DEF vars, port, history
<1> QED
  BY <1>1, <1>2, <1>3, <1>4, <1>5, <1>6, SendRequestMemory, ChunkAnsweredMemory,
     LastChunkAnsweredMemory DEF Next

\* A transaction about the memory of the motor controller that is sent with all its chunks
\* never completes with the wrong bytes, for all requests and however answers are late,
\* lost or repeated, unless it takes an answer about the other memory for its own.
THEOREM AddressesKeepOrder == Spec => []MotorMemoryInOrder
<1>1. MemoryInv => MotorMemoryInOrder
  <2> SUFFICES ASSUME MemoryInv PROVE MotorMemoryInOrder
    OBVIOUS
  <2>1. \A e \in fresh : e \in Exchange
    BY DEF MemoryInv, Inv, TypeOK
  <2> QED
    BY <2>1 DEF MemoryInv, Right, Trusted, Ordered, MotorMemoryInOrder
<1> QED
  BY <1>1, InitMemory, NextMemory, PTL DEF Spec

\* The bytes of the communication processor are the right ones, for all requests whose
\* addresses do not wrap, if nothing was owed when the exchange began and no chunk of it
\* was written twice: then no answer but its own can come.
THEOREM QuietBusKeepsOrder == Spec => []OtherMemoryOnQuietBus
<1>1. MemoryInv => OtherMemoryOnQuietBus
  <2> SUFFICES ASSUME MemoryInv PROVE OtherMemoryOnQuietBus
    OBVIOUS
  <2>1. \A e \in fresh : e \in Exchange
    BY DEF MemoryInv, Inv, TypeOK
  <2> QED
    BY <2>1 DEF MemoryInv, Right, Trusted, Alone, OtherMemoryOnQuietBus
<1> QED
  BY <1>1, InitMemory, NextMemory, PTL DEF Spec

=============================================================================
