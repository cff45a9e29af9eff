--------------------------- MODULE ModbusTcpProofs ---------------------------
(***************************************************************************)
(* Proofs about the two modules that make up MODBUS TCP.                   *)
(*                                                                         *)
(* IpTransport: its types, that what is open is registered and timed, that *)
(* an exchange is given its own answer, and that it keeps the contract,    *)
(* for every number of exchanges and identifiers and every length of       *)
(* headers and frames.                                                     *)
(*                                                                         *)
(* TcpConnection: what the flags say of the socket, whose timers are       *)
(* running, how the delay grows and that close() is final, for every delay *)
(* and every number of timers.  Its initial predicate, its steps and its   *)
(* specification are ConnectionInit, ConnectionNext and ConnectionSpec.    *)
(***************************************************************************)
EXTENDS IpTransport, TcpConnection, SequenceTheorems, FiniteSetTheorems, TLAPS

Byte == Exchange \X (1 .. FrameLength)

LEMMA LengthType == FrameLength \in Nat /\ HeaderLength <= FrameLength
  BY LengthAssumption DEF FrameLength

LEMMA FrameType ==
    ASSUME NEW e \in Exchange PROVE Frame(e) \in Seq(Byte)
<1>1. Frame(e) \in [1 .. FrameLength -> Byte]
  BY DEF Frame, Byte
<1> QED
  BY <1>1, LengthType, SeqDef

\* The beginning of a sequence of bytes, and what follows it.
LEMMA PartType ==
    ASSUME NEW bytes \in Seq(Byte), NEW n \in 0 .. Len(bytes)
    PROVE  SubSeq(bytes, 1, n) \in Seq(Byte) /\ Rest(bytes, n) \in Seq(Byte)
<1>1. Len(bytes) \in Nat /\ \A i \in 1 .. Len(bytes) : bytes[i] \in Byte
  BY LenProperties, ElementOfSeq
<1> QED
  BY <1>1, SubSeqProperties DEF Rest

LEMMA NextIdType ==
    ASSUME nextTransactionId \in Id PROVE NextId \in Id
  BY IdAssumption DEF NextId, Id

\* Open exchanges have been sent, and two of the same identifier are shared.
OpenIsSent == timeouts \subseteq 1 .. sent
SameIdIsShared ==
    \A e, f \in timeouts : e # f /\ ids[e] = ids[f] => e \in shared /\ f \in shared


\* What destroy() leaves open is what it does not find under its identifier.
LeftIsShared == destroyed => timeouts \subseteq shared

Inv == TypeOK /\ OpenIsRegistered /\ OpenIsSent /\ SameIdIsShared /\ LeftIsShared

LEMMA InitInv == Init => Inv
<1> SUFFICES ASSUME Init PROVE Inv
  OBVIOUS
<1>1. reader \in Seq(Exchange \X (1 .. FrameLength)) /\ stream \in Seq(Exchange \X (1 .. FrameLength))
  BY EmptySeq DEF Init
<1>2. 0 \in Id /\ 0 \in 0 .. MaxExchanges
  BY IdAssumption, BoundAssumption DEF Id
<1>3. ids \in [Exchange -> Id] /\ transactions \in [Id -> Exchange \cup {None}]
  BY <1>2 DEF Init
<1>4. outcome \in [Exchange -> Outcome]
  BY DEF Init, Outcome
<1>5. TypeOK
  BY <1>1, <1>2, <1>3, <1>4 DEF Init, TypeOK
<1> QED
  BY <1>5 DEF Init, Inv, OpenIsRegistered, OpenIsSent, SameIdIsShared, LeftIsShared

----------------------------------------------------------------------------
\* Type correctness: every step keeps the types.

LEMMA StepType == TypeOK /\ [Next]_vars => TypeOK'
<1> SUFFICES ASSUME TypeOK, [Next]_vars PROVE TypeOK'
  OBVIOUS
<1> USE DEF None
<1>0. reader \in Seq(Byte) /\ stream \in Seq(Byte)
  BY DEF TypeOK, Byte
<1>1. CASE SendRequest
  <2>1. NextId \in Id
    BY NextIdType DEF TypeOK
  <2>2. sent + 1 \in Exchange /\ sent' \in 0 .. MaxExchanges
    BY <1>1, BoundAssumption DEF SendRequest, Exchange
  <2>3. shared' \in SUBSET Exchange
    BY <1>1, <2>2 DEF SendRequest, TypeOK
  <2>4. stale' \in SUBSET Exchange
    BY <1>1, <2>2 DEF SendRequest, TypeOK
  <2> QED
    BY <1>1, <2>1, <2>2, <2>3, <2>4 DEF SendRequest, TypeOK
<1>2. ASSUME NEW n \in 1 .. Len(stream), OnData(n) PROVE TypeOK'
  <2>1. SubSeq(stream, 1, n) \in Seq(Byte) /\ Rest(stream, n) \in Seq(Byte)
    BY <1>0, PartType, LenProperties
  <2>2. reader \o SubSeq(stream, 1, n) \in Seq(Byte)
    BY <1>0, <2>1, ConcatProperties
  <2>3. reader' \in Seq(Byte) /\ stream' \in Seq(Byte)
    BY <1>2, <2>1, <2>2 DEF OnData
  <2> QED
    BY <1>2, <2>3 DEF OnData, history, TypeOK, Byte
<1>3. CASE ReadHeader
  <2>1. Rest(reader, HeaderLength) \in Seq(Byte)
    BY <1>0, <1>3, PartType, LenProperties, LengthAssumption DEF ReadHeader, HeaderComplete
  <2>2. BodyLength \in 0 .. BodyLength
    BY LengthAssumption
  <2>3. ASSUME NEW e \in Exchange PROVE [id |-> ids[e], length |-> BodyLength] \in Headers
    BY <2>2 DEF Headers, TypeOK
  <2>4. header' \in Headers
    BY <1>3, <2>3 DEF ReadHeader
  <2> QED
    BY <1>3, <2>1, <2>4 DEF ReadHeader, remote, history, TypeOK, Byte
<1>4. CASE HandleFrameData
  <2>1. header.id \in Id /\ header.length \in Nat
    BY <1>4, LengthAssumption DEF HandleFrameData, FrameComplete, TypeOK, Headers
  <2>2. Rest(reader, header.length) \in Seq(Byte)
    BY <1>0, <1>4, <2>1, PartType, LenProperties DEF HandleFrameData, FrameComplete
  <2>3. reader' \in Seq(Byte)
    BY <1>4, <2>2 DEF HandleFrameData, AfterFrame
  <2>4. timeouts' \in SUBSET Exchange
    BY <1>4 DEF HandleFrameData, Settled, TypeOK
  <2>5. Verdict(transactions[header.id]) \subseteq Outcome
    BY DEF Verdict, Outcome
  <2>6. outcome' \in [Exchange -> Outcome]
    BY <1>4, <2>5 DEF HandleFrameData, Settled, TypeOK
  <2>7. transactions' \in [Id -> Exchange \cup {None}] /\ header' = NoHeader
    BY <1>4 DEF HandleFrameData, Delete, TypeOK
  <2> QED
    BY <1>4, <2>3, <2>4, <2>6, <2>7 DEF HandleFrameData, remote, TypeOK, Byte
<1>5. ASSUME NEW e \in timeouts, Timeout(e) PROVE TypeOK'
  BY <1>5 DEF Timeout, TimedOut, remote, TypeOK, Outcome
<1>6. CASE Destroy
  BY <1>6 DEF Destroy, LeftByDestroy, remote, history, TypeOK
<1>7. ASSUME NEW e \in owed, SlaveAnswers(e) PROVE TypeOK'
  <2>1. stream \o Frame(e) \in Seq(Byte)
    BY <1>0, FrameType, ConcatProperties DEF TypeOK
  <2> QED
    BY <1>7, <2>1 DEF SlaveAnswers, port, history, TypeOK, Byte
<1>8. ASSUME NEW e \in owed, NeverAnswered(e) PROVE TypeOK'
  BY <1>8 DEF NeverAnswered, port, history, TypeOK
<1>9. CASE Reconnected
  <2>1. stream' \in Seq(Byte) /\ cut' \in BOOLEAN
    BY <1>9, EmptySeq DEF Reconnected, TypeOK
  <2> QED
    BY <1>9, <2>1 DEF Reconnected, port, TypeOK, Byte
<1>10. CASE UNCHANGED vars
  BY <1>10 DEF vars, port, remote, history, TypeOK
<1> QED
  BY <1>1, <1>2, <1>3, <1>4, <1>5, <1>6, <1>7, <1>8, <1>9, <1>10 DEF Next, Receive, Remote

----------------------------------------------------------------------------
\* Every step keeps the registrations.

LEMMA StepInv == Inv /\ [Next]_vars => Inv'
<1> SUFFICES ASSUME TypeOK, OpenIsRegistered, OpenIsSent, SameIdIsShared, LeftIsShared, [Next]_vars
             PROVE  OpenIsRegistered' /\ OpenIsSent' /\ SameIdIsShared' /\ LeftIsShared'
  BY StepType DEF Inv
<1> USE DEF None
<1>1. CASE SendRequest
  <2> DEFINE e == sent + 1
  <2>1. NextId \in Id /\ e \in Exchange /\ e \notin timeouts /\ sent' = e /\ e # None
    BY <1>1, NextIdType DEF SendRequest, TypeOK, OpenIsSent, Exchange
  <2>2. /\ timeouts' = timeouts \cup {e}
        /\ ids' = [ids EXCEPT ![e] = NextId]
        /\ transactions' = [transactions EXCEPT ![NextId] = e]
        /\ ~destroyed /\ ~destroyed'
    BY <1>1 DEF SendRequest, Idle
  <2>3. /\ \A f \in timeouts : ids[f] = NextId => f \in shared' /\ e \in shared'
        /\ shared \subseteq shared'
    BY <1>1 DEF SendRequest
  <2>4. ids'[e] = NextId /\ \A f \in timeouts : ids'[f] = ids[f]
    BY <2>1, <2>2 DEF TypeOK
  <2>5. \A f \in timeouts' \ shared' : transactions'[ids'[f]] = f
    BY <2>1, <2>2, <2>3, <2>4 DEF OpenIsRegistered, TypeOK
  <2>6. \A i \in Id : transactions'[i] # None =>
           transactions'[i] \in timeouts' /\ ids'[transactions'[i]] = i
    BY <2>1, <2>2, <2>4 DEF OpenIsRegistered, TypeOK
  <2>7. OpenIsSent'
    BY <2>1, <2>2 DEF OpenIsSent, TypeOK
  <2>8. SameIdIsShared'
    BY <2>1, <2>2, <2>3, <2>4 DEF SameIdIsShared
  <2> QED
    BY <2>2, <2>5, <2>6, <2>7, <2>8 DEF OpenIsRegistered, LeftIsShared
<1>2. CASE HandleFrameData
  <2> DEFINE e == transactions[header.id]
  <2>1. header.id \in Id
    BY <1>2 DEF HandleFrameData, FrameComplete, TypeOK, Headers
  <2>2. /\ transactions' = [transactions EXCEPT ![header.id] = None]
        /\ UNCHANGED <<ids, sent, shared, destroyed>> /\ ~destroyed
    BY <1>2 DEF HandleFrameData, Delete
  <2>3. timeouts' = timeouts \ {e}
    <3>1. CASE e = None
      BY <1>2, <3>1 DEF HandleFrameData, OpenIsSent, TypeOK, Exchange
    <3>2. CASE e # None
      BY <1>2, <3>2 DEF HandleFrameData, Settled
    <3> QED
      BY <3>1, <3>2
  <2>4. \A f \in timeouts' \ shared' : transactions'[ids'[f]] = f
    BY <2>1, <2>2, <2>3 DEF OpenIsRegistered, TypeOK
  <2>5. \A i \in Id : transactions'[i] # None =>
           transactions'[i] \in timeouts' /\ ids'[transactions'[i]] = i
    BY <2>1, <2>2, <2>3 DEF OpenIsRegistered, TypeOK
  <2> QED
    BY <2>2, <2>3, <2>4, <2>5 DEF OpenIsRegistered, OpenIsSent, SameIdIsShared, LeftIsShared
<1>3. ASSUME NEW e \in timeouts, Timeout(e)
      PROVE  OpenIsRegistered' /\ OpenIsSent' /\ SameIdIsShared' /\ LeftIsShared'
  <2>1. /\ transactions' = [transactions EXCEPT ![ids[e]] = None]
        /\ timeouts' = timeouts \ {e}
        /\ UNCHANGED <<ids, sent, shared, destroyed>>
    BY <1>3 DEF Timeout, TimedOut
  <2>2. ids[e] \in Id
    BY DEF TypeOK
  <2>3. ASSUME ~destroyed PROVE \A f \in timeouts' \ shared' : transactions'[ids'[f]] = f
    BY <2>1, <2>2, <2>3 DEF OpenIsRegistered, SameIdIsShared, TypeOK
  <2>4. ASSUME ~destroyed
        PROVE  \A i \in Id : transactions'[i] # None =>
                  transactions'[i] \in timeouts' /\ ids'[transactions'[i]] = i
    BY <2>1, <2>2, <2>4 DEF OpenIsRegistered, TypeOK
  <2>5. OpenIsRegistered'
    BY <2>1, <2>3, <2>4 DEF OpenIsRegistered
  <2> QED
    BY <2>1, <2>5 DEF OpenIsSent, SameIdIsShared, LeftIsShared
<1>4. CASE Destroy
  <2>1. /\ ~destroyed /\ destroyed' /\ timeouts' = timeouts \ {transactions[i] : i \in Id}
        /\ UNCHANGED <<ids, sent, shared>>
    BY <1>4 DEF Destroy, LeftByDestroy, Idle, history
  <2>2. ASSUME NEW e \in timeouts', e \notin shared PROVE FALSE
    <3>1. e \in timeouts /\ ids[e] \in Id /\ transactions[ids[e]] = e
      BY <2>1, <2>2 DEF OpenIsRegistered, TypeOK
    <3> QED
      BY <2>1, <2>2, <3>1
  <2> QED
    BY <2>1, <2>2 DEF OpenIsRegistered, OpenIsSent, SameIdIsShared, LeftIsShared
<1>5. CASE UNCHANGED <<transactions, timeouts, destroyed, ids, sent, shared>>
  BY <1>5 DEF OpenIsRegistered, OpenIsSent, SameIdIsShared, LeftIsShared
<1>6. CASE Receive /\ ~HandleFrameData
  BY <1>5, <1>6 DEF Receive, ReadHeader, OnData, history
<1>7. CASE Remote
  BY <1>5, <1>7 DEF Remote, Reconnected, SlaveAnswers, NeverAnswered, port, history
<1> QED
  BY <1>1, <1>2, <1>3, <1>4, <1>5, <1>6, <1>7 DEF Next, Receive, vars, port, history

\* Every variable of the transport keeps its type.
THEOREM TypeCorrect == Spec => []TypeOK
<1>1. Inv => TypeOK
  BY DEF Inv
<1> QED
  BY <1>1, InitInv, StepInv, PTL DEF Spec

\* An open exchange is registered under its identifier unless another one had
\* that identifier while both were open, and only open exchanges are registered:
\* an answer on time is never taken for unexpected data.
THEOREM OpenRegistered == Spec => []OpenIsRegistered
<1>1. Inv => OpenIsRegistered
  BY DEF Inv
<1> QED
  BY <1>1, InitInv, StepInv, PTL DEF Spec

----------------------------------------------------------------------------
\* The bytes on their way

Wire == reader \o stream

\* Around every byte is its frame, of which the beginning may be gone already; the
\* first byte is that of place n + 1, and after the last byte of a frame comes the
\* first of another.
Whole(w) ==
    \A k \in 1 .. Len(w) :
        /\ k - w[k][2] + FrameLength <= Len(w)
        /\ \A j \in 1 .. FrameLength :
              k - w[k][2] + j >= 1 => w[k - w[k][2] + j] = <<w[k][1], j>>
Begins(w, n) == Len(w) > 0 => w[1][2] = n + 1
Follows(w) == \A k \in 1 .. Len(w) - 1 : w[k][2] = FrameLength => w[k + 1][2] = 1
InFrames(w, n) == Whole(w) /\ Begins(w, n) /\ Follows(w)

LEMMA RestIs ==
    ASSUME NEW w \in Seq(Byte), NEW m \in 0 .. Len(w)
    PROVE  /\ Rest(w, m) \in Seq(Byte) /\ Len(Rest(w, m)) = Len(w) - m
           /\ \A k \in 1 .. Len(w) - m : Rest(w, m)[k] = w[k + m]
<1>1. Len(w) \in Nat /\ m \in Nat /\ m <= Len(w)
  BY LenProperties
<1>2. /\ Len(Rest(w, m)) = Len(w) - m
      /\ \A k \in 1 .. Len(w) - m : Rest(w, m)[k] = w[k + m]
  BY <1>1, SubSeqProperties DEF Rest
<1> QED
  BY <1>2, PartType

LEMMA ByteIs == ASSUME NEW w \in Seq(Byte), NEW k \in 1 .. Len(w)
                PROVE  /\ w[k][1] \in Exchange /\ w[k][2] \in 1 .. FrameLength
                       /\ w[k] = <<w[k][1], w[k][2]>>
<1>1. w[k] \in Byte
  BY ElementOfSeq
<1> QED
  BY <1>1 DEF Byte

\* What is left when the first m bytes of a frame are taken.
LEMMA TakenInFrames ==
    ASSUME NEW w \in Seq(Byte), NEW n \in Nat, NEW m \in 1 .. Len(w), n + m <= FrameLength,
           InFrames(w, n), NEW next \in Nat,
           next = (IF n + m = FrameLength THEN 0 ELSE n + m)
    PROVE  InFrames(Rest(w, m), next)
<1> DEFINE r == Rest(w, m)
<1>1. /\ r \in Seq(Byte) /\ Len(r) = Len(w) - m /\ Len(w) \in Nat /\ m \in Nat
      /\ \A k \in 1 .. Len(r) : r[k] = w[k + m]
  <2>1. Len(w) \in Nat
    BY LenProperties
  <2>2. m \in 0 .. Len(w) /\ m \in Nat
    BY <2>1
  <2>3. /\ r \in Seq(Byte) /\ Len(r) = Len(w) - m
        /\ \A k \in 1 .. Len(w) - m : r[k] = w[k + m]
    BY <2>2, RestIs
  <2> QED
    BY <2>1, <2>2, <2>3
<1>n. Len(r) = Len(w) - m /\ Len(w) \in Nat /\ m \in Nat
  BY <1>1
<1>f. FrameLength \in Nat
  BY LengthType
<1> HIDE DEF r
<1>2. Whole(r)
  <2> SUFFICES ASSUME NEW k \in 1 .. Len(r)
               PROVE  /\ k - r[k][2] + FrameLength <= Len(r)
                      /\ \A j \in 1 .. FrameLength :
                            k - r[k][2] + j >= 1 => r[k - r[k][2] + j] = <<r[k][1], j>>
    BY DEF Whole
  <2>1. r[k] = w[k + m] /\ k + m \in 1 .. Len(w) /\ k \in Nat
    BY <1>1
  <2>2. w[k + m][2] \in 1 .. FrameLength
    BY <2>1, ByteIs
  <2>3. /\ (k + m) - w[k + m][2] + FrameLength <= Len(w)
        /\ \A j \in 1 .. FrameLength :
              (k + m) - w[k + m][2] + j >= 1 =>
                  w[(k + m) - w[k + m][2] + j] = <<w[k + m][1], j>>
    BY <2>1 DEF InFrames, Whole
  <2> DEFINE place == w[k + m][2]
  <2> HIDE DEF place
  <2>4. ASSUME NEW j \in 1 .. FrameLength, k - place + j >= 1
        PROVE  r[k - place + j] = w[(k + m) - place + j]
    <3>1. place \in 1 .. FrameLength /\ (k + m) - place + FrameLength <= Len(w)
      BY <2>2, <2>3 DEF place
    <3>2. k - place + j \in 1 .. Len(r) /\ (k - place + j) + m = (k + m) - place + j
      BY <1>n, <1>f, <2>4, <3>1
    <3> QED
      BY <1>1, <3>2
  <2>5. k - place + FrameLength <= Len(r)
    BY <1>1, <1>f, <2>1, <2>2, <2>3 DEF place
  <2>6. ASSUME NEW j \in 1 .. FrameLength, k - place + j >= 1
        PROVE  w[(k + m) - place + j] = <<w[k + m][1], j>>
    <3>1. place \in Int /\ k \in Nat /\ m \in Nat /\ j \in Nat
      BY <1>n, <1>f, <2>1, <2>2 DEF place
    <3>2. (k + m) - place + j >= 1
      BY <2>6, <3>1
    <3> QED
      BY <2>3, <3>2 DEF place
  <2> QED
    BY <2>1, <2>4, <2>5, <2>6 DEF place
<1>3. Follows(r)
  <2> SUFFICES ASSUME NEW k \in 1 .. Len(r) - 1, r[k][2] = FrameLength PROVE r[k + 1][2] = 1
    BY DEF Follows
  <2>1. /\ k \in 1 .. Len(r) /\ k + 1 \in 1 .. Len(r) /\ k + m \in 1 .. Len(w) - 1
        /\ (k + 1) + m = (k + m) + 1
    BY <1>1
  <2>2. r[k] = w[k + m] /\ r[k + 1] = w[(k + m) + 1]
    BY <1>1, <2>1
  <2> QED
    BY <2>1, <2>2 DEF InFrames, Follows
<1>4. Begins(r, next)
  <2> SUFFICES ASSUME Len(r) > 0 PROVE r[1][2] = next + 1
    BY DEF Begins
  <2>1. /\ Len(w) > 0 /\ 1 \in 1 .. Len(w) /\ m \in 1 .. Len(w) - 1 /\ 1 \in 1 .. Len(r)
        /\ m + 1 \in 1 .. Len(w)
    BY <1>1
  <2>2. w[1][2] = n + 1 /\ r[1] = w[1 + m]
    BY <1>1, <2>1 DEF InFrames, Begins
  <2>3. \A j \in 1 .. FrameLength : 1 - w[1][2] + j >= 1 => w[1 - w[1][2] + j] = <<w[1][1], j>>
    BY <2>1 DEF InFrames, Whole
  <2>4. CASE n + m = FrameLength
    <3>0. n \in Nat /\ m \in Nat /\ m >= 1 /\ FrameLength \in Nat
      BY <1>1, <1>f, <2>1
    <3>1. FrameLength \in 1 .. FrameLength /\ 1 - (n + 1) + FrameLength = m /\ m >= 1
      BY <3>0, <2>4
    <3>2. w[m] = <<w[1][1], FrameLength>>
      BY <2>2, <2>3, <3>1
    <3>3. w[m + 1][2] = 1
      BY <2>1, <3>2 DEF InFrames, Follows
    <3> QED
      BY <1>1, <2>2, <2>4, <3>3
  <2>5. CASE n + m < FrameLength
    <3>1. n + m + 1 \in 1 .. FrameLength /\ 1 - (n + 1) + (n + m + 1) = 1 + m /\ 1 + m >= 1
      BY <1>1, <1>f, <2>1, <2>5
    <3>2. w[1 + m] = <<w[1][1], n + m + 1>>
      BY <2>2, <2>3, <3>1
    <3> QED
      BY <1>1, <1>f, <2>2, <2>5, <3>2
  <2> QED
    BY <1>1, <1>f, <2>4, <2>5
<1> QED
  BY <1>2, <1>3, <1>4 DEF InFrames, r

\* A frame behind whole frames.
LEMMA AddedInFrames ==
    ASSUME NEW w \in Seq(Byte), NEW n \in Nat, NEW e \in Exchange,
           InFrames(w, n), Len(w) = 0 => n = 0
    PROVE  InFrames(w \o Frame(e), n)
<1> DEFINE f == Frame(e)
           v == w \o f
<1>1. /\ f \in Seq(Byte) /\ Len(f) = FrameLength
      /\ \A i \in 1 .. FrameLength : f[i] = <<e, i>>
      /\ FrameLength \in Nat /\ FrameLength > 0 /\ Len(w) \in Nat
  BY FrameType, LenProperties, LengthAssumption DEF Frame, FrameLength
<1> HIDE DEF f
<1>2. /\ v \in Seq(Byte) /\ Len(v) = Len(w) + FrameLength
      /\ \A i \in 1 .. Len(w) : v[i] = w[i]
      /\ \A i \in 1 .. FrameLength : v[Len(w) + i] = <<e, i>>
  <2>1. v \in Seq(Byte) /\ Len(v) = Len(w) + Len(f)
    BY <1>1, ConcatProperties
  <2>2. \A i \in 1 .. Len(w) + Len(f) : v[i] = IF i <= Len(w) THEN w[i] ELSE f[i - Len(w)]
    BY <1>1, ConcatProperties
  <2>3. ASSUME NEW i \in 1 .. Len(w) PROVE v[i] = w[i]
    BY <1>1, <2>2
  <2>4. ASSUME NEW i \in 1 .. FrameLength PROVE v[Len(w) + i] = f[i]
    <3>1. Len(w) + i \in 1 .. Len(w) + Len(f) /\ ~(Len(w) + i <= Len(w)) /\ (Len(w) + i) - Len(w) = i
      BY <1>1
    <3> QED
      BY <2>2, <3>1
  <2> QED
    BY <1>1, <2>1, <2>3, <2>4
<1> HIDE DEF v
<1>3. ASSUME NEW k \in 1 .. Len(v), ~(k \in 1 .. Len(w))
      PROVE  /\ k - Len(w) \in 1 .. FrameLength /\ v[k] = <<e, k - Len(w)>>
  <2>1. k - Len(w) \in 1 .. FrameLength /\ Len(w) + (k - Len(w)) = k
    BY <1>1, <1>2, <1>3
  <2> QED
    BY <1>2, <2>1
<1>4. Whole(v)
  <2> SUFFICES ASSUME NEW k \in 1 .. Len(v)
               PROVE  /\ k - v[k][2] + FrameLength <= Len(v)
                      /\ \A j \in 1 .. FrameLength :
                            k - v[k][2] + j >= 1 => v[k - v[k][2] + j] = <<v[k][1], j>>
    BY DEF Whole
  <2>1. CASE k \in 1 .. Len(w)
    <3>1. v[k] = w[k] /\ w[k][2] \in 1 .. FrameLength
      BY <1>2, <2>1, ByteIs
    <3>2. /\ k - w[k][2] + FrameLength <= Len(w)
          /\ \A j \in 1 .. FrameLength :
                k - w[k][2] + j >= 1 => w[k - w[k][2] + j] = <<w[k][1], j>>
      BY <2>1 DEF InFrames, Whole
    <3> DEFINE place == w[k][2]
    <3>3. ASSUME NEW j \in 1 .. FrameLength, k - place + j >= 1
          PROVE  v[k - place + j] = w[k - place + j]
      <4>1. k - place + j \in 1 .. Len(w)
        BY <1>1, <3>1, <3>2, <3>3, <2>1
      <4> QED
        BY <1>2, <4>1
    <3>4. k - place + FrameLength <= Len(v)
      BY <1>1, <1>2, <3>1, <3>2, <2>1
    <3> QED
      BY <3>1, <3>2, <3>3, <3>4
  <2>2. CASE ~(k \in 1 .. Len(w))
    <3>1. v[k][1] = e /\ v[k][2] = k - Len(w) /\ k \in Nat
      BY <1>3, <2>2
    <3>2. k - v[k][2] = Len(w)
      BY <1>1, <3>1
    <3>3. Len(w) + FrameLength <= Len(v)
      BY <1>1, <1>2
    <3>4. \A j \in 1 .. FrameLength : v[Len(w) + j] = <<v[k][1], j>>
      BY <1>2, <3>1
    <3> QED
      BY <3>2, <3>3, <3>4
  <2> QED
    BY <2>1, <2>2
<1>5. Begins(v, n)
  <2>1. CASE Len(w) = 0
    <3>1. v[Len(w) + 1] = <<e, 1>> /\ Len(w) + 1 = 1
      BY <1>1, <1>2, <2>1
    <3> QED
      BY <2>1, <3>1 DEF Begins
  <2>2. CASE Len(w) > 0
    <3>1. v[1] = w[1]
      BY <1>1, <1>2, <2>2
    <3> QED
      BY <2>2, <3>1 DEF InFrames, Begins
  <2> QED
    BY <1>1, <2>1, <2>2
<1>6. Follows(v)
  <2> SUFFICES ASSUME NEW k \in 1 .. Len(v) - 1, v[k][2] = FrameLength PROVE v[k + 1][2] = 1
    BY DEF Follows
  <2>1. CASE k \in 1 .. Len(w) - 1
    <3>1. k \in 1 .. Len(w) /\ k + 1 \in 1 .. Len(w)
      BY <1>1, <2>1
    <3>2. v[k] = w[k] /\ v[k + 1] = w[k + 1]
      BY <1>2, <3>1
    <3> QED
      BY <2>1, <3>2 DEF InFrames, Follows
  <2>2. CASE k = Len(w)
    BY <1>1, <1>2, <2>2
  <2>3. CASE k > Len(w)
    <3>1. k \in 1 .. Len(v) /\ ~(k \in 1 .. Len(w)) /\ k - Len(w) < FrameLength
      BY <1>1, <1>2, <2>3
    <3>2. v[k][2] = k - Len(w)
      BY <1>3, <3>1
    <3> QED
      BY <1>1, <3>1, <3>2
  <2> QED
    BY <1>1, <1>2, <2>1, <2>2, <2>3
<1> QED
  BY <1>4, <1>5, <1>6 DEF InFrames, v, f

----------------------------------------------------------------------------
\* What the steps do to the bytes on their way

LEMMA WireIs ==
    ASSUME TypeOK
    PROVE  /\ Wire \in Seq(Byte) /\ Len(Wire) = Len(reader) + Len(stream)
           /\ Len(reader) \in Nat /\ Len(stream) \in Nat
           /\ \A k \in 1 .. Len(reader) : Wire[k] = reader[k]
           /\ \A k \in 1 .. Len(stream) : Wire[Len(reader) + k] = stream[k]
<1>1. reader \in Seq(Byte) /\ stream \in Seq(Byte)
  BY DEF TypeOK, Byte
<1>2. Len(reader) \in Nat /\ Len(stream) \in Nat
  BY <1>1, LenProperties
<1>3. Wire \in Seq(Byte) /\ Len(Wire) = Len(reader) + Len(stream)
  BY <1>1, ConcatProperties DEF Wire
<1>4. \A k \in 1 .. Len(reader) + Len(stream) :
          Wire[k] = IF k <= Len(reader) THEN reader[k] ELSE stream[k - Len(reader)]
  BY <1>1, ConcatProperties DEF Wire
<1>5. ASSUME NEW k \in 1 .. Len(reader) PROVE Wire[k] = reader[k]
  BY <1>2, <1>4
<1>6. ASSUME NEW k \in 1 .. Len(stream) PROVE Wire[Len(reader) + k] = stream[k]
  <2>1. /\ Len(reader) + k \in 1 .. Len(reader) + Len(stream) /\ ~(Len(reader) + k <= Len(reader))
        /\ (Len(reader) + k) - Len(reader) = k
    BY <1>2
  <2> QED
    BY <1>4, <2>1
<1> QED
  BY <1>2, <1>3, <1>5, <1>6

\* Delivery moves bytes along.
LEMMA WireMoved ==
    ASSUME TypeOK, NEW n \in 1 .. Len(stream)
    PROVE  (reader \o SubSeq(stream, 1, n)) \o Rest(stream, n) = Wire
<1>1. reader \in Seq(Byte) /\ stream \in Seq(Byte) /\ Len(stream) \in Nat
  BY LenProperties DEF TypeOK, Byte
<1>2. SubSeq(stream, 1, n) \in Seq(Byte) /\ Rest(stream, n) \in Seq(Byte)
  BY <1>1, PartType
<1>3. SubSeq(stream, 1, n) \o Rest(stream, n) = stream
  <2>1. 1 \in 1 .. Len(stream) + 1 /\ n \in 1 - 1 .. Len(stream) /\ Len(stream) \in n .. Len(stream)
    BY <1>1
  <2>2. SubSeq(stream, 1, n) \o SubSeq(stream, n + 1, Len(stream)) = SubSeq(stream, 1, Len(stream))
    BY <1>1, <2>1, ConcatAdjacentSubSeq
  <2>3. SubSeq(stream, 1, Len(stream)) = stream
    BY <1>1, SubSeqFull
  <2> QED
    BY <2>2, <2>3 DEF Rest
<1>4. (reader \o SubSeq(stream, 1, n)) \o Rest(stream, n)
         = reader \o (SubSeq(stream, 1, n) \o Rest(stream, n))
  <2> DEFINE a == SubSeq(stream, 1, n)
             b == Rest(stream, n)
  <2>1. a \in Seq(Byte) /\ b \in Seq(Byte) /\ reader \in Seq(Byte)
    BY <1>1, <1>2
  <2> HIDE DEF a, b
  <2>2. (reader \o a) \o b = reader \o (a \o b)
    BY <2>1, ConcatAssociative
  <2> QED
    BY <2>2 DEF a, b
<1> QED
  BY <1>3, <1>4 DEF Wire

\* The transport takes bytes from the front.
LEMMA WireTaken ==
    ASSUME TypeOK, NEW m \in 1 .. Len(reader)
    PROVE  Rest(reader, m) \o stream = Rest(Wire, m)
<1>1. /\ reader \in Seq(Byte) /\ stream \in Seq(Byte) /\ Wire \in Seq(Byte)
      /\ Len(reader) \in Nat /\ Len(stream) \in Nat /\ m \in Nat
      /\ Len(Wire) = Len(reader) + Len(stream)
  BY WireIs DEF TypeOK, Byte
<1>2. m \in 0 .. Len(reader) /\ m \in 0 .. Len(Wire)
  BY <1>1
<1> DEFINE a == Rest(reader, m)
           b == Rest(Wire, m)
<1>3. /\ a \in Seq(Byte) /\ Len(a) = Len(reader) - m
      /\ \A k \in 1 .. Len(reader) - m : a[k] = reader[k + m]
  BY <1>1, <1>2, RestIs
<1>4. /\ b \in Seq(Byte) /\ Len(b) = Len(Wire) - m
      /\ \A k \in 1 .. Len(Wire) - m : b[k] = Wire[k + m]
  BY <1>1, <1>2, RestIs
<1> HIDE DEF a, b
<1>5. a \o stream \in Seq(Byte) /\ Len(a \o stream) = Len(a) + Len(stream)
  BY <1>1, <1>3, ConcatProperties
<1>6. \A k \in 1 .. Len(a) + Len(stream) :
          (a \o stream)[k] = IF k <= Len(a) THEN a[k] ELSE stream[k - Len(a)]
  BY <1>1, <1>3, ConcatProperties
<1>n. Len(a) = Len(reader) - m /\ Len(b) = Len(Wire) - m
  BY <1>3, <1>4
<1>7. Len(a \o stream) = Len(b)
  BY <1>1, <1>5, <1>n
<1>8. ASSUME NEW k \in 1 .. Len(b) PROVE (a \o stream)[k] = b[k]
  <2>1. k \in 1 .. Len(a) + Len(stream) /\ k \in 1 .. Len(Wire) - m /\ k \in Nat
    BY <1>1, <1>n
  <2>2. CASE k <= Len(a)
    <3>1. k + m \in 1 .. Len(reader) /\ k \in 1 .. Len(reader) - m
      BY <1>1, <1>n, <2>1, <2>2
    <3>2. a[k] = reader[k + m] /\ b[k] = Wire[k + m] /\ (a \o stream)[k] = a[k]
      BY <1>3, <1>4, <1>6, <2>1, <2>2, <3>1
    <3> QED
      BY <3>1, <3>2, WireIs
  <2>3. CASE ~(k <= Len(a))
    <3>1. k - Len(a) \in 1 .. Len(stream) /\ Len(reader) + (k - Len(a)) = k + m
      BY <1>1, <1>n, <2>1, <2>3
    <3>2. b[k] = Wire[k + m] /\ (a \o stream)[k] = stream[k - Len(a)]
      BY <1>4, <1>6, <2>1, <2>3
    <3>3. Wire[Len(reader) + (k - Len(a))] = stream[k - Len(a)]
      BY <3>1, WireIs
    <3> QED
      BY <3>1, <3>2, <3>3
  <2> QED
    BY <2>2, <2>3
<1> QED
  BY <1>4, <1>5, <1>7, <1>8, SeqEqual DEF a, b

\* What lies in front is part of the frame of the first byte.
LEMMA FrontIs ==
    ASSUME TypeOK, NEW n \in Nat, NEW m \in 1 .. Len(reader), n + m <= FrameLength,
           InFrames(Wire, n)
    PROVE  SubSeq(reader, 1, m) = SubSeq(Frame(Wire[1][1]), n + 1, n + m)
<1> DEFINE f == Wire[1][1]
<1>1. /\ Len(reader) \in Nat /\ m \in Nat /\ FrameLength \in Nat
      /\ Len(Wire) = Len(reader) + Len(stream) /\ Len(stream) \in Nat /\ Wire \in Seq(Byte)
  BY WireIs, LengthType
<1>2. 1 \in 1 .. Len(Wire)
  BY <1>1
<1>3. f \in Exchange
  BY <1>1, <1>2, ByteIs
<1>4. ASSUME NEW i \in 1 .. m PROVE reader[i] = <<f, n + i>>
  <2>1. Wire[1][2] = n + 1
    BY <1>1, <1>2 DEF InFrames, Begins
  <2>2. n + i \in 1 .. FrameLength /\ 1 - (n + 1) + (n + i) = i /\ i >= 1 /\ i \in 1 .. Len(reader)
    BY <1>1
  <2>3. \A j \in 1 .. FrameLength : 1 - (n + 1) + j >= 1 => Wire[1 - (n + 1) + j] = <<f, j>>
    BY <1>2, <2>1 DEF InFrames, Whole
  <2>4. Wire[i] = <<f, n + i>>
    BY <2>2, <2>3
  <2> QED
    BY <2>2, <2>4, WireIs
<1> DEFINE F == Frame(f)
           a == SubSeq(reader, 1, m)
           b == SubSeq(F, n + 1, n + m)
<1>5. F \in Seq(Byte) /\ Len(F) = FrameLength /\ \A i \in 1 .. FrameLength : F[i] = <<f, i>>
  BY <1>1, <1>3, FrameType, LenProperties DEF Frame
<1> HIDE DEF f, F
<1>6. a \in Seq(Byte) /\ Len(a) = m /\ \A i \in 1 .. m : a[i] = reader[i]
  <2>1. \A i \in 1 .. m : reader[i] \in Byte
    <3>1. reader \in Seq(Byte)
      BY DEF TypeOK, Byte
    <3> QED
      BY <1>1, <3>1, ElementOfSeq
  <2>2. 1 <= m /\ m - 1 + 1 = m /\ 1 \in Int /\ m \in Int
    BY <1>1
  <2>3. \A i \in 1 .. m : 1 + i - 1 = i
    BY <1>1
  <2>4. a \in Seq(Byte)
    BY <2>1, <2>2, SubSeqProperties
  <2>5. Len(a) = (IF 1 <= m THEN m - 1 + 1 ELSE 0) /\ \A i \in 1 .. m - 1 + 1 : a[i] = reader[1 + i - 1]
    BY <2>1, <2>2, SubSeqProperties
  <2> QED
    BY <2>2, <2>3, <2>4, <2>5
<1>7. b \in Seq(Byte) /\ Len(b) = m /\ \A i \in 1 .. m : b[i] = F[n + i]
  <2>1. \A i \in n + 1 .. n + m : F[i] \in Byte
    BY <1>1, <1>5, ElementOfSeq
  <2>2. n + 1 <= n + m /\ (n + m) - (n + 1) + 1 = m /\ n + 1 \in Int /\ n + m \in Int
    BY <1>1
  <2>3. \A i \in 1 .. m : (n + 1) + i - 1 = n + i
    BY <1>1
  <2>4. b \in Seq(Byte)
    BY <2>1, <2>2, SubSeqProperties
  <2>5. /\ Len(b) = (IF n + 1 <= n + m THEN (n + m) - (n + 1) + 1 ELSE 0)
        /\ \A i \in 1 .. (n + m) - (n + 1) + 1 : b[i] = F[(n + 1) + i - 1]
    BY <2>1, <2>2, SubSeqProperties
  <2> QED
    BY <2>2, <2>3, <2>4, <2>5
<1> HIDE DEF a, b
<1>8. ASSUME NEW i \in 1 .. m PROVE a[i] = b[i]
  <2>1. n + i \in 1 .. FrameLength
    BY <1>1
  <2> QED
    BY <1>4, <1>5, <1>6, <1>7, <2>1
<1>9. a = b
  BY <1>6, <1>7, <1>8, SeqEqual
<1> QED
  BY <1>9 DEF a, b, F, f

----------------------------------------------------------------------------
\* Whose answer an exchange is given

\* The place in its frame of the next byte, less one.
Offset == IF header = NoHeader THEN 0 ELSE HeaderLength

\* The transport cuts the stream where frames end, and its header is that of the
\* frame in front.
InStep ==
    ~cut =>
        /\ InFrames(Wire, Offset)
        /\ header # NoHeader =>
              Len(Wire) > 0 /\ header = [id |-> ids[Wire[1][1]], length |-> BodyLength]

\* The exchanges an answer to which may still arrive.
Expected == owed \cup {Wire[k][1] : k \in 1 .. Len(Wire)}

\* What stands under the identifier of such an exchange is that exchange, or one
\* that was begun while this answer was due.
DueFits ==
    \A f \in Expected : f \in 1 .. sent /\ transactions[ids[f]] \in {None, f} \cup stale

AnswerInv == Inv /\ InStep /\ DueFits /\ OwnAnswer

LEMMA OffsetType == Offset \in Nat /\ Offset < FrameLength
  BY LengthAssumption DEF Offset, FrameLength

LEMMA ExpectedIsDue == ASSUME TypeOK PROVE Expected \subseteq Due
<1> SUFFICES ASSUME NEW k \in 1 .. Len(Wire) PROVE Wire[k][1] \in Due
  BY DEF Expected, Due
<1>1. /\ Len(Wire) = Len(reader) + Len(stream) /\ Len(reader) \in Nat /\ Len(stream) \in Nat
      /\ DOMAIN reader = 1 .. Len(reader) /\ DOMAIN stream = 1 .. Len(stream)
  BY WireIs, LenProperties DEF TypeOK
<1>2. CASE k \in 1 .. Len(reader)
  BY <1>1, <1>2, WireIs DEF Due
<1>3. CASE ~(k \in 1 .. Len(reader))
  <2>1. k - Len(reader) \in 1 .. Len(stream) /\ Len(reader) + (k - Len(reader)) = k
    BY <1>1, <1>3
  <2>2. Wire[k] = stream[k - Len(reader)]
    BY <2>1, WireIs
  <2> QED
    BY <1>1, <2>1, <2>2 DEF Due
<1> QED
  BY <1>2, <1>3

\* Nothing is expected that was not before, when bytes are taken or dropped.
LEMMA ExpectedShrinks ==
    ASSUME TypeOK, NEW m \in 0 .. Len(Wire), Wire' = Rest(Wire, m), owed' \subseteq owed
    PROVE  Expected' \subseteq Expected
<1>1. /\ Len(Wire) \in Nat /\ Wire \in Seq(Byte) /\ m \in Nat
  BY WireIs, LenProperties
<1>2. Len(Wire') = Len(Wire) - m /\ \A k \in 1 .. Len(Wire) - m : Wire'[k] = Wire[k + m]
  BY <1>1, RestIs
<1>3. ASSUME NEW k \in 1 .. Len(Wire') PROVE Wire'[k][1] \in Expected
  <2>1. k \in 1 .. Len(Wire) - m /\ k + m \in 1 .. Len(Wire)
    BY <1>1, <1>2
  <2> QED
    BY <1>2, <2>1 DEF Expected
<1>4. Expected' = owed' \cup {Wire'[k][1] : k \in 1 .. Len(Wire')}
  BY DEF Expected
<1> QED
  BY <1>3, <1>4 DEF Expected

LEMMA DueKept ==
    ASSUME DueFits, Expected' \subseteq Expected, UNCHANGED <<ids, sent, stale>>,
           \A i \in Id : transactions'[i] \in {None, transactions[i]}, TypeOK
    PROVE  DueFits'
<1>1. ASSUME NEW f \in Expected'
      PROVE  f \in 1 .. sent /\ transactions'[ids[f]] \in {None, f} \cup stale
  <2>1. f \in 1 .. sent /\ transactions[ids[f]] \in {None, f} \cup stale
    BY DEF DueFits
  <2>2. f \in Exchange
    BY <2>1, BoundAssumption DEF TypeOK, Exchange
  <2>3. ids[f] \in Id
    BY <2>2 DEF TypeOK
  <2> QED
    BY <2>1, <2>3
<1> QED
  BY <1>1 DEF DueFits

LEMMA InitAnswer == Init => AnswerInv
<1> SUFFICES ASSUME Init PROVE AnswerInv
  OBVIOUS
<1>1. TypeOK /\ Inv
  BY InitInv DEF Inv
<1>2. Len(Wire) = 0
  <2>1. Len(reader) = 0 /\ Len(stream) = 0
    BY DEF Init
  <2> QED
    BY <1>1, <2>1, WireIs
<1>3. InFrames(Wire, Offset) /\ Expected = {} /\ header = NoHeader
  BY <1>2 DEF Init, InFrames, Whole, Begins, Follows, Expected
<1>4. OwnAnswer
  BY DEF Init, OwnAnswer
<1> QED
  BY <1>1, <1>3, <1>4 DEF AnswerInv, InStep, DueFits

\* A header is read where one is.
LEMMA ReadHeaderAnswer ==
    ASSUME AnswerInv, ReadHeader, ~cut
    PROVE  InStep'
<1>0. TypeOK /\ InStep
  BY DEF AnswerInv, Inv
<1>n. HeaderLength \in Nat /\ HeaderLength > 0 /\ BodyLength \in Nat /\ BodyLength > 0
      /\ FrameLength = HeaderLength + BodyLength
  BY LengthAssumption DEF FrameLength
<1>1. /\ header = NoHeader /\ Len(reader) >= HeaderLength /\ reader' = Rest(reader, HeaderLength)
      /\ UNCHANGED <<stream, ids, cut>>
  BY DEF ReadHeader, HeaderComplete, remote, history
<1>2. /\ Len(reader) \in Nat /\ Len(stream) \in Nat /\ Len(Wire) = Len(reader) + Len(stream)
      /\ Wire \in Seq(Byte)
  BY <1>0, WireIs
<1>3. HeaderLength \in 1 .. Len(reader) /\ HeaderLength \in 1 .. Len(Wire) /\ 1 \in 1 .. Len(Wire)
  BY <1>1, <1>2, <1>n
<1>4. Wire' = Rest(Wire, HeaderLength)
  <2>1. Rest(reader, HeaderLength) \o stream = Rest(Wire, HeaderLength)
    BY <1>0, <1>3, WireTaken
  <2> QED
    BY <1>1, <2>1 DEF Wire
<1>5. InFrames(Wire, 0)
  BY <1>0, <1>1 DEF InStep, Offset
<1>6. InFrames(Wire', HeaderLength)
  <2>1. HeaderLength = (IF 0 + HeaderLength = FrameLength THEN 0 ELSE 0 + HeaderLength)
        /\ 0 + HeaderLength <= FrameLength /\ 0 \in Nat
    BY <1>n
  <2> QED
    BY <1>n, <1>2, <1>3, <1>4, <1>5, <2>1, TakenInFrames
<1> DEFINE f == Wire[1][1]
           bytes == SubSeq(reader, 1, HeaderLength)
           senders == {e \in Exchange : bytes = FrameHeader(e)}
<1>7. f \in Exchange
  BY <1>2, <1>3, ByteIs
<1>8. bytes = FrameHeader(f)
  <2>1. 0 + HeaderLength <= FrameLength /\ 0 \in Nat /\ 0 + 1 = 1 /\ 0 + HeaderLength = HeaderLength
    BY <1>n
  <2>2. SubSeq(reader, 1, HeaderLength) = SubSeq(Frame(f), 0 + 1, 0 + HeaderLength)
    BY <1>0, <1>3, <1>5, <2>1, FrontIs
  <2> QED
    BY <2>1, <2>2 DEF FrameHeader
<1>9. ASSUME NEW e \in Exchange PROVE FrameHeader(e)[1] = <<e, 1>>
  <2>1. Frame(e) \in Seq(Byte) /\ Len(Frame(e)) = FrameLength /\ Frame(e)[1] = <<e, 1>>
    BY <1>n, FrameType, LenProperties DEF Frame
  <2>2. \A i \in 1 .. HeaderLength : Frame(e)[i] \in Byte
    BY <1>n, <2>1, ElementOfSeq
  <2>3. 1 \in Int /\ HeaderLength \in Int /\ 1 \in 1 .. HeaderLength - 1 + 1 /\ 1 + 1 - 1 = 1
    BY <1>n
  <2>4. \A i \in 1 .. HeaderLength - 1 + 1 : FrameHeader(e)[i] = Frame(e)[1 + i - 1]
    BY <2>2, <2>3, SubSeqProperties DEF FrameHeader
  <2> QED
    BY <2>1, <2>3, <2>4
<1>10. senders = {f}
  <2>1. ASSUME NEW e \in senders PROVE e = f
    <3>1. e \in Exchange /\ FrameHeader(e) = FrameHeader(f)
      BY <1>8
    <3>2. <<e, 1>> = <<f, 1>>
      BY <1>7, <1>9, <3>1
    <3> QED
      BY <3>2
  <2> QED
    BY <1>7, <1>8, <2>1
<1>11. header' = [id |-> ids[f], length |-> BodyLength]
  <2>1. header' \in IF senders = {} THEN Headers
                    ELSE {[id |-> ids[e], length |-> BodyLength] : e \in senders}
    BY DEF ReadHeader
  <2> HIDE DEF senders
  <2> QED
    BY <1>10, <2>1
<1>12. header' # NoHeader
  <2>1. ids[f] \in Id
    BY <1>0, <1>7 DEF TypeOK
  <2>2. ids[f] # IdLimit
    BY <2>1, IdAssumption DEF Id
  <2> QED
    BY <1>11, <2>2 DEF NoHeader
<1>13. Len(Wire') > 0 /\ Wire'[1][1] = f
  <2>1. Len(Wire) >= FrameLength
    <3>1. 1 - Wire[1][2] + FrameLength <= Len(Wire) /\ Wire[1][2] = 1
      BY <1>2, <1>3, <1>5 DEF InFrames, Whole, Begins
    <3> QED
      BY <1>n, <1>2, <3>1
  <2>2. HeaderLength \in 0 .. Len(Wire) /\ 1 \in 1 .. Len(Wire) - HeaderLength
    BY <1>n, <1>2, <2>1
  <2>3. Len(Wire') = Len(Wire) - HeaderLength /\ Wire'[1] = Wire[1 + HeaderLength]
    BY <1>2, <1>4, <2>2, RestIs
  <2>4. Wire[1 + HeaderLength] = <<f, 1 + HeaderLength>>
    <3>1. /\ Wire[1][2] = 1 /\ 1 + HeaderLength \in 1 .. FrameLength
          /\ 1 - 1 + (1 + HeaderLength) = 1 + HeaderLength /\ 1 + HeaderLength >= 1
      BY <1>n, <1>2, <1>3, <1>5 DEF InFrames, Begins
    <3>2. \A j \in 1 .. FrameLength : 1 - 1 + j >= 1 => Wire[1 - 1 + j] = <<f, j>>
      BY <1>3, <1>5, <3>1 DEF InFrames, Whole
    <3> QED
      BY <3>1, <3>2
  <2> QED
    BY <2>2, <2>3, <2>4
<1>14. InFrames(Wire, Offset)'
  <2>1. Offset' = HeaderLength
    BY <1>12 DEF Offset
  <2> QED
    BY <1>6, <2>1 DEF InFrames, Whole, Begins, Follows
<1> QED
  BY <1>1, <1>11, <1>13, <1>14 DEF InStep

\* The body that follows a header is taken, and with it the whole frame is.
LEMMA HandleFrameAnswer ==
    ASSUME AnswerInv, HandleFrameData, ~cut
    PROVE  InStep' /\ OwnAnswer'
<1>0. TypeOK /\ InStep /\ DueFits /\ OwnAnswer
  BY DEF AnswerInv, Inv
<1>n. /\ HeaderLength \in Nat /\ HeaderLength > 0 /\ BodyLength \in Nat /\ BodyLength > 0
      /\ FrameLength = HeaderLength + BodyLength
  BY LengthAssumption DEF FrameLength
<1>1. /\ header # NoHeader /\ Len(reader) >= header.length
      /\ reader' = Rest(reader, header.length) /\ header' = NoHeader
      /\ UNCHANGED <<stream, ids, cut, stale>>
  BY DEF HandleFrameData, FrameComplete, AfterFrame, remote
<1> DEFINE f == Wire[1][1]
           e == transactions[header.id]
<1>2. InFrames(Wire, HeaderLength) /\ Len(Wire) > 0 /\ header.id = ids[f] /\ header.length = BodyLength
  BY <1>0, <1>1 DEF InStep, Offset
<1>3. /\ Len(reader) \in Nat /\ Len(stream) \in Nat /\ Len(Wire) = Len(reader) + Len(stream)
      /\ Wire \in Seq(Byte)
  BY <1>0, WireIs
<1>4. BodyLength \in 1 .. Len(reader) /\ BodyLength \in 1 .. Len(Wire) /\ 1 \in 1 .. Len(Wire)
  BY <1>1, <1>2, <1>3, <1>n
<1>5. Wire' = Rest(Wire, BodyLength)
  <2>1. Rest(reader, BodyLength) \o stream = Rest(Wire, BodyLength)
    BY <1>0, <1>4, WireTaken
  <2> QED
    BY <1>1, <1>2, <2>1 DEF Wire
<1>6. InFrames(Wire', 0)
  <2>1. /\ 0 = (IF HeaderLength + BodyLength = FrameLength THEN 0 ELSE HeaderLength + BodyLength)
        /\ HeaderLength + BodyLength <= FrameLength /\ 0 \in Nat
    BY <1>n
  <2> QED
    BY <1>n, <1>2, <1>3, <1>4, <1>5, <2>1, TakenInFrames
<1>7. InStep'
  <2>1. Offset' = 0
    BY <1>1 DEF Offset
  <2> QED
    BY <1>1, <1>6, <2>1 DEF InStep, InFrames, Whole, Begins, Follows
<1>8. f \in Exchange
  BY <1>3, <1>4, ByteIs
<1>9. e \in {None, f} \cup stale
  BY <1>0, <1>2, <1>4 DEF DueFits, Expected
<1>10. SubSeq(reader, 1, BodyLength) = SubSeq(Frame(f), HeaderLength + 1, FrameLength)
  <2>1. HeaderLength + BodyLength <= FrameLength /\ HeaderLength + BodyLength = FrameLength
    BY <1>n
  <2>2. SubSeq(reader, 1, BodyLength)
           = SubSeq(Frame(f), HeaderLength + 1, HeaderLength + BodyLength)
    BY <1>0, <1>n, <1>2, <1>4, <2>1, FrontIs
  <2> QED
    BY <2>1, <2>2
<1>11. Verdict(f) = {"response"}
  BY <1>2, <1>10 DEF Verdict
<1>12. OwnAnswer'
  <2>1. CASE e = None
    BY <1>0, <1>1, <2>1 DEF HandleFrameData, OwnAnswer
  <2>2. CASE e # None
    <3>1. PICK verdict \in Verdict(e) : outcome' = [outcome EXCEPT ![e] = verdict]
      BY <2>2 DEF HandleFrameData, Settled
    <3>2. CASE e = f
      <4>1. verdict = "response"
        BY <1>11, <3>1, <3>2
      <4> QED
        BY <1>0, <1>1, <3>1, <4>1 DEF OwnAnswer, TypeOK
    <3>3. CASE e \in stale
      BY <1>0, <1>1, <3>1, <3>3 DEF OwnAnswer, TypeOK
    <3> QED
      BY <1>9, <2>2, <3>2, <3>3
  <2> QED
    BY <2>1, <2>2
<1> QED
  BY <1>7, <1>12

\* Nothing is expected for an exchange before it is begun, and its identifier is
\* then its own, or was an older one's that is due.
LEMMA SendAnswer == ASSUME AnswerInv, SendRequest PROVE DueFits'
<1>0. TypeOK /\ DueFits
  BY DEF AnswerInv, Inv
<1>1. PICK e \in Exchange : e = sent + 1
  BY DEF SendRequest
<1>2. /\ sent' = e /\ owed' = owed \cup {e} /\ Wire' = Wire
      /\ ids' = [ids EXCEPT ![e] = NextId]
      /\ transactions' = [transactions EXCEPT ![NextId] = e]
      /\ stale' = IF \E f \in Due : ids[f] = NextId THEN stale \cup {e} ELSE stale
  BY <1>1 DEF SendRequest, Wire
<1>3. NextId \in Id /\ sent \in Nat /\ e \notin 1 .. sent /\ 1 .. sent \subseteq 1 .. sent'
  BY <1>0, <1>1, <1>2, NextIdType DEF TypeOK
<1>4. Expected' = Expected \cup {e}
  BY <1>2 DEF Expected
<1> SUFFICES ASSUME NEW f \in Expected'
             PROVE  f \in 1 .. sent' /\ transactions'[ids'[f]] \in {None, f} \cup stale'
  BY DEF DueFits
<1>5. CASE f = e
  <2>1. e \in 1 .. sent'
    BY <1>2, <1>1 DEF Exchange
  <2>2. transactions'[ids'[e]] = e
    BY <1>0, <1>2, <1>3 DEF TypeOK
  <2> QED
    BY <1>5, <2>1, <2>2
<1>6. CASE f # e
  <2>1. f \in Expected /\ f \in 1 .. sent /\ transactions[ids[f]] \in {None, f} \cup stale
    BY <1>0, <1>4, <1>6 DEF DueFits
  <2>2. f \in Exchange /\ f \in Due
    BY <1>0, <2>1, BoundAssumption, ExpectedIsDue DEF TypeOK, Exchange
  <2>3. ids'[f] = ids[f] /\ ids[f] \in Id
    BY <1>0, <1>2, <1>6, <2>2 DEF TypeOK
  <2>4. CASE ids[f] = NextId
    BY <1>0, <1>2, <1>3, <2>1, <2>2, <2>3, <2>4 DEF TypeOK
  <2>5. CASE ids[f] # NextId
    <3>1. transactions'[ids[f]] = transactions[ids[f]]
      BY <1>0, <1>2, <1>3, <2>3, <2>5 DEF TypeOK
    <3> QED
      BY <1>2, <1>3, <2>1, <2>3, <3>1
  <2> QED
    BY <2>4, <2>5
<1> QED
  BY <1>5, <1>6

LEMMA NextAnswer == AnswerInv /\ [Next]_vars => AnswerInv'
<1> SUFFICES ASSUME AnswerInv, [Next]_vars PROVE InStep' /\ DueFits' /\ OwnAnswer'
  BY StepInv DEF AnswerInv
<1>0. Inv /\ TypeOK /\ InStep /\ DueFits /\ OwnAnswer
  BY DEF AnswerInv, Inv
<1>w. /\ Wire \in Seq(Byte) /\ Len(Wire) = Len(reader) + Len(stream)
      /\ Len(reader) \in Nat /\ Len(stream) \in Nat
  BY <1>0, WireIs
<1>wt. Wire \in Seq(Byte)
  BY <1>w
\* Steps after which the bytes on their way, and what they mean, are the same.
<1>same. ASSUME Wire' = Wire, UNCHANGED <<header, ids, sent, cut, stale>>, owed' \subseteq owed,
                \A i \in Id : transactions'[i] \in {None, transactions[i]}
         PROVE  InStep' /\ DueFits'
  <2>1. InStep'
    BY <1>0, <1>same DEF InStep, InFrames, Whole, Begins, Follows, Offset
  <2>2. Expected' \subseteq Expected
    BY <1>same DEF Expected
  <2> QED
    BY <1>0, <1>same, <2>1, <2>2, DueKept
<1>1. CASE SendRequest
  <2>1. Wire' = Wire /\ UNCHANGED <<header, cut, outcome>> /\ stale \subseteq stale'
    BY <1>1 DEF SendRequest, Wire
  <2>3. InStep'
    <3> SUFFICES ASSUME ~cut PROVE InStep'
      BY <2>1 DEF InStep
    <3>1. InFrames(Wire, Offset)'
      BY <1>0, <2>1 DEF InStep, InFrames, Whole, Begins, Follows, Offset
    <3>2. ASSUME header # NoHeader PROVE ids'[Wire[1][1]] = ids[Wire[1][1]]
      <4>1. Len(Wire) > 0 /\ 1 \in 1 .. Len(Wire)
        BY <1>0, <1>w, <3>2 DEF InStep
      <4>2. Wire[1][1] \in 1 .. sent /\ Wire[1][1] \in Exchange
        BY <1>0, <1>w, <4>1, ByteIs DEF DueFits, Expected
      <4>3. Wire[1][1] # sent + 1
        BY <1>0, <4>2 DEF TypeOK
      <4> QED
        BY <1>0, <1>1, <4>2, <4>3 DEF SendRequest, TypeOK
    <3> QED
      BY <1>0, <2>1, <3>1, <3>2 DEF InStep
  <2>4. OwnAnswer'
    BY <1>0, <2>1 DEF OwnAnswer
  <2> QED
    BY <1>1, <2>3, <2>4, SendAnswer
<1>2. ASSUME NEW n \in 1 .. Len(stream), OnData(n) PROVE InStep' /\ DueFits' /\ OwnAnswer'
  <2>1. /\ Wire' = Wire
        /\ UNCHANGED <<header, ids, sent, cut, stale, transactions, owed, outcome>>
    BY <1>0, <1>2, WireMoved DEF OnData, history, Wire
  <2> QED
    BY <1>0, <1>same, <2>1 DEF OwnAnswer
<1>3. CASE ReadHeader
  <2>1. UNCHANGED <<ids, sent, cut, stale, transactions, owed, outcome>>
    BY <1>3 DEF ReadHeader, remote, history
  <2>2. HeaderLength \in 1 .. Len(reader)
    BY <1>3, <1>w, LengthAssumption DEF ReadHeader, HeaderComplete
  <2>3. Wire' = Rest(Wire, HeaderLength) /\ HeaderLength \in 0 .. Len(Wire)
    <3>1. HeaderLength \in 0 .. Len(Wire)
      BY <1>w, <2>2
    <3> QED
      BY <1>0, <1>3, <2>2, <3>1, WireTaken DEF ReadHeader, remote, Wire
  <2>4. DueFits'
    BY <1>0, <2>1, <2>3, ExpectedShrinks, DueKept
  <2>5. InStep'
    BY <1>3, <2>1, ReadHeaderAnswer DEF InStep
  <2> QED
    BY <1>0, <2>1, <2>4, <2>5 DEF OwnAnswer
<1>4. CASE HandleFrameData
  <2>1. UNCHANGED <<ids, sent, cut, stale, owed, stream>>
    BY <1>4 DEF HandleFrameData, remote
  <2>2. /\ reader' = Rest(reader, header.length) /\ header # NoHeader
        /\ Len(reader) >= header.length
        /\ transactions' = [transactions EXCEPT ![header.id] = None]
    BY <1>4 DEF HandleFrameData, AfterFrame, Delete, FrameComplete
  <2>3. header.length \in Nat
    BY <1>0, <2>2, LengthAssumption DEF TypeOK, Headers
  <2>4. \E m \in 0 .. Len(Wire) : Wire' = Rest(Wire, m)
    <3>1. header.length \in 0 .. Len(Wire)
      BY <1>w, <2>2, <2>3
    <3>2. CASE header.length = 0
      <4>1. Rest(reader, 0) = reader
        BY <1>0, SubSeqFull DEF Rest, TypeOK
      <4>2. Rest(Wire, 0) = Wire
        BY <1>w, SubSeqFull DEF Rest
      <4> QED
        BY <2>1, <2>2, <3>1, <3>2, <4>1, <4>2 DEF Wire
    <3>3. CASE header.length # 0
      <4>1. header.length \in 1 .. Len(reader)
        BY <1>w, <2>2, <2>3, <3>3
      <4> QED
        BY <1>0, <2>1, <2>2, <3>1, <4>1, WireTaken DEF Wire
    <3> QED
      BY <3>2, <3>3
  <2>5. \A i \in Id : transactions'[i] \in {None, transactions[i]}
    BY <1>0, <2>2 DEF TypeOK
  <2>6. DueFits'
    BY <1>0, <2>1, <2>4, <2>5, ExpectedShrinks, DueKept
  <2>7. InStep' /\ OwnAnswer'
    BY <1>4, <2>1, HandleFrameAnswer DEF InStep, OwnAnswer
  <2> QED
    BY <2>6, <2>7
<1>5. ASSUME NEW e \in timeouts, Timeout(e) PROVE InStep' /\ DueFits' /\ OwnAnswer'
  <2>1. /\ UNCHANGED <<reader, stream, header, owed, ids, sent, stale, cut>>
        /\ transactions' = [transactions EXCEPT ![ids[e]] = None]
        /\ outcome' = [outcome EXCEPT ![e] = "timeout"]
    BY <1>5 DEF Timeout, TimedOut, remote
  <2>2. \A i \in Id : transactions'[i] \in {None, transactions[i]}
    BY <1>0, <2>1 DEF TypeOK
  <2>3. Wire' = Wire
    BY <2>1 DEF Wire
  <2>4. OwnAnswer'
    BY <1>0, <2>1 DEF OwnAnswer, TypeOK
  <2> QED
    BY <1>same, <2>1, <2>2, <2>3, <2>4
<1>6. ASSUME NEW e \in owed, SlaveAnswers(e) PROVE InStep' /\ DueFits' /\ OwnAnswer'
  <2>1. /\ owed' = owed \ {e} /\ stream' = stream \o Frame(e)
        /\ UNCHANGED <<reader, header, transactions, ids, sent, stale, cut, outcome>>
    BY <1>6 DEF SlaveAnswers, port, history
  <2>2. e \in Exchange /\ Frame(e) \in Seq(Byte)
    BY <1>0, FrameType DEF TypeOK
  <2>t. Frame(e) \in Seq(Byte)
    BY <2>2
  <2>3. Wire' = Wire \o Frame(e)
    <3>1. reader \in Seq(Byte) /\ stream \in Seq(Byte)
      BY <1>0 DEF TypeOK, Byte
    <3>2. (reader \o stream) \o Frame(e) = reader \o (stream \o Frame(e))
      BY <2>2, <3>1, ConcatAssociative
    <3> QED
      BY <2>1, <3>2 DEF Wire
  <2>4. InStep'
    <3> SUFFICES ASSUME ~cut PROVE InStep'
      BY <2>1 DEF InStep
    <3>1. InFrames(Wire, Offset) /\ (Len(Wire) = 0 => Offset = 0)
      BY <1>0 DEF InStep, Offset
    <3>2. InFrames(Wire', Offset)
      BY <1>w, <2>2, <2>3, <3>1, OffsetType, AddedInFrames
    <3>3. Len(Wire) > 0 => Wire'[1] = Wire[1] /\ Len(Wire') > 0
      <4>1. Len(Frame(e)) \in Nat
        BY <2>2, LenProperties
      <4>2. Len(Wire') = Len(Wire) + Len(Frame(e))
        BY <1>wt, <2>t, <2>3, ConcatProperties
      <4>3. \A i \in 1 .. Len(Wire) + Len(Frame(e)) :
                Wire'[i] = IF i <= Len(Wire) THEN Wire[i] ELSE Frame(e)[i - Len(Wire)]
        BY <1>wt, <2>t, <2>3, ConcatProperties
      <4> SUFFICES ASSUME Len(Wire) > 0 PROVE Wire'[1] = Wire[1] /\ Len(Wire') > 0
        OBVIOUS
      <4>4. 1 \in 1 .. Len(Wire) + Len(Frame(e)) /\ 1 <= Len(Wire) /\ Len(Wire) + Len(Frame(e)) > 0
        BY <1>w, <4>1
      <4> QED
        BY <4>2, <4>3, <4>4
    <3>4. Offset' = Offset
      BY <2>1 DEF Offset
    <3>5. InFrames(Wire, Offset)'
      BY <3>2, <3>4 DEF InFrames, Whole, Begins, Follows
    <3> QED
      BY <1>0, <2>1, <3>3, <3>5 DEF InStep
  <2>5. Expected' \subseteq Expected
    <3>1. Len(Frame(e)) = FrameLength /\ \A i \in 1 .. FrameLength : Frame(e)[i] = <<e, i>>
      BY <2>2, LengthType, LenProperties DEF Frame
    <3>2. /\ Len(Wire') = Len(Wire) + FrameLength
          /\ \A i \in 1 .. Len(Wire) + FrameLength :
                Wire'[i] = IF i <= Len(Wire) THEN Wire[i] ELSE Frame(e)[i - Len(Wire)]
      <4>1. Len(Wire') = Len(Wire) + Len(Frame(e))
        BY <1>wt, <2>t, <2>3, ConcatProperties
      <4>2. \A i \in 1 .. Len(Wire) + Len(Frame(e)) :
                Wire'[i] = IF i <= Len(Wire) THEN Wire[i] ELSE Frame(e)[i - Len(Wire)]
        BY <1>wt, <2>t, <2>3, ConcatProperties
      <4> QED
        BY <3>1, <4>1, <4>2
    <3>3. ASSUME NEW k \in 1 .. Len(Wire') PROVE Wire'[k][1] \in Expected
      <4>1. k \in 1 .. Len(Wire) + FrameLength /\ FrameLength \in Nat /\ Len(Wire) \in Nat
        BY <1>w, <3>2, LengthType
      <4>2. CASE k <= Len(Wire)
        <5>1. k \in 1 .. Len(Wire)
          BY <4>1, <4>2
        <5> QED
          BY <3>2, <4>1, <4>2, <5>1 DEF Expected
      <4>3. CASE ~(k <= Len(Wire))
        <5>1. k - Len(Wire) \in 1 .. FrameLength
          BY <4>1, <4>3
        <5>2. Wire'[k] = <<e, k - Len(Wire)>>
          BY <3>1, <3>2, <4>1, <4>3, <5>1
        <5> QED
          BY <5>2 DEF Expected
      <4> QED
        BY <4>2, <4>3
    <3>4. Expected' = owed' \cup {Wire'[k][1] : k \in 1 .. Len(Wire')}
      BY DEF Expected
    <3> QED
      BY <2>1, <3>3, <3>4 DEF Expected
  <2>6. DueFits'
    BY <1>0, <2>1, <2>5, DueKept
  <2> QED
    BY <1>0, <2>1, <2>4, <2>6 DEF OwnAnswer
<1>7. CASE Reconnected
  <2>1. /\ stream' = <<>> /\ owed' = {}
        /\ cut' = (cut \/ reader # <<>> \/ header # NoHeader)
        /\ UNCHANGED <<reader, header, transactions, ids, sent, stale, outcome>>
    BY <1>7 DEF Reconnected, port
  <2>2. Expected' \subseteq Expected
    <3>1. Wire' = reader
      BY <1>0, <2>1, ConcatEmptySeq DEF Wire, TypeOK
    <3>2. Len(Wire') = Len(reader) /\ \A k \in 1 .. Len(reader) : Wire'[k] = Wire[k]
      BY <1>0, <3>1, WireIs
    <3>3. 1 .. Len(reader) \subseteq 1 .. Len(Wire)
      BY <1>w
    <3>4. Expected' = owed' \cup {Wire'[k][1] : k \in 1 .. Len(Wire')}
      BY DEF Expected
    <3> QED
      BY <2>1, <3>2, <3>3, <3>4 DEF Expected
  <2>3. DueFits'
    BY <1>0, <2>1, <2>2, DueKept
  <2>4. InStep'
    <3> SUFFICES ASSUME ~cut' PROVE InStep'
      BY DEF InStep
    <3>1. reader' = <<>> /\ stream' = <<>> /\ header' = NoHeader
      BY <2>1
    <3>2. Wire' = <<>> /\ Offset' = 0
      BY <3>1 DEF Wire, Offset
    <3>3. Len(Wire') = 0
      BY <3>2
    <3>4. InFrames(Wire, Offset)'
      BY <3>3 DEF InFrames, Whole, Begins, Follows
    <3> QED
      BY <3>1, <3>4 DEF InStep
  <2> QED
    BY <1>0, <2>1, <2>3, <2>4 DEF OwnAnswer
<1>8. CASE Destroy \/ (\E e \in owed : NeverAnswered(e)) \/ UNCHANGED vars
  <2>1. /\ UNCHANGED <<reader, stream, header, transactions, ids, sent, stale, cut, outcome>>
        /\ owed' \subseteq owed
    BY <1>8 DEF Destroy, NeverAnswered, port, remote, history, vars
  <2> QED
    BY <1>0, <1>same, <2>1 DEF Wire, OwnAnswer
<1> QED
  BY <1>1, <1>2, <1>3, <1>4, <1>5, <1>6, <1>7, <1>8 DEF Next, Receive, Remote

\* While no connection has ended inside a frame, an exchange is given its own answer,
\* unless its identifier came round while an older answer was due.
THEOREM OwnAnswerHolds == Spec => []OwnAnswer
<1>1. AnswerInv => OwnAnswer
  BY DEF AnswerInv
<1> QED
  BY <1>1, InitAnswer, NextAnswer, PTL DEF Spec

----------------------------------------------------------------------------
\* The contract

\* Until the transport is destroyed, the exchanges without an outcome are those whose
\* response timer is live, and those that were not sent yet; no timer is live for an
\* exchange that is over, ever.
OpenKept ==
    \A e \in Exchange :
        /\ e > sent => outcome[e] = "none"
        /\ e \in timeouts => outcome[e] = "none"
        /\ ~destroyed /\ e <= sent => (outcome[e] = "none" <=> e \in timeouts)

KeptInv == Inv /\ OpenKept

LEMMA InitKept == Init => KeptInv
<1>1. Init => OpenKept
  BY DEF Init, OpenKept, Exchange
<1> QED
  BY <1>1, InitInv DEF KeptInv

LEMMA EndKept ==
    ASSUME KeptInv, NEW e \in timeouts, NEW how, how # "none",
           outcome' = [outcome EXCEPT ![e] = how], timeouts' = timeouts \ {e},
           UNCHANGED <<sent, destroyed>>
    PROVE  OpenKept'
<1>1. /\ outcome \in [Exchange -> Outcome] /\ e \in Exchange /\ e \in 1 .. sent /\ sent \in Nat
  BY DEF KeptInv, Inv, TypeOK, OpenIsSent
<1> SUFFICES ASSUME NEW u \in Exchange
             PROVE  /\ u > sent => outcome'[u] = "none"
                    /\ u \in timeouts' => outcome'[u] = "none"
                    /\ ~destroyed /\ u <= sent => (outcome'[u] = "none" <=> u \in timeouts')
  BY DEF OpenKept
<1>2. CASE u = e
  <2>1. outcome'[u] = how /\ ~(u > sent) /\ u \notin timeouts'
    BY <1>1, <1>2
  <2> QED
    BY <2>1
<1>3. CASE u # e
  BY <1>1, <1>3 DEF KeptInv, OpenKept
<1> QED
  BY <1>2, <1>3

\* The steps that end an exchange end one whose timer is live.
LEMMA FrameEnds ==
    ASSUME Inv, HandleFrameData
    PROVE  \/ UNCHANGED <<timeouts, outcome>>
           \/ \E e \in timeouts : \E how \in Outcome \ {"none"} :
                 outcome' = [outcome EXCEPT ![e] = how] /\ timeouts' = timeouts \ {e}
<1> DEFINE e == transactions[header.id]
<1>1. CASE e = None
  BY <1>1 DEF HandleFrameData
<1>2. CASE e # None
  <2>1. PICK how \in Verdict(e) :
            outcome' = [outcome EXCEPT ![e] = how] /\ timeouts' = timeouts \ {e}
    BY <1>2 DEF HandleFrameData, Settled
  <2>2. how \in Outcome \ {"none"}
    BY <2>1 DEF Verdict, Outcome
  <2>3. header.id \in Id /\ ~destroyed
    BY DEF HandleFrameData, FrameComplete, Inv, TypeOK, Headers
  <2>4. e \in timeouts
    BY <1>2, <2>3 DEF Inv, OpenIsRegistered
  <2> QED
    BY <2>1, <2>2, <2>4
<1> QED
  BY <1>1, <1>2

LEMMA NextKept == KeptInv /\ [Next]_vars => KeptInv'
<1> SUFFICES ASSUME KeptInv, [Next]_vars PROVE OpenKept'
  BY StepInv DEF KeptInv
<1>a. Inv /\ TypeOK
  BY DEF KeptInv, Inv
<1>1. CASE SendRequest
  <2>1. /\ sent + 1 \in Exchange /\ sent' = sent + 1 /\ sent \in Nat
        /\ timeouts' = timeouts \cup {sent'} /\ UNCHANGED <<outcome, destroyed>>
    BY <1>1, <1>a DEF SendRequest, TypeOK
  <2> SUFFICES ASSUME NEW e \in Exchange
               PROVE  /\ e > sent' => outcome[e] = "none"
                      /\ e \in timeouts' => outcome[e] = "none"
                      /\ ~destroyed /\ e <= sent' => (outcome[e] = "none" <=> e \in timeouts')
    BY <2>1 DEF OpenKept
  <2>2. e \in Nat
    BY DEF Exchange
  <2>3. /\ e > sent => outcome[e] = "none"
        /\ e \in timeouts => outcome[e] = "none"
        /\ ~destroyed /\ e <= sent => (outcome[e] = "none" <=> e \in timeouts)
    BY DEF KeptInv, OpenKept
  <2>4. /\ e > sent' => e > sent
        /\ e <= sent' => (e <= sent /\ e # sent') \/ (e = sent' /\ e > sent)
    BY <2>1, <2>2
  <2> QED
    BY <2>1, <2>3, <2>4
<1>2. CASE HandleFrameData
  <2>1. UNCHANGED <<sent, destroyed>>
    BY <1>2 DEF HandleFrameData
  <2>2. CASE UNCHANGED <<timeouts, outcome>>
    BY <2>1, <2>2 DEF KeptInv, OpenKept
  <2>3. CASE \E e \in timeouts : \E how \in Outcome \ {"none"} :
                 outcome' = [outcome EXCEPT ![e] = how] /\ timeouts' = timeouts \ {e}
    BY <2>1, <2>3, EndKept
  <2> QED
    BY <1>2, <1>a, <2>2, <2>3, FrameEnds
<1>3. ASSUME NEW e \in timeouts, Timeout(e) PROVE OpenKept'
  <2>1. /\ outcome' = [outcome EXCEPT ![e] = "timeout"] /\ timeouts' = timeouts \ {e}
        /\ UNCHANGED <<sent, destroyed>>
    BY <1>3 DEF Timeout
  <2> QED
    BY <2>1, EndKept
<1>4. CASE Destroy
  BY <1>4 DEF Destroy, LeftByDestroy, history, KeptInv, OpenKept
<1>5. CASE UNCHANGED <<timeouts, outcome, sent, destroyed>>
  BY <1>5 DEF KeptInv, OpenKept
<1>6. CASE Remote \/ ReadHeader \/ (\E n \in 1 .. Len(stream) : OnData(n)) \/ UNCHANGED vars
  BY <1>5, <1>6 DEF Remote, Reconnected, SlaveAnswers, NeverAnswered, ReadHeader, OnData,
     port,
                    history, vars
<1> QED
  BY <1>1, <1>2, <1>3, <1>4, <1>6 DEF Next, Receive

phaseBar == [e \in Exchange |-> Phase(e)]
ContractStep == Contract!Next \/ (phaseBar' = phaseBar /\ destroyed' = destroyed)

\* The contract counts with a Cardinality of its own instance, which is the same one.
LEMMA SameCardinality == ASSUME NEW S PROVE Contract!Cardinality(S) = Cardinality(S)
  BY DEF Contract!Cardinality, Cardinality

LEMMA PhaseMoves ==
    ASSUME NEW e \in Exchange, NEW to, Phase(e)' = to,
           \A u \in Exchange : u # e => Phase(u)' = Phase(u)
    PROVE  phaseBar' = [phaseBar EXCEPT ![e] = to]
  BY DEF phaseBar

LEMMA ExchangeEnds ==
    ASSUME KeptInv, NEW e \in timeouts, NEW how, how # "none",
           outcome' = [outcome EXCEPT ![e] = how], UNCHANGED <<sent, destroyed>>
    PROVE  ContractStep
<1>1. /\ outcome \in [Exchange -> Outcome] /\ e \in Exchange /\ e \in 1 .. sent /\ sent \in Nat
      /\ ~(e > sent) /\ e <= sent
  BY DEF KeptInv, Inv, TypeOK, OpenIsSent
<1>2. Phase(e) = "open"
  BY <1>1 DEF Phase, KeptInv, OpenKept
<1>3. Phase(e)' = "ended" /\ \A u \in Exchange : u # e => Phase(u)' = Phase(u)
  BY <1>1 DEF Phase
<1>4. phaseBar' = [phaseBar EXCEPT ![e] = "ended"] /\ phaseBar[e] = "open"
  BY <1>1, <1>2, <1>3, PhaseMoves DEF phaseBar
<1>5. ~destroyed \/ e \in shared \cap timeouts
  BY DEF KeptInv, Inv, LeftIsShared
<1> QED
  BY <1>1, <1>4, <1>5 DEF ContractStep, Contract!Next, Contract!End, phaseBar

LEMMA ContractNext == KeptInv /\ [Next]_vars => ContractStep
<1> SUFFICES ASSUME KeptInv, [Next]_vars PROVE ContractStep
  OBVIOUS
<1>a. Inv /\ TypeOK
  BY DEF KeptInv, Inv
<1>same. ASSUME UNCHANGED <<sent, outcome>> PROVE phaseBar' = phaseBar
  BY <1>same DEF phaseBar, Phase
<1>1. CASE SendRequest
  <2>1. /\ ~destroyed /\ sent + 1 \in Exchange /\ sent \in Nat
        /\ sent' = sent + 1 /\ UNCHANGED <<outcome, destroyed>>
    BY <1>1, <1>a DEF SendRequest, Idle, TypeOK
  <2>a. PICK e \in Exchange : e = sent + 1
    BY <2>1
  <2>b. e > sent /\ ~(e > sent') /\ outcome[e] = "none"
    BY <2>1, <2>a DEF KeptInv, OpenKept
  <2>2. Phase(e) = "new" /\ Phase(e)' = "open"
    BY <2>1, <2>b DEF Phase
  <2>3. ASSUME NEW u \in Exchange, u # e PROVE Phase(u)' = Phase(u)
    BY <2>1, <2>a, <2>3 DEF Phase, Exchange
  <2>4. phaseBar' = [phaseBar EXCEPT ![e] = "open"] /\ phaseBar[e] = "new"
    BY <2>2, <2>3, PhaseMoves DEF phaseBar
\* All but the exchange that begins may be open.
  <2>5. Contract!Open \subseteq Exchange \ {e}
    BY <2>2 DEF Contract!Open
  <2>6. IsFiniteSet(Exchange) /\ Cardinality(Exchange) = MaxExchanges
    <3>1. IsFiniteSet(1 .. MaxExchanges)
          /\ Cardinality(1 .. MaxExchanges) = IF 1 > MaxExchanges THEN 0 ELSE MaxExchanges - 1 + 1
      BY BoundAssumption, FS_Interval
    <3> QED
      BY <3>1, BoundAssumption DEF Exchange
  <2>7. IsFiniteSet(Exchange \ {e}) /\ Cardinality(Exchange \ {e}) = MaxExchanges - 1
    BY <2>6, FS_RemoveElement
  <2>8. IsFiniteSet(Contract!Open) /\ Cardinality(Contract!Open) <= MaxExchanges - 1
    BY <2>5, <2>7, FS_Subset
  <2>9. Cardinality(Contract!Open) \in Nat
    BY <2>8, FS_CardinalityType
  <2>10. Contract!Cardinality(Contract!Open) < MaxExchanges
    BY <2>8, <2>9, BoundAssumption, SameCardinality
  <2> QED
    <3>1. Contract!Begin(e)
      BY <2>1, <2>4, <2>10 DEF Contract!Begin, phaseBar
    <3> QED
      BY <3>1 DEF ContractStep, Contract!Next
<1>2. CASE HandleFrameData
  <2>1. UNCHANGED <<sent, destroyed>> /\ ~destroyed
    BY <1>2 DEF HandleFrameData
  <2>2. CASE UNCHANGED <<timeouts, outcome>>
    BY <1>same, <2>1, <2>2 DEF ContractStep
  <2>3. CASE \E e \in timeouts : \E how \in Outcome \ {"none"} :
                 outcome' = [outcome EXCEPT ![e] = how] /\ timeouts' = timeouts \ {e}
    BY <2>1, <2>3, ExchangeEnds
  <2> QED
    BY <1>2, <1>a, <2>2, <2>3, FrameEnds
<1>3. ASSUME NEW e \in timeouts, Timeout(e) PROVE ContractStep
  <2>1. outcome' = [outcome EXCEPT ![e] = "timeout"] /\ UNCHANGED <<sent, destroyed>>
    BY <1>3 DEF Timeout
  <2> QED
    BY <2>1, ExchangeEnds
<1>4. CASE Destroy
  <2>1. destroyed' = TRUE /\ UNCHANGED <<sent, outcome>>
    BY <1>4 DEF Destroy, history
  <2> QED
    BY <1>same, <2>1 DEF ContractStep, Contract!Next, Contract!Close, phaseBar
<1>5. CASE Remote \/ ReadHeader \/ (\E n \in 1 .. Len(stream) : OnData(n)) \/ UNCHANGED vars
  <2>1. UNCHANGED <<sent, outcome, destroyed>>
    BY <1>5 DEF Remote, Reconnected, SlaveAnswers, NeverAnswered, ReadHeader, OnData, port,
                history, vars
  <2> QED
    BY <1>same, <2>1 DEF ContractStep
<1> QED
  BY <1>1, <1>2, <1>3, <1>4, <1>5 DEF Next, Receive

\* Each step of the transport begins an exchange, ends an open one, closes, or is none of
\* the contract's business, however many are open at once; after destroy() only exchanges
\* end whose identifier came round while they were open.
THEOREM KeepsContract == Spec => Contract!Safety
<1>1. Init => Contract!Init
  <2> SUFFICES ASSUME Init PROVE phaseBar = [e \in Exchange |-> "new"] /\ destroyed = FALSE
    BY DEF Contract!Init, phaseBar
  <2>1. ASSUME NEW e \in Exchange PROVE Phase(e) = "new"
    BY DEF Init, Phase, Exchange
  <2> QED
    BY <2>1 DEF Init, phaseBar
<1>2. KeptInv /\ [Next]_vars => [Contract!Next]_<<phaseBar, destroyed>>
  BY ContractNext DEF ContractStep
<1>3. KeptInv /\ [Next]_vars => [Contract!Next]_<<[e \in Exchange |-> Phase(e)], destroyed>>
  BY <1>2 DEF phaseBar
<1> QED
  BY <1>1, <1>3, InitKept, NextKept, PTL DEF Spec, Contract!Safety

----------------------------------------------------------------------------
\* TcpConnection: its flags and its timers

\* An open handle was opened after everything before it was reported, and
\* destroy() leaves no timer of the connection behind.
OpenIsReported == ~disposed /\ handle = "open" => closing = 0 /\ connected
DestroyedIsQuiet == disposed => ~minConnectTimer /\ ~activityTimer

\* The timers are those of a connection that is up or whose end is to be reported.
TimersInTime == minConnectTimer \/ activityTimer => connected \/ closing > 0

ConnectionInv ==
    /\ closing \in Nat
    /\ OpenIsReported
    /\ DestroyedIsQuiet
    /\ FlagsMatchSocket
    /\ TimersInTime

LEMMA InitConnection == ConnectionInit => ConnectionInv
  BY DEF ConnectionInit, ConnectionInv, OpenIsReported, DestroyedIsQuiet, FlagsMatchSocket,
         TimersInTime

\* destroy() of the socket never adds a handle, and what it closes is owed.
LEMMA SocketDestroyedOwes ==
    ASSUME closing \in Nat, SocketDestroyed
    PROVE  /\ closing' \in Nat
           /\ handle' = "none"
           /\ handle = "none" => closing' = closing
           /\ handle # "none" => closing' > 0
           /\ closing > 0 => closing' > 0
  BY DEF SocketDestroyed

\* connect(), called by whomever.
LEMMA ConnectsInv ==
    ASSUME ConnectionInv, Connects, ~disposed,
           UNCHANGED <<disposed, minConnectTimer, activityTimer>>
    PROVE  ConnectionInv'
<1>1. handle # "open"
  BY DEF Connects, ConnectionInv, OpenIsReported
<1>2. /\ closing' \in Nat
      /\ handle' = "connecting" \/ handle' = "none"
      /\ handle' = "none" => closing' > 0
      /\ closing > 0 => closing' > 0
  BY DEF Connects, SocketConnects, ConnectionInv
<1>3. ~connected' /\ ~connected /\ ~disposed'
  BY DEF Connects
<1>4. OpenIsReported' /\ DestroyedIsQuiet' /\ FlagsMatchSocket'
  BY <1>1, <1>2, <1>3 DEF OpenIsReported, DestroyedIsQuiet, FlagsMatchSocket
<1>5. minConnectTimer' \/ activityTimer' => closing > 0
  BY <1>3 DEF ConnectionInv, TimersInTime
<1> QED
  BY <1>2, <1>4, <1>5 DEF ConnectionInv, TimersInTime

LEMMA StepConnection == ConnectionInv /\ [ConnectionNext]_connectionVars => ConnectionInv'
<1> SUFFICES ASSUME ConnectionInv, [ConnectionNext]_connectionVars PROVE ConnectionInv'
  OBVIOUS
<1> USE DEF ConnectionInv, OpenIsReported, DestroyedIsQuiet, FlagsMatchSocket, TimersInTime
<1>1. CASE Connect
  BY <1>1, ConnectsInv DEF Connect
<1>2. CASE Close
  <2>1. SocketDestroyed
    BY <1>2 DEF Close, DoClose
  <2> QED
    BY <1>2, <2>1, SocketDestroyedOwes DEF Close
<1>3. CASE DestroyConnection
  <2>1. SocketDestroyed /\ disposed'
    BY <1>3 DEF DestroyConnection
  <2> QED
    BY <1>3, <2>1, SocketDestroyedOwes DEF DestroyConnection, flags
<1>4. CASE OnSocketConnect
  BY <1>4 DEF OnSocketConnect
<1>5. CASE OnSocketClose
  BY <1>5 DEF OnSocketClose, StopConnectionTimers, NotConnected
<1>6. CASE ConnectionLost
  <2>1. SocketDestroyed
    BY <1>6 DEF ConnectionLost
  <2> QED
    BY <1>6, <2>1, SocketDestroyedOwes DEF ConnectionLost, flags, timers
<1>7. CASE Reconnect
  <2>1. CASE connected \/ connecting
    BY <1>7, <2>1 DEF Reconnect, flags, socket
  <2>2. CASE ~(connected \/ connecting) /\ ~disposed
    BY <1>7, <2>2, ConnectsInv DEF Reconnect
  <2>3. CASE ~(connected \/ connecting) /\ disposed
    <3>1. disposed' /\ ~minConnectTimer' /\ ~activityTimer'
      BY <1>7, <2>3 DEF Reconnect
    <3>2. closing' \in Nat
      BY <1>7, <2>3 DEF Reconnect, Connects, SocketConnects
    <3> QED
      BY <3>1, <3>2
  <2> QED
    BY <2>1, <2>2, <2>3
<1>8. CASE ReconnectOrphan
  <2>1. CASE connected \/ connecting
    BY <1>8, <2>1 DEF ReconnectOrphan, flags, socket
  <2>2. CASE ~(connected \/ connecting)
    BY <1>8, <2>2, ConnectsInv DEF ReconnectOrphan
  <2> QED
    BY <2>1, <2>2
<1>9. CASE MinConnectTimeReached
  BY <1>9 DEF MinConnectTimeReached, flags, socket
<1>10. CASE CheckActivity
  <2>1. SocketDestroyed /\ ~connected' /\ ~disposed /\ ~disposed'
    BY <1>10 DEF CheckActivity, DoClose
  <2>2. closing' > 0
    BY <1>10, <2>1, SocketDestroyedOwes DEF CheckActivity
  <2> QED
    BY <1>10, <2>1, <2>2, SocketDestroyedOwes DEF CheckActivity
<1>11. CASE UNCHANGED connectionVars
  BY <1>11 DEF connectionVars, flags, timers, socket
<1> QED
  BY <1>1, <1>2, <1>3, <1>4, <1>5, <1>6, <1>7, <1>8, <1>9, <1>10, <1>11
  DEF ConnectionNext, Application, Socket, Timers

\* Once every 'close' event is handled, connected says whether the socket is
\* open, and neither flag is ever set for a socket that is gone for good.
THEOREM FlagsAreTrue == ConnectionSpec => []FlagsMatchSocket
<1>1. ConnectionInv => FlagsMatchSocket
  BY DEF ConnectionInv
<1> QED
  BY <1>1, InitConnection, StepConnection, PTL DEF ConnectionSpec

\* The timers of a connection never outlive the handling of its 'close' event, and no
\* socket opens before that: an open connection is only ever closed by its own timer.
THEOREM TimersEndWithConnection == ConnectionSpec => []TimersEndBeforeNextOpens
<1>1. ConnectionInv => TimersEndBeforeNextOpens
  <2> SUFFICES ASSUME ConnectionInv PROVE TimersEndBeforeNextOpens
    OBVIOUS
  <2>1. closing = 0 /\ handle # "open" => ~minConnectTimer /\ ~activityTimer
    BY DEF ConnectionInv, TimersInTime, FlagsMatchSocket, DestroyedIsQuiet
  <2> QED
    BY <2>1 DEF ConnectionInv, OpenIsReported, TimersEndBeforeNextOpens
<1> QED
  BY <1>1, InitConnection, StepConnection, PTL DEF ConnectionSpec

----------------------------------------------------------------------------
\* Types

\* The handles that are in use or whose 'close' event is to come: one, and two only
\* while an attempt is under way.
Handles == closing + (IF handle = "none" THEN 0 ELSE 1)
FewHandles == Handles <= 2 /\ (~connecting => Handles <= 1)

Typed == ConnectionTypeOK /\ FewHandles

LEMMA BoundedType ==
    ASSUME NEW n \in Nat
    PROVE  Bounded(n) \in 0 .. MaxDelay /\ (n <= MaxDelay => Bounded(n) = n)
  BY DelayAssumption DEF Bounded

LEMMA InitTyped == ConnectionInit => Typed
<1> SUFFICES ASSUME ConnectionInit PROVE Typed
  OBVIOUS
<1>1. options \in Options
  BY DEF ConnectionInit
<1>2. /\ options.autoConnect \in BOOLEAN /\ options.autoReconnect \in BOOLEAN
  BY <1>1 DEF Options
<1>3. /\ attempts \in 0 .. MaxDelay /\ flaps \in 0 .. MaxDelay /\ orphans \in 0 .. MaxOrphans
  BY BoundedType, DelayAssumption DEF ConnectionInit
<1>4. connected \in BOOLEAN /\ connecting \in BOOLEAN /\ shouldReconnect \in BOOLEAN
  BY <1>2, Zenon DEF ConnectionInit
<1>5. stopped \in BOOLEAN
  BY <1>2, Zenon DEF ConnectionInit
<1>6. minConnectTimer \in BOOLEAN /\ activityTimer \in BOOLEAN /\ disposed \in BOOLEAN
  BY Zenon DEF ConnectionInit
<1>7. closing = 0 /\ handle \in {"none", "connecting"} /\ (~connecting => handle = "none")
  BY <1>2 DEF ConnectionInit
<1>8. FewHandles
  BY <1>7 DEF FewHandles, Handles
<1> QED
  BY <1>1, <1>3, <1>4, <1>5, <1>6, <1>7, <1>8 DEF ConnectionInit, Typed, ConnectionTypeOK

\* destroy() of the socket turns a handle into a 'close' event.
LEMMA SocketDestroyedTyped ==
    ASSUME Typed, SocketDestroyed
    PROVE  handle' = "none" /\ closing' \in 0 .. 2 /\ Handles' = Handles
  BY DEF Typed, ConnectionTypeOK, FewHandles, Handles, SocketDestroyed

\* connect() beyond its early return.
LEMMA ConnectsTyped ==
    ASSUME Typed, Connects,
           UNCHANGED <<options, minConnectTimer, activityTimer, disposed, flaps>>,
           orphans' \in 0 .. MaxOrphans
    PROVE  Typed'
<1>1. /\ connecting' = TRUE /\ shouldReconnect' = options.autoReconnect /\ stopped' = FALSE
      /\ reconnectTimer' = Off /\ attempts' = Bounded(attempts + 1) /\ UNCHANGED connected
      /\ ~connecting
  BY DEF Connects
<1>2. attempts' \in 0 .. MaxDelay
  BY <1>1, BoundedType DEF Typed, ConnectionTypeOK
<1>3. connecting' \in BOOLEAN /\ shouldReconnect' \in BOOLEAN /\ stopped' \in BOOLEAN
  BY <1>1, Zenon DEF Typed, ConnectionTypeOK, Options
<1>4. /\ handle' \in {"none", "connecting", "open"} /\ closing' \in 0 .. 2 /\ Handles' <= 2
  BY <1>1 DEF Connects, SocketConnects, Typed, ConnectionTypeOK, FewHandles, Handles
<1> QED
  BY <1>1, <1>2, <1>3, <1>4 DEF Typed, ConnectionTypeOK, FewHandles

LEMMA StepTyped == Typed /\ [ConnectionNext]_connectionVars => Typed'
<1> SUFFICES ASSUME Typed, [ConnectionNext]_connectionVars PROVE Typed'
  OBVIOUS
<1>1. CASE Connect
  BY <1>1, ConnectsTyped DEF Connect, Typed, ConnectionTypeOK
<1>2. CASE Close
  BY <1>2, SocketDestroyedTyped DEF Close, DoClose, Typed, ConnectionTypeOK, FewHandles
<1>3. CASE DestroyConnection
  BY <1>3, SocketDestroyedTyped DEF DestroyConnection, flags, Typed, ConnectionTypeOK,
     FewHandles
<1>4. CASE OnSocketConnect
  <2>1. flaps' \in 0 .. MaxDelay
    BY <1>4, BoundedType DEF OnSocketConnect, Typed, ConnectionTypeOK
  <2>2. /\ connecting' = FALSE /\ connected' = TRUE /\ minConnectTimer' = TRUE /\ handle' = "open"
        /\ closing' = 0
        /\ UNCHANGED <<options, shouldReconnect, reconnectTimer, activityTimer, orphans, attempts,
                       disposed, stopped>>
    BY <1>4 DEF OnSocketConnect
  <2>3. connecting' \in BOOLEAN /\ connected' \in BOOLEAN /\ minConnectTimer' \in BOOLEAN
    BY <2>2, Zenon
  <2>4. FewHandles'
    BY <2>2 DEF FewHandles, Handles
  <2> QED
    BY <2>1, <2>2, <2>3, <2>4 DEF Typed, ConnectionTypeOK
<1>5. CASE OnSocketClose
  <2>1. reconnectTimer' \in 0 .. MaxDelay \cup {Off}
    BY <1>5, BoundedType DEF OnSocketClose, HandleReconnect, Typed, ConnectionTypeOK
  <2>2. orphans' \in 0 .. MaxOrphans
    BY <1>5, DelayAssumption DEF OnSocketClose, HandleReconnect, Typed, ConnectionTypeOK
  <2>3. closing' \in 0 .. 2 /\ FewHandles'
    BY <1>5 DEF OnSocketClose, Typed, ConnectionTypeOK, FewHandles, Handles
  <2>4. /\ connecting' = FALSE /\ connected' = FALSE
        /\ minConnectTimer' = FALSE /\ activityTimer' = FALSE
        /\ UNCHANGED <<options, shouldReconnect, attempts, disposed, handle, stopped, flaps>>
    BY <1>5 DEF OnSocketClose, StopConnectionTimers, NotConnected
  <2>5. /\ connecting' \in BOOLEAN /\ connected' \in BOOLEAN
        /\ minConnectTimer' \in BOOLEAN /\ activityTimer' \in BOOLEAN
    BY <2>4, Zenon
  <2> QED
    BY <2>1, <2>2, <2>3, <2>4, <2>5 DEF Typed, ConnectionTypeOK
<1>6. CASE ConnectionLost
  BY <1>6, SocketDestroyedTyped DEF ConnectionLost, flags, timers, Typed, ConnectionTypeOK,
     FewHandles
<1>7. CASE Reconnect
  <2>1. CASE connected \/ connecting
    BY <1>7, <2>1 DEF Reconnect, flags, socket, Typed, ConnectionTypeOK, FewHandles, Handles
  <2>2. CASE ~(connected \/ connecting)
    BY <1>7, <2>2, ConnectsTyped DEF Reconnect, Typed, ConnectionTypeOK
  <2> QED
    BY <2>1, <2>2
<1>8. CASE ReconnectOrphan
  <2>1. orphans' \in 0 .. MaxOrphans
    <3>1. orphans' = orphans - 1 /\ orphans > 0 /\ orphans \in 0 .. MaxOrphans
      BY <1>8 DEF ReconnectOrphan, Typed, ConnectionTypeOK
    <3> QED
      BY <3>1, DelayAssumption
  <2>2. CASE connected \/ connecting
    BY <1>8, <2>1, <2>2 DEF ReconnectOrphan, flags, socket, Typed, ConnectionTypeOK,
       FewHandles, Handles
  <2>3. CASE ~(connected \/ connecting)
    BY <1>8, <2>1, <2>3, ConnectsTyped DEF ReconnectOrphan
  <2> QED
    BY <2>2, <2>3
<1>9. CASE MinConnectTimeReached
  <2>1. activityTimer' \in BOOLEAN
    BY <1>9, Zenon DEF MinConnectTimeReached
  <2>2. 0 \in 0 .. MaxDelay
    BY DelayAssumption
  <2> QED
    BY <1>9, <2>1, <2>2 DEF MinConnectTimeReached, flags, socket, Typed, ConnectionTypeOK,
       FewHandles, Handles
<1>10. CASE CheckActivity
  BY <1>10, SocketDestroyedTyped DEF CheckActivity, DoClose, Typed, ConnectionTypeOK,
     FewHandles
<1>11. CASE UNCHANGED connectionVars
  BY <1>11 DEF connectionVars, flags, timers, socket, Typed, ConnectionTypeOK, FewHandles,
     Handles
<1> QED
  BY <1>1, <1>2, <1>3, <1>4, <1>5, <1>6, <1>7, <1>8, <1>9, <1>10, <1>11
  DEF ConnectionNext, Application, Socket, Timers

\* Every variable keeps its type for every delay, and at most two 'close' events are
\* outstanding.
THEOREM ConnectionTypeCorrect == ConnectionSpec => []ConnectionTypeOK
<1>1. Typed => ConnectionTypeOK
  BY DEF Typed
<1> QED
  BY <1>1, InitTyped, StepTyped, PTL DEF ConnectionSpec

----------------------------------------------------------------------------
\* The delay grows with the connections that fail early

\* Only an open connection has the minimum-connect timer, and not together with the
\* inactivity timer, so that no attempt is under way when the attempts are forgotten.
YoungIsConnected ==
    /\ minConnectTimer => connected /\ ~activityTimer
    /\ handle = "connecting" => ~connected

\* The attempts counted cover the connections that failed early, with the one that may
\* come of the attempt under way.
AttemptsCover ==
    /\ attempts >= flaps
    /\ handle = "connecting" => attempts >= Bounded(flaps + 1)
    /\ (handle = "connecting" /\ reconnectTimer # Off) => reconnectTimer >= Bounded(flaps + 1)

Flood == YoungIsConnected /\ AttemptsCover /\ NoFlood

LEMMA InitFlood == ConnectionInit => Flood
<1> SUFFICES ASSUME ConnectionInit PROVE Flood
  OBVIOUS
<1>1. options \in Options /\ flaps = 0 /\ reconnectTimer = Off /\ ~minConnectTimer /\ ~connected
  BY DEF ConnectionInit
<1>2. attempts = Bounded(IF options.autoConnect THEN 1 ELSE 0)
      /\ (handle = "connecting" => options.autoConnect)
  BY <1>1 DEF ConnectionInit, Options
<1>3. attempts >= 0 /\ (handle = "connecting" => attempts >= Bounded(1))
  BY <1>2, DelayAssumption DEF Bounded
<1> QED
  BY <1>1, <1>3 DEF Flood, YoungIsConnected, AttemptsCover, NoFlood

\* The numbers of Flood, and what one more early failure makes of them.
LEMMA Numbers ==
    ASSUME Typed
    PROVE  /\ attempts \in 0 .. MaxDelay /\ flaps \in 0 .. MaxDelay
           /\ reconnectTimer # Off => reconnectTimer \in 0 .. MaxDelay
           /\ Bounded(attempts) = attempts
           /\ Bounded(attempts + 1) \in Nat /\ Bounded(flaps + 1) \in Nat
           /\ attempts >= flaps => Bounded(attempts + 1) >= Bounded(flaps + 1)
           /\ Bounded(attempts + 1) >= attempts
           /\ Bounded(flaps + 1) >= flaps
<1>1. attempts \in 0 .. MaxDelay /\ flaps \in 0 .. MaxDelay
      /\ (reconnectTimer # Off => reconnectTimer \in 0 .. MaxDelay)
  BY DEF Typed, ConnectionTypeOK
<1> QED
  BY <1>1, DelayAssumption DEF Bounded

LEMMA ConnectsFlood ==
    ASSUME Typed, Flood, Connects, UNCHANGED <<minConnectTimer, activityTimer, flaps>>
    PROVE  Flood'
<1>1. /\ ~connected /\ ~connected' /\ reconnectTimer' = Off /\ attempts' = Bounded(attempts + 1)
  BY DEF Connects
<1>2. Bounded(flaps + 1)' = Bounded(flaps + 1)
  BY DEF Bounded
<1>3. attempts' >= flaps' /\ attempts' >= Bounded(flaps + 1)'
  BY <1>1, <1>2, Numbers DEF Flood, AttemptsCover
<1> QED
  BY <1>1, <1>3 DEF Flood, YoungIsConnected, AttemptsCover, NoFlood

LEMMA StepFlood == ConnectionInv /\ Typed /\ Flood /\ [ConnectionNext]_connectionVars => Flood'
<1> SUFFICES ASSUME ConnectionInv, Typed, Flood, [ConnectionNext]_connectionVars PROVE Flood'
  OBVIOUS
<1> USE DEF Flood, YoungIsConnected, AttemptsCover, NoFlood
<1>0. Typed'
  BY StepTyped
<1>1. CASE Connect
  BY <1>1, ConnectsFlood DEF Connect
<1>2. CASE Close
  BY <1>2, SocketDestroyedTyped DEF Close, DoClose
<1>3. CASE DestroyConnection
  BY <1>3, SocketDestroyedTyped DEF DestroyConnection, flags
<1>4. CASE OnSocketConnect
  <2>1. /\ handle = "connecting" /\ closing = 0 /\ handle' = "open" /\ connected' = TRUE
        /\ flaps' = Bounded(flaps + 1)
        /\ UNCHANGED <<reconnectTimer, activityTimer, attempts>>
    BY <1>4 DEF OnSocketConnect
  <2>2. ~activityTimer
    BY <2>1 DEF ConnectionInv, TimersInTime
  <2> QED
    BY <2>1, <2>2
<1>5. CASE OnSocketClose
  <2>1. /\ ~connected' /\ ~minConnectTimer' /\ UNCHANGED <<handle, attempts, flaps>>
        /\ reconnectTimer' = reconnectTimer \/ reconnectTimer' = attempts
    BY <1>5, Numbers DEF OnSocketClose, StopConnectionTimers, NotConnected, HandleReconnect
  <2>2. Bounded(flaps + 1)' = Bounded(flaps + 1)
    BY <2>1 DEF Bounded
  <2> QED
    BY <2>1, <2>2
<1>6. CASE ConnectionLost
  BY <1>6, SocketDestroyedTyped DEF ConnectionLost, flags, timers
<1>7. CASE Reconnect
  <2>1. CASE connected \/ connecting
    <3>1. UNCHANGED <<flags, attempts, socket, minConnectTimer, activityTimer, flaps>>
          /\ reconnectTimer' = Off
      BY <1>7, <2>1 DEF Reconnect
    <3>2. Bounded(flaps + 1)' = Bounded(flaps + 1)
      BY <3>1 DEF Bounded
    <3> QED
      BY <3>1, <3>2 DEF flags, socket
  <2>2. CASE ~(connected \/ connecting)
    BY <1>7, <2>2, ConnectsFlood DEF Reconnect
  <2> QED
    BY <2>1, <2>2
<1>8. CASE ReconnectOrphan
  <2>1. CASE connected \/ connecting
    <3>1. UNCHANGED <<flags, attempts, socket, minConnectTimer, activityTimer, flaps, reconnectTimer>>
      BY <1>8, <2>1 DEF ReconnectOrphan
    <3>2. Bounded(flaps + 1)' = Bounded(flaps + 1)
      BY <3>1 DEF Bounded
    <3> QED
      BY <3>1, <3>2 DEF flags, socket
  <2>2. CASE ~(connected \/ connecting)
    BY <1>8, <2>2, ConnectsFlood DEF ReconnectOrphan
  <2> QED
    BY <2>1, <2>2
<1>9. CASE MinConnectTimeReached
  <2>1. /\ minConnectTimer /\ ~minConnectTimer' /\ attempts' = 0 /\ flaps' = 0
        /\ UNCHANGED <<connected, handle, reconnectTimer>>
    BY <1>9 DEF MinConnectTimeReached, flags, socket
  <2>2. handle' # "connecting"
    BY <2>1
  <2> QED
    BY <2>1, <2>2, Numbers
<1>10. CASE CheckActivity
  <2>1. ~minConnectTimer /\ ~minConnectTimer' /\ reconnectTimer' = Off /\ handle' # "connecting"
        /\ UNCHANGED <<attempts, flaps>>
    BY <1>10, SocketDestroyedTyped DEF CheckActivity, DoClose
  <2> QED
    BY <2>1
<1>11. CASE UNCHANGED connectionVars
  <2>1. Bounded(flaps + 1)' = Bounded(flaps + 1)
    BY <1>11 DEF connectionVars, Bounded
  <2> QED
    BY <1>11, <2>1 DEF connectionVars, flags, timers, socket
<1> QED
  BY <1>1, <1>2, <1>3, <1>4, <1>5, <1>6, <1>7, <1>8, <1>9, <1>10, <1>11
  DEF ConnectionNext, Application, Socket, Timers

\* The delay before the next attempt grows with the connections that did not last,
\* whatever is lost, closed or called meanwhile.
THEOREM DelayGrows == ConnectionSpec => []NoFlood
<1>1. Flood => NoFlood
  BY DEF Flood
<1> QED
  BY <1>1, InitConnection, StepConnection, InitTyped, StepTyped, InitFlood, StepFlood,
     PTL DEF ConnectionSpec

----------------------------------------------------------------------------
\* close() is final

\* As long as no inactivity timer overrules it the connection has one handle at a time,
\* whose end is awaited before anything is scheduled: no reconnect timer is lost sight of,
\* and after close() none is started.
OneHandle ==
    /\ Handles <= 1
    /\ Handles = 1 <=> connected \/ connecting
    /\ reconnectTimer # Off => Handles = 0
    /\ stopped => reconnectTimer = Off /\ (Handles = 1 => ~shouldReconnect)
Undisturbed ==
    ~options.watchActivity =>
        /\ orphans = 0 /\ ~activityTimer
        /\ disposed => reconnectTimer = Off
        /\ ~disposed => OneHandle

LEMMA InitUndisturbed == ConnectionInit => Undisturbed
<1> SUFFICES ASSUME ConnectionInit PROVE Undisturbed
  OBVIOUS
<1>1. handle = (IF options.autoConnect THEN "connecting" ELSE "none") /\ closing = 0
      /\ options.autoConnect \in BOOLEAN
  BY DEF ConnectionInit, Options
<1>2. Handles <= 1 /\ (Handles = 1 <=> options.autoConnect)
  BY <1>1 DEF Handles
<1> QED
  BY <1>1, <1>2 DEF ConnectionInit, Undisturbed, OneHandle

\* connect() beyond its early return finds no handle, and makes one.
LEMMA ConnectsUndisturbed ==
    ASSUME Typed, Undisturbed, Connects, ~disposed,
           UNCHANGED <<options, disposed, activityTimer>>, orphans' \in {orphans, orphans - 1},
           orphans = 0 => orphans' = 0
    PROVE  Undisturbed'
<1> SUFFICES ASSUME ~options.watchActivity PROVE orphans' = 0 /\ ~activityTimer' /\ OneHandle'
  BY DEF Undisturbed
<1>1. /\ ~connected /\ ~connecting /\ connecting' = TRUE /\ reconnectTimer' = Off /\ stopped' = FALSE
  BY DEF Connects
<1>2. Handles = 0 /\ closing \in Nat
  <2>1. Handles <= 1 /\ Handles # 1 /\ closing \in 0 .. 2
    BY <1>1 DEF Undisturbed, OneHandle, Typed, ConnectionTypeOK
  <2> QED
    BY <2>1 DEF Handles
<1>3. handle' = "connecting" /\ closing' = 0
  BY <1>2 DEF Handles, Connects, SocketConnects
<1>4. Handles' = 1
  BY <1>3 DEF Handles
<1> QED
  BY <1>1, <1>4 DEF Undisturbed, OneHandle

LEMMA StepUndisturbed == Typed /\ Undisturbed /\ [ConnectionNext]_connectionVars => Undisturbed'
<1> SUFFICES ASSUME Typed, Undisturbed, [ConnectionNext]_connectionVars PROVE Undisturbed'
  OBVIOUS
<1>1. CASE Connect
  BY <1>1, ConnectsUndisturbed DEF Connect
<1>2. CASE Close
  <2>1. Handles' = Handles /\ shouldReconnect' = FALSE /\ reconnectTimer' = Off
    BY <1>2, SocketDestroyedTyped DEF Close, DoClose
  <2> QED
    BY <1>2, <2>1 DEF Close, Undisturbed, OneHandle
<1>3. CASE DestroyConnection
  BY <1>3 DEF DestroyConnection, Undisturbed
<1>4. CASE OnSocketConnect
  <2>1. /\ handle = "connecting" /\ handle' = "open" /\ connected'
        /\ UNCHANGED <<options, shouldReconnect, reconnectTimer, activityTimer, orphans, disposed,
                       closing, stopped>>
    BY <1>4 DEF OnSocketConnect
  <2>2. Handles' = Handles /\ closing \in 0 .. 2 /\ Handles >= 1
    BY <2>1 DEF Handles, Typed, ConnectionTypeOK
  <2>3. Handles <= 1 => Handles = 1
    BY <2>2 DEF Handles
  <2> QED
    BY <2>1, <2>2, <2>3 DEF Undisturbed, OneHandle
<1>5. CASE OnSocketClose
  <2> SUFFICES ASSUME ~options.watchActivity PROVE orphans' = 0 /\ ~activityTimer' /\ OneHandle'
    BY <1>5 DEF OnSocketClose, Undisturbed
  <2>1. /\ closing > 0 /\ closing' = closing - 1 /\ ~connected' /\ ~connecting' /\ ~activityTimer'
        /\ UNCHANGED <<shouldReconnect, handle, stopped>> /\ HandleReconnect /\ ~disposed
    BY <1>5 DEF OnSocketClose, StopConnectionTimers, NotConnected
  <2>2. OneHandle /\ orphans = 0
    BY <2>1 DEF Undisturbed
  <2>3. Handles = 1 /\ handle = "none" /\ closing = 1
    <3>1. closing \in 0 .. 2
      BY DEF Typed, ConnectionTypeOK
    <3> QED
      BY <2>1, <2>2, <3>1 DEF OneHandle, Handles
  <2>4. Handles' = 0
    BY <2>1, <2>3 DEF Handles
  <2>5. reconnectTimer = Off
    BY <2>2, <2>3 DEF OneHandle
  <2>6. orphans' = 0 /\ (stopped => reconnectTimer' = Off)
    BY <2>1, <2>2, <2>3, <2>5 DEF OneHandle, HandleReconnect
  <2> QED
    BY <2>1, <2>4, <2>6 DEF OneHandle
<1>6. CASE ConnectionLost
  <2>1. Handles' = Handles /\ UNCHANGED <<options, flags, timers, disposed, stopped>>
    BY <1>6, SocketDestroyedTyped DEF ConnectionLost
  <2> QED
    BY <2>1 DEF flags, timers, Undisturbed, OneHandle
<1>7. CASE Reconnect
  <2>1. CASE connected \/ connecting
    <3>1. /\ reconnectTimer' = Off
          /\ UNCHANGED <<options, flags, socket, activityTimer, orphans, disposed, stopped>>
      BY <1>7, <2>1 DEF Reconnect
    <3>2. Handles' = Handles
      BY <3>1 DEF Handles, socket
    <3> QED
      BY <3>1, <3>2 DEF flags, Undisturbed, OneHandle
  <2>2. CASE ~(connected \/ connecting) /\ ~disposed
    BY <1>7, <2>2, ConnectsUndisturbed DEF Reconnect
  <2>3. CASE disposed
    BY <1>7, <2>3 DEF Reconnect, Connects, Undisturbed
  <2> QED
    BY <2>1, <2>2, <2>3
<1>8. CASE ReconnectOrphan
  <2>1. orphans # 0 /\ UNCHANGED options
    BY <1>8 DEF ReconnectOrphan
  <2> QED
    BY <2>1 DEF Undisturbed
<1>9. CASE MinConnectTimeReached
  <2>1. /\ activityTimer' = (activityTimer \/ options.watchActivity)
        /\ UNCHANGED <<options, flags, reconnectTimer, orphans, disposed, socket, stopped>>
    BY <1>9 DEF MinConnectTimeReached
  <2>2. Handles' = Handles
    BY <2>1 DEF Handles, socket
  <2> QED
    BY <2>1, <2>2 DEF flags, Undisturbed, OneHandle
<1>10. CASE CheckActivity
  BY <1>10 DEF CheckActivity, Undisturbed
<1>11. CASE UNCHANGED connectionVars
  <2>1. Handles' = Handles
    BY <1>11 DEF connectionVars, socket, Handles
  <2> QED
    BY <1>11, <2>1 DEF connectionVars, flags, timers, Undisturbed, OneHandle
<1> QED
  BY <1>1, <1>2, <1>3, <1>4, <1>5, <1>6, <1>7, <1>8, <1>9, <1>10, <1>11
  DEF ConnectionNext, Application, Socket, Timers

\* After close(), and until connect() is called, no timer opens a connection again, in
\* whatever state close() found the connection, if the inactivity timer is not used.
THEOREM CloseEndsIt == ConnectionSpec => CloseIsFinal
<1>1. Undisturbed => (stopped /\ ~options.watchActivity => ~Reconnect /\ ~ReconnectOrphan)
  <2> SUFFICES ASSUME Undisturbed, stopped, ~options.watchActivity
               PROVE  ~Reconnect /\ ~ReconnectOrphan
    OBVIOUS
  <2>1. orphans = 0 /\ (disposed => reconnectTimer = Off) /\ (~disposed => OneHandle)
    BY DEF Undisturbed
  <2>2. reconnectTimer = Off
    BY <2>1, Zenon DEF OneHandle
  <2>3. ~Reconnect
    BY <2>2, Zenon DEF Reconnect
  <2>4. ~(orphans > 0)
    BY <2>1
  <2> QED
    BY <2>3, <2>4, Zenon DEF ReconnectOrphan
<1> QED
  BY <1>1, InitTyped, StepTyped, InitUndisturbed, StepUndisturbed, PTL DEF ConnectionSpec,
     CloseIsFinal

=============================================================================
