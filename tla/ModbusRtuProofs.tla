---------------------------- MODULE ModbusRtuProofs ----------------------------
(***************************************************************************)
(* Proofs about the two halves of a Modbus exchange over a serial line.    *)
(*                                                                         *)
(* Codecs: what the slave reads of a request and the master of an answer   *)
(* is what was written, for every class, every values and every loss.      *)
(*                                                                         *)
(* RtuTransport: its types, that its two timers guard the open exchange,   *)
(* that an exchange begun on a quiet line stays in step with its answer,   *)
(* and that it keeps the contract, for every number and every length of    *)
(* exchanges.                                                              *)
(***************************************************************************)
EXTENDS RtuTransport, Codecs, FiniteSetTheorems, SequenceTheorems, WellFoundedInduction, TLAPS

----------------------------------------------------------------------------
\* RtuTransport

Piece == Exchange \X (1 .. FrameLength)

LEMMA FrameType == ASSUME NEW e \in Exchange PROVE Frame(e) \in Seq(Piece)
<1>1. Frame(e) \in [1 .. FrameLength -> Piece]
  BY DEF Frame, Piece
<1>2. FrameLength \in Nat
  BY LengthAssumption
<1> QED
  BY <1>1, <1>2, SeqDef

LEMMA FrameLen == ASSUME NEW e \in Exchange PROVE Len(Frame(e)) = FrameLength
  BY FrameType, LengthAssumption DEF Frame, Piece

\* A frame without its end, and what is left of the line, are bytes.
LEMMA PartType ==
    ASSUME NEW bytes \in Seq(Piece), NEW m \in 1 .. Len(bytes) + 1, NEW n \in 0 .. Len(bytes)
    PROVE  SubSeq(bytes, m, n) \in Seq(Piece)
  BY SubSeqProperties

LEMMA VerdictType ==
    ASSUME NEW e \in Exchange, NEW bytes PROVE Verdict(e, bytes) \in Outcome \ {"none"}
  BY DEF Verdict, Outcome

Inv == TypeOK /\ TimersGuardTransaction

LEMMA InitInv == Init => Inv
<1> SUFFICES ASSUME Init PROVE TypeOK /\ TimersGuardTransaction
  BY DEF Inv
<1>1. reader = <<>> /\ line = <<>> /\ <<>> \in Seq(Exchange \X (1 .. FrameLength))
  BY EmptySeq DEF Init
<1>2. outcome \in [Exchange -> Outcome]
  BY DEF Init, Outcome
<1>3. 0 \in 0 .. MaxExchanges
  BY BoundAssumption
<1> QED
  BY <1>1, <1>2, <1>3 DEF Init, TypeOK, TimersGuardTransaction, None

LEMMA StepInv == Inv /\ [Next]_vars => Inv'
<1> SUFFICES ASSUME TypeOK, TimersGuardTransaction, [Next]_vars PROVE Inv'
  BY DEF Inv
<1> USE BoundAssumption DEF None
<1>1. CASE SendRequest
  BY <1>1 DEF SendRequest, Inv, TypeOK, TimersGuardTransaction, Exchange
<1>2. CASE HandleFrameData
  <2>1. transaction \in Exchange /\ transaction' = None
    BY <1>2 DEF HandleFrameData, TypeOK, TimersGuardTransaction
  <2>2. Verdict(transaction, reader) \in Outcome
    BY <2>1, VerdictType
  <2>3. outcome' \in [Exchange -> Outcome] /\ timeout' = None
    BY <1>2, <2>2 DEF HandleFrameData, Ends, TypeOK
  <2>4. reader' = <<>>
    BY <1>2 DEF HandleFrameData, SkipResponseData
  <2> QED
    BY <1>2, <2>1, <2>3, <2>4, EmptySeq
    DEF HandleFrameData, Inv, TypeOK, TimersGuardTransaction
<1>3. CASE HandleTimeout
  BY <1>3, EmptySeq
  DEF HandleTimeout, SkipResponseData, Ends, Inv, TypeOK,
      TimersGuardTransaction, Outcome
<1>4. CASE Destroy
  BY <1>4 DEF Destroy, remote, history, Inv, TypeOK, TimersGuardTransaction
<1>5. ASSUME NEW n \in 1 .. Len(line), OnData(n) PROVE Inv'
  <2>1. line \in Seq(Piece)
    BY DEF TypeOK, Piece
  <2>2. SubSeq(line, 1, n) \in Seq(Piece) /\ SubSeq(line, n + 1, Len(line)) \in Seq(Piece)
    BY <2>1, PartType, LenProperties
  <2>3. reader \in Seq(Piece) /\ reader \o SubSeq(line, 1, n) \in Seq(Piece)
    BY <2>2, ConcatProperties DEF TypeOK, Piece
  <2> QED
    BY <1>5, <2>2, <2>3 DEF OnData, history, Inv, TypeOK, TimersGuardTransaction, Piece
<1>6. ASSUME NEW e \in owed, NEW k \in 0 .. FrameLength, SlaveAnswers(e, k) PROVE Inv'
  <2>1. e \in Exchange
    BY DEF TypeOK
  <2>2. SubSeq(Frame(e), 1, k) \in Seq(Piece)
    BY <2>1, PartType, FrameType, FrameLen, LengthAssumption
  <2>3. line' \in Seq(Piece)
    BY <1>6, <2>2 DEF SlaveAnswers, TypeOK, Piece
  <2> QED
    BY <1>6, <2>1, <2>3 DEF SlaveAnswers, port, Inv, TypeOK, TimersGuardTransaction, Piece
<1>7. CASE UNCHANGED vars
  BY <1>7 DEF vars, port, remote, history, Inv, TypeOK, TimersGuardTransaction
<1> QED
  BY <1>1, <1>2, <1>3, <1>4, <1>5, <1>6, <1>7 DEF Next, Remote

\* Every variable of the transport keeps its type, for every number of
\* exchanges and every frame length.
THEOREM TypeCorrect == Spec => []TypeOK
<1>1. Inv => TypeOK
  BY DEF Inv
<1> QED
  BY <1>1, InitInv, StepInv, PTL DEF Spec

\* The end-of-frame timer is only ever live with an open exchange, whose
\* response timer is live too: handleFrameData never meets a null transaction.
THEOREM TimersGuarded == Spec => []TimersGuardTransaction
<1>1. Inv => TimersGuardTransaction
  BY DEF Inv
<1> QED
  BY <1>1, InitInv, StepInv, PTL DEF Spec

----------------------------------------------------------------------------
\* In step on a quiet line.  While an exchange that began on a quiet line is open,
\* the bytes collected and the bytes still on the line are, in this order, a prefix
\* of its own frame, and the whole frame unless the frame was damaged.
OwnBytes(e) ==
    /\ owed \subseteq {e}
    /\ Len(reader) + Len(line) <= FrameLength
    /\ \A i \in 1 .. Len(reader) : reader[i] = <<e, i>>
    /\ \A i \in 1 .. Len(line) : line[i] = <<e, Len(reader) + i>>
    /\ e \in owed => reader = <<>> /\ line = <<>>
    /\ (e \notin owed /\ Len(reader) + Len(line) < FrameLength) => e \in damaged

\* The open exchange is the last one, the ones before it have ended, and nothing is
\* known yet of the next ones.
Latest ==
    /\ transaction # None => transaction = sent /\ ~destroyed
    /\ \A e \in Exchange : e > sent => outcome[e] = "none" /\ e \notin quiet
    /\ ~destroyed => \A e \in Exchange : e <= sent => (outcome[e] = "none" <=> e = transaction)

StepKept ==
    /\ Inv
    /\ Latest
    /\ eofTimer => reader # <<>>
    /\ transaction \in quiet => OwnBytes(transaction)
    /\ InStepOnQuietLine

\* A prefix of the exchange's own frame is too short, or the whole frame, or is
\* refused; it is never taken for the answer to another request.
LEMMA VerdictOfPrefix ==
    ASSUME NEW e \in Exchange, NEW bytes \in Seq(Piece), bytes # <<>>,
           Len(bytes) <= FrameLength, \A i \in 1 .. Len(bytes) : bytes[i] = <<e, i>>
    PROVE  /\ Verdict(e, bytes) # "foreign"
           /\ Verdict(e, bytes) \in {"incomplete", "error"} => Len(bytes) < FrameLength
<1> DEFINE fitting == {other \in Exchange : bytes = Frame(other) /\ Header[other] = Header[e]}
<1>1. Len(bytes) \in Nat /\ bytes[1] = <<e, 1>> /\ FrameLength \in Nat /\ MinFrameLength \in 1 .. FrameLength
      /\ 1 \in 1 .. FrameLength /\ DOMAIN bytes = 1 .. Len(bytes)
  BY EmptySeq, LenProperties, LengthAssumption
<1>2. ASSUME NEW other \in fitting PROVE other = e
  <2>1. bytes[1] = <<other, 1>>
    BY <1>1 DEF Frame
  <2> QED
    BY <1>1, <2>1
<1>3. CASE Len(bytes) < MinFrameLength
  BY <1>1, <1>3 DEF Verdict
<1>4. CASE Len(bytes) >= MinFrameLength /\ Len(bytes) = FrameLength
  <2>1. bytes = Frame(e)
    <3>1. bytes = [i \in 1 .. FrameLength |-> bytes[i]]
      BY <1>1, <1>4, SeqDef
    <3> QED
      BY <1>1, <1>4, <3>1 DEF Frame
  <2>2. fitting = {e}
    BY <1>2, <2>1
  <2>3. Verdict(e, bytes) = "response"
    BY <1>1, <1>4, <2>2 DEF Verdict
  <2> QED
    BY <2>3
<1>5. CASE Len(bytes) >= MinFrameLength /\ Len(bytes) # FrameLength
  <2>1. bytes # Frame(e)
    BY <1>5, FrameLen
  <2>2. fitting = {}
    BY <1>2, <2>1
  <2>3. Verdict(e, bytes) = "error"
    BY <1>1, <1>5, <2>2 DEF Verdict
  <2>4. Len(bytes) \in Int /\ FrameLength \in Int
    BY <1>1
  <2>5. Len(bytes) < FrameLength
    BY <1>5, <2>4
  <2> QED
    BY <2>3, <2>5
<1>6. MinFrameLength \in Int /\ Len(bytes) \in Int
  BY <1>1
<1>7. Len(bytes) < MinFrameLength \/ Len(bytes) >= MinFrameLength
  BY <1>6
<1> QED
  BY <1>3, <1>4, <1>5, <1>7

LEMMA InitStepKept == Init => StepKept
<1> SUFFICES ASSUME Init PROVE Latest /\ (eofTimer => reader # <<>>)
                 /\ (transaction \in quiet => OwnBytes(transaction)) /\ InStepOnQuietLine
  BY InitInv DEF StepKept
<1> QED
  BY DEF Init, Latest, InStepOnQuietLine, Exchange, None

LEMMA NextStepKept == StepKept /\ [Next]_vars => StepKept'
<1> SUFFICES ASSUME StepKept, [Next]_vars
             PROVE  /\ Latest'
                    /\ (eofTimer => reader # <<>>)'
                    /\ (transaction \in quiet => OwnBytes(transaction))'
                    /\ InStepOnQuietLine'
  BY StepInv DEF StepKept
<1>1. /\ Inv /\ TypeOK /\ Latest /\ InStepOnQuietLine
      /\ reader \in Seq(Piece) /\ line \in Seq(Piece) /\ Len(reader) \in Nat /\ Len(line) \in Nat
  BY LenProperties DEF StepKept, Inv, TypeOK, Piece
<1>2. CASE SendRequest
  <2>1. /\ transaction' = sent + 1 /\ sent' = sent + 1 /\ ~destroyed
        /\ sent + 1 \in Exchange /\ sent \in Nat
        /\ owed' = owed \cup {sent + 1}
        /\ quiet' = IF owed = {} /\ line = <<>> THEN quiet \cup {sent + 1} ELSE quiet
        /\ UNCHANGED <<reader, eofTimer, destroyed, line, outcome, damaged>>
    BY <1>2, <1>1 DEF SendRequest, TypeOK
  <2>2. reader = <<>>
    BY <1>2, <1>1, <2>1 DEF SendRequest, Inv, TimersGuardTransaction
  <2>3. ASSUME NEW e \in Exchange, e > sent' PROVE e > sent /\ e # sent + 1
    BY <2>1, <2>3 DEF Exchange
  <2>4. ASSUME NEW e \in Exchange, e <= sent' PROVE e = sent + 1 \/ (e <= sent /\ e # None)
    BY <2>1, <2>4 DEF Exchange, None
  <2>5. sent + 1 > sent
    BY <2>1
  <2>6. Latest'
    <3>1. transaction' # None => transaction' = sent' /\ ~destroyed'
      BY <2>1
    <3>2. ASSUME NEW e \in Exchange, e > sent' PROVE outcome'[e] = "none" /\ e \notin quiet'
      BY <1>1, <2>1, <2>3, <3>2 DEF Latest
    <3>3. ASSUME NEW e \in Exchange, e <= sent' PROVE outcome'[e] = "none" <=> e = transaction'
      <4>1. CASE e = sent + 1
        BY <1>1, <2>1, <2>5, <4>1 DEF Latest
      <4>2. CASE e # sent + 1
        BY <1>1, <1>2, <2>1, <2>4, <3>3, <4>2 DEF Latest, SendRequest
      <4> QED
        BY <4>1, <4>2
    <3> QED
      BY <3>1, <3>2, <3>3 DEF Latest
  <2>7. sent + 1 \notin quiet /\ outcome[sent + 1] = "none"
    BY <1>1, <2>1 DEF Latest
  <2>8. (transaction \in quiet)' => OwnBytes(transaction)'
    <3> SUFFICES ASSUME owed = {}, line = <<>>, owed' = {sent + 1} PROVE OwnBytes(transaction)'
      BY <2>1, <2>7
    <3>1. Len(reader') = 0 /\ Len(line') = 0 /\ FrameLength \in Nat
      BY <2>1, <2>2, LengthAssumption
    <3> QED
      BY <2>1, <2>2, <3>1 DEF OwnBytes
  <2>9. InStepOnQuietLine'
    BY <1>1, <2>1, <2>7 DEF InStepOnQuietLine
  <2> QED
    BY <1>1, <2>1, <2>2, <2>6, <2>8, <2>9 DEF StepKept
<1>3. CASE HandleFrameData
  <2>1. /\ transaction \in Exchange /\ eofTimer /\ transaction' = None /\ ~eofTimer'
        /\ outcome' = [outcome EXCEPT ![transaction] = Verdict(transaction, reader)]
        /\ damaged' = IF line = <<>> THEN damaged ELSE damaged \cup {transaction}
        /\ UNCHANGED <<quiet, sent>>
    BY <1>3, <1>1 DEF HandleFrameData, Ends, Inv, TypeOK, TimersGuardTransaction
  <2>2. /\ transaction = sent /\ transaction \notin {e \in Exchange : e > sent}
        /\ reader # <<>>
    BY <1>1, <2>1 DEF Latest, None, Exchange, StepKept, TypeOK
  <2>3. Verdict(transaction, reader) # "none" /\ \A e \in Exchange : e # None
    BY <2>1, VerdictType DEF Exchange, None
  <2>4. Latest'
    BY <1>1, <2>1, <2>2, <2>3 DEF Latest, TypeOK
  <2>5. ASSUME NEW e \in quiet
        PROVE  /\ outcome'[e] # "foreign"
               /\ outcome'[e] \in {"incomplete", "error"} => e \in damaged'
    <3>1. CASE e # transaction
      BY <1>1, <2>1, <2>5, <3>1 DEF InStepOnQuietLine, TypeOK
    <3>2. CASE e = transaction
      <4>1. OwnBytes(e)
        BY <2>5, <3>2 DEF StepKept
      <4>2. Len(reader) <= FrameLength /\ \A i \in 1 .. Len(reader) : reader[i] = <<e, i>>
        BY <1>1, <4>1, LengthAssumption DEF OwnBytes
      <4>3. /\ Verdict(e, reader) # "foreign"
            /\ Verdict(e, reader) \in {"incomplete", "error"} => Len(reader) < FrameLength
        BY <1>1, <2>1, <2>2, <3>2, <4>2, VerdictOfPrefix
      <4>4. e \notin owed
        BY <2>2, <4>1 DEF OwnBytes
      <4>5. Len(reader) < FrameLength => e \in damaged'
        <5>1. CASE line = <<>>
          <6>1. Len(reader) + Len(line) = Len(reader)
            BY <1>1, <5>1
          <6> QED
            BY <2>1, <4>1, <4>4, <5>1, <6>1 DEF OwnBytes
        <5>2. CASE line # <<>>
          BY <2>1, <3>2, <5>2
        <5> QED
          BY <5>1, <5>2
      <4>6. outcome'[e] = Verdict(e, reader)
        BY <1>1, <2>1, <3>2 DEF TypeOK
      <4> QED
        BY <4>3, <4>5, <4>6
    <3> QED
      BY <3>1, <3>2
  <2>6. InStepOnQuietLine'
    BY <2>1, <2>5 DEF InStepOnQuietLine
  <2>7. transaction' \notin quiet'
    BY <1>1, <2>1 DEF TypeOK, None, Exchange
  <2> QED
    BY <2>1, <2>4, <2>6, <2>7
<1>4. CASE HandleTimeout
  <2>1. /\ timeout = transaction /\ transaction \in Exchange /\ transaction' = None /\ ~eofTimer'
        /\ outcome' = [outcome EXCEPT ![transaction] = "timeout"]
        /\ UNCHANGED <<quiet, sent, damaged>>
    BY <1>4, <1>1 DEF HandleTimeout, Ends, Inv, TypeOK, TimersGuardTransaction
  <2>2. transaction = sent /\ transaction \notin {e \in Exchange : e > sent}
    BY <1>1, <2>1 DEF Latest, None, Exchange, TypeOK
  <2>3. \A e \in Exchange : e # None
    BY DEF Exchange, None
  <2>4. Latest' /\ InStepOnQuietLine'
    BY <1>1, <2>1, <2>2, <2>3 DEF Latest, InStepOnQuietLine, TypeOK
  <2>5. transaction' \notin quiet'
    BY <1>1, <2>1 DEF TypeOK, None, Exchange
  <2> QED
    BY <2>1, <2>4, <2>5
<1>5. CASE Destroy
  <2>1. /\ transaction' = None /\ ~eofTimer' /\ destroyed'
        /\ UNCHANGED <<sent, outcome, quiet, damaged>>
    BY <1>5 DEF Destroy, history
  <2>2. transaction' \notin quiet'
    BY <1>1, <2>1 DEF TypeOK, Exchange, None
  <2>3. Latest' /\ InStepOnQuietLine'
    BY <1>1, <2>1 DEF Latest, InStepOnQuietLine
  <2> QED
    BY <2>1, <2>2, <2>3
<1>6. ASSUME NEW n \in 1 .. Len(line), OnData(n)
      PROVE  /\ Latest'
             /\ (eofTimer => reader # <<>>)'
             /\ (transaction \in quiet => OwnBytes(transaction))'
             /\ InStepOnQuietLine'
  <2> DEFINE got == SubSeq(line, 1, n)
             left == SubSeq(line, n + 1, Len(line))
  <2>1. /\ line' = left /\ UNCHANGED <<transaction, timeout, destroyed, owed, sent, outcome, quiet, damaged>>
        /\ (transaction = None \/ destroyed) => UNCHANGED <<reader, eofTimer>>
        /\ ~(transaction = None \/ destroyed) => reader' = reader \o got /\ eofTimer'
    BY <1>6 DEF OnData, history
  <2>2. /\ got \in Seq(Piece) /\ left \in Seq(Piece) /\ n \in Nat /\ n >= 1 /\ n <= Len(line)
        /\ Len(got) = n /\ Len(left) = Len(line) - n
        /\ \A i \in 1 .. n : got[i] = line[i]
        /\ \A i \in 1 .. Len(line) - n : left[i] = line[n + i]
    <3>1. /\ 1 \in 1 .. Len(line) + 1 /\ n \in 0 .. Len(line) /\ n + 1 \in 1 .. Len(line) + 1
          /\ Len(line) \in 0 .. Len(line) /\ n \in Nat
      BY <1>1
    <3> QED
      BY <1>1, <3>1, PartType
  <2> HIDE DEF got, left
  <2>3. Latest' /\ InStepOnQuietLine'
    BY <1>1, <2>1 DEF Latest, InStepOnQuietLine
  <2>4. CASE transaction = None \/ destroyed
    <3>1. transaction = None /\ None \notin quiet
      BY <1>1, <2>4 DEF TypeOK, Exchange, None, Latest
    <3>2. eofTimer => reader # <<>>
      BY DEF StepKept
    <3> QED
      BY <2>1, <2>3, <2>4, <3>1, <3>2
  <2>5. CASE ~(transaction = None \/ destroyed)
    <3>1. /\ Len(reader \o got) = Len(reader) + Len(got)
          /\ \A i \in 1 .. Len(reader) + Len(got) :
               (reader \o got)[i] = IF i <= Len(reader) THEN reader[i] ELSE got[i - Len(reader)]
      <4>1. reader \in Seq(Piece) /\ got \in Seq(Piece)
        BY <1>1, <2>2
      <4> QED
        BY <4>1, ConcatProperties
    <3>2. /\ Len(reader') = Len(reader) + n
          /\ \A i \in 1 .. Len(reader) + n :
               reader'[i] = IF i <= Len(reader) THEN reader[i] ELSE got[i - Len(reader)]
      BY <2>1, <2>2, <2>5, <3>1
    <3>3. reader' # <<>>
      BY <1>1, <2>2, <3>2
    <3>4. ASSUME transaction \in quiet PROVE OwnBytes(transaction)'
      <4> DEFINE e == transaction
      <4>1. OwnBytes(e)
        BY <2>5, <3>4 DEF StepKept
      <4>2. /\ e \notin owed /\ owed \subseteq {e}
            /\ Len(reader) + Len(line) <= FrameLength
            /\ Len(reader) + Len(line) < FrameLength => e \in damaged
        BY <1>1, <2>2, <4>1 DEF OwnBytes
      <4>3. Len(reader') + Len(line') = Len(reader) + Len(line)
        BY <1>1, <2>1, <2>2, <3>2
      <4>4. ASSUME NEW i \in 1 .. Len(reader') PROVE reader'[i] = <<e, i>>
        <5>1. CASE i <= Len(reader)
          <6>1. i \in 1 .. Len(reader) /\ i \in 1 .. Len(reader) + n
            BY <1>1, <2>2, <3>2, <5>1
          <6>2. reader[i] = <<e, i>>
            BY <4>1, <6>1 DEF OwnBytes
          <6> QED
            BY <3>2, <5>1, <6>1, <6>2
        <5>2. CASE ~(i <= Len(reader))
          <6> DEFINE j == i - Len(reader)
          <6>1. j \in 1 .. n /\ j \in 1 .. Len(line) /\ Len(reader) + j = i /\ i \in 1 .. Len(reader) + n
            BY <1>1, <2>2, <3>2, <5>2
          <6> HIDE DEF j
          <6>2. reader'[i] = got[j]
            BY <3>2, <5>2, <6>1 DEF j
          <6>3. line[j] = <<e, Len(reader) + j>>
            BY <4>1, <6>1 DEF OwnBytes
          <6> QED
            BY <2>2, <6>1, <6>2, <6>3
        <5> QED
          BY <5>1, <5>2
      <4>5. ASSUME NEW i \in 1 .. Len(line') PROVE line'[i] = <<e, Len(reader') + i>>
        <5>1. i \in 1 .. Len(line) - n /\ n + i \in 1 .. Len(line)
              /\ Len(reader) + (n + i) = Len(reader') + i
          BY <1>1, <2>1, <2>2, <3>2
        <5>2. line[n + i] = <<e, Len(reader) + (n + i)>>
          BY <4>1, <5>1 DEF OwnBytes
        <5> QED
          BY <2>1, <2>2, <5>1, <5>2
      <4> QED
        BY <2>1, <4>2, <4>3, <4>4, <4>5 DEF OwnBytes
    <3> QED
      BY <2>1, <2>3, <2>5, <3>3, <3>4
  <2> QED
    BY <2>4, <2>5
<1>7. ASSUME NEW o \in owed, NEW k \in 0 .. FrameLength, SlaveAnswers(o, k)
      PROVE  /\ Latest'
             /\ (eofTimer => reader # <<>>)'
             /\ (transaction \in quiet => OwnBytes(transaction))'
             /\ InStepOnQuietLine'
  <2> DEFINE part == SubSeq(Frame(o), 1, k)
  <2>1. /\ o \in Exchange /\ owed' = owed \ {o} /\ line' = line \o part
        /\ damaged' = IF k = FrameLength THEN damaged ELSE damaged \cup {o}
        /\ UNCHANGED <<transaction, reader, eofTimer, destroyed, sent, outcome, quiet>>
    BY <1>7, <1>1 DEF SlaveAnswers, port, TypeOK
  <2>2. /\ part \in Seq(Piece) /\ Len(part) = k /\ k \in Nat /\ k <= FrameLength /\ FrameLength \in Nat
        /\ \A i \in 1 .. k : part[i] = <<o, i>>
    <3>1. /\ Frame(o) \in Seq(Piece) /\ Len(Frame(o)) = FrameLength /\ FrameLength \in Nat
          /\ 1 \in 1 .. FrameLength + 1
      BY <2>1, FrameType, FrameLen, LengthAssumption
    <3>2. /\ part \in Seq(Piece) /\ Len(part) = k
          /\ \A i \in 1 .. k : part[i] = Frame(o)[i] /\ i \in 1 .. FrameLength
      BY <3>1, PartType
    <3> QED
      BY <3>1, <3>2 DEF Frame
  <2> HIDE DEF part
  <2>3. Latest' /\ InStepOnQuietLine'
    BY <1>1, <2>1 DEF Latest, InStepOnQuietLine
  <2>4. ASSUME transaction \in quiet PROVE OwnBytes(transaction)'
    <3>1. OwnBytes(transaction)
      BY <2>4 DEF StepKept
    <3>2. o = transaction /\ reader = <<>> /\ line = <<>> /\ o \notin owed'
      BY <2>1, <3>1 DEF OwnBytes
    <3>3. line' = part /\ Len(line') = k /\ Len(reader') = 0 /\ owed' = {}
      BY <2>1, <2>2, <3>1, <3>2, ConcatEmptySeq DEF OwnBytes
    <3>4. k < FrameLength => o \in damaged'
      BY <2>1, <2>2
    <3> QED
      BY <2>1, <2>2, <3>2, <3>3, <3>4 DEF OwnBytes
  <2>5. (eofTimer => reader # <<>>)'
    BY <2>1 DEF StepKept
  <2> QED
    BY <2>1, <2>3, <2>4, <2>5
<1>8. CASE UNCHANGED vars
  <2>1. UNCHANGED <<transaction, reader, eofTimer, destroyed, line, owed, sent, outcome, quiet, damaged>>
    BY <1>8 DEF vars, port, remote, history
  <2>2. Latest' /\ InStepOnQuietLine' /\ (eofTimer => reader # <<>>)'
    BY <1>1, <2>1 DEF Latest, InStepOnQuietLine, StepKept
  <2>3. (transaction \in quiet => OwnBytes(transaction))'
    BY <2>1 DEF OwnBytes, StepKept
  <2> QED
    BY <2>2, <2>3
<1> QED
  BY <1>2, <1>3, <1>4, <1>5, <1>6, <1>7, <1>8 DEF Next, Remote

\* An exchange that began on a quiet line never takes the answer to another
\* request, and fails on its frame only when that frame was damaged, however many
\* exchanges timed out or were refused before.
THEOREM InStep == Spec => []InStepOnQuietLine
<1>1. StepKept => InStepOnQuietLine
  BY DEF StepKept
<1> QED
  BY <1>1, InitStepKept, NextStepKept, PTL DEF Spec

----------------------------------------------------------------------------
\* The contract: the steps of the transport, seen through the phases of the exchanges.
phaseBar == [e \in Exchange |-> Phase(e)]
ContractStep == Contract!Next \/ (phaseBar' = phaseBar /\ destroyed' = destroyed)

\* The contract counts with a Cardinality of its own instance, which is the same one.
LEMMA SameCardinality == ASSUME NEW S PROVE Contract!Cardinality(S) = Cardinality(S)
  BY DEF Contract!Cardinality, Cardinality

LEMMA PhaseMoves ==
    ASSUME NEW e \in Exchange, NEW to, Phase(e)' = to,
           \A u \in Exchange : u # e => Phase(u)' = Phase(u)
    PROVE  phaseBar' = [phaseBar EXCEPT ![e] = to]
  BY DEF phaseBar

\* Without a transaction no exchange is open, with one it alone is.
LEMMA PhaseOfExchange ==
    ASSUME StepKept, ~destroyed, NEW e \in Exchange
    PROVE  /\ Phase(e) = "new" <=> e > sent
           /\ Phase(e) = "open" <=> e = transaction
<1>1. /\ e \in Nat /\ sent \in Nat /\ Latest /\ e # None
      /\ transaction # None => transaction = sent
  BY DEF StepKept, Inv, TypeOK, Exchange, None, Latest
<1>2. CASE e > sent
  BY <1>1, <1>2 DEF Phase
<1>3. CASE ~(e > sent)
  BY <1>1, <1>3 DEF Phase, Latest
<1> QED
  BY <1>2, <1>3

LEMMA ExchangeEnds ==
    ASSUME StepKept, NEW e \in Exchange, e = transaction, NEW how, how # "none",
           outcome' = [outcome EXCEPT ![e] = how], UNCHANGED <<sent, destroyed>>
    PROVE  ContractStep
<1>1. ~destroyed /\ outcome \in [Exchange -> Outcome] /\ e \in Nat /\ sent \in Nat /\ e = sent
  BY DEF StepKept, Inv, TypeOK, Latest, Exchange, None
<1>2. Phase(e) = "open"
  BY <1>1, PhaseOfExchange
<1>3. Phase(e)' = "ended" /\ \A u \in Exchange : u # e => Phase(u)' = Phase(u)
  BY <1>1 DEF Phase
<1>4. phaseBar' = [phaseBar EXCEPT ![e] = "ended"] /\ phaseBar[e] = "open"
  BY <1>2, <1>3, PhaseMoves DEF phaseBar
<1> QED
  BY <1>1, <1>4 DEF ContractStep, Contract!Next, Contract!End, phaseBar

LEMMA ContractNext == StepKept /\ [Next]_vars => ContractStep
<1> SUFFICES ASSUME StepKept, [Next]_vars PROVE ContractStep
  OBVIOUS
<1>1. Inv /\ TypeOK /\ Latest
  BY DEF StepKept, Inv
<1>2. CASE SendRequest
  <2>1. /\ ~destroyed /\ transaction = None /\ sent + 1 \in Exchange /\ sent \in Nat
        /\ sent' = sent + 1 /\ UNCHANGED <<outcome, destroyed>>
    BY <1>2, <1>1 DEF SendRequest, TypeOK
  <2>2. PICK e \in Exchange : e = sent + 1
    BY <2>1
  <2>3. Phase(e) = "new" /\ Phase(e)' = "open"
    BY <1>1, <2>1, <2>2 DEF Phase, Latest
  <2>4. ASSUME NEW u \in Exchange, u # e PROVE Phase(u)' = Phase(u)
    BY <2>1, <2>2, <2>4 DEF Phase, Exchange
  <2>5. phaseBar' = [phaseBar EXCEPT ![e] = "open"] /\ phaseBar[e] = "new"
    BY <2>3, <2>4, PhaseMoves DEF phaseBar
  <2>6. Contract!Open = {}
    BY <2>1, PhaseOfExchange DEF Contract!Open, Exchange, None
  <2>7. Contract!Cardinality(Contract!Open) < 1
    BY <2>6, FS_EmptySet, SameCardinality
  <2> QED
    <3>1. Contract!Begin(e)
      BY <2>1, <2>5, <2>7 DEF Contract!Begin, phaseBar
    <3> QED
      BY <3>1 DEF ContractStep, Contract!Next
<1>3. CASE HandleFrameData
  <2>1. /\ transaction \in Exchange
        /\ outcome' = [outcome EXCEPT ![transaction] = Verdict(transaction, reader)]
        /\ UNCHANGED <<sent, destroyed>>
    BY <1>3, <1>1 DEF HandleFrameData, Ends, Inv, TypeOK, TimersGuardTransaction
  <2>2. Verdict(transaction, reader) # "none"
    BY <2>1, VerdictType
  <2> QED
    BY <2>1, <2>2, ExchangeEnds
<1>4. CASE HandleTimeout
  <2>1. /\ timeout = transaction /\ transaction \in Exchange
        /\ outcome' = [outcome EXCEPT ![transaction] = "timeout"]
        /\ UNCHANGED <<sent, destroyed>>
    BY <1>4, <1>1 DEF HandleTimeout, Ends, Inv, TypeOK, TimersGuardTransaction
  <2> QED
    BY <2>1, ExchangeEnds
<1>5. CASE Destroy
  <2>1. destroyed' = TRUE /\ UNCHANGED <<sent, outcome>>
    BY <1>5 DEF Destroy, history
  <2>2. phaseBar' = phaseBar
    BY <2>1 DEF phaseBar, Phase
  <2> QED
    BY <2>1, <2>2 DEF ContractStep, Contract!Next, Contract!Close, phaseBar
<1>6. CASE (\E n \in 1 .. Len(line) : OnData(n)) \/ Remote \/ UNCHANGED vars
  <2>1. UNCHANGED <<sent, outcome, destroyed>>
    BY <1>6 DEF OnData, Remote, SlaveAnswers, vars, port, history
  <2>2. phaseBar' = phaseBar
    BY <2>1 DEF phaseBar, Phase
  <2> QED
    BY <2>1, <2>2 DEF ContractStep
<1> QED
  BY <1>2, <1>3, <1>4, <1>5, <1>6 DEF Next

\* Each step of the transport begins an exchange while none is open, ends the open one
\* for the first and only time, closes, or is none of the contract's business.
THEOREM KeepsContract == Spec => Contract!Safety
<1>1. Init => Contract!Init
  <2> SUFFICES ASSUME Init PROVE phaseBar = [e \in Exchange |-> "new"] /\ destroyed = FALSE
    BY DEF Contract!Init, phaseBar
  <2>1. ASSUME NEW e \in Exchange PROVE Phase(e) = "new"
    BY DEF Init, Phase, Exchange
  <2> QED
    BY <2>1 DEF Init, phaseBar
<1>2. StepKept /\ [Next]_vars => [Contract!Next]_<<phaseBar, destroyed>>
  BY ContractNext DEF ContractStep
<1>3. StepKept /\ [Next]_vars => [Contract!Next]_<<[e \in Exchange |-> Phase(e)], destroyed>>
  BY <1>2 DEF phaseBar
<1> QED
  BY <1>1, <1>3, InitStepKept, NextStepKept, PTL DEF Spec, Contract!Safety

----------------------------------------------------------------------------
\* Codecs

----------------------------------------------------------------------------
\* Numbers, bits and bytes

\* A byte, without the 256 cases.
LEMMA ByteIs == \A x : x \in Byte <=> x \in Nat /\ x < 256
  BY DEF Byte

\* What is left by 256 and by 8.
LEMMA Quotients ==
    ASSUME NEW n \in Nat
    PROVE  /\ n \div 256 \in Nat /\ n % 256 \in Byte /\ n = (256 * (n \div 256)) + (n % 256)
           /\ n \div 8 \in Nat /\ n % 8 \in Nat /\ n % 8 < 8 /\ n = (8 * (n \div 8)) + (n % 8)
<1>1. /\ n \div 256 \in Int /\ n % 256 \in Int /\ 0 <= n % 256 /\ n % 256 < 256
      /\ n = (256 * (n \div 256)) + (n % 256)
  OBVIOUS
<1>2. /\ n \div 8 \in Int /\ n % 8 \in Int /\ 0 <= n % 8 /\ n % 8 < 8
      /\ n = (8 * (n \div 8)) + (n % 8)
  OBVIOUS
<1> DEFINE p == n \div 256
           q == n % 256
           r == n \div 8
           s == n % 8
<1>3. /\ p \in Int /\ q \in Int /\ 0 <= q /\ q < 256 /\ n = (256 * p) + q
      /\ r \in Int /\ s \in Int /\ 0 <= s /\ s < 8 /\ n = (8 * r) + s
  BY <1>1, <1>2
<1> HIDE DEF p, q, r, s
<1>4. p \in Nat /\ r \in Nat /\ q \in Nat /\ s \in Nat
  BY <1>3
<1>5. q \in Byte
  BY <1>3, <1>4, ByteIs
<1> QED
  BY <1>3, <1>4, <1>5 DEF p, q, r, s

\* Two bytes hold a number below 65536.
LEMMA WordTrip ==
    ASSUME NEW n \in Nat, n < 65536
    PROVE  /\ Word(n) \in Seq(Byte) /\ Len(Word(n)) = 2
           /\ (256 * Word(n)[1]) + Word(n)[2] = n
<1> DEFINE p == n \div 256
           q == n % 256
<1>1. p \in Nat /\ q \in Byte /\ n = (256 * p) + q
  BY Quotients
<1>2. Word(n) = <<p % 256, q>>
  BY DEF Word
<1> HIDE DEF p, q
<1>3. p < 256
  BY <1>1, ByteIs
<1>4. p % 256 = p
  BY <1>1, <1>3
<1>5. p \in Byte
  BY <1>1, <1>3, ByteIs
<1>6. Word(n) = <<p, q>>
  BY <1>2, <1>4
<1>7. <<p, q>> \in Seq(Byte)
  BY <1>1, <1>5
<1>8. (256 * p) + q = n
  BY <1>1
<1> QED
  BY <1>6, <1>7, <1>8

\* The bytes of n bits hold them, and less than eight more.
LEMMA Ceiling ==
    ASSUME NEW n \in Nat
    PROVE  /\ CeilDiv(n, 8) \in Nat
           /\ n <= 8 * CeilDiv(n, 8) /\ 8 * CeilDiv(n, 8) < n + 8
<1> DEFINE q == (n + 7) \div 8
           r == (n + 7) % 8
<1>1. q \in Nat /\ r \in Nat /\ r < 8 /\ n + 7 = (8 * q) + r
  BY n + 7 \in Nat, Quotients
<1>2. CeilDiv(n, 8) = q
  <2>1. n + 8 - 1 = n + 7
    OBVIOUS
  <2> QED
    BY <2>1 DEF CeilDiv
<1> HIDE DEF q, r
<1> QED
  BY <1>1, <1>2
LEMMA BitIs == ASSUME NEW bits \in Seq({0, 1}), NEW i \in Nat \ {0} PROVE Bit(bits, i) \in {0, 1}
  BY LenProperties DEF Bit

\* The bits of a byte are those it was packed from.
LEMMA PackedBits ==
    ASSUME NEW bits \in Seq({0, 1}), NEW i \in Nat
    PROVE  /\ Packed(bits, i) \in Byte
           /\ \A k \in Nat : k < 8 => (Packed(bits, i) \div Weight[1 + k]) % 2 = Bit(bits, i + (k + 1))
<1> DEFINE B1 == Bit(bits, i + 1)
           B2 == Bit(bits, i + 2)
           B3 == Bit(bits, i + 3)
           B4 == Bit(bits, i + 4)
           B5 == Bit(bits, i + 5)
           B6 == Bit(bits, i + 6)
           B7 == Bit(bits, i + 7)
           B8 == Bit(bits, i + 8)
           P == Packed(bits, i)
<1>1. /\ B1 \in {0, 1} /\ B2 \in {0, 1} /\ B3 \in {0, 1} /\ B4 \in {0, 1}
      /\ B5 \in {0, 1} /\ B6 \in {0, 1} /\ B7 \in {0, 1} /\ B8 \in {0, 1}
  <2>1. /\ i + 1 \in Nat \ {0} /\ i + 2 \in Nat \ {0} /\ i + 3 \in Nat \ {0} /\ i + 4 \in Nat \ {0}
        /\ i + 5 \in Nat \ {0} /\ i + 6 \in Nat \ {0} /\ i + 7 \in Nat \ {0} /\ i + 8 \in Nat \ {0}
    OBVIOUS
  <2> QED
    BY <2>1, BitIs
<1>2. P = B1 + 2 * B2 + 4 * B3 + 8 * B4 + 16 * B5 + 32 * B6 + 64 * B7 + 128 * B8
  BY DEF Packed
<1>3. /\ Bit(bits, i + (0 + 1)) = B1 /\ Bit(bits, i + (1 + 1)) = B2
      /\ Bit(bits, i + (2 + 1)) = B3 /\ Bit(bits, i + (3 + 1)) = B4
      /\ Bit(bits, i + (4 + 1)) = B5 /\ Bit(bits, i + (5 + 1)) = B6
      /\ Bit(bits, i + (6 + 1)) = B7 /\ Bit(bits, i + (7 + 1)) = B8
  OBVIOUS
<1> HIDE DEF B1, B2, B3, B4, B5, B6, B7, B8, P
<1>4. P \in Byte
  BY <1>1, <1>2, ByteIs
<1>5. /\ (P \div 1) % 2 = B1
      /\ (P \div 2) % 2 = B2
      /\ (P \div 4) % 2 = B3
      /\ (P \div 8) % 2 = B4
      /\ (P \div 16) % 2 = B5
      /\ (P \div 32) % 2 = B6
      /\ (P \div 64) % 2 = B7
      /\ (P \div 128) % 2 = B8
  BY <1>1, <1>2
<1>6. ASSUME NEW k \in Nat, k < 8 PROVE (P \div Weight[1 + k]) % 2 = Bit(bits, i + (k + 1))
  <2>1. CASE k = 0
    BY <1>3, <1>5, <2>1 DEF Weight
  <2>2. CASE k = 1
    BY <1>3, <1>5, <2>2 DEF Weight
  <2>3. CASE k = 2
    BY <1>3, <1>5, <2>3 DEF Weight
  <2>4. CASE k = 3
    BY <1>3, <1>5, <2>4 DEF Weight
  <2>5. CASE k = 4
    BY <1>3, <1>5, <2>5 DEF Weight
  <2>6. CASE k = 5
    BY <1>3, <1>5, <2>6 DEF Weight
  <2>7. CASE k = 6
    BY <1>3, <1>5, <2>7 DEF Weight
  <2>8. CASE k = 7
    BY <1>3, <1>5, <2>8 DEF Weight
  <2>9. k \in 0 .. 7
    BY <1>6
  <2> QED
    BY <2>1, <2>2, <2>3, <2>4, <2>5, <2>6, <2>7, <2>8, <2>9
<1> QED
  BY <1>4, <1>6 DEF P

\* What was packed is unpacked, up to the last byte.
LEMMA PushBitsType ==
    ASSUME NEW bits \in Seq({0, 1})
    PROVE  /\ PushBits(bits) \in Seq(Byte) /\ Len(PushBits(bits)) = CeilDiv(Len(bits), 8)
           /\ CeilDiv(Len(bits), 8) \in Nat
           /\ \A j \in 1 .. CeilDiv(Len(bits), 8) : PushBits(bits)[j] = Packed(bits, 8 * (j - 1))
<1> DEFINE m == CeilDiv(Len(bits), 8)
<1>1. m \in Nat
  BY LenProperties, Ceiling
<1>2. PushBits(bits) = [j \in 1 .. m |-> Packed(bits, 8 * (j - 1))]
  BY DEF PushBits
<1> HIDE DEF m
<1>3. \A j \in 1 .. m : Packed(bits, 8 * (j - 1)) \in Byte
  <2> TAKE j \in 1 .. m
  <2>1. 8 * (j - 1) \in Nat
    BY <1>1
  <2> QED
    BY <2>1, PackedBits
<1> QED
  BY <1>1, <1>2, <1>3 DEF m

\* Bits are read as they were pushed, zeros after the last one.
LEMMA BitsTrip ==
    ASSUME NEW bits \in Seq({0, 1}), NEW b, NEW at \in Nat, NEW n \in Nat,
           n <= 8 * CeilDiv(Len(bits), 8),
           \A j \in 1 .. CeilDiv(Len(bits), 8) : b[(at - 1) + j] = PushBits(bits)[j]
    PROVE  BitsAt(b, at, n) = [i \in 1 .. n |-> Bit(bits, i)]
<1> SUFFICES ASSUME NEW i \in 1 .. n
             PROVE  (b[at + ((i - 1) \div 8)] \div Weight[1 + ((i - 1) % 8)]) % 2 = Bit(bits, i)
  BY DEF BitsAt
<1> DEFINE q == (i - 1) \div 8
           r == (i - 1) % 8
           m == CeilDiv(Len(bits), 8)
<1>1. q \in Nat /\ r \in Nat /\ r < 8 /\ i - 1 = (8 * q) + r
  BY i - 1 \in Nat, Quotients
<1>2. m \in Nat /\ n <= 8 * m
  BY PushBitsType
<1>3. \A j \in 1 .. m : b[(at - 1) + j] = Packed(bits, 8 * (j - 1))
  BY PushBitsType
<1> HIDE DEF q, r, m
<1>4. /\ q + 1 \in 1 .. m /\ at + q = (at - 1) + (q + 1) /\ 8 * q = 8 * ((q + 1) - 1)
      /\ 8 * q \in Nat /\ i = (8 * q) + (r + 1)
  BY <1>1, <1>2
<1>5. b[at + q] = Packed(bits, 8 * q)
  BY <1>3, <1>4
<1>6. (Packed(bits, 8 * q) \div Weight[1 + r]) % 2 = Bit(bits, (8 * q) + (r + 1))
  <2> DEFINE first == 8 * q
  <2>1. first \in Nat
    BY <1>4
  <2> HIDE DEF first
  <2>2. \A k \in Nat : k < 8 => (Packed(bits, first) \div Weight[1 + k]) % 2 = Bit(bits, first + (k + 1))
    BY <2>1, PackedBits
  <2>3. \A k \in Nat : k < 8 => (Packed(bits, 8 * q) \div Weight[1 + k]) % 2 = Bit(bits, (8 * q) + (k + 1))
    BY <2>2 DEF first
  <2> QED
    BY <1>1, <2>3
<1> QED
  BY <1>4, <1>5, <1>6 DEF q, r

----------------------------------------------------------------------------
\* Fields

\* The bytes of a value stand at a place of a buffer that ends n bytes too early.
Stands(bytes, b, at, n) ==
    /\ bytes \in Seq(Byte) /\ b \in Seq(Byte) /\ at \in Nat \ {0} /\ n \in Nat
    /\ Len(b) + n = (at - 1) + Len(bytes) /\ at - 1 <= Len(b)
    /\ \A i \in 1 .. Len(bytes) : (at - 1) + i <= Len(b) => b[(at - 1) + i] = bytes[i]

\* A number is read as it was written, whatever comes after it, or not at all.
Width(f) == IF f.kind \in {"word", "coil"} THEN 2 ELSE 1
Limit(f) == IF f.kind = "word" THEN 65536 ELSE IF f.kind = "flags" THEN 4
            ELSE IF f.kind = "coil" THEN 2 ELSE 256
IsNumber(f) ==
    /\ f.kind \in Numeric /\ f.lo \in Nat /\ f.hi \in Nat /\ f.default \in Nat
    /\ f.hi < Limit(f)

LEMMA NumberTrip ==
    ASSUME NEW f, IsNumber(f), NEW v, v \in f.lo .. f.hi,
           NEW b \in Seq(Byte), NEW at \in Nat \ {0},
           \A i \in 1 .. Width(f) : (at - 1) + i <= Len(b) => b[(at - 1) + i] = Push(f, v)[i]
    PROVE  /\ Push(f, v) \in Seq(Byte) /\ Len(Push(f, v)) = Width(f)
           /\ Shift(f, b, at) = IF at + Width(f) <= Len(b) + 1 THEN Read(v, at + Width(f)) ELSE Thrown
<1>1. v \in Nat /\ v <= f.hi /\ f.hi \in Nat /\ f.hi < Limit(f) /\ Len(b) \in Nat
  BY LenProperties DEF IsNumber
<1>2. CASE f.kind \in {"octet", "limit", "flags"}
  <2>1. Push(f, v) = <<v>> /\ Width(f) = 1
    BY <1>2 DEF Push, OfRecords, Width
  <2>2. v \in Byte
    BY <1>1, <1>2, ByteIs DEF Limit
  <2>3. Shift(f, b, at) = IF ~Has(b, at, 1) THEN Thrown
                          ELSE IF f.kind = "flags" THEN Read(b[at] % 4, at + 1) ELSE Read(b[at], at + 1)
    BY <1>2 DEF Shift, OfRecords
  <2>4. Has(b, at, 1) <=> at <= Len(b)
    BY <1>1 DEF Has
  <2>5. at <= Len(b) => b[at] = v
    <3>1. 1 \in 1 .. Width(f) /\ (at - 1) + 1 = at /\ Push(f, v)[1] = v
      BY <2>1
    <3> QED
      BY <3>1
  <2>6. f.kind = "flags" => v % 4 = v
    BY <1>1 DEF Limit
  <2>7. at + 1 <= Len(b) + 1 <=> at <= Len(b)
    BY <1>1
  <2> QED
    BY <2>1, <2>2, <2>3, <2>4, <2>5, <2>6, <2>7
<1>3. CASE f.kind \in {"word", "coil"}
  <2>1. Width(f) = 2 /\ Shift(f, b, at) = IF ~Has(b, at, 2) THEN Thrown
                          ELSE IF f.kind = "word" THEN Read(WordAt(b, at), at + 2)
                          ELSE Read(IF WordAt(b, at) = 65280 THEN 1 ELSE 0, at + 2)
    BY <1>3 DEF Shift, OfRecords, Width
  <2>2. Has(b, at, 2) <=> at + 2 <= Len(b) + 1
    BY <1>1 DEF Has
  <2>3. at + 2 <= Len(b) + 1 => b[at] = Push(f, v)[1] /\ b[at + 1] = Push(f, v)[2]
    <3>1. /\ 1 \in 1 .. Width(f) /\ 2 \in 1 .. Width(f) /\ (at - 1) + 1 = at /\ (at - 1) + 2 = at + 1
          /\ at + 2 <= Len(b) + 1 => at <= Len(b) /\ at + 1 <= Len(b)
      BY <1>1, <2>1
    <3> QED
      BY <3>1
  <2>4. CASE f.kind = "word"
    <3>1. Push(f, v) = Word(v)
      BY <2>4 DEF Push, OfRecords
    <3>2. v < 65536
      BY <1>1, <2>4 DEF Limit
    <3>3. Push(f, v) \in Seq(Byte) /\ Len(Push(f, v)) = 2 /\ (256 * Push(f, v)[1]) + Push(f, v)[2] = v
      BY <1>1, <3>1, <3>2, WordTrip
    <3> QED
      BY <2>1, <2>2, <2>3, <2>4, <3>3 DEF WordAt
  <2>5. CASE f.kind = "coil"
    <3>1. Push(f, v) = IF v = 1 THEN <<255, 0>> ELSE <<0, 0>>
      BY <2>5 DEF Push, OfRecords
    <3>2. v \in {0, 1}
      BY <1>1, <2>5 DEF Limit
    <3>3. 255 \in Byte /\ 0 \in Byte
      BY ByteIs
    <3>4. Push(f, v) \in Seq(Byte) /\ Len(Push(f, v)) = 2
      BY <3>1, <3>3
    <3>5. (256 * Push(f, v)[1]) + Push(f, v)[2] = IF v = 1 THEN 65280 ELSE 0
      BY <3>1
    <3> QED
      BY <2>1, <2>2, <2>3, <2>5, <3>2, <3>4, <3>5 DEF WordAt
  <2> QED
    BY <1>3, <2>4, <2>5
<1> QED
  BY <1>2, <1>3 DEF Numeric, IsNumber

\* What is read from a buffer that continues a sequence is what was written.
Onwards(b, at) == SubSeq(b, at, Len(b))
Inside(v, d, n) == SubSeq(v, 1 + d, Len(v) - n)
Continues(b, from, v, d, n) ==
    /\ Len(b) + n + d = (from - 1) + Len(v)
    /\ \A i \in 1 .. Len(v) - d : (from - 1) + i <= Len(b) => b[(from - 1) + i] = v[d + i]

\* What arrived of the bytes from a place on.
LEMMA SubSeqTrip ==
    ASSUME NEW v \in Seq(Byte), NEW b \in Seq(Byte), NEW from \in Nat \ {0}, NEW d \in Nat, NEW n \in Nat,
           Continues(b, from, v, d, n)
    PROVE  Onwards(b, from) = Inside(v, d, n)
<1>1. /\ Len(b) \in Nat /\ Len(v) \in Nat /\ Len(b) + n + d = (from - 1) + Len(v)
      /\ \A i \in 1 .. Len(v) - d : (from - 1) + i <= Len(b) => b[(from - 1) + i] = v[d + i]
  BY LenProperties DEF Continues
<1> DEFINE s == SubSeq(b, from, Len(b))
           t == SubSeq(v, 1 + d, Len(v) - n)
           k == Len(b) - from + 1
<1>2. k \in Int /\ k = Len(v) - n - (1 + d) + 1 /\ from \in Int /\ 1 + d \in Int /\ Len(v) - n \in Int
  BY <1>1
<1>3. \A i \in from .. Len(b) : b[i] \in Byte
  BY <1>1, LenProperties, ElementOfSeq
<1>4. /\ s \in Seq(Byte) /\ Len(s) = IF from <= Len(b) THEN k ELSE 0
      /\ \A i \in 1 .. k : s[i] = b[from + i - 1]
  BY <1>1, <1>3, SubSeqProperties
<1>5. \A i \in 1 + d .. Len(v) - n : v[i] \in Byte
  BY <1>1, LenProperties, ElementOfSeq
<1>6. /\ t \in Seq(Byte) /\ Len(t) = IF 1 + d <= Len(v) - n THEN k ELSE 0
      /\ \A i \in 1 .. k : t[i] = v[(1 + d) + i - 1]
  BY <1>1, <1>2, <1>5, SubSeqProperties
<1>7. Len(s) = Len(t) /\ Len(s) \in Nat
  BY <1>1, <1>2, <1>4, <1>6
<1>8. ASSUME NEW i \in 1 .. Len(s) PROVE s[i] = t[i]
  <2>1. i \in 1 .. k /\ i \in Nat
    BY <1>1, <1>4, <1>7, <1>8
  <2>2. i \in 1 .. Len(v) - d /\ (from - 1) + i <= Len(b)
    BY <1>1, <1>2, <2>1
  <2>3. b[(from - 1) + i] = v[d + i]
    BY <1>1, <2>2, Zenon
  <2>4. (from - 1) + i = from + i - 1 /\ (1 + d) + i - 1 = d + i
    BY <2>1
  <2> HIDE DEF s, t, k
  <2>5. s[i] = b[from + i - 1] /\ t[i] = v[(1 + d) + i - 1]
    BY <1>4, <1>6, <2>1, Zenon
  <2> QED
    BY <2>3, <2>4, <2>5, Zenon
<1> HIDE DEF s, t
<1>9. s = t
  <2>1. s \in Seq(Byte) /\ t \in Seq(Byte)
    BY <1>4, <1>6
  <2> QED
    BY <1>7, <1>8, <2>1, SeqEqual
<1> QED
  BY <1>9 DEF s, t, Onwards, Inside

Sequences == {"counted", "registers", "states", "coils", "rest", "shifted", "generic", "identity"}
IsList(f) ==
    /\ f.kind \in Sequences \cup OfRecords
    /\ f.lo \in Nat /\ f.hi \in Nat /\ f.step \in Nat \ {0}
    /\ f.kind = "counted" => (f.step = 1 /\ f.lo <= 1) \/ f.hi < 256
    /\ f.kind = "registers" => f.hi < 256
    /\ f.kind = "states" => f.hi = 2000 /\ f.step = 1
    /\ f.kind = "coils" => f.hi < 2000
    /\ f.kind = "generic" => f.lo = 1 /\ f.step = 1
    /\ f.kind = "identity" => f.lo >= 2

\* A whole field is what Carried says, bits up to a whole byte and generic values aside.
Whole(f, v, w) ==
    \/ f.kind \notin {"counted", "shifted"} /\ w = v
    \/ f.kind \in {"counted", "shifted"} /\ w = Carried(f, v)
    \/ f.kind \in {"states", "generic"}
Arrives(f, v, read, n) ==
    /\ read.ok /\ f.kind \notin {"shifted", "registers", "coils"} => Follows(f, v, read.value, n)
    /\ n = 0 => /\ read.ok
                /\ \/ Fits(f, read.value)
                   \/ f.kind = "counted" /\ Len(v) > 255 /\ Len(v) % 256 = 0 /\ f.hi >= 256 /\ f.lo # 0
                   \/ f.kind = "generic" /\ Len(v) = 1
                /\ Whole(f, v, read.value)

LEMMA ReadIs ==
    /\ \A value, next : Read(value, next).ok /\ Read(value, next).value = value /\ Read(value, next).next = next
    /\ ~Thrown.ok
  BY DEF Read, Thrown

\* Bytes to the end of the buffer arrive as far as they did.
LEMMA RestTrip ==
    ASSUME NEW f, IsList(f), f.kind = "rest", NEW v \in Seq(Byte), Fits(f, v),
           NEW b, NEW at, NEW n, Stands(Push(f, v), b, at, n)
    PROVE  Arrives(f, v, Shift(f, b, at), n)
<1>1. Push(f, v) = v
  BY DEF Push, OfRecords
<1>2. /\ b \in Seq(Byte) /\ at \in Nat \ {0} /\ n \in Nat /\ at - 1 <= Len(b)
      /\ Len(b) + n = (at - 1) + Len(v) /\ Len(b) \in Nat /\ Len(v) \in Nat
      /\ \A i \in 1 .. Len(v) : (at - 1) + i <= Len(b) => b[(at - 1) + i] = v[i]
  BY <1>1, LenProperties DEF Stands
<1>3. Shift(f, b, at) = Read(Onwards(b, at), Len(b) + 1)
  BY <1>2 DEF Shift, OfRecords, Has, Onwards
<1>4. Onwards(b, at) = Inside(v, 0, n)
  <2>1. Continues(b, at, v, 0, n)
    BY <1>2 DEF Continues
  <2> QED
    BY <1>2, <2>1, SubSeqTrip
<1>5. n = 0 => Inside(v, 0, n) = v
  BY <1>2, SubSeqFull DEF Inside
<1>6. Follows(f, v, Inside(v, 0, n), n)
  BY DEF Follows, Numeric, Inside
<1>7. Shift(f, b, at).ok /\ Shift(f, b, at).value = Inside(v, 0, n)
  BY <1>3, <1>4, ReadIs
<1> QED
  BY <1>5, <1>6, <1>7 DEF Arrives, Whole

\* A value behind a few bytes.
Join(p, v) == p \o v

\* What stands behind a prefix.
LEMMA Behind ==
    ASSUME NEW p \in Seq(Byte), NEW v \in Seq(Byte), NEW b, NEW at, NEW n, Stands(Join(p, v), b, at, n)
    PROVE  /\ b \in Seq(Byte) /\ at \in Nat \ {0} /\ n \in Nat /\ at - 1 <= Len(b)
           /\ Len(b) \in Nat /\ Len(v) \in Nat /\ Len(p) \in Nat
           /\ at + Len(p) \in Nat \ {0} /\ Continues(b, at + Len(p), v, 0, n)
           /\ Len(b) + n = (at - 1) + Len(p) + Len(v)
           /\ \A i \in 1 .. Len(p) : (at - 1) + i <= Len(b) => b[(at - 1) + i] = p[i]
<1> DEFINE s == Join(p, v)
<1>1. /\ b \in Seq(Byte) /\ at \in Nat \ {0} /\ n \in Nat /\ at - 1 <= Len(b)
      /\ Len(b) + n = (at - 1) + Len(s)
      /\ \A i \in 1 .. Len(s) : (at - 1) + i <= Len(b) => b[(at - 1) + i] = s[i]
  BY DEF Stands
<1>2. /\ Len(p) \in Nat /\ Len(v) \in Nat /\ Len(b) \in Nat
  BY <1>1, LenProperties
<1>3. /\ Len(s) = Len(p) + Len(v)
      /\ \A i \in 1 .. Len(s) : s[i] = IF i <= Len(p) THEN p[i] ELSE v[i - Len(p)]
  BY ConcatProperties DEF Join
<1> HIDE DEF s
<1>4. ASSUME NEW i \in 1 .. Len(p), (at - 1) + i <= Len(b) PROVE b[(at - 1) + i] = p[i]
  <2>1. i \in 1 .. Len(s) /\ i <= Len(p)
    BY <1>2, <1>3
  <2>2. s[i] = p[i]
    BY <1>3, <2>1
  <2>3. b[(at - 1) + i] = s[i]
    BY <1>1, <1>4, <2>1, Zenon
  <2> QED
    BY <2>2, <2>3
<1>5. Continues(b, at + Len(p), v, 0, n)
  <2>1. Len(b) + n + 0 = ((at + Len(p)) - 1) + Len(v)
    BY <1>1, <1>2, <1>3
  <2>2. ASSUME NEW i \in 1 .. Len(v) - 0, ((at + Len(p)) - 1) + i <= Len(b)
        PROVE  b[((at + Len(p)) - 1) + i] = v[0 + i]
    <3> DEFINE j == Len(p) + i
    <3>1. /\ j \in 1 .. Len(s) /\ ~(j <= Len(p)) /\ j - Len(p) = 0 + i
          /\ (at - 1) + j <= Len(b) /\ (at - 1) + j = ((at + Len(p)) - 1) + i
      BY <1>1, <1>2, <1>3, <2>2
    <3> HIDE DEF j
    <3>2. s[j] = v[0 + i]
      BY <1>3, <3>1, Zenon
    <3>3. b[(at - 1) + j] = s[j]
      BY <1>1, <3>1, Zenon
    <3> QED
      BY <3>1, <3>2, <3>3, Zenon
  <2> QED
    BY <2>1, <2>2 DEF Continues
<1>6. at + Len(p) \in Nat \ {0} /\ Len(b) + n = (at - 1) + Len(p) + Len(v)
  BY <1>1, <1>2, <1>3
<1> QED
  BY <1>1, <1>2, <1>4, <1>5, <1>6

\* copy gives the bytes that arrived and zeros for the others.
LEMMA CopyTrip ==
    ASSUME NEW v \in Seq(Byte), NEW b \in Seq(Byte), NEW from \in Nat \ {0}, NEW n \in Nat,
           Continues(b, from, v, 0, n), NEW k \in Nat, k <= Len(v)
    PROVE  /\ Copy(b, from, k) \in Seq(Byte) /\ Len(Copy(b, from, k)) = k
           /\ \A i \in 1 .. k : Copy(b, from, k)[i] = IF i <= Len(v) - n THEN v[i] ELSE 0
           /\ k = Len(v) /\ n = 0 => Copy(b, from, k) = v
<1> DEFINE w == Copy(b, from, k)
<1>1. /\ Len(b) \in Nat /\ Len(v) \in Nat /\ Len(b) + n = (from - 1) + Len(v)
      /\ \A i \in 1 .. Len(v) - 0 : (from - 1) + i <= Len(b) => b[(from - 1) + i] = v[0 + i]
  BY LenProperties DEF Continues
<1>2. ASSUME NEW i \in 1 .. k
      PROVE  (IF from + i - 1 <= Len(b) THEN b[from + i - 1] ELSE 0) = IF i <= Len(v) - n THEN v[i] ELSE 0
  <2>1. /\ i \in 1 .. Len(v) - 0 /\ i \in 1 .. Len(v) /\ 0 + i = i /\ (from - 1) + i = from + i - 1
        /\ from + i - 1 <= Len(b) <=> i <= Len(v) - n
    BY <1>1
  <2>2. from + i - 1 <= Len(b) => b[from + i - 1] = v[i]
    BY <1>1, <2>1, Zenon
  <2> QED
    BY <2>1, <2>2
<1>3. w = [i \in 1 .. k |-> IF i <= Len(v) - n THEN v[i] ELSE 0]
  BY <1>2, Zenon DEF Copy
<1> HIDE DEF w
<1>4. \A i \in 1 .. k : (IF i <= Len(v) - n THEN v[i] ELSE 0) \in Byte
  <2>1. 0 \in Byte
    BY ByteIs
  <2>2. \A i \in 1 .. k : v[i] \in Byte
    BY <1>1, ElementOfSeq
  <2> QED
    BY <2>1, <2>2
<1>5. w \in Seq(Byte) /\ Len(w) = k
  BY <1>3, <1>4
<1>6. k = Len(v) /\ n = 0 => w = v
  <2> SUFFICES ASSUME k = Len(v), n = 0 PROVE w = v
    OBVIOUS
  <2>1. \A i \in 1 .. Len(w) : w[i] = v[i]
    BY <1>1, <1>3, <1>5
  <2> QED
    BY <1>5, <2>1, SeqEqual
<1> QED
  BY <1>3, <1>5, <1>6 DEF w

\* What stands behind a count.
LEMMA BehindOne ==
    ASSUME NEW k \in Byte, NEW v \in Seq(Byte), NEW b, NEW at, NEW n, Stands(Join(<<k>>, v), b, at, n)
    PROVE  /\ b \in Seq(Byte) /\ at \in Nat \ {0} /\ n \in Nat /\ at - 1 <= Len(b)
           /\ Len(b) \in Nat /\ Len(v) \in Nat /\ at + 1 \in Nat \ {0} /\ Continues(b, at + 1, v, 0, n)
           /\ Len(b) + n = at + Len(v)
           /\ at <= Len(b) => b[at] = k
<1>1. PICK p : p = <<k>>
  OBVIOUS
<1>2. p \in Seq(Byte)
  BY <1>1
<1>3. Len(p) = 1 /\ p[1] = k
  BY <1>1
<1>4. Stands(Join(p, v), b, at, n)
  BY <1>1
<1>5. /\ b \in Seq(Byte) /\ at \in Nat \ {0} /\ n \in Nat /\ at - 1 <= Len(b)
      /\ Len(b) \in Nat /\ Len(v) \in Nat /\ at + Len(p) \in Nat \ {0}
  BY <1>2, <1>4, Behind
<1>6. Continues(b, at + Len(p), v, 0, n)
  BY <1>2, <1>4, Behind
<1>7. Len(b) + n = (at - 1) + Len(p) + Len(v)
  BY <1>2, <1>4, Behind
<1>8. \A i \in 1 .. Len(p) : (at - 1) + i <= Len(b) => b[(at - 1) + i] = p[i]
  BY <1>2, <1>4, Behind
<1>9. (at - 1) + 1 <= Len(b) => b[(at - 1) + 1] = k
  BY <1>3, <1>8
<1>10. (at - 1) + 1 = at
  BY <1>5
<1> QED
  BY <1>3, <1>5, <1>6, <1>7, <1>9, <1>10

LEMMA One == \A x \in Byte : <<x>> \in Seq(Byte) /\ Len(<<x>>) = 1 /\ <<x>>[1] = x
  OBVIOUS

\* What the constructors demand of a list.
LEMMA FitsIs ==
    ASSUME NEW f, f.kind \in Sequences, NEW v
    PROVE  Fits(f, v) <=> Len(v) \in f.lo .. f.hi /\ Len(v) % f.step = 0
  BY DEF Fits, Sequences, Numeric, OfRecords

\* Counted bytes arrive up to their one-byte count.
LEMMA CountedTrip ==
    ASSUME NEW f, IsList(f), f.kind = "counted", NEW v \in Seq(Byte), Fits(f, v),
           NEW b, NEW at, NEW n, Stands(Push(f, v), b, at, n)
    PROVE  Arrives(f, v, Shift(f, b, at), n)
<1> DEFINE k == Len(v) % 256
           w == Copy(b, at + 1, b[at])
<1>1. Len(v) \in Nat /\ k \in Byte /\ k \in Nat /\ k < 256 /\ k <= Len(v) /\ (Len(v) < 256 => k = Len(v))
  <2>1. Len(v) \in Nat
    BY LenProperties
  <2> QED
    BY <2>1, Quotients, ByteIs
<1> HIDE DEF k
<1>2. Push(f, v) = <<k>> \o v
  BY DEF Push, OfRecords, k
<1>3. /\ b \in Seq(Byte) /\ at \in Nat \ {0} /\ n \in Nat /\ at - 1 <= Len(b)
      /\ Len(b) \in Nat /\ at + 1 \in Nat \ {0} /\ Continues(b, at + 1, v, 0, n)
      /\ Len(b) + n = at + Len(v)
      /\ at <= Len(b) => b[at] = k
  <2>1. Stands(Join(<<k>>, v), b, at, n)
    BY <1>2 DEF Join
  <2> QED
    BY <1>1, <2>1, BehindOne
<1>4. (Has(b, at, 1) <=> at <= Len(b)) /\ (n = 0 => at <= Len(b))
  BY <1>1, <1>3 DEF Has
<1>5. Shift(f, b, at) = IF Has(b, at, 1) THEN Read(w, at + 1 + b[at]) ELSE Thrown
  BY DEF Shift, OfRecords
<1>6. SUFFICES ASSUME at <= Len(b) PROVE Arrives(f, v, Read(w, at + 1 + b[at]), n)
  BY <1>4, <1>5, ReadIs DEF Arrives
<1>7. w = Copy(b, at + 1, k)
  BY <1>3, <1>4, <1>6
<1> HIDE DEF w
<1>8. /\ w \in Seq(Byte) /\ Len(w) = k
      /\ \A i \in 1 .. k : w[i] = IF i <= Len(v) - n THEN v[i] ELSE 0
      /\ k = Len(v) /\ n = 0 => w = v
  <2>1. Continues(b, at + 1, v, 0, n) /\ at + 1 \in Nat \ {0} /\ b \in Seq(Byte) /\ n \in Nat
    BY <1>3
  <2>2. k \in Nat /\ k <= Len(v)
    BY <1>1
  <2> DEFINE from == at + 1
  <2> HIDE DEF from
  <2> QED
    BY <1>7, <2>1, <2>2, CopyTrip
<1>9. Follows(f, v, w, n)
  <2>1. DOMAIN w = 1 .. k
    BY <1>8, LenProperties
  <2>2. \A i \in DOMAIN w : w[i] = IF i <= Len(v) - n THEN v[i] ELSE 0
    BY <1>8, <2>1, Zenon
  <2>3. Len(w) = Len(v) % 256
    BY <1>8 DEF k
  <2> QED
    BY <2>2, <2>3 DEF Follows, Numeric
<1>10. n = 0 => Fits(f, w) \/ (Len(v) > 255 /\ k = 0 /\ f.hi >= 256 /\ f.lo # 0)
  <2>1. CASE Len(v) < 256
    <3>1. n = 0 => w = v
      BY <1>1, <1>8, <2>1
    <3> QED
      BY <3>1
  <2>2. CASE Len(v) >= 256
    <3>1. f.hi >= 256 /\ f.hi \in Nat /\ f.lo \in Nat
      BY <1>1, <2>2 DEF Fits, Numeric, OfRecords, IsList
    <3>2. f.lo <= 1 /\ f.step = 1
      BY <3>1 DEF IsList
    <3>3. CASE f.lo = 0 \/ k # 0
      <4>1. k \in f.lo .. f.hi /\ k % 1 = 0
        BY <1>1, <3>1, <3>2, <3>3
      <4> QED
        BY <1>8, <3>2, <4>1, FitsIs DEF Sequences
    <3> QED
      BY <1>1, <2>2, <3>1, <3>3
  <2> QED
    BY <1>1, <2>1, <2>2
<1>11. n = 0 => w = SubSeq(v, 1, k)
  <2> SUFFICES ASSUME n = 0 PROVE w = SubSeq(v, 1, k)
    OBVIOUS
  <2>1. SubSeq(v, 1, k) = [i \in 1 .. k |-> v[i]]
    BY <1>1
  <2>2. \A i \in 1 .. k : v[i] \in Byte
    BY <1>1, ElementOfSeq
  <2>3. SubSeq(v, 1, k) \in Seq(Byte) /\ Len(SubSeq(v, 1, k)) = k
    BY <1>1, <2>1, <2>2
  <2>4. \A i \in 1 .. k : w[i] = v[i]
    BY <1>1, <1>8
  <2>5. \A i \in 1 .. Len(w) : w[i] = SubSeq(v, 1, k)[i]
    BY <1>8, <2>1, <2>4
  <2> QED
    BY <1>8, <2>3, <2>5, SeqEqual
<1>12. n = 0 => Whole(f, v, w)
  BY <1>11 DEF Whole, Carried, k
<1>13. k = 0 => Len(v) % 256 = 0
  BY DEF k
<1> QED
  BY <1>9, <1>10, <1>12, <1>13, ReadIs DEF Arrives

\* The identity of a slave is read to the end of the buffer.
LEMMA IdentityTrip ==
    ASSUME NEW f, IsList(f), f.kind = "identity", NEW v \in Seq(Byte), Fits(f, v),
           NEW b, NEW at, NEW n, Stands(Push(f, v), b, at, n)
    PROVE  Arrives(f, v, Shift(f, b, at), n)
<1> DEFINE k == (Len(v) - 2) % 256
<1>1. Len(v) \in Nat /\ Len(v) - 2 \in Nat
  BY LenProperties DEF Fits, IsList, Numeric, OfRecords
<1>2. k \in Byte
  BY <1>1, Quotients
<1> HIDE DEF k
<1>3. Push(f, v) = <<k>> \o v
  BY DEF Push, OfRecords, k
<1>4. /\ b \in Seq(Byte) /\ at \in Nat \ {0} /\ n \in Nat /\ at - 1 <= Len(b)
      /\ Len(b) \in Nat /\ at + 1 \in Nat \ {0} /\ Continues(b, at + 1, v, 0, n)
      /\ Len(b) + n = at + Len(v)
  <2>1. Stands(Join(<<k>>, v), b, at, n)
    BY <1>3 DEF Join
  <2> QED
    BY <1>2, <2>1, BehindOne
<1>5. n = 0 => Has(b, at, 1)
  BY <1>1, <1>4 DEF Has
<1>6. Shift(f, b, at) = IF Has(b, at, 1) THEN Read(Onwards(b, at + 1), Len(b) + 1) ELSE Thrown
  BY DEF Shift, OfRecords, Onwards
<1>7. Onwards(b, at + 1) = Inside(v, 0, n)
  BY <1>4, SubSeqTrip
<1>8. n = 0 => Inside(v, 0, n) = v
  BY <1>1, SubSeqFull DEF Inside
<1>9. Follows(f, v, Inside(v, 0, n), n)
  BY DEF Follows, Numeric, Inside
<1> QED
  BY <1>5, <1>6, <1>7, <1>8, <1>9, ReadIs DEF Arrives, Whole

\* The values of a command lose their first byte.
LEMMA ShiftedTrip ==
    ASSUME NEW f, IsList(f), f.kind = "shifted", NEW v \in Seq(Byte), Fits(f, v),
           NEW b, NEW at, NEW n, Stands(Push(f, v), b, at, n)
    PROVE  Arrives(f, v, Shift(f, b, at), n)
<1>1. Push(f, v) = v
  BY DEF Push, OfRecords
<1>2. /\ b \in Seq(Byte) /\ at \in Nat \ {0} /\ n \in Nat /\ at - 1 <= Len(b)
      /\ Len(b) + n = (at - 1) + Len(v) /\ Len(b) \in Nat /\ Len(v) \in Nat
  BY <1>1, LenProperties DEF Stands
<1> DEFINE w == Copy(b, at + 1, Len(b) - at + 1)
<1>3. Shift(f, b, at) = Read(w, Len(b) + 1)
  BY <1>2 DEF Shift, OfRecords, Has
<1>4. n = 0 => Len(w) = Len(v) /\ w = [i \in 1 .. Len(v) |-> Bit(v, i + 1)]
  <2> DEFINE k == Len(b) - at + 1
  <2>1. k \in Nat /\ (n = 0 => k = Len(v))
    BY <1>2
  <2> HIDE DEF k
  <2>2. w = [i \in 1 .. k |-> IF (at + 1) + i - 1 <= Len(b) THEN b[(at + 1) + i - 1] ELSE 0]
    BY DEF Copy, k
  <2> HIDE DEF w
  <2>3. Len(w) = k
    BY <2>1, <2>2
  <2>4. ASSUME n = 0, NEW i \in 1 .. k
        PROVE  (IF (at + 1) + i - 1 <= Len(b) THEN b[(at + 1) + i - 1] ELSE 0) = Bit(v, i + 1)
    <3>1. /\ k = Len(v) /\ (at + 1) + i - 1 = (at - 1) + (i + 1)
          /\ ((at - 1) + (i + 1) <= Len(b) <=> i + 1 <= Len(v))
      BY <1>2, <2>1, <2>4
    <3>2. i + 1 <= Len(v) => i + 1 \in 1 .. Len(v)
      BY <1>2, <2>1
    <3>3. i + 1 <= Len(v) => b[(at - 1) + (i + 1)] = v[i + 1]
      BY <1>1, <3>1, <3>2, Zenon DEF Stands
    <3>4. PICK j : j = (at - 1) + (i + 1)
      BY Zenon
    <3>5. Bit(v, i + 1) = IF i + 1 <= Len(v) THEN v[i + 1] ELSE 0
      BY DEF Bit
    <3>6. /\ j = (at + 1) + i - 1 /\ (j <= Len(b) <=> i + 1 <= Len(v))
          /\ i + 1 <= Len(v) => b[j] = v[i + 1]
      BY <3>1, <3>3, <3>4, Zenon
    <3> QED
      BY <3>5, <3>6, Zenon
  <2>5. n = 0 => w = [i \in 1 .. k |-> Bit(v, i + 1)]
    BY <2>2, <2>4, Zenon
  <2> QED
    BY <2>1, <2>3, <2>5
<1> HIDE DEF w
<1>5. n = 0 => Fits(f, w)
  BY <1>4 DEF Fits, Numeric, OfRecords
<1>6. n = 0 => Whole(f, v, w)
  BY <1>4 DEF Whole, Carried
<1> QED
  BY <1>3, <1>5, <1>6, ReadIs DEF Arrives

\* A generic response loses its first value.
LEMMA GenericTrip ==
    ASSUME NEW f, IsList(f), f.kind = "generic", NEW v \in Seq(Byte), Fits(f, v),
           NEW b, NEW at, NEW n, Stands(Push(f, v), b, at, n)
    PROVE  Arrives(f, v, Shift(f, b, at), n)
<1>1. v # <<>> /\ Len(v) \in Nat /\ Len(v) > 0 /\ f.lo = 1 /\ f.hi \in Nat /\ f.step = 1
      /\ Len(v) <= f.hi
  BY LenProperties DEF Fits, IsList, Numeric, OfRecords
<1> DEFINE t == Tail(v)
<1>2. /\ t \in Seq(Byte) /\ Len(t) = Len(v) - 1 /\ \A i \in 1 .. Len(t) : t[i] = v[i + 1]
  BY <1>1, HeadTailProperties
<1> HIDE DEF t
<1>3. Push(f, v) = t
  BY DEF Push, OfRecords, t
<1>4. /\ b \in Seq(Byte) /\ at \in Nat \ {0} /\ n \in Nat /\ at - 1 <= Len(b)
      /\ Len(b) + n = (at - 1) + Len(t) /\ Len(b) \in Nat
      /\ \A i \in 1 .. Len(t) : (at - 1) + i <= Len(b) => b[(at - 1) + i] = t[i]
  BY <1>3, LenProperties DEF Stands
<1>5. Continues(b, at, v, 1, n)
  <2>1. Len(b) + n + 1 = (at - 1) + Len(v)
    BY <1>1, <1>2, <1>4
  <2>2. ASSUME NEW i \in 1 .. Len(v) - 1, (at - 1) + i <= Len(b) PROVE b[(at - 1) + i] = v[1 + i]
    <3>1. i \in 1 .. Len(t) /\ 1 + i = i + 1
      BY <1>2, <2>2
    <3> QED
      BY <1>2, <1>4, <2>2, <3>1, Zenon
  <2> QED
    BY <2>1, <2>2 DEF Continues
<1>6. Onwards(b, at) = Inside(v, 1, n)
  BY <1>4, <1>5, SubSeqTrip
<1>7. Shift(f, b, at) = Read(Inside(v, 1, n), Len(b) + 1)
  BY <1>4, <1>6 DEF Shift, OfRecords, Has, Onwards
<1>8. Follows(f, v, Inside(v, 1, n), n)
  BY DEF Follows, Numeric, Inside
<1>9. n = 0 => Fits(f, Inside(v, 1, n)) \/ Len(v) = 1
  <2>1. Len(v) > 1 \/ Len(v) = 1
    <3> DEFINE l == Len(v)
    <3>1. l \in Nat /\ l > 0
      BY <1>1
    <3> HIDE DEF l
    <3>2. l > 1 \/ l = 1
      BY <3>1
    <3> QED
      BY <3>2 DEF l
  <2> SUFFICES ASSUME n = 0, Len(v) > 1 PROVE Fits(f, Inside(v, 1, n))
    BY <2>1
  <2> DEFINE w == Inside(v, 1, n)
  <2>2. Inside(v, 1, n) = SubSeq(v, 2, Len(v))
    BY <1>1 DEF Inside
  <2>3. \A i \in 2 .. Len(v) : v[i] \in Byte
    BY <1>1, ElementOfSeq
  <2>4. Len(w) = Len(v) - 1
    BY <1>1, <2>2, <2>3, SubSeqProperties
  <2> HIDE DEF w
  <2>5. Len(w) \in f.lo .. f.hi /\ Len(w) % f.step = 0
    BY <1>1, <2>4
  <2>6. Fits(f, w)
    BY <2>5 DEF Fits, Numeric, OfRecords
  <2> QED
    BY <2>6 DEF w
<1> QED
  BY <1>7, <1>8, <1>9, ReadIs DEF Arrives, Whole

WordSized(l) == l \in Nat /\ l < 65536

\* What stands behind two counts.
LEMMA BehindThree ==
    ASSUME NEW l, WordSized(l), NEW k \in Byte, NEW v \in Seq(Byte), NEW b, NEW at,
           NEW n, n = 0, Stands(Join(Word(l) \o <<k>>, v), b, at, n)
    PROVE  /\ b \in Seq(Byte) /\ at \in Nat \ {0}
           /\ Len(b) \in Nat /\ Len(v) \in Nat /\ at + 3 \in Nat \ {0} /\ Continues(b, at + 3, v, 0, 0)
           /\ Len(b) = at + 2 + Len(v)
           /\ WordAt(b, at) = l /\ b[at + 2] = k
<1>1. PICK a : a = Word(l)
  OBVIOUS
<1>2. a \in Seq(Byte) /\ Len(a) = 2 /\ (256 * a[1]) + a[2] = l
  BY <1>1, WordTrip DEF WordSized
<1>3. PICK c : c = <<k>>
  OBVIOUS
<1>4. c \in Seq(Byte) /\ Len(c) = 1 /\ c[1] = k
  BY <1>3, One
<1>5. PICK p : p = a \o c
  BY Zenon
<1>6. a \in Seq(Byte) /\ c \in Seq(Byte)
  BY <1>2, <1>4
<1>7. p \in Seq(Byte) /\ Len(p) = 3
  <2>1. a \o c \in Seq(Byte) /\ Len(a \o c) = Len(a) + Len(c)
    BY <1>6, ConcatProperties
  <2> QED
    BY <1>2, <1>4, <1>5, <2>1
<1>8. p \in Seq(Byte)
  BY <1>7
<1>9. Len(p) = 3 /\ p[1] = a[1] /\ p[2] = a[2] /\ p[3] = k
  <2>1. \A i \in 1 .. Len(a) + Len(c) : p[i] = IF i <= Len(a) THEN a[i] ELSE c[i - Len(a)]
    <3>1. \A i \in 1 .. Len(a) + Len(c) : (a \o c)[i] = IF i <= Len(a) THEN a[i] ELSE c[i - Len(a)]
      BY <1>6, ConcatProperties
    <3> QED
      BY <1>5, <3>1, Zenon
  <2> QED
    BY <1>2, <1>4, <1>7, <2>1
<1>10. Stands(Join(p, v), b, at, n)
  BY <1>1, <1>3, <1>5, Zenon
<1>11. /\ b \in Seq(Byte) /\ at \in Nat \ {0}
      /\ Len(b) \in Nat /\ Len(v) \in Nat /\ at + Len(p) \in Nat \ {0}
  BY <1>8, <1>10, Behind
<1>12. Continues(b, at + Len(p), v, 0, n)
  BY <1>8, <1>10, Behind
<1>13. Len(b) + n = (at - 1) + Len(p) + Len(v)
  BY <1>8, <1>10, Behind
<1>14. \A i \in 1 .. Len(p) : (at - 1) + i <= Len(b) => b[(at - 1) + i] = p[i]
  BY <1>8, <1>10, Behind
<1>15. Len(b) = at + 2 + Len(v)
  BY <1>9, <1>11, <1>13
<1>16. b[at] = a[1] /\ b[at + 1] = a[2] /\ b[at + 2] = k
  <2>1. 1 \in 1 .. Len(p) /\ 2 \in 1 .. Len(p) /\ 3 \in 1 .. Len(p)
    BY <1>9
  <2>2. /\ (at - 1) + 1 <= Len(b) /\ (at - 1) + 2 <= Len(b) /\ (at - 1) + 3 <= Len(b)
        /\ (at - 1) + 1 = at /\ (at - 1) + 2 = at + 1 /\ (at - 1) + 3 = at + 2
    BY <1>11, <1>15
  <2>3. b[(at - 1) + 1] = p[1] /\ b[(at - 1) + 2] = p[2] /\ b[(at - 1) + 3] = p[3]
    <3>1. b[(at - 1) + 1] = p[1]
      BY <1>14, <2>1, <2>2
    <3>2. b[(at - 1) + 2] = p[2]
      BY <1>14, <2>1, <2>2
    <3>3. b[(at - 1) + 3] = p[3]
      BY <1>14, <2>1, <2>2
    <3> QED
      BY <3>1, <3>2, <3>3
  <2> QED
    BY <1>9, <2>2, <2>3
<1> QED
  BY <1>2, <1>9, <1>11, <1>12, <1>15, <1>16 DEF WordAt

\* Registers arrive when all bytes did.
LEMMA RegistersTrip ==
    ASSUME NEW f, IsList(f), f.kind = "registers", NEW v \in Seq(Byte), Fits(f, v),
           NEW b, NEW at, NEW n, Stands(Push(f, v), b, at, n)
    PROVE  Arrives(f, v, Shift(f, b, at), n)
<1> SUFFICES ASSUME n = 0 PROVE Arrives(f, v, Shift(f, b, at), n)
  BY DEF Arrives
<1> DEFINE l == Len(v) \div 2
           k == Len(v) % 256
           w == Copy(b, at + 3, b[at + 2])
<1>1. Len(v) \in Nat /\ Len(v) < 256
  BY LenProperties, FitsIs DEF IsList, Sequences
<1>2. k = Len(v) /\ k \in Byte /\ l \in Nat /\ l < 65536
  BY <1>1, ByteIs
<1> HIDE DEF l, k
<1>3. Push(f, v) = (Word(l) \o <<k>>) \o v
  <2>1. Push(f, v) = Word(l) \o <<k>> \o v
    BY DEF Push, OfRecords, l, k
  <2> QED
    BY <2>1
<1>4. /\ b \in Seq(Byte) /\ at \in Nat \ {0}
      /\ Len(b) \in Nat /\ Len(v) \in Nat /\ at + 3 \in Nat \ {0} /\ Continues(b, at + 3, v, 0, 0)
      /\ Len(b) = at + 2 + Len(v)
      /\ b[at + 2] = k
  <2>1. Stands(Join(Word(l) \o <<k>>, v), b, at, n)
    BY <1>3 DEF Join
  <2> QED
    BY <1>2, <2>1, BehindThree DEF WordSized
<1>5. Has(b, at, 3)
  BY <1>1, <1>4 DEF Has
<1>6. Shift(f, b, at) = Read(w, at + 3 + b[at + 2])
  BY <1>5 DEF Shift, OfRecords
<1>7. w = Copy(b, at + 3, k)
  BY <1>4
<1> HIDE DEF w
<1>8. w = v
  BY <1>1, <1>2, <1>4, <1>7, CopyTrip
<1> QED
  BY <1>6, <1>8, ReadIs DEF Arrives, Whole

\* No bit is added or changed.
LEMMA Bits ==
    ASSUME NEW v \in Seq({0, 1}), NEW w, w = [i \in 1 .. Len(v) |-> Bit(v, i)]
    PROVE  w = v
<1>1. Len(v) \in Nat
  BY LenProperties
<1>2. w = [i \in 1 .. Len(v) |-> v[i]]
  <2>1. \A i \in 1 .. Len(v) : Bit(v, i) = v[i]
    BY <1>1 DEF Bit
  <2> QED
    BY <2>1
<1> QED
  BY <1>1, <1>2

\* The bytes of the bits are there when nothing is missing.
LEMMA BitsStand ==
    ASSUME NEW v \in Seq({0, 1}), NEW b \in Seq(Byte), NEW at \in Nat \ {0}, NEW n \in Nat,
           Continues(b, at, PushBits(v), 0, 0), n <= 8 * CeilDiv(Len(v), 8)
    PROVE  BitsAt(b, at, n) = [i \in 1 .. n |-> Bit(v, i)]
<1> DEFINE m == CeilDiv(Len(v), 8)
           s == PushBits(v)
<1>1. s \in Seq(Byte) /\ Len(s) = m /\ m \in Nat /\ Len(b) \in Nat
  BY PushBitsType, LenProperties
<1>2. /\ Len(b) + 0 + 0 = (at - 1) + Len(s)
      /\ \A i \in 1 .. Len(s) - 0 : (at - 1) + i <= Len(b) => b[(at - 1) + i] = s[0 + i]
  BY DEF Continues
<1> HIDE DEF m, s
<1>3. ASSUME NEW j \in 1 .. m PROVE b[(at - 1) + j] = s[j]
  <2>1. j \in 1 .. Len(s) - 0 /\ (at - 1) + j <= Len(b) /\ 0 + j = j
    BY <1>1, <1>2
  <2> QED
    BY <1>2, <2>1, Zenon
<1>4. \A j \in 1 .. CeilDiv(Len(v), 8) : b[(at - 1) + j] = PushBits(v)[j]
  BY <1>3, Zenon DEF m, s
<1> QED
  BY <1>4, BitsTrip, Zenon

\* Coils arrive when all bytes did.
LEMMA CoilsTrip ==
    ASSUME NEW f, IsList(f), f.kind = "coils", NEW v \in Seq({0, 1}), Fits(f, v),
           NEW b, NEW at, NEW n, Stands(Push(f, v), b, at, n)
    PROVE  Arrives(f, v, Shift(f, b, at), n)
<1> SUFFICES ASSUME n = 0 PROVE Arrives(f, v, Shift(f, b, at), n)
  BY DEF Arrives
<1> DEFINE l == Len(v)
           m == CeilDiv(l, 8)
           k == m % 256
           w == BitsAt(b, at + 3, WordAt(b, at))
<1>1. l \in Nat /\ l < 2000
  BY LenProperties, FitsIs DEF IsList, Sequences
<1>2. PushBits(v) \in Seq(Byte) /\ Len(PushBits(v)) = m /\ m \in Nat /\ l <= 8 * m /\ 8 * m < l + 8
  BY PushBitsType, Ceiling, <1>1
<1>3. k = m /\ k \in Byte
  <2> HIDE DEF m, l
  <2>1. m \in Nat /\ m < 256
    BY <1>1, <1>2
  <2> QED
    BY <2>1, ByteIs
<1>4. Push(f, v) = (Word(l) \o <<k>>) \o PushBits(v)
  <2>1. Push(f, v) = Word(l) \o <<k>> \o PushBits(v)
    BY DEF Push, OfRecords
  <2> QED
    BY <2>1
<1> HIDE DEF m, k, l
<1>5. /\ b \in Seq(Byte) /\ at \in Nat \ {0}
      /\ Len(b) \in Nat /\ at + 3 \in Nat \ {0} /\ Continues(b, at + 3, PushBits(v), 0, 0)
      /\ Len(b) = at + 2 + m
      /\ WordAt(b, at) = l
  <2>1. Stands(Join(Word(l) \o <<k>>, PushBits(v)), b, at, 0)
    BY <1>4 DEF Join
  <2>2. WordSized(l)
    BY <1>1 DEF WordSized
  <2> QED
    BY <1>2, <1>3, <2>1, <2>2, BehindThree
<1>6. Has(b, at, 2) /\ Has(b, at + 3, m)
  BY <1>2, <1>5 DEF Has
<1>7. Shift(f, b, at) = Read(w, at + 3 + m)
  <2>1. CeilDiv(WordAt(b, at), 8) = m
    BY <1>5 DEF m
  <2> QED
    BY <1>6, <2>1 DEF Shift, OfRecords
<1>8. w = [i \in 1 .. l |-> Bit(v, i)]
  <2>1. l <= 8 * CeilDiv(Len(v), 8)
    BY <1>2 DEF m, l
  <2> QED
    BY <1>1, <1>5, <2>1, BitsStand
<1> HIDE DEF w
<1>9. w = v
  BY <1>8, Bits DEF l
<1> QED
  BY <1>7, <1>9, ReadIs DEF Arrives, Whole

\* States arrive up to a whole byte or are refused.
LEMMA StatesTrip ==
    ASSUME NEW f, IsList(f), f.kind = "states", NEW v \in Seq({0, 1}), Fits(f, v),
           NEW b, NEW at, NEW n, Stands(Push(f, v), b, at, n)
    PROVE  Arrives(f, v, Shift(f, b, at), n)
<1> DEFINE l == Len(v)
           m == CeilDiv(l, 8)
           k == m % 256
           w == BitsAt(b, at + 1, 8 * b[at])
<1>1. l \in Nat /\ f.lo \in Nat /\ f.lo <= l /\ l <= 2000 /\ f.hi = 2000 /\ f.step = 1
  BY LenProperties, FitsIs DEF IsList, Sequences
<1>2. PushBits(v) \in Seq(Byte) /\ Len(PushBits(v)) = m /\ m \in Nat /\ l <= 8 * m /\ 8 * m < l + 8
  BY PushBitsType, Ceiling, <1>1
<1>3. k = m /\ k \in Byte
  <2> HIDE DEF m, l
  <2>1. m \in Nat /\ m < 256
    BY <1>1, <1>2
  <2> QED
    BY <2>1, ByteIs
<1>4. Push(f, v) = <<k>> \o PushBits(v)
  BY DEF Push, OfRecords
<1> HIDE DEF m, k, l
<1>5. /\ b \in Seq(Byte) /\ at \in Nat \ {0} /\ n \in Nat
      /\ Len(b) \in Nat /\ at + 1 \in Nat \ {0} /\ Continues(b, at + 1, PushBits(v), 0, n)
      /\ Len(b) + n = at + m
      /\ at <= Len(b) => b[at] = m
  <2>1. Stands(Join(<<k>>, PushBits(v)), b, at, n)
    BY <1>4 DEF Join
  <2> QED
    BY <1>2, <1>3, <2>1, BehindOne
<1>6. (Has(b, at, 1) <=> at <= Len(b)) /\ (Has(b, at + 1, m) <=> n = 0) /\ (n = 0 => at <= Len(b))
  BY <1>2, <1>5 DEF Has
<1>7. Shift(f, b, at) = IF Has(b, at, 1) /\ Has(b, at + 1, b[at]) THEN Read(w, at + 1 + b[at]) ELSE Thrown
  BY DEF Shift, OfRecords
<1>8. CASE n # 0
  <2>1. Shift(f, b, at) = Thrown
    BY <1>5, <1>6, <1>7, <1>8
  <2> QED
    BY <1>8, <2>1, ReadIs DEF Arrives
<1>9. CASE n = 0
  <2>1. Shift(f, b, at) = Read(w, at + 1 + m)
    BY <1>5, <1>6, <1>7, <1>9
  <2>2. w = BitsAt(b, at + 1, 8 * m)
    BY <1>5, <1>6, <1>9
  <2>3. w = [i \in 1 .. 8 * m |-> Bit(v, i)]
    <3>1. 8 * m <= 8 * CeilDiv(Len(v), 8) /\ 8 * m \in Nat
      BY <1>2 DEF m, l
    <3> QED
      BY <1>5, <1>9, <2>2, <3>1, BitsStand
  <2> HIDE DEF w
  <2>4. Len(w) = 8 * m /\ DOMAIN w = 1 .. 8 * m
    BY <1>2, <2>3
  <2>5. Follows(f, v, w, n)
    <3>1. Padded(v, w)
      BY <2>3, <2>4 DEF Padded
    <3>2. Len(w) = 8 * CeilDiv(Len(v), 8)
      BY <2>4 DEF m, l
    <3> QED
      BY <1>9, <3>1, <3>2 DEF Follows, Numeric
  <2>6. Fits(f, w)
    <3>1. 8 * m \in f.lo .. f.hi /\ (8 * m) % f.step = 0
      BY <1>1, <1>2
    <3> QED
      BY <2>4, <3>1, FitsIs DEF Sequences
  <2> QED
    BY <2>1, <2>5, <2>6, ReadIs DEF Arrives, Whole
<1> QED
  BY <1>8, <1>9

----------------------------------------------------------------------------
\* Lists of file records

\* A set that 0 is in and, with a number, the next one.
LEMMA NatSetInduction ==
    ASSUME NEW S, 0 \in S, \A n \in Nat : n \in S => n + 1 \in S
    PROVE  Nat \subseteq S
<1> DEFINE T == Nat \ S
           R == OpToRel(<, Nat)
<1> SUFFICES ASSUME T # {} PROVE FALSE
  OBVIOUS
<1>1. IsWellFoundedOn(R, Nat)
  BY NatLessThanWellFounded DEF OpToRel
<1>2. T \subseteq Nat
  OBVIOUS
<1> HIDE DEF R
<1>3. PICK x \in T : \A y \in T : <<y, x>> \notin R
  <2> HIDE DEF T
  <2> QED BY <1>1, <1>2, WFMin, Zenon
<1>4. x \in Nat /\ x # 0 /\ x - 1 \in Nat /\ (x - 1) + 1 = x
  OBVIOUS
<1>5. x - 1 \in T
  BY <1>4
<1>6. <<x - 1, x>> \in R
  BY <1>4 DEF R, OpToRel
<1> QED BY <1>3, <1>5, <1>6

\* The first k sequences, each behind those before it.
Joins(s, k, g) == g = [i \in 1 .. k |-> IF i = 1 THEN s[i] ELSE g[i - 1] \o s[i]]

\* The first k of some sequences can be joined.
LEMMA JoinsExist ==
    ASSUME NEW s, NEW k \in Nat
    PROVE  \E g : Joins(s, k, g)
<1> DEFINE S == {m \in Nat : \E g : Joins(s, m, g)}
<1>1. 0 \in S
  <2> DEFINE g0 == [i \in 1 .. 0 |-> s[1]]
  <2>1. g0 = [i \in 1 .. 0 |-> IF i = 1 THEN s[i] ELSE g0[i - 1] \o s[i]]
    OBVIOUS
  <2>2. Joins(s, 0, g0)
    BY <2>1 DEF Joins
  <2> QED
    BY <2>2
<1>2. ASSUME NEW m \in Nat, m \in S PROVE m + 1 \in S
  <2>1. PICK g : Joins(s, m, g)
    BY <1>2
  <2> DEFINE last == IF m = 0 THEN s[1] ELSE g[m] \o s[m + 1]
  <2> HIDE DEF last
  <2> DEFINE h == [i \in 1 .. m + 1 |-> IF i = m + 1 THEN last ELSE g[i]]
  <2>2. g = [i \in 1 .. m |-> IF i = 1 THEN s[i] ELSE g[i - 1] \o s[i]]
    BY <2>1, Zenon DEF Joins
  <2>3. ASSUME NEW i \in 1 .. m + 1
        PROVE  (IF i = m + 1 THEN last ELSE g[i]) = IF i = 1 THEN s[i] ELSE h[i - 1] \o s[i]
    <3>1. CASE i = m + 1
      <4>1. CASE m = 0
        BY <3>1, <4>1 DEF last
      <4>2. CASE m # 0
        <5>1. i # 1 /\ i - 1 = m /\ m \in 1 .. m + 1 /\ m # m + 1
          BY <3>1, <4>2
        <5>2. h[m] = g[m]
          BY <5>1
        <5> HIDE DEF h
        <5>3. last = g[m] \o s[m + 1]
          BY <4>2, Zenon DEF last
        <5> QED
          BY <3>1, <5>1, <5>2, <5>3, Zenon
      <4> QED
        BY <4>1, <4>2
    <3>2. CASE i # m + 1
      <4>1. i \in 1 .. m
        BY <3>2
      <4>2. g[i] = IF i = 1 THEN s[i] ELSE g[i - 1] \o s[i]
        <5> DEFINE G(j) == IF j = 1 THEN s[j] ELSE g[j - 1] \o s[j]
        <5>1. g = [j \in 1 .. m |-> G(j)]
          BY <2>2, Zenon
        <5> HIDE DEF G
        <5>2. g[i] = G(i)
          BY <4>1, <5>1
        <5> QED
          BY <5>2, Zenon DEF G
      <4>3. i # 1 => h[i - 1] = g[i - 1]
        BY <4>1
      <4> HIDE DEF h
      <4> QED
        BY <3>2, <4>2, <4>3
    <3> QED
      BY <3>1, <3>2
  <2>4. Joins(s, m + 1, h)
    BY <2>3, Zenon DEF Joins
  <2> QED
    BY <2>4
<1>3. Nat \subseteq S
  <2> HIDE DEF S
  <2> QED
    BY <1>1, <1>2, NatSetInduction, Zenon
<1> QED
  BY <1>3

\* FlattenSeq joins them one after another.
LEMMA FlattenJoins ==
    ASSUME NEW s, NEW N, N = Len(s), N \in Nat, N # 0
    PROVE  \E g : Joins(s, N, g) /\ FlattenSeq(s) = g[N]
<1> DEFINE flatten[i \in 1 .. Len(s)] == IF i = 1 THEN s[i] ELSE flatten[i - 1] \o s[i]
<1>1. FlattenSeq(s) = flatten[Len(s)]
  BY Zenon DEF FlattenSeq
<1>2. PICK g : Joins(s, Len(s), g)
  BY JoinsExist
<1>3. g = [i \in 1 .. Len(s) |-> IF i = 1 THEN s[i] ELSE g[i - 1] \o s[i]]
  BY <1>2, Zenon DEF Joins
<1>4. flatten = [i \in 1 .. Len(s) |-> IF i = 1 THEN s[i] ELSE flatten[i - 1] \o s[i]]
  BY <1>3, Zenon
<1> HIDE DEF flatten
<1>5. Joins(s, Len(s), flatten)
  BY <1>4, Zenon DEF Joins
<1> QED
  BY <1>1, <1>5, Zenon

\* The first k sequences stand in F one behind the other, the i-th from O[i] on.
Places(s, k, F, O) ==
    /\ F \in Seq(Byte) /\ O[1] = 0 /\ O[k + 1] = Len(F)
    /\ \A i \in 1 .. k + 1 : O[i] \in Nat
    /\ \A i \in 1 .. k : O[i + 1] = O[i] + Len(s[i])
    /\ \A i \in 1 .. k : O[i + 1] <= Len(F)
    /\ \A i \in 1 .. k : \A j \in 1 .. Len(s[i]) : F[O[i] + j] = s[i][j]

\* One sequence more finds its place behind the others.
LEMMA PlacesGrow ==
    ASSUME NEW s, NEW k \in Nat, NEW F, NEW O, Places(s, k, F, O),
           \A i \in 1 .. k + 1 : s[i] \in Seq(Byte)
    PROVE  \E P : Places(s, k + 1, F \o s[k + 1], P)
<1>1. PICK t : t = s[k + 1]
  BY Zenon
<1>2. PICK H : H = F \o t
  BY Zenon
<1>3. F \in Seq(Byte) /\ t \in Seq(Byte)
  BY <1>1 DEF Places
<1>4. Len(F) \in Nat /\ Len(t) \in Nat
  BY <1>3, LenProperties
<1>5. H \in Seq(Byte) /\ Len(H) = Len(F) + Len(t)
  <2>1. F \o t \in Seq(Byte) /\ Len(F \o t) = Len(F) + Len(t)
    BY <1>3, ConcatProperties
  <2> QED
    BY <1>2, <2>1
<1>6. \A i \in 1 .. Len(F) + Len(t) : H[i] = IF i <= Len(F) THEN F[i] ELSE t[i - Len(F)]
  <2>1. \A i \in 1 .. Len(F) + Len(t) : (F \o t)[i] = IF i <= Len(F) THEN F[i] ELSE t[i - Len(F)]
    BY <1>3, ConcatProperties
  <2> QED
    BY <1>2, <2>1, Zenon
<1>7. PICK P : P = [i \in 1 .. k + 2 |-> IF i = k + 2 THEN Len(H) ELSE O[i]]
  BY Zenon
<1>8. P[k + 2] = Len(H) /\ \A i \in 1 .. k + 1 : P[i] = O[i]
  BY <1>7
<1>9. /\ O[1] = 0 /\ O[k + 1] = Len(F)
      /\ \A i \in 1 .. k + 1 : O[i] \in Nat
      /\ \A i \in 1 .. k : O[i + 1] = O[i] + Len(s[i])
      /\ \A i \in 1 .. k : O[i + 1] <= Len(F)
      /\ \A i \in 1 .. k : \A j \in 1 .. Len(s[i]) : F[O[i] + j] = s[i][j]
  BY DEF Places
<1>10. P[1] = 0 /\ P[(k + 1) + 1] = Len(H) /\ P[k + 1] = Len(F)
  <2>1. 1 \in 1 .. k + 1 /\ k + 1 \in 1 .. k + 1 /\ (k + 1) + 1 = k + 2
    OBVIOUS
  <2> QED
    BY <1>8, <1>9, <2>1
<1>11. \A i \in 1 .. (k + 1) + 1 : P[i] \in Nat
  <2> TAKE i \in 1 .. (k + 1) + 1
  <2>1. CASE i = k + 2
    BY <1>4, <1>5, <1>8, <2>1
  <2>2. CASE i # k + 2
    <3>1. i \in 1 .. k + 1
      BY <2>2
    <3> QED
      BY <1>8, <1>9, <3>1
  <2> QED
    BY <2>1, <2>2
<1>12. ASSUME NEW i \in 1 .. k + 1
       PROVE  P[i + 1] = P[i] + Len(s[i]) /\ P[i + 1] <= Len(H)
  <2>1. CASE i = k + 1
    <3>1. P[i + 1] = Len(H) /\ P[i] = Len(F) /\ s[i] = t
      BY <1>1, <1>10, <2>1
    <3> QED
      BY <1>4, <1>5, <3>1
  <2>2. CASE i # k + 1
    <3>1. i \in 1 .. k /\ i + 1 \in 1 .. k + 1 /\ i \in 1 .. k + 1
      BY <2>2
    <3>2. P[i + 1] = O[i + 1] /\ P[i] = O[i]
      BY <1>8, <3>1
    <3>3. O[i + 1] = O[i] + Len(s[i]) /\ O[i + 1] <= Len(F) /\ O[i + 1] \in Nat
      BY <1>9, <3>1
    <3> QED
      BY <1>4, <1>5, <3>2, <3>3
  <2> QED
    BY <2>1, <2>2
<1>13. ASSUME NEW i \in 1 .. k + 1, NEW j \in 1 .. Len(s[i])
       PROVE  H[P[i] + j] = s[i][j]
  <2>1. Len(s[i]) \in Nat
    BY LenProperties
  <2>2. CASE i = k + 1
    <3>1. P[i] = Len(F) /\ s[i] = t
      BY <1>1, <1>10, <2>2
    <3>2. j \in 1 .. Len(t)
      BY <3>1
    <3> DEFINE m == Len(F) + j
    <3>3. m \in 1 .. Len(F) + Len(t) /\ ~(m <= Len(F)) /\ m - Len(F) = j
      BY <1>4, <3>2
    <3> HIDE DEF m
    <3>4. H[m] = t[j]
      BY <1>6, <3>3, Zenon
    <3> QED
      BY <3>1, <3>4 DEF m
  <2>3. CASE i # k + 1
    <3>1. i \in 1 .. k /\ i + 1 \in 1 .. k + 1 /\ i \in 1 .. k + 1
      BY <2>3
    <3>2. P[i] = O[i]
      BY <1>8, <3>1
    <3>3. O[i + 1] = O[i] + Len(s[i]) /\ O[i + 1] <= Len(F) /\ O[i] \in Nat
      BY <1>9, <3>1
    <3> DEFINE m == O[i] + j
    <3>4. m \in 1 .. Len(F) + Len(t) /\ m <= Len(F)
      BY <1>4, <2>1, <3>3, <1>13
    <3>5. F[m] = s[i][j]
      BY <1>9, <3>1, <1>13, Zenon
    <3> HIDE DEF m
    <3>6. H[m] = F[m]
      BY <1>6, <3>4, Zenon
    <3> QED
      BY <3>2, <3>5, <3>6 DEF m
  <2> QED
    BY <2>2, <2>3
<1>14. Places(s, k + 1, H, P)
  <2>1. \A i \in 1 .. k + 1 : \A j \in 1 .. Len(s[i]) : H[P[i] + j] = s[i][j]
    BY <1>13
  <2>2. \A i \in 1 .. k + 1 : P[i + 1] = P[i] + Len(s[i])
    BY <1>12
  <2>3. \A i \in 1 .. k + 1 : P[i + 1] <= Len(H)
    BY <1>12, Zenon
  <2> QED
    BY <1>5, <1>10, <1>11, <2>1, <2>2, <2>3, Zenon DEF Places
<1> QED
  BY <1>1, <1>2, <1>14, Zenon

\* In a flattened sequence each part has its place.
LEMMA FlattenPlaces ==
    ASSUME NEW s, s \in Seq(Seq(Byte))
    PROVE  \E O : Places(s, Len(s), FlattenSeq(s), O)
<1>1. Len(s) \in Nat /\ \A i \in 1 .. Len(s) : s[i] \in Seq(Byte)
  BY LenProperties, ElementOfSeq
<1>2. PICK N : N = Len(s)
  OBVIOUS
<1>3. N \in Nat
  BY <1>1, <1>2
<1>4. \E O : Places(s, 0, <<>>, O)
  <2>1. PICK O : O = [i \in 1 .. 1 |-> 0]
    BY Zenon
  <2>2. <<>> \in Seq(Byte) /\ Len(<<>>) = 0
    BY EmptySeq
  <2>3. O[1] = 0
    BY <2>1
  <2>4. Places(s, 0, <<>>, O)
    BY <2>2, <2>3 DEF Places
  <2> QED
    BY <2>4
<1>5. CASE N = 0
  <2>1. FlattenSeq(s) = s
    BY <1>2, <1>5, Zenon DEF FlattenSeq
  <2>2. s = <<>>
    BY <1>2, <1>5, EmptySeq, Zenon
  <2> QED
    BY <1>4, <1>2, <1>5, <2>1, <2>2, Zenon
<1>6. CASE N # 0
  <2>1. PICK g : Joins(s, N, g) /\ FlattenSeq(s) = g[N]
    BY <1>2, <1>3, <1>6, FlattenJoins, Zenon
  <2>2. g = [i \in 1 .. N |-> IF i = 1 THEN s[i] ELSE g[i - 1] \o s[i]]
    BY <2>1, Zenon DEF Joins
  <2> DEFINE S == {m \in Nat : m + 1 <= N => \E O : Places(s, m + 1, g[m + 1], O)}
  <2>3. ASSUME NEW i \in 1 .. N PROVE g[i] = IF i = 1 THEN s[i] ELSE g[i - 1] \o s[i]
    <3> DEFINE G(j) == IF j = 1 THEN s[j] ELSE g[j - 1] \o s[j]
    <3>1. g = [j \in 1 .. N |-> G(j)]
      BY <2>2, Zenon
    <3> HIDE DEF G
    <3>2. g[i] = G(i)
      BY <3>1
    <3> QED
      BY <3>2, Zenon DEF G
  <2>4. 0 \in S
    <3>1. 1 \in 1 .. N /\ 0 + 1 = 1
      BY <1>3, <1>6
    <3>2. g[1] = s[1] /\ s[1] \in Seq(Byte)
      BY <1>1, <1>2, <2>3, <3>1
    <3>3. <<>> \o s[1] = s[1]
      BY <3>2, ConcatEmptySeq
    <3>4. \A i \in 1 .. 0 + 1 : s[i] \in Seq(Byte)
      BY <3>2
    <3>5. PICK O : Places(s, 0, <<>>, O)
      BY <1>4
    <3>6. \E P : Places(s, 0 + 1, <<>> \o s[0 + 1], P)
      BY <3>4, <3>5, 0 \in Nat, PlacesGrow, Zenon
    <3>7. \E P : Places(s, 0 + 1, g[0 + 1], P)
      BY <3>1, <3>2, <3>3, <3>6
    <3> QED
      BY <3>7
  <2>5. ASSUME NEW m \in Nat, m \in S PROVE m + 1 \in S
    <3> SUFFICES ASSUME (m + 1) + 1 <= N PROVE \E O : Places(s, (m + 1) + 1, g[(m + 1) + 1], O)
      OBVIOUS
    <3> DEFINE l == m + 1
    <3>1. l \in Nat /\ l + 1 \in 1 .. N /\ l + 1 # 1 /\ (l + 1) - 1 = l /\ l <= N
      BY <1>3
    <3>2. PICK O : Places(s, l, g[l], O)
      BY <2>5, <3>1
    <3> HIDE DEF l
    <3>3. \A i \in 1 .. l + 1 : s[i] \in Seq(Byte)
      BY <1>1, <1>2, <1>3, <3>1
    <3>4. g[l + 1] = g[l] \o s[l + 1]
      <4>1. g[l + 1] = IF l + 1 = 1 THEN s[l + 1] ELSE g[(l + 1) - 1] \o s[l + 1]
        BY <2>3, <3>1, Zenon
      <4> QED
        BY <3>1, <4>1, Zenon
    <3>5. \E P : Places(s, l + 1, g[l] \o s[l + 1], P)
      BY <3>1, <3>2, <3>3, PlacesGrow
    <3> QED
      BY <3>4, <3>5, Zenon DEF l
  <2>6. Nat \subseteq S
    <3> HIDE DEF S
    <3> QED
      BY <2>4, <2>5, NatSetInduction, Zenon
  <2>7. N - 1 \in Nat /\ (N - 1) + 1 = N /\ N <= N
    BY <1>3, <1>6
  <2>8. \E O : Places(s, N, g[N], O)
    BY <2>6, <2>7
  <2> QED
    BY <1>2, <2>1, <2>8
<1> QED
  BY <1>5, <1>6

\* The ranges of the fields of a file record, without their cases.
LEMMA Ranges ==
    \A x : /\ x \in FileNumber <=> x \in Nat /\ 1 <= x /\ x <= 65535
           /\ x \in RecordNumber <=> x \in Nat /\ x <= 9999
           /\ x \in ReadLength <=> x \in Nat /\ 1 <= x /\ x <= 120
           /\ x \in DataLength <=> x \in Nat /\ 2 <= x /\ x <= 240
<1> TAKE x
<1>1. x \in FileNumber <=> x \in Nat /\ 1 <= x /\ x <= 65535
  <2>1. PICK m : m = 65535
    OBVIOUS
  <2>2. FileNumber = 1 .. m /\ m \in Int
    BY <2>1 DEF FileNumber
  <2>3. x \in FileNumber <=> x \in Int /\ 1 <= x /\ x <= m
    BY <2>2
  <2> QED
    BY <2>1, <2>3
<1>2. x \in RecordNumber <=> x \in Nat /\ x <= 9999
  <2>1. PICK m : m = 9999
    OBVIOUS
  <2>2. RecordNumber = 0 .. m /\ m \in Int
    BY <2>1 DEF RecordNumber
  <2>3. x \in RecordNumber <=> x \in Int /\ 0 <= x /\ x <= m
    BY <2>2
  <2> QED
    BY <2>1, <2>3
<1>3. x \in ReadLength <=> x \in Nat /\ 1 <= x /\ x <= 120
  BY DEF ReadLength
<1>4. x \in DataLength <=> x \in Nat /\ 2 <= x /\ x <= 240
  BY DEF DataLength
<1> QED
  BY <1>1, <1>2, <1>3, <1>4

\* The bytes of a word, named.
LEMMA WordBytes ==
    ASSUME NEW n, WordSized(n), NEW p, NEW q, Word(n) = <<p, q>>
    PROVE  p \in Byte /\ q \in Byte /\ (256 * p) + q = n
<1>1. PICK w : w = Word(n)
  BY Zenon
<1>2. w \in Seq(Byte) /\ Len(w) = 2 /\ (256 * w[1]) + w[2] = n
  BY <1>1, WordTrip DEF WordSized
<1>3. 1 \in 1 .. Len(w) /\ 2 \in 1 .. Len(w)
  BY <1>2
<1>4. w[1] \in Byte /\ w[2] \in Byte
  <2>1. w \in Seq(Byte)
    BY <1>2
  <2> QED
    BY <1>3, <2>1, ElementOfSeq
<1>5. w = <<p, q>>
  BY <1>1
<1>6. w[1] = p /\ w[2] = q
  BY <1>5
<1> QED
  BY <1>2, <1>4, <1>6

\* The fields of the seven bytes at the head of a record.
IsHeader(h, file, record, x) ==
    /\ h \in Seq(Byte) /\ Len(h) = 7 /\ h[1] = 6
    /\ WordAt(h, 2) = file /\ WordAt(h, 4) = record /\ WordAt(h, 6) = x

\* A byte and three pairs.
LEMMA SevenBytes ==
    ASSUME NEW S, NEW x \in S, NEW a \in S, NEW b \in S, NEW c \in S, NEW d \in S, NEW e \in S, NEW f \in S,
           NEW h, h = <<x>> \o <<a, b>> \o <<c, d>> \o <<e, f>>
    PROVE  /\ h \in Seq(S) /\ Len(h) = 7 /\ h[1] = x /\ h[2] = a /\ h[3] = b /\ h[4] = c
           /\ h[5] = d /\ h[6] = e /\ h[7] = f
  OBVIOUS

\* The seven bytes before the data of a file record.
LEMMA RecordHeader ==
    ASSUME NEW file, NEW record, NEW x, WordSized(file), WordSized(record), WordSized(x)
    PROVE  IsHeader(<<6>> \o Word(file) \o Word(record) \o Word(x), file, record, x)
<1>1. PICK a, b : Word(file) = <<a, b>>
  BY DEF Word
<1>2. PICK c, d : Word(record) = <<c, d>>
  BY DEF Word
<1>3. PICK e, f : Word(x) = <<e, f>>
  BY DEF Word
<1>4. a \in Byte /\ b \in Byte /\ (256 * a) + b = file
  BY <1>1, WordBytes
<1>5. c \in Byte /\ d \in Byte /\ (256 * c) + d = record
  BY <1>2, WordBytes
<1>6. e \in Byte /\ f \in Byte /\ (256 * e) + f = x
  BY <1>3, WordBytes
<1>7. PICK h : h = <<6>> \o Word(file) \o Word(record) \o Word(x)
  BY Zenon
<1>8. h = <<6>> \o <<a, b>> \o <<c, d>> \o <<e, f>>
  BY <1>1, <1>2, <1>3, <1>7, Zenon
<1>9. 6 \in Byte
  BY ByteIs
<1>10. a \in Byte /\ b \in Byte /\ c \in Byte /\ d \in Byte /\ e \in Byte /\ f \in Byte
  BY <1>4, <1>5, <1>6
<1>11. /\ h \in Seq(Byte) /\ Len(h) = 7 /\ h[1] = 6 /\ h[2] = a /\ h[3] = b /\ h[4] = c
       /\ h[5] = d /\ h[6] = e /\ h[7] = f
  BY <1>8, <1>9, <1>10, SevenBytes
<1>12. IsHeader(h, file, record, x)
  BY <1>4, <1>5, <1>6, <1>11 DEF IsHeader, WordAt
<1> QED
  BY <1>7, <1>12, Zenon

\* The bytes of c are in b from p on, as far as b goes.
Here(c, b, p) == \A j \in 1 .. Len(c) : (p - 1) + j <= Len(b) => b[(p - 1) + j] = c[j]

LEMMA JoinIs ==
    ASSUME NEW h \in Seq(Byte), NEW d \in Seq(Byte)
    PROVE  Join(h, d) \in Seq(Byte) /\ Len(Join(h, d)) = Len(h) + Len(d)
  BY ConcatProperties DEF Join

\* Where two sequences stand one behind the other.
LEMMA HereJoin ==
    ASSUME NEW h \in Seq(Byte), NEW d \in Seq(Byte), NEW b \in Seq(Byte), NEW p \in Nat \ {0},
           Here(Join(h, d), b, p)
    PROVE  Here(h, b, p) /\ Here(d, b, p + Len(h))
<1>1. PICK s : s = Join(h, d)
  BY Zenon
<1>2. Len(h) \in Nat /\ Len(d) \in Nat /\ Len(b) \in Nat
  BY LenProperties
<1>3. Len(s) = Len(h) + Len(d)
  BY <1>1, JoinIs
<1>4. \A i \in 1 .. Len(h) + Len(d) : s[i] = IF i <= Len(h) THEN h[i] ELSE d[i - Len(h)]
  <2>1. \A i \in 1 .. Len(h) + Len(d) : (h \o d)[i] = IF i <= Len(h) THEN h[i] ELSE d[i - Len(h)]
    BY ConcatProperties
  <2> QED
    BY <1>1, <2>1, Zenon DEF Join
<1>5. \A j \in 1 .. Len(s) : (p - 1) + j <= Len(b) => b[(p - 1) + j] = s[j]
  BY <1>1, Zenon DEF Here
<1>6. ASSUME NEW j \in 1 .. Len(h), (p - 1) + j <= Len(b) PROVE b[(p - 1) + j] = h[j]
  <2>1. j \in 1 .. Len(h) + Len(d) /\ j \in 1 .. Len(s) /\ j <= Len(h)
    BY <1>2, <1>3
  <2> QED
    BY <1>4, <1>5, <1>6, <2>1, Zenon
<1>7. ASSUME NEW j \in 1 .. Len(d), ((p + Len(h)) - 1) + j <= Len(b)
      PROVE  b[((p + Len(h)) - 1) + j] = d[j]
  <2> DEFINE i == Len(h) + j
  <2>1. /\ i \in 1 .. Len(h) + Len(d) /\ i \in 1 .. Len(s) /\ ~(i <= Len(h)) /\ i - Len(h) = j
        /\ (p - 1) + i = ((p + Len(h)) - 1) + j /\ (p - 1) + i <= Len(b)
    BY <1>2, <1>3, <1>7
  <2> HIDE DEF i
  <2>2. s[i] = d[j]
    BY <1>4, <2>1, Zenon
  <2>3. b[(p - 1) + i] = s[i]
    BY <1>5, <2>1, Zenon
  <2> QED
    BY <2>1, <2>2, <2>3, Zenon
<1> QED
  BY <1>6, <1>7, Zenon DEF Here

LEMMA HereAt ==
    ASSUME NEW c, NEW b \in Seq(Byte), NEW p \in Nat \ {0}, Here(c, b, p), Len(c) \in Nat,
           NEW i \in Nat, i < Len(c), p + i <= Len(b)
    PROVE  b[p + i] = c[i + 1]
<1> DEFINE j == i + 1
<1>1. Len(b) \in Nat
  BY LenProperties
<1>2. j \in 1 .. Len(c) /\ (p - 1) + j = p + i /\ (p - 1) + j <= Len(b)
  BY <1>1
<1> HIDE DEF j
<1>3. b[(p - 1) + j] = c[j]
  BY <1>2, Zenon DEF Here
<1> QED
  BY <1>2, <1>3, Zenon DEF j

\* The numbers of a file record are read as they were pushed.
LEMMA HeaderRead ==
    ASSUME NEW file, NEW record, NEW x, NEW h, IsHeader(h, file, record, x),
           NEW b \in Seq(Byte), NEW p \in Nat \ {0}, Here(h, b, p), p + 6 <= Len(b)
    PROVE  /\ b[p] = 6 /\ WordAt(b, p + 1) = file /\ WordAt(b, p + 3) = record /\ WordAt(b, p + 5) = x
<1>1. Len(b) \in Nat
  BY LenProperties
<1>2. Len(h) = 7 /\ Len(h) \in Nat
  BY DEF IsHeader
<1>3. ASSUME NEW i \in Nat, i < 7 PROVE b[p + i] = h[i + 1]
  <2>1. i < Len(h) /\ p + i <= Len(b)
    BY <1>1, <1>2, <1>3
  <2> QED
    BY <1>2, <2>1, HereAt, Zenon
<1>4. /\ b[p + 0] = h[0 + 1] /\ b[p + 1] = h[1 + 1] /\ b[p + 2] = h[2 + 1] /\ b[p + 3] = h[3 + 1]
      /\ b[p + 4] = h[4 + 1] /\ b[p + 5] = h[5 + 1] /\ b[p + 6] = h[6 + 1]
  <2>1. b[p + 0] = h[0 + 1]
    <3>1. 0 \in Nat /\ 0 < 7
      OBVIOUS
    <3> QED
      BY <1>3, <3>1, Zenon
  <2>2. b[p + 1] = h[1 + 1]
    <3>1. 1 \in Nat /\ 1 < 7
      OBVIOUS
    <3> QED
      BY <1>3, <3>1, Zenon
  <2>3. b[p + 2] = h[2 + 1]
    <3>1. 2 \in Nat /\ 2 < 7
      OBVIOUS
    <3> QED
      BY <1>3, <3>1, Zenon
  <2>4. b[p + 3] = h[3 + 1]
    <3>1. 3 \in Nat /\ 3 < 7
      OBVIOUS
    <3> QED
      BY <1>3, <3>1, Zenon
  <2>5. b[p + 4] = h[4 + 1]
    <3>1. 4 \in Nat /\ 4 < 7
      OBVIOUS
    <3> QED
      BY <1>3, <3>1, Zenon
  <2>6. b[p + 5] = h[5 + 1]
    <3>1. 5 \in Nat /\ 5 < 7
      OBVIOUS
    <3> QED
      BY <1>3, <3>1, Zenon
  <2>7. b[p + 6] = h[6 + 1]
    <3>1. 6 \in Nat /\ 6 < 7
      OBVIOUS
    <3> QED
      BY <1>3, <3>1, Zenon
  <2> QED
    BY <2>1, <2>2, <2>3, <2>4, <2>5, <2>6, <2>7
<1>5. /\ b[p] = h[1] /\ b[p + 1] = h[2] /\ b[p + 2] = h[3] /\ b[p + 3] = h[4]
      /\ b[p + 4] = h[5] /\ b[p + 5] = h[6] /\ b[p + 6] = h[7]
  BY <1>4
<1>6. (p + 1) + 1 = p + 2 /\ (p + 3) + 1 = p + 4 /\ (p + 5) + 1 = p + 6
  OBVIOUS
<1>7. /\ h[1] = 6
      /\ (256 * h[2]) + h[3] = file /\ (256 * h[4]) + h[5] = record /\ (256 * h[6]) + h[7] = x
  BY DEF IsHeader, WordAt
<1> QED
  BY <1>5, <1>6, <1>7 DEF WordAt

Slice(b, q, last) == SubSeq(b, q, last)

LEMMA SliceRead ==
    ASSUME NEW d \in Seq(Byte), NEW b \in Seq(Byte), NEW q \in Nat \ {0}, NEW last \in Nat,
           Here(d, b, q), last = (q - 1) + Len(d), last <= Len(b)
    PROVE  Slice(b, q, last) = d
<1>1. Len(b) \in Nat /\ Len(d) \in Nat /\ last - q + 1 = Len(d) /\ q \in Int /\ last \in Int
  BY LenProperties
<1>2. \A i \in q .. last : b[i] \in Byte
  BY <1>1, ElementOfSeq
<1>3. PICK w : w = SubSeq(b, q, last)
  BY Zenon
<1>4. /\ SubSeq(b, q, last) \in Seq(Byte)
      /\ Len(SubSeq(b, q, last)) = IF q <= last THEN last - q + 1 ELSE 0
      /\ \A i \in 1 .. last - q + 1 : SubSeq(b, q, last)[i] = b[q + i - 1]
  BY <1>1, <1>2, SubSeqProperties
<1>5. /\ w \in Seq(Byte) /\ Len(w) = IF q <= last THEN last - q + 1 ELSE 0
      /\ \A i \in 1 .. last - q + 1 : w[i] = b[q + i - 1]
  BY <1>3, <1>4, Zenon
<1>6. Len(w) = Len(d)
  BY <1>1, <1>5
<1>7. ASSUME NEW i \in 1 .. Len(d) PROVE w[i] = d[i]
  <2>1. i \in 1 .. last - q + 1 /\ q + i - 1 = (q - 1) + i /\ (q - 1) + i <= Len(b)
    BY <1>1
  <2>2. w[i] = b[q + i - 1]
    BY <1>5, <2>1, Zenon
  <2>3. b[(q - 1) + i] = d[i]
    BY <2>1, Zenon DEF Here
  <2> QED
    BY <2>1, <2>2, <2>3, Zenon
<1>8. w \in Seq(Byte)
  BY <1>5
<1>9. w = d
  BY <1>6, <1>7, <1>8, SeqEqual
<1> QED
  BY <1>3, <1>9, Zenon DEF Slice

SubOk(kind, s) == kind \in OfRecords /\ s \in FileRecord(kind) /\ SubFits(kind, s)

\* A record is read when all of it is there; part of one is an error.
SubRead(kind, s, b, p) ==
    LET c == PushSub(kind, s)
    IN  /\ c \in Seq(Byte) /\ Len(c) \in Nat /\ Len(c) > 0
        /\ Here(c, b, p) /\ p <= Len(b) =>
            ShiftSub(kind, b, p) = IF p + Len(c) <= Len(b) + 1 THEN Read(s, p + Len(c)) ELSE Thrown

\* A file record is its four fields.
LEMMA SubIs ==
    ASSUME NEW kind \in OfRecords, NEW s \in FileRecord(kind)
    PROVE  /\ s = Sub(s.file, s.record, s.length, s.data)
           /\ kind = "reads" => s.length \in Nat /\ s.data = <<>>
           /\ kind # "reads" => s.data \in Seq(Byte) /\ s.length = 0
           /\ kind = "data" => s.file = 0 /\ s.record = 0
  BY DEF OfRecords, FileRecord, Sub

\* A record to read is read as it was pushed, or not at all.
LEMMA ReadsTrip ==
    ASSUME NEW s, SubOk("reads", s), NEW b \in Seq(Byte), NEW p \in Nat \ {0}
    PROVE  SubRead("reads", s, b, p)
<1>1. "reads" \in OfRecords /\ s \in FileRecord("reads") /\ SubFits("reads", s)
  BY DEF SubOk
<1>2. s = Sub(s.file, s.record, s.length, <<>>)
  BY <1>1, SubIs
<1>3. WordSized(s.file) /\ WordSized(s.record) /\ WordSized(s.length)
  <2>1. s.file \in FileNumber /\ s.record \in RecordNumber /\ s.length \in ReadLength
    BY <1>1 DEF SubFits
  <2> QED
    BY <2>1, Ranges DEF WordSized
<1>4. PICK c : c = PushSub("reads", s)
  BY Zenon
<1>5. c = <<6>> \o Word(s.file) \o Word(s.record) \o Word(s.length)
  BY <1>4 DEF PushSub
<1>6. IsHeader(c, s.file, s.record, s.length)
  BY <1>3, <1>5, RecordHeader
<1>7. c \in Seq(Byte) /\ Len(c) = 7
  BY <1>6 DEF IsHeader
<1>8. Len(b) \in Nat
  BY LenProperties
<1>9. ASSUME Here(c, b, p), p <= Len(b)
      PROVE  ShiftSub("reads", b, p) = IF p + 7 <= Len(b) + 1 THEN Read(s, p + 7) ELSE Thrown
  <2>1. Has(b, p, 7) <=> p + 7 <= Len(b) + 1
    BY <1>8 DEF Has
  <2>2. ShiftSub("reads", b, p) =
            IF ~Has(b, p, 7) \/ b[p] # 6 THEN Thrown
            ELSE Read(Sub(WordAt(b, p + 1), WordAt(b, p + 3), WordAt(b, p + 5), <<>>), p + 7)
    BY DEF ShiftSub
  <2>3. CASE Has(b, p, 7)
    <3>1. p + 6 <= Len(b)
      BY <1>8, <2>1, <2>3
    <3>2. /\ b[p] = 6 /\ WordAt(b, p + 1) = s.file /\ WordAt(b, p + 3) = s.record
          /\ WordAt(b, p + 5) = s.length
      BY <1>6, <1>9, <3>1, HeaderRead
    <3> QED
      BY <1>2, <2>1, <2>2, <2>3, <3>2
  <2> QED
    BY <2>1, <2>2, <2>3
<1>10. Len(c) \in Nat /\ Len(c) > 0 /\ c \in Seq(Byte)
  BY <1>7
<1>11. Here(c, b, p) /\ p <= Len(b) =>
          ShiftSub("reads", b, p) = IF p + Len(c) <= Len(b) + 1 THEN Read(s, p + Len(c)) ELSE Thrown
  BY <1>7, <1>9
<1> QED
  BY <1>4, <1>10, <1>11, Zenon DEF SubRead

\* So is a record to write,
LEMMA WritesTrip ==
    ASSUME NEW s, SubOk("writes", s), NEW b \in Seq(Byte), NEW p \in Nat \ {0}
    PROVE  SubRead("writes", s, b, p)
<1>1. "writes" \in OfRecords /\ s \in FileRecord("writes") /\ SubFits("writes", s)
  BY DEF SubOk
<1>2. s = Sub(s.file, s.record, 0, s.data) /\ s.data \in Seq(Byte)
  BY <1>1, SubIs
<1>3. PICK d : d = s.data
  BY Zenon
<1>4. PICK l : l = Len(d)
  BY Zenon
<1>5. d \in Seq(Byte)
  BY <1>2, <1>3
<1>6. PICK x : x = l \div 2
  BY Zenon
<1>7. /\ WordSized(s.file) /\ WordSized(s.record)
      /\ l \in Nat /\ 2 <= l /\ l <= 240 /\ l % 2 = 0
  <2>1. s.file \in FileNumber /\ s.record \in RecordNumber /\ l \in DataLength /\ l % 2 = 0
    <3>1. s.file \in FileNumber /\ s.record \in RecordNumber /\ Even(s.data)
      BY <1>1 DEF SubFits
    <3> QED
      BY <1>3, <1>4, <3>1, Zenon DEF Even
  <2> QED
    BY <2>1, Ranges DEF WordSized
<1>8. WordSized(x) /\ 2 * x = l
  BY <1>7, <1>6 DEF WordSized
<1>9. PICK h : h = <<6>> \o Word(s.file) \o Word(s.record) \o Word(x)
  BY Zenon
<1>10. IsHeader(h, s.file, s.record, x)
  BY <1>7, <1>8, <1>9, RecordHeader
<1>11. h \in Seq(Byte) /\ Len(h) = 7
  BY <1>10 DEF IsHeader
<1>12. PICK c : c = PushSub("writes", s)
  BY Zenon
<1>13. c = Join(h, d)
  BY <1>9, <1>12, <1>3, <1>4, <1>6, Zenon DEF PushSub, Join
<1>14. c \in Seq(Byte) /\ Len(c) = 7 + l
  <2>1. h \in Seq(Byte)
    BY <1>11
  <2>2. c \in Seq(Byte) /\ Len(c) = Len(h) + Len(d)
    BY <1>13, <1>5, <2>1, JoinIs
  <2> QED
    BY <1>11, <1>4, <2>2
<1>15. Len(b) \in Nat
  BY LenProperties
<1>16. ASSUME Here(c, b, p), p <= Len(b)
       PROVE  ShiftSub("writes", b, p) = IF p + (7 + l) <= Len(b) + 1 THEN Read(s, p + (7 + l)) ELSE Thrown
  <2>1. Has(b, p, 7) <=> p + 7 <= Len(b) + 1
    BY <1>15 DEF Has
  <2>2. Here(h, b, p) /\ Here(d, b, p + Len(h))
    <3>1. h \in Seq(Byte) /\ Here(Join(h, d), b, p)
      BY <1>11, <1>13, <1>16
    <3> QED
      BY <1>5, <3>1, HereJoin
  <2>3. ShiftSub("writes", b, p) =
            IF ~Has(b, p, 7) \/ b[p] # 6 THEN Thrown
            ELSE IF ~Has(b, p + 7, 2 * WordAt(b, p + 5)) THEN Thrown
            ELSE Read(Sub(WordAt(b, p + 1), WordAt(b, p + 3), 0,
                          Slice(b, p + 7, p + 6 + (2 * WordAt(b, p + 5)))),
                      p + 7 + (2 * WordAt(b, p + 5)))
    BY Zenon DEF ShiftSub, Slice
  <2>4. CASE Has(b, p, 7)
    <3>1. p + 6 <= Len(b)
      BY <1>15, <2>1, <2>4
    <3>2. /\ b[p] = 6 /\ WordAt(b, p + 1) = s.file /\ WordAt(b, p + 3) = s.record
          /\ WordAt(b, p + 5) = x
      BY <1>10, <2>2, <3>1, HeaderRead
    <3>3. 2 * WordAt(b, p + 5) = l
      BY <1>8, <3>2
    <3>4. ShiftSub("writes", b, p) =
            IF ~Has(b, p + 7, l) THEN Thrown
            ELSE Read(Sub(s.file, s.record, 0, Slice(b, p + 7, p + 6 + l)), p + 7 + l)
      BY <2>3, <2>4, <3>2, <3>3
    <3>5. Has(b, p + 7, l) <=> p + (7 + l) <= Len(b) + 1
      BY <1>7, <1>15 DEF Has
    <3>6. ASSUME p + (7 + l) <= Len(b) + 1 PROVE Slice(b, p + 7, p + 6 + l) = d
      <4>1. PICK q : q = p + 7
        BY Zenon
      <4>2. PICK last : last = p + 6 + l
        BY Zenon
      <4>3. /\ q \in Nat \ {0} /\ last \in Nat /\ last = (q - 1) + Len(d) /\ last <= Len(b)
        BY <1>7, <1>15, <1>4, <3>6, <4>1, <4>2
      <4>4. Here(d, b, q)
        BY <1>11, <2>2, <4>1
      <4>5. Slice(b, q, last) = d
        BY <1>5, <4>3, <4>4, SliceRead
      <4> QED
        BY <4>1, <4>2, <4>5
    <3>7. p + 7 + l = p + (7 + l)
      BY <1>7
    <3> QED
      BY <1>2, <1>3, <3>4, <3>5, <3>6, <3>7
  <2>5. CASE ~Has(b, p, 7)
    <3>1. ~(p + (7 + l) <= Len(b) + 1)
      BY <1>7, <1>15, <2>1, <2>5
    <3> QED
      BY <2>3, <2>5, <3>1
  <2> QED
    BY <2>4, <2>5
<1>17. 7 + l \in Nat /\ 7 + l > 0
  BY <1>7
<1>18. Len(c) \in Nat /\ Len(c) > 0 /\ c \in Seq(Byte)
  BY <1>14, <1>17
<1>19. Here(c, b, p) /\ p <= Len(b) =>
          ShiftSub("writes", b, p) = IF p + Len(c) <= Len(b) + 1 THEN Read(s, p + Len(c)) ELSE Thrown
  BY <1>14, <1>16
<1> QED
  BY <1>12, <1>18, <1>19, Zenon DEF SubRead

\* and the data of a record that was read.
LEMMA DataTrip ==
    ASSUME NEW s, SubOk("data", s), NEW b \in Seq(Byte), NEW p \in Nat \ {0}
    PROVE  SubRead("data", s, b, p)
<1>1. "data" \in OfRecords /\ s \in FileRecord("data") /\ SubFits("data", s)
  BY DEF SubOk
<1>2. s = Sub(0, 0, 0, s.data) /\ s.data \in Seq(Byte)
  BY <1>1, SubIs
<1>3. PICK d : d = s.data
  BY Zenon
<1>4. PICK l : l = Len(d)
  BY Zenon
<1>5. d \in Seq(Byte)
  BY <1>2, <1>3
<1>6. l \in Nat /\ 2 <= l /\ l <= 240
  <2>1. l \in DataLength
    <3>1. Even(s.data)
      BY <1>1 DEF SubFits
    <3> QED
      BY <1>3, <1>4, <3>1 DEF Even
  <2> QED
    BY <2>1, Ranges
<1>7. l + 1 \in Byte /\ 6 \in Byte
  BY <1>6, ByteIs
<1>8. PICK h : h = <<l + 1, 6>>
  BY Zenon
<1>9. h \in Seq(Byte) /\ Len(h) = 2 /\ h[1] = l + 1 /\ h[2] = 6
  BY <1>7, <1>8
<1>10. PICK c : c = PushSub("data", s)
  BY Zenon
<1>11. c = Join(h, d)
  BY <1>8, <1>10, <1>3, <1>4 DEF PushSub, Join
<1>12. c \in Seq(Byte) /\ Len(c) = 2 + l
  <2>1. h \in Seq(Byte)
    BY <1>9
  <2>2. c \in Seq(Byte) /\ Len(c) = Len(h) + Len(d)
    BY <1>11, <1>5, <2>1, JoinIs
  <2> QED
    BY <1>9, <1>4, <2>2
<1>13. Len(b) \in Nat
  BY LenProperties
<1>14. ASSUME Here(c, b, p), p <= Len(b)
       PROVE  ShiftSub("data", b, p) = IF p + (2 + l) <= Len(b) + 1 THEN Read(s, p + (2 + l)) ELSE Thrown
  <2>1. Has(b, p, 2) <=> p + 2 <= Len(b) + 1
    BY <1>13 DEF Has
  <2>2. Here(h, b, p) /\ Here(d, b, p + Len(h))
    <3>1. h \in Seq(Byte) /\ Here(Join(h, d), b, p)
      BY <1>9, <1>11, <1>14
    <3> QED
      BY <1>5, <3>1, HereJoin
  <2>3. ShiftSub("data", b, p) =
            IF Has(b, p, 2) /\ b[p + 1] = 6 /\ Has(b, p + 2, b[p] - 1)
            THEN Read(Sub(0, 0, 0, Slice(b, p + 2, p + b[p])), p + b[p] + 1) ELSE Thrown
    BY Zenon DEF ShiftSub, Slice
  <2>4. CASE Has(b, p, 2)
    <3>1. p + 0 <= Len(b) /\ p + 1 <= Len(b) /\ 0 < Len(h) /\ 1 < Len(h) /\ Len(h) \in Nat
      BY <1>9, <1>13, <2>1, <2>4
    <3>2. b[p + 0] = h[0 + 1] /\ b[p + 1] = h[1 + 1]
      <4>1. b[p + 0] = h[0 + 1]
        BY <2>2, <3>1, 0 \in Nat, HereAt, Zenon
      <4>2. b[p + 1] = h[1 + 1]
        BY <2>2, <3>1, 1 \in Nat, HereAt, Zenon
      <4> QED
        BY <4>1, <4>2
    <3>3. b[p] = l + 1 /\ b[p + 1] = 6 /\ b[p] - 1 = l
      BY <1>6, <1>9, <3>2
    <3>4. ShiftSub("data", b, p) =
            IF Has(b, p + 2, l) THEN Read(Sub(0, 0, 0, Slice(b, p + 2, p + (l + 1))), p + (l + 1) + 1)
            ELSE Thrown
      BY <2>3, <2>4, <3>3
    <3>5. Has(b, p + 2, l) <=> p + (2 + l) <= Len(b) + 1
      BY <1>6, <1>13 DEF Has
    <3>6. ASSUME p + (2 + l) <= Len(b) + 1 PROVE Slice(b, p + 2, p + (l + 1)) = d
      <4>1. PICK q : q = p + 2
        BY Zenon
      <4>2. PICK last : last = p + (l + 1)
        BY Zenon
      <4>3. /\ q \in Nat \ {0} /\ last \in Nat /\ last = (q - 1) + Len(d) /\ last <= Len(b)
        BY <1>6, <1>13, <1>4, <3>6, <4>1, <4>2
      <4>4. Here(d, b, q)
        BY <1>9, <2>2, <4>1
      <4>5. Slice(b, q, last) = d
        BY <1>5, <4>3, <4>4, SliceRead
      <4> QED
        BY <4>1, <4>2, <4>5
    <3>7. p + (l + 1) + 1 = p + (2 + l)
      BY <1>6
    <3> QED
      BY <1>2, <1>3, <3>4, <3>5, <3>6, <3>7
  <2>5. CASE ~Has(b, p, 2)
    <3>1. ~(p + (2 + l) <= Len(b) + 1)
      BY <1>6, <1>13, <2>1, <2>5
    <3> QED
      BY <2>3, <2>5, <3>1
  <2> QED
    BY <2>4, <2>5
<1>15. 2 + l \in Nat /\ 2 + l > 0
  BY <1>6
<1>16. Len(c) \in Nat /\ Len(c) > 0 /\ c \in Seq(Byte)
  BY <1>12, <1>15
<1>17. Here(c, b, p) /\ p <= Len(b) =>
          ShiftSub("data", b, p) = IF p + Len(c) <= Len(b) + 1 THEN Read(s, p + Len(c)) ELSE Thrown
  BY <1>12, <1>14
<1> QED
  BY <1>10, <1>16, <1>17, Zenon DEF SubRead

LEMMA ByteAt ==
    ASSUME NEW b \in Seq(Byte), NEW p \in Nat \ {0}, p <= Len(b)
    PROVE  b[p] \in Nat
<1>1. p \in 1 .. Len(b)
  BY LenProperties
<1>2. b[p] \in Byte
  BY <1>1, ElementOfSeq
<1> QED
  BY <1>2, ByteIs

\* A record that is read is not empty and ends in the buffer.
LEMMA ShiftSubNext ==
    ASSUME NEW kind \in OfRecords, NEW b \in Seq(Byte), NEW p \in Nat \ {0}, p <= Len(b),
           ShiftSub(kind, b, p).ok
    PROVE  ShiftSub(kind, b, p).next \in p + 1 .. Len(b) + 1
<1>1. Len(b) \in Nat
  BY LenProperties
<1>2. CASE kind = "data"
  <2>1. ShiftSub(kind, b, p) =
            IF Has(b, p, 2) /\ b[p + 1] = 6 /\ Has(b, p + 2, b[p] - 1)
            THEN Read(Sub(0, 0, 0, Slice(b, p + 2, p + b[p])), p + b[p] + 1) ELSE Thrown
    BY <1>2, Zenon DEF ShiftSub, Slice
  <2>2. Has(b, p + 2, b[p] - 1) /\ ShiftSub(kind, b, p).next = p + b[p] + 1
    BY <2>1, ReadIs
  <2>3. b[p] \in Nat
    BY ByteAt
  <2>4. PICK x : x = b[p]
    BY Zenon
  <2>5. p + x + 1 \in p + 1 .. Len(b) + 1
    <3>1. x - 1 >= 0 /\ (p + 2) + (x - 1) - 1 <= Len(b) /\ x \in Nat
      BY <2>2, <2>3, <2>4 DEF Has
    <3> QED
      BY <1>1, <3>1
  <2> QED
    BY <2>2, <2>4, <2>5
<1>3. CASE kind = "reads"
  <2>1. ShiftSub(kind, b, p) =
            IF ~Has(b, p, 7) \/ b[p] # 6 THEN Thrown
            ELSE Read(Sub(WordAt(b, p + 1), WordAt(b, p + 3), WordAt(b, p + 5), <<>>), p + 7)
    BY <1>3 DEF ShiftSub
  <2>2. Has(b, p, 7) /\ ShiftSub(kind, b, p).next = p + 7
    BY <2>1, ReadIs
  <2>3. p + 7 - 1 <= Len(b)
    BY <2>2 DEF Has
  <2> QED
    BY <1>1, <2>2, <2>3
<1>4. CASE kind = "writes"
  <2>1. ShiftSub(kind, b, p) =
            IF ~Has(b, p, 7) \/ b[p] # 6 THEN Thrown
            ELSE IF ~Has(b, p + 7, 2 * WordAt(b, p + 5)) THEN Thrown
            ELSE Read(Sub(WordAt(b, p + 1), WordAt(b, p + 3), 0,
                          Slice(b, p + 7, p + 6 + (2 * WordAt(b, p + 5)))),
                      p + 7 + (2 * WordAt(b, p + 5)))
    BY <1>4, Zenon DEF ShiftSub, Slice
  <2>2. /\ Has(b, p, 7) /\ Has(b, p + 7, 2 * WordAt(b, p + 5))
        /\ ShiftSub(kind, b, p).next = p + 7 + (2 * WordAt(b, p + 5))
    BY <2>1, ReadIs
  <2>3. p + 7 - 1 <= Len(b)
    BY <2>2 DEF Has
  <2>4. WordAt(b, p + 5) \in Nat
    <3>1. /\ p + 5 \in Nat \ {0} /\ p + 5 <= Len(b) /\ p + 6 \in Nat \ {0} /\ p + 6 <= Len(b)
          /\ (p + 5) + 1 = p + 6
      BY <1>1, <2>3
    <3>2. b[p + 5] \in Nat /\ b[p + 6] \in Nat
      BY <3>1, ByteAt
    <3> QED
      BY <3>1, <3>2 DEF WordAt
  <2>5. PICK x : x = 2 * WordAt(b, p + 5)
    BY Zenon
  <2>6. p + 7 + x \in p + 1 .. Len(b) + 1
    <3>1. (p + 7) + x - 1 <= Len(b) /\ x \in Nat
      BY <2>2, <2>4, <2>5 DEF Has
    <3> QED
      BY <1>1, <3>1
  <2> QED
    BY <2>2, <2>5, <2>6
<1> QED
  BY <1>2, <1>3, <1>4 DEF OfRecords

\* What ShiftSubs gives from a place on, given what it gives from the later ones.
Step(kind, b, g, at) ==
    IF at > Len(b) THEN Read(<<>>, at)
    ELSE LET first == ShiftSub(kind, b, at)
             others == g[first.next]
         IN  IF ~first.ok THEN Thrown
             ELSE IF ~others.ok THEN Thrown
             ELSE Read(<<first.value>> \o others.value, others.next)
Scan(kind, b, low, g) == g = [at \in low .. Len(b) + 1 |-> Step(kind, b, g, at)]

\* One step of the scan looks at what follows only.
LEMMA StepAgrees ==
    ASSUME NEW kind \in OfRecords, NEW b \in Seq(Byte), NEW at \in Nat \ {0}, NEW g, NEW h,
           \A p \in at + 1 .. Len(b) + 1 : g[p] = h[p]
    PROVE  Step(kind, b, g, at) = Step(kind, b, h, at)
<1>1. Len(b) \in Nat
  BY LenProperties
<1>2. CASE at > Len(b)
  BY <1>2, Zenon DEF Step
<1>3. CASE ~(at > Len(b))
  <2>1. at <= Len(b)
    BY <1>1, <1>3
  <2>2. CASE ~ShiftSub(kind, b, at).ok
    BY <1>3, <2>2, Zenon DEF Step
  <2>3. CASE ShiftSub(kind, b, at).ok
    <3>1. ShiftSub(kind, b, at).next \in at + 1 .. Len(b) + 1
      BY <2>1, <2>3, ShiftSubNext
    <3>2. g[ShiftSub(kind, b, at).next] = h[ShiftSub(kind, b, at).next]
      BY <3>1, Zenon
    <3> QED
      BY <1>3, <2>3, <3>2, Zenon DEF Step
  <2> QED
    BY <2>2, <2>3
<1> QED
  BY <1>2, <1>3

\* From each place there is a scan to the end of the buffer.
LEMMA ScanExists ==
    ASSUME NEW kind \in OfRecords, NEW b \in Seq(Byte), NEW low \in Nat \ {0}, low <= Len(b) + 1
    PROVE  \E g : Scan(kind, b, low, g)
<1> DEFINE S == {m \in Nat : m <= Len(b) => \E g : Scan(kind, b, Len(b) + 1 - m, g)}
<1>1. Len(b) \in Nat
  BY LenProperties
<1>2. 0 \in S
  <2>1. PICK e : e = Len(b) + 1
    BY Zenon
  <2>2. e \in Nat \ {0} /\ e > Len(b) /\ Len(b) + 1 - 0 = e
    BY <1>1, <2>1
  <2>3. PICK g : g = [at \in e .. e |-> Read(<<>>, at)]
    BY Zenon
  <2>4. ASSUME NEW at \in e .. e PROVE Read(<<>>, at) = Step(kind, b, g, at)
    <3>1. at = e
      BY <2>2
    <3> QED
      BY <2>2, <3>1, Zenon DEF Step
  <2>5. g = [at \in e .. e |-> Step(kind, b, g, at)]
    BY <2>3, <2>4, Zenon
  <2>6. Scan(kind, b, e, g)
    BY <2>1, <2>5, Zenon DEF Scan
  <2> QED
    BY <2>2, <2>6
<1>3. ASSUME NEW m \in Nat, m \in S PROVE m + 1 \in S
  <2> SUFFICES ASSUME m + 1 <= Len(b) PROVE \E g : Scan(kind, b, Len(b) + 1 - (m + 1), g)
    OBVIOUS
  <2>1. PICK e : e = Len(b) + 1
    BY Zenon
  <2>2. PICK l : l = e - m
    BY Zenon
  <2>3. PICK k : k = l - 1
    BY Zenon
  <2>4. /\ e \in Nat /\ l \in Nat \ {0} /\ k \in Nat \ {0} /\ l <= e /\ Len(b) + 1 - m = l
        /\ Len(b) + 1 - (m + 1) = k /\ l = k + 1
    BY <1>1, <2>1, <2>2, <2>3
  <2>5. PICK g : Scan(kind, b, l, g)
    <3>1. m <= Len(b)
      BY <1>1
    <3> QED
      BY <1>3, <2>4, <3>1
  <2>6. g = [at \in l .. e |-> Step(kind, b, g, at)]
    BY <2>1, <2>5, Zenon DEF Scan
  <2>7. PICK h : h = [at \in k .. e |-> IF at = k THEN Step(kind, b, g, k) ELSE g[at]]
    BY Zenon
  <2>8. \A at \in l .. e : h[at] = g[at]
    <3> TAKE at \in l .. e
    <3>1. at \in k .. e /\ at # k
      BY <2>4
    <3> QED
      BY <2>7, <3>1, Zenon
  <2>9. ASSUME NEW at \in k .. e
        PROVE  (IF at = k THEN Step(kind, b, g, k) ELSE g[at]) = Step(kind, b, h, at)
    <3>1. at \in Nat \ {0} /\ \A p \in at + 1 .. Len(b) + 1 : p \in l .. e
      BY <2>1, <2>4
    <3>2. \A p \in at + 1 .. Len(b) + 1 : g[p] = h[p]
      BY <2>8, <3>1, Zenon
    <3>3. Step(kind, b, g, at) = Step(kind, b, h, at)
      BY <3>1, <3>2, StepAgrees
    <3>4. CASE at = k
      BY <3>3, <3>4, Zenon
    <3>5. CASE at # k
      <4>1. at \in l .. e
        BY <2>4, <3>5
      <4>2. g[at] = Step(kind, b, g, at)
        <5> DEFINE G(p) == Step(kind, b, g, p)
        <5>1. g = [p \in l .. e |-> G(p)]
          BY <2>6, Zenon
        <5> HIDE DEF G
        <5>2. g[at] = G(at)
          BY <4>1, <5>1
        <5> QED
          BY <5>2, Zenon DEF G
      <4> QED
        BY <3>3, <3>5, <4>2, Zenon
    <3> QED
      BY <3>4, <3>5
  <2>10. h = [at \in k .. e |-> Step(kind, b, h, at)]
    BY <2>7, <2>9, Zenon
  <2>11. Scan(kind, b, k, h)
    BY <2>1, <2>10, Zenon DEF Scan
  <2> QED
    BY <2>4, <2>11
<1>4. Nat \subseteq S
  <2> HIDE DEF S
  <2> QED
    BY <1>2, <1>3, NatSetInduction, Zenon
<1>5. PICK m : m = Len(b) + 1 - low
  BY Zenon
<1>6. m \in Nat /\ m <= Len(b) /\ Len(b) + 1 - m = low
  BY <1>1, <1>5
<1> QED
  BY <1>4, <1>6

\* ShiftSubs is such a scan.
LEMMA ShiftSubsScans ==
    ASSUME NEW kind \in OfRecords, NEW b \in Seq(Byte), NEW start \in Nat \ {0}, start <= Len(b) + 1
    PROVE  \E g : Scan(kind, b, start, g) /\ ShiftSubs(kind, b, start) = g[start]
<1> DEFINE from[at \in start .. Len(b) + 1] ==
            IF at > Len(b) THEN Read(<<>>, at)
            ELSE LET first == ShiftSub(kind, b, at)
                     others == from[first.next]
                 IN  IF ~first.ok THEN Thrown
                     ELSE IF ~others.ok THEN Thrown
                     ELSE Read(<<first.value>> \o others.value, others.next)
<1>1. ShiftSubs(kind, b, start) = from[start]
  BY Zenon DEF ShiftSubs
<1>2. PICK g : Scan(kind, b, start, g)
  BY ScanExists
<1>3. g = [at \in start .. Len(b) + 1 |->
            IF at > Len(b) THEN Read(<<>>, at)
            ELSE LET first == ShiftSub(kind, b, at)
                     others == g[first.next]
                 IN  IF ~first.ok THEN Thrown
                     ELSE IF ~others.ok THEN Thrown
                     ELSE Read(<<first.value>> \o others.value, others.next)]
  BY <1>2, Zenon DEF Scan, Step
<1>4. from = [at \in start .. Len(b) + 1 |->
            IF at > Len(b) THEN Read(<<>>, at)
            ELSE LET first == ShiftSub(kind, b, at)
                     others == from[first.next]
                 IN  IF ~first.ok THEN Thrown
                     ELSE IF ~others.ok THEN Thrown
                     ELSE Read(<<first.value>> \o others.value, others.next)]
  BY <1>3, Zenon
<1> HIDE DEF from
<1>5. Scan(kind, b, start, from)
  BY <1>4, Zenon DEF Scan, Step
<1> QED
  BY <1>1, <1>5, Zenon

\* What is read from the i-th record on.
TailRead(r, T, v, i, n) ==
    /\ r.ok => /\ r.value \in Seq(T) /\ (i - 1) + Len(r.value) <= Len(v)
               /\ \A j \in 1 .. Len(r.value) : r.value[j] = v[(i - 1) + j]
    /\ n = 0 => r.ok /\ (i - 1) + Len(r.value) = Len(v)

\* A record read before a tail of the records is a longer tail.
LEMMA TailReadStep ==
    ASSUME NEW T, NEW v \in Seq(T), NEW i \in 1 .. Len(v), NEW n, NEW others, NEW x,
           TailRead(others, T, v, i + 1, n), others.ok
    PROVE  TailRead(Read(<<v[i]>> \o others.value, x), T, v, i, n)
<1>1. PICK w : w = others.value
  BY Zenon
<1>2. PICK s : s = <<v[i]>> \o w
  BY Zenon
<1>3. /\ w \in Seq(T) /\ ((i + 1) - 1) + Len(w) <= Len(v)
      /\ \A j \in 1 .. Len(w) : w[j] = v[((i + 1) - 1) + j]
      /\ n = 0 => ((i + 1) - 1) + Len(w) = Len(v)
  BY <1>1, Zenon DEF TailRead
<1>4. Len(v) \in Nat /\ Len(w) \in Nat /\ v[i] \in T
  BY <1>3, LenProperties, ElementOfSeq
<1>5. PICK a : a = <<v[i]>>
  BY Zenon
<1>6. a \in Seq(T) /\ Len(a) = 1 /\ a[1] = v[i]
  BY <1>4, <1>5
<1>7. s = a \o w
  BY <1>2, <1>5, Zenon
<1>8. s \in Seq(T) /\ Len(s) = 1 + Len(w)
  <2>1. a \in Seq(T) /\ w \in Seq(T)
    BY <1>3, <1>6
  <2>2. s \in Seq(T) /\ Len(s) = Len(a) + Len(w)
    BY <1>7, <2>1, ConcatProperties
  <2> QED
    BY <1>6, <2>2
<1>9. \A j \in 1 .. 1 + Len(w) : s[j] = IF j <= 1 THEN a[j] ELSE w[j - 1]
  <2>1. a \in Seq(T) /\ w \in Seq(T)
    BY <1>3, <1>6
  <2>2. \A j \in 1 .. Len(a) + Len(w) : s[j] = IF j <= Len(a) THEN a[j] ELSE w[j - Len(a)]
    BY <1>7, <2>1, ConcatProperties
  <2> QED
    BY <1>6, <2>2
<1>10. ASSUME NEW j \in 1 .. Len(s) PROVE s[j] = v[(i - 1) + j]
  <2>1. j \in 1 .. 1 + Len(w)
    BY <1>8
  <2>2. CASE j = 1
    <3>1. s[j] = a[j]
      BY <1>9, <2>1, <2>2
    <3>2. (i - 1) + j = i
      BY <2>2
    <3> QED
      BY <1>6, <2>2, <3>1, <3>2
  <2>3. CASE j # 1
    <3>1. ~(j <= 1) /\ j - 1 \in 1 .. Len(w) /\ ((i + 1) - 1) + (j - 1) = (i - 1) + j
      BY <1>4, <2>1, <2>3
    <3>2. s[j] = w[j - 1]
      BY <1>9, <2>1, <3>1, Zenon
    <3>3. w[j - 1] = v[((i + 1) - 1) + (j - 1)]
      BY <1>3, <3>1, Zenon
    <3> QED
      BY <3>1, <3>2, <3>3, Zenon
  <2> QED
    BY <2>2, <2>3
<1>11. (i - 1) + Len(s) <= Len(v) /\ (n = 0 => (i - 1) + Len(s) = Len(v))
  <2>1. ((i + 1) - 1) + Len(w) <= Len(v) /\ (n = 0 => ((i + 1) - 1) + Len(w) = Len(v))
    BY <1>3
  <2>2. PICK l : l = Len(w)
    BY Zenon
  <2>3. PICK m : m = Len(v)
    BY Zenon
  <2>4. l \in Nat /\ m \in Nat /\ i \in Nat
    BY <1>4, <2>2, <2>3
  <2>5. Len(s) = 1 + l /\ ((i + 1) - 1) + l <= m /\ (n = 0 => ((i + 1) - 1) + l = m)
    BY <1>8, <2>1, <2>2, <2>3
  <2>6. (i - 1) + Len(s) <= m /\ (n = 0 => (i - 1) + Len(s) = m)
    BY <2>4, <2>5
  <2> QED
    BY <2>3, <2>6
<1>12. PICK r : r = Read(s, x)
  BY Zenon
<1>13. r.ok /\ r.value = s
  BY <1>12, ReadIs
<1>14. TailRead(r, T, v, i, n)
  BY <1>8, <1>10, <1>11, <1>13, Zenon DEF TailRead
<1> QED
  BY <1>1, <1>2, <1>12, <1>14, Zenon

\* The tail from the first record is what the message had.
LEMMA WholeTail ==
    ASSUME NEW T, NEW v \in Seq(T), NEW n, NEW r, TailRead(r, T, v, 1, n)
    PROVE  /\ r.ok => IsPrefix(r.value, v)
           /\ n = 0 => r.ok /\ r.value = v
<1>1. PICK w : w = r.value
  BY Zenon
<1>2. /\ r.ok => /\ w \in Seq(T) /\ (1 - 1) + Len(w) <= Len(v)
                 /\ \A j \in 1 .. Len(w) : w[j] = v[(1 - 1) + j]
      /\ n = 0 => r.ok /\ (1 - 1) + Len(w) = Len(v)
  BY <1>1, Zenon DEF TailRead
<1>3. SUFFICES ASSUME r.ok PROVE IsPrefix(w, v) /\ (n = 0 => w = v)
  BY <1>1, <1>2, Zenon
<1>4. w \in Seq(T) /\ Len(w) \in Nat /\ Len(v) \in Nat
  BY <1>2, <1>3, LenProperties
<1>5. Len(w) <= Len(v) /\ \A j \in 1 .. Len(w) : w[j] = v[j]
  <2>1. \A j \in 1 .. Len(w) : w[j] = v[(1 - 1) + j]
    BY <1>2, <1>3
  <2>2. \A j \in 1 .. Len(w) : (1 - 1) + j = j
    BY <1>4
  <2> QED
    BY <1>2, <1>3, <1>4, <2>1, <2>2
<1>6. n = 0 => w = v
  <2> SUFFICES ASSUME n = 0 PROVE w = v
    OBVIOUS
  <2>1. Len(w) = Len(v)
    BY <1>2, <1>4
  <2> QED
    BY <1>4, <1>5, <2>1, SeqEqual
<1>7. IsPrefix(w, v)
  <2>1. PICK t : t = SubSeq(v, 1, Len(w))
    BY Zenon
  <2>2. SubSeq(w, 1, Len(w)) = w
    BY <1>4, SubSeqFull
  <2>3. \A i \in 1 .. Len(w) : v[i] \in T
    BY <1>4, <1>5, ElementOfSeq
  <2>4. /\ SubSeq(v, 1, Len(w)) \in Seq(T)
        /\ Len(SubSeq(v, 1, Len(w))) = IF 1 <= Len(w) THEN Len(w) - 1 + 1 ELSE 0
        /\ \A i \in 1 .. Len(w) - 1 + 1 : SubSeq(v, 1, Len(w))[i] = v[1 + i - 1]
    BY <1>4, <2>3, SubSeqProperties
  <2>5. /\ t \in Seq(T) /\ Len(t) = IF 1 <= Len(w) THEN Len(w) - 1 + 1 ELSE 0
        /\ \A i \in 1 .. Len(w) - 1 + 1 : t[i] = v[1 + i - 1]
    BY <2>1, <2>4, Zenon
  <2>6. t \in Seq(T) /\ Len(t) = Len(w)
    BY <1>4, <2>5
  <2>7. ASSUME NEW i \in 1 .. Len(w) PROVE w[i] = t[i]
    <3>1. i \in 1 .. Len(w) - 1 + 1 /\ 1 + i - 1 = i
      BY <1>4
    <3>2. t[i] = v[1 + i - 1]
      BY <2>5, <3>1, Zenon
    <3> QED
      BY <1>5, <3>1, <3>2, Zenon
  <2>8. w = t
    <3>1. w \in Seq(T) /\ t \in Seq(T) /\ Len(w) = Len(t)
      BY <1>4, <2>6
    <3> QED
      BY <2>7, <3>1, SeqEqual
  <2> QED
    BY <1>5, <2>1, <2>2, <2>8, Zenon DEF IsPrefix
<1> QED
  BY <1>6, <1>7

\* Every file record is read as it was pushed, or not at all.
LEMMA SubTrip ==
    ASSUME NEW kind, NEW s, SubOk(kind, s), NEW b \in Seq(Byte), NEW p \in Nat \ {0}
    PROVE  SubRead(kind, s, b, p)
<1>1. kind \in OfRecords
  BY DEF SubOk
<1> QED
  BY <1>1, ReadsTrip, WritesTrip, DataTrip DEF OfRecords

\* The records of v, as bytes.
Parts(kind, v) == [i \in DOMAIN v |-> PushSub(kind, v[i])]

LEMMA PartsType ==
    ASSUME NEW kind \in OfRecords, NEW v \in Seq(FileRecord(kind)),
           \A i \in DOMAIN v : SubFits(kind, v[i])
    PROVE  /\ Parts(kind, v) \in Seq(Seq(Byte)) /\ Len(Parts(kind, v)) = Len(v) /\ Len(v) \in Nat
           /\ \A i \in 1 .. Len(v) : SubOk(kind, v[i]) /\ Parts(kind, v)[i] = PushSub(kind, v[i])
           /\ \A i \in 1 .. Len(v) : PushSub(kind, v[i]) \in Seq(Byte)
           /\ \A i \in 1 .. Len(v) : Len(PushSub(kind, v[i])) \in Nat /\ Len(PushSub(kind, v[i])) > 0
<1>1. Len(v) \in Nat /\ DOMAIN v = 1 .. Len(v)
  BY LenProperties
<1>2. ASSUME NEW i \in 1 .. Len(v) PROVE SubOk(kind, v[i])
  <2>1. v[i] \in FileRecord(kind)
    BY <1>1, ElementOfSeq
  <2> QED
    BY <1>1, <2>1 DEF SubOk
<1>3. ASSUME NEW i \in 1 .. Len(v)
      PROVE  /\ PushSub(kind, v[i]) \in Seq(Byte)
             /\ Len(PushSub(kind, v[i])) \in Nat /\ Len(PushSub(kind, v[i])) > 0
  <2>1. <<>> \in Seq(Byte) /\ 1 \in Nat \ {0}
    BY EmptySeq
  <2>2. SubRead(kind, v[i], <<>>, 1)
    BY <1>2, <2>1, SubTrip, Zenon
  <2> QED
    BY <2>2, Zenon DEF SubRead
<1>4. Parts(kind, v) = [i \in 1 .. Len(v) |-> PushSub(kind, v[i])]
  BY <1>1, Zenon DEF Parts
<1>5. Parts(kind, v) \in Seq(Seq(Byte)) /\ Len(Parts(kind, v)) = Len(v)
  BY <1>1, <1>3, <1>4
<1>6. \A i \in 1 .. Len(v) : Parts(kind, v)[i] = PushSub(kind, v[i])
  BY <1>4
<1> QED
  BY <1>1, <1>2, <1>3, <1>5, <1>6

\* Parts that are not empty have different places.
LEMMA PlacesRise ==
    ASSUME NEW s, NEW N \in Nat, NEW F, NEW O, Places(s, N, F, O),
           \A i \in 1 .. N : Len(s[i]) \in Nat /\ Len(s[i]) > 0
    PROVE  \A i \in 1 .. N : O[i] < O[N + 1]
<1>1. /\ O[N + 1] = Len(F) /\ \A i \in 1 .. N + 1 : O[i] \in Nat
      /\ \A i \in 1 .. N : O[i + 1] = O[i] + Len(s[i]) /\ O[i + 1] <= Len(F)
  BY DEF Places
<1> TAKE i \in 1 .. N
<1>2. O[i] \in Nat /\ O[N + 1] \in Nat
  <2>1. i \in 1 .. N + 1 /\ N + 1 \in 1 .. N + 1
    OBVIOUS
  <2> QED
    BY <1>1, <2>1
<1>3. O[i + 1] = O[i] + Len(s[i])
  BY <1>1, Zenon
<1>4. O[i + 1] <= O[N + 1]
  <2>1. O[i + 1] <= Len(F)
    BY <1>1, Zenon
  <2>2. O[N + 1] = Len(F)
    BY <1>1, Zenon
  <2> QED
    BY <2>1, <2>2, Zenon
<1>5. PICK x : x = O[i]
  BY Zenon
<1>6. PICK y : y = O[N + 1]
  BY Zenon
<1>7. PICK l : l = Len(s[i])
  BY Zenon
<1>8. l \in Nat /\ l > 0
  BY <1>7, Zenon
<1>9. x + l <= y
  BY <1>3, <1>4, <1>5, <1>6, <1>7, Zenon
<1>10. x \in Nat /\ y \in Nat
  BY <1>2, <1>5, <1>6, Zenon
<1>11. x < y
  BY <1>8, <1>9, <1>10
<1> QED
  BY <1>5, <1>6, <1>11, Zenon

\* The records up to a cut are read as they were pushed.
LEMMA RecordsRead ==
    ASSUME NEW kind \in OfRecords, NEW v \in Seq(FileRecord(kind)),
           \A i \in DOMAIN v : SubFits(kind, v[i]),
           NEW b \in Seq(Byte), NEW start \in Nat \ {0}, NEW n \in Nat, start <= Len(b) + 1,
           Continues(b, start, PushSubs(kind, v), 0, n)
    PROVE  TailRead(ShiftSubs(kind, b, start), FileRecord(kind), v, 1, n)
<1>1. PICK s : s = Parts(kind, v)
  BY Zenon
<1>2. PICK N : N = Len(v)
  BY Zenon
<1>3. /\ s \in Seq(Seq(Byte)) /\ Len(s) = N /\ N \in Nat
      /\ \A i \in 1 .. N : SubOk(kind, v[i]) /\ s[i] = PushSub(kind, v[i])
      /\ \A i \in 1 .. N : Len(s[i]) \in Nat /\ Len(s[i]) > 0
  <2>1. /\ Parts(kind, v) \in Seq(Seq(Byte)) /\ Len(Parts(kind, v)) = Len(v) /\ Len(v) \in Nat
        /\ \A i \in 1 .. Len(v) : SubOk(kind, v[i]) /\ Parts(kind, v)[i] = PushSub(kind, v[i])
        /\ \A i \in 1 .. Len(v) : PushSub(kind, v[i]) \in Seq(Byte)
        /\ \A i \in 1 .. Len(v) : Len(PushSub(kind, v[i])) \in Nat /\ Len(PushSub(kind, v[i])) > 0
    BY PartsType, Zenon
  <2>2. /\ s \in Seq(Seq(Byte)) /\ Len(s) = N /\ N \in Nat
        /\ \A i \in 1 .. N : SubOk(kind, v[i]) /\ s[i] = PushSub(kind, v[i])
    BY <1>1, <1>2, <2>1, Zenon
  <2>3. ASSUME NEW i \in 1 .. N PROVE Len(s[i]) \in Nat /\ Len(s[i]) > 0
    <3>1. s[i] = PushSub(kind, v[i]) /\ i \in 1 .. Len(v)
      BY <1>2, <2>2, Zenon
    <3>2. Len(PushSub(kind, v[i])) \in Nat /\ Len(PushSub(kind, v[i])) > 0
      BY <2>1, <3>1, Zenon
    <3> QED
      BY <3>1, <3>2, Zenon
  <2> QED
    BY <2>2, <2>3, Zenon
<1>4. PICK F : F = FlattenSeq(s)
  BY Zenon
<1>5. PushSubs(kind, v) = F
  BY <1>1, <1>4, Zenon DEF PushSubs, Parts
<1>6. PICK O : Places(s, N, F, O)
  BY <1>3, <1>4, FlattenPlaces
<1>7. /\ F \in Seq(Byte) /\ O[1] = 0 /\ O[N + 1] = Len(F)
      /\ \A i \in 1 .. N + 1 : O[i] \in Nat
      /\ \A i \in 1 .. N : O[i + 1] = O[i] + Len(s[i])
      /\ \A i \in 1 .. N : O[i + 1] <= Len(F)
      /\ \A i \in 1 .. N : \A j \in 1 .. Len(s[i]) : F[O[i] + j] = s[i][j]
  BY <1>6, Zenon DEF Places
<1>8. \A i \in 1 .. N : O[i] < O[N + 1]
  BY <1>3, <1>6, PlacesRise
<1>9. PICK e : e = Len(b) + 1
  BY Zenon
<1>10. /\ e \in Nat /\ Len(F) \in Nat /\ e + n = start + Len(F) /\ Len(b) = e - 1 /\ start <= e
       /\ \A i \in 1 .. Len(F) - 0 : (start - 1) + i <= Len(b) => b[(start - 1) + i] = F[0 + i]
  BY <1>5, <1>7, <1>9, LenProperties DEF Continues
<1>11. PICK g : Scan(kind, b, start, g) /\ ShiftSubs(kind, b, start) = g[start]
  BY ShiftSubsScans
<1>12. ASSUME NEW at \in start .. e PROVE g[at] = Step(kind, b, g, at)
  <2> DEFINE G(p) == Step(kind, b, g, p)
  <2>1. g = [p \in start .. e |-> G(p)]
    BY <1>9, <1>11, Zenon DEF Scan
  <2> HIDE DEF G
  <2>2. g[at] = G(at)
    BY <2>1
  <2> QED
    BY <2>2, Zenon DEF G
<1>13. ASSUME NEW i \in 1 .. N PROVE Here(s[i], b, start + O[i])
  <2>1. O[i] \in Nat /\ O[i + 1] = O[i] + Len(s[i]) /\ O[i + 1] <= Len(F) /\ Len(s[i]) \in Nat
    <3>1. i \in 1 .. N + 1
      BY <1>3
    <3> QED
      BY <1>3, <1>7, <3>1
  <2>2. ASSUME NEW j \in 1 .. Len(s[i]), ((start + O[i]) - 1) + j <= Len(b)
        PROVE  b[((start + O[i]) - 1) + j] = s[i][j]
    <3> DEFINE k == O[i] + j
    <3>1. /\ k \in 1 .. Len(F) - 0 /\ (start - 1) + k = ((start + O[i]) - 1) + j /\ 0 + k = k
          /\ (start - 1) + k <= Len(b)
      <4>1. PICK x : x = O[i]
        BY Zenon
      <4>2. PICK l : l = Len(s[i])
        BY Zenon
      <4>3. PICK z : z = Len(F)
        BY Zenon
      <4>4. x \in Nat /\ l \in Nat /\ z \in Nat /\ x + l <= z /\ j \in 1 .. l
        BY <1>10, <2>1, <2>2, <4>1, <4>2, <4>3
      <4>5. ((start + x) - 1) + j <= Len(b) /\ k = x + j /\ Len(b) = e - 1 /\ e \in Nat
        BY <1>10, <2>2, <4>1
      <4>6. j \in Nat /\ j >= 1 /\ j <= l
        BY <4>4
      <4> HIDE DEF k
      <4>7. k \in 1 .. z - 0 /\ (start - 1) + k = ((start + x) - 1) + j /\ 0 + k = k /\ (start - 1) + k <= Len(b)
        BY <4>4, <4>5, <4>6
      <4> QED
        BY <4>1, <4>3, <4>7
    <3>2. F[k] = s[i][j]
      BY <1>7, <2>2, Zenon
    <3> HIDE DEF k
    <3>3. b[(start - 1) + k] = F[0 + k]
      BY <1>10, <3>1, Zenon
    <3> QED
      BY <3>1, <3>2, <3>3, Zenon
  <2> QED
    BY <2>2, Zenon DEF Here
<1> DEFINE T == FileRecord(kind)
           S == {m \in Nat : m <= N /\ start + O[N + 1 - m] <= e =>
                                TailRead(g[start + O[N + 1 - m]], T, v, N + 1 - m, n)}
<1>14. v \in Seq(T)
  OBVIOUS
<1> HIDE DEF T
<1>15. \A x : TailRead(Read(<<>>, x), T, v, N + 1, n)
  <2> TAKE x
  <2>1. <<>> \in Seq(T) /\ Len(<<>>) = 0
    BY EmptySeq
  <2>2. PICK r : r = Read(<<>>, x)
    BY Zenon
  <2>3. r.ok /\ r.value = <<>>
    BY <2>2, ReadIs
  <2>4. TailRead(r, T, v, N + 1, n)
    BY <1>2, <1>3, <2>1, <2>3 DEF TailRead
  <2> QED
    BY <2>2, <2>4
<1>16. 0 \in S
  <2> SUFFICES ASSUME start + O[N + 1] <= e PROVE TailRead(g[start + O[N + 1]], T, v, N + 1, n)
    BY <1>3
  <2>1. PICK p : p = start + O[N + 1]
    BY Zenon
  <2>2. p \in start .. e /\ p > Len(b)
    BY <1>7, <1>10, <2>1
  <2>3. g[p] = Read(<<>>, p)
    BY <1>12, <2>2, Zenon DEF Step
  <2> QED
    BY <1>15, <2>1, <2>3, Zenon
<1>17. ASSUME NEW m \in Nat, m \in S PROVE m + 1 \in S
  <2> SUFFICES ASSUME m + 1 <= N, start + O[N + 1 - (m + 1)] <= e
               PROVE  TailRead(g[start + O[N + 1 - (m + 1)]], T, v, N + 1 - (m + 1), n)
    OBVIOUS
  <2>1. PICK i : i = N + 1 - (m + 1)
    BY Zenon
  <2>2. i \in 1 .. N /\ i \in 1 .. N + 1 /\ i + 1 \in 1 .. N + 1 /\ i + 1 = N + 1 - m /\ m <= N
    BY <1>3, <2>1
  <2>3. PICK p : p = start + O[i]
    BY Zenon
  <2>4. PICK q : q = start + O[i + 1]
    BY Zenon
  <2>5. PICK c : c = s[i]
    BY Zenon
  <2>6. O[i] \in Nat /\ O[i + 1] \in Nat /\ O[i + 1] = O[i] + Len(c) /\ O[i] < O[N + 1] /\ O[i + 1] <= O[N + 1]
         /\ Len(c) \in Nat /\ Len(c) > 0 /\ O[N + 1] = Len(F)
    <3>1. O[i] \in Nat /\ O[i + 1] \in Nat
      BY <1>7, <2>2, Zenon
    <3>2. O[i + 1] = O[i] + Len(c) /\ O[i + 1] <= Len(F) /\ O[N + 1] = Len(F) /\ O[i] < O[N + 1]
      BY <1>7, <1>8, <2>2, <2>5, Zenon
    <3>3. Len(c) \in Nat /\ Len(c) > 0
      BY <1>3, <2>2, <2>5, Zenon
    <3> QED
      BY <3>1, <3>2, <3>3, Zenon
  <2>7. /\ p \in Nat \ {0} /\ p >= start /\ p <= e /\ q = p + Len(c) /\ p < q
        /\ (n = 0 => p < e /\ q <= e)
    <3>1. p <= e
      BY <2>1, <2>3, Zenon
    <3>2. PICK x : x = O[i]
      BY Zenon
    <3>3. PICK y : y = O[i + 1]
      BY Zenon
    <3>4. PICK z : z = Len(F)
      BY Zenon
    <3>5. /\ x \in Nat /\ y \in Nat /\ y = x + Len(c) /\ x < z /\ y <= z /\ Len(c) \in Nat /\ Len(c) > 0
          /\ p = start + x /\ q = start + y /\ z \in Nat /\ e + n = start + z /\ e \in Nat
      <4>1. x \in Nat /\ y \in Nat /\ y = x + Len(c) /\ x < z /\ y <= z /\ Len(c) \in Nat /\ Len(c) > 0
        BY <2>6, <3>2, <3>3, <3>4, Zenon
      <4>2. p = start + x /\ q = start + y /\ z \in Nat /\ e + n = start + z /\ e \in Nat
        BY <1>10, <2>3, <2>4, <3>2, <3>3, <3>4, Zenon
      <4> QED
        BY <4>1, <4>2, Zenon
    <3> QED
      BY <3>1, <3>5
  <2>8. p \in start .. e
    BY <1>10, <2>7
  <2>9. g[p] = Step(kind, b, g, p)
    BY <1>12, <2>8
  <2>10. CASE p > Len(b)
    <3>1. n # 0
      BY <1>10, <2>7, <2>10
    <3>2. g[p] = Read(<<>>, p)
      BY <2>9, <2>10, Zenon DEF Step
    <3>3. <<>> \in Seq(T) /\ Len(<<>>) = 0
      BY EmptySeq
    <3>4. PICK r : r = g[p]
      BY Zenon
    <3>5. r.ok /\ r.value = <<>>
      BY <3>2, <3>4, ReadIs
    <3>6. TailRead(r, T, v, i, n)
      BY <1>2, <2>2, <3>1, <3>3, <3>5 DEF TailRead
    <3> QED
      BY <2>1, <2>3, <3>4, <3>6, Zenon
  <2>11. CASE ~(p > Len(b))
    <3>1. p <= Len(b)
      BY <1>10, <2>7, <2>11
    <3>2. c = PushSub(kind, v[i]) /\ SubOk(kind, v[i]) /\ Here(c, b, p)
      BY <1>3, <1>13, <2>2, <2>3, <2>5
    <3>3. SubRead(kind, v[i], b, p)
      BY <2>7, <3>2, SubTrip
    <3>4. ShiftSub(kind, b, p) = IF p + Len(c) <= Len(b) + 1 THEN Read(v[i], p + Len(c)) ELSE Thrown
      BY <3>1, <3>2, <3>3, Zenon DEF SubRead
    <3>5. ShiftSub(kind, b, p) = IF q <= e THEN Read(v[i], q) ELSE Thrown
      BY <1>9, <2>7, <3>4
    <3>6. CASE ~(q <= e)
      <4>1. n # 0
        BY <2>7, <3>6
      <4>2. g[p] = Thrown
        BY <2>9, <2>11, <3>5, <3>6, ReadIs, Zenon DEF Step
      <4>3. PICK r : r = g[p]
        BY Zenon
      <4>4. ~r.ok
        BY <4>2, <4>3, ReadIs
      <4>5. TailRead(r, T, v, i, n)
        BY <4>1, <4>4, Zenon DEF TailRead
      <4> QED
        BY <2>1, <2>3, <4>3, <4>5, Zenon
    <3>7. CASE q <= e
      <4>1. ShiftSub(kind, b, p).ok /\ ShiftSub(kind, b, p).value = v[i] /\ ShiftSub(kind, b, p).next = q
        BY <3>5, <3>7, ReadIs
      <4>2. g[p] = IF ~g[q].ok THEN Thrown ELSE Read(<<v[i]>> \o g[q].value, g[q].next)
        BY <2>9, <2>11, <4>1, Zenon DEF Step
      <4>3. TailRead(g[q], T, v, i + 1, n)
        BY <1>17, <2>2, <2>4, <3>7
      <4>4. CASE g[q].ok
        <5>1. g[p] = Read(<<v[i]>> \o g[q].value, g[q].next)
          BY <4>2, <4>4, Zenon
        <5>2. i \in 1 .. Len(v)
          BY <1>2, <2>2
        <5>3. TailRead(Read(<<v[i]>> \o g[q].value, g[q].next), T, v, i, n)
          BY <1>14, <4>3, <4>4, <5>2, TailReadStep, Zenon
        <5> QED
          BY <2>1, <2>3, <5>1, <5>3, Zenon
      <4>5. CASE ~g[q].ok
        <5>1. n # 0
          BY <4>3, <4>5, Zenon DEF TailRead
        <5>2. g[p] = Thrown
          BY <4>2, <4>5, Zenon
        <5>3. PICK r : r = g[p]
          BY Zenon
        <5>4. ~r.ok
          BY <5>2, <5>3, ReadIs
        <5>5. TailRead(r, T, v, i, n)
          BY <5>1, <5>4, Zenon DEF TailRead
        <5> QED
          BY <2>1, <2>3, <5>3, <5>5, Zenon
      <4> QED
        BY <4>4, <4>5
    <3> QED
      BY <3>6, <3>7
  <2> QED
    BY <2>10, <2>11
<1>18. Nat \subseteq S
  <2> HIDE DEF S
  <2> QED
    BY <1>16, <1>17, NatSetInduction, Zenon
<1>19. N + 1 - N = 1 /\ N <= N /\ start + O[1] = start /\ start <= e
  BY <1>3, <1>7, <1>10
<1>20. TailRead(g[start], T, v, 1, n)
  <2>1. N \in S
    BY <1>3, <1>18
  <2>2. N <= N /\ start + O[N + 1 - N] <= e => TailRead(g[start + O[N + 1 - N]], T, v, N + 1 - N, n)
    BY <2>1
  <2> QED
    BY <1>19, <2>2
<1> QED
  BY <1>11, <1>20, Zenon DEF T

LEMMA PushSubsType ==
    ASSUME NEW kind \in OfRecords, NEW v \in Seq(FileRecord(kind)),
           \A i \in DOMAIN v : SubFits(kind, v[i])
    PROVE  PushSubs(kind, v) \in Seq(Byte)
<1>1. PICK s : s = Parts(kind, v)
  BY Zenon
<1>2. s \in Seq(Seq(Byte))
  BY <1>1, PartsType
<1>3. PICK O : Places(s, Len(s), FlattenSeq(s), O)
  BY <1>2, FlattenPlaces
<1>4. FlattenSeq(s) \in Seq(Byte)
  BY <1>3, Zenon DEF Places
<1> QED
  BY <1>1, <1>4, Zenon DEF PushSubs, Parts

\* Lists of file records arrive whole, or as their first records.
LEMMA RecordsTrip ==
    ASSUME NEW f, IsList(f), f.kind \in OfRecords, NEW v \in Seq(FileRecord(f.kind)), Fits(f, v),
           NEW b, NEW at, NEW n, Stands(Push(f, v), b, at, n)
    PROVE  Arrives(f, v, Shift(f, b, at), n)
<1>1. PICK F : F = PushSubs(f.kind, v)
  BY Zenon
<1>2. \A i \in DOMAIN v : SubFits(f.kind, v[i])
  BY DEF Fits, OfRecords, Numeric
<1>3. F \in Seq(Byte)
  BY <1>1, <1>2, PushSubsType
<1>4. PICK k : k = Len(F) % 256
  BY Zenon
<1>5. k \in Byte
  BY <1>3, <1>4, LenProperties, Quotients
<1>6. Push(f, v) = Join(<<k>>, F)
  BY <1>1, <1>4 DEF Push, OfRecords, Join
<1>7. /\ b \in Seq(Byte) /\ at \in Nat \ {0} /\ n \in Nat /\ at - 1 <= Len(b)
      /\ Len(b) \in Nat /\ Len(F) \in Nat /\ at + 1 \in Nat \ {0} /\ Continues(b, at + 1, F, 0, n)
      /\ Len(b) + n = at + Len(F)
  BY <1>3, <1>5, <1>6, BehindOne
<1>8. (Has(b, at, 1) <=> at <= Len(b)) /\ (n = 0 => at <= Len(b))
  BY <1>7 DEF Has
<1>9. Shift(f, b, at) = IF Has(b, at, 1) THEN ShiftSubs(f.kind, b, at + 1) ELSE Thrown
  BY DEF Shift, OfRecords
<1>10. CASE ~(at <= Len(b))
  <2>1. Shift(f, b, at) = Thrown /\ n # 0
    BY <1>8, <1>9, <1>10
  <2> QED
    BY <2>1, ReadIs DEF Arrives
<1>11. CASE at <= Len(b)
  <2>1. PICK start : start = at + 1
    BY Zenon
  <2>2. start \in Nat \ {0} /\ start <= Len(b) + 1 /\ Continues(b, start, PushSubs(f.kind, v), 0, n)
    BY <1>1, <1>7, <1>11, <2>1
  <2>3. PICK r : r = ShiftSubs(f.kind, b, start)
    BY Zenon
  <2>4. TailRead(r, FileRecord(f.kind), v, 1, n)
    BY <1>2, <1>7, <2>2, <2>3, RecordsRead
  <2>5. (r.ok => IsPrefix(r.value, v)) /\ (n = 0 => r.ok /\ r.value = v)
    BY <2>4, WholeTail, Zenon
  <2>6. Shift(f, b, at) = r
    BY <1>8, <1>9, <1>11, <2>1, <2>3
  <2>7. r.ok => Follows(f, v, r.value, n)
    BY <2>5 DEF Follows, OfRecords, Numeric
  <2>8. n = 0 => r.ok /\ Whole(f, v, r.value)
    BY <2>5 DEF Whole, OfRecords
  <2>9. n = 0 => Fits(f, r.value)
    BY <2>5
  <2> QED
    BY <2>6, <2>7, <2>8, <2>9, Zenon DEF Arrives
<1> QED
  BY <1>10, <1>11

\* How many bytes a value takes at least.
Least(f) ==
    CASE f.kind \in {"word", "coil"} -> 2
      [] f.kind \in {"octet", "limit", "flags"} -> 1
      [] f.kind = "counted" -> 1 + f.lo
      [] f.kind = "registers" -> 3 + f.lo
      [] f.kind = "rest" -> f.lo
      [] f.kind = "reads" -> 8
      [] f.kind = "writes" -> 10
      [] OTHER -> 0

\* How long the bytes of a file record are,
LEMMA SubLong ==
    ASSUME NEW kind, NEW s, SubOk(kind, s)
    PROVE  /\ kind = "reads" => Len(PushSub(kind, s)) >= 7
           /\ kind = "writes" => Len(PushSub(kind, s)) >= 9
<1>1. s \in FileRecord(kind) /\ SubFits(kind, s) /\ kind \in OfRecords
  BY DEF SubOk
<1>2. CASE kind = "reads"
  <2>1. s.file \in FileNumber /\ s.record \in RecordNumber /\ s.length \in ReadLength
    BY <1>1, <1>2 DEF SubFits
  <2>2. WordSized(s.file) /\ WordSized(s.record) /\ WordSized(s.length)
    BY <2>1, Ranges DEF WordSized
  <2>3. PICK h : h = <<6>> \o Word(s.file) \o Word(s.record) \o Word(s.length)
    BY Zenon
  <2>4. Len(h) = 7
    BY <2>2, <2>3, RecordHeader DEF IsHeader
  <2>5. PushSub(kind, s) = h
    BY <1>2, <2>3, Zenon DEF PushSub
  <2>6. PICK l : l = Len(h)
    BY Zenon
  <2>7. l >= 7
    BY <2>4, <2>6
  <2>8. Len(PushSub(kind, s)) = l
    BY <2>5, <2>6, Zenon
  <2>9. kind # "writes"
    BY <1>2
  <2> QED
    BY <2>7, <2>8, <2>9, Zenon
<1>3. CASE kind = "writes"
  <2>1. s.file \in FileNumber /\ s.record \in RecordNumber /\ Even(s.data)
    BY <1>1, <1>3 DEF SubFits
  <2>2. PICK d : d = s.data
    BY Zenon
  <2>3. d \in Seq(Byte)
    BY <1>1, <1>3, <2>2, SubIs
  <2>4. PICK l : l = Len(d)
    BY Zenon
  <2>5. l \in DataLength /\ l % 2 = 0
    BY <2>1, <2>2, <2>4, Zenon DEF Even
  <2>6. l \in Nat /\ 2 <= l /\ l <= 240 /\ WordSized(s.file) /\ WordSized(s.record)
    BY <2>1, <2>5, Ranges DEF WordSized
  <2>7. PICK x : x = l \div 2
    BY Zenon
  <2>8. WordSized(x)
    BY <2>6, <2>7 DEF WordSized
  <2>9. PICK h : h = <<6>> \o Word(s.file) \o Word(s.record) \o Word(x)
    BY Zenon
  <2>10. IsHeader(h, s.file, s.record, x)
    BY <2>6, <2>8, <2>9, RecordHeader
  <2>11. h \in Seq(Byte)
    BY <2>10 DEF IsHeader
  <2>12. Len(h) = 7
    BY <2>10 DEF IsHeader
  <2>13. PICK c : c = PushSub(kind, s)
    BY Zenon
  <2>14. c = Join(h, d)
    <3>1. c = PushSub("writes", s)
      BY <1>3, <2>13, Zenon
    <3> QED
      BY <2>2, <2>4, <2>7, <2>9, <3>1, Zenon DEF PushSub, Join
  <2>15. Len(c) = Len(h) + Len(d)
    BY <2>3, <2>11, <2>14, JoinIs
  <2>16. Len(c) = 7 + l
    BY <2>4, <2>12, <2>15
  <2>17. PICK z : z = Len(c)
    BY Zenon
  <2>18. z >= 9
    BY <2>6, <2>16, <2>17
  <2>19. kind # "reads"
    BY <1>3
  <2> QED
    BY <2>13, <2>17, <2>18, <2>19, Zenon
<1> QED
  BY <1>2, <1>3

\* and those of a list of them that is not empty.
LEMMA RecordsLong ==
    ASSUME NEW kind \in OfRecords, NEW v \in Seq(FileRecord(kind)), v # <<>>,
           \A i \in DOMAIN v : SubFits(kind, v[i])
    PROVE  /\ kind = "reads" => Len(PushSubs(kind, v)) >= 7
           /\ kind = "writes" => Len(PushSubs(kind, v)) >= 9
<1>1. PICK s : s = Parts(kind, v)
  BY Zenon
<1>2. PICK N : N = Len(v)
  BY Zenon
<1>3. /\ Parts(kind, v) \in Seq(Seq(Byte)) /\ Len(Parts(kind, v)) = Len(v) /\ Len(v) \in Nat
      /\ \A i \in 1 .. Len(v) : SubOk(kind, v[i]) /\ Parts(kind, v)[i] = PushSub(kind, v[i])
  BY PartsType, Zenon
<1>4. s \in Seq(Seq(Byte)) /\ Len(s) = N /\ N \in Nat /\ N # 0
  <2>1. N # 0
    BY <1>2, EmptySeq
  <2> QED
    BY <1>1, <1>2, <1>3, <2>1, Zenon
<1>5. 1 \in 1 .. N /\ 1 \in 1 .. N + 1 /\ 2 \in 1 .. N + 1 /\ 1 + 1 = 2
  BY <1>4
<1>6. PICK F : F = FlattenSeq(s)
  BY Zenon
<1>7. PushSubs(kind, v) = F
  BY <1>1, <1>6, Zenon DEF PushSubs, Parts
<1>8. PICK O : Places(s, N, F, O)
  BY <1>4, <1>6, FlattenPlaces
<1>9. O[1] = 0 /\ O[1 + 1] = O[1] + Len(s[1]) /\ O[1 + 1] <= Len(F)
  BY <1>5, <1>8, Zenon DEF Places
<1>10. SubOk(kind, v[1]) /\ s[1] = PushSub(kind, v[1])
  BY <1>1, <1>2, <1>3, <1>5, Zenon
<1>11. PICK l : l = Len(PushSub(kind, v[1]))
  BY Zenon
<1>12. l \in Nat /\ (kind = "reads" => l >= 7) /\ (kind = "writes" => l >= 9)
  <2>1. Len(PushSub(kind, v[1])) \in Nat
    BY <1>2, <1>5, PartsType, Zenon
  <2> QED
    BY <1>10, <1>11, <2>1, SubLong
<1>13. 0 + l <= Len(F)
  BY <1>9, <1>10, <1>11, Zenon
<1>14. Len(F) \in Nat
  <2>1. F \in Seq(Byte)
    BY <1>8, Zenon DEF Places
  <2> QED
    BY <2>1, LenProperties
<1>15. PICK z : z = Len(F)
  BY Zenon
<1> QED
  BY <1>7, <1>12, <1>13, <1>14, <1>15

\* A value that goes with its field.
IsField(f) == IsNumber(f) \/ IsList(f)
Right(f, v) == v \in Type(f) /\ Fits(f, v)

LEMMA ListTypes ==
    ASSUME NEW f, IsList(f), NEW v, Right(f, v)
    PROVE  \/ f.kind \in Sequences \ OfBits /\ v \in Seq(Byte)
           \/ f.kind \in OfBits /\ v \in Seq({0, 1})
           \/ f.kind \in OfRecords /\ v \in Seq(FileRecord(f.kind))
BY DEF IsList, Right, Type, Sequences, OfBits, OfRecords, Numeric

LEMMA NumberRight ==
    ASSUME NEW f, IsNumber(f), NEW v, Right(f, v)
    PROVE  v \in f.lo .. f.hi /\ v \in Nat
<1>1. f.lo \in Nat /\ f.hi \in Nat /\ f.kind \in Numeric
  BY DEF IsNumber
<1>2. v \in f.lo .. f.hi
  <2>1. Fits(f, v)
    BY Zenon DEF Right
  <2>2. Fits(f, v) <=> v \in f.lo .. f.hi
    BY <1>1 DEF Fits, Numeric, OfRecords
  <2> QED
    BY <2>1, <2>2
<1> QED
  BY <1>1, <1>2

LEMMA NumberWhole ==
    ASSUME NEW f, IsNumber(f)
    PROVE  Width(f) \in {1, 2} /\ Least(f) = Width(f)
BY DEF IsNumber, Numeric, Width, Least

LEMMA JoinOne ==
    ASSUME NEW k \in Byte, NEW v \in Seq(Byte), NEW s, s = <<k>> \o v
    PROVE  s \in Seq(Byte) /\ Len(s) = 1 + Len(v)
<1>1. PICK c : c = <<k>>
  BY Zenon
<1>2. c \in Seq(Byte) /\ Len(c) = 1
  BY <1>1, One
<1>3. s = Join(c, v)
  BY <1>1 DEF Join
<1> QED
  BY <1>2, <1>3, JoinIs

Three(l, k, v) == Word(l) \o <<k>> \o v
LEMMA JoinThree ==
    ASSUME NEW l, WordSized(l), NEW k \in Byte, NEW v \in Seq(Byte), NEW s, s = Three(l, k, v)
    PROVE  s \in Seq(Byte) /\ Len(s) = 3 + Len(v)
<1>1. PICK c : c = <<k>>
  BY Zenon
<1>2. c \in Seq(Byte) /\ Len(c) = 1
  BY <1>1, One
<1>3. PICK a : a = Word(l)
  BY Zenon
<1>4. a \in Seq(Byte) /\ Len(a) = 2
  BY <1>3, WordTrip DEF WordSized
<1>5. s = Join(Join(a, c), v)
  BY <1>1, <1>3 DEF Join, Three
<1>6. PICK h : h = Join(a, c)
  BY Zenon
<1>7. a \in Seq(Byte) /\ c \in Seq(Byte)
  BY <1>2, <1>4
<1>8. h \in Seq(Byte) /\ Len(h) = Len(a) + Len(c)
  BY <1>6, <1>7, JoinIs
<1>9. h \in Seq(Byte)
  BY <1>8
<1>10. s = Join(h, v)
  BY <1>5, <1>6, Zenon
<1>11. s \in Seq(Byte) /\ Len(s) = Len(h) + Len(v)
  BY <1>9, <1>10, JoinIs, Zenon
<1>12. Len(h) = 3
  BY <1>2, <1>4, <1>8
<1> QED
  BY <1>11, <1>12

Pushed(f, v) == Push(f, v) \in Seq(Byte) /\ Len(Push(f, v)) >= Least(f)

\* The bytes of a field, and how many there are at least: of bytes,
LEMMA BytesPushed ==
    ASSUME NEW f, IsList(f), f.kind \in Sequences \ OfBits, NEW v \in Seq(Byte), Fits(f, v)
    PROVE  Pushed(f, v)
<1>1. f.kind \in Sequences
  OBVIOUS
<1>2. PICK l : l = Len(v)
  BY Zenon
<1>3. l \in Nat /\ f.lo \in Nat /\ f.lo <= l /\ l <= f.hi /\ f.hi \in Nat
  <2>1. Len(v) \in Nat /\ Len(v) \in f.lo .. f.hi /\ f.lo \in Nat /\ f.hi \in Nat
    BY <1>1, LenProperties, FitsIs DEF IsList
  <2> QED
    BY <1>2, <2>1
<1>4. PICK s : s = Push(f, v)
  BY Zenon
<1>5. CASE f.kind = "counted"
  <2>1. PICK k : k = Len(v) % 256
    BY Zenon
  <2>2. k \in Byte
    BY <1>2, <1>3, <2>1, Quotients
  <2>3. s = <<k>> \o v
    BY <1>4, <1>5, <2>1 DEF Push, OfRecords
  <2>4. s \in Seq(Byte) /\ Len(s) = 1 + Len(v)
    BY <2>2, <2>3, JoinOne
  <2>5. Least(f) = 1 + f.lo
    BY <1>5 DEF Least
  <2> QED
    BY <1>2, <1>3, <1>4, <2>4, <2>5 DEF Pushed
<1>6. CASE f.kind = "identity"
  <2>1. PICK k : k = (Len(v) - 2) % 256
    BY Zenon
  <2>2. k \in Byte
    <3>1. l - 2 \in Nat
      BY <1>3, <1>6 DEF IsList
    <3> QED
      BY <1>2, <2>1, <3>1, Quotients
  <2>3. s = <<k>> \o v
    BY <1>4, <1>6, <2>1 DEF Push, OfRecords
  <2>4. s \in Seq(Byte) /\ Len(s) = 1 + Len(v)
    BY <2>2, <2>3, JoinOne
  <2>5. Least(f) = 0
    BY <1>6 DEF Least
  <2> QED
    BY <1>2, <1>3, <1>4, <2>4, <2>5 DEF Pushed
<1>7. CASE f.kind = "registers"
  <2>1. PICK k : k = Len(v) % 256
    BY Zenon
  <2>2. k \in Byte
    BY <1>2, <1>3, <2>1, Quotients
  <2>3. PICK x : x = Len(v) \div 2
    BY Zenon
  <2>4. WordSized(x)
    <3>1. l < 256
      BY <1>3, <1>7 DEF IsList
    <3>2. x = l \div 2
      BY <1>2, <2>3
    <3> QED
      BY <1>3, <3>1, <3>2 DEF WordSized
  <2>5. s = Three(x, k, v)
    BY <1>4, <1>7, <2>1, <2>3 DEF Push, OfRecords, Three
  <2>6. s \in Seq(Byte) /\ Len(s) = 3 + Len(v)
    BY <2>2, <2>4, <2>5, JoinThree
  <2>7. Least(f) = 3 + f.lo
    BY <1>7 DEF Least
  <2> QED
    BY <1>2, <1>3, <1>4, <2>6, <2>7 DEF Pushed
<1>8. CASE f.kind \in {"rest", "shifted"}
  <2>1. s = v
    BY <1>4, <1>8 DEF Push, OfRecords
  <2>2. Least(f) \in {0, f.lo}
    BY <1>8 DEF Least
  <2> QED
    BY <1>2, <1>3, <1>4, <2>1, <2>2 DEF Pushed
<1>9. CASE f.kind = "generic"
  <2>1. v # <<>>
    BY <1>2, <1>3, <1>9, EmptySeq DEF IsList
  <2>2. Tail(v) \in Seq(Byte) /\ Len(Tail(v)) = l - 1
    BY <1>2, <2>1, HeadTailProperties
  <2>3. s = Tail(v)
    BY <1>4, <1>9 DEF Push, OfRecords
  <2>4. Least(f) = 0 /\ f.lo = 1
    BY <1>9 DEF Least, IsList
  <2> QED
    BY <1>3, <1>4, <2>2, <2>3, <2>4 DEF Pushed
<1> QED
  BY <1>5, <1>6, <1>7, <1>8, <1>9 DEF Sequences, OfBits

\* of bits,
LEMMA BitsPushed ==
    ASSUME NEW f, IsList(f), f.kind \in OfBits, NEW v \in Seq({0, 1}), Fits(f, v)
    PROVE  Pushed(f, v)
<1>1. f.kind \in Sequences
  BY DEF Sequences, OfBits
<1>2. PICK l : l = Len(v)
  BY Zenon
<1>3. l \in Nat /\ l <= 2000
  <2>1. Len(v) \in Nat /\ Len(v) \in f.lo .. f.hi /\ f.lo \in Nat /\ f.hi \in Nat
    BY <1>1, LenProperties, FitsIs DEF IsList
  <2>2. f.hi <= 2000
    BY <2>1 DEF IsList, OfBits
  <2>3. PICK h : h = f.hi
    BY Zenon
  <2> QED
    BY <1>2, <2>1, <2>2, <2>3
<1>4. PICK s : s = Push(f, v)
  BY Zenon
<1>5. PICK p : p = PushBits(v)
  BY Zenon
<1>6. p \in Seq(Byte)
  BY <1>5, PushBitsType
<1>7. PICK k : k = CeilDiv(Len(v), 8) % 256
  BY Zenon
<1>8. k \in Byte
  BY <1>7, PushBitsType, Quotients
<1>9. Len(p) \in Nat
  BY <1>6, LenProperties
<1>10. Least(f) = 0
  BY DEF Least, OfBits
<1>11. CASE f.kind = "states"
  <2>1. s = <<k>> \o p
    BY <1>4, <1>5, <1>7, <1>11 DEF Push, OfRecords
  <2>2. s \in Seq(Byte) /\ Len(s) = 1 + Len(p)
    BY <1>6, <1>8, <2>1, JoinOne
  <2> QED
    BY <1>4, <1>9, <1>10, <2>2 DEF Pushed
<1>12. CASE f.kind = "coils"
  <2>1. s = Three(l, k, p)
    BY <1>2, <1>4, <1>5, <1>7, <1>12 DEF Push, OfRecords, Three
  <2>2. WordSized(l)
    BY <1>3 DEF WordSized
  <2>3. s \in Seq(Byte) /\ Len(s) = 3 + Len(p)
    BY <1>6, <1>8, <2>1, <2>2, JoinThree
  <2> QED
    BY <1>4, <1>9, <1>10, <2>3 DEF Pushed
<1> QED
  BY <1>11, <1>12 DEF OfBits

\* of file records.
LEMMA RecordsPushed ==
    ASSUME NEW f, IsList(f), f.kind \in OfRecords, NEW v \in Seq(FileRecord(f.kind)), Fits(f, v)
    PROVE  /\ Push(f, v) \in Seq(Byte)
           /\ v # <<>> \/ f.kind = "data" => Pushed(f, v)
<1>1. PICK F : F = PushSubs(f.kind, v)
  BY Zenon
<1>2. \A i \in DOMAIN v : SubFits(f.kind, v[i])
  BY DEF Fits, OfRecords, Numeric
<1>3. F \in Seq(Byte)
  BY <1>1, <1>2, PushSubsType
<1>4. PICK k : k = Len(F) % 256
  BY Zenon
<1>5. k \in Byte
  BY <1>3, <1>4, LenProperties, Quotients
<1>6. PICK s : s = Push(f, v)
  BY Zenon
<1>7. s = <<k>> \o F
  BY <1>1, <1>4, <1>6 DEF Push, OfRecords
<1>8. s \in Seq(Byte) /\ Len(s) = 1 + Len(F)
  BY <1>3, <1>5, <1>7, JoinOne
<1>9. Len(F) \in Nat
  BY <1>3, LenProperties
<1>10. v # <<>> => (f.kind = "reads" => Len(F) >= 7) /\ (f.kind = "writes" => Len(F) >= 9)
  BY <1>1, <1>2, RecordsLong
<1>11. /\ f.kind = "reads" => Least(f) = 8
       /\ f.kind = "writes" => Least(f) = 10
       /\ f.kind = "data" => Least(f) = 0
  BY DEF Least
<1>12. ASSUME v # <<>> \/ f.kind = "data" PROVE Len(s) >= Least(f)
  <2>1. PICK z : z = Len(F)
    BY Zenon
  <2>2. Len(s) = 1 + z /\ z \in Nat
    BY <1>8, <1>9, <2>1
  <2>3. CASE f.kind = "reads"
    BY <1>10, <1>11, <1>12, <2>1, <2>2, <2>3
  <2>4. CASE f.kind = "writes"
    BY <1>10, <1>11, <1>12, <2>1, <2>2, <2>4
  <2>5. CASE f.kind = "data"
    BY <1>11, <2>2, <2>5
  <2> QED
    BY <2>3, <2>4, <2>5 DEF OfRecords
<1> QED
  BY <1>6, <1>8, <1>12 DEF Pushed

\* A list written to the end of a buffer is read back as Arrives says.
LEMMA ListTrip ==
    ASSUME NEW f, IsList(f), NEW v, Right(f, v)
    PROVE  /\ Push(f, v) \in Seq(Byte)
           /\ v # <<>> \/ f.kind \notin {"reads", "writes"} => Pushed(f, v)
           /\ \A b, at, n : Stands(Push(f, v), b, at, n) => Arrives(f, v, Shift(f, b, at), n)
<1>1. Fits(f, v)
  BY DEF Right
<1>2. CASE f.kind \in Sequences \ OfBits /\ v \in Seq(Byte)
  <2>1. Pushed(f, v)
    BY <1>1, <1>2, BytesPushed
  <2>2. f.kind \in {"counted", "registers", "rest", "shifted", "generic", "identity"}
    BY <1>2 DEF Sequences, OfBits
  <2>3. ASSUME NEW b, NEW at, NEW n, Stands(Push(f, v), b, at, n) PROVE Arrives(f, v, Shift(f, b, at), n)
    BY <1>1, <1>2, <2>2, <2>3, CountedTrip, RegistersTrip, RestTrip, ShiftedTrip,
       GenericTrip, IdentityTrip
  <2> QED
    BY <2>1, <2>3 DEF Pushed
<1>3. CASE f.kind \in OfBits /\ v \in Seq({0, 1})
  <2>1. Pushed(f, v)
    BY <1>1, <1>3, BitsPushed
  <2>2. f.kind \in {"states", "coils"}
    BY <1>3 DEF OfBits
  <2>3. ASSUME NEW b, NEW at, NEW n, Stands(Push(f, v), b, at, n) PROVE Arrives(f, v, Shift(f, b, at), n)
    BY <1>1, <1>3, <2>2, <2>3, CoilsTrip, StatesTrip
  <2> QED
    BY <2>1, <2>3 DEF Pushed
<1>4. CASE f.kind \in OfRecords /\ v \in Seq(FileRecord(f.kind))
  <2>1. /\ Push(f, v) \in Seq(Byte)
        /\ v # <<>> \/ f.kind = "data" => Pushed(f, v)
    BY <1>1, <1>4, RecordsPushed
  <2>2. f.kind \notin {"reads", "writes"} => f.kind = "data"
    BY <1>4 DEF OfRecords
  <2>3. ASSUME NEW b, NEW at, NEW n, Stands(Push(f, v), b, at, n) PROVE Arrives(f, v, Shift(f, b, at), n)
    BY <1>1, <1>4, <2>3, RecordsTrip
  <2> QED
    BY <2>1, <2>2, <2>3
<1> QED
  BY <1>2, <1>3, <1>4, ListTypes

\* A number at the end of a buffer.
LEMMA LastNumber ==
    ASSUME NEW f, IsNumber(f), NEW v, Right(f, v)
    PROVE  /\ Pushed(f, v)
           /\ \A b, at, n : Stands(Push(f, v), b, at, n) => Arrives(f, v, Shift(f, b, at), n)
<1>1. v \in f.lo .. f.hi /\ Fits(f, v)
  BY NumberRight DEF Right
<1>2. Width(f) \in {1, 2} /\ Least(f) = Width(f)
  BY NumberWhole
<1>3. Push(f, v) \in Seq(Byte) /\ Len(Push(f, v)) = Width(f)
  <2>1. PICK b : b = <<>>
    BY Zenon
  <2>2. b \in Seq(Byte) /\ Len(b) = 0
    BY <2>1, EmptySeq
  <2>3. PICK at : at = 1
    BY Zenon
  <2>4. \A i \in 1 .. Width(f) : ~((at - 1) + i <= Len(b))
    BY <1>2, <2>2, <2>3
  <2>5. at \in Nat \ {0} /\ b \in Seq(Byte)
    BY <2>2, <2>3
  <2> QED
    BY <1>1, <2>4, <2>5, NumberTrip
<1>4. Pushed(f, v)
  BY <1>2, <1>3 DEF Pushed
<1>5. ASSUME NEW b, NEW at, NEW n, Stands(Push(f, v), b, at, n) PROVE Arrives(f, v, Shift(f, b, at), n)
  <2>1. /\ b \in Seq(Byte) /\ at \in Nat \ {0} /\ n \in Nat
        /\ Len(b) + n = (at - 1) + Width(f)
        /\ \A i \in 1 .. Width(f) : (at - 1) + i <= Len(b) => b[(at - 1) + i] = Push(f, v)[i]
    BY <1>3, <1>5 DEF Stands
  <2>2. Shift(f, b, at) = IF at + Width(f) <= Len(b) + 1 THEN Read(v, at + Width(f)) ELSE Thrown
    BY <1>1, <2>1, NumberTrip
  <2>3. n = 0 => at + Width(f) <= Len(b) + 1
    <3>1. Len(b) \in Nat
      BY <2>1, LenProperties
    <3> QED
      BY <1>2, <2>1, <3>1
  <2>4. f.kind \in Numeric
    BY DEF IsNumber
  <2>5. PICK x : x = at + Width(f)
    BY Zenon
  <2>6. Arrives(f, v, Read(v, x), n)
    BY <1>1, <2>4, ReadIs DEF Arrives, Whole, Follows, Numeric
  <2>7. n # 0 => Arrives(f, v, Thrown, n)
    BY ReadIs, Zenon DEF Arrives
  <2> QED
    BY <2>2, <2>3, <2>5, <2>6, <2>7, Zenon
<1> QED
  BY <1>4, <1>5

----------------------------------------------------------------------------
\* Every field and every message

\* Every field arrives as Arrives says, whatever its kind.
LEMMA FieldTrip ==
    ASSUME NEW f, IsField(f), NEW v, Right(f, v)
    PROVE  /\ Push(f, v) \in Seq(Byte)
           /\ v # <<>> \/ f.kind \notin {"reads", "writes"} => Pushed(f, v)
           /\ \A b, at, n : Stands(Push(f, v), b, at, n) => Arrives(f, v, Shift(f, b, at), n)
BY ListTrip, LastNumber, Zenon DEF IsField, Pushed

\* What new does with no, one or two arguments.
LEMMA NewNone ==
    ASSUME NEW c
    PROVE  New(c, <<>>) = Accepted(<<>>)
<1>1. PICK m : m = <<>>
  BY Zenon
<1>2. DOMAIN m = {}
  BY <1>1
<1>3. PICK p : p = [i \in DOMAIN m |-> Prepare(c.fields[i], m[i])]
  BY Zenon
<1>4. p = <<>>
  BY <1>2, <1>3
<1>5. New(c, m) = Accepted(p)
  BY <1>2, <1>3 DEF New
<1> QED
  BY <1>1, <1>4, <1>5, Zenon

\* new of a class of one field,
LEMMA NewOne ==
    ASSUME NEW c, NEW f, c.fields = <<f>>, NEW v
    PROVE  New(c, <<v>>) = IF /\ c.given => v \notin {Undefined, 0}
                              /\ Fits(f, Prepare(f, v))
                           THEN Accepted(<<Prepare(f, v)>>) ELSE Rejected
<1>1. PICK m : m = <<v>>
  BY Zenon
<1>2. DOMAIN m = {1} /\ m[1] = v
  BY <1>1
<1>3. PICK p : p = [i \in DOMAIN m |-> Prepare(c.fields[i], m[i])]
  BY Zenon
<1>4. PICK w : w = Prepare(f, v)
  BY Zenon
<1>5. c.fields[1] = f
  OBVIOUS
<1>6. p[1] = w
  BY <1>2, <1>3, <1>4, <1>5, Zenon
<1>7. p = <<w>>
  <2>1. p = [i \in 1 .. 1 |-> w]
    <3>1. \A i \in DOMAIN m : Prepare(c.fields[i], m[i]) = w
      BY <1>2, <1>4, <1>5, Zenon
    <3>2. p = [i \in DOMAIN m |-> w]
      BY <1>3, <3>1, Zenon
    <3> QED
      BY <1>2, <3>2
  <2> QED
    BY <2>1
<1>8. New(c, m) = IF /\ c.given => \A i \in DOMAIN m : m[i] \notin {Undefined, 0}
                     /\ \A i \in DOMAIN m : Fits(c.fields[i], p[i])
                  THEN Accepted(p) ELSE Rejected
  BY <1>3, Zenon DEF New
<1>9. (\A i \in DOMAIN m : m[i] \notin {Undefined, 0}) <=> v \notin {Undefined, 0}
  BY <1>2, Zenon
<1>10. (\A i \in DOMAIN m : Fits(c.fields[i], p[i])) <=> Fits(f, w)
  BY <1>2, <1>6, <1>5, Zenon
<1> QED
  BY <1>1, <1>4, <1>7, <1>8, <1>9, <1>10, Zenon

\* and of two.
LEMMA NewTwo ==
    ASSUME NEW c, NEW f, NEW g, c.fields = <<f, g>>, NEW v, NEW w
    PROVE  New(c, <<v, w>>) = IF /\ c.given => v \notin {Undefined, 0} /\ w \notin {Undefined, 0}
                                 /\ Fits(f, Prepare(f, v)) /\ Fits(g, Prepare(g, w))
                              THEN Accepted(<<Prepare(f, v), Prepare(g, w)>>) ELSE Rejected
<1>1. PICK m : m = <<v, w>>
  BY Zenon
<1>2. DOMAIN m = {1, 2} /\ m[1] = v /\ m[2] = w
  BY <1>1
<1>3. PICK p : p = [i \in DOMAIN m |-> Prepare(c.fields[i], m[i])]
  BY Zenon
<1>4. PICK x : x = Prepare(f, v)
  BY Zenon
<1>5. PICK y : y = Prepare(g, w)
  BY Zenon
<1>6. c.fields[1] = f /\ c.fields[2] = g
  OBVIOUS
<1>7. p[1] = x /\ p[2] = y
  BY <1>2, <1>3, <1>4, <1>5, <1>6, Zenon
<1>8. p = <<x, y>>
  <2>1. p = [i \in 1 .. 2 |-> p[i]]
    <3>1. p = [i \in DOMAIN m |-> p[i]]
      BY <1>3
    <3>2. DOMAIN m = 1 .. 2
      BY <1>2
    <3> QED
      BY <3>1, <3>2, Zenon
  <2> QED
    BY <1>7, <2>1
<1>9. New(c, m) = IF /\ c.given => \A i \in DOMAIN m : m[i] \notin {Undefined, 0}
                     /\ \A i \in DOMAIN m : Fits(c.fields[i], p[i])
                  THEN Accepted(p) ELSE Rejected
  BY <1>3, Zenon DEF New
<1>10. (\A i \in DOMAIN m : m[i] \notin {Undefined, 0}) <=> v \notin {Undefined, 0} /\ w \notin {Undefined, 0}
  BY <1>2, Zenon
<1>11. (\A i \in DOMAIN m : Fits(c.fields[i], p[i])) <=> Fits(f, x) /\ Fits(g, y)
  BY <1>2, <1>7, <1>6, Zenon
<1> QED
  BY <1>1, <1>4, <1>5, <1>8, <1>9, <1>10, <1>11, Zenon

LEMMA Appended ==
    ASSUME NEW v, NEW y
    PROVE  Append(<<v>>, y) = <<v, y>>
<1>1. PICK S : S = {v, y}
  BY Zenon
<1>2. PICK s : s = <<v>>
  BY Zenon
<1>3. s \in Seq(S)
  BY <1>1, <1>2
<1>4. Len(s) = 1 /\ s[1] = v /\ 1 \in 1 .. Len(s) /\ Len(s) + 1 = 2
  BY <1>2
<1>5. y \in S
  BY <1>1
<1>6. PICK t : t = Append(s, y)
  BY Zenon
<1>7. t \in Seq(S) /\ Len(t) = 2 /\ t[1] = v /\ t[2] = y
  <2>1. t \in Seq(S) /\ Len(t) = Len(s) + 1 /\ t[Len(s) + 1] = y
    BY <1>3, <1>5, <1>6, AppendProperties, Zenon
  <2>2. t[1] = s[1]
    <3>1. \A i \in 1 .. Len(s) : Append(s, y)[i] = s[i]
      BY <1>3, <1>5, AppendProperties
    <3>2. 1 \in 1 .. Len(s)
      BY <1>4, Zenon
    <3> QED
      BY <1>6, <3>1, <3>2, Zenon
  <2> QED
    BY <1>4, <2>1, <2>2, Zenon
<1>8. t = <<v, y>>
  BY <1>7
<1> QED
  BY <1>2, <1>6, <1>8, Zenon

\* What fromBuffer shifts out of a buffer, for no, one or two fields.
LEMMA ShiftNone ==
    ASSUME NEW c, c.fields = <<>>, NEW b
    PROVE  ShiftAll(c, b) = Read(<<>>, 2)
<1>1. 1 \notin DOMAIN c.fields /\ 2 \notin DOMAIN c.fields
  OBVIOUS
<1> QED
  BY <1>1, Zenon DEF ShiftAll, ShiftField

\* fromBuffer of one field,
LEMMA ShiftOne ==
    ASSUME NEW c, NEW f, c.fields = <<f>>, NEW b, NEW r, r = Shift(f, b, 2)
    PROVE  ShiftAll(c, b) = IF r.ok THEN Read(<<r.value>>, r.next) ELSE Thrown
<1>1. 1 \in DOMAIN c.fields /\ 2 \notin DOMAIN c.fields /\ c.fields[1] = f
  OBVIOUS
<1>2. PICK e : e = Read(<<>>, 2)
  BY Zenon
<1>3. e.ok /\ e.value = <<>> /\ e.next = 2
  BY <1>2, ReadIs
<1>4. Append(<<>>, r.value) = <<r.value>>
  OBVIOUS
<1>5. ShiftField(c, b, 1, e) = IF r.ok THEN Read(<<r.value>>, r.next) ELSE Thrown
  BY <1>1, <1>3, <1>4, Zenon DEF ShiftField
<1>6. \A d : ShiftField(c, b, 2, d) = d
  BY <1>1, Zenon DEF ShiftField
<1> QED
  BY <1>2, <1>5, <1>6, Zenon DEF ShiftAll

\* and of two.
LEMMA ShiftTwo ==
    ASSUME NEW c, NEW f, NEW g, c.fields = <<f, g>>, NEW b
    PROVE  /\ Shift(f, b, 2) = Thrown => ShiftAll(c, b) = Thrown
           /\ \A v, x, r : Shift(f, b, 2) = Read(v, x) /\ r = Shift(g, b, x) =>
                ShiftAll(c, b) = IF r.ok THEN Read(<<v, r.value>>, r.next) ELSE Thrown
<1>1. 1 \in DOMAIN c.fields /\ 2 \in DOMAIN c.fields /\ c.fields[1] = f /\ c.fields[2] = g
  OBVIOUS
<1>2. PICK e : e = Read(<<>>, 2)
  BY Zenon
<1>3. e.ok /\ e.value = <<>> /\ e.next = 2
  BY <1>2, ReadIs
<1>4. ~Thrown.ok
  BY ReadIs
<1>5. ASSUME Shift(f, b, 2) = Thrown PROVE ShiftAll(c, b) = Thrown
  <2>1. ShiftField(c, b, 1, e) = Thrown
    BY <1>1, <1>3, <1>4, <1>5, Zenon DEF ShiftField
  <2>2. ShiftField(c, b, 2, Thrown) = Thrown
    BY <1>4, Zenon DEF ShiftField
  <2> QED
    BY <1>2, <2>1, <2>2, Zenon DEF ShiftAll
<1>6. ASSUME NEW v, NEW x, NEW r, Shift(f, b, 2) = Read(v, x), r = Shift(g, b, x)
      PROVE  ShiftAll(c, b) = IF r.ok THEN Read(<<v, r.value>>, r.next) ELSE Thrown
  <2>1. PICK q : q = Shift(f, b, 2)
    BY Zenon
  <2>2. q.ok /\ q.value = v /\ q.next = x
    BY <1>6, <2>1, ReadIs
  <2>3. Append(<<>>, v) = <<v>> /\ \A y : Append(<<v>>, y) = <<v, y>>
    <3>1. Append(<<>>, v) = <<v>>
      OBVIOUS
    <3> QED
      BY <3>1, Appended, Zenon
  <2>4. PICK d : d = Read(<<v>>, x)
    BY Zenon
  <2>5. d.ok /\ d.value = <<v>> /\ d.next = x
    BY <2>4, ReadIs
  <2>6. ShiftField(c, b, 1, e) = d
    BY <1>1, <1>3, <2>1, <2>2, <2>3, <2>4, Zenon DEF ShiftField
  <2>7. ShiftField(c, b, 2, d) = IF r.ok THEN Read(<<v, r.value>>, r.next) ELSE Thrown
    BY <1>1, <1>6, <2>3, <2>5, Zenon DEF ShiftField
  <2> QED
    BY <1>2, <2>6, <2>7, Zenon DEF ShiftAll
<1> QED
  BY <1>5, <1>6

\* The rest of what stands at a place stands behind its beginning.
LEMMA Onward ==
    ASSUME NEW p \in Seq(Byte), NEW v \in Seq(Byte), NEW b, NEW at, NEW n, Stands(Join(p, v), b, at, n)
    PROVE  /\ b \in Seq(Byte) /\ at \in Nat \ {0} /\ n \in Nat /\ Here(p, b, at)
           /\ at + Len(p) <= Len(b) + 1 => Stands(v, b, at + Len(p), n)
           /\ n = 0 => at + Len(p) <= Len(b) + 1
<1>1. /\ b \in Seq(Byte) /\ at \in Nat \ {0} /\ n \in Nat /\ at - 1 <= Len(b)
      /\ Len(b) \in Nat /\ Len(v) \in Nat /\ Len(p) \in Nat
      /\ at + Len(p) \in Nat \ {0} /\ Continues(b, at + Len(p), v, 0, n)
      /\ Len(b) + n = (at - 1) + Len(p) + Len(v)
      /\ \A i \in 1 .. Len(p) : (at - 1) + i <= Len(b) => b[(at - 1) + i] = p[i]
  BY Behind
<1>2. Here(p, b, at)
  BY <1>1, Zenon DEF Here
<1>3. PICK x : x = at + Len(p)
  BY Zenon
<1>4. ASSUME x <= Len(b) + 1 PROVE Stands(v, b, x, n)
  <2>1. /\ Len(b) + n + 0 = (x - 1) + Len(v)
        /\ \A i \in 1 .. Len(v) - 0 : (x - 1) + i <= Len(b) => b[(x - 1) + i] = v[0 + i]
    BY <1>1, <1>3, Zenon DEF Continues
  <2>2. Len(b) + n = (x - 1) + Len(v) /\ x - 1 <= Len(b) /\ x \in Nat \ {0}
    BY <1>1, <1>3, <1>4, <2>1
  <2>3. ASSUME NEW i \in 1 .. Len(v), (x - 1) + i <= Len(b) PROVE b[(x - 1) + i] = v[i]
    <3>1. i \in 1 .. Len(v) - 0 /\ 0 + i = i
      BY <1>1, <2>3
    <3> QED
      BY <2>1, <2>3, <3>1, Zenon
  <2> QED
    BY <1>1, <2>2, <2>3, Zenon DEF Stands
<1>5. n = 0 => x <= Len(b) + 1
  BY <1>1, <1>3
<1> QED
  BY <1>1, <1>2, <1>3, <1>4, <1>5, Zenon

IsCode(x) == x \in Nat /\ 1 <= x /\ x <= 127

\* A class of no field, of one, or of a number and another one.
IsClass(c) ==
    /\ IsCode(c.code) /\ c.min \in Nat /\ c.given \in BOOLEAN /\ c.exact \in BOOLEAN
    /\ c.expects \in {{c.code}, {}, Byte}
    /\ \/ c.fields = <<>>
       \/ \E f : c.fields = <<f>> /\ IsField(f) /\ (c.given => IsNumber(f))
       \/ \E f, g : c.fields = <<f, g>> /\ IsNumber(f) /\ IsField(g) /\ (c.given => IsNumber(g))

\* The values of a message of a class that new accepted.
Valid(c, m) ==
    \/ c.fields = <<>> /\ m = <<>>
    \/ \E f, v : /\ c.fields = <<f>> /\ m = <<v>> /\ IsField(f) /\ Right(f, v)
                 /\ c.given => IsNumber(f) /\ v \notin {Undefined, 0}
    \/ \E f, g, v, w : /\ c.fields = <<f, g>> /\ m = <<v, w>>
                       /\ IsNumber(f) /\ Right(f, v) /\ IsField(g) /\ Right(g, w)
                       /\ c.given => v \notin {Undefined, 0} /\ IsNumber(g) /\ w \notin {Undefined, 0}

\* toBuffer of no field,
LEMMA ToBufferNone ==
    ASSUME NEW c
    PROVE  ToBuffer(c, <<>>) = <<c.code>>
<1>1. PICK m : m = <<>>
  BY Zenon
<1>2. 1 \notin DOMAIN m /\ 2 \notin DOMAIN m
  BY <1>1
<1>3. Part(c, m, 1) = <<>> /\ Part(c, m, 2) = <<>>
  BY <1>2, Zenon DEF Part
<1>4. PICK a : a = <<c.code>>
  BY Zenon
<1>5. a \o <<>> = a
  BY <1>4
<1> QED
  BY <1>1, <1>3, <1>4, <1>5, Zenon DEF ToBuffer

\* of one,
LEMMA ToBufferOne ==
    ASSUME NEW c, c.code \in Byte, NEW f, c.fields = <<f>>, NEW v, Push(f, v) \in Seq(Byte)
    PROVE  ToBuffer(c, <<v>>) = Join(<<c.code>>, Push(f, v))
<1>1. PICK m : m = <<v>>
  BY Zenon
<1>2. 1 \in DOMAIN m /\ 2 \notin DOMAIN m /\ m[1] = v /\ c.fields[1] = f
  BY <1>1
<1>3. Part(c, m, 1) = Push(f, v) /\ Part(c, m, 2) = <<>>
  BY <1>2, Zenon DEF Part
<1>4. PICK a : a = <<c.code>>
  BY Zenon
<1>5. PICK p : p = Push(f, v)
  BY Zenon
<1>6. a \in Seq(Byte)
  BY <1>4, One
<1>7. p \in Seq(Byte)
  BY <1>5, Zenon
<1>8. PICK q : q = Join(a, p)
  BY Zenon
<1>9. q \in Seq(Byte)
  BY <1>6, <1>7, <1>8, JoinIs
<1>10. q \o <<>> = q
  BY <1>9, ConcatEmptySeq
<1> QED
  BY <1>1, <1>3, <1>4, <1>5, <1>8, <1>10, Zenon DEF ToBuffer, Join

\* and of two.
LEMMA ToBufferTwo ==
    ASSUME NEW c, NEW f, NEW g, c.fields = <<f, g>>, NEW v, NEW w
    PROVE  ToBuffer(c, <<v, w>>) = Join(Join(<<c.code>>, Push(f, v)), Push(g, w))
<1>1. PICK m : m = <<v, w>>
  BY Zenon
<1>2. /\ 1 \in DOMAIN m /\ 2 \in DOMAIN m /\ m[1] = v /\ m[2] = w
      /\ c.fields[1] = f /\ c.fields[2] = g
  BY <1>1
<1>3. Part(c, m, 1) = Push(f, v) /\ Part(c, m, 2) = Push(g, w)
  BY <1>2, Zenon DEF Part
<1> QED
  BY <1>1, <1>3, Zenon DEF ToBuffer, Join

\* What was read of a field, and that new takes it as it is.
Kept(f, v, w, n) ==
    /\ f.kind \notin {"shifted", "registers", "coils"} => Follows(f, v, w, n)
    /\ n = 0 => Whole(f, v, w)
    /\ Prepare(f, w) = w
    /\ IsNumber(f) => w = v

\* A value that is refused when it comes back.
Overlong(f, v) ==
    \/ f.kind = "counted" /\ Len(v) > 255 /\ Len(v) % 256 = 0 /\ f.hi >= 256 /\ f.lo # 0
    \/ f.kind = "generic" /\ Len(v) = 1

LEMMA WholeNumber == \A f, v : IsNumber(f) => Whole(f, v, v)
  BY DEF IsNumber, Numeric, Whole

\* new takes what arrived whole as it is, or refuses it because it lost too much.
LEMMA KeptIs ==
    ASSUME NEW f, IsField(f), NEW v, Right(f, v), NEW n \in Nat, NEW r, Arrives(f, v, r, n), r.ok
    PROVE  Kept(f, v, r.value, n) /\ (n = 0 => Fits(f, r.value) \/ Overlong(f, v))
<1>1. CASE IsNumber(f)
  <2>1. f.kind \in Numeric /\ f.kind \notin {"shifted", "registers", "coils", "states", "generic", "counted"}
    BY <1>1 DEF IsNumber, Numeric
  <2>2. Follows(f, v, r.value, n)
    BY <2>1, Zenon DEF Arrives
  <2>3. r.value = v
    BY <2>1, <2>2 DEF Follows, Numeric
  <2>4. v \in Nat /\ Fits(f, v)
    BY <1>1, NumberRight DEF Right
  <2>5. v # Undefined
    BY <2>4 DEF Undefined
  <2>6. Prepare(f, v) = v
    BY <2>5, Zenon DEF Prepare
  <2>7. Whole(f, v, v)
    BY <1>1, WholeNumber, Zenon
  <2>8. Prepare(f, r.value) = r.value /\ Whole(f, v, r.value) /\ Fits(f, r.value)
    BY <2>3, <2>4, <2>6, <2>7, Zenon
  <2> QED
    BY <2>2, <2>3, <2>8, Zenon DEF Kept
<1>2. CASE IsList(f)
  <2>1. f.kind \notin Numeric
    BY <1>2 DEF IsList, Numeric, Sequences, OfRecords
  <2>2. Prepare(f, r.value) = r.value /\ ~IsNumber(f)
    BY <2>1, Zenon DEF Prepare, IsNumber
  <2> QED
    BY <2>2, Zenon DEF Kept, Arrives, Overlong
<1> QED
  BY <1>1, <1>2 DEF IsField

\* What fromBuffer makes of the bytes of a message of which the last n are missing.
FieldsKept(c, m, values, n) ==
    \/ c.fields = <<>> /\ values = <<>> /\ m = <<>>
    \/ \E f, v, w : /\ c.fields = <<f>> /\ m = <<v>> /\ values = <<w>>
                    /\ Kept(f, v, w, n)
    \/ \E f, g, v, w, x : /\ c.fields = <<f, g>> /\ m = <<v, w>> /\ values = <<v, x>>
                          /\ IsNumber(f) /\ Kept(f, v, v, n) /\ Kept(g, w, x, n)
FieldsOverlong(c, m) ==
    \/ \E f, v : c.fields = <<f>> /\ m = <<v>> /\ Overlong(f, v)
    \/ \E f, g, v, w : c.fields = <<f, g>> /\ m = <<v, w>> /\ Overlong(g, w)

Back(c, m, b, n) ==
    /\ ShiftAll(c, b).ok /\ New(c, ShiftAll(c, b).value).ok =>
        FieldsKept(c, m, New(c, ShiftAll(c, b).value).values, n)
    /\ n = 0 => /\ ShiftAll(c, b).ok
                /\ New(c, ShiftAll(c, b).value).ok \/ FieldsOverlong(c, m)

LEMMA AcceptedIs ==
    /\ \A values : Accepted(values).ok /\ Accepted(values).values = values
    /\ ~Rejected.ok
BY DEF Accepted, Rejected

\* A message comes back as Back says: of no field,
LEMMA BackNone ==
    ASSUME NEW c, c.fields = <<>>, NEW b, NEW n
    PROVE  Back(c, <<>>, b, n)
<1>1. PICK r : r = ShiftAll(c, b)
  BY Zenon
<1>2. r.ok /\ r.value = <<>>
  BY <1>1, ShiftNone, ReadIs
<1>3. New(c, r.value).ok /\ New(c, r.value).values = <<>>
  BY <1>2, NewNone, AcceptedIs
<1> QED
  BY <1>1, <1>2, <1>3, Zenon DEF Back, FieldsKept

\* of one,
LEMMA BackOne ==
    ASSUME NEW c, NEW f, c.fields = <<f>>, IsField(f), NEW v, Right(f, v),
           c.code \in Byte,
           c.given => IsNumber(f) /\ v \notin {Undefined, 0},
           NEW b, NEW n, Stands(Join(<<c.code>>, Push(f, v)), b, 1, n), 1 <= Len(b)
    PROVE  Back(c, <<v>>, b, n)
<1>1. PICK p : p = Push(f, v)
  BY Zenon
<1>2. p \in Seq(Byte) /\ \A d, at, k : Stands(p, d, at, k) => Arrives(f, v, Shift(f, d, at), k)
  BY <1>1, FieldTrip, Zenon
<1>3. PICK a : a = <<c.code>>
  BY Zenon
<1>4. a \in Seq(Byte) /\ Len(a) = 1
  BY <1>3, One
<1>5. Stands(p, b, 2, n) /\ n \in Nat
  <2>1. Stands(Join(a, p), b, 1, n)
    BY <1>1, <1>3, Zenon
  <2>2. a \in Seq(Byte) /\ p \in Seq(Byte)
    BY <1>2, <1>4
  <2>3. /\ b \in Seq(Byte) /\ n \in Nat
        /\ 1 + Len(a) <= Len(b) + 1 => Stands(p, b, 1 + Len(a), n)
    BY <2>1, <2>2, Onward, Zenon
  <2>4. 1 + Len(a) = 2
    BY <1>4
  <2>5. 2 <= Len(b) + 1
    <3>1. Len(b) \in Nat
      BY <2>3, LenProperties
    <3> QED
      BY <3>1
  <2> QED
    BY <2>3, <2>4, <2>5, Zenon
<1>6. PICK r : r = Shift(f, b, 2)
  BY Zenon
<1>7. Arrives(f, v, r, n)
  BY <1>2, <1>5, <1>6, Zenon
<1>8. ShiftAll(c, b) = IF r.ok THEN Read(<<r.value>>, r.next) ELSE Thrown
  BY <1>6, ShiftOne
<1>9. CASE ~r.ok
  <2>1. n # 0
    BY <1>7, <1>9, Zenon DEF Arrives
  <2>2. PICK s : s = ShiftAll(c, b)
    BY Zenon
  <2>3. ~s.ok
    BY <1>8, <1>9, <2>2, ReadIs
  <2> QED
    BY <2>1, <2>2, <2>3, Zenon DEF Back
<1>10. CASE r.ok
  <2>1. PICK w : w = r.value
    BY Zenon
  <2>2. Kept(f, v, w, n) /\ (n = 0 => Fits(f, w) \/ Overlong(f, v))
    BY <1>5, <1>7, <1>10, <2>1, KeptIs
  <2>3. PICK s : s = ShiftAll(c, b)
    BY Zenon
  <2>4. s.ok /\ s.value = <<w>>
    BY <1>8, <1>10, <2>1, <2>3, ReadIs
  <2>5. PICK q : q = New(c, <<w>>)
    BY Zenon
  <2>6. q = IF (c.given => w \notin {Undefined, 0}) /\ Fits(f, w) THEN Accepted(<<w>>) ELSE Rejected
    <3>1. Prepare(f, w) = w
      BY <2>2, Zenon DEF Kept
    <3> QED
      BY <2>5, <3>1, NewOne, Zenon
  <2>7. q.ok => q.values = <<w>> /\ FieldsKept(c, <<v>>, <<w>>, n)
    BY <2>2, <2>6, AcceptedIs, Zenon DEF FieldsKept
  <2>8. c.given => w \notin {Undefined, 0}
    BY <2>2, Zenon DEF Kept
  <2>9. n = 0 => q.ok \/ FieldsOverlong(c, <<v>>)
    BY <2>2, <2>6, <2>8, AcceptedIs, Zenon DEF FieldsOverlong
  <2> QED
    BY <2>3, <2>4, <2>5, <2>7, <2>9, Zenon DEF Back
<1> QED
  BY <1>9, <1>10

\* and of two.
LEMMA BackTwo ==
    ASSUME NEW c, NEW f, NEW g, c.fields = <<f, g>>, IsNumber(f), IsField(g),
           NEW v, NEW w, Right(f, v), Right(g, w), c.code \in Byte,
           c.given => v \notin {Undefined, 0} /\ IsNumber(g) /\ w \notin {Undefined, 0},
           NEW b, NEW n, Stands(Join(Join(<<c.code>>, Push(f, v)), Push(g, w)), b, 1, n), 1 <= Len(b)
    PROVE  Back(c, <<v, w>>, b, n)
<1>1. PICK p : p = Push(f, v)
  BY Zenon
<1>2. PICK q : q = Push(g, w)
  BY Zenon
<1>3. q \in Seq(Byte) /\ \A d, at, k : Stands(q, d, at, k) => Arrives(g, w, Shift(g, d, at), k)
  BY <1>2, FieldTrip, Zenon
<1>4. PICK a : a = <<c.code>>
  BY Zenon
<1>5. a \in Seq(Byte) /\ Len(a) = 1
  BY <1>4, One
<1>6. v \in f.lo .. f.hi /\ Fits(f, v) /\ v \in Nat
  BY NumberRight DEF Right
<1>7. PICK z : z = Width(f)
  BY Zenon
<1>8. p \in Seq(Byte) /\ Len(p) = z /\ z \in {1, 2}
  <2>1. PICK e : e = <<>>
    BY Zenon
  <2>2. e \in Seq(Byte) /\ Len(e) = 0
    BY <2>1, EmptySeq
  <2>3. PICK at : at = 1
    BY Zenon
  <2>4. z \in {1, 2}
    BY <1>7, NumberWhole
  <2>5. \A i \in 1 .. Width(f) : ~((at - 1) + i <= Len(e))
    BY <1>7, <2>2, <2>3, <2>4
  <2>6. at \in Nat \ {0} /\ e \in Seq(Byte)
    BY <2>2, <2>3
  <2>7. Push(f, v) \in Seq(Byte) /\ Len(Push(f, v)) = Width(f)
    BY <1>6, <2>5, <2>6, NumberTrip
  <2> QED
    BY <1>1, <1>7, <2>4, <2>7, Zenon
<1>9. PICK h : h = Join(a, p)
  BY Zenon
<1>10. h \in Seq(Byte) /\ Len(h) = 1 + z
  <2>1. a \in Seq(Byte) /\ p \in Seq(Byte)
    BY <1>5, <1>8
  <2>2. h \in Seq(Byte) /\ Len(h) = Len(a) + Len(p)
    BY <1>9, <2>1, JoinIs, Zenon
  <2> QED
    BY <1>5, <1>8, <2>2
<1>11. PICK x : x = 2 + z
  BY Zenon
<1>12. /\ b \in Seq(Byte) /\ n \in Nat /\ Here(h, b, 1)
       /\ x <= Len(b) + 1 => Stands(q, b, x, n)
       /\ n = 0 => x <= Len(b) + 1
  <2>1. Stands(Join(h, q), b, 1, n)
    BY <1>1, <1>2, <1>4, <1>9, Zenon
  <2>2. h \in Seq(Byte) /\ q \in Seq(Byte)
    BY <1>3, <1>10
  <2>3. /\ b \in Seq(Byte) /\ n \in Nat /\ Here(h, b, 1)
        /\ 1 + Len(h) <= Len(b) + 1 => Stands(q, b, 1 + Len(h), n)
        /\ n = 0 => 1 + Len(h) <= Len(b) + 1
    BY <2>1, <2>2, Onward, Zenon
  <2>4. 1 + Len(h) = x
    BY <1>8, <1>10, <1>11
  <2> QED
    BY <2>3, <2>4, Zenon
<1>13. Here(p, b, 2)
  <2>1. a \in Seq(Byte) /\ p \in Seq(Byte) /\ b \in Seq(Byte) /\ 1 \in Nat \ {0}
    BY <1>5, <1>8, <1>12
  <2>2. Here(Join(a, p), b, 1)
    BY <1>9, <1>12, Zenon
  <2>3. Here(p, b, 1 + Len(a))
    BY <2>1, <2>2, HereJoin, Zenon
  <2>4. 1 + Len(a) = 2
    BY <1>5
  <2> QED
    BY <2>3, <2>4, Zenon
<1>14. Shift(f, b, 2) = IF x <= Len(b) + 1 THEN Read(v, x) ELSE Thrown
  <2>1. PICK at : at = 2
    BY Zenon
  <2>2. \A i \in 1 .. Width(f) : (at - 1) + i <= Len(b) => b[(at - 1) + i] = Push(f, v)[i]
    BY <1>1, <1>7, <1>8, <1>13, <2>1, Zenon DEF Here
  <2>3. at \in Nat \ {0}
    BY <2>1
  <2>4. Shift(f, b, at) = IF at + Width(f) <= Len(b) + 1 THEN Read(v, at + Width(f)) ELSE Thrown
    BY <1>6, <1>12, <2>2, <2>3, NumberTrip
  <2> QED
    BY <1>7, <1>11, <2>1, <2>4, Zenon
<1>15. CASE ~(x <= Len(b) + 1)
  <2>1. n # 0
    BY <1>12, <1>15, Zenon
  <2>2. ShiftAll(c, b) = Thrown
    BY <1>14, <1>15, ShiftTwo, Zenon
  <2>3. ~Thrown.ok
    BY ReadIs
  <2> QED
    BY <2>1, <2>2, <2>3, Zenon DEF Back
<1>16. CASE x <= Len(b) + 1
  <2>1. PICK r : r = Shift(g, b, x)
    BY Zenon
  <2>2. Arrives(g, w, r, n)
    BY <1>3, <1>12, <1>16, <2>1, Zenon
  <2>3. ShiftAll(c, b) = IF r.ok THEN Read(<<v, r.value>>, r.next) ELSE Thrown
    <3>1. Shift(f, b, 2) = Read(v, x)
      BY <1>14, <1>16, Zenon
    <3>2. \A i, j, k : Shift(f, b, 2) = Read(i, j) /\ k = Shift(g, b, j) =>
             ShiftAll(c, b) = IF k.ok THEN Read(<<i, k.value>>, k.next) ELSE Thrown
      BY ShiftTwo
    <3> QED
      BY <2>1, <3>1, <3>2, Zenon
  <2>4. CASE ~r.ok
    <3>1. n # 0
      BY <2>2, <2>4, Zenon DEF Arrives
    <3>2. PICK s : s = ShiftAll(c, b)
      BY Zenon
    <3>3. ~s.ok
      BY <2>3, <2>4, <3>2, ReadIs
    <3> QED
      BY <3>1, <3>2, <3>3, Zenon DEF Back
  <2>5. CASE r.ok
    <3>1. PICK y : y = r.value
      BY Zenon
    <3>2. Kept(g, w, y, n) /\ (n = 0 => Fits(g, y) \/ Overlong(g, w))
      BY <1>12, <2>2, <2>5, <3>1, KeptIs
    <3>3. PICK s : s = ShiftAll(c, b)
      BY Zenon
    <3>4. s.ok /\ s.value = <<v, y>>
      BY <2>3, <2>5, <3>1, <3>3, ReadIs
    <3>5. PICK k : k = New(c, <<v, y>>)
      BY Zenon
    <3>6. Prepare(f, v) = v /\ Kept(f, v, v, n)
      <4>1. v # Undefined
        BY <1>6 DEF Undefined
      <4>2. Prepare(f, v) = v
        BY <4>1, Zenon DEF Prepare
      <4>3. Follows(f, v, v, n)
        BY DEF Follows, IsNumber, Numeric
      <4> QED
        BY <4>2, <4>3, WholeNumber, Zenon DEF Kept
    <3>7. k = IF (c.given => v \notin {Undefined, 0} /\ y \notin {Undefined, 0}) /\ Fits(f, v) /\ Fits(g, y)
              THEN Accepted(<<v, y>>) ELSE Rejected
      <4>1. Prepare(g, y) = y
        BY <3>2, Zenon DEF Kept
      <4> QED
        <5>1. New(c, <<v, y>>) = IF /\ c.given => v \notin {Undefined, 0} /\ y \notin {Undefined, 0}
                                    /\ Fits(f, Prepare(f, v)) /\ Fits(g, Prepare(g, y))
                                 THEN Accepted(<<Prepare(f, v), Prepare(g, y)>>) ELSE Rejected
          BY NewTwo
        <5> QED
          BY <3>5, <3>6, <4>1, <5>1, Zenon
    <3>8. k.ok => k.values = <<v, y>> /\ FieldsKept(c, <<v, w>>, <<v, y>>, n)
      BY <3>2, <3>6, <3>7, AcceptedIs, Zenon DEF FieldsKept
    <3>9. c.given => v \notin {Undefined, 0} /\ y \notin {Undefined, 0}
      BY <3>2, Zenon DEF Kept
    <3>10. n = 0 => k.ok \/ FieldsOverlong(c, <<v, w>>)
      BY <1>6, <3>2, <3>7, <3>9, AcceptedIs, Zenon DEF FieldsOverlong
    <3> QED
      BY <3>3, <3>4, <3>5, <3>8, <3>10, Zenon DEF Back
  <2> QED
    BY <2>4, <2>5
<1> QED
  BY <1>15, <1>16

----------------------------------------------------------------------------
\* The classes of the library

\* Tuples are equal when their members are.
LEMMA TupleIs ==
    /\ \A f, g : <<f>> = <<g>> => f = g
    /\ \A f, g, h : <<f>> # <<g, h>>
    /\ \A f : <<f>> # <<>>
    /\ \A f, g : <<f, g>> # <<>>
    /\ \A f, g, h, i : <<f, g>> = <<h, i>> => f = h /\ g = i
OBVIOUS

LEMMA BytesIs ==
    \A kind, lo, hi, step :
        LET f == Bytes(kind, lo, hi, step)
        IN  f.kind = kind /\ f.lo = lo /\ f.hi = hi /\ f.step = step
BY DEF Bytes

LEMMA RequestIs ==
    \A class, response : Request(class, response).class = class /\ Request(class, response).response = response
BY DEF Request

\* What the classes of requests and of responses have in common.
RequestKind(f) == f.kind \notin {"states", "generic"}
Enough(c) ==
    \/ c.fields = <<>> /\ c.min <= 1
    \/ \E f : c.fields = <<f>> /\ RequestKind(f) /\ c.min <= 1 + Least(f)
    \/ \E f, g : c.fields = <<f, g>> /\ RequestKind(g) /\ c.min <= 1 + Least(f) + Least(g)
IsRequest(c) ==
    /\ IsClass(c)
    /\ c.expects = {} \/ (c.expects = {c.code} /\ Enough(c))
    /\ c.exact => c.fields = <<>> /\ c.min = 1

ResponseField(f) ==
    /\ f.kind \notin {"shifted", "registers", "coils"}
    /\ f.kind = "counted" => f.hi < 256 \/ f.lo = 0
IsResponse(c) ==
    /\ IsClass(c)
    /\ c.expects = {c.code} \/ c.expects = Byte
    /\ ~c.exact
    /\ \/ \E f : c.fields = <<f>> /\ ResponseField(f) /\ (f.kind = "generic" => c.min >= 2)
       \/ \E f, g : c.fields = <<f, g>> /\ IsNumber(f) /\ ResponseField(g) /\ g.kind # "generic"
IsFunction(f) == IsRequest(f.class) /\ IsResponse(f.response) /\ f.class.code = f.response.code

\* A number that a request or a response may have.
Plainly(f, least) == IsNumber(f) /\ Least(f) = least /\ RequestKind(f) /\ ResponseField(f) /\ f.kind # "generic"

\* The fields that the classes have: words,
LEMMA WordField ==
    ASSUME NEW lo \in Nat, NEW hi \in Nat, hi < 65536, NEW default \in Nat
    PROVE  Plainly(Number("word", lo, hi, default), 2)
<1>1. PICK f : f = Number("word", lo, hi, default)
  OBVIOUS
<1>2. f.kind = "word" /\ f.lo = lo /\ f.hi = hi /\ f.default = default
  BY <1>1 DEF Number
<1>3. IsNumber(f)
  BY <1>2 DEF IsNumber, Numeric, Limit
<1>4. Least(f) = 2 /\ RequestKind(f) /\ ResponseField(f) /\ f.kind # "generic"
  BY <1>2 DEF Least, RequestKind, ResponseField
<1>5. Plainly(f, 2)
  BY <1>3, <1>4 DEF Plainly
<1> QED
  BY <1>1, <1>5

\* octets,
LEMMA OctetField ==
    ASSUME NEW kind \in {"octet", "limit"}, NEW lo \in Nat, NEW hi \in Nat, hi < 256, NEW default \in Nat
    PROVE  Plainly(Number(kind, lo, hi, default), 1)
<1>1. PICK f : f = Number(kind, lo, hi, default)
  BY Zenon
<1>2. f.kind = kind /\ f.lo = lo /\ f.hi = hi /\ f.default = default
  BY <1>1 DEF Number
<1>3. IsNumber(f)
  BY <1>2 DEF IsNumber, Numeric, Limit
<1>4. Least(f) = 1 /\ RequestKind(f) /\ ResponseField(f) /\ f.kind # "generic"
  BY <1>2 DEF Least, RequestKind, ResponseField
<1>5. Plainly(f, 1)
  BY <1>3, <1>4 DEF Plainly
<1> QED
  BY <1>1, <1>5

\* flags and coils,
LEMMA OtherFields ==
    /\ Plainly(Number("flags", 0, 3, 0), 1) /\ Plainly(Coil, 2)
<1>1. ASSUME NEW f, f = Number("flags", 0, 3, 0) PROVE Plainly(f, 1)
  <2>1. f.kind = "flags" /\ f.lo = 0 /\ f.hi = 3 /\ f.default = 0
    BY <1>1 DEF Number
  <2>2. IsNumber(f)
    BY <2>1 DEF IsNumber, Numeric, Limit
  <2>3. Least(f) = 1 /\ RequestKind(f) /\ ResponseField(f) /\ f.kind # "generic"
    BY <2>1 DEF Least, RequestKind, ResponseField
  <2> QED
    BY <2>2, <2>3, Zenon DEF Plainly
<1>2. ASSUME NEW f, f = Coil PROVE Plainly(f, 2)
  <2>1. f.kind = "coil" /\ f.lo = 0 /\ f.hi = 1 /\ f.default = 0
    BY <1>2 DEF Coil, Number
  <2>2. IsNumber(f)
    BY <2>1 DEF IsNumber, Numeric, Limit
  <2>3. Least(f) = 2 /\ RequestKind(f) /\ ResponseField(f) /\ f.kind # "generic"
    BY <2>1 DEF Least, RequestKind, ResponseField
  <2> QED
    BY <2>2, <2>3, Zenon DEF Plainly
<1> QED
  BY <1>1, <1>2, Zenon

\* all the numbers,
LEMMA Numbers ==
    /\ Plainly(Address, 2) /\ Plainly(RegisterValue, 2)
    /\ Plainly(Quantity(2000), 2) /\ Plainly(Quantity(125), 2) /\ Plainly(Quantity(1968), 2) /\ Plainly(Quantity(123), 2)
    /\ Plainly(Octet(0, 255, 0), 1) /\ Plainly(Octet(0, 250, 0), 1) /\ Plainly(Octet(1, 250, 250), 1)
    /\ Plainly(Number("limit", 0, 250, 250), 1)
<1>1. Plainly(Address, 2) /\ Plainly(RegisterValue, 2)
  <2>1. Plainly(Number("word", 0, 65535, 0), 2)
    BY WordField
  <2> QED
    BY <2>1 DEF Address, RegisterValue
<1>2. /\ Plainly(Number("word", 1, 2000, 1), 2) /\ Plainly(Number("word", 1, 125, 1), 2)
      /\ Plainly(Number("word", 1, 1968, 1), 2) /\ Plainly(Number("word", 1, 123, 1), 2)
  BY WordField
<1>3. /\ Plainly(Quantity(2000), 2) /\ Plainly(Quantity(125), 2) /\ Plainly(Quantity(1968), 2)
      /\ Plainly(Quantity(123), 2)
  BY <1>2 DEF Quantity
<1>4. /\ Plainly(Number("octet", 0, 255, 0), 1) /\ Plainly(Number("octet", 0, 250, 0), 1)
      /\ Plainly(Number("octet", 1, 250, 250), 1) /\ Plainly(Number("limit", 0, 250, 250), 1)
  BY OctetField
<1>5. Plainly(Octet(0, 255, 0), 1) /\ Plainly(Octet(0, 250, 0), 1) /\ Plainly(Octet(1, 250, 250), 1)
  BY <1>4 DEF Octet
<1> QED
  BY <1>1, <1>3, <1>4, <1>5

\* A list that a request or a response may have.
Asked(f, least) == IsList(f) /\ RequestKind(f) /\ Least(f) = least
Told(f) == IsList(f) /\ ResponseField(f) /\ f.kind # "generic"

\* and all the lists.
LEMMA Lists ==
    /\ Asked(Bytes("coils", 1, 1968, 1), 0) /\ Asked(Bytes("registers", 2, 246, 2), 5)
    /\ Asked(Records("reads"), 8) /\ Asked(Records("writes"), 10)
    /\ Asked(Counted(1, 250), 2) /\ Asked(Counted(1, 500), 2) /\ Asked(Rest(1, 250), 1)
    /\ Asked(Bytes("shifted", 0, 65535, 1), 0)
    /\ Told(Bytes("states", 1, 2000, 1)) /\ Told(Bytes("counted", 2, 250, 2))
    /\ Told(Bytes("identity", 5, 65535, 1)) /\ Told(Records("data")) /\ Told(Records("writes"))
    /\ Told(Counted(0, 250)) /\ Told(Counted(0, 500)) /\ Told(Rest(0, 250)) /\ Told(Rest(0, 500))
<1> USE DEF Asked, Told, RequestKind, ResponseField, IsList, Least, Sequences, OfRecords
<1>1. ASSUME NEW f, f = Bytes("coils", 1, 1968, 1) PROVE Asked(f, 0)
  BY <1>1, BytesIs
<1>2. ASSUME NEW f, f = Bytes("registers", 2, 246, 2) PROVE Asked(f, 5)
  BY <1>2, BytesIs
<1>3. ASSUME NEW f, f = Bytes("reads", 0, 65535, 1) PROVE Asked(f, 8)
  BY <1>3, BytesIs
<1>4. ASSUME NEW f, f = Bytes("writes", 0, 65535, 1) PROVE Asked(f, 10) /\ Told(f)
  BY <1>4, BytesIs
<1>5. ASSUME NEW f, f = Bytes("counted", 1, 250, 1) PROVE Asked(f, 2)
  BY <1>5, BytesIs
<1>6. ASSUME NEW f, f = Bytes("counted", 1, 500, 1) PROVE Asked(f, 2)
  BY <1>6, BytesIs
<1>7. ASSUME NEW f, f = Bytes("rest", 1, 250, 1) PROVE Asked(f, 1)
  BY <1>7, BytesIs
<1>8. ASSUME NEW f, f = Bytes("shifted", 0, 65535, 1) PROVE Asked(f, 0)
  BY <1>8, BytesIs
<1>9. ASSUME NEW f, f = Bytes("states", 1, 2000, 1) PROVE Told(f)
  BY <1>9, BytesIs
<1>10. ASSUME NEW f, f = Bytes("counted", 2, 250, 2) PROVE Told(f)
  BY <1>10, BytesIs
<1>11. ASSUME NEW f, f = Bytes("identity", 5, 65535, 1) PROVE Told(f)
  BY <1>11, BytesIs
<1>12. ASSUME NEW f, f = Bytes("data", 0, 65535, 1) PROVE Told(f)
  BY <1>12, BytesIs
<1>13. ASSUME NEW f, f = Bytes("counted", 0, 250, 1) PROVE Told(f)
  BY <1>13, BytesIs
<1>14. ASSUME NEW f, f = Bytes("counted", 0, 500, 1) PROVE Told(f)
  BY <1>14, BytesIs
<1>15. ASSUME NEW f, f = Bytes("rest", 0, 250, 1) PROVE Told(f)
  BY <1>15, BytesIs
<1>16. ASSUME NEW f, f = Bytes("rest", 0, 500, 1) PROVE Told(f)
  BY <1>16, BytesIs
<1> HIDE DEF Asked, Told, RequestKind, ResponseField, IsList, Least, Sequences, OfRecords
<1>17. /\ Asked(Bytes("coils", 1, 1968, 1), 0) /\ Asked(Bytes("registers", 2, 246, 2), 5)
       /\ Asked(Bytes("shifted", 0, 65535, 1), 0)
  BY <1>1, <1>2, <1>8
<1>18. Asked(Records("reads"), 8) /\ Asked(Records("writes"), 10) /\ Told(Records("writes")) /\ Told(Records("data"))
  BY <1>3, <1>4, <1>12 DEF Records
<1>19. Asked(Counted(1, 250), 2) /\ Asked(Counted(1, 500), 2) /\ Asked(Rest(1, 250), 1)
  BY <1>5, <1>6, <1>7 DEF Counted, Rest
<1>20. /\ Told(Bytes("states", 1, 2000, 1)) /\ Told(Bytes("counted", 2, 250, 2))
       /\ Told(Bytes("identity", 5, 65535, 1))
  BY <1>9, <1>10, <1>11
<1>21. Told(Counted(0, 250)) /\ Told(Counted(0, 500)) /\ Told(Rest(0, 250)) /\ Told(Rest(0, 500))
  BY <1>13, <1>14, <1>15, <1>16 DEF Counted, Rest
<1> QED
  BY <1>17, <1>18, <1>19, <1>20, <1>21

\* Requests of two fields and of one are long enough for their fromBuffer.
LEMMA AskedTwo ==
    ASSUME NEW code, IsCode(code), NEW min \in Nat, NEW f, NEW g, NEW x \in Nat, NEW y \in Nat,
           Plainly(f, x), Plainly(g, y) \/ Asked(g, y), min <= 1 + x + y
    PROVE  IsRequest(Plain(code, min, <<f, g>>))
<1>1. PICK c : c = Plain(code, min, <<f, g>>)
  OBVIOUS
<1>2. /\ c.code = code /\ c.expects = {code} /\ c.min = min /\ c.fields = <<f, g>>
      /\ c.exact = FALSE /\ c.given = FALSE
  BY <1>1 DEF Plain
<1>3. IsNumber(f) /\ IsField(g) /\ RequestKind(g) /\ Least(f) = x /\ Least(g) = y
  BY Zenon DEF Plainly, Asked, IsField
<1>4. IsClass(c)
  <2>1. \E h, i : c.fields = <<h, i>> /\ IsNumber(h) /\ IsField(i) /\ (c.given => IsNumber(i))
    BY <1>2, <1>3, Zenon
  <2> QED
    BY <1>2, <2>1, Zenon DEF IsClass
<1>5. Enough(c)
  <2>1. c.min <= 1 + Least(f) + Least(g)
    BY <1>2, <1>3
  <2> QED
    BY <1>2, <1>3, <2>1, Zenon DEF Enough
<1>6. IsRequest(c)
  BY <1>2, <1>4, <1>5, Zenon DEF IsRequest
<1> QED
  BY <1>1, <1>6, Zenon

LEMMA AskedOne ==
    ASSUME NEW code, IsCode(code), NEW min \in Nat, NEW f, NEW x \in Nat,
           Plainly(f, x) \/ Asked(f, x), min <= 1 + x
    PROVE  IsRequest(Plain(code, min, <<f>>))
<1>1. PICK c : c = Plain(code, min, <<f>>)
  OBVIOUS
<1>2. /\ c.code = code /\ c.expects = {code} /\ c.min = min /\ c.fields = <<f>>
      /\ c.exact = FALSE /\ c.given = FALSE
  BY <1>1 DEF Plain
<1>3. IsField(f) /\ RequestKind(f) /\ Least(f) = x
  BY Zenon DEF Plainly, Asked, IsField
<1>4. IsClass(c)
  <2>1. \E h : c.fields = <<h>> /\ IsField(h) /\ (c.given => IsNumber(h))
    BY <1>2, <1>3, Zenon
  <2> QED
    BY <1>2, <2>1, Zenon DEF IsClass
<1>5. Enough(c)
  <2>1. c.min <= 1 + Least(f)
    BY <1>2, <1>3
  <2> QED
    BY <1>2, <1>3, <2>1, Zenon DEF Enough
<1>6. IsRequest(c)
  BY <1>2, <1>4, <1>5, Zenon DEF IsRequest
<1> QED
  BY <1>1, <1>6, Zenon

\* Responses of two fields and of one.
LEMMA ToldTwo ==
    ASSUME NEW code, IsCode(code), NEW min \in Nat, NEW f, NEW g, NEW x, NEW y,
           Plainly(f, x), Plainly(g, y) \/ Told(g)
    PROVE  IsResponse(Plain(code, min, <<f, g>>))
<1>1. PICK c : c = Plain(code, min, <<f, g>>)
  OBVIOUS
<1>2. /\ c.code = code /\ c.expects = {code} /\ c.min = min /\ c.fields = <<f, g>>
      /\ c.exact = FALSE /\ c.given = FALSE
  BY <1>1 DEF Plain
<1>3. IsNumber(f) /\ IsField(g) /\ ResponseField(g) /\ g.kind # "generic"
  BY Zenon DEF Plainly, Told, IsField
<1>4. IsClass(c)
  <2>1. \E h, i : c.fields = <<h, i>> /\ IsNumber(h) /\ IsField(i) /\ (c.given => IsNumber(i))
    BY <1>2, <1>3, Zenon
  <2> QED
    BY <1>2, <2>1, Zenon DEF IsClass
<1>5. IsResponse(c)
  BY <1>2, <1>3, <1>4, Zenon DEF IsResponse
<1> QED
  BY <1>1, <1>5, Zenon

LEMMA ToldOne ==
    ASSUME NEW code, IsCode(code), NEW min \in Nat, NEW f, NEW x, Plainly(f, x) \/ Told(f)
    PROVE  IsResponse(Plain(code, min, <<f>>))
<1>1. PICK c : c = Plain(code, min, <<f>>)
  OBVIOUS
<1>2. /\ c.code = code /\ c.expects = {code} /\ c.min = min /\ c.fields = <<f>>
      /\ c.exact = FALSE /\ c.given = FALSE
  BY <1>1 DEF Plain
<1>3. IsField(f) /\ ResponseField(f) /\ f.kind # "generic"
  BY Zenon DEF Plainly, Told, IsField
<1>4. IsClass(c)
  <2>1. \E h : c.fields = <<h>> /\ IsField(h) /\ (c.given => IsNumber(h))
    BY <1>2, <1>3, Zenon
  <2> QED
    BY <1>2, <2>1, Zenon DEF IsClass
<1>5. IsResponse(c)
  BY <1>2, <1>3, <1>4, Zenon DEF IsResponse
<1> QED
  BY <1>1, <1>5, Zenon

\* A request class and its response class.
LEMMA Together ==
    ASSUME NEW code, NEW min, NEW fields, NEW least, NEW parts,
           IsRequest(Plain(code, min, fields)), IsResponse(Plain(code, least, parts))
    PROVE  IsFunction(Request(Plain(code, min, fields), Plain(code, least, parts)))
<1>1. PICK c : c = Plain(code, min, fields)
  BY Zenon
<1>2. PICK d : d = Plain(code, least, parts)
  BY Zenon
<1>3. c.code = code /\ d.code = code
  BY <1>1, <1>2 DEF Plain
<1>4. PICK f : f = Request(c, d)
  BY Zenon
<1>5. f.class = c /\ f.response = d
  BY <1>4 DEF Request
<1>6. IsFunction(f)
  BY <1>1, <1>2, <1>3, <1>5, Zenon DEF IsFunction
<1> QED
  BY <1>1, <1>2, <1>4, <1>6, Zenon

\* The codes of the functions.
LEMMA Codes ==
    /\ IsCode(1) /\ IsCode(2) /\ IsCode(3) /\ IsCode(4) /\ IsCode(5) /\ IsCode(6) /\ IsCode(7) /\ IsCode(8)
    /\ IsCode(15) /\ IsCode(16) /\ IsCode(17) /\ IsCode(20) /\ IsCode(21)
    /\ IsCode(65) /\ IsCode(66) /\ IsCode(67) /\ IsCode(68) /\ IsCode(69) /\ IsCode(70) /\ IsCode(71) /\ IsCode(100)
BY DEF IsCode

\* Every function of the library is one of a request and a response that the lemmas
\* are about.
LEMMA ReadFunctions ==
    /\ IsFunction(ReadCoilsRequest) /\ IsFunction(ReadDiscreteInputsRequest)
    /\ IsFunction(ReadHoldingRegistersRequest) /\ IsFunction(ReadInputRegistersRequest)
<1>1. ASSUME NEW code, IsCode(code), NEW max, Plainly(Quantity(max), 2) PROVE IsRequest(Span(code, max))
  <2>1. Plainly(Address, 2) /\ 5 \in Nat /\ 2 \in Nat /\ 5 <= 1 + 2 + 2
    BY Numbers
  <2>2. IsRequest(Plain(code, 5, <<Address, Quantity(max)>>))
    BY <1>1, <2>1, AskedTwo, Zenon
  <2> QED
    BY <2>2, Zenon DEF Span
<1>2. ASSUME NEW code, IsCode(code) PROVE IsResponse(States(code)) /\ IsResponse(Registers(code))
  <2>1. IsResponse(States(code))
    <3>1. PICK f : f = Bytes("states", 1, 2000, 1)
      OBVIOUS
    <3>2. Told(f) /\ 2 \in Nat
      BY <3>1, Lists
    <3>3. IsResponse(Plain(code, 2, <<f>>))
      BY <1>2, <3>2, ToldOne, Zenon
    <3> QED
      BY <3>1, <3>3 DEF States
  <2>2. IsResponse(Registers(code))
    <3>1. PICK f : f = Bytes("counted", 2, 250, 2)
      OBVIOUS
    <3>2. Told(f) /\ 4 \in Nat
      BY <3>1, Lists
    <3>3. IsResponse(Plain(code, 4, <<f>>))
      BY <1>2, <3>2, ToldOne, Zenon
    <3> QED
      BY <3>1, <3>3 DEF Registers
  <2> QED
    BY <2>1, <2>2
<1>3. ASSUME NEW code, IsCode(code)
      PROVE  /\ IsFunction(Request(Span(code, 2000), States(code)))
             /\ IsFunction(Request(Span(code, 125), Registers(code)))
  <2>1. /\ IsRequest(Span(code, 2000)) /\ IsRequest(Span(code, 125))
        /\ IsResponse(States(code)) /\ IsResponse(Registers(code))
    <3>1. Plainly(Quantity(2000), 2) /\ Plainly(Quantity(125), 2)
      BY Numbers
    <3> QED
      BY <1>1, <1>2, <1>3, <3>1
  <2>2. IsFunction(Request(Span(code, 2000), States(code)))
    <3> DEFINE a == <<Address, Quantity(2000)>>
               b == <<Bytes("states", 1, 2000, 1)>>
    <3>1. Span(code, 2000) = Plain(code, 5, a) /\ States(code) = Plain(code, 2, b)
      BY DEF Span, States
    <3> HIDE DEF a, b
    <3> QED
      BY <2>1, <3>1, Together
  <2>3. IsFunction(Request(Span(code, 125), Registers(code)))
    <3> DEFINE a == <<Address, Quantity(125)>>
               b == <<Bytes("counted", 2, 250, 2)>>
    <3>1. Span(code, 125) = Plain(code, 5, a) /\ Registers(code) = Plain(code, 4, b)
      BY DEF Span, Registers
    <3> HIDE DEF a, b
    <3> QED
      BY <2>1, <3>1, Together
  <2> QED
    BY <2>2, <2>3
<1>4. IsCode(1) /\ IsCode(2) /\ IsCode(3) /\ IsCode(4)
  BY Codes
<1>5. IsFunction(ReadCoilsRequest) /\ IsFunction(ReadDiscreteInputsRequest)
  BY <1>3, <1>4 DEF ReadCoilsRequest, ReadCoilsResponse, ReadDiscreteInputsRequest,
     ReadDiscreteInputsResponse
<1>6. IsFunction(ReadHoldingRegistersRequest) /\ IsFunction(ReadInputRegistersRequest)
  BY <1>3, <1>4 DEF ReadHoldingRegistersRequest, ReadHoldingRegistersResponse,
     ReadInputRegistersRequest,
     ReadInputRegistersResponse
<1> QED
  BY <1>5, <1>6

LEMMA WriteFunctions ==
    /\ IsFunction(WriteSingleCoilRequest) /\ IsFunction(WriteSingleRegisterRequest)
    /\ IsFunction(WriteMultipleCoilsRequest) /\ IsFunction(WriteMultipleRegistersRequest)
<1>1. Plainly(Address, 2) /\ Plainly(Coil, 2) /\ Plainly(RegisterValue, 2)
  BY Numbers, OtherFields
<1>2. /\ IsRequest(Plain(5, 1, <<Address, Coil>>)) /\ IsResponse(Plain(5, 5, <<Address, Coil>>))
  BY <1>1, AskedTwo, ToldTwo, Codes
<1>3. /\ IsRequest(Plain(6, 5, <<Address, RegisterValue>>)) /\ IsResponse(Plain(6, 5, <<Address, RegisterValue>>))
  BY <1>1, AskedTwo, ToldTwo, Codes
<1>4. IsRequest(Plain(15, 1, <<Address, Bytes("coils", 1, 1968, 1)>>))
  BY <1>1, Lists, AskedTwo, Codes
<1>5. IsRequest(Plain(16, 8, <<Address, Bytes("registers", 2, 246, 2)>>))
  BY <1>1, Lists, AskedTwo, Codes
<1>6. IsResponse(Plain(15, 5, <<Address, Quantity(1968)>>)) /\ IsResponse(Plain(16, 5, <<Address, Quantity(123)>>))
  BY <1>1, Numbers, ToldTwo, Codes
<1>7. IsFunction(WriteSingleCoilRequest)
  BY <1>2, Together, Zenon DEF WriteSingleCoilRequest, WriteSingleCoilResponse
<1>8. IsFunction(WriteSingleRegisterRequest)
  BY <1>3, Together, Zenon DEF WriteSingleRegisterRequest, WriteSingleRegisterResponse
<1>9. IsFunction(WriteMultipleCoilsRequest)
  BY <1>4, <1>6, Together DEF WriteMultipleCoilsRequest, WriteMultipleCoilsResponse, Span
<1>10. IsFunction(WriteMultipleRegistersRequest)
  BY <1>5, <1>6, Together DEF WriteMultipleRegistersRequest,
     WriteMultipleRegistersResponse, Span
<1> QED
  BY <1>7, <1>8, <1>9, <1>10

LEMMA DiagnosticFunctions == IsFunction(ReadDiagnosticsRequest) /\ IsFunction(ReportSlaveIdRequest)
<1>1. PICK c : c = ReadDiagnosticsRequest.class
  OBVIOUS
<1>2. /\ c.code = 8 /\ c.expects = {8} /\ c.min = 5 /\ c.fields = <<Address, Quantity(125)>>
      /\ c.exact = FALSE /\ c.given = TRUE
  BY <1>1 DEF ReadDiagnosticsRequest, Request, Span, Plain
<1>3. Plainly(Address, 2) /\ Plainly(Quantity(125), 2)
  BY Numbers
<1>4. IsNumber(Address) /\ IsNumber(Quantity(125)) /\ IsField(Quantity(125)) /\ RequestKind(Quantity(125))
      /\ Least(Address) = 2 /\ Least(Quantity(125)) = 2
  BY <1>3, Zenon DEF Plainly, IsField
<1>5. IsClass(c)
  <2>1. \E h, i : c.fields = <<h, i>> /\ IsNumber(h) /\ IsField(i) /\ (c.given => IsNumber(i))
    BY <1>2, <1>4, Zenon
  <2>2. IsCode(c.code) /\ c.min \in Nat
    BY <1>2, Codes
  <2> QED
    BY <1>2, <2>1, <2>2, Zenon DEF IsClass
<1>6. Enough(c)
  <2>1. c.min <= 1 + Least(Address) + Least(Quantity(125))
    BY <1>2, <1>4
  <2> QED
    BY <1>2, <1>4, <2>1, Zenon DEF Enough
<1>7. IsRequest(c)
  BY <1>2, <1>5, <1>6, Zenon DEF IsRequest
<1>8. IsResponse(Plain(8, 5, <<Address, Quantity(125)>>))
  BY <1>3, ToldTwo, Codes
<1>9. IsFunction(ReadDiagnosticsRequest)
  <2>1. ReadDiagnosticsRequest.response = Plain(8, 5, <<Address, Quantity(125)>>)
    BY RequestIs, Zenon DEF ReadDiagnosticsRequest, ReadDiagnosticsResponse, Span
  <2>2. ReadDiagnosticsRequest.response.code = 8
    BY <2>1 DEF Plain
  <2> QED
    BY <1>1, <1>2, <1>7, <1>8, <2>1, <2>2, Zenon DEF IsFunction
<1>10. PICK d : d = ReportSlaveIdRequest.class
  OBVIOUS
<1>11. d.code = 17 /\ d.expects = {17} /\ d.min = 1 /\ d.fields = <<>> /\ d.given = FALSE /\ d.exact = TRUE
  BY <1>10 DEF ReportSlaveIdRequest, Request, Plain
<1>12. IsRequest(d)
  <2>1. IsCode(d.code) /\ d.min \in Nat /\ d.min <= 1
    BY <1>11, Codes
  <2>2. IsClass(d)
    BY <1>11, <2>1, Zenon DEF IsClass
  <2>3. Enough(d)
    BY <1>11, <2>1, Zenon DEF Enough
  <2> QED
    BY <1>11, <2>2, <2>3, Zenon DEF IsRequest
<1>13. IsResponse(Plain(17, 7, <<Bytes("identity", 5, 65535, 1)>>))
  BY Lists, ToldOne, Codes
<1>14. IsFunction(ReportSlaveIdRequest)
  <2>1. ReportSlaveIdRequest.response = Plain(17, 7, <<Bytes("identity", 5, 65535, 1)>>)
    BY RequestIs DEF ReportSlaveIdRequest, ReportSlaveIdResponse
  <2>2. ReportSlaveIdRequest.response.code = 17
    BY <2>1 DEF Plain
  <2> QED
    BY <1>10, <1>11, <1>12, <1>13, <2>1, <2>2 DEF IsFunction
<1> QED
  BY <1>9, <1>14

LEMMA FileFunctions ==
    /\ IsFunction(ReadFileRecordRequest) /\ IsFunction(WriteFileRecordRequest)
    /\ IsFunction(ReadFifo8Request) /\ IsFunction(WriteFifo8Request)
    /\ IsFunction(ReadObjectRequest) /\ IsFunction(WriteObjectRequest)
<1>1. /\ Plainly(Octet(0, 255, 0), 1) /\ Plainly(Octet(0, 250, 0), 1) /\ Plainly(Number("limit", 0, 250, 250), 1)
      /\ Plainly(Number("flags", 0, 3, 0), 1)
  BY Numbers, OtherFields
<1>2. IsRequest(Plain(20, 9, <<Records("reads")>>)) /\ IsResponse(Plain(20, 6, <<Records("data")>>))
  BY Lists, AskedOne, ToldOne, Codes
<1>3. IsRequest(Plain(21, 11, <<Records("writes")>>)) /\ IsResponse(Plain(21, 11, <<Records("writes")>>))
  BY Lists, AskedOne, ToldOne, Codes
<1>4. IsRequest(Plain(65, 3, <<Octet(0, 255, 0), Number("limit", 0, 250, 250)>>))
  BY <1>1, AskedTwo, Codes
<1>5. IsResponse(Plain(65, 3, <<Number("flags", 0, 3, 0), Counted(0, 250)>>))
  <2>1. Told(Counted(0, 250))
    BY Lists
  <2> QED
    BY <1>1, <2>1, ToldTwo, Codes
<1>6. IsRequest(Plain(66, 4, <<Octet(0, 255, 0), Counted(1, 250)>>))
  BY <1>1, Lists, AskedTwo, Codes
<1>7. IsResponse(Plain(66, 2, <<Octet(0, 250, 0)>>)) /\ IsResponse(Plain(68, 2, <<Octet(0, 250, 0)>>))
  BY <1>1, ToldOne, Codes
<1>8. IsRequest(Plain(67, 2, <<Octet(0, 255, 0)>>))
  BY <1>1, AskedOne, Codes
<1>9. IsResponse(Plain(67, 2, <<Counted(0, 500)>>))
  BY Lists, ToldOne, Codes
<1>10. IsRequest(Plain(68, 4, <<Octet(0, 255, 0), Counted(1, 500)>>))
  BY <1>1, Lists, AskedTwo, Codes
<1>11. IsFunction(ReadFileRecordRequest)
  BY <1>2, Together, Zenon DEF ReadFileRecordRequest, ReadFileRecordResponse
<1>12. IsFunction(WriteFileRecordRequest)
  BY <1>3, Together, Zenon DEF WriteFileRecordRequest, WriteFileRecordResponse
<1>13. IsFunction(ReadFifo8Request)
  BY <1>4, <1>5, Together DEF ReadFifo8Request, ReadFifo8Response
<1>14. IsFunction(WriteFifo8Request)
  BY <1>6, <1>7, Together DEF WriteFifo8Request, WriteFifo8Response, Status
<1>15. IsFunction(ReadObjectRequest)
  BY <1>8, <1>9, Together DEF ReadObjectRequest, ReadObjectResponse
<1>16. IsFunction(WriteObjectRequest)
  BY <1>7, <1>10, Together DEF WriteObjectRequest, WriteObjectResponse, Status
<1> QED
  BY <1>11, <1>12, <1>13, <1>14, <1>15, <1>16

LEMMA MemoryFunctions ==
    /\ IsFunction(ReadMemoryRequest) /\ IsFunction(WriteMemoryRequest)
    /\ IsFunction(WriteMemoryVerifyRequest) /\ IsFunction(CommandRequest)
<1>1. /\ Plainly(Address, 2) /\ Plainly(Octet(0, 255, 0), 1) /\ Plainly(Octet(0, 250, 0), 1)
      /\ Plainly(Octet(1, 250, 250), 1)
  BY Numbers
<1>2. IsRequest(Plain(69, 4, <<Address, Octet(1, 250, 250)>>))
  BY <1>1, AskedTwo, Codes
<1>3. IsResponse(Plain(69, 2, <<Rest(0, 250)>>))
  BY Lists, ToldOne, Codes
<1>4. ASSUME NEW code, IsCode(code)
      PROVE  IsFunction(Request(WriteRest(code), Status(code)))
  <2>1. IsRequest(Plain(code, 4, <<Address, Rest(1, 250)>>))
    <3>1. PICK f : f = Rest(1, 250)
      OBVIOUS
    <3>2. Asked(f, 1) /\ 4 \in Nat /\ 1 \in Nat /\ 2 \in Nat /\ 4 <= 1 + 2 + 1
      BY <3>1, Lists
    <3>3. IsRequest(Plain(code, 4, <<Address, f>>))
      BY <1>1, <1>4, <3>2, AskedTwo, Zenon
    <3> QED
      BY <3>1, <3>3
  <2>2. IsResponse(Plain(code, 2, <<Octet(0, 250, 0)>>))
    <3>1. PICK f : f = Octet(0, 250, 0)
      OBVIOUS
    <3>2. Plainly(f, 1) /\ 2 \in Nat
      BY <1>1, <3>1
    <3>3. IsResponse(Plain(code, 2, <<f>>))
      BY <1>4, <3>2, ToldOne, Zenon
    <3> QED
      BY <3>1, <3>3
  <2> QED
    BY <2>1, <2>2, Together DEF WriteRest, Status
<1>5. IsRequest(Plain(71, 2, <<Octet(0, 255, 0), Bytes("shifted", 0, 65535, 1)>>))
  BY <1>1, Lists, AskedTwo, Codes
<1>6. IsResponse(Plain(71, 2, <<Octet(0, 255, 0), Rest(0, 500)>>))
  <2>1. Told(Rest(0, 500))
    BY Lists
  <2> QED
    BY <1>1, <2>1, ToldTwo, Codes
<1>7. IsFunction(ReadMemoryRequest)
  BY <1>2, <1>3, Together DEF ReadMemoryRequest, ReadMemoryResponse
<1>8. IsFunction(WriteMemoryRequest) /\ IsFunction(WriteMemoryVerifyRequest)
  BY <1>4, Codes DEF WriteMemoryRequest, WriteMemoryResponse, WriteMemoryVerifyRequest,
     WriteMemoryVerifyResponse
<1>9. IsFunction(CommandRequest)
  BY <1>5, <1>6, Together DEF CommandRequest, CommandResponse
<1> QED
  BY <1>7, <1>8, <1>9

LEMMA GenericFunctions == IsFunction(GenericRequest(7))
<1>1. PICK c : c = GenericRequest(7).class
  OBVIOUS
<1>2. PICK f : f = Rest(0, 65535)
  OBVIOUS
<1>3. /\ c.code = 7 /\ c.expects = {} /\ c.min = 2 /\ c.fields = <<f>>
      /\ c.exact = FALSE /\ c.given = FALSE
  BY <1>1, <1>2 DEF GenericRequest, Request, Plain
<1>4. IsField(f)
  <2>1. f.kind = "rest" /\ f.lo = 0 /\ f.hi = 65535 /\ f.step = 1
    BY <1>2 DEF Rest, Bytes
  <2> QED
    BY <2>1 DEF IsField, IsList, Sequences, OfRecords
<1>5. IsCode(c.code) /\ c.min \in Nat
  BY <1>3, Codes
<1>6. IsRequest(c)
  <2>1. \E h : c.fields = <<h>> /\ IsField(h) /\ (c.given => IsNumber(h))
    BY <1>3, <1>4, Zenon
  <2>2. IsClass(c)
    BY <1>3, <1>5, <2>1, Zenon DEF IsClass
  <2> QED
    BY <1>3, <2>2 DEF IsRequest
<1>7. PICK d : d = GenericRequest(7).response
  OBVIOUS
<1>8. PICK g : g = Bytes("generic", 1, 65535, 1)
  OBVIOUS
<1>9. /\ d.code = 7 /\ d.expects = Byte /\ d.min = 2 /\ d.fields = <<g>>
      /\ d.exact = FALSE /\ d.given = FALSE
  BY <1>7, <1>8 DEF GenericRequest, GenericResponse, Request, Plain, Byte
<1>10. IsField(g) /\ ResponseField(g)
  <2>1. g.kind = "generic" /\ g.lo = 1 /\ g.hi = 65535 /\ g.step = 1
    BY <1>8 DEF Bytes
  <2> QED
    BY <2>1 DEF IsField, IsList, Sequences, OfRecords, ResponseField
<1>11. IsCode(d.code) /\ d.min \in Nat /\ d.min >= 2
  BY <1>9, Codes
<1>12. IsResponse(d)
  <2>1. \E h : d.fields = <<h>> /\ IsField(h) /\ (d.given => IsNumber(h))
    BY <1>9, <1>10, Zenon
  <2>2. IsClass(d)
    BY <1>9, <1>11, <2>1, Zenon DEF IsClass
  <2>3. \E h : d.fields = <<h>> /\ ResponseField(h) /\ (h.kind = "generic" => d.min >= 2)
    BY <1>9, <1>10, <1>11, Zenon
  <2> QED
    BY <1>9, <2>2, <2>3, Zenon DEF IsResponse
<1> QED
  BY <1>1, <1>3, <1>6, <1>7, <1>9, <1>12, Zenon DEF IsFunction

LEMMA FunctionsAre == \A f \in Function : IsFunction(f)
<1> TAKE f \in Function
<1>1. f \in Registered \/ f = WriteFifo8Request \/ f = GenericRequest(7)
  BY Zenon DEF Function
<1> QED
  BY <1>1, ReadFunctions, WriteFunctions, DiagnosticFunctions, FileFunctions,
     MemoryFunctions, GenericFunctions, Zenon DEF Registered

----------------------------------------------------------------------------
\* Requests and responses

LEMMA CodeIsByte == \A x : IsCode(x) => x \in Byte
BY ByteIs DEF IsCode

\* The arguments of new are of the types of the fields.
Typed(c, m) ==
    \/ c.fields = <<>> /\ m = <<>>
    \/ \E f, v : c.fields = <<f>> /\ m = <<v>> /\ v \in Type(f)
    \/ \E f, g, v, w : c.fields = <<f, g>> /\ m = <<v, w>> /\ v \in Type(f) /\ w \in Type(g)

\* A default has the type of its field, and an argument that is given is kept.
LEMMA PrepareType ==
    ASSUME NEW f, IsField(f), NEW v \in Type(f)
    PROVE  /\ Prepare(f, v) \in Type(f)
           /\ v # Undefined => Prepare(f, v) = v
<1>1. CASE IsNumber(f)
  <2>1. Type(f) = Int /\ f.default \in Int
    BY <1>1 DEF IsNumber, Type
  <2> QED
    BY <2>1, Zenon DEF Prepare
<1>2. CASE ~(f.kind \in Numeric)
  BY <1>2, Zenon DEF Prepare
<1>3. IsList(f) => ~(f.kind \in Numeric)
  BY DEF IsList, Numeric, Sequences, OfRecords
<1> QED
  BY <1>1, <1>2, <1>3 DEF IsField

\* What new accepts is a message.
LEMMA Made ==
    ASSUME NEW c, IsClass(c), NEW m, Typed(c, m), New(c, m).ok
    PROVE  Valid(c, New(c, m).values)
<1>1. CASE c.fields = <<>>
  <2>1. m = <<>>
    BY <1>1, TupleIs, Zenon DEF Typed
  <2>2. New(c, m).values = <<>>
    BY <2>1, NewNone, AcceptedIs, Zenon
  <2> QED
    BY <1>1, <2>2, Zenon DEF Valid
<1>2. ASSUME NEW f, c.fields = <<f>>, IsField(f), c.given => IsNumber(f)
      PROVE  Valid(c, New(c, m).values)
  <2>1. PICK v : m = <<v>> /\ v \in Type(f)
    <3>1. CASE c.fields = <<>> /\ m = <<>>
      BY <1>2, <3>1, TupleIs
    <3>2. ASSUME NEW h, NEW v, c.fields = <<h>>, m = <<v>>, v \in Type(h)
          PROVE  \E z : m = <<z>> /\ z \in Type(f)
      <4>1. h = f
        BY <1>2, <3>2, TupleIs
      <4> QED
        BY <3>2, <4>1, Zenon
    <3>3. ASSUME NEW h, NEW i, c.fields = <<h, i>> PROVE FALSE
      BY <1>2, <3>3, TupleIs
    <3> QED
      BY <3>1, <3>2, <3>3, Zenon DEF Typed
  <2>2. PICK w : w = Prepare(f, v)
    BY Zenon
  <2>3. w \in Type(f) /\ (v # Undefined => w = v)
    BY <1>2, <2>1, <2>2, PrepareType
  <2>4. New(c, m) = IF (c.given => v \notin {Undefined, 0}) /\ Fits(f, w) THEN Accepted(<<w>>) ELSE Rejected
    <3>1. New(c, <<v>>) = IF /\ c.given => v \notin {Undefined, 0}
                             /\ Fits(f, Prepare(f, v))
                          THEN Accepted(<<Prepare(f, v)>>) ELSE Rejected
      BY <1>2, NewOne
    <3> QED
      BY <2>1, <2>2, <3>1, Zenon
  <2>5. (c.given => v \notin {Undefined, 0}) /\ Fits(f, w) /\ New(c, m).values = <<w>>
    BY <2>4, AcceptedIs, Zenon
  <2>6. Right(f, w) /\ (c.given => w \notin {Undefined, 0})
    BY <2>3, <2>5, Zenon DEF Right
  <2>7. \E h, x : /\ c.fields = <<h>> /\ New(c, m).values = <<x>> /\ IsField(h) /\ Right(h, x)
                  /\ c.given => IsNumber(h) /\ x \notin {Undefined, 0}
    BY <1>2, <2>5, <2>6, Zenon
  <2> QED
    BY <2>7, Zenon DEF Valid
<1>3. ASSUME NEW f, NEW g, c.fields = <<f, g>>, IsNumber(f), IsField(g), c.given => IsNumber(g)
      PROVE  Valid(c, New(c, m).values)
  <2>1. PICK v, u : m = <<v, u>> /\ v \in Type(f) /\ u \in Type(g)
    <3>1. CASE c.fields = <<>> /\ m = <<>>
      BY <1>3, <3>1, TupleIs
    <3>2. ASSUME NEW h, c.fields = <<h>> PROVE FALSE
      BY <1>3, <3>2, TupleIs
    <3>3. ASSUME NEW h, NEW i, NEW v, NEW u, c.fields = <<h, i>>, m = <<v, u>>, v \in Type(h), u \in Type(i)
          PROVE  \E y, z : m = <<y, z>> /\ y \in Type(f) /\ z \in Type(g)
      <4>1. h = f /\ i = g
        BY <1>3, <3>3, TupleIs
      <4> QED
        BY <3>3, <4>1, Zenon
    <3> QED
      BY <3>1, <3>2, <3>3, Zenon DEF Typed
  <2>2. PICK w : w = Prepare(f, v)
    BY Zenon
  <2>3. PICK x : x = Prepare(g, u)
    BY Zenon
  <2>4. w \in Type(f) /\ (v # Undefined => w = v) /\ x \in Type(g) /\ (u # Undefined => x = u)
    <3>1. IsField(f)
      BY <1>3, Zenon DEF IsField
    <3> QED
      BY <1>3, <2>1, <2>2, <2>3, <3>1, PrepareType, Zenon
  <2>5. New(c, m) = IF (c.given => v \notin {Undefined, 0} /\ u \notin {Undefined, 0}) /\ Fits(f, w) /\ Fits(g, x)
                    THEN Accepted(<<w, x>>) ELSE Rejected
    <3>1. New(c, <<v, u>>) = IF /\ c.given => v \notin {Undefined, 0} /\ u \notin {Undefined, 0}
                                /\ Fits(f, Prepare(f, v)) /\ Fits(g, Prepare(g, u))
                             THEN Accepted(<<Prepare(f, v), Prepare(g, u)>>) ELSE Rejected
      BY <1>3, NewTwo
    <3> QED
      BY <2>1, <2>2, <2>3, <3>1, Zenon
  <2>6. /\ c.given => v \notin {Undefined, 0} /\ u \notin {Undefined, 0}
        /\ Fits(f, w) /\ Fits(g, x) /\ New(c, m).values = <<w, x>>
    BY <2>5, AcceptedIs, Zenon
  <2>7. Right(f, w) /\ Right(g, x) /\ (c.given => w \notin {Undefined, 0} /\ x \notin {Undefined, 0})
    BY <2>4, <2>6, Zenon DEF Right
  <2>8. \E h, i, y, z : /\ c.fields = <<h, i>> /\ New(c, m).values = <<y, z>>
                        /\ IsNumber(h) /\ Right(h, y) /\ IsField(i) /\ Right(i, z)
                        /\ c.given => y \notin {Undefined, 0} /\ IsNumber(i) /\ z \notin {Undefined, 0}
    BY <1>3, <2>6, <2>7, Zenon
  <2> QED
    BY <2>8, Zenon DEF Valid
<1> QED
  BY <1>1, <1>2, <1>3, Zenon DEF IsClass

\* The bytes of a message.
LEMMA FrameIs ==
    ASSUME NEW c, IsClass(c), NEW m, Valid(c, m), NEW s, s = ToBuffer(c, m)
    PROVE  s \in Seq(Byte) /\ Len(s) \in Nat /\ 1 <= Len(s) /\ s[1] = c.code
<1>1. PICK a : a = <<c.code>>
  BY Zenon
<1>2. c.code \in Byte
  BY CodeIsByte DEF IsClass
<1>3. a \in Seq(Byte) /\ Len(a) = 1 /\ a[1] = c.code
  BY <1>1, <1>2, One
<1>4. ASSUME NEW p \in Seq(Byte), NEW h \in Seq(Byte), Len(h) >= 1, h[1] = c.code, NEW q, q = Join(h, p)
      PROVE  q \in Seq(Byte) /\ Len(q) >= 1 /\ q[1] = c.code
  <2>1. q \in Seq(Byte) /\ Len(q) = Len(h) + Len(p)
    BY <1>4, JoinIs
  <2>2. Len(h) \in Nat /\ Len(p) \in Nat
    BY LenProperties
  <2>3. q[1] = h[1]
    <3>1. \A i \in 1 .. Len(h) + Len(p) : q[i] = IF i <= Len(h) THEN h[i] ELSE p[i - Len(h)]
      BY <1>4, ConcatProperties DEF Join
    <3>2. 1 \in 1 .. Len(h) + Len(p) /\ 1 <= Len(h)
      BY <1>4, <2>2
    <3> QED
      BY <3>1, <3>2, Zenon
  <2> QED
    BY <1>4, <2>1, <2>2, <2>3
<1>5. CASE c.fields = <<>> /\ m = <<>>
  <2>1. s = a
    BY <1>1, <1>5, ToBufferNone, Zenon
  <2> QED
    BY <1>3, <2>1
<1>6. ASSUME NEW f, NEW v, c.fields = <<f>>, m = <<v>>, IsField(f), Right(f, v)
      PROVE  s \in Seq(Byte) /\ Len(s) >= 1 /\ s[1] = c.code
  <2>1. PICK p : p = Push(f, v)
    BY Zenon
  <2>2. p \in Seq(Byte)
    BY <1>6, <2>1, FieldTrip, Zenon
  <2>3. s = Join(a, p)
    <3>1. Push(f, v) \in Seq(Byte)
      BY <2>1, <2>2
    <3>2. ToBuffer(c, <<v>>) = Join(<<c.code>>, Push(f, v))
      BY <1>2, <1>6, <3>1, ToBufferOne
    <3> QED
      BY <1>1, <1>6, <2>1, <3>2, Zenon
  <2> QED
    BY <1>3, <1>4, <2>2, <2>3
<1>7. ASSUME NEW f, NEW g, NEW v, NEW w, c.fields = <<f, g>>, m = <<v, w>>, IsNumber(f), Right(f, v), IsField(g), Right(g, w)
      PROVE  s \in Seq(Byte) /\ Len(s) >= 1 /\ s[1] = c.code
  <2>1. PICK p : p = Push(f, v)
    BY Zenon
  <2>2. PICK q : q = Push(g, w)
    BY Zenon
  <2>3. p \in Seq(Byte) /\ q \in Seq(Byte)
    BY <1>7, <2>1, <2>2, FieldTrip, Zenon DEF IsField
  <2>4. PICK h : h = Join(a, p)
    BY Zenon
  <2>5. h \in Seq(Byte) /\ Len(h) >= 1 /\ h[1] = c.code
    BY <1>3, <1>4, <2>3, <2>4
  <2>6. s = Join(h, q)
    <3>1. ToBuffer(c, <<v, w>>) = Join(Join(<<c.code>>, Push(f, v)), Push(g, w))
      BY <1>7, ToBufferTwo
    <3> QED
      BY <1>1, <1>7, <2>1, <2>2, <2>4, <3>1, Zenon
  <2> QED
    BY <1>4, <2>3, <2>5, <2>6
<1>8. s \in Seq(Byte) /\ Len(s) >= 1 /\ s[1] = c.code
  BY <1>5, <1>6, <1>7, Zenon DEF Valid
<1> QED
  BY <1>8, LenProperties

\* What a slave or a master reads of the bytes of a message.
LEMMA BackIs ==
    ASSUME NEW c, IsClass(c), NEW m, Valid(c, m), NEW b, NEW n, Stands(ToBuffer(c, m), b, 1, n), 1 <= Len(b)
    PROVE  Back(c, m, b, n)
<1>1. c.code \in Byte
  BY CodeIsByte DEF IsClass
<1>2. CASE c.fields = <<>> /\ m = <<>>
  BY <1>2, BackNone, Zenon
<1>3. ASSUME NEW f, NEW v, c.fields = <<f>>, m = <<v>>, IsField(f), Right(f, v),
             c.given => IsNumber(f) /\ v \notin {Undefined, 0}
      PROVE  Back(c, m, b, n)
  <2>1. Push(f, v) \in Seq(Byte)
    BY <1>3, FieldTrip, Zenon
  <2>2. ToBuffer(c, <<v>>) = Join(<<c.code>>, Push(f, v))
    BY <1>1, <1>3, <2>1, ToBufferOne
  <2>3. Stands(Join(<<c.code>>, Push(f, v)), b, 1, n)
    BY <1>3, <2>2, Zenon
  <2>4. Back(c, <<v>>, b, n)
    BY <1>1, <1>3, <2>3, BackOne, Zenon
  <2> QED
    BY <1>3, <2>4, Zenon
<1>4. ASSUME NEW f, NEW g, NEW v, NEW w, c.fields = <<f, g>>, m = <<v, w>>,
             IsNumber(f), Right(f, v), IsField(g), Right(g, w),
             c.given => v \notin {Undefined, 0} /\ IsNumber(g) /\ w \notin {Undefined, 0}
      PROVE  Back(c, m, b, n)
  <2>1. ToBuffer(c, <<v, w>>) = Join(Join(<<c.code>>, Push(f, v)), Push(g, w))
    BY <1>4, ToBufferTwo
  <2>2. Stands(Join(Join(<<c.code>>, Push(f, v)), Push(g, w)), b, 1, n)
    BY <1>4, <2>1, Zenon
  <2>3. Back(c, <<v, w>>, b, n)
    BY <1>1, <1>4, <2>2, BackTwo, Zenon
  <2> QED
    BY <1>4, <2>3, Zenon
<1> QED
  BY <1>2, <1>3, <1>4, Zenon DEF Valid

\* fromBuffer of a buffer that is not empty.
LEMMA FromBufferIs ==
    ASSUME NEW c, NEW b \in Seq(Byte), 1 <= Len(b)
    PROVE  FromBuffer(c, b) = IF \/ Len(b) < c.min \/ (c.exact /\ Len(b) # c.min)
                                 \/ b[1] \notin c.expects \/ ~ShiftAll(c, b).ok
                              THEN Rejected ELSE New(c, ShiftAll(c, b).value)
<1>1. b # <<>>
  BY EmptySeq
<1>2. Head(b) = b[1]
  BY <1>1
<1> QED
  BY <1>1, <1>2, Zenon DEF FromBuffer

\* A request is as long as its fromBuffer demands, unless it is an empty list of records.
NoRecords(c, m) == \E i \in DOMAIN m : c.fields[i].kind \in OfRecords /\ m[i] = <<>>

\* Only an empty list of records makes a request that is too short.
LEMMA FrameLong ==
    ASSUME NEW c, IsClass(c), Enough(c), NEW m, Valid(c, m), ~NoRecords(c, m)
    PROVE  Len(ToBuffer(c, m)) >= c.min
<1>1. PICK s : s = ToBuffer(c, m)
  BY Zenon
<1>2. Len(s) \in Nat /\ 1 <= Len(s) /\ c.min \in Nat
  BY <1>1, FrameIs DEF IsClass
<1>3. c.code \in Byte
  BY CodeIsByte DEF IsClass
<1>4. PICK a : a = <<c.code>>
  BY Zenon
<1>5. a \in Seq(Byte) /\ Len(a) = 1
  BY <1>3, <1>4, One
<1>6. CASE c.fields = <<>>
  <2>1. c.min <= 1
    BY <1>6, TupleIs, Zenon DEF Enough
  <2>2. PICK z : z = c.min
    BY Zenon
  <2>3. Len(s) >= z
    BY <1>2, <2>1, <2>2
  <2> QED
    BY <1>1, <2>2, <2>3, Zenon
<1>7. ASSUME NEW f, NEW v, c.fields = <<f>>, m = <<v>>, IsField(f), Right(f, v) PROVE Len(s) >= c.min
  <2>1. c.min <= 1 + Least(f)
    <3>1. PICK h : c.fields = <<h>> /\ c.min <= 1 + Least(h)
      BY <1>7, TupleIs, Zenon DEF Enough
    <3>2. h = f
      BY <1>7, <3>1, TupleIs
    <3> QED
      BY <3>1, <3>2, Zenon
  <2>2. v # <<>> \/ f.kind \notin {"reads", "writes"}
    <3>1. 1 \in DOMAIN m /\ m[1] = v /\ c.fields[1] = f
      BY <1>7
    <3>2. ~(f.kind \in OfRecords /\ v = <<>>)
      BY <3>1, Zenon DEF NoRecords
    <3> QED
      BY <3>2 DEF OfRecords
  <2>3. PICK p : p = Push(f, v)
    BY Zenon
  <2>4. p \in Seq(Byte) /\ Len(p) >= Least(f)
    <3>1. Pushed(f, v)
      BY <1>7, <2>2, FieldTrip, Zenon
    <3> QED
      BY <2>3, <3>1, Zenon DEF Pushed
  <2>5. s = Join(a, p)
    <3>1. Push(f, v) \in Seq(Byte)
      BY <2>3, <2>4
    <3>2. ToBuffer(c, <<v>>) = Join(<<c.code>>, Push(f, v))
      BY <1>3, <1>7, <3>1, ToBufferOne
    <3> QED
      BY <1>1, <1>4, <1>7, <2>3, <3>2, Zenon
  <2>6. Len(s) = Len(a) + Len(p)
    BY <1>5, <2>4, <2>5, JoinIs, Zenon
  <2>7. PICK l : l = Least(f)
    BY Zenon
  <2>8. PICK z : z = c.min
    BY Zenon
  <2>9. l \in Nat
    BY <1>7, <2>7 DEF IsField, IsNumber, IsList, Least
  <2>10. z \in Nat /\ z <= 1 + l /\ Len(p) >= l /\ Len(p) \in Nat
    BY <1>2, <2>1, <2>4, <2>7, <2>8, LenProperties
  <2>11. Len(s) >= z
    BY <1>5, <2>6, <2>9, <2>10
  <2> QED
    BY <2>8, <2>11, Zenon
<1>8. ASSUME NEW f, NEW g, NEW v, NEW w, c.fields = <<f, g>>, m = <<v, w>>,
             IsNumber(f), Right(f, v), IsField(g), Right(g, w)
      PROVE  Len(s) >= c.min
  <2>1. c.min <= 1 + Least(f) + Least(g)
    <3>1. PICK h, i : c.fields = <<h, i>> /\ c.min <= 1 + Least(h) + Least(i)
      BY <1>8, TupleIs, Zenon DEF Enough
    <3>2. h = f /\ i = g
      BY <1>8, <3>1, TupleIs
    <3> QED
      BY <3>1, <3>2, Zenon
  <2>2. w # <<>> \/ g.kind \notin {"reads", "writes"}
    <3>1. 2 \in DOMAIN m /\ m[2] = w /\ c.fields[2] = g
      BY <1>8
    <3>2. ~(g.kind \in OfRecords /\ w = <<>>)
      BY <3>1, Zenon DEF NoRecords
    <3> QED
      BY <3>2 DEF OfRecords
  <2>3. PICK p : p = Push(f, v)
    BY Zenon
  <2>4. p \in Seq(Byte) /\ Len(p) >= Least(f)
    <3>1. Pushed(f, v)
      BY <1>8, LastNumber, Zenon
    <3> QED
      BY <2>3, <3>1, Zenon DEF Pushed
  <2>5. PICK q : q = Push(g, w)
    BY Zenon
  <2>6. q \in Seq(Byte) /\ Len(q) >= Least(g)
    <3>1. Pushed(g, w)
      BY <1>8, <2>2, FieldTrip, Zenon
    <3> QED
      BY <2>5, <3>1, Zenon DEF Pushed
  <2>7. PICK h : h = Join(a, p)
    BY Zenon
  <2>8. h \in Seq(Byte) /\ Len(h) = Len(a) + Len(p)
    BY <1>5, <2>4, <2>7, JoinIs, Zenon
  <2>9. s = Join(h, q)
    <3>1. ToBuffer(c, <<v, w>>) = Join(Join(<<c.code>>, Push(f, v)), Push(g, w))
      BY <1>8, ToBufferTwo
    <3> QED
      BY <1>1, <1>4, <1>8, <2>3, <2>5, <2>7, <3>1, Zenon
  <2>10. Len(s) = Len(h) + Len(q)
    BY <2>6, <2>8, <2>9, JoinIs, Zenon
  <2>11. PICK k : k = Least(f)
    BY Zenon
  <2>12. PICK l : l = Least(g)
    BY Zenon
  <2>13. PICK z : z = c.min
    BY Zenon
  <2>14. k \in Nat /\ l \in Nat
    <3>1. k \in Nat
      BY <1>8, <2>11, NumberWhole
    <3>2. l \in Nat
      BY <1>8, <2>12 DEF IsField, IsNumber, IsList, Least
    <3> QED
      BY <3>1, <3>2
  <2>15. z \in Nat /\ z <= 1 + k + l
    BY <1>2, <2>1, <2>11, <2>12, <2>13, Zenon
  <2>16. Len(p) >= k /\ Len(p) \in Nat /\ Len(q) >= l /\ Len(q) \in Nat
    BY <2>4, <2>6, <2>11, <2>12, LenProperties
  <2>17. Len(s) >= z
    BY <1>5, <2>8, <2>10, <2>14, <2>15, <2>16
  <2> QED
    BY <2>13, <2>17, Zenon
<1> QED
  BY <1>1, <1>6, <1>7, <1>8, Zenon DEF Valid

\* What becomes of the values of a request, and the objects of which nothing does.
CarriedAll(c, m) == [i \in DOMAIN m |-> Carried(c.fields[i], m[i])]
NothingLeft(c, m) ==
    \E i \in DOMAIN m : c.fields[i].kind = "counted" /\ Len(m[i]) > 255 /\ Len(m[i]) % 256 = 0

LEMMA TupleSame == \A x, y, z : x = y => <<x>> = <<y>> /\ <<z, x>> = <<z, y>>
  OBVIOUS

LEMMA CarriedOne ==
    ASSUME NEW c, NEW f, NEW v, NEW m, c.fields = <<f>>, m = <<v>>
    PROVE  CarriedAll(c, m) = <<Carried(f, v)>>
<1>1. PICK x : x = Carried(f, v)
  BY Zenon
<1>2. DOMAIN m = {1} /\ c.fields[1] = f /\ m[1] = v
  OBVIOUS
<1>3. Carried(c.fields[1], m[1]) = x
  BY <1>1, <1>2, Zenon
<1>4. CarriedAll(c, m) = [i \in {1} |-> Carried(c.fields[i], m[i])]
  BY <1>2, Zenon DEF CarriedAll
<1>5. CarriedAll(c, m) = [i \in {1} |-> x]
  BY <1>3, <1>4
<1> QED
  BY <1>1, <1>5

LEMMA CarriedTwo ==
    ASSUME NEW c, NEW f, NEW g, NEW v, NEW w, NEW m, c.fields = <<f, g>>, m = <<v, w>>
    PROVE  CarriedAll(c, m) = <<Carried(f, v), Carried(g, w)>>
<1>1. PICK x : x = Carried(f, v)
  BY Zenon
<1>2. PICK y : y = Carried(g, w)
  BY Zenon
<1>3. DOMAIN m = {1, 2} /\ c.fields[1] = f /\ m[1] = v /\ c.fields[2] = g /\ m[2] = w
  OBVIOUS
<1>4. Carried(c.fields[1], m[1]) = x /\ Carried(c.fields[2], m[2]) = y
  BY <1>1, <1>2, <1>3, Zenon
<1>5. CarriedAll(c, m) = [i \in {1, 2} |-> Carried(c.fields[i], m[i])]
  BY <1>3, Zenon DEF CarriedAll
<1>6. CarriedAll(c, m) = [i \in {1, 2} |-> IF i = 1 THEN x ELSE y]
  BY <1>4, <1>5
<1> QED
  BY <1>1, <1>2, <1>6

\* What fromBuffer makes of a request is what its bytes carry.
LEMMA RequestKept ==
    ASSUME NEW c, IsRequest(c), NEW m, NEW values, FieldsKept(c, m, values, 0), c.expects = {c.code}
    PROVE  values = CarriedAll(c, m)
<1>1. ASSUME NEW g, RequestKind(g), NEW w, NEW x, Kept(g, w, x, 0)
      PROVE  x = Carried(g, w)
  <2>1. Whole(g, w, x)
    BY <1>1, Zenon DEF Kept
  <2> QED
    BY <1>1, <2>1 DEF Whole, Carried, RequestKind
<1>2. Enough(c)
  <2>1. c.expects # {}
    OBVIOUS
  <2> QED
    BY <2>1, Zenon DEF IsRequest
<1>3. ASSUME NEW f, NEW v, NEW w, c.fields = <<f>>, m = <<v>>, values = <<w>>, Kept(f, v, w, 0)
      PROVE  values = CarriedAll(c, m)
  <2>1. RequestKind(f)
    <3>1. PICK h : c.fields = <<h>> /\ RequestKind(h)
      BY <1>2, <1>3, TupleIs, Zenon DEF Enough
    <3>2. h = f
      BY <1>3, <3>1, TupleIs
    <3> QED
      BY <3>1, <3>2
  <2>2. w = Carried(f, v)
    BY <1>1, <1>3, <2>1, Zenon
  <2>3. CarriedAll(c, m) = <<Carried(f, v)>>
    BY <1>3, CarriedOne
  <2> QED
    BY <1>3, <2>2, <2>3, TupleSame, Zenon
<1>4. ASSUME NEW f, NEW g, NEW v, NEW w, NEW x, c.fields = <<f, g>>, m = <<v, w>>, values = <<v, x>>,
             IsNumber(f), Kept(g, w, x, 0)
      PROVE  values = CarriedAll(c, m)
  <2>1. RequestKind(g)
    <3>1. PICK h, i : c.fields = <<h, i>> /\ RequestKind(i)
      BY <1>2, <1>4, TupleIs, Zenon DEF Enough
    <3>2. i = g
      BY <1>4, <3>1, TupleIs
    <3> QED
      BY <3>1, <3>2
  <2>2. x = Carried(g, w)
    BY <1>1, <1>4, <2>1, Zenon
  <2>3. Carried(f, v) = v
    BY <1>4 DEF Carried, IsNumber, Numeric
  <2>4. CarriedAll(c, m) = <<Carried(f, v), Carried(g, w)>>
    BY <1>4, CarriedTwo
  <2>5. CarriedAll(c, m) = <<v, Carried(g, w)>>
    <3>1. PICK y : y = Carried(f, v)
      BY Zenon
    <3>2. PICK z : z = Carried(g, w)
      BY Zenon
    <3>3. CarriedAll(c, m) = <<y, z>> /\ y = v
      BY <2>3, <2>4, <3>1, <3>2, Zenon
    <3>4. CarriedAll(c, m) = <<v, z>>
      BY <3>3
    <3> QED
      BY <3>2, <3>4, Zenon
  <2> QED
    BY <1>4, <2>2, <2>5, TupleSame, Zenon
<1>5. ASSUME values = <<>>, m = <<>>
      PROVE  values = CarriedAll(c, m)
  <2>1. DOMAIN m = {}
    BY <1>5
  <2>2. CarriedAll(c, m) = [i \in {} |-> Carried(c.fields[i], m[i])]
    BY <2>1, Zenon DEF CarriedAll
  <2>3. CarriedAll(c, m) = <<>>
    BY <2>2
  <2> QED
    BY <1>5, <2>3, Zenon
<1> QED
  BY <1>3, <1>4, <1>5, Zenon DEF FieldsKept

\* Only an object of which nothing is left is refused.
LEMMA OverlongRequest ==
    ASSUME NEW c, Enough(c), NEW m, FieldsOverlong(c, m)
    PROVE  NothingLeft(c, m)
<1>1. ASSUME NEW g, RequestKind(g), NEW w, Overlong(g, w)
      PROVE  g.kind = "counted" /\ Len(w) > 255 /\ Len(w) % 256 = 0
  BY <1>1 DEF Overlong, RequestKind
<1>2. ASSUME NEW f, NEW v, c.fields = <<f>>, m = <<v>>, Overlong(f, v)
      PROVE  NothingLeft(c, m)
  <2>1. RequestKind(f)
    <3>1. PICK h : c.fields = <<h>> /\ RequestKind(h)
      BY <1>2, TupleIs, Zenon DEF Enough
    <3>2. h = f
      BY <1>2, <3>1, TupleIs
    <3> QED
      BY <3>1, <3>2
  <2>2. 1 \in DOMAIN m /\ m[1] = v /\ c.fields[1] = f
    BY <1>2
  <2>3. f.kind = "counted" /\ Len(v) > 255 /\ Len(v) % 256 = 0
    BY <1>1, <1>2, <2>1
  <2> QED
    BY <2>2, <2>3, Zenon DEF NothingLeft
<1>3. ASSUME NEW f, NEW g, NEW v, NEW w, c.fields = <<f, g>>, m = <<v, w>>, Overlong(g, w)
      PROVE  NothingLeft(c, m)
  <2>1. RequestKind(g)
    <3>1. PICK h, i : c.fields = <<h, i>> /\ RequestKind(i)
      BY <1>3, TupleIs, Zenon DEF Enough
    <3>2. i = g
      BY <1>3, <3>1, TupleIs
    <3> QED
      BY <3>1, <3>2
  <2>2. 2 \in DOMAIN m /\ m[2] = w /\ c.fields[2] = g
    BY <1>3
  <2>3. g.kind = "counted" /\ Len(w) > 255 /\ Len(w) % 256 = 0
    BY <1>1, <1>3, <2>1
  <2> QED
    BY <2>2, <2>3, Zenon DEF NothingLeft
<1> QED
  BY <1>2, <1>3, Zenon DEF FieldsOverlong

\* What the slave reads of a request.
LEMMA RequestRead ==
    ASSUME NEW c, IsRequest(c), NEW m, Valid(c, m), NEW r, r = FromBuffer(c, ToBuffer(c, m))
    PROVE  /\ r.ok => r.values = CarriedAll(c, m)
           /\ ~r.ok => NothingLeft(c, m) \/ NoRecords(c, m) \/ c.expects = {}
<1>1. PICK b : b = ToBuffer(c, m)
  BY Zenon
<1>2. IsClass(c)
  BY DEF IsRequest
<1>3. b \in Seq(Byte) /\ Len(b) \in Nat /\ 1 <= Len(b) /\ b[1] = c.code
  BY <1>1, <1>2, FrameIs
<1>4. Back(c, m, b, 0)
  <2>1. PICK n : n = 0
    BY Zenon
  <2>2. Stands(b, b, 1, n)
    BY <1>3, <2>1 DEF Stands
  <2>3. Back(c, m, b, n)
    BY <1>1, <1>2, <1>3, <2>2, BackIs, Zenon
  <2> QED
    BY <2>1, <2>3, Zenon
<1>5. r = IF \/ Len(b) < c.min \/ (c.exact /\ Len(b) # c.min)
             \/ c.code \notin c.expects \/ ~ShiftAll(c, b).ok
          THEN Rejected ELSE New(c, ShiftAll(c, b).value)
  BY <1>1, <1>3, FromBufferIs, Zenon
<1>6. CASE c.expects = {}
  <2>1. r = Rejected
    BY <1>5, <1>6, Zenon
  <2> QED
    BY <1>6, <2>1, AcceptedIs, Zenon
<1>7. CASE c.expects # {}
  <2>1. c.expects = {c.code} /\ Enough(c)
    BY <1>7, Zenon DEF IsRequest
  <2>2. ASSUME r.ok PROVE r.values = CarriedAll(c, m)
    <3>1. ShiftAll(c, b).ok /\ r = New(c, ShiftAll(c, b).value)
      BY <1>5, <2>2, AcceptedIs, Zenon
    <3>2. FieldsKept(c, m, r.values, 0)
      BY <1>4, <2>2, <3>1, Zenon DEF Back
    <3> QED
      BY <2>1, <3>2, RequestKept
  <2>3. ASSUME ~r.ok PROVE NothingLeft(c, m) \/ NoRecords(c, m)
    <3> SUFFICES ASSUME ~NoRecords(c, m) PROVE NothingLeft(c, m)
      OBVIOUS
    <3>1. Len(b) >= c.min /\ c.min \in Nat
      BY <1>1, <1>2, <2>1, FrameLong, Zenon DEF IsClass
    <3>2. ~(Len(b) < c.min)
      <4>1. PICK z : z = c.min
        BY Zenon
      <4>2. PICK l : l = Len(b)
        BY Zenon
      <4>3. ~(l < z)
        BY <1>3, <3>1, <4>1, <4>2
      <4> QED
        BY <4>1, <4>2, <4>3, Zenon
    <3>3. ~(c.exact /\ Len(b) # c.min)
      <4> SUFFICES ASSUME c.exact PROVE Len(b) = c.min
        OBVIOUS
      <4>1. c.fields = <<>> /\ c.min = 1
        BY Zenon DEF IsRequest
      <4>2. m = <<>>
        BY <4>1, TupleIs, Zenon DEF Valid
      <4>3. b = <<c.code>>
        BY <1>1, <4>2, ToBufferNone, Zenon
      <4>4. Len(<<c.code>>) = 1
        OBVIOUS
      <4> QED
        BY <4>1, <4>3, <4>4, Zenon
    <3>4. ShiftAll(c, b).ok /\ (New(c, ShiftAll(c, b).value).ok \/ FieldsOverlong(c, m))
      BY <1>4, Zenon DEF Back
    <3>5. r = New(c, ShiftAll(c, b).value)
      BY <1>5, <2>1, <3>2, <3>3, <3>4, Zenon
    <3>6. FieldsOverlong(c, m)
      BY <2>3, <3>4, <3>5, Zenon
    <3> QED
      BY <2>1, <3>6, OverlongRequest
  <2> QED
    BY <2>2, <2>3, Zenon
<1> QED
  BY <1>6, <1>7

\* What the master reads of a response of which the last n bytes are missing.
LEMMA ResponseRead ==
    ASSUME NEW c, IsResponse(c), NEW m, Valid(c, m), NEW b, NEW n, Stands(ToBuffer(c, m), b, 1, n), 1 <= Len(b),
           NEW r, r = FromBuffer(c, b)
    PROVE  /\ r.ok => \A i \in DOMAIN c.fields : Follows(c.fields[i], m[i], r.values[i], n)
           /\ ~r.ok /\ n = 0 => Len(b) < c.min
<1>1. PICK s : s = ToBuffer(c, m)
  BY Zenon
<1>2. IsClass(c) /\ c.code \in Byte
  BY CodeIsByte DEF IsResponse, IsClass
<1>3. s \in Seq(Byte) /\ Len(s) \in Nat /\ 1 <= Len(s) /\ s[1] = c.code
  BY <1>1, <1>2, FrameIs
<1>4. b \in Seq(Byte) /\ n \in Nat /\ b[1] = c.code /\ Len(b) + n = Len(s) /\ Len(b) \in Nat
  <2>1. PICK at : at = 1
    BY Zenon
  <2>2. Stands(s, b, at, n)
    BY <1>1, <2>1, Zenon
  <2>3. /\ b \in Seq(Byte) /\ n \in Nat /\ Len(b) + n = (at - 1) + Len(s)
        /\ \A i \in 1 .. Len(s) : (at - 1) + i <= Len(b) => b[(at - 1) + i] = s[i]
    BY <2>2, Zenon DEF Stands
  <2>4. 1 \in 1 .. Len(s) /\ (at - 1) + 1 = 1 /\ (at - 1) + 1 <= Len(b) /\ Len(b) \in Nat
    BY <1>3, <2>1, <2>3, LenProperties
  <2>5. b[1] = s[1]
    <3>1. b[(at - 1) + 1] = s[1]
      BY <2>3, <2>4, Zenon
    <3>2. PICK o : o = (at - 1) + 1
      BY Zenon
    <3>3. o = 1
      BY <2>4, <3>2, Zenon
    <3>4. b[o] = s[1]
      BY <3>1, <3>2, Zenon
    <3> QED
      BY <3>3, <3>4, Zenon
  <2> QED
    BY <1>3, <2>1, <2>3, <2>4, <2>5
<1>5. Back(c, m, b, n)
  BY <1>2, BackIs
<1>6. r = IF \/ Len(b) < c.min \/ (c.exact /\ Len(b) # c.min)
             \/ c.code \notin c.expects \/ ~ShiftAll(c, b).ok
          THEN Rejected ELSE New(c, ShiftAll(c, b).value)
  BY <1>4, FromBufferIs, Zenon
<1>7. ~c.exact /\ c.code \in c.expects
  BY <1>2, Zenon DEF IsResponse
<1>8. ASSUME r.ok PROVE \A i \in DOMAIN c.fields : Follows(c.fields[i], m[i], r.values[i], n)
  <2>1. ShiftAll(c, b).ok /\ r = New(c, ShiftAll(c, b).value)
    BY <1>6, <1>8, AcceptedIs, Zenon
  <2>2. FieldsKept(c, m, r.values, n)
    BY <1>5, <1>8, <2>1, Zenon DEF Back
  <2>3. CASE c.fields = <<>>
    BY <2>3
  <2>4. ASSUME NEW f, NEW v, NEW w, c.fields = <<f>>, m = <<v>>, r.values = <<w>>, Kept(f, v, w, n)
        PROVE  \A i \in DOMAIN c.fields : Follows(c.fields[i], m[i], r.values[i], n)
    <3>1. ResponseField(f)
      <4>1. CASE \E h : c.fields = <<h>> /\ ResponseField(h)
        BY <2>4, <4>1, TupleIs
      <4>2. CASE \E h, i : c.fields = <<h, i>>
        BY <2>4, <4>2, TupleIs
      <4> QED
        BY <4>1, <4>2, Zenon DEF IsResponse
    <3>2. Follows(f, v, w, n)
      BY <2>4, <3>1, Zenon DEF Kept, ResponseField
    <3>3. m[1] = v /\ c.fields[1] = f /\ r.values[1] = w /\ \A i \in DOMAIN c.fields : i = 1
      BY <2>4
    <3> QED
      BY <3>2, <3>3, Zenon
  <2>5. ASSUME NEW f, NEW g, NEW v, NEW w, NEW x, c.fields = <<f, g>>, m = <<v, w>>, r.values = <<v, x>>,
               IsNumber(f), Kept(f, v, v, n), Kept(g, w, x, n)
        PROVE  \A i \in DOMAIN c.fields : Follows(c.fields[i], m[i], r.values[i], n)
    <3>1. ResponseField(g)
      <4>1. CASE \E h : c.fields = <<h>>
        BY <2>5, <4>1, TupleIs
      <4>2. CASE \E h, i : c.fields = <<h, i>> /\ ResponseField(i)
        BY <2>5, <4>2, TupleIs
      <4> QED
        BY <4>1, <4>2, Zenon DEF IsResponse
    <3>2. Follows(g, w, x, n)
      BY <2>5, <3>1, Zenon DEF Kept, ResponseField
    <3>3. Follows(f, v, v, n)
      <4>1. f.kind \notin {"shifted", "registers", "coils"}
        BY <2>5 DEF IsNumber, Numeric
      <4> QED
        BY <2>5, <4>1, Zenon DEF Kept
    <3>4. /\ m[1] = v /\ c.fields[1] = f /\ r.values[1] = v
          /\ m[2] = w /\ c.fields[2] = g /\ r.values[2] = x
          /\ \A i \in DOMAIN c.fields : i = 1 \/ i = 2
      BY <2>5
    <3> QED
      BY <3>2, <3>3, <3>4, Zenon
  <2> QED
    BY <2>2, <2>3, <2>4, <2>5, Zenon DEF FieldsKept
<1>9. ASSUME ~r.ok, n = 0 PROVE Len(b) < c.min
  <2>1. ShiftAll(c, b).ok /\ (New(c, ShiftAll(c, b).value).ok \/ FieldsOverlong(c, m))
    BY <1>5, <1>9, Zenon DEF Back
  <2> SUFFICES ASSUME ~(Len(b) < c.min) PROVE FALSE
    BY Zenon
  <2>2. r = New(c, ShiftAll(c, b).value)
    BY <1>6, <1>7, <2>1, Zenon
  <2>3. FieldsOverlong(c, m)
    BY <1>9, <2>1, <2>2, Zenon
  <2>4. ASSUME NEW g, IsField(g), ResponseField(g), NEW w, Overlong(g, w) PROVE g.kind = "generic" /\ Len(w) = 1
    BY <2>4 DEF ResponseField, Overlong, IsField, IsNumber, IsList
  <2>5. ASSUME NEW f, NEW v, c.fields = <<f>>, m = <<v>>, Overlong(f, v) PROVE FALSE
    <3>1. ResponseField(f) /\ (f.kind = "generic" => c.min >= 2)
      <4>1. CASE \E h : c.fields = <<h>> /\ ResponseField(h) /\ (h.kind = "generic" => c.min >= 2)
        <5>1. PICK h : c.fields = <<h>> /\ ResponseField(h) /\ (h.kind = "generic" => c.min >= 2)
          BY <4>1
        <5>2. h = f
          BY <2>5, <5>1, TupleIs
        <5> QED
          BY <5>1, <5>2, Zenon
      <4>2. CASE \E h, i : c.fields = <<h, i>>
        BY <2>5, <4>2, TupleIs
      <4> QED
        BY <4>1, <4>2, Zenon DEF IsResponse
    <3>2. IsField(f) /\ Right(f, v)
      <4>1. CASE \E h, x : c.fields = <<h>> /\ m = <<x>> /\ IsField(h) /\ Right(h, x)
        <5>1. PICK h, x : c.fields = <<h>> /\ m = <<x>> /\ IsField(h) /\ Right(h, x)
          BY <4>1, Zenon
        <5>2. h = f /\ x = v
          BY <2>5, <5>1, TupleIs
        <5> QED
          BY <5>1, <5>2, Zenon
      <4>2. CASE c.fields = <<>> \/ \E h, i : c.fields = <<h, i>>
        BY <2>5, <4>2, TupleIs
      <4> QED
        BY <4>1, <4>2, Zenon DEF Valid
    <3>3. f.kind = "generic" /\ Len(v) = 1 /\ c.min >= 2
      BY <2>4, <2>5, <3>1, <3>2, Zenon
    <3>4. v \in Seq(Byte)
      BY <3>3, <3>2 DEF Right, Type, Numeric, OfRecords, OfBits
    <3>5. PICK t : t = Tail(v)
      BY Zenon
    <3>6. t \in Seq(Byte) /\ Len(t) = 0
      <4>1. v # <<>>
        BY <3>3, EmptySeq
      <4> QED
        BY <3>3, <3>4, <3>5, <4>1, HeadTailProperties
    <3>7. Push(f, v) = t
      BY <3>3, <3>5 DEF Push, OfRecords
    <3>8. PICK a : a = <<c.code>>
      BY Zenon
    <3>9. a \in Seq(Byte) /\ Len(a) = 1
      BY <1>2, <3>8, One
    <3>10. s = Join(a, t)
      <4>1. Push(f, v) \in Seq(Byte)
        BY <3>6, <3>7
      <4>2. ToBuffer(c, <<v>>) = Join(<<c.code>>, Push(f, v))
        <5>1. c.code \in Byte
          BY <1>2
        <5> QED
          BY <2>5, <4>1, <5>1, ToBufferOne
      <4> QED
        BY <1>1, <2>5, <3>7, <3>8, <4>2, Zenon
    <3>11. Len(s) = Len(a) + Len(t)
      BY <3>6, <3>9, <3>10, JoinIs, Zenon
    <3>12. PICK l : l = Len(b)
      BY Zenon
    <3>13. l = 1
      BY <1>4, <1>9, <3>6, <3>9, <3>11, <3>12
    <3>14. PICK z : z = c.min
      BY Zenon
    <3>15. z \in Nat /\ z >= 2 /\ ~(l < z)
      BY <1>2, <3>3, <3>12, <3>14, Zenon DEF IsClass
    <3> QED
      BY <3>13, <3>15
  <2>6. ASSUME NEW f, NEW g, NEW v, NEW w, c.fields = <<f, g>>, m = <<v, w>>, Overlong(g, w) PROVE FALSE
    <3>1. ResponseField(g) /\ g.kind # "generic"
      <4>1. CASE \E h : c.fields = <<h>>
        BY <2>6, <4>1, TupleIs
      <4>2. CASE \E h, i : c.fields = <<h, i>> /\ ResponseField(i) /\ i.kind # "generic"
        <5>1. PICK h, i : c.fields = <<h, i>> /\ ResponseField(i) /\ i.kind # "generic"
          BY <4>2, Zenon
        <5>2. i = g
          BY <2>6, <5>1, TupleIs
        <5> QED
          BY <5>1, <5>2, Zenon
      <4> QED
        BY <4>1, <4>2, Zenon DEF IsResponse
    <3>2. IsField(g)
      <4>1. CASE c.fields = <<>> \/ \E h : c.fields = <<h>>
        BY <2>6, <4>1, TupleIs
      <4>2. CASE \E h, i : c.fields = <<h, i>> /\ IsField(i)
        <5>1. PICK h, i : c.fields = <<h, i>> /\ IsField(i)
          BY <4>2, Zenon
        <5>2. i = g
          BY <2>6, <5>1, TupleIs
        <5> QED
          BY <5>1, <5>2, Zenon
      <4> QED
        BY <4>1, <4>2, Zenon DEF Valid
    <3> QED
      BY <2>4, <2>6, <3>1, <3>2, Zenon
  <2> QED
    BY <2>3, <2>5, <2>6, Zenon DEF FieldsOverlong
<1> QED
  BY <1>8, <1>9, Zenon

\* The values tried are of the types of the fields.
LEMMA MessagesTyped ==
    ASSUME NEW c \in Class, IsClass(c), NEW m \in Messages(c)
    PROVE  Typed(c, m)
<1>1. CASE c.fields = <<>>
  <2>1. Len(c.fields) = 0
    BY <1>1
  <2>2. m = <<>>
    BY <2>1 DEF Messages
  <2> QED
    BY <1>1, <2>2, Zenon DEF Typed
<1>2. ASSUME NEW f, c.fields = <<f>> PROVE Typed(c, m)
  <2>1. Len(c.fields) = 1 /\ c.fields[1] = f /\ 1 \in DOMAIN c.fields
    BY <1>2
  <2>2. PICK v \in Value(f) : m = <<v>>
    BY <2>1 DEF Messages
  <2>3. v \in Type(f)
    BY <2>1, <2>2, ValueAssumption, Zenon
  <2> QED
    BY <1>2, <2>2, <2>3, Zenon DEF Typed
<1>3. ASSUME NEW f, NEW g, c.fields = <<f, g>> PROVE Typed(c, m)
  <2>1. /\ Len(c.fields) = 2 /\ c.fields[1] = f /\ c.fields[2] = g
        /\ 1 \in DOMAIN c.fields /\ 2 \in DOMAIN c.fields
    BY <1>3
  <2>2. PICK v \in Value(f), w \in Value(g) : m = <<v, w>>
    BY <2>1 DEF Messages
  <2>3. v \in Type(f) /\ w \in Type(g)
    BY <2>1, <2>2, ValueAssumption, Zenon
  <2> QED
    BY <1>3, <2>2, <2>3, Zenon DEF Typed
<1> QED
  BY <1>1, <1>2, <1>3, Zenon DEF IsClass

\* The classes of a function.
LEMMA FunctionClasses ==
    ASSUME NEW f \in Function
    PROVE  /\ IsRequest(f.class) /\ IsClass(f.class) /\ f.class \in Class
           /\ IsResponse(f.response) /\ IsClass(f.response) /\ f.response \in Class
           /\ f.class.code = f.response.code /\ IsCode(f.class.code)
BY FunctionsAre, Zenon DEF IsFunction, IsRequest, IsResponse, IsClass, Class

\* A limit of 0 left out is still a number.
LEMMA OptionsTyped ==
    ASSUME NEW c, NEW m, Typed(c, m)
    PROVE  Typed(c, [i \in DOMAIN m |-> IF c.fields[i].kind = "limit" /\ m[i] = 0 THEN Undefined ELSE m[i]])
<1>1. PICK p : p = [i \in DOMAIN m |-> IF c.fields[i].kind = "limit" /\ m[i] = 0 THEN Undefined ELSE m[i]]
  BY Zenon
<1>2. ASSUME NEW f, NEW v \in Type(f)
      PROVE  (IF f.kind = "limit" /\ v = 0 THEN Undefined ELSE v) \in Type(f)
  <2>1. f.kind = "limit" => Type(f) = Int
    BY DEF Type, Numeric
  <2>2. Undefined \in Int
    BY DEF Undefined
  <2> QED
    BY <2>1, <2>2, Zenon
<1>3. CASE c.fields = <<>> /\ m = <<>>
  <2>1. p = <<>>
    BY <1>1, <1>3
  <2> QED
    BY <1>1, <1>3, <2>1, Zenon DEF Typed
<1>4. ASSUME NEW f, NEW v, c.fields = <<f>>, m = <<v>>, v \in Type(f) PROVE Typed(c, p)
  <2>1. PICK w : w = IF f.kind = "limit" /\ v = 0 THEN Undefined ELSE v
    BY Zenon
  <2>2. w \in Type(f)
    BY <1>2, <1>4, <2>1, Zenon
  <2>3. DOMAIN m = 1 .. 1 /\ 1 \in DOMAIN m /\ m[1] = v /\ c.fields[1] = f /\ \A i \in DOMAIN m : i = 1
    BY <1>4
  <2>4. p = [i \in DOMAIN m |-> p[i]] /\ p[1] = w
    BY <1>1, <2>1, <2>3, Zenon
  <2>5. p = <<w>>
    BY <2>3, <2>4
  <2> QED
    BY <1>4, <2>2, <2>5, Zenon DEF Typed
<1>5. ASSUME NEW f, NEW g, NEW v, NEW w, c.fields = <<f, g>>, m = <<v, w>>, v \in Type(f), w \in Type(g)
      PROVE  Typed(c, p)
  <2>1. PICK x : x = IF f.kind = "limit" /\ v = 0 THEN Undefined ELSE v
    BY Zenon
  <2>2. PICK y : y = IF g.kind = "limit" /\ w = 0 THEN Undefined ELSE w
    BY Zenon
  <2>3. x \in Type(f) /\ y \in Type(g)
    BY <1>2, <1>5, <2>1, <2>2, Zenon
  <2>4. /\ DOMAIN m = 1 .. 2 /\ 1 \in DOMAIN m /\ 2 \in DOMAIN m
        /\ m[1] = v /\ m[2] = w /\ c.fields[1] = f /\ c.fields[2] = g
    BY <1>5
  <2>5. p = [i \in DOMAIN m |-> p[i]] /\ p[1] = x /\ p[2] = y
    BY <1>1, <2>1, <2>2, <2>4, Zenon
  <2>6. p = <<x, y>>
    BY <2>4, <2>5
  <2> QED
    BY <1>5, <2>3, <2>6, Zenon DEF Typed
<1> QED
  BY <1>1, <1>3, <1>4, <1>5, Zenon DEF Typed

\* The functions of which a helper replaces an argument have two numbers.
TwoNumbers(c) == \E f, g : c.fields = <<f, g>> /\ IsNumber(f) /\ IsNumber(g)

LEMMA Replaced ==
    /\ TwoNumbers(ReadDiagnosticsRequest.class) /\ TwoNumbers(ReadFifo8Request.class)
    /\ TwoNumbers(ReadMemoryRequest.class)
<1>1. /\ IsNumber(Address) /\ IsNumber(Quantity(125)) /\ IsNumber(Octet(0, 255, 0))
      /\ IsNumber(Number("limit", 0, 250, 250)) /\ IsNumber(Octet(1, 250, 250))
  BY Numbers DEF Plainly
<1>2. ReadDiagnosticsRequest.class.fields = <<Address, Quantity(125)>>
  BY DEF ReadDiagnosticsRequest, Request, Span, Plain
<1>3. ReadFifo8Request.class.fields = <<Octet(0, 255, 0), Number("limit", 0, 250, 250)>>
  BY DEF ReadFifo8Request, Request, Plain
<1>4. ReadMemoryRequest.class.fields = <<Address, Octet(1, 250, 250)>>
  BY DEF ReadMemoryRequest, Request, Plain
<1> QED
  BY <1>1, <1>2, <1>3, <1>4 DEF TwoNumbers

\* What a helper passes is still of the types of the fields.
LEMMA PassedTyped ==
    ASSUME NEW f \in Function, NEW m, Typed(f.class, m), NEW passed \in Passed(f, m)
    PROVE  Typed(f.class, passed)
<1>1. ASSUME TwoNumbers(f.class), NEW x \in Int PROVE Typed(f.class, <<m[1], x>>)
  <2>1. PICK g, h : f.class.fields = <<g, h>> /\ IsNumber(g) /\ IsNumber(h)
    BY <1>1, Zenon DEF TwoNumbers
  <2>2. Type(g) = Int /\ Type(h) = Int
    BY <2>1 DEF IsNumber, Type
  <2>3. m[1] \in Type(g)
    <3>1. CASE f.class.fields = <<>> \/ \E i : f.class.fields = <<i>>
      BY <2>1, <3>1, TupleIs
    <3>2. CASE \E i, j, v, w : f.class.fields = <<i, j>> /\ m = <<v, w>> /\ v \in Type(i)
      <4>1. PICK i, j, v, w : f.class.fields = <<i, j>> /\ m = <<v, w>> /\ v \in Type(i)
        BY <3>2, Zenon
      <4>2. i = g
        BY <2>1, <4>1, TupleIs
      <4>3. m[1] = v
        BY <4>1
      <4> QED
        BY <4>1, <4>2, <4>3, Zenon
    <3> QED
      BY <3>1, <3>2, Zenon DEF Typed
  <2> QED
    BY <1>1, <2>1, <2>2, <2>3, Zenon DEF Typed
<1>2. \/ passed = m
      \/ f = ReadDiagnosticsRequest /\ passed = <<m[1], Undefined>>
      \/ f = ReadFifo8Request /\ passed = <<m[1], NotANumber>>
      \/ f = ReadMemoryRequest /\ passed = <<m[1], 1>>
  BY Zenon DEF Passed
<1>3. Undefined \in Int /\ NotANumber \in Int /\ 1 \in Int
  BY DEF Undefined, NotANumber
<1> QED
  BY <1>1, <1>2, <1>3, Replaced, Zenon

----------------------------------------------------------------------------
\* The exchange

\* What was sent is the bytes of a message.
Asking ==
    /\ function \in Function
    /\ frame = <<>> => received = NoResult /\ reply = <<>>
    /\ frame # <<>> => Valid(function.class, message) /\ frame = ToBuffer(function.class, message)
\* What the slave has read.
Hearing == received = NoResult \/ received = Result("request", FromBuffer(function.class, frame))
\* What it has answered.
Answering ==
    \/ reply = <<>>
    \/ /\ answer.by = "response" /\ Valid(function.response, answer.values)
       /\ reply = ToBuffer(function.response, answer.values)
    \/ /\ answer.by = "exception"
       /\ \E code, exception : /\ IsCode(code) /\ exception \in Byte
                               /\ answer.values = ExceptionResponse(code, exception)
                               /\ reply = ExceptionToBuffer(ExceptionResponse(code, exception))
    \/ /\ answer.by = "other"
       /\ \E f \in Function : \E m : /\ f.class.code # function.class.code
                                     /\ Valid(f.response, m) /\ reply = ToBuffer(f.response, m)
\* What createResponse made of what arrived.
Ending ==
    \/ result = NoResult
    \/ /\ lost \in Nat /\ lost <= Len(reply) /\ reply # <<>>
       /\ result = CreateResponse(function, SubSeq(reply, 1, Len(reply) - lost))
Exchanged == Asking /\ Hearing /\ Answering /\ Ending

\* A request that is sent was made by its constructor.
LEMMA SendsKeeps ==
    ASSUME NEW f \in Function, NEW passed, Typed(f.class, passed), Exchanged,
           Sends(f, New(f.class, passed))
    PROVE  Exchanged'
<1>1. /\ frame = <<>> /\ function' = f /\ message' = New(f.class, passed).values
      /\ New(f.class, passed).ok
      /\ frame' = ToBuffer(f.class, message')
      /\ received' = received /\ answer' = answer /\ reply' = reply /\ lost' = lost /\ result' = result
  BY Zenon DEF Sends
<1>2. received = NoResult /\ reply = <<>> /\ result = NoResult
  BY <1>1, Zenon DEF Exchanged, Asking, Ending
<1>3. Valid(f.class, message')
  BY <1>1, FunctionClasses, Made, Zenon
<1>4. frame' # <<>>
  <2>1. PICK s : s = frame'
    BY Zenon
  <2>2. 1 <= Len(s)
    BY <1>1, <1>3, <2>1, FunctionClasses, FrameIs, Zenon
  <2> QED
    BY <2>1, <2>2, EmptySeq
<1>5. Asking'
  BY <1>1, <1>3, <1>4, Zenon DEF Asking
<1>6. Hearing' /\ Answering' /\ Ending'
  BY <1>1, <1>2, Zenon DEF Hearing, Answering, Ending
<1> QED
  BY <1>5, <1>6, Zenon DEF Exchanged

\* A reply of one of the three kinds begins the answer.
LEMMA RepliesKeeps ==
    ASSUME Exchanged, frame # <<>>, reply = <<>>, reply' # <<>>, Answering',
           UNCHANGED <<function, message, frame, received, lost, result>>
    PROVE  Exchanged'
<1>1. result = NoResult
  BY Zenon DEF Exchanged, Ending
<1>2. /\ function' = function /\ message' = message /\ frame' = frame /\ received' = received
      /\ result' = result
  BY Zenon
<1> QED
  BY <1>1, <1>2, Zenon DEF Exchanged, Asking, Hearing, Ending

\* The bytes of a response,
LEMMA ReplyIs ==
    ASSUME NEW f \in Function, NEW m, Valid(f.response, m)
    PROVE  /\ ToBuffer(f.response, m) \in Seq(Byte) /\ ToBuffer(f.response, m) # <<>>
           /\ ToBuffer(f.response, m)[1] = f.class.code
<1>1. PICK s : s = ToBuffer(f.response, m)
  BY Zenon
<1>2. s \in Seq(Byte) /\ 1 <= Len(s) /\ s[1] = f.response.code
  BY <1>1, FunctionClasses, FrameIs, Zenon
<1>3. s # <<>>
  BY <1>2, EmptySeq
<1> QED
  BY <1>1, <1>2, <1>3, FunctionClasses, Zenon

\* and of an exception.
LEMMA RefusalIs ==
    ASSUME NEW code, IsCode(code), NEW exception \in Byte, NEW s, s = ExceptionToBuffer(ExceptionResponse(code, exception))
    PROVE  s \in Seq(Byte) /\ s # <<>> /\ s = <<code + 128, exception>>
<1>1. (code + 128) % 256 = code + 128 /\ code + 128 \in Byte
  BY ByteIs DEF IsCode
<1>2. s = <<(code + 128) % 256, exception>>
  BY DEF ExceptionToBuffer, ExceptionResponse
<1>3. s = <<code + 128, exception>>
  BY <1>1, <1>2
<1> QED
  BY <1>1, <1>3

\* Before anything was sent, nothing was read or answered.
LEMMA InitExchange == CodecsInit => Exchanged
<1>1. ReadCoilsRequest \in Function
  BY Zenon DEF Function, Registered
<1> QED
  BY <1>1, Zenon DEF CodecsInit, Exchanged, Asking, Hearing, Answering, Ending

\* Each step keeps the exchange as Exchanged says.
LEMMA RequestFromOptionsStep ==
    ASSUME Exchanged, RequestFromOptions
    PROVE  Exchanged'
<1>1. PICK f \in Registered : \E m \in Messages(f.class) : Sends(f, FromOptions(f.class, m))
  BY Zenon DEF RequestFromOptions
<1>2. PICK m \in Messages(f.class) : Sends(f, FromOptions(f.class, m))
  BY <1>1, Zenon
<1>3. f \in Function
  BY Zenon DEF Function
<1>4. Typed(f.class, m)
  BY <1>3, FunctionClasses, MessagesTyped, Zenon
<1>5. PICK p : p = [i \in DOMAIN m |-> IF f.class.fields[i].kind = "limit" /\ m[i] = 0 THEN Undefined ELSE m[i]]
  BY Zenon
<1>6. Typed(f.class, p)
  BY <1>4, <1>5, OptionsTyped, Zenon
<1>7. Sends(f, New(f.class, p))
  BY <1>2, <1>5, Zenon DEF FromOptions
<1> QED
  BY <1>3, <1>6, <1>7, SendsKeeps, Zenon

LEMMA HelperStep ==
    ASSUME Exchanged, Helper
    PROVE  Exchanged'
<1>1. PICK f \in Function : \E m \in Messages(f.class) : \E passed \in Passed(f, m) : Sends(f, New(f.class, passed))
  BY Zenon DEF Helper
<1>2. PICK m \in Messages(f.class) : \E passed \in Passed(f, m) : Sends(f, New(f.class, passed))
  BY <1>1, Zenon
<1>3. PICK passed \in Passed(f, m) : Sends(f, New(f.class, passed))
  BY <1>2, Zenon
<1>4. Typed(f.class, m)
  BY FunctionClasses, MessagesTyped, Zenon
<1>5. Typed(f.class, passed)
  BY <1>4, PassedTyped, Zenon
<1> QED
  BY <1>3, <1>5, SendsKeeps, Zenon

LEMMA SlaveReadsStep ==
    ASSUME Exchanged, SlaveReads
    PROVE  Exchanged'
<1>1. /\ frame # <<>> /\ reply = <<>>
      /\ received' = Result("request", FromBuffer(function.class, frame))
      /\ function' = function /\ message' = message /\ frame' = frame /\ answer' = answer
      /\ reply' = reply /\ lost' = lost /\ result' = result
  BY Zenon DEF SlaveReads
<1> QED
  BY <1>1, Zenon DEF Exchanged, Asking, Hearing, Answering, Ending

LEMMA SlaveRespondsStep ==
    ASSUME Exchanged, NEW m \in Messages(function.response), SlaveResponds(m)
    PROVE  Exchanged'
<1>1. /\ frame # <<>> /\ reply = <<>>
      /\ New(function.response, m).ok
      /\ answer' = [by |-> "response", values |-> New(function.response, m).values]
      /\ reply' = ToBuffer(function.response, New(function.response, m).values)
      /\ UNCHANGED <<function, message, frame, received, lost, result>>
  BY Zenon DEF SlaveResponds
<1>2. function \in Function /\ function' = function
  BY <1>1, Zenon DEF Exchanged, Asking
<1>3. PICK v : v = New(function.response, m).values
  BY Zenon
<1>4. Valid(function.response, v)
  BY <1>1, <1>2, <1>3, FunctionClasses, MessagesTyped, Made, Zenon
<1>5. reply' # <<>>
  BY <1>1, <1>2, <1>3, <1>4, ReplyIs, Zenon
<1>6. answer'.by = "response" /\ answer'.values = v
  BY <1>1, <1>3
<1>7. Answering'
  BY <1>1, <1>2, <1>3, <1>4, <1>6, Zenon DEF Answering
<1> QED
  BY <1>1, <1>5, <1>7, RepliesKeeps, Zenon

LEMMA SlaveRefusesStep ==
    ASSUME Exchanged, NEW code, IsCode(code), NEW exception \in Byte, SlaveRefuses(code, exception)
    PROVE  Exchanged'
<1>1. /\ frame # <<>> /\ reply = <<>>
      /\ answer' = [by |-> "exception", values |-> ExceptionResponse(code, exception)]
      /\ reply' = ExceptionToBuffer(ExceptionResponse(code, exception))
      /\ UNCHANGED <<function, message, frame, received, lost, result>>
  BY Zenon DEF SlaveRefuses
<1>2. PICK s : s = ExceptionToBuffer(ExceptionResponse(code, exception))
  BY Zenon
<1>3. s # <<>>
  BY <1>2, RefusalIs, Zenon
<1>4. reply' # <<>>
  BY <1>1, <1>2, <1>3, Zenon
<1>5. answer'.by = "exception" /\ answer'.values = ExceptionResponse(code, exception)
  BY <1>1
<1>6. Answering'
  BY <1>1, <1>5, Zenon DEF Answering
<1> QED
  BY <1>1, <1>4, <1>6, RepliesKeeps, Zenon

LEMMA OtherRespondsStep ==
    ASSUME Exchanged, NEW f \in {ReadCoilsRequest, ReadMemoryRequest, CommandRequest},
           NEW m \in Messages(f.response), OtherResponds(f, m)
    PROVE  Exchanged'
<1>1. /\ frame # <<>> /\ reply = <<>>
      /\ f.class.code # function.class.code
      /\ New(f.response, m).ok
      /\ answer' = [by |-> "other", values |-> <<>>]
      /\ reply' = ToBuffer(f.response, New(f.response, m).values)
      /\ UNCHANGED <<function, message, frame, received, lost, result>>
  BY Zenon DEF OtherResponds
<1>2. f \in Function /\ function' = function
  BY <1>1, Zenon DEF Function, Registered
<1>3. PICK v : v = New(f.response, m).values
  BY Zenon
<1>4. Valid(f.response, v)
  BY <1>1, <1>2, <1>3, FunctionClasses, MessagesTyped, Made, Zenon
<1>5. reply' # <<>>
  BY <1>1, <1>2, <1>3, <1>4, ReplyIs, Zenon
<1>6. answer'.by = "other"
  BY <1>1
<1>7. Answering'
  BY <1>1, <1>2, <1>3, <1>4, <1>6, Zenon DEF Answering
<1> QED
  BY <1>1, <1>5, <1>7, RepliesKeeps, Zenon

LEMMA MasterReadsStep ==
    ASSUME Exchanged, NEW n \in Cut, MasterReads(n)
    PROVE  Exchanged'
<1>1. /\ reply # <<>> /\ n <= Len(reply) /\ lost' = n
      /\ result' = CreateResponse(function, SubSeq(reply, 1, Len(reply) - n))
      /\ function' = function /\ message' = message /\ frame' = frame /\ received' = received
      /\ answer' = answer /\ reply' = reply
  BY Zenon DEF MasterReads
<1>2. n \in Nat
  BY CutAssumption, Zenon
<1>3. Asking' /\ Hearing' /\ Answering'
  BY <1>1, Zenon DEF Exchanged, Asking, Hearing, Answering
<1>4. Ending'
  BY <1>1, <1>2, Zenon DEF Ending
<1> QED
  BY <1>3, <1>4, Zenon DEF Exchanged

\* Exchanged is inductive.
LEMMA NextExchange == Exchanged /\ [CodecsNext]_codecsVars => Exchanged'
<1> SUFFICES ASSUME Exchanged, [CodecsNext]_codecsVars PROVE Exchanged'
  OBVIOUS
<1>1. CASE RequestFromOptions
  BY <1>1, RequestFromOptionsStep, Zenon
<1>2. CASE Helper
  BY <1>2, HelperStep, Zenon
<1>3. CASE SlaveReads
  BY <1>3, SlaveReadsStep, Zenon
<1>4. CASE \E m \in Messages(function.response) : SlaveResponds(m)
  BY <1>4, SlaveRespondsStep, Zenon
<1>5. CASE \E code \in {function.class.code, 127}, exception \in {1, 128} : SlaveRefuses(code, exception)
  <2>1. PICK code \in {function.class.code, 127}, exception \in {1, 128} : SlaveRefuses(code, exception)
    BY <1>5
  <2>2. IsCode(function.class.code)
    BY FunctionClasses, Zenon DEF Exchanged, Asking
  <2>3. IsCode(code)
    BY <2>2 DEF IsCode
  <2>4. exception \in Byte
    BY ByteIs
  <2>5. SlaveRefuses(code, exception)
    BY <2>1
  <2> QED
    BY <2>3, <2>4, <2>5, SlaveRefusesStep
<1>6. CASE \E f \in {ReadCoilsRequest, ReadMemoryRequest, CommandRequest} :
              \E m \in Messages(f.response) : OtherResponds(f, m)
  BY <1>6, OtherRespondsStep, Zenon
<1>7. CASE \E n \in Cut : MasterReads(n)
  BY <1>7, MasterReadsStep, Zenon
<1>8. CASE UNCHANGED codecsVars
  <2>1. /\ function' = function /\ message' = message /\ frame' = frame /\ received' = received
        /\ answer' = answer /\ reply' = reply /\ lost' = lost /\ result' = result
    BY <1>8, Zenon DEF codecsVars
  <2> QED
    BY <2>1, Zenon DEF Exchanged, Asking, Hearing, Answering, Ending
<1> QED
  BY <1>1, <1>2, <1>3, <1>4, <1>5, <1>6, <1>7, <1>8, Zenon DEF CodecsNext

\* Whatever is sent, answered, lost and read, the frame is the bytes of a message
\* that its constructor accepted, what the slave read is fromBuffer of it, the reply is the bytes
\* of a response, an exception or a response of another function, and the result is what
\* createResponse makes of what is left of it.
THEOREM ExchangeHolds == CodecsSpec => []Exchanged
BY InitExchange, NextExchange, PTL DEF CodecsSpec

\* In such an exchange the slave reads what the master asked.
LEMMA ExchangeArrives == Exchanged => RequestArrives
<1> SUFFICES ASSUME Exchanged PROVE RequestArrives
  OBVIOUS
<1>1. PICK c : c = function.class
  BY Zenon
<1>2. CASE received = NoResult
  <2>1. received.how = "none"
    BY <1>2 DEF NoResult
  <2> QED
    BY <2>1 DEF RequestArrives
<1>3. CASE received # NoResult
  <2>1. frame # <<>>
    BY <1>3, Zenon DEF Exchanged, Asking
  <2>2. Valid(c, message) /\ frame = ToBuffer(c, message) /\ IsRequest(c)
    BY <1>1, <2>1, FunctionClasses, Zenon DEF Exchanged, Asking
  <2>3. PICK r : r = FromBuffer(c, ToBuffer(c, message))
    BY Zenon
  <2>4. received = Result("request", r)
    BY <1>1, <1>3, <2>2, <2>3, Zenon DEF Exchanged, Hearing
  <2>5. /\ r.ok => r.values = CarriedAll(c, message)
        /\ ~r.ok => NothingLeft(c, message) \/ NoRecords(c, message) \/ c.expects = {}
    BY <2>2, <2>3, RequestRead, Zenon
  <2>6. /\ r.ok => received.how = "request" /\ received.values = r.values
        /\ ~r.ok => received.how = "rejected"
    BY <2>4 DEF Result
  <2>7. CASE r.ok
    <3>1. received.how # "rejected"
      BY <2>6, <2>7
    <3> QED
      BY <1>1, <2>5, <2>6, <2>7, <3>1 DEF RequestArrives, Holds, CarriedAll
  <2>8. CASE ~r.ok
    <3>1. received.how # "request"
      BY <2>6, <2>8
    <3> QED
      BY <1>1, <2>5, <2>8, <3>1 DEF RequestArrives, Holds, NothingLeft, NoRecords
  <2> QED
    BY <2>7, <2>8
<1> QED
  BY <1>2, <1>3

\* A request that its constructor accepts is what the slave reads, for every value
\* of every field of every class, but for commands and objects above 255 bytes, of which
\* it reads what Carried says; and only objects of which the count leaves nothing, empty
\* lists of records and generic requests are refused.
THEOREM RequestsArrive == CodecsSpec => []RequestArrives
BY ExchangeHolds, ExchangeArrives, PTL

\* A reply without its last bytes stands at the start of what arrived.
LeftOf(s, n, b) ==
    /\ b \in Seq(Byte) /\ Len(b) = Len(s) - n /\ Len(b) \in Nat /\ Stands(s, b, 1, n)
    /\ \A i \in 1 .. Len(b) : b[i] = s[i]

LEMMA CutIs ==
    ASSUME NEW s \in Seq(Byte), NEW n \in Nat, n <= Len(s), NEW b, b = SubSeq(s, 1, Len(s) - n)
    PROVE  LeftOf(s, n, b)
<1>1. Len(s) \in Nat
  OBVIOUS
<1>2. \A i \in 1 .. Len(s) : s[i] \in Byte
  OBVIOUS
<1> DEFINE k == Len(s) - n
<1>3. k \in Nat /\ k <= Len(s) /\ k + n = Len(s)
  BY <1>1
<1>4. b = [i \in 1 .. k |-> s[i]]
  BY <1>1, <1>3
<1> HIDE DEF k
<1>5. \A i \in 1 .. k : s[i] \in Byte
  BY <1>1, <1>2, <1>3
<1>6. b \in Seq(Byte) /\ Len(b) = k
  BY <1>3, <1>4, <1>5
<1>7. \A i \in 1 .. Len(b) : b[i] = s[i]
  BY <1>4, <1>6
<1>8. \A i \in 1 .. Len(s) : (1 - 1) + i <= Len(b) => b[(1 - 1) + i] = s[i]
  BY <1>1, <1>6, <1>7
<1>9. 1 \in Nat \ {0} /\ Len(b) + n = (1 - 1) + Len(s) /\ 1 - 1 <= Len(b) /\ Len(b) = Len(s) - n /\ Len(b) \in Nat
  <2>1. PICK l : l = Len(b)
    BY Zenon
  <2>2. PICK t : t = Len(s)
    BY Zenon
  <2>3. l = k /\ k \in Nat /\ k + n = t /\ t \in Nat /\ n \in Nat
    BY <1>1, <1>3, <1>6, <2>1, <2>2, Zenon
  <2>4. l + n = (1 - 1) + t /\ 1 - 1 <= l /\ l = t - n /\ l \in Nat
    BY <2>3
  <2> QED
    BY <2>1, <2>2, <2>4
<1>10. Stands(s, b, 1, n)
  BY <1>6, <1>8, <1>9, Zenon DEF Stands
<1> QED
  BY <1>6, <1>7, <1>9, <1>10, Zenon DEF LeftOf

\* What createResponse makes of an empty buffer, of an exception and of the rest.
LEMMA CreateEmpty ==
    ASSUME NEW f, IsResponse(f.response), NEW r, r = CreateResponse(f, <<>>)
    PROVE  r.how = "rejected"
<1>1. r = Result("response", FromBuffer(f.response, <<>>))
  BY Zenon DEF CreateResponse
<1>2. FromBuffer(f.response, <<>>) = Rejected
  BY Zenon DEF FromBuffer
<1> QED
  BY <1>1, <1>2 DEF Result, Rejected

\* Below 129 the first byte is that of a response.
LEMMA CreateOther ==
    ASSUME NEW f, NEW b \in Seq(Byte), 1 <= Len(b), b[1] <= 128
    PROVE  CreateResponse(f, b) = Result("response", FromBuffer(f.response, b))
<1>1. Head(b) = b[1] /\ b[1] \in Nat
  BY ByteIs
<1>2. ~(Head(b) > 128)
  BY <1>1
<1> QED
  BY <1>2, Zenon DEF CreateResponse

\* Above, that of an exception, which is read when its second byte arrived.
LEMMA CreateException ==
    ASSUME NEW f, NEW code, IsCode(code), NEW b \in Seq(Byte), 1 <= Len(b), b[1] = code + 128,
           NEW r, r = CreateResponse(f, b)
    PROVE  /\ Len(b) > 1 => r.how = "exception" /\ r.values = ExceptionResponse(code, b[2])
           /\ Len(b) <= 1 => r.how = "rejected"
<1>1. b # <<>> /\ Head(b) = code + 128 /\ Head(b) > 128 /\ ~(Head(b) <= 128) /\ Head(b) - 128 = code
  BY DEF IsCode
<1>2. r = Result("exception", ExceptionFromBuffer(b))
  BY <1>1, Zenon DEF CreateResponse
<1>3. CASE Len(b) > 1
  <2>1. ~(Len(b) < 2)
    BY <1>3
  <2>2. ExceptionFromBuffer(b) = Accepted(ExceptionResponse(code, b[2]))
    BY <1>1, <2>1, Zenon DEF ExceptionFromBuffer
  <2> QED
    BY <1>2, <1>3, <2>1, <2>2 DEF Result, Accepted
<1>4. CASE Len(b) <= 1
  <2>1. Len(b) < 2
    BY <1>4
  <2>2. ExceptionFromBuffer(b) = Rejected
    BY <2>1, Zenon DEF ExceptionFromBuffer
  <2> QED
    BY <1>2, <1>4, <2>2 DEF Result, Rejected
<1> QED
  BY <1>3, <1>4

\* What AnswerFaithful says of one result, by what the reply was.
AfterResponse(c, m, r, n, length) ==
    /\ r.how # "exception"
    /\ r.how = "response" => \A i \in DOMAIN c.fields : Follows(c.fields[i], m[i], r.values[i], n)
    /\ r.how = "rejected" /\ n = 0 => length < c.min
AfterException(e, r, n) ==
    /\ r.how \in {"exception", "rejected"} /\ (r.how = "exception" <=> n = 0)
    /\ r.how = "exception" => r.values = e
AfterOther(c, r) ==
    /\ r.how # "exception"
    /\ r.how = "response" => c.expects # {c.code}

\* A whole reply is not empty.
LEMMA NoneLeft ==
    ASSUME NEW s \in Seq(Byte), s # <<>>, NEW n \in Nat, NEW b, Len(b) = Len(s) - n, b = <<>>
    PROVE  n # 0
OBVIOUS

\* What becomes of a response,
LEMMA ResponseCreated ==
    ASSUME NEW f \in Function, NEW m, Valid(f.response, m), NEW s, s = ToBuffer(f.response, m),
           NEW n \in Nat, NEW b, LeftOf(s, n, b), NEW r, r = CreateResponse(f, b)
    PROVE  AfterResponse(f.response, m, r, n, Len(s))
<1>1. s \in Seq(Byte) /\ s # <<>> /\ s[1] = f.class.code /\ IsCode(f.class.code) /\ IsResponse(f.response)
  BY ReplyIs, FunctionClasses, Zenon
<1>2. /\ b \in Seq(Byte) /\ Len(b) = Len(s) - n /\ Len(b) \in Nat /\ Stands(s, b, 1, n)
      /\ \A i \in 1 .. Len(b) : b[i] = s[i]
  BY Zenon DEF LeftOf
<1>3. CASE b = <<>>
  <2>1. r.how = "rejected"
    BY <1>1, <1>3, CreateEmpty, Zenon
  <2>2. n # 0
    BY <1>1, <1>2, <1>3, NoneLeft, Zenon
  <2> QED
    BY <2>1, <2>2 DEF AfterResponse
<1>4. CASE b # <<>>
  <2>1. 1 <= Len(b)
    BY <1>2, <1>4, EmptySeq
  <2>2. 1 \in 1 .. Len(b)
    BY <1>2, <2>1
  <2>3. b[1] <= 128
    BY <1>1, <1>2, <2>2 DEF IsCode
  <2>4. PICK v : v = FromBuffer(f.response, b)
    BY Zenon
  <2>5. r = Result("response", v)
    BY <1>2, <2>1, <2>3, <2>4, CreateOther, Zenon
  <2>6. /\ v.ok => \A i \in DOMAIN f.response.fields : Follows(f.response.fields[i], m[i], v.values[i], n)
        /\ ~v.ok /\ n = 0 => Len(b) < f.response.min
    BY <1>1, <1>2, <2>1, <2>4, ResponseRead, Zenon
  <2>7. CASE v.ok
    <3>1. r.how = "response" /\ r.values = v.values
      BY <2>5, <2>7 DEF Result
    <3> QED
      BY <2>6, <2>7, <3>1 DEF AfterResponse
  <2>8. CASE ~v.ok
    <3>1. r.how = "rejected"
      BY <2>5, <2>8 DEF Result
    <3>2. n = 0 => Len(s) < f.response.min
      BY <1>1, <1>2, <2>6, <2>8
    <3> QED
      BY <3>1, <3>2 DEF AfterResponse
  <2> QED
    BY <2>7, <2>8
<1> QED
  BY <1>3, <1>4

\* of the bytes of an exception,
LEMMA ExceptionReceived ==
    ASSUME NEW f \in Function, NEW code, IsCode(code), NEW exception \in Byte, NEW n \in Nat,
           NEW b \in Seq(Byte), Len(b) = 2 - n, 1 <= Len(b) => b[1] = code + 128, Len(b) > 1 => b[2] = exception,
           NEW r, r = CreateResponse(f, b)
    PROVE  AfterException(ExceptionResponse(code, exception), r, n)
<1>1. IsResponse(f.response)
  BY FunctionClasses, Zenon
<1>2. CASE b = <<>>
  <2>1. r.how = "rejected"
    BY <1>1, <1>2, CreateEmpty, Zenon
  <2>2. n # 0
    BY <1>2
  <2> QED
    BY <2>1, <2>2 DEF AfterException
<1>3. CASE b # <<>>
  <2>1. 1 <= Len(b)
    BY <1>3, EmptySeq
  <2>2. b[1] = code + 128
    BY <2>1, Zenon
  <2>3. /\ Len(b) > 1 => r.how = "exception" /\ r.values = ExceptionResponse(code, b[2])
        /\ Len(b) <= 1 => r.how = "rejected"
    BY <2>1, <2>2, CreateException
  <2>4. CASE Len(b) > 1
    BY <2>3, <2>4 DEF AfterException
  <2>5. CASE Len(b) <= 1
    <3>1. n # 0
      BY <2>5
    <3> QED
      BY <2>3, <2>5, <3>1 DEF AfterException
  <2> QED
    BY <2>4, <2>5
<1> QED
  BY <1>2, <1>3

\* of an exception,
LEMMA ExceptionCreated ==
    ASSUME NEW f \in Function, NEW code, IsCode(code), NEW exception \in Byte,
           NEW s, s = ExceptionToBuffer(ExceptionResponse(code, exception)),
           NEW n \in Nat, NEW b, LeftOf(s, n, b), NEW r, r = CreateResponse(f, b)
    PROVE  AfterException(ExceptionResponse(code, exception), r, n)
<1>1. s \in Seq(Byte) /\ s = <<code + 128, exception>>
  BY RefusalIs, Zenon
<1>2. s[1] = code + 128 /\ s[2] = exception /\ Len(s) = 2
  BY <1>1
<1>3. /\ b \in Seq(Byte) /\ Len(b) = Len(s) - n /\ Len(b) \in Nat /\ Stands(s, b, 1, n)
      /\ \A i \in 1 .. Len(b) : b[i] = s[i]
  BY Zenon DEF LeftOf
<1>4. b \in Seq(Byte)
  BY <1>3, Zenon
<1>5. Len(b) = 2 - n
  BY <1>2, <1>3
<1>6. 1 <= Len(b) => b[1] = code + 128
  BY <1>2, <1>3
<1>7. Len(b) > 1 => b[2] = exception
  BY <1>2, <1>3
<1> QED
  BY <1>4, <1>5, <1>6, <1>7, ExceptionReceived, Zenon

\* and of the response of another function.
LEMMA OtherCreated ==
    ASSUME NEW f \in Function, NEW g \in Function, g.class.code # f.class.code,
           NEW m, Valid(g.response, m), NEW s, s = ToBuffer(g.response, m),
           NEW n \in Nat, NEW b, LeftOf(s, n, b), NEW r, r = CreateResponse(f, b)
    PROVE  AfterOther(f.response, r)
<1>1. /\ s \in Seq(Byte) /\ s # <<>> /\ s[1] = g.class.code /\ IsCode(g.class.code)
      /\ IsResponse(f.response) /\ f.response.code = f.class.code
  BY ReplyIs, FunctionClasses, Zenon
<1>2. /\ b \in Seq(Byte) /\ Len(b) = Len(s) - n /\ Len(b) \in Nat /\ Stands(s, b, 1, n)
      /\ \A i \in 1 .. Len(b) : b[i] = s[i]
  BY Zenon DEF LeftOf
<1>3. CASE b = <<>>
  <2>1. r.how = "rejected"
    BY <1>1, <1>3, CreateEmpty, Zenon
  <2> QED
    BY <2>1 DEF AfterOther
<1>4. CASE b # <<>>
  <2>1. 1 <= Len(b)
    BY <1>2, <1>4, EmptySeq
  <2>2. 1 \in 1 .. Len(b)
    BY <1>2, <2>1
  <2>3. b[1] = g.class.code /\ b[1] <= 128
    BY <1>1, <1>2, <2>2 DEF IsCode
  <2>4. PICK v : v = FromBuffer(f.response, b)
    BY Zenon
  <2>5. r = Result("response", v)
    BY <1>2, <2>1, <2>3, <2>4, CreateOther, Zenon
  <2>6. v.ok => f.response.expects # {f.response.code}
    <3>1. b[1] \notin f.response.expects => v = Rejected
      BY <1>2, <2>1, <2>4, FromBufferIs, Zenon
    <3> QED
      BY <1>1, <2>3, <3>1, AcceptedIs, Zenon
  <2>7. CASE v.ok
    <3>1. r.how = "response"
      BY <2>5, <2>7 DEF Result
    <3> QED
      BY <2>6, <2>7, <3>1 DEF AfterOther
  <2>8. CASE ~v.ok
    <3>1. r.how = "rejected"
      BY <2>5, <2>8 DEF Result
    <3> QED
      BY <3>1 DEF AfterOther
  <2> QED
    BY <2>7, <2>8
<1> QED
  BY <1>3, <1>4

\* A reply is bytes.
LEMMA ReplyBytes ==
    ASSUME Exchanged
    PROVE  reply \in Seq(Byte)
<1>1. function \in Function
  BY Zenon DEF Exchanged, Asking
<1>2. CASE reply = <<>>
  BY <1>2
<1>3. CASE \E f \in Function : \E m : Valid(f.response, m) /\ reply = ToBuffer(f.response, m)
  BY <1>3, ReplyIs, Zenon
<1>4. CASE \E code, exception : /\ IsCode(code) /\ exception \in Byte
                                 /\ reply = ExceptionToBuffer(ExceptionResponse(code, exception))
  BY <1>4, RefusalIs, Zenon
<1> QED
  BY <1>1, <1>2, <1>3, <1>4, Zenon DEF Exchanged, Answering

\* In such an exchange the master reads what the slave answered.
LEMMA ExchangeFaithful == Exchanged => AnswerFaithful
<1> SUFFICES ASSUME Exchanged PROVE AnswerFaithful
  OBVIOUS
<1>1. CASE result = NoResult
  <2>1. result.how = "none"
    BY <1>1 DEF NoResult
  <2> QED
    BY <1>1, <2>1 DEF AnswerFaithful
<1>2. CASE result # NoResult
  <2>1. /\ lost \in Nat /\ lost <= Len(reply) /\ reply # <<>>
        /\ result = CreateResponse(function, SubSeq(reply, 1, Len(reply) - lost))
    BY <1>2, Zenon DEF Exchanged, Ending
  <2>2. function \in Function
    BY Zenon DEF Exchanged, Asking
  <2>3. PICK b : b = SubSeq(reply, 1, Len(reply) - lost)
    BY Zenon
  <2>4. reply \in Seq(Byte)
    BY <2>2, ReplyBytes, Zenon
  <2>5. LeftOf(reply, lost, b)
    BY <2>1, <2>3, <2>4, CutIs, Zenon
  <2>6. result = CreateResponse(function, b)
    BY <2>1, <2>3, Zenon
  <2>7. CASE /\ answer.by = "response" /\ Valid(function.response, answer.values)
             /\ reply = ToBuffer(function.response, answer.values)
    <3>1. AfterResponse(function.response, answer.values, result, lost, Len(reply))
      BY <2>1, <2>2, <2>6, <2>5, <2>7, ResponseCreated, Zenon
    <3> QED
      BY <2>7, <3>1 DEF AnswerFaithful, AfterResponse
  <2>8. CASE /\ answer.by = "exception"
             /\ \E code, exception : /\ IsCode(code) /\ exception \in Byte
                                     /\ answer.values = ExceptionResponse(code, exception)
                                     /\ reply = ExceptionToBuffer(ExceptionResponse(code, exception))
    <3>1. PICK code, exception : /\ IsCode(code) /\ exception \in Byte
                                 /\ answer.values = ExceptionResponse(code, exception)
                                 /\ reply = ExceptionToBuffer(ExceptionResponse(code, exception))
      BY <2>8, Zenon
    <3>2. AfterException(answer.values, result, lost)
      BY <2>1, <2>2, <2>6, <2>5, <3>1, ExceptionCreated, Zenon
    <3> QED
      BY <2>8, <3>2 DEF AnswerFaithful, AfterException
  <2>9. CASE /\ answer.by = "other"
             /\ \E f \in Function : \E m : /\ f.class.code # function.class.code
                                           /\ Valid(f.response, m) /\ reply = ToBuffer(f.response, m)
    <3>1. PICK f \in Function : \E m : /\ f.class.code # function.class.code
                                       /\ Valid(f.response, m) /\ reply = ToBuffer(f.response, m)
      BY <2>9, Zenon
    <3>2. PICK m : /\ f.class.code # function.class.code
                   /\ Valid(f.response, m) /\ reply = ToBuffer(f.response, m)
      BY <3>1, Zenon
    <3>3. AfterOther(function.response, result)
      BY <2>1, <2>2, <2>6, <2>5, <3>2, OtherCreated, Zenon
    <3> QED
      BY <2>9, <3>3 DEF AnswerFaithful, AfterOther
  <2> QED
    BY <2>1, <2>7, <2>8, <2>9, Zenon DEF Exchanged, Answering
<1> QED
  BY <1>1, <1>2

\* A reply is taken for an exception if and only if it is a whole one, the response to
\* another function is taken by the generic class only, and what is read of a response is
\* what the slave wrote, for every value of every field and however many bytes are lost at
\* the end.
THEOREM AnswersFaithful == CodecsSpec => []AnswerFaithful
BY ExchangeHolds, ExchangeFaithful, PTL

================================================================================
