------------------------- MODULE AsciiTransportProofs -------------------------
(***************************************************************************)
(* Proofs about AsciiTransport: its types, that what it collects is one    *)
(* unfinished frame of the open exchange, that an exchange begun on a      *)
(* quiet line stays in step with its answer, and that it keeps the         *)
(* contract, for every number of exchanges and every way in which the line *)
(* loses and cuts answers.                                                 *)
(***************************************************************************)
EXTENDS AsciiTransport, FiniteSetTheorems, SequenceTheorems, TLAPS

LEMMA FrameType ==
    ASSUME NEW e \in Exchange
    PROVE  /\ \A i \in 1 .. 4 : Frame(e)[i] \in Character
           /\ Start \in Character /\ Cr \in Character /\ Lf \in Character
<1>1. Start \in Character /\ Cr \in Character /\ Lf \in Character /\ Data(e) \in Character
  BY DEF Character
<1> QED
  BY <1>1 DEF Frame

LEMMA VerdictType ==
    ASSUME NEW e \in Exchange, NEW chars PROVE Verdict(e, chars) \in Outcome \ {"none"}
  BY DEF Verdict, Outcome

\* The parts a delivery of n characters splits the line into.
LEMMA ChunkFacts ==
    ASSUME NEW chars \in Seq(Character), NEW n \in 1 .. Len(chars)
    PROVE  /\ SubSeq(chars, 1, n) \in Seq(Character)
           /\ Len(SubSeq(chars, 1, n)) = n
           /\ SubSeq(chars, n + 1, Len(chars)) \in Seq(Character)
<1>1. \A i \in 1 .. Len(chars) : chars[i] \in Character
  BY ElementOfSeq
<1>2. Len(chars) \in Nat
  BY LenProperties
<1>3. SubSeq(chars, 1, n) \in Seq(Character) /\ Len(SubSeq(chars, 1, n)) = n
  BY <1>1, <1>2, SubSeqProperties
<1>4. SubSeq(chars, n + 1, Len(chars)) \in Seq(Character)
  BY <1>1, <1>2, SubSeqProperties
<1> QED
  BY <1>3, <1>4

\* What is collected of a frame: it has begun, and it has not ended.
Unfinished(chars, last) ==
    /\ Head(chars) = Start
    /\ last = Last(chars)
    /\ Len(chars) > 1 => ~(chars[Len(chars) - 1] = Cr /\ last = Lf)

Inv == TypeOK /\ ReaderFollowsFrame

LEMMA InitInv == Init => Inv
<1> SUFFICES ASSUME Init PROVE TypeOK /\ ReaderFollowsFrame
  BY DEF Inv
<1>1. reader = <<>> /\ line = <<>> /\ <<>> \in Seq(Character)
  BY EmptySeq DEF Init
<1>2. outcome \in [Exchange -> Outcome]
  BY DEF Init, Outcome
<1>3. 0 \in 0 .. MaxExchanges
  BY BoundAssumption
<1> QED
  BY <1>1, <1>2, <1>3 DEF Init, TypeOK, ReaderFollowsFrame, None

\* A chunk that goes on with an unfinished frame, or begins one, and does not end it,
\* leaves one: endsWithCrLf sees an end that is cut in two because lastByte is the last
\* character collected.
LEMMA CollectedIsUnfinished ==
    ASSUME TypeOK, ReaderFollowsFrame, ~destroyed,
           NEW chunk \in Seq(Character), Len(chunk) > 0,
           IsValidChunk(chunk), ~EndsWithCrLf(chunk)
    PROVE  /\ reader \o chunk \in Seq(Character)
           /\ Last(chunk) \in Character
           /\ Unfinished(reader \o chunk, Last(chunk))
<1> DEFINE all == reader \o chunk
<1>1. reader \in Seq(Character)
  BY DEF TypeOK
<1>2. /\ all \in Seq(Character)
      /\ Len(all) = Len(reader) + Len(chunk)
      /\ \A i \in 1 .. Len(all) : all[i] = IF i <= Len(reader) THEN reader[i] ELSE chunk[i - Len(reader)]
  BY <1>1, ConcatProperties
<1>3. Len(reader) \in Nat /\ Len(chunk) \in Nat \ {0}
  BY <1>1, LenProperties
<1>4. Last(chunk) = chunk[Len(chunk)] /\ Last(all) = all[Len(all)] /\ Head(all) = all[1]
  BY <1>2, <1>3 DEF Last
<1>5. Last(all) = Last(chunk) /\ Last(chunk) \in Character
  BY <1>2, <1>3, <1>4, ElementOfSeq
<1>6. CASE reader = <<>>
  <2>1. Len(reader) = 0
    BY <1>6
  <2>2. Head(all) = Start
    BY <1>2, <1>3, <1>4, <1>6, <2>1 DEF IsValidChunk
  <2>3. ASSUME Len(all) > 1, all[Len(all) - 1] = Cr, Last(chunk) = Lf PROVE FALSE
    <3>1. all[Len(all) - 1] = chunk[Len(chunk) - 1] /\ Len(chunk) # 1
      BY <1>2, <1>3, <2>1, <2>3
    <3> QED
      BY <2>3, <3>1 DEF EndsWithCrLf
  <2> QED
    BY <1>2, <1>5, <2>2, <2>3 DEF Unfinished
<1>7. CASE reader # <<>>
  <2>1. Len(reader) > 0 /\ Head(reader) = reader[1] /\ lastByte = reader[Len(reader)]
    BY <1>1, <1>3, <1>7, EmptySeq DEF ReaderFollowsFrame, Last
  <2>2. Head(all) = Start
    BY <1>2, <1>3, <1>4, <1>7, <2>1 DEF ReaderFollowsFrame
  <2>3. ASSUME all[Len(all) - 1] = Cr, Last(chunk) = Lf PROVE FALSE
    <3>1. CASE Len(chunk) = 1
      BY <1>2, <1>3, <2>1, <2>3, <3>1 DEF EndsWithCrLf
    <3>2. CASE Len(chunk) # 1
      <4> DEFINE i == Len(all) - 1
      <4>a. i \in 1 .. Len(all) /\ ~(i <= Len(reader)) /\ i - Len(reader) = Len(chunk) - 1
        <5>1. Len(all) = Len(reader) + Len(chunk)
          BY <1>2
        <5>2. Len(chunk) \in Nat /\ Len(chunk) > 1
          BY <1>3, <3>2
        <5> HIDE DEF all
        <5> QED
          BY <1>3, <5>1, <5>2
      <4>1. all[i] = chunk[Len(chunk) - 1]
        BY <1>2, <4>a
      <4> QED
        BY <2>3, <3>2, <4>1 DEF EndsWithCrLf
    <3> QED
      BY <3>1, <3>2
  <2> QED
    BY <1>2, <1>5, <2>2, <2>3 DEF Unfinished
<1> QED
  BY <1>6, <1>7

LEMMA StepInv == Inv /\ [Next]_vars => Inv'
<1> SUFFICES ASSUME TypeOK, ReaderFollowsFrame, [Next]_vars PROVE Inv'
  BY DEF Inv
<1> USE BoundAssumption DEF None
<1>1. CASE SendRequest
  <2>1. reader # <<>> => destroyed
    BY <1>1 DEF SendRequest, ReaderFollowsFrame
  <2> QED
    BY <1>1, <2>1 DEF SendRequest, Inv, TypeOK, ReaderFollowsFrame, Exchange
<1>2. CASE HandleTimeout
  <2>1. timeout \in Exchange /\ outcome' \in [Exchange -> Outcome] /\ timeout' = None
    BY <1>2 DEF HandleTimeout, Ends, TypeOK, Outcome
  <2>2. reader' = <<>> /\ transaction' = None
    BY <1>2 DEF HandleTimeout, AfterTimeout, SkipResponseData
  <2> QED
    BY <1>2, <2>1, <2>2, EmptySeq DEF HandleTimeout, remote, Inv, TypeOK, ReaderFollowsFrame
<1>3. CASE Destroy
  BY <1>3 DEF Destroy, remote, history, Inv, TypeOK, ReaderFollowsFrame
<1>4. ASSUME NEW n \in 1 .. Len(line), OnData(n) PROVE Inv'
  <2> DEFINE chunk == SubSeq(line, 1, n)
  <2>1. /\ chunk \in Seq(Character) /\ Len(chunk) = n /\ n > 0
        /\ SubSeq(line, n + 1, Len(line)) \in Seq(Character)
    BY ChunkFacts DEF TypeOK
  <2>2. /\ line' \in Seq(Character)
        /\ UNCHANGED <<destroyed, owed, sent, quiet, damaged>>
    BY <1>4, <2>1 DEF OnData, DataIgnored, DataRejected, DataCollected, FrameReceived, Arrives
  <2>3. CASE DataIgnored(n)
    BY <2>2, <2>3 DEF DataIgnored, Inv, TypeOK, ReaderFollowsFrame
  <2>4. CASE DataRejected(n)
    <3>1. reader' = <<>> /\ transaction' = None /\ timeout' = None /\ UNCHANGED lastByte
      BY <2>4 DEF DataRejected, SkipResponseData, Ends
    <3>2. outcome' \in [Exchange -> Outcome]
      BY <2>4 DEF DataRejected, Ends, TypeOK, Outcome
    <3> QED
      BY <2>2, <3>1, <3>2, EmptySeq DEF Inv, TypeOK, ReaderFollowsFrame
  <2>5. CASE DataCollected(n)
    <3>1. /\ transaction # None /\ ~destroyed
          /\ IsValidChunk(chunk) /\ ~EndsWithCrLf(chunk)
          /\ reader' = reader \o chunk /\ lastByte' = Last(chunk)
          /\ UNCHANGED <<transaction, timeout, outcome>>
      BY <2>5 DEF DataCollected
    <3>2. reader' \in Seq(Character) /\ lastByte' \in Character /\ Unfinished(reader', lastByte')
      BY <2>1, <3>1, CollectedIsUnfinished
    <3>3. TypeOK'
      BY <2>2, <3>1, <3>2 DEF TypeOK
    <3>4. ReaderFollowsFrame'
      BY <2>2, <3>1, <3>2 DEF ReaderFollowsFrame, Unfinished
    <3> QED
      BY <3>3, <3>4 DEF Inv
  <2>6. CASE FrameReceived(n)
    <3>1. /\ reader' = <<>> /\ transaction' = None /\ timeout' = None
          /\ lastByte' = Last(chunk) /\ transaction # None
      BY <2>6 DEF FrameReceived, SkipResponseData, Ends
    <3>2. Last(chunk) \in Character
      BY <2>1, ElementOfSeq DEF Last
    <3>3. outcome' \in [Exchange -> Outcome]
      <4>1. transaction \in Exchange
        BY <3>1 DEF TypeOK
      <4>2. Verdict(transaction, reader \o chunk) \in Outcome
        BY <4>1, VerdictType
      <4>3. outcome' = [outcome EXCEPT ![transaction] = Verdict(transaction, reader \o chunk)]
        BY <2>6 DEF FrameReceived, Ends
      <4> QED
        BY <4>1, <4>2, <4>3 DEF TypeOK
    <3> QED
      BY <2>2, <3>1, <3>2, <3>3, EmptySeq DEF Inv, TypeOK, ReaderFollowsFrame
  <2> QED
    BY <1>4, <2>3, <2>4, <2>5, <2>6 DEF OnData
<1>5. ASSUME NEW e \in owed, NEW places \in Deliveries, SlaveAnswers(e, places) PROVE Inv'
  <2> DEFINE part == [i \in 1 .. Len(places) |-> Frame(e)[places[i]]]
  <2>1. e \in Exchange /\ places \in Seq(1 .. 4)
    BY DeliveriesAssumption DEF TypeOK
  <2>2. Len(places) \in Nat /\ \A i \in 1 .. Len(places) : places[i] \in 1 .. 4
    BY <2>1, LenProperties, ElementOfSeq
  <2>3. \A i \in 1 .. Len(places) : Frame(e)[places[i]] \in Character
    BY <2>1, <2>2, FrameType
  <2>4. part \in Seq(Character)
    <3>1. part \in [1 .. Len(places) -> Character]
      BY <2>3
    <3> QED
      BY <2>2, <3>1, SeqDef
  <2>5. line \o part \in Seq(Character)
    BY <2>4, ConcatProperties DEF TypeOK
  <2>6. line' = line \o part /\ owed' = owed \ {e} /\ UNCHANGED <<port, sent, outcome, quiet>>
    BY <1>5 DEF SlaveAnswers
  <2>7. damaged' \in SUBSET Exchange
    BY <1>5, <2>1 DEF SlaveAnswers, TypeOK
  <2> QED
    BY <2>5, <2>6, <2>7 DEF port, Inv, TypeOK, ReaderFollowsFrame
<1>6. CASE UNCHANGED vars
  BY <1>6 DEF vars, port, remote, history, Inv, TypeOK, ReaderFollowsFrame
<1> QED
  BY <1>1, <1>2, <1>3, <1>4, <1>5, <1>6 DEF Next, Remote

\* Every variable of the transport keeps its type, for every number of exchanges and
\* every way answers are damaged.
THEOREM TypeCorrect == Spec => []TypeOK
<1>1. Inv => TypeOK
  BY DEF Inv
<1> QED
  BY <1>1, InitInv, StepInv, PTL DEF Spec

\* What onData has collected is one frame that has begun and not ended, of the one open
\* exchange, whose response timer is live: no end of a frame is overlooked however the
\* chunks cut it, and nothing is collected for an exchange that is over.
THEOREM ReaderFollows == Spec => []ReaderFollowsFrame
<1>1. Inv => ReaderFollowsFrame
  BY DEF Inv
<1> QED
  BY <1>1, InitInv, StepInv, PTL DEF Spec

----------------------------------------------------------------------------
\* In step on a quiet line.  While an exchange that began on a quiet line is open,
\* nothing but its own answer can reach the reader, and what was collected and what is
\* still on the line are together its whole frame unless characters were lost.
Own(e) == {Start, Cr, Lf, Data(e)}
OwnChars(e) ==
    /\ owed \subseteq {e}
    /\ e \in owed => reader = <<>> /\ line = <<>>
    /\ \A i \in 1 .. Len(reader) : reader[i] \in Own(e)
    /\ \A i \in 1 .. Len(line) : line[i] \in Own(e)
    /\ e \notin owed \cup damaged =>
        /\ Len(reader) + Len(line) = 4
        /\ \A i \in 1 .. Len(reader) : reader[i] = Frame(e)[i]
        /\ \A i \in 1 .. Len(line) : line[i] = Frame(e)[Len(reader) + i]

\* The open exchange is the last one, the ones before it have ended, and nothing is
\* known yet of the next ones.
Latest ==
    /\ transaction # None => transaction = sent /\ ~destroyed
    /\ \A e \in Exchange : e > sent => outcome[e] = "none" /\ e \notin quiet
    /\ ~destroyed => \A e \in Exchange : e <= sent => (outcome[e] = "none" <=> e = transaction)

StepKept ==
    /\ Inv
    /\ Latest
    /\ transaction \in quiet => OwnChars(transaction)
    /\ InStepOnQuietLine

\* Characters of the exchange's own answer are never taken for another one, and its
\* whole frame is taken for the response.
LEMMA VerdictOfOwn ==
    ASSUME NEW e \in Exchange, NEW chars, \A i \in 1 .. Len(chars) : chars[i] \in Own(e)
    PROVE  /\ Verdict(e, chars) # "foreign"
           /\ chars = Frame(e) => Verdict(e, chars) = "response"
<1> DEFINE fitting == {other \in Exchange : chars = Frame(other) /\ Header[other] = Header[e]}
<1>1. ASSUME NEW other \in fitting PROVE other = e
  <2>1. Len(chars) = 4 /\ chars[2] = Data(other)
    BY DEF Frame
  <2>2. Data(other) \in Own(e)
    BY <2>1
  <2> QED
    BY <2>2 DEF Own, Start, Cr, Lf, Data
<1>2. fitting = {} \/ fitting = {e}
  BY <1>1
<1>3. chars = Frame(e) => e \in fitting
  OBVIOUS
<1> QED
  BY <1>2, <1>3 DEF Verdict

LEMMA InitStepKept == Init => StepKept
<1> SUFFICES ASSUME Init PROVE Latest /\ transaction \notin quiet /\ InStepOnQuietLine
  BY InitInv DEF StepKept
<1> QED
  BY DEF Init, Latest, InStepOnQuietLine, Exchange, None

\* The parts of a line, and which of its characters they hold.
LEMMA PartsOfLine ==
    ASSUME NEW chars \in Seq(Character), NEW n \in 1 .. Len(chars)
    PROVE  /\ SubSeq(chars, 1, n) \in Seq(Character) /\ SubSeq(chars, n + 1, Len(chars)) \in Seq(Character)
           /\ Len(SubSeq(chars, 1, n)) = n /\ Len(SubSeq(chars, n + 1, Len(chars))) = Len(chars) - n
           /\ \A i \in 1 .. n : SubSeq(chars, 1, n)[i] = chars[i]
           /\ \A i \in 1 .. Len(chars) - n : SubSeq(chars, n + 1, Len(chars))[i] = chars[n + i]
<1>1. Len(chars) \in Nat /\ \A i \in 1 .. Len(chars) : chars[i] \in Character
  BY LenProperties, ElementOfSeq
<1>2. /\ SubSeq(chars, 1, n) \in Seq(Character) /\ Len(SubSeq(chars, 1, n)) = n
      /\ \A i \in 1 .. n : SubSeq(chars, 1, n)[i] = chars[i]
  BY <1>1, SubSeqProperties
<1>3. /\ SubSeq(chars, n + 1, Len(chars)) \in Seq(Character)
      /\ Len(SubSeq(chars, n + 1, Len(chars))) = Len(chars) - n
      /\ \A i \in 1 .. Len(chars) - n : SubSeq(chars, n + 1, Len(chars))[i] = chars[n + i]
  BY <1>1, SubSeqProperties
<1> QED
  BY <1>2, <1>3

\* An open exchange that began on a quiet line and receives a chunk: what it has then
\* collected is its own, and all of its frame but what is left on the line.
LEMMA ChunkIsOwn ==
    ASSUME StepKept, transaction \in quiet, NEW n \in 1 .. Len(line)
    PROVE  LET e == transaction
               all == reader \o SubSeq(line, 1, n)
               left == SubSeq(line, n + 1, Len(line))
           IN  /\ e \notin owed /\ owed \subseteq {e}
               /\ Len(all) \in Nat
               /\ \A i \in 1 .. Len(all) : all[i] \in Own(e)
               /\ \A i \in 1 .. Len(left) : left[i] \in Own(e)
               /\ e \notin damaged =>
                    /\ Len(all) + Len(left) = 4
                    /\ \A i \in 1 .. Len(all) : all[i] = Frame(e)[i]
                    /\ \A i \in 1 .. Len(left) : left[i] = Frame(e)[Len(all) + i]
<1> DEFINE e == transaction
           chunk == SubSeq(line, 1, n)
           all == reader \o chunk
           left == SubSeq(line, n + 1, Len(line))
<1>1. /\ OwnChars(e)
      /\ reader \in Seq(Character) /\ line \in Seq(Character) /\ Len(reader) \in Nat /\ Len(line) \in Nat
      /\ n \in Nat /\ n >= 1 /\ n <= Len(line)
  BY LenProperties DEF StepKept, Inv, TypeOK
<1>2. /\ chunk \in Seq(Character) /\ Len(chunk) = n /\ Len(left) = Len(line) - n
      /\ \A i \in 1 .. n : chunk[i] = line[i]
      /\ \A i \in 1 .. Len(line) - n : left[i] = line[n + i]
  BY <1>1, PartsOfLine
<1>3. /\ Len(all) = Len(reader) + Len(chunk)
      /\ \A i \in 1 .. Len(reader) + Len(chunk) :
           all[i] = IF i <= Len(reader) THEN reader[i] ELSE chunk[i - Len(reader)]
  <2>1. reader \in Seq(Character) /\ chunk \in Seq(Character)
    BY <1>1, <1>2
  <2> QED
    BY <2>1, ConcatProperties
<1> HIDE DEF chunk, all, left
<1>4. line # <<>> /\ e \notin owed /\ owed \subseteq {e}
  BY <1>1, EmptySeq DEF OwnChars
<1>5. Len(all) = Len(reader) + n /\ Len(all) \in Nat
  BY <1>1, <1>2, <1>3
<1>6. ASSUME NEW i \in 1 .. Len(all)
      PROVE  \/ i \in 1 .. Len(reader) /\ all[i] = reader[i]
             \/ \E j \in 1 .. Len(line) : all[i] = line[j] /\ i = Len(reader) + j
  <2>1. i \in 1 .. Len(reader) + Len(chunk)
    BY <1>1, <1>2, <1>5
  <2>2. CASE i <= Len(reader)
    BY <1>1, <1>3, <2>1, <2>2
  <2>3. CASE ~(i <= Len(reader))
    <3> DEFINE j == i - Len(reader)
    <3>1. j \in 1 .. n /\ j \in 1 .. Len(line) /\ i = Len(reader) + j
      BY <1>1, <1>2, <2>1, <2>3
    <3>2. all[i] = chunk[j]
      BY <1>3, <2>1, <2>3
    <3> HIDE DEF j
    <3> QED
      BY <1>2, <3>1, <3>2
  <2> QED
    BY <2>2, <2>3
<1>7. ASSUME NEW i \in 1 .. Len(left)
      PROVE  n + i \in 1 .. Len(line) /\ left[i] = line[n + i] /\ Len(reader) + (n + i) = Len(all) + i
  BY <1>1, <1>2, <1>5
<1>8. ASSUME NEW i \in 1 .. Len(all) PROVE all[i] \in Own(e)
  BY <1>1, <1>6 DEF OwnChars
<1>9. ASSUME NEW i \in 1 .. Len(left) PROVE left[i] \in Own(e)
  BY <1>1, <1>7 DEF OwnChars
<1>10. ASSUME e \notin damaged
       PROVE  /\ Len(all) + Len(left) = 4
              /\ \A i \in 1 .. Len(all) : all[i] = Frame(e)[i]
              /\ \A i \in 1 .. Len(left) : left[i] = Frame(e)[Len(all) + i]
  <2>1. /\ Len(reader) + Len(line) = 4
        /\ \A i \in 1 .. Len(reader) : reader[i] = Frame(e)[i]
        /\ \A i \in 1 .. Len(line) : line[i] = Frame(e)[Len(reader) + i]
    BY <1>1, <1>4, <1>10 DEF OwnChars
  <2>2. Len(all) + Len(left) = 4
    BY <1>1, <1>2, <1>5, <2>1
  <2>3. ASSUME NEW i \in 1 .. Len(all) PROVE all[i] = Frame(e)[i]
    BY <1>6, <2>1
  <2>4. ASSUME NEW i \in 1 .. Len(left) PROVE left[i] = Frame(e)[Len(all) + i]
    <3>1. line[n + i] = Frame(e)[Len(reader) + (n + i)]
      BY <1>7, <2>1
    <3> QED
      BY <1>7, <3>1
  <2> QED
    BY <2>2, <2>3, <2>4
<1> QED
  BY <1>4, <1>5, <1>8, <1>9, <1>10 DEF all, chunk, left

\* A frame is received: the whole one, unless characters were lost.
LEMMA ReceivedInStep ==
    ASSUME StepKept, transaction \in quiet, NEW n \in 1 .. Len(line),
           EndsWithCrLf(SubSeq(line, 1, n))
    PROVE  LET how == Verdict(transaction, reader \o SubSeq(line, 1, n))
           IN  how # "foreign" /\ (how = "error" => transaction \in damaged)
<1> DEFINE e == transaction
           chunk == SubSeq(line, 1, n)
           all == reader \o chunk
           left == SubSeq(line, n + 1, Len(line))
<1>1. /\ e \in Exchange /\ reader \in Seq(Character) /\ line \in Seq(Character)
      /\ Len(reader) \in Nat /\ Len(line) \in Nat /\ n \in Nat /\ n >= 1
  BY LenProperties DEF StepKept, Inv, TypeOK
<1>2. /\ \A i \in 1 .. Len(all) : all[i] \in Own(e)
      /\ e \notin damaged =>
           /\ Len(all) + Len(left) = 4
           /\ \A i \in 1 .. Len(all) : all[i] = Frame(e)[i]
  BY ChunkIsOwn
<1>3. Verdict(e, all) # "foreign" /\ (all = Frame(e) => Verdict(e, all) = "response")
  BY <1>1, <1>2, VerdictOfOwn
<1>4. ASSUME e \notin damaged PROVE all = Frame(e)
  <2>1. /\ chunk \in Seq(Character) /\ Len(chunk) = n /\ left \in Seq(Character)
    BY <1>1, PartsOfLine
  <2>2. /\ all \in Seq(Character) /\ Len(all) = Len(reader) + Len(chunk)
        /\ \A i \in 1 .. Len(reader) + Len(chunk) :
             all[i] = IF i <= Len(reader) THEN reader[i] ELSE chunk[i - Len(reader)]
    BY <1>1, <2>1, ConcatProperties
  <2> HIDE DEF all, chunk, left
  <2>3. Len(all) = Len(reader) + n /\ Len(all) \in 1 .. 4
    <3>1. Len(left) \in Nat
      BY <2>1, LenProperties
    <3> QED
      BY <1>1, <1>2, <1>4, <2>1, <2>2, <3>1
  <2>4. all[Len(all)] = chunk[n]
    <3>1. Len(all) \in 1 .. Len(reader) + Len(chunk) /\ ~(Len(all) <= Len(reader)) /\ Len(all) - Len(reader) = n
      BY <1>1, <2>1, <2>3
    <3> QED
      BY <2>2, <3>1
  <2>5. chunk[n] = Lf
    BY <2>1 DEF EndsWithCrLf, Last, chunk
  <2>6. Len(all) \in 1 .. Len(all) /\ Frame(e)[Len(all)] = Lf
    BY <1>2, <1>4, <2>3, <2>4, <2>5
  <2>7. Len(all) = 4
    BY <2>3, <2>6 DEF Frame, Start, Data, Cr, Lf
  <2>8. /\ Frame(e) \in Seq(Character) /\ Len(Frame(e)) = 4
    <3>1. Start \in Character /\ Data(e) \in Character /\ Cr \in Character /\ Lf \in Character
      BY <1>1 DEF Character
    <3> QED
      BY <3>1 DEF Frame
  <2>9. \A i \in 1 .. Len(all) : all[i] = Frame(e)[i]
    BY <1>2, <1>4
  <2> QED
    BY <2>2, <2>7, <2>8, <2>9, SeqEqual
<1> QED
  BY <1>3, <1>4

\* A chunk is refused as the middle of a frame only when the answer lost its start.
LEMMA RejectedInStep ==
    ASSUME StepKept, transaction \in quiet, NEW n \in 1 .. Len(line),
           ~IsValidChunk(SubSeq(line, 1, n))
    PROVE  transaction \in damaged
<1> DEFINE e == transaction
           chunk == SubSeq(line, 1, n)
           all == reader \o chunk
<1>1. /\ reader = <<>> /\ Head(chunk) # Start /\ line \in Seq(Character) /\ n >= 1 /\ n \in Nat
      /\ Len(line) \in Nat
  BY LenProperties DEF IsValidChunk, StepKept, Inv, TypeOK
<1>2. chunk \in Seq(Character) /\ Len(chunk) = n
  BY <1>1, PartsOfLine
<1>3. all = chunk /\ Head(chunk) = chunk[1] /\ 1 \in 1 .. Len(all)
  BY <1>1, <1>2, ConcatEmptySeq
<1>4. e \notin damaged => all[1] = Frame(e)[1]
  BY <1>3, ChunkIsOwn
<1> QED
  BY <1>1, <1>3, <1>4 DEF Frame

LEMMA EndInStep ==
    ASSUME StepKept, NEW e \in Exchange, e = transaction, NEW how,
           how # "none", transaction \in quiet => how # "foreign" /\ (how = "error" => e \in damaged),
           outcome' = [outcome EXCEPT ![e] = how], transaction' = None,
           UNCHANGED <<sent, destroyed, quiet, damaged>>
    PROVE  Latest' /\ InStepOnQuietLine' /\ transaction' \notin quiet'
<1>1. /\ Latest /\ InStepOnQuietLine /\ e = sent /\ outcome \in [Exchange -> Outcome]
      /\ e \in Nat /\ \A u \in Exchange : u # None
      /\ quiet \subseteq Exchange /\ None \notin quiet
  BY DEF StepKept, Latest, Inv, TypeOK, Exchange, None
<1>2. Latest'
  BY <1>1 DEF Latest
<1>3. InStepOnQuietLine'
  BY <1>1 DEF InStepOnQuietLine
<1> QED
  BY <1>1, <1>2, <1>3

LEMMA NextStepKept == StepKept /\ [Next]_vars => StepKept'
<1> SUFFICES ASSUME StepKept, [Next]_vars
             PROVE  Latest' /\ (transaction \in quiet => OwnChars(transaction))' /\ InStepOnQuietLine'
  BY StepInv DEF StepKept
<1>a. /\ Inv /\ TypeOK /\ Latest /\ InStepOnQuietLine
      /\ reader \in Seq(Character) /\ line \in Seq(Character) /\ Len(reader) \in Nat /\ Len(line) \in Nat
  BY LenProperties DEF StepKept, Inv, TypeOK
<1>1. CASE SendRequest
  <2>a. /\ sent \in Nat /\ sent + 1 \in Exchange /\ ~destroyed /\ transaction = None
        /\ transaction' = sent + 1 /\ sent' = sent + 1 /\ owed' = owed \cup {sent + 1}
        /\ quiet' = IF owed = {} /\ line = <<>> THEN quiet \cup {sent + 1} ELSE quiet
        /\ UNCHANGED <<reader, destroyed, line, outcome, damaged>>
    BY <1>1, <1>a DEF SendRequest, TypeOK
  <2>b. PICK e \in Exchange : e = sent + 1
    BY <2>a
  <2>1. /\ e = sent + 1 /\ e > sent /\ transaction' = e /\ sent' = e /\ ~destroyed /\ transaction = None
        /\ sent \in Nat /\ owed' = owed \cup {e}
        /\ quiet' = IF owed = {} /\ line = <<>> THEN quiet \cup {e} ELSE quiet
        /\ UNCHANGED <<reader, destroyed, line, outcome, damaged>>
    BY <2>a, <2>b
  <2>2. reader = <<>>
    BY <1>a, <2>1 DEF Inv, ReaderFollowsFrame
  <2>3. e \notin quiet /\ outcome[e] = "none"
    BY <1>a, <2>1 DEF Latest
  <2>4. ASSUME NEW u \in Exchange PROVE u > sent' => u > sent /\ u # e
    BY <2>1 DEF Exchange
  <2>5. ASSUME NEW u \in Exchange, u <= sent' PROVE u = e \/ (u <= sent /\ u # None /\ u # e)
    BY <2>1, <2>5 DEF Exchange, None
  <2>6. Latest'
    BY <1>a, <2>1, <2>3, <2>4, <2>5 DEF Latest
  <2>7. e \in quiet' => OwnChars(e)'
    <3> SUFFICES ASSUME owed = {}, line = <<>>, owed' = {e} PROVE OwnChars(e)'
      BY <2>1, <2>3
    <3>1. Len(reader') = 0 /\ Len(line') = 0
      BY <2>1, <2>2
    <3> QED
      BY <2>1, <2>2, <3>1 DEF OwnChars
  <2>8. InStepOnQuietLine'
    BY <1>a, <2>1, <2>3 DEF InStepOnQuietLine
  <2> QED
    BY <2>1, <2>6, <2>7, <2>8 DEF OwnChars
<1>2. CASE HandleTimeout
  <2>1. /\ transaction \in Exchange /\ transaction' = None
        /\ outcome' = [outcome EXCEPT ![transaction] = "timeout"]
        /\ UNCHANGED <<sent, destroyed, quiet, damaged>>
    BY <1>2, <1>a DEF HandleTimeout, AfterTimeout, SkipResponseData, Ends, Inv, TypeOK, ReaderFollowsFrame
  <2> QED
    BY <2>1, EndInStep
<1>3. CASE Destroy
  <2>1. transaction' = None /\ destroyed' /\ UNCHANGED <<sent, outcome, quiet, damaged>>
    BY <1>3 DEF Destroy, history
  <2>2. transaction' \notin quiet'
    BY <1>a, <2>1 DEF TypeOK, Exchange, None
  <2>3. Latest' /\ InStepOnQuietLine'
    BY <1>a, <2>1 DEF Latest, InStepOnQuietLine
  <2> QED
    BY <2>2, <2>3
<1>4. ASSUME NEW n \in 1 .. Len(line), OnData(n)
      PROVE  Latest' /\ (transaction \in quiet => OwnChars(transaction))' /\ InStepOnQuietLine'
  <2>1. line' = SubSeq(line, n + 1, Len(line)) /\ UNCHANGED <<destroyed, owed, sent, quiet, damaged>>
    BY <1>4 DEF OnData, DataIgnored, DataRejected, DataCollected, FrameReceived, Arrives
  <2>2. CASE DataIgnored(n)
    <3>1. UNCHANGED <<transaction, outcome>> /\ (transaction = None \/ destroyed)
      BY <2>2 DEF DataIgnored
    <3>2. transaction \notin quiet
      BY <1>a, <3>1 DEF TypeOK, Exchange, None, Latest
    <3>3. Latest' /\ InStepOnQuietLine'
      BY <1>a, <2>1, <3>1 DEF Latest, InStepOnQuietLine
    <3> QED
      BY <2>1, <3>1, <3>2, <3>3
  <2>3. CASE DataRejected(n)
    <3>1. /\ transaction \in Exchange /\ transaction' = None /\ ~IsValidChunk(SubSeq(line, 1, n))
          /\ outcome' = [outcome EXCEPT ![transaction] = "error"]
      BY <1>a, <2>3 DEF DataRejected, SkipResponseData, Ends, TypeOK
    <3>2. transaction \in quiet => transaction \in damaged
      BY <3>1, RejectedInStep
    <3> QED
      BY <2>1, <3>1, <3>2, EndInStep
  <2>4. CASE DataCollected(n)
    <3>1. reader' = reader \o SubSeq(line, 1, n) /\ UNCHANGED <<transaction, outcome>>
      BY <2>4 DEF DataCollected
    <3>2. Latest' /\ InStepOnQuietLine'
      BY <1>a, <2>1, <3>1 DEF Latest, InStepOnQuietLine
    <3>3. ASSUME transaction \in quiet PROVE OwnChars(transaction)'
      <4>1. /\ transaction \notin owed /\ owed \subseteq {transaction}
            /\ \A i \in 1 .. Len(reader') : reader'[i] \in Own(transaction)
            /\ \A i \in 1 .. Len(line') : line'[i] \in Own(transaction)
            /\ transaction \notin damaged =>
                 /\ Len(reader') + Len(line') = 4
                 /\ \A i \in 1 .. Len(reader') : reader'[i] = Frame(transaction)[i]
                 /\ \A i \in 1 .. Len(line') : line'[i] = Frame(transaction)[Len(reader') + i]
        BY <2>1, <3>1, <3>3, ChunkIsOwn
      <4>2. Own(transaction)' = Own(transaction) /\ Frame(transaction)' = Frame(transaction)
        BY <3>1 DEF Own, Frame, Data
      <4> QED
        BY <2>1, <3>1, <4>1, <4>2 DEF OwnChars
    <3> QED
      BY <2>1, <3>1, <3>2, <3>3
  <2>5. CASE FrameReceived(n)
    <3>1. /\ transaction \in Exchange /\ transaction' = None /\ EndsWithCrLf(SubSeq(line, 1, n))
          /\ outcome' = [outcome EXCEPT ![transaction] = Verdict(transaction, reader \o SubSeq(line, 1, n))]
      BY <1>a, <2>5 DEF FrameReceived, SkipResponseData, Ends, TypeOK
    <3>2. Verdict(transaction, reader \o SubSeq(line, 1, n)) # "none"
      BY <3>1, VerdictType
    <3>3. transaction \in quiet =>
            /\ Verdict(transaction, reader \o SubSeq(line, 1, n)) # "foreign"
            /\ Verdict(transaction, reader \o SubSeq(line, 1, n)) = "error" => transaction \in damaged
      BY <3>1, ReceivedInStep
    <3> QED
      BY <2>1, <3>1, <3>2, <3>3, EndInStep
  <2> QED
    BY <1>4, <2>2, <2>3, <2>4, <2>5 DEF OnData
<1>5. ASSUME NEW o \in owed, NEW places \in Deliveries, SlaveAnswers(o, places)
      PROVE  Latest' /\ (transaction \in quiet => OwnChars(transaction))' /\ InStepOnQuietLine'
  <2> DEFINE part == [i \in 1 .. Len(places) |-> Frame(o)[places[i]]]
  <2>1. /\ o \in Exchange /\ places \in Seq(1 .. 4) /\ owed' = owed \ {o} /\ line' = line \o part
        /\ damaged' = IF places = <<1, 2, 3, 4>> THEN damaged ELSE damaged \cup {o}
        /\ UNCHANGED <<transaction, reader, destroyed, sent, outcome, quiet>>
    BY <1>5, <1>a, DeliveriesAssumption DEF SlaveAnswers, port, TypeOK
  <2>2. Len(places) \in Nat /\ \A i \in 1 .. Len(places) : places[i] \in 1 .. 4
    BY <2>1, LenProperties, ElementOfSeq
  <2>3. \A j \in 1 .. 4 : Frame(o)[j] \in Own(o) /\ Frame(o)[j] \in Character
    BY <2>1 DEF Frame, Own, Character
  <2>4. part \in Seq(Character) /\ Len(part) = Len(places)
    <3>1. part \in [1 .. Len(places) -> Character]
      BY <2>2, <2>3
    <3>2. part \in Seq(Character)
      BY <2>2, <3>1, SeqDef
    <3> QED
      BY <2>2, <3>2, LenProperties
  <2>5. \A i \in 1 .. Len(places) : part[i] = Frame(o)[places[i]] /\ part[i] \in Own(o)
    BY <2>2, <2>3
  <2> HIDE DEF part
  <2>6. Latest' /\ InStepOnQuietLine'
    BY <1>a, <2>1 DEF Latest, InStepOnQuietLine
  <2>7. ASSUME transaction \in quiet PROVE OwnChars(transaction)'
    <3>1. OwnChars(transaction)
      BY <2>7 DEF StepKept
    <3>2. o = transaction /\ reader = <<>> /\ line = <<>> /\ owed' = {}
      BY <2>1, <3>1 DEF OwnChars
    <3>3. line' = part /\ Len(line') = Len(places) /\ Len(reader') = 0
      BY <2>1, <2>4, <3>2, ConcatEmptySeq
    <3>4. \A i \in 1 .. Len(line') : line'[i] \in Own(o)
      BY <2>5, <3>3
    <3>5. ASSUME o \notin damaged'
          PROVE  Len(line') = 4 /\ \A i \in 1 .. Len(line') : line'[i] = Frame(o)[Len(reader') + i]
      <4>1. places = <<1, 2, 3, 4>>
        BY <2>1, <3>5
      <4>2. Len(places) = 4 /\ \A i \in 1 .. 4 : places[i] = i
        BY <4>1
      <4>3. ASSUME NEW i \in 1 .. 4 PROVE line'[i] = Frame(o)[Len(reader') + i]
        <5>1. part[i] = Frame(o)[i] /\ Len(reader') + i = i
          BY <2>5, <3>3, <4>2
        <5> QED
          BY <3>3, <5>1
      <4> QED
        BY <3>3, <4>2, <4>3
    <3>a. /\ owed' \subseteq {o} /\ o \notin owed' /\ 4 + 0 = 4
          /\ \A i \in 1 .. Len(reader') : FALSE
      BY <3>2, <3>3
    <3>b. Own(o)' = Own(o) /\ Frame(o)' = Frame(o)
      BY DEF Own, Frame, Data, Start, Cr, Lf
    <3>c. o \notin damaged' => Len(reader') + Len(line') = 4
      <4>1. ASSUME o \notin damaged' PROVE Len(line') = 4 /\ Len(reader') = 0
        BY <3>3, <3>5, <4>1
      <4> QED
        BY <4>1
    <3>6. OwnChars(o)'
      BY <3>4, <3>5, <3>a, <3>b, <3>c DEF OwnChars
    <3> QED
      BY <2>1, <3>2, <3>6
  <2> QED
    BY <2>1, <2>6, <2>7
<1>6. CASE UNCHANGED vars
  <2>1. UNCHANGED <<transaction, reader, destroyed, line, owed, sent, outcome, quiet, damaged>>
    BY <1>6 DEF vars, port, remote, history
  <2>2. Latest' /\ InStepOnQuietLine'
    BY <1>a, <2>1 DEF Latest, InStepOnQuietLine
  <2>3. (transaction \in quiet => OwnChars(transaction))'
    BY <2>1 DEF OwnChars, StepKept
  <2> QED
    BY <2>2, <2>3
<1> QED
  BY <1>1, <1>2, <1>3, <1>4, <1>5, <1>6 DEF Next, Remote

\* An exchange that began on a quiet line never takes the answer to another request,
\* and fails on what it receives only when its own answer lost characters, whatever the
\* exchanges before it left behind and however chunks cut the answers.
THEOREM InStep == Spec => []InStepOnQuietLine
<1>1. StepKept => InStepOnQuietLine
  BY DEF StepKept
<1> QED
  BY <1>1, InitStepKept, NextStepKept, PTL DEF Spec

----------------------------------------------------------------------------
\* The contract: the steps of the transport, seen through the phases of the exchanges.
phaseBar == [e \in Exchange |-> Phase(e)]
ContractStep == Contract!Next \/ (phaseBar' = phaseBar /\ destroyed' = destroyed)

\* The contract counts with a Cardinality of its own instance, which is the same one.
LEMMA SameCardinality == ASSUME NEW S PROVE Contract!Cardinality(S) = Cardinality(S)
  BY DEF Contract!Cardinality, Cardinality

LEMMA PhaseMoves ==
    ASSUME NEW e \in Exchange, NEW to, Phase(e)' = to,
           \A u \in Exchange : u # e => Phase(u)' = Phase(u)
    PROVE  phaseBar' = [phaseBar EXCEPT ![e] = to]
  BY DEF phaseBar

\* Without a transaction no exchange is open, with one it alone is.
LEMMA PhaseOfExchange ==
    ASSUME StepKept, ~destroyed, NEW e \in Exchange
    PROVE  /\ Phase(e) = "new" <=> e > sent
           /\ Phase(e) = "open" <=> e = transaction
<1>1. /\ e \in Nat /\ sent \in Nat /\ Latest /\ e # None
      /\ transaction # None => transaction = sent
  BY DEF StepKept, Inv, TypeOK, Exchange, None, Latest
<1>2. CASE e > sent
  BY <1>1, <1>2 DEF Phase
<1>3. CASE ~(e > sent)
  BY <1>1, <1>3 DEF Phase, Latest
<1> QED
  BY <1>2, <1>3

LEMMA ExchangeEnds ==
    ASSUME StepKept, NEW e \in Exchange, e = transaction, NEW how, how # "none",
           outcome' = [outcome EXCEPT ![e] = how], UNCHANGED <<sent, destroyed>>
    PROVE  ContractStep
<1>1. ~destroyed /\ outcome \in [Exchange -> Outcome] /\ e \in Nat /\ sent \in Nat /\ e = sent
  BY DEF StepKept, Inv, TypeOK, Latest, Exchange, None
<1>2. Phase(e) = "open"
  BY <1>1, PhaseOfExchange
<1>3. Phase(e)' = "ended" /\ \A u \in Exchange : u # e => Phase(u)' = Phase(u)
  BY <1>1 DEF Phase
<1>4. phaseBar' = [phaseBar EXCEPT ![e] = "ended"] /\ phaseBar[e] = "open"
  BY <1>2, <1>3, PhaseMoves DEF phaseBar
<1> QED
  BY <1>1, <1>4 DEF ContractStep, Contract!Next, Contract!End, phaseBar

LEMMA ContractNext == StepKept /\ [Next]_vars => ContractStep
<1> SUFFICES ASSUME StepKept, [Next]_vars PROVE ContractStep
  OBVIOUS
<1>a. Inv /\ TypeOK /\ Latest
  BY DEF StepKept, Inv
<1>1. CASE SendRequest
  <2>1. /\ ~destroyed /\ transaction = None /\ sent + 1 \in Exchange /\ sent \in Nat
        /\ sent' = sent + 1 /\ UNCHANGED <<outcome, destroyed>>
    BY <1>1, <1>a DEF SendRequest, TypeOK
  <2>a. PICK e \in Exchange : e = sent + 1
    BY <2>1
  <2>2. Phase(e) = "new" /\ Phase(e)' = "open"
    BY <1>a, <2>1, <2>a DEF Phase, Latest
  <2>3. ASSUME NEW u \in Exchange, u # e PROVE Phase(u)' = Phase(u)
    BY <2>1, <2>a, <2>3 DEF Phase, Exchange
  <2>4. phaseBar' = [phaseBar EXCEPT ![e] = "open"] /\ phaseBar[e] = "new"
    BY <2>2, <2>3, PhaseMoves DEF phaseBar
  <2>5. Contract!Open = {}
    BY <2>1, PhaseOfExchange DEF Contract!Open, Exchange, None
  <2>6. Contract!Cardinality(Contract!Open) < 1
    BY <2>5, FS_EmptySet, SameCardinality
  <2> QED
    <3>1. Contract!Begin(e)
      BY <2>1, <2>4, <2>6 DEF Contract!Begin, phaseBar
    <3> QED
      BY <3>1 DEF ContractStep, Contract!Next
<1>2. CASE HandleTimeout
  <2>1. /\ transaction \in Exchange
        /\ outcome' = [outcome EXCEPT ![transaction] = "timeout"]
        /\ UNCHANGED <<sent, destroyed>>
    BY <1>2, <1>a DEF HandleTimeout, Ends, Inv, TypeOK, ReaderFollowsFrame
  <2> QED
    BY <2>1, ExchangeEnds
<1>3. CASE Destroy
  <2>1. destroyed' = TRUE /\ UNCHANGED <<sent, outcome>>
    BY <1>3 DEF Destroy, history
  <2>2. phaseBar' = phaseBar
    BY <2>1 DEF phaseBar, Phase
  <2> QED
    BY <2>1, <2>2 DEF ContractStep, Contract!Next, Contract!Close, phaseBar
<1>4. ASSUME NEW n \in 1 .. Len(line), DataRejected(n) \/ FrameReceived(n) PROVE ContractStep
  <2>1. /\ transaction \in Exchange /\ UNCHANGED <<sent, destroyed>>
        /\ \E how \in Outcome \ {"none"} : outcome' = [outcome EXCEPT ![transaction] = how]
    <3>1. transaction \in Exchange /\ UNCHANGED <<sent, destroyed>>
      BY <1>4, <1>a DEF DataRejected, FrameReceived, Arrives, TypeOK
    <3>2. Verdict(transaction, reader \o SubSeq(line, 1, n)) \in Outcome \ {"none"}
      BY <3>1, VerdictType
    <3>3. "error" \in Outcome \ {"none"}
      BY DEF Outcome
    <3> QED
      BY <1>4, <3>1, <3>2, <3>3 DEF DataRejected, FrameReceived, Ends
  <2> QED
    BY <2>1, ExchangeEnds
<1>5. CASE \/ \E n \in 1 .. Len(line) : DataIgnored(n) \/ DataCollected(n)
           \/ Remote \/ UNCHANGED vars
  <2>1. UNCHANGED <<sent, outcome, destroyed>>
    BY <1>5 DEF DataIgnored, DataCollected, Arrives, Remote, SlaveAnswers, vars, port, history
  <2>2. phaseBar' = phaseBar
    BY <2>1 DEF phaseBar, Phase
  <2> QED
    BY <2>1, <2>2 DEF ContractStep
<1> QED
  BY <1>1, <1>2, <1>3, <1>4, <1>5 DEF Next, OnData

\* Each step of the transport begins an exchange while none is open, ends the open one
\* for the first and only time, closes, or is none of the contract's business.
THEOREM KeepsContract == Spec => Contract!Safety
<1>1. Init => Contract!Init
  <2> SUFFICES ASSUME Init PROVE phaseBar = [e \in Exchange |-> "new"] /\ destroyed = FALSE
    BY DEF Contract!Init, phaseBar
  <2>1. ASSUME NEW e \in Exchange PROVE Phase(e) = "new"
    BY DEF Init, Phase, Exchange
  <2> QED
    BY <2>1 DEF Init, phaseBar
<1>2. StepKept /\ [Next]_vars => [Contract!Next]_<<phaseBar, destroyed>>
  BY ContractNext DEF ContractStep
<1>3. StepKept /\ [Next]_vars => [Contract!Next]_<<[e \in Exchange |-> Phase(e)], destroyed>>
  BY <1>2 DEF phaseBar
<1> QED
  BY <1>1, <1>3, InitStepKept, NextStepKept, PTL DEF Spec, Contract!Safety

=============================================================================
