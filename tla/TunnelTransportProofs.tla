------------------------ MODULE TunnelTransportProofs ------------------------
(***************************************************************************)
(* Proofs about TunnelTransport, for every number of exchanges, requests   *)
(* and sequence numbers: its types, whose timer is running, that the        *)
(* sequence numbers keep the answers apart, and that it keeps the contract *)
(* of a transport.                                                         *)
(***************************************************************************)
EXTENDS TunnelTransport, FiniteSetTheorems, TLAPS

\* The number after this one is another one.
LEMMA NextSequence ==
    ASSUME NEW s \in Sequence
    PROVE  (s + 1) % SeqLimit \in Sequence /\ (s + 1) % SeqLimit # s
<1>1. CASE s + 1 < SeqLimit
  <2>1. (s + 1) % SeqLimit = s + 1
    BY <1>1, SequenceAssumption DEF Sequence
  <2> QED
    BY <1>1, <2>1, SequenceAssumption DEF Sequence
<1>2. CASE s + 1 = SeqLimit
  <2>1. (s + 1) % SeqLimit = 0
    BY <1>2, SequenceAssumption
  <2> QED
    BY <1>2, <2>1, SequenceAssumption DEF Sequence
<1> QED
  BY <1>1, <1>2, SequenceAssumption DEF Sequence

\* Exchanges are numbered as they are sent, and the one that waits is younger.
OpenIsSent ==
    /\ transaction \in 0 .. sent /\ nextTransaction \in 0 .. sent
    /\ timeout \in {None, transaction}

\* What the poll in the reader says is what the bus master says.
PollIsCurrent ==
    reader # <<>> /\ reader[1] # Garbage =>
        reader[1] = [seq |-> busSequence, answer |-> busAnswer]

\* An answer under the number of the transport is the current exchange's, or an
\* exchange has timed out under this number.
AnswerFits ==
    ~destroyed /\ busSequence = sequence /\ busAnswer # NoRequest =>
        unsettled \/ (transaction # None /\ owner[transaction] = busAnswer)

\* Nothing is left to handle after destroy.
DestroyedIsQuiet == destroyed => ~eofTimer

Inv ==
    /\ TypeOK /\ TimerGuardsCurrent /\ OpenIsSent
    /\ PollIsCurrent /\ AnswerFits /\ DestroyedIsQuiet /\ OwnAnswer

LEMMA InitInv == Init => Inv
<1> SUFFICES ASSUME Init PROVE Inv
  OBVIOUS
<1> USE DEF Init, None
<1>1. 0 \in Sequence /\ 0 \in 0 .. MaxExchanges
  BY SequenceAssumption, BoundAssumption DEF Sequence
<1>2. outcome \in [Exchange -> Outcome] /\ owner \in [Exchange -> Request \cup {NoRequest}]
  BY DEF Outcome
<1>3. TypeOK
  BY <1>1, <1>2 DEF TypeOK
<1> QED
  BY <1>1, <1>3 DEF Inv, TimerGuardsCurrent, OpenIsSent, PollIsCurrent, AnswerFits,
                 DestroyedIsQuiet, OwnAnswer

----------------------------------------------------------------------------
\* A poll from the bus master, one disjunct of HandleFrameData.

LEMMA SlaveCommandInv ==
    ASSUME Inv, HandleFrameData, reader[1] # Garbage
    PROVE  Inv'
<1> DEFINE p == reader[1]
           inSequence == p.seq = sequence
           closes == inSequence /\ transaction # None /\ p.answer # NoRequest
           now == AfterPoll(inSequence, p)
           replying == IF ~closes THEN Current
                       ELSE IF nextTransaction = None THEN NoRequest ELSE owner[nextTransaction]
           number == FrameSequence(replying, now)
<1> USE DEF None
<1>1. /\ eofTimer /\ eofTimer' = FALSE /\ reader' = <<>>
      /\ UNCHANGED <<destroyed, sent, owner>>
      /\ HandleSlaveCommand(p)
  BY DEF HandleFrameData
<1>alive. ~destroyed /\ reader # <<>>
  BY <1>1 DEF Inv, DestroyedIsQuiet, TimerGuardsCurrent
<1>2. /\ sequence' = now
      /\ unsettled' = (unsettled /\ ~inSequence)
      /\ adu' = IF replying = NoRequest THEN adu ELSE [adu EXCEPT ![replying] = number]
      /\ BusReceives(number, replying)
  BY <1>1 DEF HandleSlaveCommand
<1>3. p \in PollFrame /\ p.seq = busSequence /\ p.answer = busAnswer
  <2>1. p \in PollFrame
    BY <1>alive DEF Inv, TypeOK
  <2> QED
    BY <1>alive, <2>1 DEF Inv, PollIsCurrent
<1>4. now \in Sequence /\ (inSequence => now # sequence) /\ (~inSequence => now = sequence)
  BY NextSequence DEF AfterPoll, Inv, TypeOK
<1>5. replying \in Request \cup {NoRequest}
  BY DEF Current, Inv, TypeOK
<1>6. number \in Sequence
  BY <1>4, <1>5 DEF FrameSequence, Inv, TypeOK
<1>7. /\ busSequence' \in Sequence /\ busAnswer' \in Request \cup {NoRequest}
      /\ \/ busSequence' = busSequence /\ busAnswer' = busAnswer
         \/ busAnswer' \in {NoRequest, replying}
  BY <1>2, <1>5, <1>6 DEF BusReceives, bus, Inv, TypeOK
<1>8. adu' \in [Request -> Sequence \cup {Unframed}]
  BY <1>2, <1>5, <1>6 DEF Inv, TypeOK
<1>9. /\ transaction' = IF closes THEN nextTransaction ELSE transaction
      /\ nextTransaction' = IF closes THEN None ELSE nextTransaction
      /\ timeout' = IF closes THEN nextTransaction ELSE timeout
  BY <1>1 DEF HandleSlaveCommand, Advance
<1>10. /\ outcome' \in [Exchange -> Outcome]
       /\ late' \in SUBSET Exchange
       /\ OwnAnswer'
  <2>1. CASE ~closes
    BY <1>1, <2>1 DEF HandleSlaveCommand, Inv, TypeOK, OwnAnswer
  <2>2. CASE closes
    <3>1. PICK how \in IF p.answer = Current THEN {"response"} ELSE {"foreign", "error"} :
              outcome' = [outcome EXCEPT ![transaction] = how]
      BY <1>1, <2>2 DEF HandleSlaveCommand
    <3>2. late' = IF unsettled THEN late \cup {transaction} ELSE late
      BY <1>1, <2>2 DEF HandleSlaveCommand
    <3>3. transaction \in Exchange
      BY <2>2 DEF Inv, TypeOK
    <3>4. ~unsettled => p.answer = Current
      BY <1>alive, <1>3, <2>2 DEF Inv, AnswerFits, Current
    <3>5. how \in Outcome /\ (~unsettled => how = "response")
      BY <3>1, <3>4 DEF Outcome
    <3> QED
      BY <3>1, <3>2, <3>3, <3>5 DEF Inv, TypeOK, OwnAnswer
  <2> QED
    BY <2>1, <2>2
<1>11. unsettled' \in BOOLEAN
  BY <1>2, <1>6
<1>12. TypeOK'
  BY <1>1, <1>2, <1>4, <1>7, <1>8, <1>9, <1>10, <1>11 DEF Inv, TypeOK
<1>13. TimerGuardsCurrent' /\ OpenIsSent' /\ PollIsCurrent' /\ DestroyedIsQuiet'
  BY <1>1, <1>9 DEF Inv, TypeOK, TimerGuardsCurrent, OpenIsSent, PollIsCurrent, DestroyedIsQuiet
<1>14. replying # NoRequest => transaction' # None /\ owner'[transaction'] = replying
  BY <1>1, <1>9 DEF Current
<1>15. AnswerFits'
  <2>1. CASE busAnswer' \in {NoRequest, replying}
    BY <1>14, <2>1 DEF AnswerFits
  <2>2. CASE inSequence /\ busSequence' = busSequence
    BY <1>2, <1>3, <1>4, <2>2 DEF AnswerFits
  <2>3. CASE ~inSequence /\ busSequence' = busSequence
    BY <1>2, <1>3, <1>4, <2>3 DEF AnswerFits
  <2> QED
    BY <1>7, <2>1, <2>2, <2>3
<1> QED
  BY <1>10, <1>12, <1>13, <1>15 DEF Inv

----------------------------------------------------------------------------
LEMMA StepInv == Inv /\ [Next]_vars => Inv'
<1> SUFFICES ASSUME Inv, [Next]_vars PROVE Inv'
  OBVIOUS
<1> USE DEF None
<1>1. ASSUME NEW r \in Request, SendRequest(r) PROVE Inv'
  <2> DEFINE e == sent + 1
  <2>1. /\ e \in Exchange /\ e \notin 0 .. sent /\ sent' = e /\ nextTransaction = None
        /\ owner' = [owner EXCEPT ![e] = r]
        /\ UNCHANGED <<sequence, reader, eofTimer, adu, destroyed, bus,
                       outcome, unsettled, late>>
    BY <1>1 DEF SendRequest, Inv, TypeOK
  <2>2. sent' \in 0 .. MaxExchanges /\ sent \in 0 .. sent' /\ e \in 0 .. sent'
    BY <2>1, BoundAssumption DEF Exchange, Inv, TypeOK
  <2>3. transaction \in 0 .. sent' /\ nextTransaction \in 0 .. sent' /\ 0 \in 0 .. sent'
    BY <2>1, <2>2 DEF Inv, TypeOK, OpenIsSent
  <2>4. /\ transaction' = IF transaction = None THEN e ELSE transaction
        /\ timeout' = IF transaction = None THEN e ELSE timeout
        /\ nextTransaction' = IF transaction = None THEN nextTransaction ELSE e
    BY <1>1 DEF SendRequest
  <2>5. TypeOK'
    BY <2>1, <2>2, <2>4 DEF Inv, TypeOK, bus
  <2>6. OpenIsSent'
    BY <2>1, <2>2, <2>4, <2>3 DEF Inv, OpenIsSent
  <2>7. TimerGuardsCurrent' /\ DestroyedIsQuiet'
    BY <2>1, <2>4 DEF Inv, TimerGuardsCurrent, OpenIsSent, DestroyedIsQuiet
  <2>8. transaction # None => owner'[transaction'] = owner[transaction]
    BY <2>1, <2>4 DEF Inv, TypeOK, OpenIsSent
  <2>9. PollIsCurrent' /\ AnswerFits' /\ OwnAnswer'
    BY <2>1, <2>4, <2>8 DEF Inv, PollIsCurrent, AnswerFits, OwnAnswer, bus
  <2> QED
    BY <2>5, <2>6, <2>9, <2>7 DEF Inv
<1>2. CASE HandleTimeout
  <2>1. timeout \in Exchange /\ outcome' \in [Exchange -> Outcome]
    BY <1>2 DEF HandleTimeout, Inv, TypeOK, Outcome
  <2>2. TypeOK'
    BY <1>2, <2>1 DEF HandleTimeout, Advance, bus, Inv, TypeOK
  <2>3. TimerGuardsCurrent' /\ OpenIsSent' /\ PollIsCurrent' /\ DestroyedIsQuiet'
    BY <1>2 DEF HandleTimeout, Advance, Inv, TypeOK, TimerGuardsCurrent, OpenIsSent,
                PollIsCurrent, DestroyedIsQuiet
  <2>4. AnswerFits' /\ OwnAnswer'
    BY <1>2, <2>1 DEF HandleTimeout, bus, Inv, TypeOK, AnswerFits, OwnAnswer
  <2> QED
    BY <2>2, <2>3, <2>4 DEF Inv
<1>3. ASSUME NEW frame \in PollFrame \cup {Garbage}, Arrives(frame),
             frame = Garbage \/ frame = [seq |-> busSequence, answer |-> busAnswer]
      PROVE  Inv'
  <2>1. /\ reader' = <<frame>> \/ reader' = <<Garbage>>
        /\ eofTimer' = TRUE
        /\ UNCHANGED <<transaction, nextTransaction, sequence, timeout, adu, destroyed, bus,
                       sent, owner, outcome, unsettled, late>>
    BY <1>3 DEF Arrives
  <2>2. reader' \in {<<>>} \cup {<<f>> : f \in PollFrame \cup {Garbage}}
    BY <2>1
  <2>3. reader' # <<>> /\ (reader'[1] = frame \/ reader'[1] = Garbage)
    BY <2>1
  <2>4. TypeOK'
    BY <2>1, <2>2 DEF Inv, TypeOK, bus
  <2>5. TimerGuardsCurrent' /\ OpenIsSent' /\ PollIsCurrent' /\ AnswerFits' /\ OwnAnswer'
    BY <1>3, <2>1, <2>3 DEF Inv, TimerGuardsCurrent, OpenIsSent, PollIsCurrent, AnswerFits,
                       OwnAnswer, bus
  <2>6. DestroyedIsQuiet'
    BY <1>3, <2>1 DEF Arrives, DestroyedIsQuiet
  <2> QED
    BY <2>4, <2>5, <2>6 DEF Inv
<1>4. CASE Poll
  <2>1. [seq |-> busSequence, answer |-> busAnswer] \in PollFrame
    BY DEF PollFrame, Inv, TypeOK
  <2> QED
    BY <1>3, <1>4, <2>1 DEF Poll
<1>5. CASE Noise
  BY <1>3, <1>5 DEF Noise
<1>6. CASE HandleFrameData
  <2>1. CASE reader[1] # Garbage
    BY <1>6, <2>1, SlaveCommandInv
  <2>2. CASE reader[1] = Garbage
    <3>1. /\ eofTimer' = FALSE /\ reader' = <<>>
          /\ UNCHANGED <<transaction, nextTransaction, sequence, timeout, adu, destroyed, bus,
                         sent, owner, outcome, unsettled, late>>
      BY <1>6, <2>2 DEF HandleFrameData
    <3>2. TypeOK'
      BY <3>1 DEF bus, Inv, TypeOK
    <3>3. TimerGuardsCurrent' /\ OpenIsSent' /\ PollIsCurrent' /\ DestroyedIsQuiet'
      BY <3>1 DEF Inv, TypeOK, TimerGuardsCurrent, OpenIsSent, PollIsCurrent, DestroyedIsQuiet
    <3>4. AnswerFits' /\ OwnAnswer'
      BY <3>1 DEF bus, Inv, AnswerFits, OwnAnswer
    <3> QED
      BY <3>2, <3>3, <3>4 DEF Inv
  <2> QED
    BY <2>1, <2>2
<1>7. CASE Destroy
  <2>1. /\ destroyed' = TRUE /\ eofTimer' = FALSE
        /\ transaction' = None /\ nextTransaction' = None /\ timeout' = None
        /\ UNCHANGED <<sequence, reader, adu, bus, sent, owner, outcome, unsettled, late>>
    BY <1>7 DEF Destroy
  <2>2. TypeOK'
    BY <2>1 DEF bus, Inv, TypeOK
  <2>3. OpenIsSent'
    BY <2>1 DEF Inv, TypeOK, OpenIsSent
  <2>4. TimerGuardsCurrent' /\ DestroyedIsQuiet' /\ AnswerFits'
    BY <2>1 DEF TimerGuardsCurrent, DestroyedIsQuiet, AnswerFits
  <2>5. PollIsCurrent' /\ OwnAnswer'
    BY <2>1 DEF bus, Inv, PollIsCurrent, OwnAnswer
  <2> QED
    BY <2>2, <2>3, <2>4, <2>5 DEF Inv
<1>8. CASE UNCHANGED vars
  BY <1>8
  DEF vars, port, bus, Inv, TypeOK, TimerGuardsCurrent, OpenIsSent, PollIsCurrent,
      AnswerFits, DestroyedIsQuiet, OwnAnswer
<1> QED
  BY <1>1, <1>2, <1>4, <1>5, <1>6, <1>7, <1>8 DEF Next

\* Every variable of the transport keeps its type.
THEOREM TypeCorrect == Spec => []TypeOK
<1>1. Inv => TypeOK
  BY DEF Inv
<1> QED
  BY <1>1, InitInv, StepInv, PTL DEF Spec

\* The current exchange, and no other, has its response timer, and an exchange
\* waits only behind another one: none is left without anything to end it.
THEOREM TimerGuards == Spec => []TimerGuardsCurrent
<1>1. Inv => TimerGuardsCurrent
  BY DEF Inv
<1> QED
  BY <1>1, InitInv, StepInv, PTL DEF Spec

\* No exchange is given the answer to another request, unless one timed out and
\* the sequence number had not advanced since: whatever the bus loses or repeats.
THEOREM AnswersKeptApart == Spec => []OwnAnswer
<1>1. Inv => OwnAnswer
  BY DEF Inv
<1> QED
  BY <1>1, InitInv, StepInv, PTL DEF Spec

----------------------------------------------------------------------------
\* The contract

\* The exchanges without an outcome are the current one, the one that waits, and
\* those that were not sent yet.
OpenKept ==
    \A e \in Exchange :
        /\ e > sent => outcome[e] = "none"
        /\ ~destroyed /\ e <= sent =>
              (outcome[e] = "none" <=> e \in {transaction, nextTransaction})

\* Destroy forgets the exchanges.
Gone == destroyed => transaction = None /\ nextTransaction = None

KeptInv == Inv /\ OpenKept /\ Gone

LEMMA InitKept == Init => KeptInv
<1>1. Init => OpenKept /\ Gone
  BY DEF Init, OpenKept, Gone, Exchange, None
<1> QED
  BY <1>1, InitInv DEF KeptInv

\* An exchange that ends, and the one that waits taking its place.
LEMMA AdvanceKept ==
    ASSUME KeptInv, transaction # None, NEW how, how # "none",
           outcome' = [outcome EXCEPT ![transaction] = how],
           Advance, UNCHANGED <<sent, destroyed>>
    PROVE  OpenKept'
<1>1. /\ transaction \in Exchange /\ outcome \in [Exchange -> Outcome]
      /\ transaction # nextTransaction /\ transaction \in 0 .. sent /\ sent \in Nat
  BY DEF KeptInv, Inv, TypeOK, TimerGuardsCurrent, OpenIsSent, None
<1> SUFFICES ASSUME NEW e \in Exchange
             PROVE  /\ e > sent' => outcome'[e] = "none"
                    /\ ~destroyed' /\ e <= sent' =>
                          (outcome'[e] = "none" <=> e \in {transaction', nextTransaction'})
  BY DEF OpenKept
<1>2. e # None /\ e \in Nat
  BY DEF Exchange, None
<1>3. CASE e = transaction
  <2>1. outcome'[e] = how /\ ~(e > sent)
    BY <1>1, <1>2, <1>3
  <2> QED
    BY <1>1, <1>2, <1>3, <2>1 DEF Advance
<1>4. CASE e # transaction
  BY <1>1, <1>2, <1>4 DEF Advance, KeptInv, OpenKept
<1> QED
  BY <1>3, <1>4

LEMMA NextKept == KeptInv /\ [Next]_vars => KeptInv'
<1> SUFFICES ASSUME KeptInv, [Next]_vars PROVE OpenKept'
  <2>1. ASSUME KeptInv, [Next]_vars PROVE Gone'
    BY <2>1 DEF KeptInv, Inv, TypeOK, TimerGuardsCurrent, DestroyedIsQuiet, Gone, Next, Destroy,
                Poll, Noise, Arrives, HandleFrameData, HandleTimeout, SendRequest, vars, port, None
  <2> QED
    BY <2>1, StepInv DEF KeptInv
<1>a. Inv /\ TypeOK
  BY DEF KeptInv, Inv
<1>1. ASSUME NEW r \in Request, SendRequest(r) PROVE OpenKept'
  <2>1. /\ sent + 1 \in Exchange /\ sent' = sent + 1 /\ sent \in Nat /\ nextTransaction = None
        /\ UNCHANGED <<outcome, destroyed>>
        /\ IF transaction = None THEN transaction' = sent' /\ nextTransaction' = None
                                 ELSE transaction' = transaction /\ nextTransaction' = sent'
    BY <1>1, <1>a DEF SendRequest, TypeOK
  <2>3. ASSUME NEW e \in Exchange
        PROVE  /\ e # None /\ e \in Nat
               /\ e \in {transaction', nextTransaction'} <=>
                     e = sent' \/ e \in {transaction, nextTransaction}
    BY <2>1 DEF Exchange, None
  <2>4. ASSUME NEW e \in Exchange
        PROVE  /\ e > sent' => outcome[e] = "none"
               /\ ~destroyed /\ e <= sent' =>
                     (outcome[e] = "none" <=> e = sent' \/ e \in {transaction, nextTransaction})
    <3>1. e \in Nat /\ e # None
      BY <2>3
    <3>2. e > sent => outcome[e] = "none"
      BY DEF KeptInv, OpenKept
    <3>3. ~destroyed /\ e <= sent =>
              (outcome[e] = "none" <=> e \in {transaction, nextTransaction})
      BY DEF KeptInv, OpenKept
    <3>4. e > sent' => e > sent
      BY <2>1, <3>1
    <3>5. e <= sent' => e <= sent \/ (e = sent' /\ e > sent)
      BY <2>1, <3>1
    <3>6. e <= sent => e # sent'
      BY <2>1, <3>1
    <3> QED
      BY <3>2, <3>3, <3>4, <3>5, <3>6
  <2> QED
    BY <2>1, <2>3, <2>4 DEF OpenKept
<1>2. CASE HandleTimeout
  <2>1. /\ timeout = transaction /\ transaction # None
        /\ outcome' = [outcome EXCEPT ![transaction] = "timeout"]
        /\ Advance /\ UNCHANGED <<sent, destroyed>>
    BY <1>2, <1>a DEF HandleTimeout, Inv, TimerGuardsCurrent
  <2> QED
    BY <2>1, AdvanceKept
<1>3. CASE HandleFrameData
  <2>1. CASE reader[1] = Garbage
    <3>1. UNCHANGED <<transaction, nextTransaction, sent, outcome, destroyed>>
      BY <1>3, <2>1 DEF HandleFrameData
    <3> QED
      BY <3>1 DEF KeptInv, OpenKept
  <2>2. CASE reader[1] # Garbage
    <3>1. HandleSlaveCommand(reader[1]) /\ UNCHANGED <<sent, destroyed>>
      BY <1>3, <2>2 DEF HandleFrameData
    <3> DEFINE p == reader[1]
               closes == p.seq = sequence /\ transaction # None /\ p.answer # NoRequest
    <3>2. CASE closes
      <4>1. PICK how \in {"response", "foreign", "error"} :
                outcome' = [outcome EXCEPT ![transaction] = how]
        BY <3>1, <3>2 DEF HandleSlaveCommand
      <4>2. how # "none" /\ Advance /\ transaction # None
        BY <3>1, <3>2 DEF HandleSlaveCommand
      <4> QED
        BY <3>1, <4>1, <4>2, AdvanceKept
    <3>3. CASE ~closes
      <4>1. UNCHANGED <<transaction, nextTransaction, outcome>>
        BY <3>1, <3>3 DEF HandleSlaveCommand
      <4> QED
        BY <3>1, <4>1 DEF KeptInv, OpenKept
    <3> QED
      BY <3>2, <3>3
  <2> QED
    BY <2>1, <2>2
<1>4. CASE Destroy
  BY <1>4 DEF Destroy, KeptInv, OpenKept
<1>5. CASE Poll \/ Noise \/ UNCHANGED vars
  <2>1. UNCHANGED <<transaction, nextTransaction, sent, outcome, destroyed>>
    BY <1>5 DEF Poll, Noise, Arrives, vars, port
  <2> QED
    BY <2>1 DEF KeptInv, OpenKept
<1> QED
  BY <1>1, <1>2, <1>3, <1>4, <1>5 DEF Next

phaseBar == [e \in Exchange |-> Phase(e)]
ContractStep == Contract!Next \/ (phaseBar' = phaseBar /\ destroyed' = destroyed)

\* The contract counts with a Cardinality of its own instance, which is the same one.
LEMMA SameCardinality == ASSUME NEW S PROVE Contract!Cardinality(S) = Cardinality(S)
  BY DEF Contract!Cardinality, Cardinality

LEMMA PhaseMoves ==
    ASSUME NEW e \in Exchange, NEW to, Phase(e)' = to,
           \A u \in Exchange : u # e => Phase(u)' = Phase(u)
    PROVE  phaseBar' = [phaseBar EXCEPT ![e] = to]
  BY DEF phaseBar

\* The current exchange and the one that waits are the open ones.
LEMMA PhaseOfExchange ==
    ASSUME KeptInv, ~destroyed, NEW e \in Exchange
    PROVE  /\ Phase(e) = "new" <=> e > sent
           /\ Phase(e) = "open" <=> e \in {transaction, nextTransaction}
<1>1. /\ e \in Nat /\ sent \in Nat /\ e # None
      /\ transaction \in 0 .. sent /\ nextTransaction \in 0 .. sent
  BY DEF KeptInv, Inv, TypeOK, OpenIsSent, Exchange, None
<1>2. CASE e > sent
  BY <1>1, <1>2 DEF Phase
<1>3. CASE ~(e > sent)
  <2>1. e <= sent
    BY <1>1, <1>3
  <2>2. outcome[e] = "none" <=> e \in {transaction, nextTransaction}
    BY <2>1 DEF KeptInv, OpenKept
  <2> QED
    BY <1>3, <2>2 DEF Phase
<1> QED
  BY <1>2, <1>3

LEMMA ExchangeEnds ==
    ASSUME KeptInv, ~destroyed, NEW e \in Exchange, e = transaction, NEW how, how # "none",
           outcome' = [outcome EXCEPT ![e] = how], UNCHANGED <<sent, destroyed>>
    PROVE  ContractStep
<1>1. outcome \in [Exchange -> Outcome] /\ e \in Nat /\ sent \in Nat /\ e \in 0 .. sent
  BY DEF KeptInv, Inv, TypeOK, OpenIsSent, Exchange
<1>2. Phase(e) = "open"
  BY PhaseOfExchange
<1>3. Phase(e)' = "ended" /\ \A u \in Exchange : u # e => Phase(u)' = Phase(u)
  BY <1>1 DEF Phase
<1>4. phaseBar' = [phaseBar EXCEPT ![e] = "ended"] /\ phaseBar[e] = "open"
  BY <1>2, <1>3, PhaseMoves DEF phaseBar
<1> QED
  BY <1>4 DEF ContractStep, Contract!Next, Contract!End, phaseBar

LEMMA ContractNext == KeptInv /\ [Next]_vars => ContractStep
<1> SUFFICES ASSUME KeptInv, [Next]_vars PROVE ContractStep
  OBVIOUS
<1>a. Inv /\ TypeOK
  BY DEF KeptInv, Inv
<1>1. ASSUME NEW r \in Request, SendRequest(r) PROVE ContractStep
  <2>1. /\ ~destroyed /\ nextTransaction = None /\ sent + 1 \in Exchange /\ sent \in Nat
        /\ sent' = sent + 1 /\ UNCHANGED <<outcome, destroyed>>
    BY <1>1, <1>a DEF SendRequest, TypeOK
  <2>a. PICK e \in Exchange : e = sent + 1
    BY <2>1
  <2>b. e > sent /\ ~(e > sent') /\ outcome[e] = "none"
    BY <2>1, <2>a DEF KeptInv, OpenKept
  <2>2. Phase(e) = "new" /\ Phase(e)' = "open"
    BY <2>1, <2>b DEF Phase
  <2>3. ASSUME NEW u \in Exchange, u # e PROVE Phase(u)' = Phase(u)
    BY <2>1, <2>a, <2>3 DEF Phase, Exchange
  <2>4. phaseBar' = [phaseBar EXCEPT ![e] = "open"] /\ phaseBar[e] = "new"
    BY <2>2, <2>3, PhaseMoves DEF phaseBar
  <2>5. Contract!Open \subseteq {transaction}
    <3> SUFFICES ASSUME NEW u \in Contract!Open PROVE u = transaction
      OBVIOUS
    <3>1. u \in Exchange /\ Phase(u) = "open" /\ u # None
      BY DEF Contract!Open, Exchange, None
    <3> QED
      BY <2>1, <3>1, PhaseOfExchange
  <2>6. IsFiniteSet({transaction}) /\ Cardinality({transaction}) = 1
    BY FS_Singleton
  <2>7. Cardinality(Contract!Open) \in Nat /\ Cardinality(Contract!Open) <= 1
    BY <2>5, <2>6, FS_Subset, FS_CardinalityType
  <2>8. Contract!Cardinality(Contract!Open) < 2
    BY <2>7, SameCardinality
  <2> QED
    <3>1. Contract!Begin(e)
      BY <2>1, <2>4, <2>8 DEF Contract!Begin, phaseBar
    <3> QED
      BY <3>1 DEF ContractStep, Contract!Next
<1>2. CASE HandleTimeout
  <2>1. /\ timeout = transaction /\ transaction # None
        /\ outcome' = [outcome EXCEPT ![transaction] = "timeout"]
        /\ UNCHANGED <<sent, destroyed>>
    BY <1>2, <1>a DEF HandleTimeout, Inv, TimerGuardsCurrent
  <2>2. transaction \in Exchange /\ ~destroyed
    BY <1>a, <2>1 DEF TypeOK, KeptInv, Gone
  <2> QED
    BY <2>1, <2>2, ExchangeEnds
<1>3. CASE HandleFrameData
  <2>1. CASE reader[1] # Garbage /\ reader[1].seq = sequence
             /\ transaction # None /\ reader[1].answer # NoRequest
    <3>1. HandleSlaveCommand(reader[1]) /\ eofTimer /\ UNCHANGED <<sent, destroyed>>
      BY <1>3, <2>1 DEF HandleFrameData
    <3>2. PICK how \in {"response", "foreign", "error"} :
              outcome' = [outcome EXCEPT ![transaction] = how]
      BY <2>1, <3>1 DEF HandleSlaveCommand
    <3>3. transaction \in Exchange /\ ~destroyed /\ how # "none"
      BY <1>a, <2>1, <3>1 DEF TypeOK, Inv, DestroyedIsQuiet
    <3> QED
      BY <3>1, <3>2, <3>3, ExchangeEnds
  <2>2. CASE ~(reader[1] # Garbage /\ reader[1].seq = sequence
               /\ transaction # None /\ reader[1].answer # NoRequest)
    <3>1. UNCHANGED <<sent, outcome, destroyed>>
      BY <1>3, <2>2 DEF HandleFrameData, HandleSlaveCommand
    <3>2. phaseBar' = phaseBar
      BY <3>1 DEF phaseBar, Phase
    <3> QED
      BY <3>1, <3>2 DEF ContractStep
  <2> QED
    BY <2>1, <2>2
<1>4. CASE Destroy
  <2>1. destroyed' = TRUE /\ UNCHANGED <<sent, outcome>>
    BY <1>4 DEF Destroy
  <2>2. phaseBar' = phaseBar
    BY <2>1 DEF phaseBar, Phase
  <2> QED
    BY <2>1, <2>2 DEF ContractStep, Contract!Next, Contract!Close, phaseBar
<1>5. CASE Poll \/ Noise \/ UNCHANGED vars
  <2>1. UNCHANGED <<sent, outcome, destroyed>>
    BY <1>5 DEF Poll, Noise, Arrives, vars
  <2>2. phaseBar' = phaseBar
    BY <2>1 DEF phaseBar, Phase
  <2> QED
    BY <2>1, <2>2 DEF ContractStep
<1> QED
  BY <1>1, <1>2, <1>3, <1>4, <1>5 DEF Next

\* Each step of the transport begins an exchange while fewer than two are open, ends an
\* open one for the first and only time, closes, or is none of the contract's business.
THEOREM KeepsContract == Spec => Contract!Safety
<1>1. Init => Contract!Init
  <2> SUFFICES ASSUME Init PROVE phaseBar = [e \in Exchange |-> "new"] /\ destroyed = FALSE
    BY DEF Contract!Init, phaseBar
  <2>1. ASSUME NEW e \in Exchange PROVE Phase(e) = "new"
    BY DEF Init, Phase, Exchange
  <2> QED
    BY <2>1 DEF Init, phaseBar
<1>2. KeptInv /\ [Next]_vars => [Contract!Next]_<<phaseBar, destroyed>>
  BY ContractNext DEF ContractStep
<1>3. KeptInv /\ [Next]_vars => [Contract!Next]_<<[e \in Exchange |-> Phase(e)], destroyed>>
  BY <1>2 DEF phaseBar
<1> QED
  BY <1>1, <1>3, InitKept, NextKept, PTL DEF Spec, Contract!Safety

=============================================================================
