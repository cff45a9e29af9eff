---------------------------- MODULE MasterProofs ----------------------------
(***************************************************************************)
(* Theorems about Master, for every set of transactions and exchanges and  *)
(* every value of the options.                                             *)
(***************************************************************************)
EXTENDS Master, FiniteSetTheorems, SequenceTheorems, TLAPS

----------------------------------------------------------------------------
\* What the helpers return.

LEMMA NextFailuresType ==
    ASSUME TypeOK, NEW t \in Txn, NEW outcome
    PROVE  NextFailures(t, outcome) \in Nat
  BY RetriesAssumption DEF NextFailures, TypeOK, TypeExchanges

LEMMA StopTimeoutType ==
    ASSUME TypeOK, NEW tm \in [Slot -> Txn \cup {None}], NEW t \in Txn
    PROVE  StopTimeout(tm, t) \in [Slot -> Txn \cup {None}]
  BY DEF StopTimeout, TypeOK, TypeExchanges

LEMMA SettleType ==
    ASSUME TypeOK, NEW t \in Txn, NEW outcome \in Outcome, NEW counted \in BOOLEAN,
           Settle(t, outcome, counted, timer)
    PROVE  /\ timer' \in [Slot -> Txn \cup {None}]
           /\ handle' \in [Txn -> Slot \cup {None}]
           /\ failures' \in [Txn -> Nat]
           /\ ticks' \in Seq([txn : Txn, outcome : Outcome, counted : BOOLEAN])
  <1>1. StopTimeout(timer, t) \in [Slot -> Txn \cup {None}]
    BY StopTimeoutType DEF TypeOK, TypeExchanges
  <1>2. NextFailures(t, outcome) \in Nat
    BY NextFailuresType
  <1>3. Tick(t, outcome, counted) \in [txn : Txn, outcome : Outcome, counted : BOOLEAN]
    BY DEF Tick
  <1> QED BY <1>1, <1>2, <1>3 DEF Settle, TypeOK, TypeExchanges

LEMMA NextQueueType ==
    ASSUME TypeOK, NEW t \in Txn, NEW outcome
    PROVE  NextQueue(t, outcome) \in Seq(Txn)
  <1>1. queue \in Seq(Txn) /\ <<t>> \in Seq(Txn)
    BY DEF TypeOK, TypeRequests
  <1>2. <<t>> \o queue \in Seq(Txn) /\ Append(queue, t) \in Seq(Txn)
    BY <1>1
  <1> QED BY <1>1, <1>2 DEF NextQueue

\* The first element and the rest of the two sequences that are consumed.
LEMMA HeadsType ==
    ASSUME TypeOK
    PROVE  /\ queue # <<>> => Head(queue) \in Txn /\ Tail(queue) \in Seq(Txn)
           /\ ticks # <<>> => /\ Head(ticks).txn \in Txn
                              /\ Tail(ticks) \in Seq([txn : Txn, outcome : Outcome, counted : BOOLEAN])
  <1>1. ASSUME queue # <<>> PROVE Head(queue) \in Txn /\ Tail(queue) \in Seq(Txn)
    BY <1>1, HeadTailProperties DEF TypeOK, TypeRequests
  <1>2. ASSUME ticks # <<>>
        PROVE  /\ Head(ticks) \in [txn : Txn, outcome : Outcome, counted : BOOLEAN]
               /\ Tail(ticks) \in Seq([txn : Txn, outcome : Outcome, counted : BOOLEAN])
    BY <1>2, HeadTailProperties DEF TypeOK, TypeExchanges
  <1> QED BY <1>1, <1>2

----------------------------------------------------------------------------
\* Type correctness: every step leaves every variable in its type.

LEMMA InitType == Init => TypeOK
  <1> SUFFICES ASSUME Init PROVE TypeOK
    OBVIOUS
  <1>1. TypeRequests
    <2>1. queue \in Seq(Txn) /\ repeatables \in Seq(Txn)
      BY EmptySeq DEF Init
    <2>2. executing \in Int
      BY DEF Init
    <2>3. looping \in BOOLEAN /\ issued \in SUBSET Txn /\ cancelled \in SUBSET Txn
      BY DEF Init
    <2> QED BY <2>1, <2>2, <2>3 DEF TypeRequests
  <1>2. TypeExchanges
    BY EmptySeq DEF Init, TypeExchanges
  <1>3. TypeLink /\ TypeShutdown /\ TypeHistory
    BY DEF Init, TypeLink, TypeShutdown, TypeHistory
  <1> QED BY <1>1, <1>2, <1>3 DEF TypeOK

LEMMA ApplicationType == TypeOK /\ Application => TypeOK'
  <1> SUFFICES ASSUME TypeOK, Application PROVE TypeOK'
    OBVIOUS
  <1>1. ASSUME NEW t \in Txn, Execute(t) PROVE TypeOK'
    <2>1. TypeRequests'
      BY <1>1 DEF Execute, WithRepeatable, TypeOK, TypeRequests
    <2>2. UNCHANGED <<exchanges, link, shutdown, history>>
      BY <1>1 DEF Execute
    <2>3. TypeExchanges' /\ TypeLink' /\ TypeShutdown' /\ TypeHistory'
      BY <2>2 DEF TypeOK, TypeExchanges, TypeLink, TypeShutdown, TypeHistory,
                  exchanges, link, shutdown, history
    <2> QED BY <2>1, <2>3 DEF TypeOK
  <1>2. ASSUME NEW t \in Txn, Cancel(t) PROVE TypeOK'
    <2>1. repeatables' \in Seq(Txn)
      <3>1. ASSUME NEW i \in DOMAIN repeatables PROVE RemoveAt(repeatables, i) \in Seq(Txn)
        BY <3>1 DEF RemoveAt, TypeOK, TypeRequests
      <3> QED BY <1>2, <3>1 DEF Cancel, TypeOK, TypeRequests
    <2>2. TypeRequests'
      BY <1>2, <2>1 DEF Cancel, TypeOK, TypeRequests
    <2>3. TypeExchanges' /\ TypeLink' /\ TypeShutdown' /\ TypeHistory'
      BY <1>2 DEF Cancel, TypeOK, TypeExchanges, TypeLink, TypeShutdown, TypeHistory,
                  exchanges, link, shutdown, history
    <2> QED BY <2>2, <2>3 DEF TypeOK
  <1>3. CASE Destroy
    <2> DEFINE Reached == ToSet(queue) \cup ToSet(repeatables) \cup {slot[s] : s \in Busy}
    <2>1. Reached \in SUBSET Txn
      BY DEF ToSet, Busy, TypeOK, TypeRequests, TypeExchanges
    <2>2. \A t \in Txn : LeftWaiting(t) \in Nat
      BY DEF LeftWaiting, TypeOK, TypeExchanges
    <2>3. TypeRequests'
      BY <1>3 DEF Destroy, TypeOK, TypeRequests
    <2>4. TypeExchanges'
      BY <1>3, <2>2 DEF Destroy, TypeOK, TypeExchanges
    <2>5. TypeLink' /\ TypeShutdown' /\ TypeHistory'
      BY <1>3, <2>1 DEF Destroy, TypeOK, TypeLink, TypeShutdown, TypeHistory, link
    <2> QED BY <2>3, <2>4, <2>5 DEF TypeOK
  <1> QED BY <1>1, <1>2, <1>3 DEF Application

LEMMA LoopType == TypeOK /\ Loop => TypeOK'
  <1> SUFFICES ASSUME TypeOK, Loop PROVE TypeOK'
    OBVIOUS
  <1>1. CASE SendThrows
    <2>1. TypeRequests' /\ TypeHistory'
      BY <1>1, HeadsType DEF SendThrows, InLoop, TypeOK, TypeRequests, TypeHistory
    <2>2. TypeExchanges' /\ TypeLink' /\ TypeShutdown'
      BY <1>1 DEF SendThrows, TypeOK, TypeExchanges, TypeLink, TypeShutdown,
                  exchanges, link, shutdown
    <2> QED BY <2>1, <2>2 DEF TypeOK
  <1>2. CASE DropCancelled
    <2>1. queue # <<>> /\ Settle(Head(queue), "error", FALSE, timer)
      BY <1>2 DEF DropCancelled, InLoop
    <2>2. TypeExchanges'
      BY <1>2, <2>1, HeadsType, SettleType DEF DropCancelled, TypeOK, TypeExchanges, Outcome
    <2>3. TypeRequests'
      BY <1>2, <2>1, HeadsType DEF DropCancelled, TypeOK, TypeRequests
    <2>4. TypeLink' /\ TypeShutdown' /\ TypeHistory'
      BY <1>2 DEF DropCancelled, TypeOK, TypeLink, TypeShutdown, TypeHistory,
                  link, shutdown, history
    <2> QED BY <2>2, <2>3, <2>4 DEF TypeOK
  <1>3. ASSUME NEW s \in Slot, SendNext(s) PROVE TypeOK'
    <2>1. Head(queue) \in Txn /\ Tail(queue) \in Seq(Txn)
      BY <1>3, HeadsType DEF SendNext, InLoop
    <2>2. TypeRequests'
      BY <1>3, <2>1 DEF SendNext, TypeOK, TypeRequests
    <2>3. TypeExchanges'
      BY <1>3, <2>1 DEF SendNext, TypeOK, TypeExchanges
    <2>4. TypeLink' /\ TypeShutdown' /\ TypeHistory'
      BY <1>3, <2>1 DEF SendNext, TypeOK, TypeLink, TypeShutdown, TypeHistory, link, shutdown
    <2> QED BY <2>2, <2>3, <2>4 DEF TypeOK
  <1> QED BY <1>1, <1>2, <1>3 DEF Loop

LEMMA TicksType == TypeOK /\ Ticks => TypeOK'
  <1> SUFFICES ASSUME TypeOK, Ticks PROVE TypeOK'
    OBVIOUS
  <1> DEFINE k == Head(ticks)
  <1>1. CASE TickEvent
    <2>1. TypeRequests' /\ TypeLink'
      BY <1>1 DEF TickEvent, TypeOK, TypeRequests, TypeLink, requests, link
    <2>2. TypeExchanges'
      BY <1>1, HeadsType DEF TickEvent, TypeOK, TypeExchanges
    <2>3. TypeShutdown'
      <3>1. ASSUME Throws(k) PROVE crashed' \in BOOLEAN
        <4>1. crashed' = (k.txn \in detached)
          BY <1>1, <3>1 DEF TickEvent
        <4> QED BY <4>1
      <3>2. ASSUME ~Throws(k) PROVE crashed' \in BOOLEAN
        BY <1>1, <3>2 DEF TickEvent, TypeOK, TypeShutdown
      <3>3. UNCHANGED <<destroyed, detached>>
        BY <1>1 DEF TickEvent
      <3>4. crashed' \in BOOLEAN
        BY <3>1, <3>2
      <3> QED BY <3>3, <3>4 DEF TypeOK, TypeShutdown
    <2>4. swallowed' \in SUBSET Txn /\ leaked' \in Nat
      BY <1>1, HeadsType DEF TickEvent, TypeOK, TypeHistory
    <2>5. TypeHistory'
      <3>1. UNCHANGED <<done, thrown, attempts, uncounted, requeues, quietDestroy>>
        BY <1>1 DEF TickEvent
      <3> QED BY <2>4, <3>1 DEF TypeOK, TypeHistory
    <2> QED BY <2>1, <2>2, <2>3, <2>5 DEF TypeOK
  <1>2. CASE TickComplete
    <2>1. k.txn \in Txn
      BY <1>2, HeadsType DEF TickComplete
    <2>2. /\ queue' \in Seq(Txn) /\ executing' \in Int /\ looping' \in BOOLEAN
          /\ uncounted' \in Nat /\ waiting' \in [Txn -> Nat] /\ done' \in SUBSET Txn
          /\ attempts' \in [Txn -> Nat] /\ crashed' \in BOOLEAN
      <3>1. CASE ~destroyed /\ Complete(k)
        <4>1. queue' \in Seq(Txn)
          BY <2>1, <3>1, NextQueueType DEF Complete
        <4>2. executing' \in Int /\ looping' \in BOOLEAN /\ crashed' \in BOOLEAN
          BY <3>1 DEF Complete, TypeOK, TypeRequests, TypeShutdown
        <4>3. waiting' \in [Txn -> Nat]
          BY <2>1, <3>1 DEF Complete, TypeOK, TypeExchanges
        <4>4. uncounted' \in Nat /\ done' \in SUBSET Txn /\ attempts' \in [Txn -> Nat]
          BY <2>1, <3>1 DEF Complete, TypeOK, TypeHistory
        <4> QED BY <4>1, <4>2, <4>3, <4>4
      <3>2. CASE destroyed
        BY <1>2, <3>2 DEF TickComplete, TypeOK, TypeRequests, TypeExchanges, TypeHistory
      <3> QED BY <1>2, <3>1, <3>2 DEF TickComplete
    <2>3. TypeRequests' /\ TypeHistory'
      BY <1>2, <2>2 DEF TickComplete, TypeOK, TypeRequests, TypeHistory
    <2>4. TypeExchanges'
      BY <1>2, <2>2, HeadsType DEF TickComplete, TypeOK, TypeExchanges
    <2>5. TypeLink' /\ TypeShutdown'
      BY <1>2, <2>2 DEF TickComplete, TypeOK, TypeLink, TypeShutdown, link
    <2> QED BY <2>3, <2>4, <2>5 DEF TypeOK
  <1> QED BY <1>1, <1>2 DEF Ticks

LEMMA CallbackType == TypeOK /\ (Timers \/ Remote) => TypeOK'
  <1> SUFFICES ASSUME TypeOK, Timers \/ Remote PROVE TypeOK'
    OBVIOUS
  <1>1. ASSUME NEW s \in Slot, Timeout(s) PROVE TypeOK'
    <2>1. timer[s] \in Txn
      BY <1>1 DEF Timeout, TypeOK, TypeExchanges
    <2>2. NextFailures(timer[s], "error") \in Nat
      BY <2>1, NextFailuresType
    <2>3. Tick(timer[s], "error", slot[s] # None)
             \in [txn : Txn, outcome : Outcome, counted : BOOLEAN]
      BY <2>1 DEF Tick, Outcome
    <2>4. TypeExchanges'
      BY <1>1, <2>1, <2>2, <2>3 DEF Timeout, TypeOK, TypeExchanges
    <2>5. TypeRequests' /\ TypeLink' /\ TypeShutdown' /\ TypeHistory'
      BY <1>1 DEF Timeout, TypeOK, TypeRequests, TypeLink, TypeShutdown, TypeHistory,
                  requests, link, shutdown, history
    <2> QED BY <2>4, <2>5 DEF TypeOK
  <1>2. ASSUME NEW t \in Txn, ExecutionTimer(t) PROVE TypeOK'
    <2>1. TypeRequests'
      <3>1. queue' \in Seq(Txn)
        BY <1>2 DEF ExecutionTimer, TypeOK, TypeRequests
      <3>2. looping' \in BOOLEAN
        BY <1>2 DEF ExecutionTimer, TypeOK, TypeRequests
      <3> QED BY <1>2, <3>1, <3>2 DEF ExecutionTimer, TypeOK, TypeRequests
    <2>2. TypeExchanges'
      BY <1>2 DEF ExecutionTimer, TypeOK, TypeExchanges
    <2>3. TypeLink' /\ TypeShutdown' /\ TypeHistory'
      BY <1>2 DEF ExecutionTimer, TypeOK, TypeLink, TypeShutdown, TypeHistory, link, history
    <2> QED BY <2>1, <2>2, <2>3 DEF TypeOK
  <1>3. ASSUME NEW s \in Slot, NEW outcome \in Outcome, Answer(s, outcome) PROVE TypeOK'
    <2>1. slot[s] \in Txn /\ Settle(slot[s], outcome, TRUE, timer)
      BY <1>3 DEF Answer, TypeOK, TypeExchanges
    <2>2. TypeExchanges'
      BY <1>3, <2>1, SettleType DEF Answer, TypeOK, TypeExchanges
    <2>3. TypeRequests' /\ TypeLink' /\ TypeShutdown' /\ TypeHistory'
      BY <1>3 DEF Answer, TypeOK, TypeRequests, TypeLink, TypeShutdown, TypeHistory,
                  requests, link, shutdown, history
    <2> QED BY <2>2, <2>3 DEF TypeOK
  <1> QED BY <1>1, <1>2, <1>3 DEF Timers, Remote

LEMMA ConnectionType == TypeOK /\ Connection => TypeOK'
  <1> SUFFICES ASSUME TypeOK, Connection PROVE TypeOK'
    OBVIOUS
  <1>1. CASE ConnectionOpen
    <2>1. TypeRequests' /\ TypeLink' /\ TypeHistory'
      BY <1>1 DEF ConnectionOpen, WithRepeatablesQueued, TypeOK, TypeRequests, TypeLink,
                  TypeHistory
    <2>2. TypeExchanges' /\ TypeShutdown'
      BY <1>1 DEF ConnectionOpen, TypeOK, TypeExchanges, TypeShutdown, exchanges, shutdown
    <2> QED BY <2>1, <2>2 DEF TypeOK
  <1>2. CASE LineDown \/ ConnectionClose
    BY <1>2 DEF LineDown, ConnectionClose, TypeOK, TypeRequests, TypeExchanges, TypeLink,
                TypeShutdown, TypeHistory, requests, exchanges, shutdown, history
  <1> QED BY <1>1, <1>2 DEF Connection

\* The variables of the scheduler keep their types in every behaviour.
THEOREM TypeCorrect == Spec => []TypeOK
  <1>1. TypeOK /\ UNCHANGED vars => TypeOK'
    BY DEF TypeOK, TypeRequests, TypeExchanges, TypeLink, TypeShutdown, TypeHistory,
           vars, requests, exchanges, link, shutdown, history
  <1>2. TypeOK /\ [Next]_vars => TypeOK'
    BY <1>1, ApplicationType, LoopType, TicksType, CallbackType, ConnectionType DEF Next
  <1> QED BY InitType, <1>2, PTL DEF Spec

----------------------------------------------------------------------------
\* Counting.  The lemmas about how often something occurs in a queue.

\* How many elements of a sequence are in a set.
Positions(q, S) == {i \in DOMAIN q : q[i] \in S}
Occurrences(q, S) == Cardinality(Positions(q, S))

LEMMA PositionsFinite ==
    ASSUME NEW T, NEW q \in Seq(T), NEW S
    PROVE  /\ IsFiniteSet(Positions(q, S)) /\ Occurrences(q, S) \in Nat
           /\ Occurrences(q, S) = 0 <=> \A i \in DOMAIN q : q[i] \notin S
  <1>1. IsFiniteSet(1 .. Len(q)) /\ Positions(q, S) \in SUBSET (1 .. Len(q))
    BY FS_Interval DEF Positions
  <1>2. IsFiniteSet(Positions(q, S))
    BY <1>1, FS_Subset
  <1>3. Positions(q, S) = {} <=> \A i \in DOMAIN q : q[i] \notin S
    BY DEF Positions
  <1> QED BY <1>2, <1>3, FS_CardinalityType, FS_EmptySet DEF Occurrences

LEMMA OccurrencesEmpty == ASSUME NEW S PROVE Occurrences(<<>>, S) = 0
  <1>1. Positions(<<>>, S) = {}
    BY DEF Positions
  <1> QED BY <1>1, FS_EmptySet DEF Occurrences

LEMMA OccurrencesSingle ==
    ASSUME NEW T, NEW e \in T, NEW S PROVE Occurrences(<<e>>, S) = (IF e \in S THEN 1 ELSE 0)
  <1>1. DOMAIN <<e>> = {1} /\ <<e>>[1] = e
    OBVIOUS
  <1>2. CASE e \in S
    <2>1. Positions(<<e>>, S) = {1}
      BY <1>1, <1>2 DEF Positions
    <2> QED BY <2>1, <1>2, FS_Singleton DEF Occurrences
  <1>3. CASE e \notin S
    <2>1. Positions(<<e>>, S) = {}
      BY <1>1, <1>3 DEF Positions
    <2> QED BY <2>1, <1>3, FS_EmptySet DEF Occurrences
  <1> QED BY <1>2, <1>3

LEMMA OccurrencesConcat ==
    ASSUME NEW T, NEW q \in Seq(T), NEW r \in Seq(T), NEW S
    PROVE  Occurrences(q \o r, S) = Occurrences(q, S) + Occurrences(r, S)
  <1> DEFINE n == Len(q)
             shifted == {i \in DOMAIN (q \o r) : i > n /\ (q \o r)[i] \in S}
             shift == [i \in Positions(r, S) |-> n + i]
  <1>1. /\ n \in Nat /\ Len(r) \in Nat /\ DOMAIN q = 1 .. n /\ DOMAIN r = 1 .. Len(r)
        /\ DOMAIN (q \o r) = 1 .. (n + Len(r))
        /\ \A i \in 1 .. n : (q \o r)[i] = q[i]
        /\ \A i \in 1 .. Len(r) : (q \o r)[n + i] = r[i]
    <2>1. \A i \in 1 .. Len(r) : n + i \in 1 .. n + Len(r) /\ ~(n + i <= n) /\ (n + i) - n = i
      BY LenProperties
    <2>2. /\ n \in Nat /\ Len(r) \in Nat /\ DOMAIN q = 1 .. n /\ DOMAIN r = 1 .. Len(r)
          /\ q \o r \in Seq(T) /\ Len(q \o r) = n + Len(r)
          /\ \A i \in 1 .. n + Len(r) : (q \o r)[i] = IF i <= n THEN q[i] ELSE r[i - n]
      BY LenProperties, ConcatProperties
    <2>3. DOMAIN (q \o r) = 1 .. (n + Len(r))
      BY <2>2, LenProperties
    <2>4. \A i \in 1 .. Len(r) : (q \o r)[n + i] = r[i]
      BY <2>1, <2>2
    <2> QED BY <2>2, <2>3, <2>4
  <1>2. Positions(q \o r, S) = Positions(q, S) \cup shifted /\ Positions(q, S) \cap shifted = {}
    BY <1>1 DEF Positions
  <1>3. shift \in Bijection(Positions(r, S), shifted)
    <2>1. shift \in [Positions(r, S) -> shifted]
      BY <1>1 DEF Positions
    <2>2. \A i, j \in Positions(r, S) : shift[i] = shift[j] => i = j
      BY <1>1 DEF Positions
    <2>3. \A j \in shifted : j - n \in Positions(r, S) /\ shift[j - n] = j
      <3> TAKE j \in shifted
      <3>1. j \in 1 .. (n + Len(r)) /\ j > n /\ j - n \in 1 .. Len(r) /\ n + (j - n) = j
        BY <1>1
      <3>2. (q \o r)[n + (j - n)] = r[j - n]
        BY <1>1, <3>1
      <3> QED BY <1>1, <3>1, <3>2 DEF Positions
    <2> QED BY <2>1, <2>2, <2>3 DEF Bijection, Injection, Surjection, IsInjective
  <1>4. IsFiniteSet(Positions(q, S)) /\ IsFiniteSet(Positions(r, S))
    BY PositionsFinite
  <1>5. IsFiniteSet(shifted) /\ Cardinality(shifted) = Cardinality(Positions(r, S))
    BY <1>3, <1>4, FS_Bijection DEF ExistsBijection
  <1>6. Cardinality(Positions(q, S) \cup shifted)
          = Cardinality(Positions(q, S)) + Cardinality(shifted) - Cardinality({})
    BY <1>2, <1>4, <1>5, FS_Union
  <1>7. Occurrences(q, S) \in Nat /\ Occurrences(r, S) \in Nat
    BY PositionsFinite
  <1>8. Positions(q \o r, S) = Positions(q, S) \cup shifted
    BY <1>2
  <1>9. Occurrences(q \o r, S) = Cardinality(Positions(q, S) \cup shifted)
    BY <1>8 DEF Occurrences
  <1> HIDE DEF shifted
  <1> QED BY <1>5, <1>6, <1>7, <1>9, FS_EmptySet DEF Occurrences

LEMMA OccurrencesAppend ==
    ASSUME NEW T, NEW q \in Seq(T), NEW e \in T, NEW S
    PROVE  Occurrences(Append(q, e), S) = Occurrences(q, S) + (IF e \in S THEN 1 ELSE 0)
  <1>1. Append(q, e) = q \o <<e>> /\ <<e>> \in Seq(T)
    BY AppendIsConcat
  <1>2. Occurrences(q \o <<e>>, S) = Occurrences(q, S) + Occurrences(<<e>>, S)
    BY <1>1, OccurrencesConcat
  <1>3. Occurrences(<<e>>, S) = (IF e \in S THEN 1 ELSE 0)
    BY OccurrencesSingle
  <1> QED BY <1>1, <1>2, <1>3

LEMMA OccurrencesTail ==
    ASSUME NEW T, NEW q \in Seq(T), q # <<>>, NEW S
    PROVE  Occurrences(Tail(q), S) = Occurrences(q, S) - (IF Head(q) \in S THEN 1 ELSE 0)
  <1>1. Len(q) \in Nat \ {0} /\ Head(q) = q[1]
    BY EmptySeq
  <1>2. SubSeq(q, 1, Len(q)) = <<q[1]>> \o SubSeq(q, 2, Len(q))
    BY <1>1, SubSeqRecursiveFirst
  <1>3. q = <<Head(q)>> \o Tail(q)
    BY <1>1, <1>2, SubSeqFull, TailIsSubSeq
  <1>4. Head(q) \in T /\ Tail(q) \in Seq(T) /\ <<Head(q)>> \in Seq(T)
    BY HeadTailProperties
  <1>5. Occurrences(<<Head(q)>> \o Tail(q), S) = Occurrences(<<Head(q)>>, S) + Occurrences(Tail(q), S)
    BY <1>4, OccurrencesConcat
  <1>6. Occurrences(<<Head(q)>>, S) = (IF Head(q) \in S THEN 1 ELSE 0)
    BY <1>4, OccurrencesSingle
  <1>7. Occurrences(q, S) = Occurrences(<<Head(q)>>, S) + Occurrences(Tail(q), S)
    BY <1>3, <1>5
  <1>8. Occurrences(Tail(q), S) \in Nat
    BY <1>4, PositionsFinite
  <1> QED BY <1>6, <1>7, <1>8

LEMMA OccurrencesRemoveAt ==
    ASSUME NEW T, NEW q \in Seq(T), NEW i \in DOMAIN q, NEW S
    PROVE  /\ RemoveAt(q, i) \in Seq(T)
           /\ Occurrences(RemoveAt(q, i), S) = Occurrences(q, S) - (IF q[i] \in S THEN 1 ELSE 0)
  <1> DEFINE before == SubSeq(q, 1, i - 1)
             rest == SubSeq(q, i, Len(q))
             after == SubSeq(q, i + 1, Len(q))
  <1>1. /\ Len(q) \in Nat /\ i \in 1 .. Len(q) /\ Len(q) \in i .. Len(q) /\ q[i] \in T
        /\ i - 1 \in Int /\ i + 1 \in Int /\ \A j \in 1 .. Len(q) : q[j] \in T
    BY LenProperties, ElementOfSeq
  <1>2. before \in Seq(T) /\ after \in Seq(T) /\ rest \in Seq(T) /\ <<q[i]>> \in Seq(T)
    <2>1. /\ \A j \in 1 .. i - 1 : q[j] \in T
          /\ \A j \in i .. Len(q) : q[j] \in T
          /\ \A j \in i + 1 .. Len(q) : q[j] \in T
      BY <1>1
    <2>2. before \in Seq(T)
      BY <1>1, <2>1, SubSeqProperties
    <2>3. after \in Seq(T)
      BY <1>1, <2>1, SubSeqProperties
    <2>4. rest \in Seq(T)
      BY <1>1, <2>1, SubSeqProperties
    <2> QED BY <1>1, <2>2, <2>3, <2>4
  <1>3. q = before \o rest
    <2>1. 1 \in 1 .. Len(q) + 1 /\ i - 1 \in 1 - 1 .. Len(q) /\ Len(q) \in i - 1 .. Len(q)
      BY <1>1
    <2>2. SubSeq(q, 1, i - 1) \o SubSeq(q, (i - 1) + 1, Len(q)) = SubSeq(q, 1, Len(q))
      BY <2>1, ConcatAdjacentSubSeq
    <2>3. (i - 1) + 1 = i
      BY <1>1
    <2> QED BY <2>2, <2>3, SubSeqFull
  <1>4. rest = <<q[i]>> \o after
    BY <1>1, SubSeqRecursiveFirst
  <1> HIDE DEF before, rest, after
  <1>5. Occurrences(q, S) = Occurrences(before, S) + Occurrences(rest, S)
    BY <1>2, <1>3, OccurrencesConcat
  <1>6. Occurrences(rest, S) = Occurrences(<<q[i]>>, S) + Occurrences(after, S)
    BY <1>2, <1>4, OccurrencesConcat
  <1>7. Occurrences(<<q[i]>>, S) = (IF q[i] \in S THEN 1 ELSE 0)
    BY <1>1, OccurrencesSingle
  <1>8. RemoveAt(q, i) = before \o after /\ before \o after \in Seq(T)
    BY <1>2 DEF RemoveAt, before, after
  <1>9. Occurrences(before \o after, S) = Occurrences(before, S) + Occurrences(after, S)
    BY <1>2, OccurrencesConcat
  <1>10. Occurrences(before, S) \in Nat /\ Occurrences(after, S) \in Nat
    BY <1>2, PositionsFinite
  <1> QED BY <1>5, <1>6, <1>7, <1>8, <1>9, <1>10

----------------------------------------------------------------------------
\* Accounting.  The ticks that stand for a counted request: what appending and
\* consuming a tick does to their number.
LEMMA CountedOccurrences ==
    ASSUME NEW S, NEW tk \in Seq(S)
    PROVE  /\ Cardinality(Counted(tk)) = Occurrences(tk, {k \in S : k.counted})
           /\ Cardinality(Counted(tk)) \in Nat
  <1>1. \A i \in DOMAIN tk : tk[i] \in S
    BY ElementOfSeq, LenProperties
  <1>2. Counted(tk) = Positions(tk, {k \in S : k.counted})
    BY <1>1 DEF Counted, Positions
  <1>3. Cardinality(Counted(tk)) = Occurrences(tk, {k \in S : k.counted})
    BY <1>2 DEF Occurrences
  <1>4. Occurrences(tk, {k \in S : k.counted}) \in Nat
    BY PositionsFinite
  <1> QED BY <1>3, <1>4

LEMMA CountedEmpty == Cardinality(Counted(<<>>)) = 0
  <1>1. Counted(<<>>) = {}
    BY DEF Counted
  <1> QED BY <1>1, FS_EmptySet

LEMMA CountedAppend ==
    ASSUME NEW S, NEW tk \in Seq(S), NEW k \in S
    PROVE  Cardinality(Counted(Append(tk, k)))
             = Cardinality(Counted(tk)) + (IF k.counted THEN 1 ELSE 0)
  <1> DEFINE C == {r \in S : r.counted}
  <1>1. Append(tk, k) \in Seq(S)
    BY AppendProperties
  <1>2. Occurrences(Append(tk, k), C) = Occurrences(tk, C) + (IF k \in C THEN 1 ELSE 0)
    BY OccurrencesAppend
  <1>3. k \in C <=> k.counted
    OBVIOUS
  <1>4. /\ Cardinality(Counted(Append(tk, k))) = Occurrences(Append(tk, k), C)
        /\ Cardinality(Counted(tk)) = Occurrences(tk, C)
    BY <1>1, CountedOccurrences
  <1> QED BY <1>2, <1>3, <1>4

LEMMA CountedTail ==
    ASSUME NEW S, NEW tk \in Seq(S), tk # <<>>
    PROVE  Cardinality(Counted(Tail(tk)))
             = Cardinality(Counted(tk)) - (IF Head(tk).counted THEN 1 ELSE 0)
  <1> DEFINE C == {r \in S : r.counted}
  <1>1. Tail(tk) \in Seq(S) /\ Head(tk) \in S
    BY HeadTailProperties
  <1>2. Occurrences(Tail(tk), C) = Occurrences(tk, C) - (IF Head(tk) \in C THEN 1 ELSE 0)
    BY OccurrencesTail
  <1>3. Head(tk) \in C <=> Head(tk).counted
    BY <1>1
  <1>4. /\ Cardinality(Counted(Tail(tk))) = Occurrences(Tail(tk), C)
        /\ Cardinality(Counted(tk)) = Occurrences(tk, C)
    BY <1>1, CountedOccurrences
  <1> QED BY <1>2, <1>3, <1>4

\* The busy exchanges, when one ends and when one begins.
LEMMA BusyFinite ==
    ASSUME TypeOK
    PROVE  IsFiniteSet(Busy) /\ Cardinality(Busy) \in Nat
  <1>1. Busy \in SUBSET Slot
    BY DEF Busy
  <1> QED BY <1>1, SlotAssumption, FS_Subset, FS_CardinalityType

LEMMA BusyEnds ==
    ASSUME TypeOK, NEW s \in Slot, slot' = [slot EXCEPT ![s] = None]
    PROVE  Cardinality(Busy') = Cardinality(Busy) - (IF slot[s] # None THEN 1 ELSE 0)
  <1>1. Busy' = Busy \ {s}
    BY DEF Busy, TypeOK, TypeExchanges
  <1>2. s \in Busy <=> slot[s] # None
    BY DEF Busy
  <1>3. IsFiniteSet(Busy)
    BY BusyFinite
  <1>4. Cardinality(Busy \ {s}) = IF s \in Busy THEN Cardinality(Busy) - 1 ELSE Cardinality(Busy)
    BY <1>3, FS_RemoveElement
  <1>5. Cardinality(Busy) \in Nat
    BY BusyFinite
  <1> QED BY <1>1, <1>2, <1>4, <1>5

LEMMA BusyBegins ==
    ASSUME TypeOK, NEW s \in Slot, NEW t \in Txn,
           slot[s] = None, slot' = [slot EXCEPT ![s] = t]
    PROVE  Cardinality(Busy') = Cardinality(Busy) + 1
  <1>1. Busy' = Busy \cup {s} /\ s \notin Busy
    BY NoneAssumption DEF Busy, TypeOK, TypeExchanges
  <1> QED BY <1>1, BusyFinite, FS_AddElement

LEMMA TicksFinite == ASSUME TypeOK PROVE Cardinality(Counted(ticks)) \in Nat
  BY CountedOccurrences DEF TypeOK, TypeExchanges

LEMMA TickAppended ==
    ASSUME TypeOK, NEW t \in Txn, NEW outcome \in Outcome, NEW counted \in BOOLEAN,
           ticks' = Append(ticks, Tick(t, outcome, counted))
    PROVE  Cardinality(Counted(ticks)')
             = Cardinality(Counted(ticks)) + (IF counted THEN 1 ELSE 0)
  <1> DEFINE Ks == [txn : Txn, outcome : Outcome, counted : BOOLEAN]
             k == Tick(t, outcome, counted)
  <1>1. k \in Ks /\ k.counted = counted /\ ticks \in Seq(Ks)
    BY DEF Tick, TypeOK, TypeExchanges
  <1>2. Cardinality(Counted(Append(ticks, k)))
          = Cardinality(Counted(ticks)) + (IF k.counted THEN 1 ELSE 0)
    BY <1>1, CountedAppend
  <1>3. Counted(ticks)' = Counted(Append(ticks, k))
    BY DEF Counted
  <1> QED BY <1>1, <1>2, <1>3

LEMMA TickConsumed ==
    ASSUME TypeOK, ticks # <<>>, ticks' = Tail(ticks)
    PROVE  Cardinality(Counted(ticks)')
             = Cardinality(Counted(ticks)) - (IF Head(ticks).counted THEN 1 ELSE 0)
  <1>1. Counted(ticks)' = Counted(Tail(ticks))
    BY DEF Counted
  <1> QED BY <1>1, CountedTail DEF TypeOK, TypeExchanges

\* The invariant behind the accounting theorems: the count of executing
\* requests is exact up to the miscounted completions, only the loop of
\* executeQueuedTransactions raises it, while it is below the limit, and that
\* loop does not run on a destroyed master.
CountWithinLimit == ~destroyed => executing <= MaxConcurrentRequests
DestroyedIsEmpty == destroyed => queue = <<>>
AccountingInv ==
    TypeOK /\ Accounting /\ CountWithinLimit /\ DestroyedIsEmpty /\ RefusalNeedsOverrun

LEMMA AccountingInit == Init => AccountingInv
  <1> SUFFICES ASSUME Init PROVE AccountingInv
    OBVIOUS
  <1>1. Busy = {} /\ Cardinality(Busy) = 0
    BY FS_EmptySet DEF Init, Busy
  <1>2. Cardinality(Counted(ticks)) = 0
    BY CountedEmpty DEF Init
  <1>3. Accounting
    BY <1>1, <1>2 DEF Accounting, Outstanding, Init
  <1>4. CountWithinLimit /\ DestroyedIsEmpty /\ RefusalNeedsOverrun
    BY ConcurrencyAssumption DEF CountWithinLimit, DestroyedIsEmpty, RefusalNeedsOverrun, Init
  <1> QED BY <1>3, <1>4, InitType DEF AccountingInv

\* A step that leaves the count, the exchanges, the ticks and the miscounts
\* alone preserves the invariant.
LEMMA AccountingFrame ==
    ASSUME AccountingInv, TypeOK', DestroyedIsEmpty',
           UNCHANGED <<executing, slot, ticks, thrown, uncounted, leaked, destroyed>>
    PROVE  AccountingInv'
  <1>1. Busy' = Busy /\ Counted(ticks)' = Counted(ticks)
    BY DEF Busy, Counted
  <1>2. Accounting'
    BY <1>1 DEF AccountingInv, Accounting, Outstanding
  <1> QED BY <1>2 DEF AccountingInv, CountWithinLimit, RefusalNeedsOverrun

\* A step that moves a request on, raising the number of miscounted completions
\* or leaving it, preserves the invariant when it keeps the books balanced.
LEMMA AccountingMove ==
    ASSUME AccountingInv, TypeOK', DestroyedIsEmpty', ~destroyed',
           executing' = Outstanding' + leaked' - uncounted',
           executing' <= MaxConcurrentRequests,
           thrown' = thrown, uncounted' >= uncounted
    PROVE  AccountingInv'
  <1>1. uncounted \in Nat /\ uncounted' \in Nat
    BY DEF AccountingInv, TypeOK, TypeHistory
  <1> QED BY <1>1 DEF AccountingInv, Accounting, CountWithinLimit, RefusalNeedsOverrun

LEMMA AccountingLoop == AccountingInv /\ TypeOK' /\ Loop => AccountingInv'
  <1> SUFFICES ASSUME AccountingInv, TypeOK', Loop PROVE AccountingInv'
    OBVIOUS
  <1>t. /\ TypeOK /\ executing \in Int /\ uncounted \in Nat /\ leaked \in Nat
        /\ Cardinality(Busy) \in Nat /\ Cardinality(Counted(ticks)) \in Nat
    BY BusyFinite, TicksFinite DEF AccountingInv, TypeOK, TypeRequests, TypeHistory
  <1>l. /\ queue # <<>> /\ Head(queue) \in Txn
        /\ executing < MaxConcurrentRequests
        /\ ~destroyed /\ destroyed' = destroyed
    <2>1. InLoop /\ destroyed' = destroyed
      BY DEF Loop, SendThrows, DropCancelled, SendNext, shutdown
    <2> QED BY <1>t, <2>1, HeadsType DEF InLoop, AccountingInv, DestroyedIsEmpty
  <1>b. executing = Cardinality(Busy) + Cardinality(Counted(ticks)) + leaked - uncounted
    BY <1>l DEF AccountingInv, Accounting, Outstanding
  <1>1. CASE SendThrows
    <2>1. UNCHANGED <<executing, slot, ticks, uncounted, leaked, destroyed>>
      BY <1>1 DEF SendThrows, exchanges, shutdown
    <2>2. Busy' = Busy /\ Counted(ticks)' = Counted(ticks)
      BY <2>1 DEF Busy, Counted
    <2>3. Accounting' /\ CountWithinLimit' /\ DestroyedIsEmpty'
      BY <1>l, <2>1, <2>2
         DEF AccountingInv, Accounting, Outstanding, CountWithinLimit, DestroyedIsEmpty
    <2>4. Cardinality(Busy) >= Capacity
      BY <1>1 DEF SendThrows
    <2>5. MaxConcurrentRequests <= Capacity => uncounted > 0
      BY <1>t, <1>l, <1>b, <2>4, CapacityAssumption, ConcurrencyAssumption
    <2> QED BY <2>1, <2>3, <2>5 DEF AccountingInv, RefusalNeedsOverrun
  <1>2. CASE DropCancelled
    <2>1. UNCHANGED <<executing, slot, uncounted, leaked, thrown>>
      BY <1>2 DEF DropCancelled, history
    <2>2. Cardinality(Counted(ticks)') = Cardinality(Counted(ticks))
      <3>1. ticks' = Append(ticks, Tick(Head(queue), "error", FALSE))
        BY <1>2 DEF DropCancelled, Settle
      <3>2. FALSE \in BOOLEAN /\ "error" \in Outcome
        BY DEF Outcome
      <3>3. Cardinality(Counted(ticks)')
              = Cardinality(Counted(ticks)) + (IF FALSE THEN 1 ELSE 0)
        BY <1>t, <1>l, <3>1, <3>2, TickAppended
      <3> QED BY <1>t, <3>3
    <2>3. Busy' = Busy
      BY <2>1 DEF Busy
    <2> QED BY <1>t, <1>l, <1>b, <2>1, <2>2, <2>3, AccountingMove, ConcurrencyAssumption
            DEF Outstanding, DestroyedIsEmpty
  <1>3. ASSUME NEW s \in Slot, SendNext(s) PROVE AccountingInv'
    <2>1. Cardinality(Busy') = Cardinality(Busy) + 1
      BY <1>3, <1>t, <1>l, BusyBegins DEF SendNext
    <2>2. Counted(ticks)' = Counted(ticks)
      BY <1>3 DEF SendNext, Counted
    <2>3. executing' = executing + 1 /\ UNCHANGED <<uncounted, leaked, thrown>>
      BY <1>3 DEF SendNext
    <2> QED BY <1>t, <1>l, <1>b, <2>1, <2>2, <2>3, AccountingMove, ConcurrencyAssumption
            DEF Outstanding, DestroyedIsEmpty
  <1> QED BY <1>1, <1>2, <1>3 DEF Loop

LEMMA AccountingTicks == AccountingInv /\ TypeOK' /\ Ticks => AccountingInv'
  <1> SUFFICES ASSUME AccountingInv, TypeOK', Ticks PROVE AccountingInv'
    OBVIOUS
  <1> DEFINE k == Head(ticks)
  <1>t. /\ TypeOK /\ executing \in Int /\ uncounted \in Nat /\ leaked \in Nat
        /\ Cardinality(Busy) \in Nat /\ Cardinality(Counted(ticks)) \in Nat
    BY BusyFinite, TicksFinite DEF AccountingInv, TypeOK, TypeRequests, TypeHistory
  <1>s. ticks # <<>> /\ slot' = slot /\ destroyed' = destroyed /\ thrown' = thrown
    BY DEF Ticks, TickEvent, TickComplete
  <1>u. Busy' = Busy
    BY <1>s DEF Busy
  <1>b. ~destroyed =>
           /\ executing = Cardinality(Busy) + Cardinality(Counted(ticks)) + leaked - uncounted
           /\ executing <= MaxConcurrentRequests
    BY DEF AccountingInv, Accounting, Outstanding, CountWithinLimit
  <1>1. CASE TickEvent /\ ~Throws(k)
    <2>1. UNCHANGED <<executing, slot, ticks, thrown, uncounted, leaked, destroyed, queue>>
      BY <1>1 DEF TickEvent, requests
    <2> QED BY <2>1, AccountingFrame DEF AccountingInv, DestroyedIsEmpty
  <1>2. CASE TickEvent /\ Throws(k)
    <2>1. /\ ticks' = Tail(ticks) /\ UNCHANGED <<executing, uncounted, queue>>
          /\ leaked' = IF k.counted THEN leaked + 1 ELSE leaked
      BY <1>2 DEF TickEvent, requests
    <2>2. DestroyedIsEmpty'
      BY <1>s, <2>1 DEF AccountingInv, DestroyedIsEmpty
    <2>3. Cardinality(Counted(ticks)')
            = Cardinality(Counted(ticks)) - (IF k.counted THEN 1 ELSE 0)
      BY <1>s, <1>t, <2>1, TickConsumed
    <2>4. CASE ~destroyed
      BY <1>t, <1>s, <1>u, <1>b, <2>1, <2>2, <2>3, <2>4, AccountingMove DEF Outstanding
    <2>5. CASE destroyed
      BY <1>s, <2>1, <2>2, <2>5
         DEF AccountingInv, Accounting, CountWithinLimit, RefusalNeedsOverrun
    <2> QED BY <2>4, <2>5
  <1>3. CASE TickComplete /\ ~destroyed
    <2>1. /\ ticks' = Tail(ticks) /\ executing' = executing - 1 /\ leaked' = leaked
          /\ uncounted' = IF k.counted THEN uncounted ELSE uncounted + 1
      BY <1>3 DEF TickComplete, Complete
    <2>2. Cardinality(Counted(ticks)')
            = Cardinality(Counted(ticks)) - (IF k.counted THEN 1 ELSE 0)
      BY <1>s, <1>t, <2>1, TickConsumed
    <2>3. DestroyedIsEmpty' /\ ~destroyed'
      BY <1>3, <1>s DEF DestroyedIsEmpty
    <2>4. /\ executing' = Outstanding' + leaked' - uncounted'
          /\ executing' <= MaxConcurrentRequests /\ uncounted' >= uncounted
      BY <1>3, <1>t, <1>u, <1>b, <2>1, <2>2, ConcurrencyAssumption DEF Outstanding
    <2> QED BY <1>s, <2>3, <2>4, AccountingMove
  <1>4. CASE TickComplete /\ destroyed
    <2>1. UNCHANGED <<queue, uncounted>>
      BY <1>4 DEF TickComplete
    <2> QED BY <1>4, <1>s, <2>1
            DEF AccountingInv, Accounting, CountWithinLimit, DestroyedIsEmpty, RefusalNeedsOverrun
  <1> QED BY <1>1, <1>2, <1>3, <1>4 DEF Ticks

LEMMA AccountingCallbacks ==
    AccountingInv /\ TypeOK' /\ (Timers \/ Remote \/ Connection) => AccountingInv'
  <1> SUFFICES ASSUME AccountingInv, TypeOK', Timers \/ Remote \/ Connection
               PROVE AccountingInv'
    OBVIOUS
  <1>t. /\ TypeOK /\ executing \in Int /\ uncounted \in Nat /\ leaked \in Nat
        /\ Cardinality(Busy) \in Nat /\ Cardinality(Counted(ticks)) \in Nat
    BY BusyFinite, TicksFinite DEF AccountingInv, TypeOK, TypeRequests, TypeHistory
  <1>b. ~destroyed =>
           /\ executing = Cardinality(Busy) + Cardinality(Counted(ticks)) + leaked - uncounted
           /\ executing <= MaxConcurrentRequests
    BY DEF AccountingInv, Accounting, Outstanding, CountWithinLimit
  \* An exchange ends, and its completion is deferred to a tick.
  <1>e. ASSUME NEW s \in Slot, NEW t \in Txn, NEW outcome \in Outcome, NEW counted \in BOOLEAN,
               counted <=> slot[s] # None,
               slot' = [slot EXCEPT ![s] = None],
               ticks' = Append(ticks, Tick(t, outcome, counted)),
               UNCHANGED <<executing, queue, thrown, uncounted, leaked, destroyed>>
        PROVE  AccountingInv'
    <2>1. Cardinality(Busy') = Cardinality(Busy) - (IF counted THEN 1 ELSE 0)
      BY <1>t, <1>e, BusyEnds
    <2>2. Cardinality(Counted(ticks)')
            = Cardinality(Counted(ticks)) + (IF counted THEN 1 ELSE 0)
      BY <1>t, <1>e, TickAppended
    <2>3. DestroyedIsEmpty'
      BY <1>e DEF AccountingInv, DestroyedIsEmpty
    <2>4. CASE ~destroyed
      <3>1. /\ executing' = Outstanding' + leaked' - uncounted'
            /\ executing' <= MaxConcurrentRequests /\ uncounted' >= uncounted /\ ~destroyed'
        BY <1>e, <1>t, <1>b, <2>1, <2>2, <2>4 DEF Outstanding
      <3> QED BY <1>e, <2>3, <3>1, AccountingMove
    <2>5. CASE destroyed
      BY <1>e, <2>3, <2>5 DEF AccountingInv, Accounting, CountWithinLimit, RefusalNeedsOverrun
    <2> QED BY <2>4, <2>5
  <1>1. ASSUME NEW s \in Slot, Timeout(s) PROVE AccountingInv'
    <2>1. timer[s] \in Txn /\ (slot[s] # None) \in BOOLEAN /\ "error" \in Outcome
      BY <1>1, <1>t DEF Timeout, TypeOK, TypeExchanges, Outcome
    <2>2. ticks' = Append(ticks, Tick(timer[s], "error", slot[s] # None))
      BY <1>1 DEF Timeout, EventLoop
    <2>3. /\ slot' = [slot EXCEPT ![s] = None]
          /\ UNCHANGED <<executing, queue, thrown, uncounted, leaked, destroyed>>
      BY <1>1 DEF Timeout, requests, shutdown, history
    <2> QED BY <1>e, <2>1, <2>2, <2>3
  <1>2. ASSUME NEW s \in Slot, NEW outcome \in Outcome, Answer(s, outcome) PROVE AccountingInv'
    <2>1. slot[s] \in Txn /\ slot[s] # None
      BY <1>2, <1>t DEF Answer, TypeOK, TypeExchanges
    <2>2. /\ slot' = [slot EXCEPT ![s] = None]
          /\ ticks' = Append(ticks, Tick(slot[s], outcome, TRUE))
          /\ UNCHANGED <<executing, queue, thrown, uncounted, leaked, destroyed>>
      BY <1>2 DEF Answer, Settle, requests, shutdown, history
    <2> QED BY <1>e, <2>1, <2>2
  <1>3. ASSUME NEW t \in Txn, ExecutionTimer(t) PROVE AccountingInv'
    <2>1. UNCHANGED <<executing, slot, ticks, thrown, uncounted, leaked, destroyed>>
      BY <1>3 DEF ExecutionTimer, history
    <2>2. DestroyedIsEmpty'
      BY <1>3 DEF ExecutionTimer, AccountingInv, DestroyedIsEmpty
    <2> QED BY <2>1, <2>2, AccountingFrame
  <1>4. CASE Connection
    <2>1. /\ UNCHANGED <<executing, slot, ticks, thrown, uncounted, leaked, destroyed>>
          /\ ~destroyed
      BY <1>4 DEF Connection, ConnectionOpen, LineDown, ConnectionClose,
                  requests, exchanges, shutdown, history
    <2> QED BY <2>1, AccountingFrame DEF DestroyedIsEmpty
  <1> QED BY <1>1, <1>2, <1>3, <1>4 DEF Timers, Remote

LEMMA AccountingApplication == AccountingInv /\ TypeOK' /\ Application => AccountingInv'
  <1> SUFFICES ASSUME AccountingInv, TypeOK', Application PROVE AccountingInv'
    OBVIOUS
  <1>1. ASSUME NEW t \in Txn, Execute(t) \/ Cancel(t) PROVE AccountingInv'
    <2>1. UNCHANGED <<executing, slot, ticks, thrown, uncounted, leaked, destroyed>>
      BY <1>1 DEF Execute, Cancel, exchanges, shutdown, history
    <2>2. DestroyedIsEmpty'
      BY <1>1, <2>1 DEF Execute, Cancel, AccountingInv, DestroyedIsEmpty
    <2> QED BY <2>1, <2>2, AccountingFrame
  <1>2. CASE Destroy
    <2>1. destroyed' /\ queue' = <<>> /\ UNCHANGED <<thrown, uncounted>>
      BY <1>2 DEF Destroy
    <2> QED BY <2>1
            DEF AccountingInv, Accounting, CountWithinLimit, DestroyedIsEmpty, RefusalNeedsOverrun
  <1> QED BY <1>1, <1>2 DEF Application

LEMMA AccountingInductive == Spec => []AccountingInv
  <1>1. AccountingInv /\ UNCHANGED vars => AccountingInv'
    <2> SUFFICES ASSUME AccountingInv, UNCHANGED vars PROVE AccountingInv'
      OBVIOUS
    <2>1. TypeOK'
      BY DEF AccountingInv, TypeOK, TypeRequests, TypeExchanges, TypeLink, TypeShutdown,
             TypeHistory, vars, requests, exchanges, link, shutdown, history
    <2>2. /\ UNCHANGED <<executing, slot, ticks, thrown, uncounted, leaked, destroyed>>
          /\ DestroyedIsEmpty'
      BY DEF AccountingInv, DestroyedIsEmpty, vars, requests, exchanges, shutdown, history
    <2> QED BY <2>1, <2>2, AccountingFrame
  <1>2. AccountingInv /\ Next => TypeOK'
    BY ApplicationType, LoopType, TicksType, CallbackType, ConnectionType
       DEF AccountingInv, Next
  <1>3. AccountingInv /\ [Next]_vars => AccountingInv'
    BY <1>1, <1>2, AccountingApplication, AccountingLoop, AccountingTicks, AccountingCallbacks
       DEF Next
  <1> QED BY AccountingInit, <1>3, PTL DEF Spec

\* The count of executing requests is what Accounting says in every behaviour.
THEOREM AccountingHolds == Spec => []Accounting
  <1>1. AccountingInv => Accounting
    BY DEF AccountingInv
  <1> QED BY <1>1, AccountingInductive, PTL

\* Requests exceed the limit by the uncounted completions at most.
THEOREM ConcurrencyBounded == Spec => []ConcurrencyBound
  <1>1. AccountingInv => ConcurrencyBound
    <2> SUFFICES ASSUME AccountingInv, ~destroyed
                 PROVE  Outstanding <= MaxConcurrentRequests + uncounted
      BY DEF ConcurrencyBound
    <2>1. /\ executing = Outstanding + leaked - uncounted
          /\ executing <= MaxConcurrentRequests
      BY DEF AccountingInv, Accounting, CountWithinLimit
    <2>2. Cardinality(Busy) \in Nat /\ Cardinality(Counted(ticks)) \in Nat
      BY BusyFinite, TicksFinite DEF AccountingInv
    <2>3. leaked \in Nat /\ uncounted \in Nat /\ Outstanding \in Nat
      BY <2>2 DEF AccountingInv, TypeOK, TypeHistory, Outstanding
    <2> QED BY <2>1, <2>3, ConcurrencyAssumption
  <1> QED BY <1>1, AccountingInductive, PTL

\* A transport with room for maxConcurrentRequests exchanges never refuses a
\* request, unless a completion was not counted before.
THEOREM RefusalsExplained == Spec => []RefusalNeedsOverrun
  <1>1. AccountingInv => RefusalNeedsOverrun
    BY DEF AccountingInv
  <1> QED BY <1>1, AccountingInductive, PTL

----------------------------------------------------------------------------
\* Places.  How often a transaction is in a queue, in the exchanges and in the ticks:
\* the three numbers Places adds up.
TickRecord == [txn : Txn, outcome : Outcome, counted : BOOLEAN]
Queued(q, t) == Occurrences(q, {t})
Carried(sl, t) == Cardinality({s \in Slot : sl[s] = t})
Ticking(tk, t) == Occurrences(tk, {k \in TickRecord : k.txn = t})

LEMMA QueuedFacts ==
    ASSUME NEW q \in Seq(Txn), NEW t \in Txn
    PROVE  /\ Cardinality({i \in DOMAIN q : q[i] = t}) = Queued(q, t)
           /\ Queued(q, t) \in Nat
           /\ Queued(q, t) > 0 <=> t \in ToSet(q)
  <1>1. {i \in DOMAIN q : q[i] = t} = Positions(q, {t})
    BY DEF Positions
  <1>2. t \in ToSet(q) <=> \E i \in DOMAIN q : q[i] \in {t}
    BY DEF ToSet
  <1>3. /\ Queued(q, t) \in Nat
        /\ Queued(q, t) = 0 <=> \A i \in DOMAIN q : q[i] \notin {t}
    BY PositionsFinite DEF Queued
  <1>4. Cardinality({i \in DOMAIN q : q[i] = t}) = Queued(q, t)
    BY <1>1 DEF Queued, Occurrences
  <1>5. Queued(q, t) = 0 <=> t \notin ToSet(q)
    BY <1>2, <1>3
  <1> HIDE DEF Queued
  <1> QED BY <1>3, <1>4, <1>5

LEMMA TickingFacts ==
    ASSUME NEW tk \in Seq(TickRecord), NEW t \in Txn
    PROVE  /\ Cardinality({i \in DOMAIN tk : tk[i].txn = t}) = Ticking(tk, t)
           /\ Ticking(tk, t) \in Nat
           /\ Ticking(tk, t) = 0 <=> \A i \in DOMAIN tk : tk[i].txn # t
  <1> DEFINE S == {k \in TickRecord : k.txn = t}
  <1>1. \A i \in DOMAIN tk : tk[i] \in TickRecord
    BY ElementOfSeq, LenProperties
  <1>2. {i \in DOMAIN tk : tk[i].txn = t} = Positions(tk, S)
    BY <1>1 DEF Positions
  <1>3. /\ Ticking(tk, t) \in Nat
        /\ Ticking(tk, t) = 0 <=> \A i \in DOMAIN tk : tk[i] \notin S
    BY PositionsFinite DEF Ticking
  <1> QED BY <1>1, <1>2, <1>3 DEF Ticking, Occurrences

LEMMA CarriedFacts ==
    ASSUME NEW sl, NEW t
    PROVE  /\ IsFiniteSet({s \in Slot : sl[s] = t})
           /\ Carried(sl, t) \in Nat
           /\ Carried(sl, t) = 0 <=> \A s \in Slot : sl[s] # t
  <1> DEFINE C == {s \in Slot : sl[s] = t}
  <1>1. C \in SUBSET Slot
    OBVIOUS
  <1>2. IsFiniteSet(C)
    BY <1>1, SlotAssumption, FS_Subset
  <1>3. C = {} <=> \A s \in Slot : sl[s] # t
    OBVIOUS
  <1> HIDE DEF C
  <1>4. Cardinality(C) \in Nat /\ (Cardinality(C) = 0 <=> C = {})
    BY <1>2, FS_CardinalityType, FS_EmptySet
  <1>5. Carried(sl, t) = Cardinality(C)
    BY DEF Carried, C
  <1> QED BY <1>2, <1>3, <1>4, <1>5 DEF C

LEMMA PlacesFacts ==
    ASSUME TypeOK, NEW t \in Txn
    PROVE  /\ Places(t) = Queued(queue, t) + Carried(slot, t) + Ticking(ticks, t)
           /\ Queued(queue, t) \in Nat /\ Carried(slot, t) \in Nat /\ Ticking(ticks, t) \in Nat
           /\ Queued(queue, t) > 0 <=> t \in ToSet(queue)
           /\ Carried(slot, t) > 0 <=> \E s \in Slot : slot[s] = t
           /\ Ticking(ticks, t) > 0 <=> \E i \in DOMAIN ticks : ticks[i].txn = t
  <1>1. queue \in Seq(Txn) /\ ticks \in Seq(TickRecord)
    BY DEF TypeOK, TypeRequests, TypeExchanges, TickRecord
  <1>2. /\ Queued(queue, t) \in Nat /\ Carried(slot, t) \in Nat /\ Ticking(ticks, t) \in Nat
        /\ Queued(queue, t) > 0 <=> t \in ToSet(queue)
    BY <1>1, QueuedFacts, CarriedFacts, TickingFacts
  <1>3. Carried(slot, t) = 0 <=> \A s \in Slot : slot[s] # t
    BY CarriedFacts
  <1>4. Ticking(ticks, t) = 0 <=> \A i \in DOMAIN ticks : ticks[i].txn # t
    BY <1>1, TickingFacts
  <1>5. /\ Cardinality({i \in DOMAIN queue : queue[i] = t}) = Queued(queue, t)
        /\ Cardinality({i \in DOMAIN ticks : ticks[i].txn = t}) = Ticking(ticks, t)
    BY <1>1, QueuedFacts, TickingFacts
  <1>6. Places(t) = Queued(queue, t) + Carried(slot, t) + Ticking(ticks, t)
    BY <1>5 DEF Places, Carried
  <1> QED BY <1>2, <1>3, <1>4, <1>6

LEMMA PlacesFactsNext ==
    ASSUME TypeOK', NEW t \in Txn
    PROVE  /\ Places(t)' = Queued(queue', t) + Carried(slot', t) + Ticking(ticks', t)
           /\ Queued(queue', t) \in Nat /\ Carried(slot', t) \in Nat /\ Ticking(ticks', t) \in Nat
  <1>1. queue' \in Seq(Txn) /\ ticks' \in Seq(TickRecord)
    BY DEF TypeOK, TypeRequests, TypeExchanges, TickRecord
  <1>2. /\ Queued(queue', t) \in Nat /\ Carried(slot', t) \in Nat /\ Ticking(ticks', t) \in Nat
    BY <1>1, QueuedFacts, CarriedFacts, TickingFacts
  <1>5. /\ Cardinality({i \in DOMAIN queue' : queue'[i] = t}) = Queued(queue', t)
        /\ Cardinality({i \in DOMAIN ticks' : ticks'[i].txn = t}) = Ticking(ticks', t)
    BY <1>1, QueuedFacts, TickingFacts
  <1>6. Places(t)' = Queued(queue', t) + Carried(slot', t) + Ticking(ticks', t)
    BY <1>5 DEF Places, Carried
  <1> QED BY <1>2, <1>6

\* What the steps do to these numbers.
LEMMA QueuedAppend ==
    ASSUME NEW q \in Seq(Txn), NEW t \in Txn, NEW u \in Txn
    PROVE  Queued(Append(q, t), u) = Queued(q, u) + (IF u = t THEN 1 ELSE 0)
  <1>1. Occurrences(Append(q, t), {u}) = Occurrences(q, {u}) + (IF t \in {u} THEN 1 ELSE 0)
    BY OccurrencesAppend
  <1> QED BY <1>1 DEF Queued

LEMMA QueuedTail ==
    ASSUME NEW q \in Seq(Txn), q # <<>>, NEW u \in Txn
    PROVE  Queued(Tail(q), u) = Queued(q, u) - (IF u = Head(q) THEN 1 ELSE 0)
  <1>1. Occurrences(Tail(q), {u}) = Occurrences(q, {u}) - (IF Head(q) \in {u} THEN 1 ELSE 0)
    BY OccurrencesTail
  <1> QED BY <1>1 DEF Queued

LEMMA QueuedConcat ==
    ASSUME NEW q \in Seq(Txn), NEW r \in Seq(Txn), NEW u \in Txn
    PROVE  Queued(q \o r, u) = Queued(q, u) + Queued(r, u)
  BY OccurrencesConcat DEF Queued

LEMMA QueuedSingle ==
    ASSUME NEW t \in Txn, NEW u \in Txn
    PROVE  Queued(<<t>>, u) = (IF u = t THEN 1 ELSE 0)
  <1>1. Occurrences(<<t>>, {u}) = (IF t \in {u} THEN 1 ELSE 0)
    BY OccurrencesSingle
  <1> QED BY <1>1 DEF Queued

LEMMA TickingAppend ==
    ASSUME NEW tk \in Seq(TickRecord), NEW k \in TickRecord, NEW u \in Txn
    PROVE  Ticking(Append(tk, k), u) = Ticking(tk, u) + (IF u = k.txn THEN 1 ELSE 0)
  <1> DEFINE S == {r \in TickRecord : r.txn = u}
  <1>1. Occurrences(Append(tk, k), S) = Occurrences(tk, S) + (IF k \in S THEN 1 ELSE 0)
    BY OccurrencesAppend
  <1>2. k \in S <=> u = k.txn
    OBVIOUS
  <1> QED BY <1>1, <1>2 DEF Ticking

LEMMA TickingTail ==
    ASSUME NEW tk \in Seq(TickRecord), tk # <<>>, NEW u \in Txn
    PROVE  Ticking(Tail(tk), u) = Ticking(tk, u) - (IF u = Head(tk).txn THEN 1 ELSE 0)
  <1> DEFINE S == {r \in TickRecord : r.txn = u}
  <1>1. Occurrences(Tail(tk), S) = Occurrences(tk, S) - (IF Head(tk) \in S THEN 1 ELSE 0)
    BY OccurrencesTail
  <1>2. Head(tk) \in S <=> u = Head(tk).txn
    BY HeadTailProperties
  <1> QED BY <1>1, <1>2 DEF Ticking

LEMMA CarriedBegins ==
    ASSUME NEW sl \in [Slot -> Txn \cup {None}], NEW s \in Slot, NEW t \in Txn, NEW u \in Txn,
           sl[s] = None
    PROVE  Carried([sl EXCEPT ![s] = t], u) = Carried(sl, u) + (IF u = t THEN 1 ELSE 0)
  <1> DEFINE C == {x \in Slot : sl[x] = u}
             D == {x \in Slot : [sl EXCEPT ![s] = t][x] = u}
  <1>1. s \notin C /\ D = IF u = t THEN C \cup {s} ELSE C
    BY NoneAssumption
  <1>2. IsFiniteSet(C) /\ Cardinality(C) \in Nat
    BY CarriedFacts DEF Carried
  <1> HIDE DEF C, D
  <1>3. Cardinality(C \cup {s}) = Cardinality(C) + 1
    BY <1>1, <1>2, FS_AddElement
  <1>4. Cardinality(D) = Cardinality(C) + (IF u = t THEN 1 ELSE 0)
    BY <1>1, <1>2, <1>3
  <1> QED BY <1>4 DEF Carried, C, D

LEMMA CarriedEnds ==
    ASSUME NEW sl \in [Slot -> Txn \cup {None}], NEW s \in Slot, NEW u \in Txn
    PROVE  Carried([sl EXCEPT ![s] = None], u) = Carried(sl, u) - (IF u = sl[s] THEN 1 ELSE 0)
  <1> DEFINE C == {x \in Slot : sl[x] = u}
             D == {x \in Slot : [sl EXCEPT ![s] = None][x] = u}
  <1>1. D = C \ {s} /\ (s \in C <=> u = sl[s])
    BY NoneAssumption
  <1>2. IsFiniteSet(C) /\ Cardinality(C) \in Nat
    BY CarriedFacts DEF Carried
  <1> HIDE DEF C, D
  <1>3. Cardinality(C \ {s}) = IF s \in C THEN Cardinality(C) - 1 ELSE Cardinality(C)
    BY <1>2, FS_RemoveElement
  <1>4. Cardinality(D) = Cardinality(C) - (IF u = sl[s] THEN 1 ELSE 0)
    BY <1>1, <1>2, <1>3
  <1> QED BY <1>4 DEF Carried, C, D

\* The step changes how often t is in the queue, in an exchange and in a tick by
\* these numbers, and leaves every other transaction where it is.
Moves(t, dq, ds, dk) == \A u \in Txn :
    /\ Queued(queue', u) = Queued(queue, u) + (IF u = t THEN dq ELSE 0)
    /\ Carried(slot', u) = Carried(slot, u) + (IF u = t THEN ds ELSE 0)
    /\ Ticking(ticks', u) = Ticking(ticks, u) + (IF u = t THEN dk ELSE 0)

LEMMA MovesPlaces ==
    ASSUME TypeOK, TypeOK', NEW t \in Txn, NEW dq \in Int, NEW ds \in Int, NEW dk \in Int,
           Moves(t, dq, ds, dk), NEW n \in Int, n = dq + ds + dk
    PROVE  \A u \in Txn : /\ Places(u) \in Nat /\ Places(u)' \in Nat
                          /\ Places(u)' = Places(u) + (IF u = t THEN n ELSE 0)
  <1> SUFFICES ASSUME NEW u \in Txn
               PROVE  /\ Places(u) \in Nat /\ Places(u)' \in Nat
                      /\ Places(u)' = Places(u) + (IF u = t THEN n ELSE 0)
    OBVIOUS
  <1>1. /\ Places(u) = Queued(queue, u) + Carried(slot, u) + Ticking(ticks, u)
        /\ Queued(queue, u) \in Nat /\ Carried(slot, u) \in Nat /\ Ticking(ticks, u) \in Nat
    BY PlacesFacts
  <1>2. /\ Places(u)' = Queued(queue', u) + Carried(slot', u) + Ticking(ticks', u)
        /\ Queued(queue', u) \in Nat /\ Carried(slot', u) \in Nat /\ Ticking(ticks', u) \in Nat
    BY PlacesFactsNext
  <1>3. /\ Queued(queue', u) = Queued(queue, u) + (IF u = t THEN dq ELSE 0)
        /\ Carried(slot', u) = Carried(slot, u) + (IF u = t THEN ds ELSE 0)
        /\ Ticking(ticks', u) = Ticking(ticks, u) + (IF u = t THEN dk ELSE 0)
    BY DEF Moves
  <1> QED BY <1>1, <1>2, <1>3

\* What each part of a step does to the numbers of every transaction.
LEMMA TypesOfPlaces ==
    ASSUME TypeOK
    PROVE  /\ queue \in Seq(Txn) /\ repeatables \in Seq(Txn)
           /\ slot \in [Slot -> Txn \cup {None}] /\ ticks \in Seq(TickRecord)
           /\ \A u \in Txn : /\ Queued(queue, u) \in Nat /\ Carried(slot, u) \in Nat
                             /\ Ticking(ticks, u) \in Nat
  BY PlacesFacts DEF TypeOK, TypeRequests, TypeExchanges, TickRecord

LEMMA MovesNothing ==
    ASSUME TypeOK, UNCHANGED <<queue, slot, ticks>>, NEW t
    PROVE  Moves(t, 0, 0, 0)
  <1>1. \A u \in Txn : /\ Queued(queue, u) \in Nat /\ Carried(slot, u) \in Nat
                       /\ Ticking(ticks, u) \in Nat
    BY TypesOfPlaces
  <1> QED BY <1>1 DEF Moves

LEMMA MovesIntoQueue ==
    ASSUME TypeOK, NEW t \in Txn, queue' = Append(queue, t), UNCHANGED <<slot, ticks>>
    PROVE  Moves(t, 1, 0, 0)
  <1>1. ASSUME NEW u \in Txn
        PROVE  Queued(queue', u) = Queued(queue, u) + (IF u = t THEN 1 ELSE 0)
    BY TypesOfPlaces, QueuedAppend
  <1> QED BY <1>1, TypesOfPlaces DEF Moves

LEMMA MovesOutOfQueue ==
    ASSUME TypeOK, queue # <<>>, queue' = Tail(queue), UNCHANGED <<slot, ticks>>
    PROVE  Moves(Head(queue), -1, 0, 0)
  <1>1. ASSUME NEW u \in Txn
        PROVE  Queued(queue', u) = Queued(queue, u) + (IF u = Head(queue) THEN -1 ELSE 0)
    <2>1. Queued(Tail(queue), u) = Queued(queue, u) - (IF u = Head(queue) THEN 1 ELSE 0)
      BY TypesOfPlaces, QueuedTail
    <2> QED BY <2>1, TypesOfPlaces
  <1> QED BY <1>1, TypesOfPlaces DEF Moves

LEMMA MovesToExchange ==
    ASSUME TypeOK, queue # <<>>, queue' = Tail(queue), NEW s \in Slot, slot[s] = None,
           slot' = [slot EXCEPT ![s] = Head(queue)], UNCHANGED ticks
    PROVE  Moves(Head(queue), -1, 1, 0)
  <1>1. ASSUME NEW u \in Txn
        PROVE  Queued(queue', u) = Queued(queue, u) + (IF u = Head(queue) THEN -1 ELSE 0)
    <2>1. Queued(Tail(queue), u) = Queued(queue, u) - (IF u = Head(queue) THEN 1 ELSE 0)
      BY TypesOfPlaces, QueuedTail
    <2> QED BY <2>1, TypesOfPlaces
  <1>2. ASSUME NEW u \in Txn
        PROVE  Carried(slot', u) = Carried(slot, u) + (IF u = Head(queue) THEN 1 ELSE 0)
    <2>1. Head(queue) \in Txn
      BY HeadsType
    <2> QED BY <2>1, TypesOfPlaces, CarriedBegins
  <1>3. ASSUME NEW u \in Txn
        PROVE  Ticking(ticks', u) = Ticking(ticks, u) + (IF u = Head(queue) THEN 0 ELSE 0)
    BY TypesOfPlaces
  <1> QED BY <1>1, <1>2, <1>3 DEF Moves

LEMMA MovesQueueToTick ==
    ASSUME TypeOK, queue # <<>>, queue' = Tail(queue), UNCHANGED slot,
           NEW outcome \in Outcome, NEW counted \in BOOLEAN,
           ticks' = Append(ticks, Tick(Head(queue), outcome, counted))
    PROVE  Moves(Head(queue), -1, 0, 1)
  <1> DEFINE k == Tick(Head(queue), outcome, counted)
  <1>1. ASSUME NEW u \in Txn
        PROVE  Queued(queue', u) = Queued(queue, u) + (IF u = Head(queue) THEN -1 ELSE 0)
    <2>1. Queued(Tail(queue), u) = Queued(queue, u) - (IF u = Head(queue) THEN 1 ELSE 0)
      BY TypesOfPlaces, QueuedTail
    <2> QED BY <2>1, TypesOfPlaces
  <1>2. ASSUME NEW u \in Txn
        PROVE  Ticking(ticks', u) = Ticking(ticks, u) + (IF u = Head(queue) THEN 1 ELSE 0)
    <2>1. k \in TickRecord /\ k.txn = Head(queue)
      BY HeadsType DEF Tick, TickRecord
    <2>2. Ticking(Append(ticks, k), u) = Ticking(ticks, u) + (IF u = k.txn THEN 1 ELSE 0)
      BY <2>1, TypesOfPlaces, TickingAppend
    <2> QED BY <2>1, <2>2
  <1> QED BY <1>1, <1>2, TypesOfPlaces DEF Moves

LEMMA MovesExchangeToTick ==
    ASSUME TypeOK, UNCHANGED queue, NEW s \in Slot, slot[s] # None,
           slot' = [slot EXCEPT ![s] = None],
           NEW outcome \in Outcome, NEW counted \in BOOLEAN,
           ticks' = Append(ticks, Tick(slot[s], outcome, counted))
    PROVE  Moves(slot[s], 0, -1, 1)
  <1> DEFINE k == Tick(slot[s], outcome, counted)
  <1>1. ASSUME NEW u \in Txn
        PROVE  Carried(slot', u) = Carried(slot, u) + (IF u = slot[s] THEN -1 ELSE 0)
    <2>1. Carried([slot EXCEPT ![s] = None], u)
            = Carried(slot, u) - (IF u = slot[s] THEN 1 ELSE 0)
      BY TypesOfPlaces, CarriedEnds
    <2> QED BY <2>1, TypesOfPlaces
  <1>2. ASSUME NEW u \in Txn
        PROVE  Ticking(ticks', u) = Ticking(ticks, u) + (IF u = slot[s] THEN 1 ELSE 0)
    <2>1. k \in TickRecord /\ k.txn = slot[s]
      BY TypesOfPlaces DEF Tick, TickRecord
    <2>2. Ticking(Append(ticks, k), u) = Ticking(ticks, u) + (IF u = k.txn THEN 1 ELSE 0)
      BY <2>1, TypesOfPlaces, TickingAppend
    <2> QED BY <2>1, <2>2
  <1>3. ASSUME NEW u \in Txn
        PROVE  Queued(queue', u) = Queued(queue, u) + (IF u = slot[s] THEN 0 ELSE 0)
    BY TypesOfPlaces
  <1> QED BY <1>1, <1>2, <1>3 DEF Moves

LEMMA MovesOutOfTick ==
    ASSUME TypeOK, ticks # <<>>, ticks' = Tail(ticks), UNCHANGED <<queue, slot>>
    PROVE  Moves(Head(ticks).txn, 0, 0, -1)
  <1>1. ASSUME NEW u \in Txn
        PROVE  Ticking(ticks', u) = Ticking(ticks, u) + (IF u = Head(ticks).txn THEN -1 ELSE 0)
    <2>1. Ticking(Tail(ticks), u) = Ticking(ticks, u) - (IF u = Head(ticks).txn THEN 1 ELSE 0)
      BY TypesOfPlaces, TickingTail
    <2> QED BY <2>1, TypesOfPlaces
  <1> QED BY <1>1, TypesOfPlaces DEF Moves

\* Where 'complete' puts the transaction of the first tick.
Requeues(k) ==
    \/ k.txn \notin cancelled /\ Retries(k.txn, k.outcome)
    \/ Schedules(k.txn, k.outcome) /\ Interval[k.txn] = 0

LEMMA MovesTickToQueue ==
    ASSUME TypeOK, ticks # <<>>, ticks' = Tail(ticks), UNCHANGED slot,
           queue' = NextQueue(Head(ticks).txn, Head(ticks).outcome)
    PROVE  Moves(Head(ticks).txn, IF Requeues(Head(ticks)) THEN 1 ELSE 0, 0, -1)
  <1> DEFINE k == Head(ticks)
             t == k.txn
  <1>1. t \in Txn
    BY HeadsType
  <1>2. ASSUME NEW u \in Txn
        PROVE  Ticking(ticks', u) = Ticking(ticks, u) + (IF u = t THEN -1 ELSE 0)
    <2>1. Ticking(Tail(ticks), u) = Ticking(ticks, u) - (IF u = t THEN 1 ELSE 0)
      BY TypesOfPlaces, TickingTail
    <2> QED BY <2>1, TypesOfPlaces
  <1>3. ASSUME NEW u \in Txn
        PROVE  /\ Requeues(k) => Queued(queue', u) = Queued(queue, u) + (IF u = t THEN 1 ELSE 0)
               /\ ~Requeues(k) => Queued(queue', u) = Queued(queue, u)
    <2>1. CASE t \notin cancelled /\ Retries(t, k.outcome)
      <3>1. queue' = <<t>> \o queue /\ <<t>> \in Seq(Txn)
        BY <1>1, <2>1 DEF NextQueue, Schedules
      <3>2. Queued(<<t>> \o queue, u) = Queued(<<t>>, u) + Queued(queue, u)
        BY <1>1, <3>1, TypesOfPlaces, QueuedConcat
      <3>3. Queued(<<t>>, u) = IF u = t THEN 1 ELSE 0
        BY <1>1, QueuedSingle
      <3>4. Requeues(k)
        BY <2>1 DEF Requeues
      <3>5. Queued(queue, u) \in Nat
        BY TypesOfPlaces
      <3> HIDE DEF t, k
      <3>6. Queued(queue', u) = (IF u = t THEN 1 ELSE 0) + Queued(queue, u)
        BY <3>1, <3>2, <3>3
      <3>7. Queued(queue', u) = Queued(queue, u) + (IF u = t THEN 1 ELSE 0)
        BY <3>5, <3>6
      <3> QED BY <3>4, <3>7
    <2>2. CASE ~(t \notin cancelled /\ Retries(t, k.outcome))
               /\ Schedules(t, k.outcome) /\ Interval[t] = 0
      <3>1. queue' = Append(queue, t) /\ Requeues(k)
        BY <2>2 DEF NextQueue, Requeues
      <3>2. Queued(Append(queue, t), u) = Queued(queue, u) + (IF u = t THEN 1 ELSE 0)
        BY <1>1, TypesOfPlaces, QueuedAppend
      <3> HIDE DEF t, k
      <3> QED BY <3>1, <3>2
    <2>3. CASE ~Requeues(k)
      BY <2>3 DEF NextQueue, Requeues
    <2> QED BY <2>1, <2>2, <2>3 DEF Requeues
  <1> QED BY <1>2, <1>3, TypesOfPlaces DEF Moves

----------------------------------------------------------------------------
\* The invariant behind the theorems on copies and timers.  A transaction is regular
\* while at most one copy of it can be under way: it is one-shot, or no 'open' event
\* queued it again, or the master sends one request at a time and never miscounted.
Strict == MaxConcurrentRequests = 1 /\ uncounted = 0
Regular(t) == t \in OneShot \/ requeues = 0 \/ Strict

\* The timer of a regular transaction guards the exchange that carries it, and its
\* handle points at that timer.
Guarded == \A s \in Slot, t \in Txn : Regular(t) =>
    /\ slot[s] = t => timer[s] = t
    /\ timer[s] = t => slot[s] = t /\ handle[t] = s
HandleTrue == \A t \in Txn : handle[t] # None => timer[handle[t]] = t

\* A one-shot request that was issued is in one place or has met one fate; destroy()
\* may lose it.
Fate(t) ==
    (IF t \in done THEN 1 ELSE 0) + (IF t \in thrown THEN 1 ELSE 0)
  + (IF t \in swallowed THEN 1 ELSE 0) + (IF t \in detached THEN 1 ELSE 0)
Located == \A t \in OneShot :
    /\ Places(t) + Fate(t) <= (IF t \in issued THEN 1 ELSE 0)
    /\ ~destroyed => Places(t) + Fate(t) = (IF t \in issued THEN 1 ELSE 0)

\* The copies of any transaction, the scheduled one included, are one and one more
\* for each time 'open' queued them all again.
Copies == requeues = 0 \/ Strict =>
    \A t \in Txn : Places(t) + waiting[t] <= (IF t \in issued THEN 1 ELSE 0) + requeues

\* What the list of repeatable transactions holds, and what destroy() leaves.
OneShotApart == \A t \in OneShot : waiting[t] = 0 /\ t \notin ToSet(repeatables)
RepeatedOnce == \A t \in Txn :
    /\ Queued(repeatables, t) <= (IF t \in issued THEN 1 ELSE 0)
    /\ (t \notin OneShot /\ t \in issued \ cancelled /\ ~destroyed) => t \in ToSet(repeatables)
DestroyedLast == ~destroyed => detached = {} /\ ~crashed
DestroyedEmpty ==
    destroyed => queue = <<>> /\ repeatables = <<>> /\ \A s \in Slot : slot[s] = None

CopyInv ==
    /\ AccountingInv
    /\ Guarded /\ HandleTrue
    /\ Located /\ Copies
    /\ OneShotApart /\ RepeatedOnce
    /\ DestroyedLast /\ DestroyedEmpty

\* Facts about one transaction that follow from the invariant.
LEMMA FateFacts ==
    ASSUME NEW t
    PROVE  /\ Fate(t) \in Nat
           /\ Fate(t) = 0 <=> t \notin done \cup thrown \cup swallowed \cup detached
  BY DEF Fate

LEMMA OneShotAlone ==
    ASSUME CopyInv, NEW t \in OneShot, Places(t) >= 1
    PROVE  /\ t \in issued /\ Places(t) = 1 /\ Fate(t) = 0
           /\ t \notin done \cup thrown \cup swallowed \cup detached
  <1>1. t \in Txn /\ Places(t) \in Nat /\ Fate(t) \in Nat
    BY PlacesFacts, FateFacts DEF OneShot, CopyInv, AccountingInv
  <1>2. Places(t) + Fate(t) <= (IF t \in issued THEN 1 ELSE 0)
    BY DEF CopyInv, Located
  <1> QED BY <1>1, <1>2, FateFacts

\* A step that moves t by n places, and its fate and execution timer along with it,
\* keeps both counts.
LEMMA CountsMove ==
    ASSUME CopyInv, TypeOK', NEW t \in Txn, NEW n \in Int,
           \A u \in Txn : Places(u)' = Places(u) + (IF u = t THEN n ELSE 0),
           requeues' = requeues, uncounted' = 0 => uncounted = 0,
           issued' = issued, destroyed' = destroyed,
           \A u \in Txn : u # t => Fate(u)' = Fate(u) /\ waiting'[u] = waiting[u],
           t \in OneShot => Fate(t)' + n <= Fate(t) /\ (~destroyed => Fate(t)' + n = Fate(t)),
           requeues = 0 \/ Strict => waiting'[t] + n <= waiting[t]
    PROVE  Located' /\ Copies'
  <1>1. TypeOK
    BY DEF CopyInv, AccountingInv
  <1>2. ASSUME NEW u \in Txn
        PROVE  /\ Places(u) \in Nat /\ Places(u)' \in Nat
               /\ u # t => Places(u)' = Places(u)
               /\ u = t => Places(u)' = Places(u) + n
    BY <1>1, PlacesFacts, PlacesFactsNext
  <1>3. \A u : Fate(u) \in Nat /\ Fate(u)' \in Nat
    BY DEF Fate
  <1>4. ASSUME NEW u \in OneShot
        PROVE  /\ Places(u)' + Fate(u)' <= (IF u \in issued' THEN 1 ELSE 0)
               /\ ~destroyed' => Places(u)' + Fate(u)' = (IF u \in issued' THEN 1 ELSE 0)
    <2>1. u \in Txn
      BY DEF OneShot
    <2>2. /\ Places(u) + Fate(u) <= (IF u \in issued THEN 1 ELSE 0)
          /\ ~destroyed => Places(u) + Fate(u) = (IF u \in issued THEN 1 ELSE 0)
      BY DEF CopyInv, Located
    <2>3. CASE u = t
      BY <1>2, <1>3, <2>1, <2>2, <2>3
    <2>4. CASE u # t
      BY <1>2, <1>3, <2>1, <2>2, <2>4
    <2> QED BY <2>3, <2>4
  <1>5. Located'
    BY <1>4 DEF Located, OneShot, IsRepeatable
  <1>6. ASSUME requeues' = 0 \/ Strict', NEW u \in Txn
        PROVE  Places(u)' + waiting'[u] <= (IF u \in issued' THEN 1 ELSE 0) + requeues'
    <2>1. requeues = 0 \/ Strict
      BY <1>6 DEF Strict
    <2>2. Places(u) + waiting[u] <= (IF u \in issued THEN 1 ELSE 0) + requeues
      BY <2>1 DEF CopyInv, Copies
    <2>3. waiting[u] \in Nat /\ waiting'[u] \in Nat /\ requeues \in Nat
      BY <1>1 DEF TypeOK, TypeExchanges, TypeHistory
    <2>4. CASE u = t
      BY <1>2, <2>1, <2>2, <2>3, <2>4
    <2>5. CASE u # t
      BY <1>2, <2>2, <2>3, <2>5
    <2> QED BY <2>4, <2>5
  <1> QED BY <1>5, <1>6 DEF Copies

\* In the loop, a regular transaction at the head of the queue is in no exchange.
LEMMA HeadNotCarried ==
    ASSUME CopyInv, InLoop, Regular(Head(queue)), NEW s \in Slot
    PROVE  slot[s] # Head(queue) /\ timer[s] # Head(queue)
  <1> DEFINE t == Head(queue)
  <1>1. TypeOK /\ queue # <<>> /\ t \in Txn /\ t \in ToSet(queue)
    <2>1. TypeOK /\ queue # <<>> /\ queue \in Seq(Txn)
      BY DEF CopyInv, AccountingInv, TypeOK, TypeRequests, InLoop
    <2>2. t = queue[1] /\ 1 \in DOMAIN queue
      BY <2>1
    <2> QED BY <2>1, <2>2, HeadsType DEF ToSet
  <1>2. /\ Places(t) = Queued(queue, t) + Carried(slot, t) + Ticking(ticks, t)
        /\ Queued(queue, t) \in Nat /\ Carried(slot, t) \in Nat /\ Ticking(ticks, t) \in Nat
        /\ Queued(queue, t) > 0
        /\ Carried(slot, t) > 0 <=> \E x \in Slot : slot[x] = t
    BY <1>1, PlacesFacts
  <1>3. slot[s] # t
    <2>1. CASE t \in OneShot
      BY <1>2, <2>1, OneShotAlone
    <2>2. CASE requeues = 0
      <3>1. Places(t) + waiting[t] <= (IF t \in issued THEN 1 ELSE 0) + requeues
        BY <1>1, <2>2 DEF CopyInv, Copies
      <3>2. waiting[t] \in Nat
        BY <1>1 DEF TypeOK, TypeExchanges
      <3> QED BY <1>2, <2>2, <3>1, <3>2
    <2>3. CASE Strict
      <3>1. executing <= 0 /\ executing \in Int /\ leaked \in Nat /\ uncounted = 0
        BY <1>1, <2>3 DEF InLoop, Strict, TypeOK, TypeRequests, TypeHistory
      <3>2. ~destroyed
        BY <1>1 DEF CopyInv, DestroyedEmpty
      <3>3. executing = Cardinality(Busy) + Cardinality(Counted(ticks)) + leaked - uncounted
        BY <3>2 DEF CopyInv, AccountingInv, Accounting, Outstanding
      <3>4. Cardinality(Busy) \in Nat /\ Cardinality(Counted(ticks)) \in Nat
        BY <1>1, BusyFinite, TicksFinite
      <3>5. Cardinality(Busy) = 0
        BY <3>1, <3>3, <3>4
      <3>6. Busy = {}
        BY <1>1, <3>5, BusyFinite, FS_EmptySet
      <3> QED BY <1>1, <3>6, NoneAssumption DEF Busy
    <2> QED BY <2>1, <2>2, <2>3 DEF Regular
  <1>4. timer[s] = t => slot[s] = t
    BY <1>1 DEF CopyInv, Guarded
  <1> QED BY <1>3, <1>4

\* The steps of the application and of the sending loop keep the counts.
LEMMA CopiesApplication ==
    ASSUME CopyInv, TypeOK', Application PROVE Located' /\ Copies'
  <1>t. TypeOK
    BY DEF CopyInv, AccountingInv
  <1>f. \A u : Fate(u) \in Nat /\ Fate(u)' \in Nat
    BY DEF Fate
  <1>1. ASSUME NEW t \in Txn, Execute(t) PROVE Located' /\ Copies'
    <2>1. /\ queue' = Append(queue, t) /\ t \notin issued /\ issued' = issued \cup {t}
          /\ UNCHANGED <<slot, ticks, waiting, requeues, uncounted, destroyed,
                         done, thrown, swallowed, detached>>
      BY <1>1 DEF Execute, exchanges, shutdown, history
    <2>2. Moves(t, 1, 0, 0)
      BY <1>t, <2>1, MovesIntoQueue
    <2>3. \A u \in Txn : /\ Places(u) \in Nat /\ Places(u)' \in Nat
                         /\ Places(u)' = Places(u) + (IF u = t THEN 1 ELSE 0)
      BY <1>t, <2>2, MovesPlaces
    <2>4. \A u : Fate(u)' = Fate(u)
      BY <2>1 DEF Fate
    <2>5. ASSUME NEW u \in OneShot
          PROVE  Places(u)' + Fate(u)' = (IF u \in issued' THEN 1 ELSE 0)
      <3>1. u \in Txn /\ ~destroyed
        BY <1>1 DEF OneShot, Execute
      <3>2. Places(u) + Fate(u) = (IF u \in issued THEN 1 ELSE 0)
        BY <3>1 DEF CopyInv, Located
      <3> QED BY <1>f, <2>1, <2>3, <2>4, <3>1, <3>2
    <2>6. Located'
      <3>1. \A u \in OneShot' : u \in OneShot
        BY DEF OneShot, IsRepeatable
      <3>2. \A u \in OneShot : Places(u)' \in Nat /\ Fate(u)' \in Nat
        BY <2>3, <1>f DEF OneShot
      <3> QED BY <2>5, <3>1, <3>2 DEF Located
    <2>7. ASSUME requeues' = 0 \/ Strict', NEW u \in Txn
          PROVE  Places(u)' + waiting'[u] <= (IF u \in issued' THEN 1 ELSE 0) + requeues'
      <3>1. Places(u) + waiting[u] <= (IF u \in issued THEN 1 ELSE 0) + requeues
        BY <2>1, <2>7 DEF CopyInv, Copies, Strict
      <3>2. waiting[u] \in Nat /\ requeues \in Nat
        BY <1>t DEF TypeOK, TypeExchanges, TypeHistory
      <3> QED BY <2>1, <2>3, <3>1, <3>2
    <2> QED BY <2>6, <2>7 DEF Copies
  <1>2. ASSUME NEW t \in Txn, Cancel(t) PROVE Located' /\ Copies'
    <2>1. UNCHANGED <<queue, slot, ticks, waiting, requeues, uncounted, destroyed, issued,
                      done, thrown, swallowed, detached>>
      BY <1>2 DEF Cancel, exchanges, shutdown, history
    <2>2. Moves(t, 0, 0, 0)
      BY <1>t, <2>1, MovesNothing
    <2>3. \A u : Fate(u)' = Fate(u)
      BY <2>1 DEF Fate
    <2>4. waiting[t] \in Nat /\ Fate(t)' + 0 = Fate(t)
      BY <1>t, <1>f, <2>3 DEF TypeOK, TypeExchanges
    <2>5. \A u \in Txn : Places(u)' = Places(u) + (IF u = t THEN 0 ELSE 0)
      BY <1>t, <2>2, MovesPlaces
    <2>6. waiting'[t] + 0 <= waiting[t]
      BY <2>1, <2>4
    <2> QED BY <1>f, <2>1, <2>3, <2>4, <2>5, <2>6, CountsMove
  <1>3. CASE Destroy
    <2> DEFINE Reached == ToSet(queue) \cup ToSet(repeatables) \cup {slot[s] : s \in Busy}
    <2>1. /\ destroyed' /\ detached' = Reached /\ queue' = <<>>
          /\ slot' = [s \in Slot |-> None]
          /\ ~destroyed
          /\ waiting' = [t \in Txn |-> IF t \in Reached THEN LeftWaiting(t) ELSE waiting[t]]
          /\ UNCHANGED <<ticks, issued, done, thrown, swallowed, requeues, uncounted>>
      BY <1>3 DEF Destroy
    <2>2. ASSUME NEW u \in Txn
          PROVE  /\ Places(u) = Queued(queue, u) + Carried(slot, u) + Ticking(ticks, u)
                 /\ Queued(queue, u) \in Nat /\ Carried(slot, u) \in Nat
                 /\ Ticking(ticks, u) \in Nat
                 /\ Queued(queue, u) > 0 <=> u \in ToSet(queue)
                 /\ Carried(slot, u) > 0 <=> \E s \in Slot : slot[s] = u
                 /\ Places(u)' = Ticking(ticks, u)
      <3>1. Places(u)' = Queued(queue', u) + Carried(slot', u) + Ticking(ticks', u)
        BY PlacesFactsNext
      <3>2. Queued(queue', u) = 0
        BY <2>1, OccurrencesEmpty DEF Queued
      <3>3. Carried(slot', u) = 0
        <4>1. \A s \in Slot : slot'[s] # u
          BY <2>1, NoneAssumption
        <4> QED BY <4>1, CarriedFacts
      <3>4. /\ Places(u) = Queued(queue, u) + Carried(slot, u) + Ticking(ticks, u)
            /\ Queued(queue, u) \in Nat /\ Carried(slot, u) \in Nat
            /\ Ticking(ticks, u) \in Nat
            /\ Queued(queue, u) > 0 <=> u \in ToSet(queue)
            /\ Carried(slot, u) > 0 <=> \E s \in Slot : slot[s] = u
        BY <1>t, PlacesFacts
      <3>5. Places(u)' = Ticking(ticks, u)
        BY <2>1, <3>1, <3>2, <3>3, <3>4
      <3> QED BY <3>4, <3>5
    <2>3. ASSUME NEW u \in OneShot
          PROVE  Places(u)' + Fate(u)' <= (IF u \in issued' THEN 1 ELSE 0)
      <3>1. u \in Txn /\ u \notin ToSet(repeatables)
        BY DEF OneShot, CopyInv, OneShotApart
      <3>2. Places(u) + Fate(u) <= (IF u \in issued THEN 1 ELSE 0)
        BY DEF CopyInv, Located
      <3>3. detached = {}
        BY <2>1 DEF CopyInv, DestroyedLast
      <3>4. Fate(u)' = Fate(u) + (IF u \in Reached THEN 1 ELSE 0)
        BY <2>1, <3>3 DEF Fate
      <3>5. CASE u \in Reached
        <4>1. Queued(queue, u) + Carried(slot, u) >= 1
          BY <2>2, <3>1, <3>5 DEF Busy
        <4> QED BY <1>f, <2>1, <2>2, <3>1, <3>2, <3>4, <3>5, <4>1
      <3>6. CASE u \notin Reached
        BY <1>f, <2>1, <2>2, <3>1, <3>2, <3>4, <3>6
      <3> QED BY <3>5, <3>6
    <2>4. Located'
      <3>1. \A u \in OneShot' : u \in OneShot
        BY DEF OneShot, IsRepeatable
      <3> QED BY <2>1, <2>3, <3>1 DEF Located
    <2>5. ASSUME requeues' = 0 \/ Strict', NEW u \in Txn
          PROVE  Places(u)' + waiting'[u] <= (IF u \in issued' THEN 1 ELSE 0) + requeues'
      <3>1. Places(u) + waiting[u] <= (IF u \in issued THEN 1 ELSE 0) + requeues
        BY <2>1, <2>5 DEF CopyInv, Copies, Strict
      <3>2. waiting[u] \in Nat /\ requeues \in Nat
        BY <1>t DEF TypeOK, TypeExchanges, TypeHistory
      <3>3. waiting'[u] <= waiting[u] /\ waiting'[u] \in Nat
        BY <2>1, <3>2 DEF LeftWaiting
      <3> QED BY <2>1, <2>2, <3>1, <3>2, <3>3
    <2> QED BY <2>4, <2>5 DEF Copies
  <1> QED BY <1>1, <1>2, <1>3 DEF Application

LEMMA CopiesLoop ==
    ASSUME CopyInv, TypeOK', Loop PROVE Located' /\ Copies'
  <1>t. TypeOK
    BY DEF CopyInv, AccountingInv
  <1>f. \A u : Fate(u) \in Nat /\ Fate(u)' \in Nat
    BY DEF Fate
  <1>l. queue # <<>> /\ InLoop
    BY DEF Loop, SendThrows, DropCancelled, SendNext, InLoop
  <1>h. PICK t \in Txn : t = Head(queue)
    BY <1>t, <1>l, HeadsType
  <1>w. \A u \in Txn : waiting[u] \in Nat
    BY <1>t DEF TypeOK, TypeExchanges
  <1>1. CASE SendThrows
    <2>1. /\ queue' = Tail(queue) /\ thrown' = thrown \cup {t}
          /\ UNCHANGED <<slot, ticks, waiting, requeues, uncounted, destroyed, issued,
                         done, swallowed, detached>>
      BY <1>1, <1>h DEF SendThrows, exchanges, shutdown
    <2>2. Moves(t, -1, 0, 0)
      BY <1>t, <1>l, <1>h, <2>1, MovesOutOfQueue
    <2>3. \A u \in Txn : u # t => Fate(u)' = Fate(u)
      BY <2>1 DEF Fate
    <2>4. ASSUME t \in OneShot PROVE Fate(t)' + (-1) = Fate(t)
      <3>1. Places(t) >= 1
        <4>1. t \in ToSet(queue)
          BY <1>t, <1>l, <1>h DEF ToSet, TypeOK, TypeRequests
        <4> QED BY <1>t, <4>1, PlacesFacts
      <3>2. t \notin thrown
        BY <2>4, <3>1, OneShotAlone
      <3> QED BY <2>1, <3>2 DEF Fate
    <2>5. \A u \in Txn : Places(u)' = Places(u) + (IF u = t THEN -1 ELSE 0)
      BY <1>t, <2>2, MovesPlaces
    <2>6. waiting'[t] + (-1) <= waiting[t]
      BY <1>w, <2>1
    <2> QED BY <1>f, <2>1, <2>3, <2>4, <2>5, <2>6, CountsMove
  \* The head of the queue moves on, and nothing settles.
  <1>m. ASSUME NEW ds \in Int, NEW dk \in Int, ds + dk = 1, Moves(t, -1, ds, dk),
               UNCHANGED <<waiting, requeues, uncounted, destroyed, issued,
                           done, thrown, swallowed, detached>>
        PROVE  Located' /\ Copies'
    <2>1. \A u \in Txn : Places(u)' = Places(u) + (IF u = t THEN 0 ELSE 0)
      <3>1. -1 \in Int /\ 0 \in Int /\ 0 = -1 + ds + dk
        BY <1>m
      <3> QED BY <1>t, <1>m, <3>1, MovesPlaces
    <2>2. \A u \in Txn : Fate(u)' = Fate(u)
      BY <1>m DEF Fate
    <2>3. waiting'[t] + 0 <= waiting[t] /\ Fate(t)' + 0 = Fate(t)
      BY <1>f, <1>w, <1>m, <2>2
    <2> QED BY <1>f, <1>m, <2>1, <2>2, <2>3, CountsMove
  <1>2. CASE DropCancelled
    <2>1. /\ queue' = Tail(queue) /\ ticks' = Append(ticks, Tick(t, "error", FALSE))
          /\ UNCHANGED <<slot, waiting, requeues, uncounted, destroyed, issued,
                         done, thrown, swallowed, detached>>
      BY <1>2, <1>h DEF DropCancelled, Settle, shutdown, history
    <2>2. FALSE \in BOOLEAN /\ "error" \in Outcome
      BY DEF Outcome
    <2>3. Moves(t, -1, 0, 1)
      BY <1>t, <1>l, <1>h, <2>1, <2>2, MovesQueueToTick
    <2> QED BY <1>m, <2>1, <2>3
  <1>3. ASSUME NEW s \in Slot, SendNext(s) PROVE Located' /\ Copies'
    <2>1. /\ queue' = Tail(queue) /\ slot[s] = None /\ slot' = [slot EXCEPT ![s] = t]
          /\ UNCHANGED <<ticks, waiting, requeues, uncounted, destroyed, issued,
                         done, thrown, swallowed, detached>>
      BY <1>3, <1>h DEF SendNext, shutdown
    <2>2. Moves(t, -1, 1, 0)
      BY <1>t, <1>l, <1>h, <2>1, MovesToExchange
    <2> QED BY <1>m, <2>1, <2>2
  <1> QED BY <1>1, <1>2, <1>3 DEF Loop

\* The transaction of the first tick is one of Txn and takes a place.
LEMMA HeadTicks ==
    ASSUME CopyInv, ticks # <<>>
    PROVE  /\ Head(ticks) \in TickRecord /\ Head(ticks).txn \in Txn
           /\ Ticking(ticks, Head(ticks).txn) >= 1
           /\ Places(Head(ticks).txn) >= 1
  <1>1. TypeOK /\ ticks \in Seq(TickRecord)
    BY TypesOfPlaces DEF CopyInv, AccountingInv
  <1>2. Head(ticks) \in TickRecord /\ Head(ticks).txn \in Txn
    BY <1>1, HeadTailProperties, HeadsType
  <1>3. 1 \in DOMAIN ticks /\ ticks[1] = Head(ticks)
    BY <1>1, EmptySeq
  <1>4. PICK t \in Txn : t = Head(ticks).txn
    BY <1>2
  <1>5. /\ Places(t) = Queued(queue, t) + Carried(slot, t) + Ticking(ticks, t)
        /\ Queued(queue, t) \in Nat /\ Carried(slot, t) \in Nat /\ Ticking(ticks, t) \in Nat
        /\ Ticking(ticks, t) > 0
    <2>1. \E i \in DOMAIN ticks : ticks[i].txn = t
      BY <1>3, <1>4
    <2> QED BY <1>1, <2>1, PlacesFacts
  <1>6. Ticking(ticks, t) >= 1 /\ Places(t) >= 1
    BY <1>5
  <1> QED BY <1>2, <1>4, <1>6

LEMMA CopiesTicks ==
    ASSUME CopyInv, TypeOK', Ticks PROVE Located' /\ Copies'
  <1>t. TypeOK
    BY DEF CopyInv, AccountingInv
  <1>f. \A u : Fate(u) \in Nat /\ Fate(u)' \in Nat
    BY DEF Fate
  <1>l. ticks # <<>>
    BY DEF Ticks, TickEvent, TickComplete
  <1>h. PICK t \in Txn : t = Head(ticks).txn
    BY <1>l, HeadTicks
  <1>p. Places(t) >= 1
    BY <1>l, <1>h, HeadTicks
  <1>w. \A u \in Txn : waiting[u] \in Nat
    BY <1>t DEF TypeOK, TypeExchanges
  <1>1. CASE TickEvent /\ ~Throws(Head(ticks))
    <2>1. UNCHANGED <<queue, slot, ticks, waiting, requeues, uncounted, destroyed, issued,
                      done, thrown, swallowed, detached>>
      BY <1>1 DEF TickEvent, requests
    <2>2. Moves(t, 0, 0, 0)
      BY <1>t, <2>1, MovesNothing
    <2>3. \A u \in Txn : Fate(u)' = Fate(u)
      BY <2>1 DEF Fate
    <2>4. \A u \in Txn : Places(u)' = Places(u) + (IF u = t THEN 0 ELSE 0)
      BY <1>t, <2>2, MovesPlaces
    <2>5. waiting'[t] + 0 <= waiting[t] /\ Fate(t)' + 0 = Fate(t)
      BY <1>w, <1>f, <2>1, <2>3
    <2> QED BY <1>f, <2>1, <2>3, <2>4, <2>5, CountsMove
  <1>2. CASE TickEvent /\ Throws(Head(ticks))
    <2>1. /\ ticks' = Tail(ticks) /\ swallowed' = swallowed \cup {t}
          /\ UNCHANGED <<queue, slot, waiting, requeues, uncounted, destroyed, issued,
                         done, thrown, detached>>
      BY <1>2, <1>h DEF TickEvent, requests
    <2>2. Moves(t, 0, 0, -1)
      BY <1>t, <1>l, <1>h, <2>1, MovesOutOfTick
    <2>3. \A u \in Txn : u # t => Fate(u)' = Fate(u)
      BY <2>1 DEF Fate
    <2>4. ASSUME t \in OneShot PROVE Fate(t)' + (-1) = Fate(t)
      <3>1. t \notin swallowed
        BY <1>p, <2>4, OneShotAlone
      <3> QED BY <2>1, <3>1 DEF Fate
    <2>5. \A u \in Txn : Places(u)' = Places(u) + (IF u = t THEN -1 ELSE 0)
      BY <1>t, <2>2, MovesPlaces
    <2>6. waiting'[t] + (-1) <= waiting[t]
      BY <1>w, <2>1
    <2> QED BY <1>f, <2>1, <2>3, <2>4, <2>5, <2>6, CountsMove
  <1>3. CASE TickComplete /\ ~destroyed
    <2> DEFINE k == Head(ticks)
               again == t \notin cancelled /\ Retries(t, k.outcome)
               scheduled == Schedules(t, k.outcome)
    <2>1. /\ ticks' = Tail(ticks) /\ queue' = NextQueue(t, k.outcome)
          /\ waiting' = IF scheduled /\ Interval[t] > 0
                        THEN [waiting EXCEPT ![t] = @ + 1] ELSE waiting
          /\ done' = IF again \/ scheduled THEN done ELSE done \cup {t}
          /\ uncounted' = IF k.counted THEN uncounted ELSE uncounted + 1
          /\ UNCHANGED <<slot, requeues, destroyed, issued, thrown, swallowed, detached>>
      BY <1>3, <1>h DEF TickComplete, Complete
    <2>2. Moves(t, IF Requeues(k) THEN 1 ELSE 0, 0, -1)
      BY <1>t, <1>l, <1>h, <2>1, MovesTickToQueue
    <2>3. Requeues(k) <=> again \/ (scheduled /\ Interval[t] = 0)
      BY <1>h DEF Requeues
    <2>4. again => ~scheduled
      BY DEF Schedules
    <2>5. uncounted' = 0 => uncounted = 0
      <3>1. uncounted \in Nat
        BY <1>t DEF TypeOK, TypeHistory
      <3> QED BY <2>1, <3>1
    <2>6. \A u \in Txn : u # t => Fate(u)' = Fate(u) /\ waiting'[u] = waiting[u]
      <3>1. \A u \in Txn : u # t => (u \in done' <=> u \in done)
        BY <2>1
      <3>2. waiting \in [Txn -> Nat]
        BY <1>t DEF TypeOK, TypeExchanges
      <3>3. \A u \in Txn : u # t => waiting'[u] = waiting[u]
        BY <2>1, <3>2
      <3> QED BY <2>1, <3>1, <3>3 DEF Fate
    <2>7. scheduled => t \notin OneShot /\ Interval[t] \in Nat
      BY IntervalAssumption DEF Schedules, OneShot, IsRepeatable
    <2>8. waiting \in [Txn -> Nat]
      BY <1>t DEF TypeOK, TypeExchanges
    <2> HIDE DEF k, again, scheduled
    <2>9. CASE Requeues(k)
      <3>1. Moves(t, 1, 0, -1)
        BY <2>2, <2>9
      <3>2. \A u \in Txn : Places(u)' = Places(u) + (IF u = t THEN 0 ELSE 0)
        BY <1>t, <3>1, MovesPlaces
      <3>3. done' = done /\ waiting' = waiting
        BY <2>1, <2>3, <2>4, <2>9
      <3>4. Fate(t)' + 0 = Fate(t)
        <4>1. Fate(t)' = Fate(t)
          BY <2>1, <3>3 DEF Fate
        <4> QED BY <1>f, <4>1
      <3>5. waiting'[t] + 0 <= waiting[t]
        BY <1>w, <3>3
      <3> QED BY <1>f, <2>1, <2>5, <2>6, <3>2, <3>4, <3>5, CountsMove
    <2>10. CASE ~Requeues(k)
      <3>1. Moves(t, 0, 0, -1)
        BY <2>2, <2>10
      <3>2. \A u \in Txn : Places(u)' = Places(u) + (IF u = t THEN -1 ELSE 0)
        BY <1>t, <3>1, MovesPlaces
      <3>3. t \in OneShot => Fate(t)' + (-1) = Fate(t)
        <4> SUFFICES ASSUME t \in OneShot PROVE Fate(t)' + (-1) = Fate(t)
          OBVIOUS
        <4>1. t \notin done /\ done' = done \cup {t}
          BY <1>p, <2>1, <2>3, <2>7, <2>10, OneShotAlone
        <4> QED BY <2>1, <4>1 DEF Fate
      <3>4. waiting'[t] + (-1) <= waiting[t]
        BY <1>w, <2>1, <2>8
      <3> QED BY <1>f, <2>1, <2>5, <2>6, <3>2, <3>3, <3>4, CountsMove
    <2> QED BY <2>9, <2>10
  <1>4. CASE TickComplete /\ destroyed
    <2>1. /\ ticks' = Tail(ticks)
          /\ UNCHANGED <<queue, slot, waiting, requeues, uncounted, destroyed, issued,
                         done, thrown, swallowed, detached>>
      BY <1>4 DEF TickComplete
    <2>2. Moves(t, 0, 0, -1)
      BY <1>t, <1>l, <1>h, <2>1, MovesOutOfTick
    <2>3. \A u \in Txn : Fate(u)' = Fate(u)
      BY <2>1 DEF Fate
    <2>4. \A u \in Txn : Places(u)' = Places(u) + (IF u = t THEN -1 ELSE 0)
      BY <1>t, <2>2, MovesPlaces
    <2>5. waiting'[t] + (-1) <= waiting[t] /\ Fate(t)' + (-1) <= Fate(t)
      BY <1>w, <1>f, <2>1, <2>3
    <2> QED BY <1>4, <1>f, <2>1, <2>3, <2>4, <2>5, CountsMove
  <1> QED BY <1>1, <1>2, <1>3, <1>4 DEF Ticks

LEMMA CopiesCallbacks ==
    ASSUME CopyInv, TypeOK', Timers \/ Remote PROVE Located' /\ Copies'
  <1>t. TypeOK
    BY DEF CopyInv, AccountingInv
  <1>f. \A u : Fate(u) \in Nat /\ Fate(u)' \in Nat
    BY DEF Fate
  <1>w. waiting \in [Txn -> Nat] /\ slot \in [Slot -> Txn \cup {None}]
          /\ timer \in [Slot -> Txn \cup {None}]
    BY <1>t DEF TypeOK, TypeExchanges
  \* A transaction that is regular is carried by the exchange its timer guards.
  <1>1. ASSUME NEW s \in Slot, Timeout(s) PROVE Located' /\ Copies'
    <2>1. /\ timer[s] \in Txn /\ ticks' = Append(ticks, Tick(timer[s], "error", slot[s] # None))
          /\ slot' = [slot EXCEPT ![s] = None]
          /\ UNCHANGED <<queue, waiting, requeues, uncounted, destroyed, issued,
                         done, thrown, swallowed, detached>>
      BY <1>1, <1>w DEF Timeout, EventLoop, requests, shutdown, history
    <2>2. PICK t \in Txn : t = timer[s]
      BY <2>1
    <2>3. (slot[s] # None) \in BOOLEAN /\ "error" \in Outcome
      BY DEF Outcome
    <2>4. \A u \in Txn : Fate(u)' = Fate(u)
      BY <2>1 DEF Fate
    <2>5. CASE slot[s] = t
      <3>1. Moves(t, 0, -1, 1)
        BY <1>t, <2>1, <2>2, <2>3, <2>5, NoneAssumption, MovesExchangeToTick
      <3>2. \A u \in Txn : Places(u)' = Places(u) + (IF u = t THEN 0 ELSE 0)
        BY <1>t, <3>1, MovesPlaces
      <3>3. waiting'[t] + 0 <= waiting[t] /\ Fate(t)' + 0 = Fate(t)
        BY <1>w, <1>f, <2>1, <2>4
      <3> QED BY <1>f, <2>1, <2>4, <3>2, <3>3, CountsMove
    <2>6. CASE slot[s] # t
      \* Then neither t nor the transaction the exchange carries is regular.
      <3>1. ~Regular(t) /\ t \notin OneShot /\ ~(requeues = 0 \/ Strict)
        BY <2>2, <2>6 DEF CopyInv, Guarded, Regular
      <3>2. ~(requeues' = 0 \/ Strict')
        BY <2>1, <3>1 DEF Strict
      <3>3. slot[s] # None => slot[s] \notin OneShot
        <4>1. CASE slot[s] \in OneShot
          <5>1. slot[s] \in Txn /\ Regular(slot[s])
            BY <4>1 DEF OneShot, Regular
          <5>2. timer[s] = slot[s]
            BY <5>1 DEF CopyInv, Guarded
          <5> QED BY <2>2, <2>6, <5>2
        <4> QED BY <4>1
      <3>4. ASSUME NEW u \in OneShot PROVE Places(u)' = Places(u)
        <4>1. u \in Txn /\ u # t /\ u # slot[s]
          BY <3>1, <3>3, NoneAssumption DEF OneShot
        <4>2. Carried(slot', u) = Carried(slot, u)
          <5>1. Carried([slot EXCEPT ![s] = None], u)
                  = Carried(slot, u) - (IF u = slot[s] THEN 1 ELSE 0)
            BY <1>w, <4>1, CarriedEnds
          <5>2. Carried(slot, u) \in Nat
            BY CarriedFacts
          <5> QED BY <2>1, <4>1, <5>1, <5>2
        <4>3. Ticking(ticks', u) = Ticking(ticks, u)
          <5> DEFINE k == Tick(t, "error", slot[s] # None)
          <5>1. k \in TickRecord /\ k.txn = t
            BY <2>3 DEF Tick, TickRecord
          <5>2. Ticking(Append(ticks, k), u) = Ticking(ticks, u) + (IF u = k.txn THEN 1 ELSE 0)
            BY <1>t, <4>1, <5>1, TypesOfPlaces, TickingAppend
          <5>3. Ticking(ticks, u) \in Nat
            BY <1>t, <4>1, TypesOfPlaces
          <5> QED BY <2>1, <2>2, <4>1, <5>1, <5>2, <5>3
        <4> QED BY <1>t, <2>1, <4>1, <4>2, <4>3, PlacesFacts, PlacesFactsNext
      <3>5. Located'
        <4>1. \A u \in OneShot' : u \in OneShot /\ u \in Txn
          BY DEF OneShot, IsRepeatable
        <4> QED BY <2>1, <2>4, <3>4, <4>1 DEF CopyInv, Located
      <3> QED BY <3>2, <3>5 DEF Copies
    <2> QED BY <2>5, <2>6
  <1>2. ASSUME NEW s \in Slot, NEW outcome \in Outcome, Answer(s, outcome)
        PROVE  Located' /\ Copies'
    <2>1. /\ slot[s] # None /\ ticks' = Append(ticks, Tick(slot[s], outcome, TRUE))
          /\ slot' = [slot EXCEPT ![s] = None]
          /\ UNCHANGED <<queue, waiting, requeues, uncounted, destroyed, issued,
                         done, thrown, swallowed, detached>>
      BY <1>2 DEF Answer, Settle, requests, shutdown, history
    <2>2. PICK t \in Txn : t = slot[s]
      BY <1>w, <2>1
    <2>3. TRUE \in BOOLEAN
      OBVIOUS
    <2>4. \A u \in Txn : Fate(u)' = Fate(u)
      BY <2>1 DEF Fate
    <2>5. Moves(t, 0, -1, 1)
      BY <1>t, <2>1, <2>2, <2>3, MovesExchangeToTick
    <2>6. \A u \in Txn : Places(u)' = Places(u) + (IF u = t THEN 0 ELSE 0)
      BY <1>t, <2>5, MovesPlaces
    <2>7. waiting'[t] + 0 <= waiting[t] /\ Fate(t)' + 0 = Fate(t)
      BY <1>w, <1>f, <2>1, <2>4
    <2> QED BY <1>f, <2>1, <2>4, <2>6, <2>7, CountsMove
  <1>3. ASSUME NEW t \in Txn, ExecutionTimer(t) PROVE Located' /\ Copies'
    <2>1. /\ waiting[t] > 0 /\ waiting' = [waiting EXCEPT ![t] = @ - 1]
          /\ queue' = queue \/ queue' = Append(queue, t)
          /\ UNCHANGED <<slot, ticks, requeues, uncounted, destroyed, issued,
                         done, thrown, swallowed, detached>>
      BY <1>3 DEF ExecutionTimer, history
    <2>2. t \notin OneShot
      BY <2>1 DEF CopyInv, OneShotApart
    <2>3. \A u \in Txn : Fate(u)' = Fate(u)
      BY <2>1 DEF Fate
    <2>4. /\ \A u \in Txn : u # t => waiting'[u] = waiting[u]
          /\ waiting'[t] + 1 <= waiting[t] /\ waiting'[t] + 0 <= waiting[t]
      BY <1>w, <2>1
    <2>5. CASE queue' = queue
      <3>1. Moves(t, 0, 0, 0)
        BY <1>t, <2>1, <2>5, MovesNothing
      <3>2. \A u \in Txn : Places(u)' = Places(u) + (IF u = t THEN 0 ELSE 0)
        BY <1>t, <3>1, MovesPlaces
      <3> QED BY <1>f, <2>1, <2>2, <2>3, <2>4, <3>2, CountsMove
    <2>6. CASE queue' = Append(queue, t)
      <3>1. Moves(t, 1, 0, 0)
        BY <1>t, <2>1, <2>6, MovesIntoQueue
      <3>2. \A u \in Txn : Places(u)' = Places(u) + (IF u = t THEN 1 ELSE 0)
        BY <1>t, <3>1, MovesPlaces
      <3> QED BY <1>f, <2>1, <2>2, <2>3, <2>4, <3>2, CountsMove
    <2> QED BY <2>1, <2>5, <2>6
  <1> QED BY <1>1, <1>2, <1>3 DEF Timers, Remote

LEMMA CopiesConnection ==
    ASSUME CopyInv, TypeOK', Connection PROVE Located' /\ Copies'
  <1>t. TypeOK
    BY DEF CopyInv, AccountingInv
  <1>1. /\ UNCHANGED <<slot, ticks, waiting, uncounted, destroyed, issued,
                       done, thrown, swallowed, detached>>
        /\ \/ UNCHANGED <<queue, requeues>>
           \/ /\ queue' = queue \o repeatables
              /\ requeues' = IF repeatables = <<>> THEN requeues ELSE requeues + 1
    BY DEF Connection, ConnectionOpen, LineDown, ConnectionClose, WithRepeatablesQueued,
           requests, exchanges, shutdown, history
  <1>2. \A u \in Txn : Fate(u)' = Fate(u)
    BY <1>1 DEF Fate
  <1>3. repeatables \in Seq(Txn) /\ requeues \in Nat /\ waiting \in [Txn -> Nat]
    BY <1>t DEF TypeOK, TypeRequests, TypeHistory, TypeExchanges
  <1>4. ASSUME NEW u \in Txn
        PROVE  /\ Places(u) \in Nat /\ Places(u)' \in Nat /\ Queued(repeatables, u) \in Nat
               /\ Places(u)' = Places(u) \/ Places(u)' = Places(u) + Queued(repeatables, u)
               /\ u \notin ToSet(repeatables) => Places(u)' = Places(u)
               /\ requeues' = requeues => Places(u)' = Places(u)
               /\ requeues' # requeues => requeues' = requeues + 1
    <2>1. /\ Places(u) = Queued(queue, u) + Carried(slot, u) + Ticking(ticks, u)
          /\ Queued(queue, u) \in Nat /\ Carried(slot, u) \in Nat /\ Ticking(ticks, u) \in Nat
          /\ Places(u)' = Queued(queue', u) + Carried(slot', u) + Ticking(ticks', u)
      BY <1>t, PlacesFacts, PlacesFactsNext
    <2>2. /\ Queued(repeatables, u) \in Nat
          /\ Queued(repeatables, u) > 0 <=> u \in ToSet(repeatables)
      BY <1>3, QueuedFacts
    <2>3. Queued(queue \o repeatables, u) = Queued(queue, u) + Queued(repeatables, u)
      BY <1>t, TypesOfPlaces, QueuedConcat
    <2>4. repeatables = <<>> => Queued(repeatables, u) = 0
      BY OccurrencesEmpty DEF Queued
    <2>5. CASE UNCHANGED <<queue, requeues>>
      <3>1. Queued(queue', u) = Queued(queue, u) /\ Carried(slot', u) = Carried(slot, u)
            /\ Ticking(ticks', u) = Ticking(ticks, u)
        BY <1>1, <2>5
      <3> QED BY <2>1, <2>2, <2>5, <3>1
    <2>6. CASE /\ queue' = queue \o repeatables
               /\ requeues' = IF repeatables = <<>> THEN requeues ELSE requeues + 1
      <3>1. /\ Queued(queue', u) = Queued(queue, u) + Queued(repeatables, u)
            /\ Carried(slot', u) = Carried(slot, u)
            /\ Ticking(ticks', u) = Ticking(ticks, u)
        BY <1>1, <2>3, <2>6
      <3>2. requeues' = requeues => repeatables = <<>>
        BY <1>3, <2>6
      <3> QED BY <2>1, <2>2, <2>4, <2>6, <3>1, <3>2
    <2> QED BY <1>1, <2>5, <2>6
  <1>5. Located'
    <2>1. \A u \in OneShot' : u \in OneShot /\ u \in Txn
      BY DEF OneShot, IsRepeatable
    <2>2. \A u \in OneShot : u \notin ToSet(repeatables)
      BY DEF CopyInv, OneShotApart
    <2>3. \A u \in OneShot : u \in Txn
      BY DEF OneShot
    <2>4. \A u \in OneShot : Places(u)' = Places(u) /\ Fate(u)' = Fate(u)
      BY <1>2, <1>4, <2>2, <2>3
    <2> QED BY <1>1, <2>1, <2>4 DEF CopyInv, Located
  <1>6. ASSUME requeues' = 0 \/ Strict', NEW u \in Txn
        PROVE  Places(u)' + waiting'[u] <= (IF u \in issued' THEN 1 ELSE 0) + requeues'
    <2>1. requeues = 0 \/ Strict
      BY <1>1, <1>3, <1>6 DEF Strict
    <2>2. Places(u) + waiting[u] <= (IF u \in issued THEN 1 ELSE 0) + requeues
      BY <2>1 DEF CopyInv, Copies
    <2>3. Queued(repeatables, u) <= 1
      <3>1. Queued(repeatables, u) <= (IF u \in issued THEN 1 ELSE 0)
        BY DEF CopyInv, RepeatedOnce
      <3> QED BY <1>4, <3>1
    <2>4. waiting'[u] = waiting[u] /\ waiting[u] \in Nat /\ issued' = issued
      BY <1>1, <1>3
    <2>5. Places(u)' + waiting[u] <= (IF u \in issued THEN 1 ELSE 0) + requeues'
      <3>1. CASE requeues' = requeues
        BY <1>4, <2>2, <3>1
      <3>2. CASE requeues' # requeues
        <4>1. /\ requeues' = requeues + 1 /\ Places(u) \in Nat /\ Places(u)' \in Nat
              /\ Places(u)' <= Places(u) + 1
          BY <1>4, <2>3, <3>2
        <4> QED BY <1>3, <2>2, <2>4, <4>1
      <3> QED BY <3>1, <3>2
    <2> QED BY <2>4, <2>5
  <1> QED BY <1>5, <1>6 DEF Copies

\* Regularity is never gained.
LEMMA RegularShrinks ==
    ASSUME TypeOK, Next PROVE \A t \in Txn : Regular(t)' => Regular(t)
  <1>1. requeues \in Nat /\ uncounted \in Nat
    BY DEF TypeOK, TypeHistory
  <1>2. requeues' = 0 => requeues = 0
    <2>1. CASE ConnectionOpen
      BY <1>1, <2>1 DEF ConnectionOpen
    <2>2. CASE ~ConnectionOpen
      BY <2>2 DEF Next, Application, Loop, Ticks, Timers, Remote, Connection, Execute, Cancel,
         Destroy, SendThrows, DropCancelled, SendNext, TickEvent, TickComplete, Timeout,
         ExecutionTimer, Answer, LineDown, ConnectionClose, history
    <2> QED BY <2>1, <2>2
  <1>3. uncounted' = 0 => uncounted = 0
    <2>1. CASE TickComplete
      BY <1>1, <2>1 DEF TickComplete, Complete
    <2>2. CASE ~TickComplete
      BY <2>2 DEF Next, Application, Loop, Ticks, Timers, Remote, Connection, Execute, Cancel,
         Destroy, SendThrows, DropCancelled, SendNext, TickEvent, Timeout,
         ExecutionTimer, Answer, ConnectionOpen, LineDown, ConnectionClose, history
    <2> QED BY <2>1, <2>2
  <1> QED BY <1>2, <1>3 DEF Regular, Strict, OneShot, IsRepeatable

LEMMA TimersKept ==
    ASSUME CopyInv, \A t \in Txn : Regular(t)' => Regular(t), UNCHANGED <<slot, timer, handle>>
    PROVE  Guarded' /\ HandleTrue'
  BY DEF CopyInv, Guarded, HandleTrue

\* A transaction that settles stops the timer its handle points at, which is its
\* own, and leaves every exchange of a regular transaction guarded.
LEMMA TimersSettle ==
    ASSUME CopyInv, \A u \in Txn : Regular(u)' => Regular(u), NEW t \in Txn,
           timer' = StopTimeout(timer, t), handle' = [handle EXCEPT ![t] = None],
           slot' \in [Slot -> Txn \cup {None}],
           \A s \in Slot : slot'[s] = slot[s] \/ (slot[s] = t /\ slot'[s] = None),
           Regular(t) => \A s \in Slot : slot'[s] # t
    PROVE  Guarded' /\ HandleTrue'
  <1>1. /\ slot \in [Slot -> Txn \cup {None}] /\ timer \in [Slot -> Txn \cup {None}]
        /\ handle \in [Txn -> Slot \cup {None}]
    BY DEF CopyInv, AccountingInv, TypeOK, TypeExchanges
  <1>2. /\ \A s \in Slot : timer'[s] = IF handle[t] = s THEN None ELSE timer[s]
        /\ handle[t] # None => timer[handle[t]] = t
    BY <1>1, NoneAssumption DEF StopTimeout, CopyInv, HandleTrue
  <1>3. /\ handle'[t] = None
        /\ \A u \in Txn : u # t => handle'[u] = handle[u]
    BY <1>1
  <1>4. ASSUME NEW s \in Slot, NEW u \in Txn, Regular(u)'
        PROVE  /\ slot'[s] = u => timer'[s] = u
               /\ timer'[s] = u => slot'[s] = u /\ handle'[u] = s
    <2>1. /\ slot[s] = u => timer[s] = u
          /\ timer[s] = u => slot[s] = u /\ handle[u] = s
      BY <1>4 DEF CopyInv, Guarded
    <2>2. CASE u = t
      <3>1. slot'[s] # t
        BY <1>4, <2>2
      <3>2. timer'[s] # t
        <4>1. ASSUME timer'[s] = t PROVE FALSE
          <5>1. handle[t] # s /\ timer[s] = t
            BY <1>2, <4>1, NoneAssumption
          <5> QED BY <2>1, <2>2, <5>1
        <4> QED BY <4>1
      <3> QED BY <2>2, <3>1, <3>2
    <2>3. CASE u # t
      <3>1. slot'[s] = u => slot[s] = u /\ timer'[s] = u
        <4>1. slot'[s] = u => slot[s] = u
          BY NoneAssumption
        <4>2. slot[s] = u => handle[t] # s
          BY <1>2, <2>1, <2>3, NoneAssumption
        <4> QED BY <1>2, <2>1, <4>1, <4>2
      <3>2. timer'[s] = u => slot'[s] = u /\ handle'[u] = s
        <4>1. timer'[s] = u => timer[s] = u
          BY <1>2, NoneAssumption
        <4> QED BY <1>3, <2>1, <2>3, <4>1
      <3> QED BY <3>1, <3>2
    <2> QED BY <2>2, <2>3
  <1>5. ASSUME NEW u \in Txn, handle'[u] # None PROVE timer'[handle'[u]] = u
    <2>1. u # t /\ handle'[u] = handle[u] /\ handle[u] \in Slot /\ timer[handle[u]] = u
      BY <1>1, <1>3, <1>5 DEF CopyInv, HandleTrue
    <2>2. handle[t] # handle[u]
      BY <1>2, <2>1, <1>5
    <2> QED BY <1>2, <2>1, <2>2
  <1> QED BY <1>4, <1>5 DEF Guarded, HandleTrue

LEMMA TimersStep ==
    ASSUME CopyInv, TypeOK', Next PROVE Guarded' /\ HandleTrue'
  <1>t. /\ TypeOK /\ slot \in [Slot -> Txn \cup {None}] /\ timer \in [Slot -> Txn \cup {None}]
        /\ handle \in [Txn -> Slot \cup {None}] /\ slot' \in [Slot -> Txn \cup {None}]
    BY DEF CopyInv, AccountingInv, TypeOK, TypeExchanges
  <1>r. \A t \in Txn : Regular(t)' => Regular(t)
    BY <1>t, RegularShrinks
  <1>1. ASSUME UNCHANGED <<slot, timer, handle>> PROVE Guarded' /\ HandleTrue'
    BY <1>1, <1>r, TimersKept
  <1>2. CASE Destroy
    <2> DEFINE Reached == ToSet(queue) \cup ToSet(repeatables) \cup {slot[s] : s \in Busy}
               Cleared == {handle[t] : t \in Reached}
    <2>1. /\ slot' = [s \in Slot |-> None]
          /\ timer' = [s \in Slot |-> IF s \in Cleared THEN None ELSE timer[s]]
          /\ handle' = [t \in Txn |-> IF t \in Reached THEN None ELSE handle[t]]
      BY <1>2 DEF Destroy
    <2>2. ASSUME NEW s \in Slot, NEW t \in Txn, Regular(t)' PROVE timer'[s] # t
      <3>1. ASSUME timer'[s] = t PROVE FALSE
        <4>1. timer[s] = t /\ s \notin Cleared
          BY <2>1, <3>1, NoneAssumption
        <4>2. slot[s] = t /\ handle[t] = s
          BY <1>r, <2>2, <4>1 DEF CopyInv, Guarded
        <4>3. t \in Reached
          BY <4>2, NoneAssumption DEF Busy
        <4> QED BY <4>1, <4>2, <4>3
      <3> QED BY <3>1
    <2>3. Guarded'
      BY <2>1, <2>2, NoneAssumption DEF Guarded
    <2>4. ASSUME NEW t \in Txn, handle'[t] # None PROVE timer'[handle'[t]] = t
      <3>1. t \notin Reached /\ handle'[t] = handle[t] /\ handle[t] \in Slot
        BY <1>t, <2>1, <2>4
      <3>2. timer[handle[t]] = t
        BY <2>4, <3>1 DEF CopyInv, HandleTrue
      <3>3. ASSUME handle[t] \in Cleared PROVE FALSE
        <4>1. PICK u \in Reached : handle[u] = handle[t]
          BY <3>3
        <4>2. u \in Txn
          BY <1>t DEF ToSet, Busy, TypeOK, TypeRequests
        <4>3. timer[handle[u]] = u
          BY <2>4, <3>1, <4>1, <4>2 DEF CopyInv, HandleTrue
        <4> QED BY <3>1, <3>2, <4>1, <4>3
      <3> QED BY <2>1, <3>1, <3>2, <3>3
    <2> QED BY <2>3, <2>4 DEF HandleTrue
  <1>3. ASSUME NEW s \in Slot, SendNext(s) PROVE Guarded' /\ HandleTrue'
    <2>1. /\ InLoop /\ slot[s] = None /\ timer[s] = None
      BY <1>3 DEF SendNext
    <2>2. PICK t \in Txn : t = Head(queue)
      BY <1>t, <2>1, HeadsType DEF InLoop
    <2>3. /\ slot' = [slot EXCEPT ![s] = t] /\ timer' = [timer EXCEPT ![s] = t]
          /\ handle' = [handle EXCEPT ![t] = s]
      BY <1>3, <2>2 DEF SendNext
    <2>4. ASSUME NEW x \in Slot, NEW u \in Txn, Regular(u)'
          PROVE  /\ slot'[x] = u => timer'[x] = u
                 /\ timer'[x] = u => slot'[x] = u /\ handle'[u] = x
      <3>1. /\ slot[x] = u => timer[x] = u
            /\ timer[x] = u => slot[x] = u /\ handle[u] = x
        BY <1>r, <2>4 DEF CopyInv, Guarded
      <3>2. u = t => slot[x] # u /\ timer[x] # u
        BY <1>r, <2>1, <2>2, <2>4, HeadNotCarried
      <3> QED BY <1>t, <2>1, <2>3, <3>1, <3>2
    <2>5. ASSUME NEW u \in Txn, handle'[u] # None PROVE timer'[handle'[u]] = u
      <3>1. CASE u = t
        BY <1>t, <2>3, <3>1
      <3>2. CASE u # t
        <4>1. handle'[u] = handle[u] /\ handle[u] \in Slot /\ timer[handle[u]] = u
          BY <1>t, <2>3, <2>5, <3>2 DEF CopyInv, HandleTrue
        <4>2. handle[u] # s
          BY <2>1, <4>1, NoneAssumption
        <4> QED BY <1>t, <2>3, <4>1, <4>2
      <3> QED BY <3>1, <3>2
    <2> QED BY <2>4, <2>5 DEF Guarded, HandleTrue
  <1>4. CASE DropCancelled
    <2>1. InLoop /\ UNCHANGED slot
      BY <1>4 DEF DropCancelled
    <2>2. PICK t \in Txn : t = Head(queue)
      BY <1>t, <2>1, HeadsType DEF InLoop
    <2>3. timer' = StopTimeout(timer, t) /\ handle' = [handle EXCEPT ![t] = None]
      BY <1>4, <2>2 DEF DropCancelled, Settle
    <2>4. Regular(t) => \A s \in Slot : slot'[s] # t
      BY <2>1, <2>2, HeadNotCarried
    <2> QED BY <1>t, <1>r, <2>1, <2>3, <2>4, TimersSettle
  <1>5. ASSUME NEW s \in Slot, NEW outcome \in Outcome, Answer(s, outcome)
        PROVE  Guarded' /\ HandleTrue'
    <2>1. slot[s] # None /\ slot' = [slot EXCEPT ![s] = None]
      BY <1>5 DEF Answer
    <2>2. PICK t \in Txn : t = slot[s]
      BY <1>t, <2>1
    <2>3. timer' = StopTimeout(timer, t) /\ handle' = [handle EXCEPT ![t] = None]
      BY <1>5, <2>2 DEF Answer, Settle
    <2>4. Regular(t) => \A x \in Slot : slot'[x] # t
      <3> SUFFICES ASSUME Regular(t), NEW x \in Slot, slot'[x] = t PROVE FALSE
        OBVIOUS
      <3>1. x # s /\ slot[x] = t
        BY <1>t, <2>1, NoneAssumption
      <3>2. handle[t] = s /\ handle[t] = x
        BY <2>2, <3>1 DEF CopyInv, Guarded
      <3> QED BY <3>1, <3>2
    <2>5. \A x \in Slot : slot'[x] = slot[x] \/ (slot[x] = t /\ slot'[x] = None)
      BY <1>t, <2>1, <2>2
    <2> QED BY <1>t, <1>r, <2>3, <2>4, <2>5, TimersSettle
  <1>6. ASSUME NEW s \in Slot, Timeout(s) PROVE Guarded' /\ HandleTrue'
    <2>1. /\ timer[s] # None /\ slot' = [slot EXCEPT ![s] = None]
          /\ timer' = [timer EXCEPT ![s] = None]
      BY <1>6 DEF Timeout
    <2>2. PICK t \in Txn : t = timer[s]
      BY <1>t, <2>1
    <2>3. handle' = [handle EXCEPT ![t] = None]
      BY <1>6, <2>2 DEF Timeout
    <2>4. ASSUME NEW x \in Slot, NEW u \in Txn, Regular(u)'
          PROVE  /\ slot'[x] = u => timer'[x] = u
                 /\ timer'[x] = u => slot'[x] = u /\ handle'[u] = x
      <3>1. \A y \in Slot : /\ slot[y] = u => timer[y] = u
                            /\ timer[y] = u => slot[y] = u /\ handle[u] = y
        BY <1>r, <2>4 DEF CopyInv, Guarded
      <3> QED BY <1>t, <2>1, <2>2, <2>3, <3>1, NoneAssumption
    <2>5. ASSUME NEW u \in Txn, handle'[u] # None PROVE timer'[handle'[u]] = u
      <3>1. u # t /\ handle'[u] = handle[u] /\ handle[u] \in Slot /\ timer[handle[u]] = u
        BY <1>t, <2>3, <2>5 DEF CopyInv, HandleTrue
      <3>2. handle[u] # s
        BY <2>2, <3>1
      <3> QED BY <1>t, <2>1, <3>1, <3>2
    <2> QED BY <2>4, <2>5 DEF Guarded, HandleTrue
  <1> QED
    <2>1. CASE \/ SendThrows \/ Ticks \/ Connection
               \/ \E t \in Txn : Execute(t) \/ Cancel(t) \/ ExecutionTimer(t)
      <3>1. UNCHANGED <<slot, timer, handle>>
        BY <2>1 DEF Ticks, TickEvent, TickComplete, SendThrows, Connection, ConnectionOpen,
           LineDown, ConnectionClose, Execute, Cancel, ExecutionTimer, exchanges
      <3> QED BY <1>1, <3>1
    <2> QED BY <1>2, <1>3, <1>4, <1>5, <1>6, <2>1
            DEF Next, Application, Loop, Timers, Remote

\* The list of repeatable transactions and the execution timers.
LEMMA ListsStep ==
    ASSUME CopyInv, TypeOK', Next PROVE OneShotApart' /\ RepeatedOnce'
  <1>t. /\ TypeOK /\ repeatables \in Seq(Txn) /\ waiting \in [Txn -> Nat]
    BY DEF CopyInv, AccountingInv, TypeOK, TypeRequests, TypeExchanges
  <1>o. \A t : t \in OneShot' <=> t \in OneShot
    BY DEF OneShot, IsRepeatable
  <1>q. \A t \in Txn : /\ Queued(repeatables, t) \in Nat
                       /\ Queued(repeatables, t) > 0 <=> t \in ToSet(repeatables)
    BY <1>t, QueuedFacts
  <1>w. \A t \in OneShot : t \in Txn /\ waiting[t] = 0 /\ t \notin ToSet(repeatables)
    BY DEF CopyInv, OneShotApart, OneShot
  <1>1. ASSUME UNCHANGED <<repeatables, issued, cancelled>>, destroyed => destroyed',
               \A t \in OneShot : waiting'[t] = 0
        PROVE  OneShotApart' /\ RepeatedOnce'
    BY <1>1, <1>o DEF CopyInv, OneShotApart, RepeatedOnce
  <1>2. ASSUME NEW t \in Txn, Execute(t) PROVE OneShotApart' /\ RepeatedOnce'
    <2>1. /\ t \notin issued /\ issued' = issued \cup {t}
          /\ repeatables' = IF IsRepeatable(t) THEN Append(repeatables, t) ELSE repeatables
          /\ UNCHANGED <<cancelled, destroyed, waiting>>
      BY <1>2 DEF Execute, WithRepeatable, exchanges, shutdown
    <2>2. ASSUME NEW u \in Txn
          PROVE  /\ Queued(repeatables', u) \in Nat
                 /\ Queued(repeatables', u) > 0 <=> u \in ToSet(repeatables')
                 /\ IsRepeatable(t) =>
                      Queued(repeatables', u) = Queued(repeatables, u) + (IF u = t THEN 1 ELSE 0)
                 /\ ~IsRepeatable(t) => Queued(repeatables', u) = Queued(repeatables, u)
      <3>1. repeatables' \in Seq(Txn)
        BY DEF TypeOK, TypeRequests
      <3> QED BY <1>t, <2>1, <3>1, QueuedFacts, QueuedAppend
    <2>3. ASSUME NEW u \in OneShot PROVE waiting'[u] = 0 /\ u \notin ToSet(repeatables')
      <3>1. u # t \/ ~IsRepeatable(t)
        BY DEF OneShot
      <3> QED BY <1>q, <1>w, <2>1, <2>2, <3>1
    <2>4. ASSUME NEW u \in Txn
          PROVE  /\ Queued(repeatables', u) <= (IF u \in issued' THEN 1 ELSE 0)
                 /\ (u \notin OneShot /\ u \in issued' \ cancelled' /\ ~destroyed')
                      => u \in ToSet(repeatables')
      <3>1. /\ Queued(repeatables, u) <= (IF u \in issued THEN 1 ELSE 0)
            /\ (u \notin OneShot /\ u \in issued \ cancelled /\ ~destroyed)
                      => u \in ToSet(repeatables)
        BY DEF CopyInv, RepeatedOnce
      <3>2. CASE u = t
        <4>1. Queued(repeatables, u) = 0
          BY <1>q, <2>1, <3>1, <3>2
        <4>2. u \notin OneShot => IsRepeatable(t)
          BY <3>2 DEF OneShot
        <4> QED BY <2>1, <2>2, <3>2, <4>1, <4>2
      <3>3. CASE u # t
        BY <1>q, <2>1, <2>2, <3>1, <3>3
      <3> QED BY <3>2, <3>3
    <2> QED BY <1>o, <2>3, <2>4 DEF OneShotApart, RepeatedOnce
  <1>3. ASSUME NEW t \in Txn, Cancel(t) PROVE OneShotApart' /\ RepeatedOnce'
    <2>1. /\ cancelled' = cancelled \cup {t} /\ UNCHANGED <<issued, destroyed, waiting>>
          /\ \/ UNCHANGED repeatables
             \/ \E i \in DOMAIN repeatables :
                   repeatables[i] = t /\ repeatables' = RemoveAt(repeatables, i)
      BY <1>3 DEF Cancel, exchanges, shutdown
    <2>2. ASSUME NEW u \in Txn
          PROVE  /\ Queued(repeatables', u) \in Nat
                 /\ Queued(repeatables', u) > 0 <=> u \in ToSet(repeatables')
                 /\ Queued(repeatables', u) <= Queued(repeatables, u)
                 /\ u # t => Queued(repeatables', u) = Queued(repeatables, u)
      <3>1. repeatables' \in Seq(Txn)
        BY DEF TypeOK, TypeRequests
      <3>2. CASE UNCHANGED repeatables
        BY <1>q, <3>2
      <3>3. ASSUME NEW i \in DOMAIN repeatables, repeatables[i] = t,
                   repeatables' = RemoveAt(repeatables, i)
            PROVE  Queued(repeatables', u) = Queued(repeatables, u) - (IF t \in {u} THEN 1 ELSE 0)
        BY <1>t, <3>3, OccurrencesRemoveAt DEF Queued
      <3>4. /\ Queued(repeatables', u) \in Nat
            /\ Queued(repeatables', u) > 0 <=> u \in ToSet(repeatables')
        BY <3>1, QueuedFacts
      <3>5. Queued(repeatables', u) = Queued(repeatables, u)
              \/ Queued(repeatables', u) = Queued(repeatables, u) - (IF t \in {u} THEN 1 ELSE 0)
        BY <2>1, <3>3
      <3> QED BY <1>q, <3>4, <3>5
    <2>3. ASSUME NEW u \in OneShot PROVE waiting'[u] = 0 /\ u \notin ToSet(repeatables')
      BY <1>q, <1>w, <2>1, <2>2
    <2>4. ASSUME NEW u \in Txn
          PROVE  /\ Queued(repeatables', u) <= (IF u \in issued' THEN 1 ELSE 0)
                 /\ (u \notin OneShot /\ u \in issued' \ cancelled' /\ ~destroyed')
                      => u \in ToSet(repeatables')
      <3>1. /\ Queued(repeatables, u) <= (IF u \in issued THEN 1 ELSE 0)
            /\ (u \notin OneShot /\ u \in issued \ cancelled /\ ~destroyed)
                      => u \in ToSet(repeatables)
        BY DEF CopyInv, RepeatedOnce
      <3> QED BY <1>q, <2>1, <2>2, <3>1
    <2> QED BY <1>o, <2>3, <2>4 DEF OneShotApart, RepeatedOnce
  <1>4. CASE Destroy
    <2>1. /\ repeatables' = <<>> /\ destroyed' /\ UNCHANGED issued
          /\ \A t \in Txn : waiting'[t] = LeftWaiting(t) \/ waiting'[t] = waiting[t]
      BY <1>4 DEF Destroy
    <2>2. \A t \in OneShot : waiting'[t] = 0
      BY <1>w, <2>1 DEF LeftWaiting
    <2>3. \A u : u \notin ToSet(repeatables')
      BY <2>1 DEF ToSet
    <2>4. \A u : Queued(repeatables', u) = 0
      BY <2>1, OccurrencesEmpty DEF Queued
    <2>5. \A u : Queued(repeatables', u) <= (IF u \in issued' THEN 1 ELSE 0)
      BY <2>4
    <2> QED BY <1>o, <2>1, <2>2, <2>3, <2>5 DEF OneShotApart, RepeatedOnce
  <1>5. CASE TickComplete
    <2>1. UNCHANGED <<repeatables, issued, cancelled, destroyed>>
      BY <1>5 DEF TickComplete
    <2>2. \A t \in OneShot : waiting'[t] = 0
      <3>1. CASE waiting' = waiting
        BY <1>w, <3>1
      <3>2. CASE waiting' # waiting
        <4>1. /\ IsRepeatable(Head(ticks).txn)
              /\ waiting' = [waiting EXCEPT ![Head(ticks).txn] = @ + 1]
          BY <1>5, <3>2 DEF TickComplete, Complete, Schedules
        <4> QED BY <1>t, <1>w, <4>1 DEF OneShot
      <3> QED BY <3>1, <3>2
    <2> QED BY <1>1, <2>1, <2>2
  <1>6. ASSUME NEW t \in Txn, ExecutionTimer(t) PROVE OneShotApart' /\ RepeatedOnce'
    <2>1. /\ waiting[t] > 0 /\ waiting' = [waiting EXCEPT ![t] = @ - 1]
          /\ UNCHANGED <<repeatables, issued, cancelled, destroyed>>
      BY <1>6 DEF ExecutionTimer
    <2>2. \A u \in OneShot : waiting'[u] = 0
      BY <1>t, <1>w, <2>1
    <2> QED BY <1>1, <2>1, <2>2
  <1>7. CASE Loop \/ TickEvent \/ Remote \/ Connection \/ \E s \in Slot : Timeout(s)
    <2>1. UNCHANGED <<repeatables, issued, cancelled, destroyed, waiting>>
      BY <1>7 DEF Loop, SendThrows, DropCancelled, SendNext, TickEvent, Remote, Answer, Timeout,
         Connection, ConnectionOpen, LineDown, ConnectionClose, requests, exchanges, shutdown
    <2> QED BY <1>1, <1>w, <2>1
  <1> QED BY <1>2, <1>3, <1>4, <1>5, <1>6, <1>7 DEF Next, Application, Ticks, Timers

\* What destroy() leaves, and that nothing throws on it before.
LEMMA DestroyStep ==
    ASSUME CopyInv, TypeOK', Next PROVE DestroyedLast' /\ DestroyedEmpty'
  <1>t. TypeOK /\ slot \in [Slot -> Txn \cup {None}]
    BY DEF CopyInv, AccountingInv, TypeOK, TypeExchanges
  <1>1. CASE Destroy
    BY <1>1 DEF Destroy, DestroyedLast, DestroyedEmpty
  <1>2. CASE TickEvent
    <2>1. /\ UNCHANGED <<queue, repeatables, slot, destroyed, detached>>
          /\ crashed' => crashed \/ Head(ticks).txn \in detached
      BY <1>2 DEF TickEvent, requests
    <2> QED BY <2>1 DEF CopyInv, DestroyedLast, DestroyedEmpty
  <1>3. CASE TickComplete
    BY <1>3 DEF TickComplete, Complete, CopyInv, DestroyedLast, DestroyedEmpty
  <1>4. ASSUME NEW t \in Txn, ExecutionTimer(t) PROVE DestroyedLast' /\ DestroyedEmpty'
    BY <1>4 DEF ExecutionTimer, CopyInv, DestroyedLast, DestroyedEmpty
  <1>5. CASE Connection
    BY <1>5 DEF Connection, ConnectionOpen, LineDown, ConnectionClose, requests, exchanges,
       shutdown, CopyInv, DestroyedLast, DestroyedEmpty
  <1>6. CASE Loop
    <2>1. ~destroyed
      BY <1>6 DEF Loop, SendThrows, DropCancelled, SendNext, InLoop, CopyInv, DestroyedEmpty
    <2>2. UNCHANGED <<destroyed, detached, crashed>>
      BY <1>6 DEF Loop, SendThrows, DropCancelled, SendNext, shutdown
    <2> QED BY <2>1, <2>2 DEF CopyInv, DestroyedLast, DestroyedEmpty
  <1>7. ASSUME NEW s \in Slot, slot' = [slot EXCEPT ![s] = None],
               UNCHANGED <<queue, repeatables, destroyed, detached, crashed>>
        PROVE  DestroyedLast' /\ DestroyedEmpty'
    BY <1>t, <1>7 DEF CopyInv, DestroyedLast, DestroyedEmpty
  <1>8. ASSUME NEW s \in Slot, Timeout(s) PROVE DestroyedLast' /\ DestroyedEmpty'
    BY <1>7, <1>8 DEF Timeout, requests, shutdown
  <1>9. ASSUME NEW s \in Slot, NEW outcome \in Outcome, Answer(s, outcome)
        PROVE DestroyedLast' /\ DestroyedEmpty'
    BY <1>7, <1>9 DEF Answer, requests, shutdown
  <1>10. ASSUME NEW t \in Txn, Execute(t) PROVE DestroyedLast' /\ DestroyedEmpty'
    BY <1>10 DEF Execute, exchanges, shutdown, CopyInv, DestroyedLast, DestroyedEmpty
  <1>11. ASSUME NEW t \in Txn, Cancel(t) PROVE DestroyedLast' /\ DestroyedEmpty'
    <2>1. /\ UNCHANGED <<queue, slot, destroyed, detached, crashed>>
          /\ repeatables = <<>> => repeatables' = <<>>
      BY <1>11 DEF Cancel, exchanges, shutdown
    <2> QED BY <2>1 DEF CopyInv, DestroyedLast, DestroyedEmpty
  <1> QED BY <1>1, <1>2, <1>3, <1>4, <1>5, <1>6, <1>8, <1>9, <1>10, <1>11
          DEF Next, Application, Ticks, Timers, Remote

\* The invariant holds initially and every step keeps it.
LEMMA CopyInit == Init => CopyInv
  <1> SUFFICES ASSUME Init PROVE CopyInv
    OBVIOUS
  <1>1. AccountingInv /\ TypeOK
    BY AccountingInit, InitType
  <1>2. ASSUME NEW t \in Txn PROVE Places(t) = 0 /\ Fate(t) = 0 /\ waiting[t] = 0
    <2>1. Queued(queue, t) = 0 /\ Ticking(ticks, t) = 0
      BY OccurrencesEmpty DEF Init, Queued, Ticking
    <2>2. Carried(slot, t) = 0
      BY CarriedFacts, NoneAssumption DEF Init
    <2>3. Places(t) = 0
      BY <1>1, <2>1, <2>2, PlacesFacts
    <2> QED BY <2>3 DEF Init, Fate
  <1>3. Located
    <2>1. \A t \in OneShot : t \in Txn
      BY DEF OneShot
    <2> QED BY <1>2, <2>1 DEF Located, Init
  <1>4. Copies
    BY <1>2 DEF Copies, Init
  <1>5. Guarded /\ HandleTrue
    BY NoneAssumption DEF Guarded, HandleTrue, Init
  <1>6. OneShotApart /\ RepeatedOnce
    <2>1. \A t : Queued(repeatables, t) = 0 /\ t \notin ToSet(repeatables)
      BY OccurrencesEmpty DEF Init, Queued, ToSet
    <2> QED BY <2>1 DEF OneShotApart, RepeatedOnce, Init, OneShot
  <1>7. DestroyedLast /\ DestroyedEmpty
    BY DEF DestroyedLast, DestroyedEmpty, Init
  <1> QED BY <1>1, <1>3, <1>4, <1>5, <1>6, <1>7 DEF CopyInv

LEMMA CopyStutter == CopyInv /\ UNCHANGED vars => CopyInv'
  <1> SUFFICES ASSUME CopyInv, UNCHANGED vars PROVE CopyInv'
    OBVIOUS
  <1>1. AccountingInv'
    BY DEF CopyInv, AccountingInv, TypeOK, TypeRequests, TypeExchanges, TypeLink, TypeShutdown,
           TypeHistory, Accounting, Outstanding, Busy, Counted, CountWithinLimit, DestroyedIsEmpty,
           RefusalNeedsOverrun, vars, requests, exchanges, link, shutdown, history
  <1>2. /\ UNCHANGED <<queue, repeatables, slot, timer, handle, ticks, waiting, issued, cancelled,
                       requeues, uncounted, destroyed, detached, crashed, done, thrown, swallowed>>
    BY DEF vars, requests, exchanges, shutdown, history
  <1>3. \A t : Places(t)' = Places(t) /\ Fate(t)' = Fate(t)
    BY <1>2 DEF Places, Fate
  <1>4. (\A t : Regular(t)' <=> Regular(t)) /\ (Strict' <=> Strict)
          /\ \A t : t \in OneShot' <=> t \in OneShot
    BY <1>2 DEF Regular, Strict, OneShot, IsRepeatable
  <1>5. Guarded' /\ HandleTrue'
    BY <1>2, <1>4 DEF CopyInv, Guarded, HandleTrue
  <1>6. Located' /\ Copies'
    BY <1>2, <1>3, <1>4 DEF CopyInv, Located, Copies
  <1>7. OneShotApart' /\ RepeatedOnce' /\ DestroyedLast' /\ DestroyedEmpty'
    BY <1>2, <1>4 DEF CopyInv, OneShotApart, RepeatedOnce, DestroyedLast, DestroyedEmpty
  <1> QED BY <1>1, <1>5, <1>6, <1>7 DEF CopyInv

LEMMA AccountingStep == AccountingInv /\ Next => AccountingInv'
  BY ApplicationType, LoopType, TicksType, CallbackType, ConnectionType,
     AccountingApplication, AccountingLoop, AccountingTicks, AccountingCallbacks
     DEF AccountingInv, Next

LEMMA CopyStep == CopyInv /\ Next => CopyInv'
  <1> SUFFICES ASSUME CopyInv, Next PROVE CopyInv'
    OBVIOUS
  <1>1. AccountingInv' /\ TypeOK'
    BY AccountingStep DEF CopyInv, AccountingInv
  <1>2. Located' /\ Copies'
    BY <1>1, CopiesApplication, CopiesLoop, CopiesTicks, CopiesCallbacks, CopiesConnection
       DEF Next
  <1> QED BY <1>1, <1>2, TimersStep, ListsStep, DestroyStep DEF CopyInv

LEMMA CopyInductive == Spec => []CopyInv
  <1>1. CopyInv /\ [Next]_vars => CopyInv'
    BY CopyStutter, CopyStep
  <1> QED BY CopyInit, <1>1, PTL DEF Spec

\* No one-shot request is lost or doubled: until destroy() it is in exactly one
\* place of the master, or has settled in exactly one way.
THEOREM ConservationHolds == Spec => []Conservation
  <1>1. CopyInv => Conservation
    <2> SUFFICES ASSUME CopyInv, ~destroyed, NEW t \in OneShot
                 PROVE  Places(t) + One(t \in done) + One(t \in thrown) + One(t \in swallowed)
                          = One(t \in issued)
      BY DEF Conservation
    <2>1. Places(t) + Fate(t) = (IF t \in issued THEN 1 ELSE 0) /\ t \notin detached
      BY DEF CopyInv, Located, DestroyedLast
    <2>2. Places(t) \in Nat
      <3>1. t \in Txn /\ TypeOK
        BY DEF OneShot, CopyInv, AccountingInv
      <3> QED BY <3>1, PlacesFacts
    <2>3. Fate(t) = One(t \in done) + One(t \in thrown) + One(t \in swallowed)
      BY <2>1 DEF Fate, One
    <2>4. /\ One(t \in done) \in Nat /\ One(t \in thrown) \in Nat /\ One(t \in swallowed) \in Nat
          /\ One(t \in issued) = (IF t \in issued THEN 1 ELSE 0)
      BY DEF One
    <2> QED BY <2>1, <2>2, <2>3, <2>4
  <1> QED BY <1>1, CopyInductive, PTL

\* The timer of a request guards the exchange that carries it, and no other.
THEOREM TimersMatch == Spec => []TimersMatchExchanges
  <1>1. CopyInv => TimersMatchExchanges
    BY DEF CopyInv, Guarded, Regular, TimersMatchExchanges
  <1> QED BY <1>1, CopyInductive, PTL

\* On a serial line, 'open' events are all that multiplies a repeatable transaction.
THEOREM CopiesStayBounded == Spec => []CopiesBounded
  <1>1. CopyInv => CopiesBounded
    <2> SUFFICES ASSUME CopyInv, Strict, NEW t \in Txn
                 PROVE  Places(t) + waiting[t] <= 1 + requeues
      BY DEF CopiesBounded, Strict
    <2>1. Places(t) + waiting[t] <= (IF t \in issued THEN 1 ELSE 0) + requeues
      BY DEF CopyInv, Copies
    <2>2. Places(t) \in Nat /\ waiting[t] \in Nat /\ requeues \in Nat
      <3>1. TypeOK
        BY DEF CopyInv, AccountingInv
      <3> QED BY <3>1, PlacesFacts DEF TypeOK, TypeExchanges, TypeHistory
    <2> QED BY <2>1, <2>2
  <1> QED BY <1>1, CopyInductive, PTL

----------------------------------------------------------------------------
\* The elements of the queues, as sets.
LEMMA ElementsAppend ==
    ASSUME NEW S, NEW q \in Seq(S), NEW e \in S
    PROVE  ToSet(Append(q, e)) = ToSet(q) \cup {e}
  <1>1. /\ DOMAIN Append(q, e) = 1 .. Len(q) + 1 /\ DOMAIN q = 1 .. Len(q) /\ Len(q) \in Nat
        /\ \A i \in 1 .. Len(q) : Append(q, e)[i] = q[i]
        /\ Append(q, e)[Len(q) + 1] = e
    BY AppendProperties
  <1> QED BY <1>1 DEF ToSet

LEMMA ElementsTail ==
    ASSUME NEW S, NEW q \in Seq(S), q # <<>>
    PROVE  ToSet(Tail(q)) \subseteq ToSet(q) /\ Head(q) \in ToSet(q)
  <1>1. /\ Len(q) \in Nat \ {0} /\ DOMAIN q = 1 .. Len(q) /\ Head(q) = q[1]
        /\ DOMAIN Tail(q) = 1 .. (Len(q) - 1)
        /\ \A i \in 1 .. (Len(q) - 1) : Tail(q)[i] = q[i + 1]
    BY HeadTailProperties, EmptySeq
  <1> QED BY <1>1 DEF ToSet

LEMMA ElementsConcat ==
    ASSUME NEW S, NEW q \in Seq(S), NEW r \in Seq(S)
    PROVE  ToSet(q \o r) \subseteq ToSet(q) \cup ToSet(r)
  <1> SUFFICES ASSUME NEW i \in DOMAIN (q \o r)
               PROVE  (q \o r)[i] \in ToSet(q) \cup ToSet(r)
    BY DEF ToSet
  <1>1. /\ Len(q) \in Nat /\ Len(r) \in Nat /\ i \in 1 .. Len(q) + Len(r)
        /\ DOMAIN q = 1 .. Len(q) /\ DOMAIN r = 1 .. Len(r)
        /\ (q \o r)[i] = IF i <= Len(q) THEN q[i] ELSE r[i - Len(q)]
    BY LenProperties, ConcatProperties
  <1>2. CASE i <= Len(q)
    BY <1>1, <1>2 DEF ToSet
  <1>3. CASE ~(i <= Len(q))
    <2>1. i - Len(q) \in DOMAIN r
      BY <1>1, <1>3
    <2> QED BY <1>1, <1>3, <2>1 DEF ToSet
  <1> QED BY <1>2, <1>3

\* A one-shot transaction is at most once in the queue, the exchanges and the ticks,
\* and nowhere once it has ended.
InQueue(t) == t \in ToSet(queue)
InExchange(t) == \E s \in Slot : slot[s] = t
InTick(t) == \E k \in ToSet(ticks) : k.txn = t
Exclusive == \A t \in OneShot :
    /\ InQueue(t) => ~InExchange(t) /\ ~InTick(t)
    /\ InExchange(t) => ~InTick(t)
    /\ InQueue(t) \/ InExchange(t) \/ InTick(t) =>
          t \in issued /\ t \notin done \cup thrown \cup swallowed \cup detached

LEMMA ExclusiveHolds == CopyInv => Exclusive
  <1> SUFFICES ASSUME CopyInv, NEW t \in OneShot
               PROVE  /\ InQueue(t) => ~InExchange(t) /\ ~InTick(t)
                      /\ InExchange(t) => ~InTick(t)
                      /\ InQueue(t) \/ InExchange(t) \/ InTick(t) =>
                            t \in issued /\ t \notin done \cup thrown \cup swallowed \cup detached
    BY DEF Exclusive
  <1>1. t \in Txn /\ TypeOK
    BY DEF OneShot, CopyInv, AccountingInv
  <1>2. /\ Places(t) = Queued(queue, t) + Carried(slot, t) + Ticking(ticks, t)
        /\ Queued(queue, t) \in Nat /\ Carried(slot, t) \in Nat /\ Ticking(ticks, t) \in Nat
        /\ Queued(queue, t) > 0 <=> InQueue(t)
        /\ Carried(slot, t) > 0 <=> InExchange(t)
        /\ Ticking(ticks, t) > 0 <=> InTick(t)
    BY <1>1, PlacesFacts DEF InQueue, InExchange, InTick, ToSet
  <1>3. Places(t) + Fate(t) <= (IF t \in issued THEN 1 ELSE 0) /\ Fate(t) \in Nat
    BY FateFacts DEF CopyInv, Located
  <1>4. Fate(t) = 0 => t \notin done \cup thrown \cup swallowed \cup detached
    BY FateFacts
  <1> QED BY <1>2, <1>3, <1>4

LEMMA ExclusiveNext == CopyInv' => Exclusive'
  BY ExclusiveHolds, PTL

\* The retry budget.  How often a one-shot transaction was sent in relation to its failures, while it
\* was not cancelled.
FailuresBounded == \A t \in Txn : failures[t] <= MaxRetries[t] + 1
InBudget(t) ==
    /\ attempts[t] <= MaxRetries[t] + 1
    /\ t \notin issued => attempts[t] = 0 /\ failures[t] = 0
    /\ t \notin cancelled =>
        /\ InQueue(t) => attempts[t] = failures[t] /\ failures[t] <= MaxRetries[t]
        /\ InExchange(t) => attempts[t] = failures[t] + 1 /\ failures[t] <= MaxRetries[t]
        /\ \A k \in ToSet(ticks) : k.txn = t => k.outcome = "ok" \/ attempts[t] = failures[t]
Budgeted == \A t \in OneShot : InBudget(t)
BudgetInv == CopyInv /\ FailuresBounded /\ Budgeted

LEMMA BudgetKept ==
    ASSUME BudgetInv, NEW t \in OneShot,
           attempts'[t] = attempts[t], failures'[t] = failures[t],
           t \notin issued' => t \notin issued, t \notin cancelled' => t \notin cancelled,
           InQueue(t)' => InQueue(t), InExchange(t)' => InExchange(t),
           \A k \in ToSet(ticks') : k.txn = t => k \in ToSet(ticks)
    PROVE  InBudget(t)'
  <1>1. InBudget(t)
    BY DEF BudgetInv, Budgeted
  <1> QED BY <1>1 DEF InBudget

LEMMA FailuresStep ==
    ASSUME TypeOK, FailuresBounded, NEW t \in Txn, NEW outcome,
           failures' = [failures EXCEPT ![t] = NextFailures(t, outcome)]
    PROVE  FailuresBounded'
  <1>1. failures \in [Txn -> Nat] /\ MaxRetries \in [Txn -> Nat]
    BY RetriesAssumption DEF TypeOK, TypeExchanges
  <1>2. NextFailures(t, outcome) <= MaxRetries[t] + 1
    BY <1>1 DEF NextFailures, FailuresBounded
  <1> QED BY <1>1, <1>2 DEF FailuresBounded

LEMMA BudgetLoop ==
    ASSUME BudgetInv, CopyInv', Loop PROVE FailuresBounded' /\ Budgeted'
  <1>t. /\ TypeOK /\ queue \in Seq(Txn) /\ ticks \in Seq(TickRecord)
        /\ failures \in [Txn -> Nat] /\ attempts \in [Txn -> Nat] /\ MaxRetries \in [Txn -> Nat]
        /\ slot \in [Slot -> Txn \cup {None}]
    BY RetriesAssumption DEF BudgetInv, CopyInv, AccountingInv, TypeOK, TypeRequests, TypeExchanges,
       TypeHistory, TickRecord
  <1>l. queue # <<>>
    BY DEF Loop, SendThrows, DropCancelled, SendNext, InLoop
  <1>h. PICK t \in Txn : t = Head(queue)
    BY <1>t, <1>l, HeadsType
  <1>q. InQueue(t) /\ ToSet(Tail(queue)) \subseteq ToSet(queue)
    BY <1>t, <1>l, <1>h, ElementsTail DEF InQueue
  <1>o. \A u : u \in OneShot' <=> u \in OneShot
    BY DEF OneShot, IsRepeatable
  <1>x. \A u \in OneShot : u \in Txn
    BY DEF OneShot
  <1>1. CASE SendThrows
    <2>1. /\ queue' = Tail(queue)
          /\ UNCHANGED <<slot, ticks, failures, attempts, issued, cancelled>>
      BY <1>1 DEF SendThrows, exchanges
    <2>2. \A u \in OneShot : InBudget(u)'
      BY <1>q, <2>1, BudgetKept DEF InQueue, InExchange
    <2> QED BY <1>o, <2>1, <2>2 DEF Budgeted, BudgetInv, FailuresBounded
  <1>2. CASE DropCancelled
    <2>1. /\ queue' = Tail(queue) /\ t \in cancelled
          /\ ticks' = Append(ticks, Tick(t, "error", FALSE))
          /\ failures' = [failures EXCEPT ![t] = NextFailures(t, "error")]
          /\ UNCHANGED <<slot, attempts, issued, cancelled>>
      BY <1>2, <1>h DEF DropCancelled, Settle, history
    <2>2. FailuresBounded'
      BY <1>t, <2>1, FailuresStep DEF BudgetInv
    <2>3. ToSet(ticks') = ToSet(ticks) \cup {Tick(t, "error", FALSE)}
            /\ Tick(t, "error", FALSE).txn = t
      <3>1. Tick(t, "error", FALSE) \in TickRecord
        BY DEF Tick, TickRecord, Outcome
      <3> QED BY <1>t, <2>1, <3>1, ElementsAppend DEF Tick
    <2>4. ASSUME NEW u \in OneShot PROVE InBudget(u)'
      <3>1. CASE u # t
        <4>1. attempts'[u] = attempts[u] /\ failures'[u] = failures[u]
          BY <1>t, <1>x, <2>1, <3>1
        <4>2. \A k \in ToSet(ticks') : k.txn = u => k \in ToSet(ticks)
          BY <2>3, <3>1
        <4> QED BY <1>q, <2>1, <4>1, <4>2, BudgetKept DEF InQueue, InExchange
      <3>2. CASE u = t
        <4>1. InBudget(t) /\ t \in issued
          BY <1>q, <3>2, ExclusiveHolds DEF BudgetInv, Budgeted, Exclusive
        <4> QED BY <2>1, <3>2, <4>1 DEF InBudget
      <3> QED BY <3>1, <3>2
    <2> QED BY <1>o, <2>2, <2>4 DEF Budgeted
  <1>3. ASSUME NEW s \in Slot, SendNext(s) PROVE FailuresBounded' /\ Budgeted'
    <2>1. /\ queue' = Tail(queue) /\ t \notin cancelled
          /\ slot' = [slot EXCEPT ![s] = t]
          /\ attempts' = [attempts EXCEPT ![t] = @ + 1]
          /\ UNCHANGED <<ticks, failures, issued, cancelled>>
      BY <1>3, <1>h DEF SendNext
    <2>2. ASSUME NEW u \in OneShot PROVE InBudget(u)'
      <3>1. CASE u # t
        <4>1. attempts'[u] = attempts[u] /\ failures'[u] = failures[u]
          BY <1>t, <1>x, <2>1, <3>1
        <4>2. \A x \in Slot : slot'[x] = u => slot[x] = u
          BY <1>t, <2>1, <3>1
        <4> QED BY <1>q, <2>1, <4>1, <4>2, BudgetKept DEF InQueue, InExchange
      <3>2. CASE u = t
        <4>1. InBudget(t) /\ t \in issued
          BY <1>q, <3>2, ExclusiveHolds DEF BudgetInv, Budgeted, Exclusive
        <4>2. attempts[t] = failures[t] /\ failures[t] <= MaxRetries[t]
          BY <1>q, <2>1, <4>1 DEF InBudget
        <4>3. attempts'[t] = failures'[t] + 1 /\ failures'[t] <= MaxRetries[t]
                /\ attempts'[t] <= MaxRetries[t] + 1
          BY <1>t, <2>1, <4>2
        <4>4. InExchange(t)'
          BY <1>t, <2>1 DEF InExchange
        <4>5. ~InQueue(t)' /\ ~InTick(t)'
          BY <1>o, <3>2, <4>4, ExclusiveNext DEF Exclusive
        <4> QED BY <2>1, <3>2, <4>1, <4>3, <4>5 DEF InBudget, InTick
      <3> QED BY <3>1, <3>2
    <2> QED BY <1>o, <2>1, <2>2 DEF Budgeted, BudgetInv, FailuresBounded
  <1> QED BY <1>1, <1>2, <1>3 DEF Loop

LEMMA BudgetTypes ==
    ASSUME BudgetInv
    PROVE  /\ TypeOK /\ queue \in Seq(Txn) /\ repeatables \in Seq(Txn) /\ ticks \in Seq(TickRecord)
           /\ failures \in [Txn -> Nat] /\ attempts \in [Txn -> Nat] /\ MaxRetries \in [Txn -> Nat]
           /\ slot \in [Slot -> Txn \cup {None}] /\ timer \in [Slot -> Txn \cup {None}]
           /\ \A u \in OneShot : u \in Txn
           /\ \A u : u \in OneShot' <=> u \in OneShot
  BY RetriesAssumption DEF BudgetInv, CopyInv, AccountingInv, TypeOK, TypeRequests, TypeExchanges,
     TypeHistory, TickRecord, OneShot, IsRepeatable

\* An exchange of a one-shot transaction ends, in a tick.
LEMMA BudgetEnds ==
    ASSUME BudgetInv, NEW s \in Slot, NEW t \in Txn, NEW outcome \in Outcome,
           NEW counted \in BOOLEAN,
           t \in OneShot => slot[s] = t,
           slot' = [slot EXCEPT ![s] = None],
           failures' = [failures EXCEPT ![t] = NextFailures(t, outcome)],
           ticks' = Append(ticks, Tick(t, outcome, counted)),
           UNCHANGED <<queue, attempts, issued, cancelled>>
    PROVE  FailuresBounded' /\ Budgeted'
  <1>t. /\ TypeOK /\ queue \in Seq(Txn) /\ ticks \in Seq(TickRecord)
        /\ failures \in [Txn -> Nat] /\ attempts \in [Txn -> Nat] /\ MaxRetries \in [Txn -> Nat]
        /\ slot \in [Slot -> Txn \cup {None}]
        /\ \A u \in OneShot : u \in Txn
        /\ \A u : u \in OneShot' <=> u \in OneShot
    BY BudgetTypes
  <1> DEFINE k == Tick(t, outcome, counted)
  <1>1. FailuresBounded'
    BY <1>t, FailuresStep DEF BudgetInv
  <1>2. ToSet(ticks') = ToSet(ticks) \cup {k} /\ k.txn = t /\ k.outcome = outcome
    <2>1. k \in TickRecord
      BY DEF Tick, TickRecord
    <2> QED BY <1>t, <2>1, ElementsAppend DEF Tick
  <1>3. \A x \in Slot, u \in Txn : slot'[x] = u => slot[x] = u
    BY <1>t, NoneAssumption
  <1>4. ASSUME NEW u \in OneShot PROVE InBudget(u)'
    <2>1. CASE u # t
      <3>1. attempts'[u] = attempts[u] /\ failures'[u] = failures[u]
        BY <1>t, <2>1
      <3>2. \A r \in ToSet(ticks') : r.txn = u => r \in ToSet(ticks)
        BY <1>2, <2>1
      <3>3. (InQueue(u)' => InQueue(u)) /\ (InExchange(u)' => InExchange(u))
        BY <1>t, <1>3 DEF InQueue, InExchange
      <3> QED BY <3>1, <3>2, <3>3, BudgetKept
    <2>2. CASE u = t
      <3>1. InBudget(t) /\ InExchange(t)
        BY <2>2 DEF BudgetInv, Budgeted, InExchange
      <3>2. t \in issued /\ ~InQueue(t) /\ ~InTick(t)
        BY <2>2, <3>1, ExclusiveHolds DEF BudgetInv, Exclusive
      <3>3. ~InQueue(t)'
        BY <3>2 DEF InQueue
      <3>4. \A r \in ToSet(ticks') : r.txn = t => r = k
        BY <1>2, <3>2 DEF InTick
      <3>5. ASSUME t \notin cancelled PROVE attempts[t] = failures[t] + 1 /\ failures[t] <= MaxRetries[t]
        BY <3>1, <3>5 DEF InBudget
      <3>6. outcome = "ok" \/ (failures[t] <= MaxRetries[t] => failures'[t] = failures[t] + 1)
        BY <1>t DEF NextFailures
      <3>7. ~InExchange(t)'
        <4> SUFFICES ASSUME NEW x \in Slot, slot'[x] = t PROVE FALSE
          BY DEF InExchange
        <4>1. slot[x] = t /\ x # s
          BY <1>t, <1>3, NoneAssumption
        <4>2. slot[s] = t
          BY <2>2
        <4>3. timer[s] = t /\ timer[x] = t
          BY <2>2, <4>1, <4>2 DEF BudgetInv, CopyInv, Guarded, Regular
        <4>4. handle[t] = s /\ handle[t] = x
          BY <2>2, <4>3 DEF BudgetInv, CopyInv, Guarded, Regular
        <4> QED BY <4>1, <4>4
      <3> QED BY <1>2, <2>2, <3>1, <3>2, <3>3, <3>4, <3>5, <3>6, <3>7 DEF InBudget
    <2> QED BY <2>1, <2>2
  <1> QED BY <1>t, <1>1, <1>4 DEF Budgeted

LEMMA BudgetCallbacks ==
    ASSUME BudgetInv, CopyInv', Timers \/ Remote PROVE FailuresBounded' /\ Budgeted'
  <1>t. /\ TypeOK /\ queue \in Seq(Txn) /\ ticks \in Seq(TickRecord)
        /\ slot \in [Slot -> Txn \cup {None}] /\ timer \in [Slot -> Txn \cup {None}]
        /\ \A u \in OneShot : u \in Txn
        /\ \A u : u \in OneShot' <=> u \in OneShot
    BY BudgetTypes
  <1>1. ASSUME NEW s \in Slot, Timeout(s) PROVE FailuresBounded' /\ Budgeted'
    <2>1. PICK t \in Txn : t = timer[s]
      BY <1>1, <1>t DEF Timeout
    <2>2. t \in OneShot => slot[s] = t
      BY <2>1 DEF BudgetInv, CopyInv, Guarded, Regular
    <2>3. /\ slot' = [slot EXCEPT ![s] = None]
          /\ failures' = [failures EXCEPT ![t] = NextFailures(t, "error")]
          /\ ticks' = Append(ticks, Tick(t, "error", slot[s] # None))
          /\ UNCHANGED <<queue, attempts, issued, cancelled>>
      BY <1>1, <2>1 DEF Timeout, EventLoop, requests, history
    <2>4. (slot[s] # None) \in BOOLEAN /\ "error" \in Outcome
      BY DEF Outcome
    <2> QED BY <2>2, <2>3, <2>4, BudgetEnds
  <1>2. ASSUME NEW s \in Slot, NEW outcome \in Outcome, Answer(s, outcome)
        PROVE  FailuresBounded' /\ Budgeted'
    <2>1. PICK t \in Txn : t = slot[s]
      BY <1>2, <1>t DEF Answer
    <2>2. /\ slot' = [slot EXCEPT ![s] = None]
          /\ failures' = [failures EXCEPT ![t] = NextFailures(t, outcome)]
          /\ ticks' = Append(ticks, Tick(t, outcome, TRUE))
          /\ UNCHANGED <<queue, attempts, issued, cancelled>>
      BY <1>2, <2>1 DEF Answer, Settle, requests, history
    <2>3. TRUE \in BOOLEAN
      OBVIOUS
    <2> QED BY <2>1, <2>2, <2>3, BudgetEnds
  <1>3. ASSUME NEW t \in Txn, ExecutionTimer(t) PROVE FailuresBounded' /\ Budgeted'
    <2>1. /\ waiting[t] > 0
          /\ queue' = queue \/ queue' = Append(queue, t)
          /\ UNCHANGED <<slot, ticks, failures, attempts, issued, cancelled>>
      BY <1>3 DEF ExecutionTimer, history
    <2>2. t \notin OneShot
      BY <2>1 DEF BudgetInv, CopyInv, OneShotApart
    <2>3. ToSet(queue') \subseteq ToSet(queue) \cup {t}
      BY <1>t, <2>1, ElementsAppend
    <2>4. \A u \in OneShot : InBudget(u)'
      BY <2>1, <2>2, <2>3, BudgetKept DEF InQueue, InExchange
    <2> QED BY <1>t, <2>1, <2>4 DEF Budgeted, BudgetInv, FailuresBounded
  <1> QED BY <1>1, <1>2, <1>3 DEF Timers, Remote

LEMMA BudgetTicks ==
    ASSUME BudgetInv, CopyInv', Ticks PROVE FailuresBounded' /\ Budgeted'
  <1>t. /\ TypeOK /\ queue \in Seq(Txn) /\ ticks \in Seq(TickRecord)
        /\ failures \in [Txn -> Nat] /\ attempts \in [Txn -> Nat] /\ MaxRetries \in [Txn -> Nat]
        /\ slot \in [Slot -> Txn \cup {None}]
        /\ \A u \in OneShot : u \in Txn
        /\ \A u : u \in OneShot' <=> u \in OneShot
    BY BudgetTypes
  <1>l. ticks # <<>>
    BY DEF Ticks, TickEvent, TickComplete
  <1>h. PICK t \in Txn : t = Head(ticks).txn
    BY <1>l, HeadTicks DEF BudgetInv
  <1>q. InTick(t) /\ ToSet(Tail(ticks)) \subseteq ToSet(ticks) /\ Head(ticks) \in ToSet(ticks)
    BY <1>t, <1>l, <1>h, ElementsTail DEF InTick
  <1>s. UNCHANGED <<failures, slot, issued, cancelled>>
    BY DEF Ticks, TickEvent, TickComplete, requests
  <1>f. FailuresBounded'
    BY <1>s DEF BudgetInv, FailuresBounded
  <1>1. ASSUME UNCHANGED <<queue, attempts>>, ticks' = ticks \/ ticks' = Tail(ticks)
        PROVE  Budgeted'
    <2>1. ToSet(ticks') \subseteq ToSet(ticks)
      BY <1>1, <1>q
    <2>2. \A u \in OneShot : InBudget(u)'
      BY <1>1, <1>s, <2>1, BudgetKept DEF InQueue, InExchange
    <2> QED BY <1>t, <2>2 DEF Budgeted
  <1>2. CASE TickEvent
    BY <1>f, <1>1, <1>2 DEF TickEvent, requests
  <1>3. CASE TickComplete /\ destroyed
    BY <1>f, <1>1, <1>3 DEF TickComplete
  <1>4. CASE TickComplete /\ ~destroyed
    <2> DEFINE k == Head(ticks)
               again == t \notin cancelled /\ Retries(t, k.outcome)
               scheduled == Schedules(t, k.outcome)
    <2>1. /\ ticks' = Tail(ticks) /\ queue' = NextQueue(t, k.outcome)
          /\ done' = IF again \/ scheduled THEN done ELSE done \cup {t}
          /\ attempts' = IF again THEN attempts ELSE [attempts EXCEPT ![t] = 0]
      BY <1>4, <1>h DEF TickComplete, Complete
    <2>2. t \in OneShot => ~scheduled
      BY DEF OneShot, Schedules
    <2>3. ToSet(queue') \subseteq ToSet(queue) \cup {t}
      <3>1. <<t>> \in Seq(Txn)
        OBVIOUS
      <3>2. ToSet(<<t>>) = {t}
        BY DEF ToSet
      <3>3. ToSet(<<t>> \o queue) \subseteq ToSet(<<t>>) \cup ToSet(queue)
        BY <1>t, <3>1, ElementsConcat
      <3>4. ToSet(Append(queue, t)) = ToSet(queue) \cup {t}
        BY <1>t, ElementsAppend
      <3>5. queue' = <<t>> \o queue \/ queue' = Append(queue, t) \/ queue' = queue
        BY <2>1 DEF NextQueue, Schedules
      <3> QED BY <3>2, <3>3, <3>4, <3>5
    <2>4. ASSUME NEW u \in OneShot PROVE InBudget(u)'
      <3>1. CASE u # t
        <4>1. attempts'[u] = attempts[u] /\ failures'[u] = failures[u]
          BY <1>t, <1>s, <2>1, <3>1
        <4>2. (InQueue(u)' => InQueue(u)) /\ (InExchange(u)' => InExchange(u))
          BY <1>s, <2>3, <3>1 DEF InQueue, InExchange
        <4> QED BY <1>q, <1>s, <2>1, <4>1, <4>2, BudgetKept
      <3>2. CASE u = t /\ again
        <4>1. InBudget(t) /\ t \in issued /\ ~InExchange(t)
          BY <1>q, <3>2, ExclusiveHolds DEF BudgetInv, Budgeted, Exclusive
        <4>2. failures[t] <= MaxRetries[t] /\ k.outcome # "ok"
          BY <3>2 DEF Retries, ShouldRetry, Exception
        <4>3. attempts[t] = failures[t]
          BY <1>h, <1>q, <3>2, <4>1, <4>2 DEF InBudget
        <4>4. attempts'[t] = attempts[t] /\ failures'[t] = failures[t] /\ t \in issued'
          BY <1>s, <2>1, <3>2, <4>1
        <4>5. ~InExchange(t)'
          BY <1>s, <4>1 DEF InExchange
        <4>6. attempts'[t] <= MaxRetries[t] + 1
          BY <4>1, <4>4 DEF InBudget
        <4> QED BY <3>2, <4>2, <4>3, <4>4, <4>5, <4>6 DEF InBudget
      <3>3. CASE u = t /\ ~again
        <4>1. t \in done'
          BY <2>1, <2>2, <3>3
        <4>2. ~InQueue(t)' /\ ~InExchange(t)' /\ ~InTick(t)'
          BY <1>t, <3>3, <4>1, ExclusiveNext DEF Exclusive
        <4>3. attempts'[t] = 0
          BY <1>t, <2>1, <3>3
        <4>4. t \in issued'
          BY <1>q, <1>s, <3>3, ExclusiveHolds DEF BudgetInv, Exclusive
        <4>5. attempts'[t] <= MaxRetries[t] + 1
          BY <1>t, <4>3
        <4> QED BY <3>3, <4>2, <4>4, <4>5 DEF InBudget, InTick
      <3> QED BY <3>1, <3>2, <3>3
    <2> QED BY <1>t, <1>f, <2>4 DEF Budgeted
  <1> QED BY <1>2, <1>3, <1>4 DEF Ticks

LEMMA BudgetRest ==
    ASSUME BudgetInv, CopyInv', Application \/ Connection PROVE FailuresBounded' /\ Budgeted'
  <1>t. /\ TypeOK /\ queue \in Seq(Txn) /\ ticks \in Seq(TickRecord) /\ repeatables \in Seq(Txn)
        /\ failures \in [Txn -> Nat] /\ attempts \in [Txn -> Nat] /\ MaxRetries \in [Txn -> Nat]
        /\ slot \in [Slot -> Txn \cup {None}]
        /\ \A u \in OneShot : u \in Txn
        /\ \A u : u \in OneShot' <=> u \in OneShot
    BY BudgetTypes
  <1>s. UNCHANGED <<failures, attempts, ticks>>
    BY DEF Application, Execute, Cancel, Destroy, Connection, ConnectionOpen, LineDown,
       ConnectionClose, exchanges, history
  <1>f. FailuresBounded'
    BY <1>s DEF BudgetInv, FailuresBounded
  <1>1. ASSUME NEW t \in Txn, Execute(t) PROVE Budgeted'
    <2>1. /\ queue' = Append(queue, t) /\ t \notin issued /\ issued' = issued \cup {t}
          /\ UNCHANGED <<slot, cancelled>>
      BY <1>1 DEF Execute, exchanges
    <2>2. ToSet(queue') = ToSet(queue) \cup {t}
      BY <1>t, <2>1, ElementsAppend
    <2>3. ASSUME NEW u \in OneShot PROVE InBudget(u)'
      <3>1. CASE u # t
        BY <1>s, <2>1, <2>2, <3>1, BudgetKept DEF InQueue, InExchange
      <3>2. CASE u = t
        <4>1. attempts[t] = 0 /\ failures[t] = 0
          BY <2>1, <3>2 DEF BudgetInv, Budgeted, InBudget
        <4>2. ~InExchange(t)' /\ ~InTick(t)'
          <5>1. InQueue(t)'
            BY <2>2 DEF InQueue
          <5> QED BY <1>t, <3>2, <5>1, ExclusiveNext DEF Exclusive
        <4> QED BY <1>t, <1>s, <2>1, <3>2, <4>1, <4>2 DEF InBudget, InTick
      <3> QED BY <3>1, <3>2
    <2> QED BY <1>t, <2>3 DEF Budgeted
  <1>2. ASSUME issued' = issued, cancelled \subseteq cancelled',
               \A u \in OneShot : u \in ToSet(queue') => u \in ToSet(queue),
               \A u \in Txn, s \in Slot : slot'[s] = u => slot[s] = u
        PROVE  Budgeted'
    <2>1. \A u \in OneShot : InBudget(u)'
      BY <1>t, <1>s, <1>2, BudgetKept DEF InQueue, InExchange
    <2> QED BY <1>t, <2>1 DEF Budgeted
  <1>3. ASSUME NEW t \in Txn, Cancel(t) PROVE Budgeted'
    <2>1. UNCHANGED <<queue, slot, issued>> /\ cancelled \subseteq cancelled'
      BY <1>3 DEF Cancel, exchanges
    <2> QED BY <1>2, <2>1
  <1>4. CASE Destroy
    <2>1. UNCHANGED <<issued, cancelled>> /\ queue' = <<>> /\ slot' = [s \in Slot |-> None]
      BY <1>4 DEF Destroy
    <2>2. \A u : u \notin ToSet(queue')
      BY <2>1 DEF ToSet
    <2>3. \A u \in Txn, s \in Slot : slot'[s] # u
      BY <2>1, NoneAssumption
    <2>4. issued' = issued /\ cancelled \subseteq cancelled'
      BY <2>1
    <2> QED BY <1>f, <1>2, <2>2, <2>3, <2>4
  <1>5. CASE Connection
    <2>1. /\ UNCHANGED <<slot, issued, cancelled>>
          /\ queue' = queue \/ queue' = queue \o repeatables
      BY <1>5 DEF Connection, ConnectionOpen, LineDown, ConnectionClose, WithRepeatablesQueued,
         requests, exchanges
    <2>2. \A u \in OneShot : u \notin ToSet(repeatables)
      BY DEF BudgetInv, CopyInv, OneShotApart
    <2>3. ToSet(queue \o repeatables) \subseteq ToSet(queue) \cup ToSet(repeatables)
      BY <1>t, ElementsConcat
    <2>4. /\ issued' = issued /\ cancelled \subseteq cancelled'
          /\ \A u \in Txn, s \in Slot : slot'[s] = u => slot[s] = u
      BY <2>1
    <2>5. \A u \in OneShot : u \in ToSet(queue') => u \in ToSet(queue)
      BY <2>1, <2>2, <2>3
    <2> QED BY <1>f, <1>2, <2>4, <2>5
  <1> QED BY <1>f, <1>1, <1>3, <1>4, <1>5 DEF Application

LEMMA BudgetInductive == Spec => []BudgetInv
  <1>1. Init => BudgetInv
    <2> SUFFICES ASSUME Init PROVE FailuresBounded /\ Budgeted
      BY CopyInit DEF BudgetInv
    <2>1. FailuresBounded
      BY RetriesAssumption DEF Init, FailuresBounded
    <2>2. \A t : ~InQueue(t) /\ ~InTick(t)
      BY DEF Init, InQueue, InTick, ToSet
    <2>3. \A t \in Txn : ~InExchange(t)
      BY NoneAssumption DEF Init, InExchange
    <2>4. \A t \in OneShot : t \in Txn
      BY DEF OneShot
    <2>5. Budgeted
      BY <2>2, <2>3, <2>4, RetriesAssumption DEF Init, Budgeted, InBudget, InTick
    <2> QED BY <2>1, <2>5
  <1>2. BudgetInv /\ UNCHANGED vars => BudgetInv'
    <2> SUFFICES ASSUME BudgetInv, UNCHANGED vars PROVE BudgetInv'
      OBVIOUS
    <2>1. CopyInv'
      BY CopyStutter DEF BudgetInv
    <2>2. UNCHANGED <<queue, slot, ticks, failures, attempts, issued, cancelled>>
      BY DEF vars, requests, exchanges, history
    <2>3. \A t \in OneShot : InBudget(t)'
      BY <2>2, BudgetKept DEF InQueue, InExchange
    <2>4. FailuresBounded' /\ Budgeted'
      BY <2>2, <2>3, BudgetTypes DEF BudgetInv, FailuresBounded, Budgeted
    <2> QED BY <2>1, <2>4 DEF BudgetInv
  <1>3. BudgetInv /\ Next => BudgetInv'
    <2> SUFFICES ASSUME BudgetInv, Next PROVE BudgetInv'
      OBVIOUS
    <2>1. CopyInv'
      BY CopyStep DEF BudgetInv
    <2>2. FailuresBounded' /\ Budgeted'
      BY <2>1, BudgetLoop, BudgetCallbacks, BudgetTicks, BudgetRest DEF Next
    <2> QED BY <2>1, <2>2 DEF BudgetInv
  <1> QED BY <1>1, <1>2, <1>3, PTL DEF Spec

\* A one-shot request is sent once and then once per retry, and given up because of
\* an error only when every retry was used.
THEOREM RetryBudgetHolds == Spec => []RetryBudget
  <1>1. BudgetInv => RetryBudget
    <2> SUFFICES ASSUME BudgetInv PROVE RetryBudget
      OBVIOUS
    <2>1. \A t \in OneShot : attempts[t] <= MaxRetries[t] + 1
      BY DEF BudgetInv, Budgeted, InBudget
    <2>2. ASSUME ticks # <<>>, Head(ticks).txn \in OneShot \ cancelled,
                 Head(ticks).outcome = "error", ~ShouldRetry(Head(ticks).txn)
          PROVE  attempts[Head(ticks).txn] = MaxRetries[Head(ticks).txn] + 1
      <3>1. PICK t \in Txn : t = Head(ticks).txn
        BY <2>2, HeadTicks DEF BudgetInv
      <3>2. Head(ticks) \in ToSet(ticks)
        BY <2>2, BudgetTypes, ElementsTail
      <3>3. attempts[t] = failures[t]
        BY <2>2, <3>1, <3>2 DEF BudgetInv, Budgeted, InBudget
      <3>4. failures[t] > MaxRetries[t] /\ failures[t] <= MaxRetries[t] + 1
              /\ failures[t] \in Nat /\ MaxRetries[t] \in Nat
        <4>1. failures[t] \in Nat /\ MaxRetries[t] \in Nat
          BY BudgetTypes
        <4> QED BY <2>2, <3>1, <4>1 DEF ShouldRetry, BudgetInv, FailuresBounded
      <3> QED BY <3>1, <3>3, <3>4
    <2> QED BY <2>1, <2>2 DEF RetryBudget
  <1> QED BY <1>1, BudgetInductive, PTL

\* What a quiet destroy() leaves: nothing that fires on a live transaction.
Silent ==
    (destroyed /\ requeues = 0 /\ quietDestroy) =>
        /\ ~crashed /\ ticks = <<>>
        /\ \A s \in Slot : timer[s] = None
        /\ \A t \in Txn \ cancelled : waiting[t] = 0
SilentInv == CopyInv /\ Silent

LEMMA SilentStep == SilentInv /\ Next => SilentInv'
  <1> SUFFICES ASSUME SilentInv, Next PROVE SilentInv'
    OBVIOUS
  <1>t. /\ TypeOK /\ timer \in [Slot -> Txn \cup {None}] /\ slot \in [Slot -> Txn \cup {None}]
        /\ waiting \in [Txn -> Nat] /\ requeues \in Nat /\ repeatables \in Seq(Txn)
        /\ timer' \in [Slot -> Txn \cup {None}]
    <2>1. CopyInv'
      BY CopyStep DEF SilentInv
    <2> QED BY <2>1 DEF SilentInv, CopyInv, AccountingInv, TypeOK, TypeExchanges, TypeHistory, TypeRequests
  <1>1. CopyInv'
    BY CopyStep DEF SilentInv
  <1>2. CASE Destroy
    <2>1. ~destroyed /\ detached = {} /\ ~crashed
      BY <1>2 DEF Destroy, SilentInv, CopyInv, DestroyedLast
    <2> DEFINE Reached == ToSet(queue) \cup ToSet(repeatables) \cup {slot[s] : s \in Busy}
    <2>2. /\ UNCHANGED <<crashed, ticks, requeues, cancelled>>
          /\ destroyed'
          /\ quietDestroy' => ticks = <<>>
          /\ slot' = [s \in Slot |-> None]
          /\ waiting' = [t \in Txn |-> IF t \in Reached THEN LeftWaiting(t) ELSE waiting[t]]
      BY <1>2 DEF Destroy
    <2>3. ASSUME requeues = 0, NEW s \in Slot PROVE timer'[s] = None
      <3>1. Guarded'
        BY <1>1 DEF CopyInv
      <3>2. \A t \in Txn : timer'[s] = t => slot'[s] = t
        BY <2>2, <2>3, <3>1 DEF Guarded, Regular
      <3> QED BY <1>t, <2>2, <3>2, NoneAssumption
    <2>4. ASSUME requeues = 0, NEW t \in Txn \ cancelled PROVE waiting'[t] = 0
      <3>1. Places(t) + waiting[t] <= (IF t \in issued THEN 1 ELSE 0) + requeues
        BY <2>4 DEF SilentInv, CopyInv, Copies
      <3>2. Places(t) \in Nat /\ waiting[t] \in Nat
        BY <1>t, PlacesFacts
      <3>3. CASE waiting[t] = 0
        BY <2>2, <3>3 DEF LeftWaiting
      <3>4. CASE waiting[t] # 0
        <4>1. t \in issued /\ waiting[t] = 1
          BY <2>4, <3>1, <3>2, <3>4
        <4>2. t \in ToSet(repeatables)
          BY <2>1, <2>4, <3>4, <4>1 DEF SilentInv, CopyInv, OneShotApart, RepeatedOnce
        <4> QED BY <2>2, <4>1, <4>2 DEF LeftWaiting
      <3> QED BY <3>3, <3>4
    <2>5. Silent'
      BY <2>1, <2>2, <2>3, <2>4 DEF Silent
    <2> QED BY <1>1, <2>5 DEF SilentInv
  <1>3. CASE ~Destroy /\ destroyed /\ requeues = 0 /\ quietDestroy
    <2>1. /\ ~crashed /\ ticks = <<>> /\ queue = <<>>
          /\ \A s \in Slot : timer[s] = None /\ slot[s] = None
          /\ \A t \in Txn \ cancelled : waiting[t] = 0
      BY <1>3 DEF SilentInv, Silent, CopyInv, DestroyedEmpty
    <2>2. ~Loop /\ ~Ticks /\ ~Remote /\ ~Connection /\ (\A s \in Slot : ~Timeout(s))
            /\ \A t \in Txn : ~Execute(t)
      BY <1>3, <2>1 DEF Loop, SendThrows, DropCancelled, SendNext, InLoop, Ticks, TickEvent,
         TickComplete, Remote, Answer, Timeout, Connection, ConnectionOpen, LineDown,
         ConnectionClose, Execute
    <2>3. (\E t \in Txn : Cancel(t)) \/ (\E t \in Txn : ExecutionTimer(t))
      BY <1>3, <2>2 DEF Next, Application, Timers
    <2>4. ASSUME NEW t \in Txn, Cancel(t) PROVE Silent'
      <3>1. UNCHANGED <<destroyed, requeues, quietDestroy, crashed, ticks, timer, waiting>>
              /\ cancelled \subseteq cancelled'
        BY <2>4 DEF Cancel, exchanges, shutdown, history
      <3> QED BY <2>1, <3>1 DEF Silent
    <2>5. ASSUME NEW t \in Txn, ExecutionTimer(t) PROVE Silent'
      <3>1. t \in cancelled
        BY <2>1, <2>5 DEF ExecutionTimer
      <3>2. /\ UNCHANGED <<destroyed, requeues, quietDestroy, crashed, ticks, timer, cancelled>>
            /\ waiting' = [waiting EXCEPT ![t] = @ - 1]
        BY <2>5, <3>1 DEF ExecutionTimer, history
      <3>3. \A u \in Txn \ cancelled : waiting'[u] = 0
        BY <1>t, <2>1, <3>1, <3>2
      <3> QED BY <2>1, <3>2, <3>3 DEF Silent
    <2> QED BY <1>1, <2>3, <2>4, <2>5 DEF SilentInv
  <1>4. CASE ~Destroy /\ ~(destroyed /\ requeues = 0 /\ quietDestroy)
    <2>1. destroyed' = destroyed /\ quietDestroy' = quietDestroy
      BY <1>4 DEF Next, Application, Loop, Ticks, Timers, Remote, Connection, Execute, Cancel,
         SendThrows, DropCancelled, SendNext, TickEvent, TickComplete, Timeout,
         ExecutionTimer, Answer, ConnectionOpen, LineDown, ConnectionClose, shutdown, history
    <2>2. requeues' = 0 => requeues = 0
      <3>1. CASE ConnectionOpen
        BY <1>t, <3>1 DEF ConnectionOpen
      <3>2. CASE ~ConnectionOpen
        BY <1>4, <3>2 DEF Next, Application, Loop, Ticks, Timers, Remote, Connection, Execute,
           Cancel, SendThrows, DropCancelled, SendNext, TickEvent, TickComplete, Timeout,
           ExecutionTimer, Answer, LineDown, ConnectionClose, history
      <3> QED BY <3>1, <3>2
    <2> QED BY <1>1, <1>4, <2>1, <2>2 DEF SilentInv, Silent
  <1> QED BY <1>2, <1>3, <1>4

\* destroy() from an idle event loop leaves nothing behind that throws, unless an
\* 'open' event had queued a repeatable transaction twice.
THEOREM DestroyIsSafe == Spec => []DestroySafe
  <1>1. Init => SilentInv
    BY CopyInit DEF Init, SilentInv, Silent
  <1>2. SilentInv /\ UNCHANGED vars => SilentInv'
    BY CopyStutter DEF SilentInv, Silent, vars, requests, exchanges, shutdown, history
  <1>3. SilentInv => DestroySafe
    BY DEF SilentInv, Silent, CopyInv, AccountingInv, TypeOK, TypeHistory, DestroyedLast, DestroySafe
  <1> QED
    <2>1. Spec => []SilentInv
      BY <1>1, <1>2, SilentStep, PTL DEF Spec
    <2> QED BY <1>3, <2>1, PTL

----------------------------------------------------------------------------
\* The abstract lifecycle.  Where a one-shot transaction is gives its status in the lifecycle.
StatusMap == \A t \in OneShot :
    /\ InQueue(t) => Status(t) = "queued"
    /\ InExchange(t) => Status(t) = "sent"
    /\ InTick(t) => Status(t) = "settling"
    /\ t \in done => Status(t) = "done"
    /\ t \in thrown \cup swallowed => Status(t) = "lost"
    /\ t \notin issued => Status(t) = "new"

LEMMA StatusMapHolds == CopyInv => StatusMap
  <1> SUFFICES ASSUME CopyInv, NEW t \in OneShot
               PROVE  /\ InQueue(t) => Status(t) = "queued"
                      /\ InExchange(t) => Status(t) = "sent"
                      /\ InTick(t) => Status(t) = "settling"
                      /\ t \in done => Status(t) = "done"
                      /\ t \in thrown \cup swallowed => Status(t) = "lost"
                      /\ t \notin issued => Status(t) = "new"
    BY DEF StatusMap
  <1>1. /\ InQueue(t) => ~InExchange(t) /\ ~InTick(t)
        /\ InExchange(t) => ~InTick(t)
        /\ InQueue(t) \/ InExchange(t) \/ InTick(t) =>
              t \in issued /\ t \notin done \cup thrown \cup swallowed \cup detached
    BY ExclusiveHolds DEF Exclusive
  <1>2. /\ t \in done => t \in issued /\ t \notin thrown \cup swallowed \cup detached
        /\ t \in thrown \cup swallowed => t \in issued /\ t \notin done \cup detached
        /\ t \notin issued => t \notin done \cup thrown \cup swallowed \cup detached
    <2>1. Places(t) + Fate(t) <= (IF t \in issued THEN 1 ELSE 0) /\ Places(t) \in Nat
      <3>1. t \in Txn /\ TypeOK
        BY DEF OneShot, CopyInv, AccountingInv
      <3> QED BY <3>1, PlacesFacts DEF CopyInv, Located
    <2>2. Fate(t) <= (IF t \in issued THEN 1 ELSE 0)
      BY <2>1 DEF Fate
    <2> QED BY <2>2 DEF Fate
  <1>3. t \notin issued => Status(t) = "new"
    BY <1>2 DEF Status
  <1>4. t \in thrown \cup swallowed => Status(t) = "lost"
    BY <1>2 DEF Status
  <1>5. t \in done => Status(t) = "done"
    BY <1>2 DEF Status
  <1>6. t \in issued /\ t \notin done \cup thrown \cup swallowed \cup detached =>
          /\ InExchange(t) => Status(t) = "sent"
          /\ ~InExchange(t) /\ InQueue(t) => Status(t) = "queued"
          /\ ~InExchange(t) /\ ~InQueue(t) => Status(t) = "settling"
    BY <1>1 DEF Status, InExchange, InQueue
  <1> QED BY <1>1, <1>3, <1>4, <1>5, <1>6

LEMMA StatusMapNext == CopyInv' => StatusMap'
  BY StatusMapHolds, PTL

LEMMA StatusKept ==
    ASSUME NEW u, u \in issued' <=> u \in issued,
           u \in (thrown \cup swallowed)' <=> u \in thrown \cup swallowed,
           u \in done' <=> u \in done, u \in detached' <=> u \in detached,
           InExchange(u)' <=> InExchange(u), InQueue(u)' <=> InQueue(u)
    PROVE  Status(u)' = Status(u)
  BY DEF Status, InExchange, InQueue

\* A step that moves t alone leaves the others in the queue or the exchanges.
LEMMA MovesKeeps ==
    ASSUME TypeOK, TypeOK', NEW t \in Txn, NEW dq \in Int, NEW ds \in Int, NEW dk \in Int,
           Moves(t, dq, ds, dk), NEW u \in Txn, u # t
    PROVE  /\ InQueue(u)' <=> InQueue(u)
           /\ InExchange(u)' <=> InExchange(u)
  <1>1. queue' \in Seq(Txn)
    BY DEF TypeOK, TypeRequests
  <1>2. /\ Queued(queue, u) > 0 <=> InQueue(u)
        /\ Carried(slot, u) > 0 <=> InExchange(u)
        /\ Queued(queue, u) \in Nat /\ Carried(slot, u) \in Nat
    BY PlacesFacts DEF InQueue, InExchange
  <1>3. /\ Queued(queue', u) > 0 <=> InQueue(u)'
        /\ Carried(slot', u) = 0 <=> \A s \in Slot : slot'[s] # u
        /\ Carried(slot', u) \in Nat
    BY <1>1, QueuedFacts, CarriedFacts DEF InQueue
  <1>4. Carried(slot', u) > 0 <=> InExchange(u)'
    BY <1>3 DEF InExchange
  <1>5. /\ Queued(queue', u) = Queued(queue, u) + (IF u = t THEN dq ELSE 0)
        /\ Carried(slot', u) = Carried(slot, u) + (IF u = t THEN ds ELSE 0)
    BY DEF Moves
  <1> QED BY <1>2, <1>3, <1>4, <1>5

statusBar == [t \in OneShot |-> Status(t)]
triesBar == [t \in OneShot |-> attempts[t]]
LifecycleStep == Lifecycle!Next \/ (statusBar' = statusBar /\ triesBar' = triesBar)

LEMMA LifecycleStays ==
    ASSUME \A u \in OneShot : Status(u)' = Status(u) /\ attempts'[u] = attempts[u]
    PROVE  LifecycleStep
  <1>1. \A u : u \in OneShot' <=> u \in OneShot
    BY DEF OneShot, IsRepeatable
  <1>2. statusBar' = statusBar /\ triesBar' = triesBar
    BY <1>1 DEF statusBar, triesBar
  <1> QED BY <1>2 DEF LifecycleStep

LEMMA LifecycleMove ==
    ASSUME NEW t \in OneShot, NEW from, NEW to, Status(t) = from, Status(t)' = to,
           \A u \in OneShot : u # t => Status(u)' = Status(u)
    PROVE  Lifecycle!Move(t, from, to)
  <1>1. OneShot' = OneShot
    BY DEF OneShot, IsRepeatable
  <1>2. [u \in OneShot |-> Status(u)]' = [[u \in OneShot |-> Status(u)] EXCEPT ![t] = to]
    BY <1>1
  <1> QED BY <1>2 DEF Lifecycle!Move

LEMMA LifecycleTries ==
    ASSUME \A u \in OneShot : attempts'[u] = attempts[u]
    PROVE  triesBar' = triesBar
  BY DEF triesBar, OneShot, IsRepeatable

LEMMA LifecycleTypes ==
    ASSUME BudgetInv, CopyInv'
    PROVE  /\ TypeOK /\ TypeOK' /\ StatusMap /\ StatusMap'
           /\ \A u : u \in OneShot' <=> u \in OneShot
           /\ \A u \in OneShot : u \in Txn
           /\ attempts \in [Txn -> Nat]
  <1>1. TypeOK /\ TypeOK' /\ attempts \in [Txn -> Nat]
    BY DEF BudgetInv, CopyInv, AccountingInv, TypeOK, TypeHistory
  <1> QED BY <1>1, StatusMapHolds, StatusMapNext DEF BudgetInv, OneShot, IsRepeatable

LEMMA LifecycleLoop ==
    ASSUME BudgetInv, CopyInv', Loop PROVE LifecycleStep
  <1>t. /\ TypeOK /\ TypeOK' /\ StatusMap /\ StatusMap'
        /\ \A u : u \in OneShot' <=> u \in OneShot
        /\ \A u \in OneShot : u \in Txn
        /\ attempts \in [Txn -> Nat]
    BY LifecycleTypes
  <1>l. queue # <<>>
    BY DEF Loop, SendThrows, DropCancelled, SendNext, InLoop
  <1>h. PICK t \in Txn : t = Head(queue)
    BY <1>t, <1>l, HeadsType
  <1>q. InQueue(t)
    BY <1>t, <1>l, <1>h, ElementsTail DEF InQueue, TypeOK, TypeRequests
  <1>1. CASE SendThrows
    <2>1. /\ queue' = Tail(queue) /\ thrown' = thrown \cup {t}
          /\ UNCHANGED <<slot, ticks, attempts, issued, done, swallowed, detached>>
      BY <1>1, <1>h DEF SendThrows, exchanges, shutdown
    <2>2. Moves(t, -1, 0, 0)
      BY <1>t, <1>l, <1>h, <2>1, MovesOutOfQueue
    <2>3. \A u \in OneShot : u # t => Status(u)' = Status(u)
      <3> SUFFICES ASSUME NEW u \in OneShot, u # t PROVE Status(u)' = Status(u)
        OBVIOUS
      <3>1. (InQueue(u)' <=> InQueue(u)) /\ (InExchange(u)' <=> InExchange(u))
        BY <1>t, <2>2, MovesKeeps
      <3> QED BY <2>1, <3>1, StatusKept
    <2>4. CASE t \in OneShot
      <3>1. Status(t) = "queued" /\ Status(t)' = "lost"
        BY <1>t, <1>q, <2>1, <2>4 DEF StatusMap
      <3>2. Lifecycle!Move(t, "queued", "lost")
        BY <2>3, <2>4, <3>1, LifecycleMove
      <3>3. triesBar' = triesBar
        BY <2>1, LifecycleTries
      <3> QED BY <2>4, <3>2, <3>3 DEF LifecycleStep, triesBar, Lifecycle!Next, Lifecycle!Lose
    <2>5. CASE t \notin OneShot
      BY <2>1, <2>3, <2>5, LifecycleStays
    <2> QED BY <2>4, <2>5
  <1>2. CASE DropCancelled
    <2>1. /\ queue' = Tail(queue) /\ ticks' = Append(ticks, Tick(t, "error", FALSE))
          /\ UNCHANGED <<slot, attempts, issued, done, thrown, swallowed, detached>>
      BY <1>2, <1>h DEF DropCancelled, Settle, shutdown, history
    <2>2. FALSE \in BOOLEAN /\ "error" \in Outcome
      BY DEF Outcome
    <2>3. Moves(t, -1, 0, 1)
      BY <1>t, <1>l, <1>h, <2>1, <2>2, MovesQueueToTick
    <2>4. \A u \in OneShot : u # t => Status(u)' = Status(u)
      <3> SUFFICES ASSUME NEW u \in OneShot, u # t PROVE Status(u)' = Status(u)
        OBVIOUS
      <3>1. (InQueue(u)' <=> InQueue(u)) /\ (InExchange(u)' <=> InExchange(u))
        BY <1>t, <2>3, MovesKeeps
      <3> QED BY <2>1, <3>1, StatusKept
    <2>5. CASE t \in OneShot
      <3>1. InTick(t)'
        <4>a. Tick(t, "error", FALSE) \in TickRecord
          BY <1>t, <2>2 DEF Tick, TickRecord
        <4>b. Tick(t, "error", FALSE).txn = t
          BY DEF Tick
        <4>1. PICK k \in TickRecord : k = Tick(t, "error", FALSE) /\ k.txn = t
          BY <4>a, <4>b
        <4>2. ToSet(Append(ticks, k)) = ToSet(ticks) \cup {k}
          BY <1>t, TypesOfPlaces, ElementsAppend
        <4>3. k \in ToSet(ticks')
          BY <2>1, <4>1, <4>2
        <4> QED BY <4>1, <4>3 DEF InTick
      <3>2. Status(t) = "queued" /\ Status(t)' = "settling"
        BY <1>t, <1>q, <2>5, <3>1 DEF StatusMap
      <3>3. Lifecycle!Move(t, "queued", "settling")
        BY <2>4, <2>5, <3>2, LifecycleMove
      <3>4. triesBar' = triesBar
        BY <2>1, LifecycleTries
      <3> QED BY <2>5, <3>3, <3>4 DEF LifecycleStep, triesBar, Lifecycle!Next, Lifecycle!End
    <2>6. CASE t \notin OneShot
      BY <2>1, <2>4, <2>6, LifecycleStays
    <2> QED BY <2>5, <2>6
  <1>3. ASSUME NEW s \in Slot, SendNext(s) PROVE LifecycleStep
    <2>1. /\ queue' = Tail(queue) /\ slot[s] = None /\ slot' = [slot EXCEPT ![s] = t]
          /\ t \notin cancelled
          /\ attempts' = [attempts EXCEPT ![t] = @ + 1]
          /\ UNCHANGED <<ticks, issued, done, thrown, swallowed, detached>>
      BY <1>3, <1>h DEF SendNext, shutdown
    <2>2. Moves(t, -1, 1, 0)
      BY <1>t, <1>l, <1>h, <2>1, MovesToExchange
    <2>3. \A u \in OneShot : u # t => Status(u)' = Status(u)
      <3> SUFFICES ASSUME NEW u \in OneShot, u # t PROVE Status(u)' = Status(u)
        OBVIOUS
      <3>1. (InQueue(u)' <=> InQueue(u)) /\ (InExchange(u)' <=> InExchange(u))
        BY <1>t, <2>2, MovesKeeps
      <3> QED BY <2>1, <3>1, StatusKept
    <2>4. CASE t \in OneShot
      <3>1. InExchange(t)'
        BY <1>t, <2>1 DEF InExchange, TypeOK, TypeExchanges
      <3>2. Status(t) = "queued" /\ Status(t)' = "sent"
        BY <1>t, <1>q, <2>4, <3>1 DEF StatusMap
      <3>3. Lifecycle!Move(t, "queued", "sent")
        BY <2>3, <2>4, <3>2, LifecycleMove
      <3>4. attempts[t] <= MaxRetries[t]
        BY <1>q, <2>1, <2>4 DEF BudgetInv, Budgeted, InBudget
      <3>5. triesBar[t] <= MaxRetries[t] /\ triesBar' = [triesBar EXCEPT ![t] = @ + 1]
        BY <1>t, <2>1, <2>4, <3>4 DEF triesBar, OneShot, IsRepeatable
      <3> QED BY <2>4, <3>3, <3>5 DEF LifecycleStep, triesBar, Lifecycle!Next, Lifecycle!Send
    <2>5. CASE t \notin OneShot
      <3>1. \A u \in OneShot : attempts'[u] = attempts[u]
        BY <1>t, <2>1, <2>5
      <3> QED BY <2>3, <2>5, <3>1, LifecycleStays
    <2> QED BY <2>4, <2>5
  <1> QED BY <1>1, <1>2, <1>3 DEF Loop

\* An exchange ends: the request of a one-shot transaction settles.
LEMMA LifecycleEnds ==
    ASSUME BudgetInv, CopyInv', NEW s \in Slot, NEW t \in Txn, NEW outcome \in Outcome,
           NEW counted \in BOOLEAN,
           t \in OneShot => slot[s] = t,
           slot[s] \in OneShot => slot[s] = t,
           slot' = [slot EXCEPT ![s] = None],
           ticks' = Append(ticks, Tick(t, outcome, counted)),
           UNCHANGED <<queue, attempts, issued, done, thrown, swallowed, detached>>
    PROVE  LifecycleStep
  <1>t. /\ TypeOK /\ TypeOK' /\ StatusMap /\ StatusMap'
        /\ \A u : u \in OneShot' <=> u \in OneShot
        /\ \A u \in OneShot : u \in Txn
    BY LifecycleTypes
  <1>1. ASSUME NEW u \in OneShot, u # t PROVE Status(u)' = Status(u)
    <2>1. \A x \in Slot : slot'[x] = u <=> slot[x] = u
      BY <1>t, <1>1, NoneAssumption DEF TypeOK, TypeExchanges
    <2>2. (InQueue(u)' <=> InQueue(u)) /\ (InExchange(u)' <=> InExchange(u))
      BY <2>1 DEF InQueue, InExchange
    <2> QED BY <2>2, StatusKept
  <1>2. CASE t \in OneShot
    <2>1. InTick(t)'
      <3>1. Tick(t, outcome, counted) \in TickRecord /\ Tick(t, outcome, counted).txn = t
        BY DEF Tick, TickRecord
      <3>2. ToSet(Append(ticks, Tick(t, outcome, counted)))
              = ToSet(ticks) \cup {Tick(t, outcome, counted)}
        BY <1>t, <3>1, TypesOfPlaces, ElementsAppend
      <3> QED BY <3>1, <3>2 DEF InTick
    <2>2. Status(t) = "sent" /\ Status(t)' = "settling"
      BY <1>t, <1>2, <2>1 DEF StatusMap, InExchange
    <2>3. Lifecycle!Move(t, "sent", "settling")
      BY <1>1, <1>2, <2>2, LifecycleMove
    <2>4. triesBar' = triesBar
      BY LifecycleTries
    <2> QED BY <1>2, <2>3, <2>4 DEF LifecycleStep, triesBar, Lifecycle!Next, Lifecycle!End
  <1>3. CASE t \notin OneShot
    BY <1>1, <1>3, LifecycleStays
  <1> QED BY <1>2, <1>3

LEMMA LifecycleCallbacks ==
    ASSUME BudgetInv, CopyInv', Timers \/ Remote PROVE LifecycleStep
  <1>t. /\ TypeOK /\ TypeOK' /\ \A u \in OneShot : u \in Txn
        /\ slot \in [Slot -> Txn \cup {None}] /\ timer \in [Slot -> Txn \cup {None}]
    BY LifecycleTypes, BudgetTypes
  <1>1. ASSUME NEW s \in Slot, Timeout(s) PROVE LifecycleStep
    <2>1. PICK t \in Txn : t = timer[s]
      BY <1>1, <1>t DEF Timeout
    <2>2. (t \in OneShot => slot[s] = t) /\ (slot[s] \in OneShot => slot[s] = t)
      BY <1>t, <2>1 DEF BudgetInv, CopyInv, Guarded, Regular
    <2>3. /\ slot' = [slot EXCEPT ![s] = None]
          /\ ticks' = Append(ticks, Tick(t, "error", slot[s] # None))
          /\ UNCHANGED <<queue, attempts, issued, done, thrown, swallowed, detached>>
      BY <1>1, <2>1 DEF Timeout, EventLoop, requests, shutdown, history
    <2>4. (slot[s] # None) \in BOOLEAN /\ "error" \in Outcome
      BY DEF Outcome
    <2> QED BY <2>2, <2>3, <2>4, LifecycleEnds
  <1>2. ASSUME NEW s \in Slot, NEW outcome \in Outcome, Answer(s, outcome) PROVE LifecycleStep
    <2>1. PICK t \in Txn : t = slot[s]
      BY <1>2, <1>t DEF Answer
    <2>2. /\ slot' = [slot EXCEPT ![s] = None]
          /\ ticks' = Append(ticks, Tick(t, outcome, TRUE))
          /\ UNCHANGED <<queue, attempts, issued, done, thrown, swallowed, detached>>
      BY <1>2, <2>1 DEF Answer, Settle, requests, shutdown, history
    <2>3. TRUE \in BOOLEAN
      OBVIOUS
    <2> QED BY <2>1, <2>2, <2>3, LifecycleEnds
  <1>3. ASSUME NEW t \in Txn, ExecutionTimer(t) PROVE LifecycleStep
    <2>1. /\ waiting[t] > 0
          /\ queue' = queue \/ queue' = Append(queue, t)
          /\ UNCHANGED <<slot, ticks, attempts, issued, done, thrown, swallowed, detached>>
      BY <1>3 DEF ExecutionTimer, history
    <2>2. t \notin OneShot
      BY <2>1 DEF BudgetInv, CopyInv, OneShotApart
    <2>3. ToSet(queue') = ToSet(queue) \/ ToSet(queue') = ToSet(queue) \cup {t}
      <3>1. ToSet(Append(queue, t)) = ToSet(queue) \cup {t}
        BY <1>t, TypesOfPlaces, ElementsAppend
      <3> QED BY <2>1, <3>1
    <2>4. \A u \in OneShot : Status(u)' = Status(u)
      BY <2>1, <2>2, <2>3, StatusKept DEF InQueue, InExchange
    <2> QED BY <2>1, <2>4, LifecycleStays
  <1> QED BY <1>1, <1>2, <1>3 DEF Timers, Remote

LEMMA LifecycleTicks ==
    ASSUME BudgetInv, CopyInv', Ticks PROVE LifecycleStep
  <1>t. /\ TypeOK /\ TypeOK' /\ StatusMap /\ StatusMap'
        /\ \A u : u \in OneShot' <=> u \in OneShot
        /\ \A u \in OneShot : u \in Txn
        /\ attempts \in [Txn -> Nat]
    BY LifecycleTypes
  <1>l. ticks # <<>>
    BY DEF Ticks, TickEvent, TickComplete
  <1>h. PICK t \in Txn : t = Head(ticks).txn
    BY <1>l, HeadTicks DEF BudgetInv
  <1>q. Head(ticks) \in ToSet(ticks) /\ InTick(t)
    BY <1>t, <1>l, <1>h, TypesOfPlaces, ElementsTail DEF InTick
  <1>s. t \in OneShot => Status(t) = "settling"
    BY <1>t, <1>q DEF StatusMap
  <1>1. CASE TickEvent /\ ~Throws(Head(ticks))
    <2>1. UNCHANGED <<queue, slot, attempts, issued, done, thrown, swallowed, detached>>
      BY <1>1 DEF TickEvent, requests
    <2>2. \A u \in OneShot : Status(u)' = Status(u)
      BY <2>1, StatusKept DEF InQueue, InExchange
    <2> QED BY <2>1, <2>2, LifecycleStays
  <1>2. CASE TickEvent /\ Throws(Head(ticks))
    <2>1. /\ swallowed' = swallowed \cup {t}
          /\ UNCHANGED <<queue, slot, attempts, issued, done, thrown, detached>>
      BY <1>2, <1>h DEF TickEvent, requests
    <2>2. \A u \in OneShot : u # t => Status(u)' = Status(u)
      BY <2>1, StatusKept DEF InQueue, InExchange
    <2>3. CASE t \in OneShot
      <3>1. Status(t)' = "lost"
        BY <1>t, <2>1, <2>3 DEF StatusMap
      <3>2. Lifecycle!Move(t, "settling", "lost")
        BY <1>s, <2>2, <2>3, <3>1, LifecycleMove
      <3>3. triesBar' = triesBar
        BY <2>1, LifecycleTries
      <3> QED BY <2>3, <3>2, <3>3 DEF LifecycleStep, triesBar, Lifecycle!Next, Lifecycle!Lose
    <2>4. CASE t \notin OneShot
      BY <2>1, <2>2, <2>4, LifecycleStays
    <2> QED BY <2>3, <2>4
  <1>3. CASE TickComplete /\ destroyed
    <2>1. UNCHANGED <<queue, slot, attempts, issued, done, thrown, swallowed, detached>>
      BY <1>3 DEF TickComplete
    <2>2. \A u \in OneShot : Status(u)' = Status(u)
      BY <2>1, StatusKept DEF InQueue, InExchange
    <2> QED BY <2>1, <2>2, LifecycleStays
  <1>4. CASE TickComplete /\ ~destroyed
    <2> DEFINE k == Head(ticks)
               again == t \notin cancelled /\ Retries(t, k.outcome)
               scheduled == Schedules(t, k.outcome)
    <2>1. /\ ticks' = Tail(ticks) /\ queue' = NextQueue(t, k.outcome)
          /\ done' = IF again \/ scheduled THEN done ELSE done \cup {t}
          /\ attempts' = IF again THEN attempts ELSE [attempts EXCEPT ![t] = 0]
          /\ UNCHANGED <<slot, issued, thrown, swallowed, detached>>
      BY <1>4, <1>h DEF TickComplete, Complete
    <2>2. t \in OneShot => ~scheduled
      BY DEF OneShot, Schedules
    <2>3. Moves(t, IF Requeues(k) THEN 1 ELSE 0, 0, -1)
      BY <1>t, <1>l, <1>h, <2>1, MovesTickToQueue
    <2>4. \A u \in OneShot : u # t => Status(u)' = Status(u)
      <3> SUFFICES ASSUME NEW u \in OneShot, u # t PROVE Status(u)' = Status(u)
        OBVIOUS
      <3>1. (IF Requeues(k) THEN 1 ELSE 0) \in Int /\ 0 \in Int /\ -1 \in Int
        OBVIOUS
      <3>2. (InQueue(u)' <=> InQueue(u)) /\ (InExchange(u)' <=> InExchange(u))
        BY <1>t, <2>3, <3>1, MovesKeeps
      <3>3. u \in done' <=> u \in done
        BY <2>1
      <3> QED BY <2>1, <3>2, <3>3, StatusKept
    <2>5. CASE t \in OneShot /\ again
      <3>1. queue' = <<t>> \o queue
        BY <2>1, <2>2, <2>5 DEF NextQueue
      <3>2. InQueue(t)'
        <4>1. <<t>> \in Seq(Txn) /\ Len(<<t>>) = 1 /\ <<t>>[1] = t
          OBVIOUS
        <4>2. 1 \in DOMAIN queue' /\ queue'[1] = t
          BY <1>t, <3>1, <4>1, TypesOfPlaces, ConcatProperties, LenProperties
        <4> QED BY <4>2 DEF InQueue, ToSet
      <3>3. Status(t)' = "queued"
        BY <1>t, <2>5, <3>2 DEF StatusMap
      <3>4. Lifecycle!Move(t, "settling", "queued")
        BY <1>s, <2>4, <2>5, <3>3, LifecycleMove
      <3>5. attempts[t] <= MaxRetries[t]
        <4>1. failures[t] <= MaxRetries[t] /\ k.outcome # "ok"
          BY <2>5 DEF Retries, ShouldRetry, Exception
        <4>2. attempts[t] = failures[t]
          BY <1>h, <1>q, <2>5, <4>1 DEF BudgetInv, Budgeted, InBudget
        <4> QED BY <4>1, <4>2
      <3>6. triesBar[t] <= MaxRetries[t] /\ triesBar' = triesBar
        BY <2>1, <2>5, <3>5, LifecycleTries DEF triesBar
      <3> QED BY <2>5, <3>4, <3>6 DEF LifecycleStep, triesBar, Lifecycle!Next, Lifecycle!Retry
    <2>6. CASE t \in OneShot /\ ~again
      <3>1. t \in done' /\ attempts' = [attempts EXCEPT ![t] = 0]
        BY <2>1, <2>2, <2>6
      <3>2. Status(t)' = "done"
        BY <1>t, <2>6, <3>1 DEF StatusMap
      <3>3. Lifecycle!Move(t, "settling", "done")
        BY <1>s, <2>4, <2>6, <3>2, LifecycleMove
      <3>4. triesBar' = [triesBar EXCEPT ![t] = 0]
        BY <1>t, <2>6, <3>1 DEF triesBar, OneShot, IsRepeatable
      <3> QED BY <2>6, <3>3, <3>4 DEF LifecycleStep, triesBar, Lifecycle!Next, Lifecycle!Finish
    <2>7. CASE t \notin OneShot
      <3>1. \A u \in OneShot : attempts'[u] = attempts[u]
        BY <1>t, <2>1, <2>7
      <3> QED BY <2>4, <2>7, <3>1, LifecycleStays
    <2> QED BY <2>5, <2>6, <2>7
  <1> QED BY <1>1, <1>2, <1>3, <1>4 DEF Ticks

LEMMA LifecycleRest ==
    ASSUME BudgetInv, CopyInv', Application \/ Connection PROVE LifecycleStep
  <1>t. /\ TypeOK /\ TypeOK' /\ StatusMap /\ StatusMap'
        /\ \A u : u \in OneShot' <=> u \in OneShot
        /\ \A u \in OneShot : u \in Txn
        /\ queue \in Seq(Txn) /\ repeatables \in Seq(Txn)
    BY LifecycleTypes, BudgetTypes
  <1>1. ASSUME NEW t \in Txn, Execute(t) PROVE LifecycleStep
    <2>1. /\ queue' = Append(queue, t) /\ t \notin issued /\ issued' = issued \cup {t}
          /\ UNCHANGED <<slot, attempts, done, thrown, swallowed, detached>>
      BY <1>1 DEF Execute, exchanges, shutdown, history
    <2>2. ToSet(queue') = ToSet(queue) \cup {t}
      BY <1>t, <2>1, ElementsAppend
    <2>3. \A u \in OneShot : u # t => Status(u)' = Status(u)
      BY <2>1, <2>2, StatusKept DEF InQueue, InExchange
    <2>4. CASE t \in OneShot
      <3>1. InQueue(t)'
        BY <2>2 DEF InQueue
      <3>2. Status(t) = "new" /\ Status(t)' = "queued"
        BY <1>t, <2>1, <2>4, <3>1 DEF StatusMap
      <3>3. Lifecycle!Move(t, "new", "queued")
        BY <2>3, <2>4, <3>2, LifecycleMove
      <3>4. triesBar' = triesBar
        BY <2>1, LifecycleTries
      <3> QED BY <2>4, <3>3, <3>4 DEF LifecycleStep, triesBar, Lifecycle!Next, Lifecycle!Submit
    <2>5. CASE t \notin OneShot
      BY <2>1, <2>3, <2>5, LifecycleStays
    <2> QED BY <2>4, <2>5
  <1>2. ASSUME NEW t \in Txn, Cancel(t) PROVE LifecycleStep
    <2>1. UNCHANGED <<queue, slot, attempts, issued, done, thrown, swallowed, detached>>
      BY <1>2 DEF Cancel, exchanges, shutdown, history
    <2>2. \A u \in OneShot : Status(u)' = Status(u)
      BY <2>1, StatusKept DEF InQueue, InExchange
    <2> QED BY <2>1, <2>2, LifecycleStays
  <1>3. CASE Connection
    <2>1. /\ UNCHANGED <<slot, attempts, issued, done, thrown, swallowed, detached>>
          /\ queue' = queue \/ queue' = queue \o repeatables
      BY <1>3 DEF Connection, ConnectionOpen, LineDown, ConnectionClose, WithRepeatablesQueued,
         requests, exchanges, shutdown, history
    <2>2. ASSUME NEW u \in OneShot PROVE InQueue(u)' <=> InQueue(u)
      <3>1. u \in Txn /\ u \notin ToSet(repeatables)
        BY <1>t, <2>2 DEF BudgetInv, CopyInv, OneShotApart
      <3>2. Queued(queue \o repeatables, u) = Queued(queue, u) + Queued(repeatables, u)
        BY <1>t, <3>1, QueuedConcat
      <3>3. queue \o repeatables \in Seq(Txn)
        BY <1>t
      <3>4. /\ Queued(queue, u) \in Nat /\ Queued(repeatables, u) \in Nat
            /\ Queued(queue, u) > 0 <=> u \in ToSet(queue)
            /\ Queued(repeatables, u) > 0 <=> u \in ToSet(repeatables)
        BY <1>t, <3>1, QueuedFacts
      <3>5. Queued(queue \o repeatables, u) > 0 <=> u \in ToSet(queue \o repeatables)
        BY <3>1, <3>3, QueuedFacts
      <3>6. u \in ToSet(queue \o repeatables) <=> u \in ToSet(queue)
        BY <3>1, <3>2, <3>4, <3>5
      <3> QED BY <2>1, <3>6 DEF InQueue
    <2>3. \A u \in OneShot : Status(u)' = Status(u)
      BY <2>1, <2>2, StatusKept DEF InExchange
    <2> QED BY <2>1, <2>3, LifecycleStays
  <1>4. CASE Destroy
    <2> DEFINE Reached == ToSet(queue) \cup ToSet(repeatables) \cup {slot[s] : s \in Busy}
    <2>1. /\ ~destroyed /\ queue' = <<>> /\ slot' = [s \in Slot |-> None]
          /\ detached' = Reached
          /\ UNCHANGED <<attempts, issued, done, thrown, swallowed>>
      BY <1>4 DEF Destroy
    <2>2. ASSUME NEW u \in OneShot
          PROVE  Status(u)' = IF Status(u) \in {"queued", "sent"} THEN "abandoned" ELSE Status(u)
      <3>1. /\ u \in Txn /\ u \notin detached /\ u \notin ToSet(repeatables)
        BY <1>t, <2>1 DEF BudgetInv, CopyInv, OneShotApart, DestroyedLast
      <3>2. u \in Reached <=> InQueue(u) \/ InExchange(u)
        BY <3>1, NoneAssumption DEF InQueue, InExchange, Busy
      <3>3. ~InQueue(u)' /\ ~InExchange(u)'
        BY <2>1, <3>1, NoneAssumption DEF InQueue, InExchange, ToSet
      <3>4. CASE InQueue(u) \/ InExchange(u)
        <4>1. u \in issued /\ u \notin done \cup thrown \cup swallowed
          BY <3>4, ExclusiveHolds DEF BudgetInv, Exclusive
        <4>2. Status(u) \in {"queued", "sent"}
          BY <1>t, <3>4 DEF StatusMap
        <4>3. Status(u)' = "abandoned"
          BY <2>1, <3>2, <3>4, <4>1 DEF Status
        <4> QED BY <4>2, <4>3
      <3>5. CASE ~(InQueue(u) \/ InExchange(u))
        <4>1. Status(u) \notin {"queued", "sent"}
          <5>1. CASE u \notin issued \/ u \in done \cup thrown \cup swallowed
            BY <1>t, <5>1 DEF StatusMap
          <5>2. CASE u \in issued /\ u \notin done \cup thrown \cup swallowed
            BY <3>1, <3>5, <5>2 DEF Status, InQueue, InExchange
          <5> QED BY <5>1, <5>2
        <4>2. Status(u)' = Status(u)
          BY <2>1, <3>1, <3>2, <3>3, <3>5, StatusKept
        <4> QED BY <4>1, <4>2
      <3> QED BY <3>4, <3>5
    <2>3. [u \in OneShot |-> Status(u)]' =
             [u \in OneShot |-> IF [v \in OneShot |-> Status(v)][u] \in {"queued", "sent"}
                                THEN "abandoned" ELSE [v \in OneShot |-> Status(v)][u]]
      <3>1. OneShot' = OneShot
        BY DEF OneShot, IsRepeatable
      <3> QED BY <2>2, <3>1
    <2>4. triesBar' = triesBar
      BY <2>1, LifecycleTries
    <2> QED BY <2>3, <2>4 DEF LifecycleStep, triesBar, Lifecycle!Next, Lifecycle!Abandon
  <1> QED BY <1>1, <1>2, <1>3, <1>4 DEF Application

\* The scheduler implements the abstract lifecycle of a request: every step of it is
\* a step of the lifecycle of one request, the abandoning of all of them, or neither.
THEOREM ImplementsLifecycle == Spec => RefinesLifecycle
  <1>1. Init => Lifecycle!Init
    <2> SUFFICES ASSUME Init PROVE Lifecycle!Init
      OBVIOUS
    <2>1. \A t \in OneShot : t \in Txn /\ Status(t) = "new"
      <3>1. StatusMap
        BY CopyInit, StatusMapHolds
      <3> QED BY <3>1 DEF StatusMap, OneShot, Init
    <2>2. \A t \in OneShot : attempts[t] = 0
      BY <2>1 DEF Init
    <2> QED BY <2>1, <2>2 DEF Lifecycle!Init
  <1>2. BudgetInv /\ BudgetInv' /\ [Next]_vars =>
           [Lifecycle!Next]_<<[t \in OneShot |-> Status(t)], [t \in OneShot |-> attempts[t]]>>
    <2> SUFFICES ASSUME BudgetInv, BudgetInv', [Next]_vars PROVE LifecycleStep
      BY DEF LifecycleStep, statusBar, triesBar
    <2>1. CASE UNCHANGED vars
      <3>1. UNCHANGED <<queue, slot, attempts, issued, done, thrown, swallowed, detached>>
        BY <2>1 DEF vars, requests, exchanges, shutdown, history
      <3>2. \A u \in OneShot : Status(u)' = Status(u)
        BY <3>1, StatusKept DEF InQueue, InExchange
      <3> QED BY <3>1, <3>2, LifecycleStays
    <2>2. CASE Next
      BY <2>2, LifecycleLoop, LifecycleCallbacks, LifecycleTicks, LifecycleRest
         DEF Next, BudgetInv
    <2> QED BY <2>1, <2>2
  <1> QED BY <1>1, <1>2, BudgetInductive, PTL DEF Spec, RefinesLifecycle, Lifecycle!Spec

=============================================================================
