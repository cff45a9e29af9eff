------------------------ MODULE J1939TransportProofs ------------------------
(***************************************************************************)
(* Proofs about J1939Transport, for every set of units and every number of *)
(* exchanges and of unasked messages: what is kept and timed, that an      *)
(* exchange that is alone with its unit is served, and that the contract   *)
(* is kept.                                                                *)
(***************************************************************************)
EXTENDS J1939Transport, FiniteSetTheorems, TLAPS

\* What has not begun has not ended, and only a begun exchange is timed, owed or answered.
Begun ==
    /\ \A e \in Exchange : e > sent => ends[e] = 0 /\ outcome[e] = "none"
    /\ owed \subseteq Sent /\ alone \subseteq Sent /\ answered \subseteq Sent
    /\ answered \cap owed = {}

\* What is kept for a unit is the last exchange of that unit.
KeepsLatest ==
    \A u \in Unit : transactions[u] # None => \A e \in With(u) : e <= transactions[u]

KeptInv == OpenIsTimed /\ Begun /\ KeepsLatest

\* Why exchange e is served: those of its unit that began earlier are over, it was over
\* when a later one began, and it is what its unit keeps as long as it is open.
Served(e) ==
    /\ \A f \in With(unit[e]) : f < e => f \notin timers \cup owed
    /\ \A f \in With(unit[e]) : f > e => e \notin timers \cup owed
    /\ e \in timers => transactions[unit[e]] = e
    /\ e \in owed /\ transactions[unit[e]] = e => ends[e] = 0
    /\ ends[e] <= 1 /\ outcome[e] # "foreign"
    /\ e \in answered => e \notin timers /\ outcome[e] \in {"response", "error"}

ServedInv == KeptInv /\ \A e \in Undisturbed : Served(e)


----------------------------------------------------------------------------
\* Typing

LEMMA InitTyped == Init => TypeOK /\ Begun
<1> SUFFICES ASSUME Init PROVE TypeOK /\ Begun
  OBVIOUS
<1>1. "none" \in Outcome
  BY DEF Outcome
<1> QED
  BY <1>1, BoundAssumption DEF Init, TypeOK, Begun

\* What a message does, whatever it says.
LEMMA OnPgnMoves ==
    ASSUME KeptInv, NEW u \in Unit, NEW of, NEW throws, OnPgn(u, of, throws)
    PROVE  /\ UNCHANGED <<transactions, sent, unit, alone, overtaken>>
           /\ outcome' \in [Exchange -> Outcome] /\ ends' \in [Exchange -> Nat]
           /\ timers' \subseteq timers
           /\ timers' = {e \in Sent : ends'[e] = 0}
           /\ \A e \in Exchange : e # transactions[u] => outcome'[e] = outcome[e] /\ ends'[e] = ends[e]
           /\ \A e \in Exchange : e = transactions[u] =>
                 /\ ends'[e] = ends[e] + 1
                 /\ outcome'[e] = IF throws THEN "error" ELSE IF e = of THEN "response" ELSE "foreign"
<1> DEFINE how == IF throws THEN "error" ELSE IF transactions[u] = of THEN "response" ELSE "foreign"
<1>1. /\ UNCHANGED <<transactions, sent, unit, alone, overtaken>>
      /\ transactions[u] = None \/ transactions[u] \in Sent
      /\ timers = {e \in Sent : ends[e] = 0} /\ Sent \subseteq Exchange
      /\ outcome \in [Exchange -> Outcome] /\ ends \in [Exchange -> Nat]
  BY BoundAssumption DEF KeptInv, OpenIsTimed, TypeOK, OnPgn, With, Sent, Exchange, None
<1>2. how \in Outcome
  BY DEF Outcome
<1>3. CASE transactions[u] = None
  <2>1. UNCHANGED <<outcome, ends, timers>> /\ transactions[u] \notin Exchange
    BY <1>3 DEF OnPgn, Exchange, None
  <2> QED
    BY <1>1, <2>1 DEF Sent
<1>4. CASE transactions[u] # None
  <2>1. /\ outcome' = [outcome EXCEPT ![transactions[u]] = how]
        /\ ends' = [ends EXCEPT ![transactions[u]] = @ + 1]
        /\ timers' = timers \ {transactions[u]}
    BY <1>4 DEF OnPgn, Ends
  <2> QED
    BY <1>1, <1>2, <1>4, <2>1 DEF Sent
<1> QED
  BY <1>3, <1>4

----------------------------------------------------------------------------
\* What is kept and what is timed

LEMMA NextKept == KeptInv /\ [Next]_vars => KeptInv'
<1> SUFFICES ASSUME KeptInv, [Next]_vars PROVE KeptInv'
  OBVIOUS
<1>a. TypeOK /\ OpenIsTimed /\ Begun /\ KeepsLatest
  BY DEF KeptInv, OpenIsTimed
<1>1. CASE SendRequest
  <2> DEFINE e == sent + 1
  <2>1. /\ e \in Exchange /\ sent' = e /\ e \in Nat /\ sent \in Nat /\ e \in 0 .. MaxExchanges
        /\ transactions' = [transactions EXCEPT ![unit[e]] = e]
        /\ timers' = timers \cup {e} /\ owed' = owed \cup {e}
        /\ alone' \subseteq alone \cup {e} /\ overtaken' \subseteq overtaken \cup timers \cup owed
        /\ UNCHANGED <<unit, outcome, ends, answered, unasked>>
    BY <1>1, <1>a, BoundAssumption DEF SendRequest, Registered, Timed, TypeOK, Exchange
  <2>2. Sent' = Sent \cup {e} /\ e \notin Sent /\ unit[e] \in Unit
    BY <1>a, <2>1 DEF Sent, TypeOK
  <2>3. TypeOK'
    BY <1>a, <2>1 DEF TypeOK
  <2>4. timers' = {x \in Sent : ends[x] = 0}'
    <3>1. ends[e] = 0
      BY <1>a, <2>1 DEF Begun
    <3> QED
      BY <1>a, <2>1, <2>2, <3>1 DEF OpenIsTimed
  <2>5. ASSUME NEW u \in Unit
        PROVE  /\ transactions'[u] \in With(u)' \cup {None}
               /\ transactions'[u] # None => \A x \in With(u)' : x <= transactions'[u]
    <3>1. CASE u = unit[e]
      <4>1. transactions'[u] = e /\ e \in With(u)'
        BY <1>a, <2>1, <2>2, <3>1 DEF TypeOK, With
      <4>2. \A x \in Sent' : x <= e
        BY <2>1 DEF Sent
      <4> QED
        BY <4>1, <4>2 DEF With
    <3>2. CASE u # unit[e]
      <4>1. transactions'[u] = transactions[u] /\ With(u)' = With(u)
        BY <1>a, <2>1, <2>2, <3>2 DEF TypeOK, With
      <4> QED
        BY <1>a, <4>1 DEF OpenIsTimed, KeepsLatest
    <3> QED
      BY <3>1, <3>2
  <2>6. Begun'
    BY <1>a, <2>1, <2>2 DEF Begun, Sent, TypeOK
  <2> QED
    BY <2>3, <2>4, <2>5, <2>6 DEF KeptInv, OpenIsTimed, KeepsLatest
<1>2. ASSUME NEW e \in Exchange, HandleTimeout(e) PROVE KeptInv'
  <2>1. /\ e \in timers /\ e \in Sent /\ unit[e] \in Unit
        /\ transactions' = [transactions EXCEPT ![unit[e]] = None]
        /\ outcome' = [outcome EXCEPT ![e] = "timeout"]
        /\ ends' = [ends EXCEPT ![e] = @ + 1]
        /\ timers' = timers \ {e}
        /\ UNCHANGED <<owed, sent, unit, alone, overtaken, answered, unasked>>
    BY <1>2, <1>a DEF HandleTimeout, Forget, Ends, TypeOK, OpenIsTimed
  <2>2. "timeout" \in Outcome
    BY DEF Outcome
  <2>3. TypeOK'
    BY <1>a, <2>1, <2>2 DEF TypeOK
  <2>4. timers' = {x \in Sent : ends[x] = 0}' /\ Sent' = Sent
    BY <1>a, <2>1, BoundAssumption DEF OpenIsTimed, TypeOK, Sent, Exchange
  <2>5. ASSUME NEW u \in Unit
        PROVE  /\ transactions'[u] \in With(u)' \cup {None}
               /\ transactions'[u] # None => \A x \in With(u)' : x <= transactions'[u]
    <3>1. With(u)' = With(u) /\ transactions'[u] \in {None, transactions[u]}
      BY <1>a, <2>1, <2>4 DEF With, TypeOK
    <3> QED
      BY <1>a, <3>1 DEF OpenIsTimed, KeepsLatest
  <2>6. Begun'
    BY <1>a, <2>1 DEF Begun, Sent, TypeOK
  <2> QED
    BY <2>3, <2>4, <2>5, <2>6 DEF KeptInv, OpenIsTimed, KeepsLatest
<1>3. ASSUME NEW u \in Unit, NEW of, NEW throws, OnPgn(u, of, throws),
             owed' \subseteq owed, answered' \subseteq answered \cup (owed \ owed'),
             unasked' \in [Unit -> 0 .. MaxUnasked]
      PROVE  KeptInv'
  <2>1. /\ UNCHANGED <<transactions, sent, unit, alone, overtaken>>
        /\ outcome' \in [Exchange -> Outcome] /\ ends' \in [Exchange -> Nat]
        /\ timers' \subseteq timers /\ timers' = {e \in Sent : ends'[e] = 0}
        /\ \A e \in Exchange : e # transactions[u] => outcome'[e] = outcome[e] /\ ends'[e] = ends[e]
    BY <1>3, OnPgnMoves
  <2>2. TypeOK'
    BY <1>a, <1>3, <2>1 DEF TypeOK
  <2>3. OpenIsTimed'
    BY <1>a, <2>1, <2>2 DEF OpenIsTimed, With, Sent
  <2>4. KeepsLatest'
    BY <1>a, <2>1 DEF KeepsLatest, With, Sent
  <2>5. Begun'
    <3>1. ASSUME NEW e \in Exchange, e > sent PROVE e # transactions[u]
      BY <1>a, <3>1 DEF OpenIsTimed, With, Sent, None, TypeOK, Exchange
    <3>2. \A e \in Exchange : e > sent' => ends'[e] = 0 /\ outcome'[e] = "none"
      BY <1>a, <2>1, <3>1 DEF Begun
    <3> QED
      BY <1>a, <1>3, <2>1, <3>2 DEF Begun, Sent
  <2> QED
    BY <2>3, <2>4, <2>5 DEF KeptInv
<1>4. ASSUME NEW e \in Exchange, NEW throws \in BOOLEAN, Answer(e, throws) PROVE KeptInv'
  <2>1. /\ OnPgn(unit[e], e, throws) /\ unit[e] \in Unit
        /\ owed' = owed \ {e} /\ e \in owed
        /\ answered' \subseteq answered \cup {e}
        /\ unasked' \in [Unit -> 0 .. MaxUnasked]
    BY <1>4, <1>a DEF Answer, TypeOK
  <2> QED
    BY <1>3, <2>1
<1>5. ASSUME NEW u \in Unit, NEW throws \in BOOLEAN, Unasked(u, throws) PROVE KeptInv'
  <2>1. /\ OnPgn(u, None, throws) /\ owed' = owed /\ answered' = answered
        /\ unasked' \in [Unit -> 0 .. MaxUnasked]
    BY <1>5, <1>a, BoundAssumption DEF Unasked, TypeOK
  <2> QED
    BY <1>3, <2>1
<1>6. ASSUME NEW e \in Exchange, NoAnswer(e) PROVE KeptInv'
  <2>1. owed' \subseteq owed /\ UNCHANGED <<transactions, timers, sent, unit, outcome, ends, alone,
                                            overtaken, answered, unasked>>
    BY <1>6 DEF NoAnswer, port, history
  <2> QED
    BY <1>a, <2>1 DEF KeptInv, OpenIsTimed, TypeOK, Begun, KeepsLatest, With, Sent
<1>7. CASE UNCHANGED vars
  BY <1>a, <1>7 DEF KeptInv, OpenIsTimed, TypeOK, Begun, KeepsLatest, With, Sent, vars,
     port, history
<1> QED
  BY <1>1, <1>2, <1>4, <1>5, <1>6, <1>7 DEF Next

LEMMA InitKept == Init => KeptInv
<1> SUFFICES ASSUME Init PROVE KeptInv
  OBVIOUS
<1>1. TypeOK /\ Begun
  BY InitTyped
<1>2. /\ Sent = {} /\ timers = {} /\ \A u \in Unit : transactions[u] = None
  BY DEF Init, Sent
<1> QED
  BY <1>1, <1>2 DEF KeptInv, OpenIsTimed, KeepsLatest

\* Every variable of the transport keeps its type, for every set of units.
THEOREM TypeCorrect == Spec => []TypeOK
<1>1. KeptInv => TypeOK
  BY DEF KeptInv, OpenIsTimed
<1> QED
  BY <1>1, InitKept, NextKept, PTL DEF Spec

\* An exchange has a live response timer exactly as long as it is open, replaced or not,
\* and what is kept for a unit is an exchange with it, whoever answers whom.
THEOREM OpenHolds == Spec => []OpenIsTimed
<1>1. KeptInv => OpenIsTimed
  BY DEF KeptInv
<1> QED
  BY <1>1, InitKept, NextKept, PTL DEF Spec

----------------------------------------------------------------------------
\* Who is served

\* What an undisturbed exchange needs of a step that touches neither it nor its unit:
\* nothing of its unit begins to be timed or owed.
LEMMA StaysServed ==
    ASSUME KeptInv, NEW e \in Sent, Served(e),
           \A f \in With(unit[e]) : f \in timers' \cup owed' => f \in timers \cup owed,
           With(unit[e])' = With(unit[e]), unit' = unit,
           e \in timers' => e \in timers /\ transactions'[unit[e]] = e,
           transactions'[unit[e]] = e => transactions[unit[e]] = e,
           e \in owed' => e \in owed,
           outcome'[e] = outcome[e], ends'[e] = ends[e],
           e \in answered' => e \in answered
    PROVE  Served(e)'
  BY DEF Served, With

LEMMA NextServed == ServedInv /\ [Next]_vars => ServedInv'
<1> SUFFICES ASSUME ServedInv, [Next]_vars PROVE ServedInv'
  OBVIOUS
<1>k. KeptInv'
  BY NextKept DEF ServedInv
<1>a. KeptInv /\ TypeOK /\ OpenIsTimed /\ Begun /\ KeepsLatest
  BY DEF ServedInv, KeptInv, OpenIsTimed
<1>s. /\ Sent \subseteq Exchange /\ Undisturbed \subseteq Sent /\ sent \in Nat
      /\ \A e \in Exchange : e \in Nat /\ e # None /\ unit[e] \in Unit
      /\ \A e \in Undisturbed : Served(e)
  <2>1. sent \in Nat /\ Sent \subseteq Exchange /\ \A e \in Exchange : e \in Nat /\ e # None
    BY <1>a, BoundAssumption DEF TypeOK, Sent, Exchange, None
  <2>2. Undisturbed \subseteq Sent
    BY <1>a DEF Undisturbed, Begun
  <2> QED
    BY <1>a, <2>1, <2>2 DEF ServedInv, TypeOK
<1>1. CASE SendRequest
  <2>0. PICK n \in Exchange : n = sent + 1
    BY <1>1 DEF SendRequest
  <2> DEFINE before == With(unit[n]) \cap (timers \cup owed)
  <2>1. /\ n \in Exchange /\ sent' = n /\ n \notin Sent
        /\ transactions' = [transactions EXCEPT ![unit[n]] = n]
        /\ timers' = timers \cup {n} /\ owed' = owed \cup {n}
        /\ alone' = IF before = {} THEN alone \cup {n} ELSE alone
        /\ overtaken' = overtaken \cup before
        /\ UNCHANGED <<unit, outcome, ends, answered, unasked>>
    BY <1>1, <1>a, <2>0 DEF SendRequest, Registered, Timed, Sent, TypeOK
  <2>2. Sent' = Sent \cup {n} /\ \A e \in Sent : e < n
    BY <1>s, <2>0, <2>1 DEF Sent
  <2>3. \A u \in Unit : With(u)' = IF u = unit[n] THEN With(u) \cup {n} ELSE With(u)
    BY <2>1, <2>2 DEF With
  <2>4. ASSUME NEW e \in Undisturbed', e # n PROVE Served(e)'
    <3>1. e \in Undisturbed /\ e \in Sent /\ e \notin before /\ Served(e) /\ e < n
      BY <1>s, <2>1, <2>2, <2>4 DEF Undisturbed
    <3>2. CASE unit[e] # unit[n]
      <4>1. With(unit[e])' = With(unit[e]) /\ n \notin With(unit[e])
        BY <1>s, <2>3, <3>1, <3>2 DEF With
      <4>2. transactions'[unit[e]] = transactions[unit[e]]
        BY <1>a, <1>s, <2>1, <3>1, <3>2 DEF TypeOK
      <4> QED
        BY <1>a, <2>1, <2>4, <3>1, <4>1, <4>2, StaysServed DEF Served
    <3>3. CASE unit[e] = unit[n]
      <4>1. e \notin timers' \cup owed' /\ With(unit[e])' = With(unit[e]) \cup {n}
        BY <1>s, <2>1, <2>3, <2>4, <3>1, <3>3 DEF With
      <4>2. \A f \in With(unit[e])' : f < e => f \notin timers' \cup owed'
        BY <1>s, <2>1, <3>1, <4>1 DEF Served
      <4>3. ends'[e] = ends[e] /\ outcome'[e] = outcome[e] /\ unit'[e] = unit[e] /\ answered' = answered
        BY <2>1
      <4> QED
        BY <3>1, <4>1, <4>2, <4>3 DEF Served
    <3> QED
      BY <3>2, <3>3
  <2>5. ASSUME n \in Undisturbed' PROVE Served(n)'
    <3>1. before = {}
      BY <1>a, <2>1, <2>5 DEF Undisturbed, Begun
    <3>2. ASSUME NEW f \in With(unit[n])', f # n PROVE f < n /\ f \notin timers' \cup owed'
      <4>1. f \in With(unit[n]) /\ f \in Sent
        BY <1>s, <2>1, <2>3, <3>2 DEF With
      <4> QED
        BY <2>1, <2>2, <3>1, <3>2, <4>1
    <3>3. \A f \in With(unit[n])' : f \in Nat /\ ~(f > n) /\ (f < n => f # n)
      <4>1. n \in Nat /\ \A f \in With(unit[n])' : f \in Nat
        BY <1>s, <2>1, <2>2 DEF With
      <4> QED
        BY <3>2, <4>1
    <3>4. transactions'[unit[n]] = n
      BY <1>a, <1>s, <2>1 DEF TypeOK
    <3>5. n > sent /\ ends'[n] = 0 /\ outcome'[n] = "none" /\ n \notin answered'
      BY <1>a, <1>s, <2>0, <2>1 DEF Begun
    <3>6. unit'[n] = unit[n]
      BY <2>1
    <3> QED
      BY <3>2, <3>3, <3>4, <3>5, <3>6 DEF Served
  <2> QED
    BY <1>k, <2>4, <2>5 DEF ServedInv
<1>2. ASSUME NEW t \in Exchange, HandleTimeout(t) PROVE ServedInv'
  <2>1. /\ t \in timers /\ t \in Sent /\ ends[t] = 0
        /\ transactions' = [transactions EXCEPT ![unit[t]] = None]
        /\ outcome' = [outcome EXCEPT ![t] = "timeout"]
        /\ ends' = [ends EXCEPT ![t] = @ + 1]
        /\ timers' = timers \ {t}
        /\ UNCHANGED <<owed, sent, unit, alone, overtaken, answered, unasked>>
    BY <1>2, <1>a DEF HandleTimeout, Forget, Ends, TypeOK, OpenIsTimed
  <2>2. Sent' = Sent /\ Undisturbed' = Undisturbed /\ \A u \in Unit : With(u)' = With(u)
    BY <2>1 DEF Sent, Undisturbed, With
  <2>3. ASSUME NEW e \in Undisturbed PROVE Served(e)'
    <3>a. e \in Sent /\ e \in Exchange /\ unit[e] \in Unit /\ Served(e)
      BY <1>s
    <3>1. CASE e = t
      <4>1. transactions'[unit[e]] = None /\ e \notin timers' /\ ends'[e] = 1 /\ outcome'[e] = "timeout"
        BY <1>a, <2>1, <3>1, <3>a DEF TypeOK
      <4>2. e \notin answered
        BY <2>1, <3>1, <3>a DEF Served
      <4>3. With(unit[e])' = With(unit[e]) /\ unit'[e] = unit[e] /\ e \notin answered'
        BY <2>1, <2>2, <3>a, <4>2 DEF With
      <4>4. \A f \in With(unit[e]) : f < e => f \notin timers' \cup owed'
        BY <2>1, <3>a DEF Served
      <4>5. \A f \in With(unit[e]) : f > e => e \notin timers' \cup owed'
        BY <2>1, <3>a DEF Served
      <4> QED
        BY <3>a, <4>1, <4>3, <4>4, <4>5 DEF Served, None, Exchange
    <3>2. CASE e # t
      <4>1. e \in timers' => unit[t] # unit[e]
        <5> SUFFICES ASSUME e \in timers, unit[t] = unit[e] PROVE FALSE
          BY <2>1
        <5>1. t \in With(unit[e]) /\ (t < e \/ t > e)
          BY <1>s, <2>1, <3>2, <3>a DEF With
        <5> QED
          BY <2>1, <3>a, <5>1 DEF Served
      <4>2. transactions'[unit[e]] # transactions[unit[e]] => transactions'[unit[e]] = None /\ unit[t] = unit[e]
        BY <1>a, <2>1, <3>a DEF TypeOK
      <4> QED
        BY <1>a, <1>s, <2>1, <2>2, <3>2, <3>a, <4>1, <4>2, StaysServed DEF TypeOK, Served
    <3> QED
      BY <3>1, <3>2
  <2> QED
    BY <1>k, <2>2, <2>3 DEF ServedInv
<1>4. ASSUME NEW a \in Exchange, NEW throws \in BOOLEAN, Answer(a, throws) PROVE ServedInv'
  <2> DEFINE u == unit[a]
  <2>1. /\ OnPgn(u, a, throws) /\ u \in Unit /\ a \in Sent
        /\ owed' = owed \ {a} /\ a \in owed
        /\ answered' = IF a \in timers THEN answered \cup {a} ELSE answered
        /\ unasked' = unasked
    BY <1>4, <1>a DEF Answer, TypeOK, Begun
  <2>2. /\ UNCHANGED <<transactions, sent, unit, alone, overtaken>>
        /\ timers' \subseteq timers /\ timers' = {e \in Sent : ends'[e] = 0}
        /\ \A e \in Exchange : e # transactions[u] => outcome'[e] = outcome[e] /\ ends'[e] = ends[e]
        /\ \A e \in Exchange : e = transactions[u] =>
              /\ ends'[e] = ends[e] + 1
              /\ outcome'[e] = IF throws THEN "error" ELSE IF e = a THEN "response" ELSE "foreign"
    BY <1>a, <2>1, OnPgnMoves
  <2>3. Sent' = Sent /\ Undisturbed' = Undisturbed /\ \A v \in Unit : With(v)' = With(v)
    BY <2>1, <2>2 DEF Sent, Undisturbed, With
  <2>4. ASSUME NEW e \in Undisturbed PROVE Served(e)'
    <3>a. e \in Sent /\ e \in Exchange /\ unit[e] \in Unit /\ Served(e)
      BY <1>s
    <3>1. CASE e # transactions[u]
      \* Another one gets the message, which is then no answer to e while that is open.
      <4>1. e \in answered' => e \in answered
        <5> SUFFICES ASSUME e = a, e \in timers PROVE FALSE
          BY <2>1
        <5> QED
          BY <3>1, <3>a DEF Served
      <4> QED
        BY <1>a, <2>1, <2>2, <2>3, <3>1, <3>a, <4>1, StaysServed DEF Served
    <3>2. CASE e = transactions[u]
      \* The message answers e, for the last exchange of the unit is the only one owed.
      <4>1. unit[e] = u
        BY <1>a, <1>s, <2>1, <3>2, <3>a DEF OpenIsTimed, With
      <4>2. a \in With(u) /\ a <= e
        BY <1>a, <1>s, <2>1, <3>2, <3>a DEF KeepsLatest, With
      <4>3. a = e
        BY <1>s, <2>1, <3>a, <4>1, <4>2 DEF Served
      <4>4. ends[e] = 0 /\ ends'[e] = 1 /\ outcome'[e] \in {"response", "error"} /\ e \notin owed'
            /\ e \notin timers'
        BY <2>1, <2>2, <3>2, <3>a, <4>1, <4>3 DEF Served
      <4> QED
        BY <1>s, <2>1, <2>2, <2>3, <3>2, <3>a, <4>1, <4>4 DEF Served
    <3> QED
      BY <3>1, <3>2
  <2> QED
    BY <1>k, <2>3, <2>4 DEF ServedInv
<1>5. ASSUME NEW u \in Unit, NEW throws \in BOOLEAN, Unasked(u, throws) PROVE ServedInv'
  <2>1. /\ OnPgn(u, None, throws) /\ owed' = owed /\ answered' = answered
        /\ unasked' = [unasked EXCEPT ![u] = @ + 1] /\ unasked[u] \in Nat
    BY <1>5, <1>a, BoundAssumption DEF Unasked, TypeOK
  <2>2. /\ UNCHANGED <<transactions, sent, unit, alone, overtaken>>
        /\ timers' \subseteq timers
        /\ \A e \in Exchange : e # transactions[u] => outcome'[e] = outcome[e] /\ ends'[e] = ends[e]
    BY <1>a, <2>1, OnPgnMoves
  <2>3. Sent' = Sent /\ \A v \in Unit : With(v)' = With(v)
    BY <2>2 DEF Sent, With
  <2>4. ASSUME NEW e \in Undisturbed' PROVE Served(e)'
    <3>1. e \in alone \ overtaken /\ e \in Sent /\ unit[e] # u /\ unasked[unit[e]] = 0
      BY <1>a, <1>s, <2>1, <2>2 DEF Undisturbed, TypeOK, Begun
    <3>2. e \in Undisturbed /\ Served(e) /\ unit[e] \in Unit /\ e \in Exchange
      BY <1>s, <3>1 DEF Undisturbed
    <3>3. e # transactions[u]
      BY <1>a, <1>s, <3>1, <3>2 DEF OpenIsTimed, With
    <3> QED
      BY <1>a, <2>1, <2>2, <2>3, <3>1, <3>2, <3>3, StaysServed DEF Served
  <2> QED
    BY <1>k, <2>4 DEF ServedInv
<1>6. ASSUME NEW f \in Exchange, NoAnswer(f) PROVE ServedInv'
  <2>1. owed' \subseteq owed /\ UNCHANGED <<transactions, timers, sent, unit, outcome, ends, alone,
                                            overtaken, answered, unasked>>
    BY <1>6 DEF NoAnswer, port, history
  <2>2. Undisturbed' = Undisturbed /\ \A v : With(v)' = With(v)
    BY <2>1 DEF Undisturbed, With, Sent
  <2>3. ASSUME NEW e \in Undisturbed PROVE Served(e)'
    BY <1>s, <2>1, <2>2 DEF Served
  <2> QED
    BY <1>k, <2>2, <2>3 DEF ServedInv
<1>7. CASE UNCHANGED vars
  <2>1. UNCHANGED <<transactions, timers, owed, sent, unit, outcome, ends, alone, overtaken, answered, unasked>>
    BY <1>7 DEF vars, port, history
  <2> QED
    BY <1>k, <2>1 DEF ServedInv, Undisturbed, Served, With, Sent
<1> QED
  BY <1>1, <1>2, <1>4, <1>5, <1>6, <1>7 DEF Next

LEMMA InitServed == Init => ServedInv
<1> SUFFICES ASSUME Init PROVE ServedInv
  OBVIOUS
<1>1. Undisturbed = {}
  BY DEF Init, Undisturbed
<1> QED
  BY <1>1, InitKept DEF ServedInv

\* An exchange that began while its unit had none open and owed nothing, that no later one
\* of its unit overtook and whose unit sent nothing unasked meanwhile is completed once at
\* most, never with the answer to another one, and with its own if that came in time.
THEOREM AloneHolds == Spec => []AloneIsServed
<1>1. ServedInv => AloneIsServed
  BY DEF ServedInv, AloneIsServed, Served
<1> QED
  BY <1>1, InitServed, NextServed, PTL DEF Spec

----------------------------------------------------------------------------
\* The contract

phaseBar == [e \in Exchange |-> Phase(e)]
ContractStep == [Contract!Next]_<<phaseBar, FALSE>>

LEMMA OpenOnes == ASSUME TypeOK PROVE Contract!Open = {e \in Sent : ends[e] = 0}
<1>1. sent \in Nat /\ Exchange \subseteq Nat /\ Sent \subseteq Exchange
  BY BoundAssumption DEF TypeOK, Exchange, Sent
<1>2. \A e \in Exchange : Phase(e) = "open" <=> e \in Sent /\ ends[e] = 0
  BY <1>1 DEF Phase, Sent, Exchange
<1> QED
  BY <1>1, <1>2 DEF Contract!Open

\* An exchange begins, an open one ends, or the contract sees nothing.
LEMMA ContractNext == ServedInv /\ ServedInv' /\ [Next]_vars => ContractStep
<1> SUFFICES ASSUME ServedInv, ServedInv', [Next]_vars PROVE ContractStep
  OBVIOUS
<1>a. TypeOK /\ Begun /\ OpenIsTimed /\ sent \in Nat /\ \A e \in Exchange : e \in Nat
  <2>1. TypeOK /\ Begun /\ OpenIsTimed
    BY DEF ServedInv, KeptInv, OpenIsTimed
  <2> QED
    BY <2>1, BoundAssumption DEF TypeOK, Exchange
<1>1. CASE SendRequest
  <2>1. PICK e \in Exchange : e = sent + 1
    BY <1>1 DEF SendRequest
  <2>2. sent' = e /\ UNCHANGED ends
    BY <1>1, <2>1 DEF SendRequest
  <2>3. e > sent /\ ends[e] = 0
    BY <1>a, <2>1 DEF Begun
  <2>4. Phase(e) = "new" /\ Phase(e)' = "open"
    BY <2>2, <2>3, <1>a DEF Phase
  <2>5. \A x \in Exchange : x # e => Phase(x)' = Phase(x)
    BY <1>a, <2>1, <2>2 DEF Phase
  <2>6. phaseBar' = [phaseBar EXCEPT ![e] = "open"] /\ phaseBar[e] = "new"
    BY <2>4, <2>5 DEF phaseBar
  <2>7. Contract!Cardinality(Contract!Open) < MaxExchanges
    <3>1. IsFiniteSet(Sent) /\ Cardinality(Sent) = sent
      BY <1>a, FS_Interval DEF Sent
    <3>2. Contract!Open \subseteq Sent
      BY <1>a, OpenOnes
    <3>3. Cardinality(Contract!Open) <= sent /\ Cardinality(Contract!Open) \in Nat
      BY <3>1, <3>2, FS_Subset, FS_CardinalityType
    <3>4. sent < MaxExchanges
      BY <1>a, <2>1, BoundAssumption DEF Exchange
    <3>5. Contract!Cardinality(Contract!Open) = Cardinality(Contract!Open)
      BY DEF Contract!Cardinality, Cardinality
    <3> QED
      BY <1>a, <3>3, <3>4, <3>5, BoundAssumption
  <2> QED
    BY <2>6, <2>7 DEF ContractStep, Contract!Next, Contract!Begin, phaseBar
<1>2. ASSUME NEW e \in Exchange, e \in Sent, sent' = sent, ends' = [ends EXCEPT ![e] = @ + 1]
      PROVE  ContractStep
  <2>1. ends[e] \in Nat /\ ends'[e] # 0 /\ e <= sent
    BY <1>a, <1>2 DEF TypeOK, Sent
  <2>2. \A x \in Exchange : x # e => Phase(x)' = Phase(x)
    BY <1>a, <1>2 DEF Phase, TypeOK
  <2>3. \A to : Phase(e)' = to => phaseBar' = [phaseBar EXCEPT ![e] = to]
    BY <2>2 DEF phaseBar
  <2>4. CASE ends[e] = 0
    <3>1. ends'[e] = 1
      BY <1>a, <1>2, <2>4 DEF TypeOK
    <3>2. Phase(e) = "open" /\ Phase(e)' = "ended"
      BY <1>a, <1>2, <2>1, <2>4, <3>1 DEF Phase
    <3> QED
      BY <2>3, <3>2 DEF ContractStep, Contract!Next, Contract!End, phaseBar
  <2>5. CASE ends[e] # 0
    <3>1. ends'[e] > 1 /\ ends'[e] \in Nat /\ ends[e] >= 1
      BY <1>a, <1>2, <2>1, <2>5 DEF TypeOK
    <3>2. Phase(e) \in {"ended", "spoiled"} /\ Phase(e)' = "spoiled"
      BY <1>a, <1>2, <2>1, <2>5, <3>1 DEF Phase
    <3>3. e \notin Undisturbed'
      BY <3>1 DEF ServedInv, Served
    <3>4. phaseBar' = [phaseBar EXCEPT ![e] = "spoiled"] /\ phaseBar[e] = Phase(e)
      BY <2>3, <3>2 DEF phaseBar
    <3>5. CASE Phase(e) = "ended"
      BY <3>3, <3>4, <3>5 DEF ContractStep, Contract!Next, Contract!Spoil, phaseBar
    <3>6. CASE Phase(e) = "spoiled"
      <4>1. \A x \in Exchange : Phase(x)' = Phase(x)
        BY <2>2, <3>2, <3>6
      <4>2. phaseBar' = phaseBar
        BY <4>1 DEF phaseBar
      <4> QED
        BY <4>2 DEF ContractStep
    <3> QED
      BY <3>2, <3>5, <3>6
  <2> QED
    BY <2>4, <2>5
<1>3. ASSUME UNCHANGED <<sent, ends>> PROVE ContractStep
  BY <1>3 DEF ContractStep, phaseBar, Phase
<1>4. ASSUME NEW u \in Unit, NEW of, NEW throws, OnPgn(u, of, throws) PROVE ContractStep
  <2>1. CASE transactions[u] = None
    BY <1>3, <1>4, <2>1 DEF OnPgn
  <2>2. CASE transactions[u] # None
    <3>1. transactions[u] \in Sent /\ transactions[u] \in Exchange
      BY <1>a, <2>2, BoundAssumption DEF OpenIsTimed, With, TypeOK
    <3>2. sent' = sent /\ ends' = [ends EXCEPT ![transactions[u]] = @ + 1]
      BY <1>4, <2>2 DEF OnPgn, Ends
    <3> QED
      BY <1>2, <3>1, <3>2
  <2> QED
    BY <2>1, <2>2
<1>5. ASSUME NEW e \in Exchange, HandleTimeout(e) PROVE ContractStep
  <2>1. e \in Sent /\ sent' = sent /\ ends' = [ends EXCEPT ![e] = @ + 1]
    BY <1>5, <1>a DEF HandleTimeout, Ends, OpenIsTimed
  <2> QED
    BY <1>2, <2>1
<1>6. ASSUME NEW e \in Exchange, NEW throws \in BOOLEAN, Answer(e, throws) PROVE ContractStep
  BY <1>4, <1>6, <1>a DEF Answer, TypeOK
<1>7. ASSUME NEW u \in Unit, NEW throws \in BOOLEAN, Unasked(u, throws) PROVE ContractStep
  BY <1>4, <1>7 DEF Unasked
<1>8. ASSUME NEW e \in Exchange, NoAnswer(e) PROVE ContractStep
  BY <1>3, <1>8 DEF NoAnswer, history
<1>9. CASE UNCHANGED vars
  BY <1>3, <1>9 DEF vars, history
<1> QED
  BY <1>1, <1>5, <1>6, <1>7, <1>8, <1>9 DEF Next

\* Each step begins an exchange, ends an open one, or completes one again that is over
\* already, and that only if it was not alone with a unit which speaks when asked.
THEOREM KeepsContract == Spec => Contract!Safety
<1>1. Init => Contract!Init
  <2> SUFFICES ASSUME Init PROVE phaseBar = [e \in Exchange |-> "new"]
    BY DEF Contract!Init, phaseBar
  <2>1. ASSUME NEW e \in Exchange PROVE Phase(e) = "new"
    BY BoundAssumption DEF Init, Phase, Exchange
  <2> QED
    BY <2>1 DEF phaseBar
<1>2. ServedInv /\ ServedInv' /\ [Next]_vars => [Contract!Next]_<<phaseBar, FALSE>>
  BY ContractNext DEF ContractStep
<1>3. ServedInv /\ ServedInv' /\ [Next]_vars => [Contract!Next]_<<[e \in Exchange |-> Phase(e)], FALSE>>
  BY <1>2 DEF phaseBar
<1> QED
  BY <1>1, <1>3, InitServed, NextServed, PTL DEF Spec, Contract!Safety

=============================================================================
