------------------------------- MODULE Master -------------------------------
(***************************************************************************)
(* The request scheduler of cs-modbus: lib/Master.js together with         *)
(* lib/Transaction.js, over an abstract transport.                         *)
(*                                                                         *)
(* The master owns a queue of transactions and a count of executing        *)
(* requests.  It hands transactions to the transport while the count is    *)
(* below maxConcurrentRequests.  The transport carries each one in an      *)
(* exchange (a slot) guarded by a response timer, and ends the exchange by *)
(* calling handleResponse or handleError on the transaction.  Either of    *)
(* them defers the 'response' or 'error' event and then the 'complete'     *)
(* event to a process.nextTick callback, and 'complete' runs               *)
(* Master.onTransactionComplete: retry, schedule the next poll, or 'done'. *)
(*                                                                         *)
(* JavaScript runs to completion, so what interleaves is: I/O and timer    *)
(* callbacks (only when no tick is pending), the pending ticks in FIFO     *)
(* order, and the application's calls, made from its own callbacks or      *)
(* from a listener of an event of a tick.                                  *)
(***************************************************************************)
EXTENDS Integers, Sequences, FiniteSets, SequencesExt

CONSTANTS
    Txn,                    \* the Transaction objects of the application
    None,                   \* JavaScript's null
    Slot,                   \* exchange identifiers of the transport
    Capacity,               \* exchanges the transport accepts at a time
    MaxConcurrentRequests,  \* options.maxConcurrentRequests
    MaxRetries,             \* transaction.maxRetries, per transaction
    Interval,               \* transaction.interval, per transaction
    RetryOption,            \* the type and value of options.retryOnException
    Unhandled,              \* transactions without an 'error' listener
    Cancellable,            \* transactions the application may cancel
    MaxOpens                \* bound: 'open' events after the first command

ASSUME SlotAssumption == IsFiniteSet(Slot)
ASSUME NoneAssumption == None \notin Txn /\ None \notin Slot
ASSUME ConcurrencyAssumption == MaxConcurrentRequests \in Nat \ {0}
ASSUME CapacityAssumption == Capacity \in Nat \ {0}
ASSUME RetriesAssumption == MaxRetries \in [Txn -> Nat]
ASSUME IntervalAssumption == Interval \in [Txn -> Nat \cup {-1}]
ASSUME OptionAssumption == RetryOption \in {"unset", "true", "false", "list"}
ASSUME SetsAssumption == Unhandled \subseteq Txn /\ Cancellable \subseteq Txn
ASSUME BoundAssumption == MaxOpens \in Nat

VARIABLES
    queue,         \* Master.transactionQueue
    executing,     \* Master.executingRequests
    repeatables,   \* Master.repeatableTransactions
    looping,       \* executeQueuedTransactions was called and has not thrown
    issued,        \* transactions passed to execute
    cancelled,     \* those whose cancelled flag is set
    failures,      \* Transaction.failures, saturating above maxRetries
    slot,          \* the transaction an exchange of the transport carries
    timer,         \* the transaction a live response timer belongs to
    handle,        \* Transaction.timeoutTimer: the last timer it started
    ticks,         \* nextTick callbacks of handleResponse and handleError
    emitted,       \* the first tick has emitted 'response' or 'error'
    waiting,       \* live execution timers of a transaction
    connected,     \* Master.connected
    isOpen,        \* connection.isOpen()
    opens,         \* Master.connectionCounter
    destroyed,     \* destroy() was called
    detached,      \* transactions destroy() removed every listener of
    crashed,       \* a callback threw on state that destroy() nulled
    \* History: what the application observed, and lost completions.
    done,          \* transactions that emitted 'done'
    thrown,        \* shifted off the queue when sendRequest threw
    swallowed,     \* whose 'error' event threw before 'complete'
    attempts,      \* times a transaction was sent in its current poll
    uncounted,     \* completions of requests that were never counted
    leaked,        \* counted requests whose completion was swallowed
    requeues,      \* 'open' events that queued a repeatable transaction
    quietDestroy   \* destroy() was not called while a tick was pending

requests  == <<queue, executing, repeatables, looping, issued, cancelled>>
exchanges == <<failures, slot, timer, handle, ticks, emitted, waiting>>
link      == <<connected, isOpen, opens>>
shutdown  == <<destroyed, detached, crashed>>
history   == <<done, thrown, swallowed, attempts, uncounted, leaked,
             requeues, quietDestroy>>
vars == <<requests, exchanges, link, shutdown, history>>

----------------------------------------------------------------------------
\* Derived state

Exception == {"listed", "unlisted"}   \* by their place in retryOnException
Outcome == {"ok", "error"} \cup Exception

Busy == {s \in Slot : slot[s] # None}
IsRepeatable(t) == Interval[t] # -1
ShouldRetryLess(t) == failures[t] < MaxRetries[t]   \* mutant: off by one
ShouldRetry(t) == failures[t] <= MaxRetries[t]

\* Master.Options stores retryOnException only when it was not given: a
\* boolean or an array leaves the field undefined.
StoredRetryOption == IF RetryOption = "unset" THEN "true" ELSE "undefined"

\* Mutant: the limit on the number of retries is not consulted.
RetriesForever(t, outcome) == outcome \in {"error"} \cup Exception

\* Whether the master queues t again after this outcome.
Retries(t, outcome) ==
    /\ ShouldRetry(t)
    /\ \/ outcome = "error"
       \/ /\ outcome \in Exception
          /\ StoredRetryOption # "false"
          /\ StoredRetryOption = "list" => outcome = "listed"

\* Mutant: the loop runs while the count has not passed the limit.
InLoopAtLimit == looping /\ queue # <<>> /\ executing <= MaxConcurrentRequests

\* The condition of the loop of executeQueuedTransactions, while it runs.
InLoop ==
    /\ looping
    /\ queue # <<>>
    /\ executing < MaxConcurrentRequests

\* The application runs between callbacks or inside a listener; the event
\* loop takes a timer or I/O callback once the ticks have drained.
MayRun == ~crashed /\ ~InLoop
EventLoop == MayRun /\ ticks = <<>>

Tick(t, outcome, counted) == [txn |-> t, outcome |-> outcome, counted |-> counted]
NextFailures(t, outcome) ==
    IF outcome = "ok" THEN 0
    ELSE IF failures[t] > MaxRetries[t] THEN failures[t] ELSE failures[t] + 1

\* Mutant: the handle is reset, and the timer stays alive.
StopTimeoutForgets(tm, t) == tm

\* Transaction.stopTimeout clears the timer the handle points at, only.
StopTimeout(tm, t) == IF handle[t] = None THEN tm ELSE [tm EXCEPT ![handle[t]] = None]

\* What destroy() leaves of the execution timers of t: the handle knows the last.
\* Mutant: none is cleared.
LeftWaitingAll(t) == waiting[t]
LeftWaiting(t) == IF waiting[t] > 0 THEN waiting[t] - 1 ELSE 0

\* Mutant: 'complete' is deferred twice.
SettleTwice(t, outcome, counted, tm) ==
    /\ timer' = StopTimeout(tm, t)
    /\ handle' = [handle EXCEPT ![t] = None]
    /\ failures' = [failures EXCEPT ![t] = NextFailures(t, outcome)]
    /\ ticks' = ticks \o <<Tick(t, outcome, counted), Tick(t, outcome, counted)>>

\* Transaction.handleResponse and handleError; tm are the timers live now.
Settle(t, outcome, counted, tm) ==
    /\ timer' = StopTimeout(tm, t)
    /\ handle' = [handle EXCEPT ![t] = None]
    /\ failures' = [failures EXCEPT ![t] = NextFailures(t, outcome)]
    /\ ticks' = Append(ticks, Tick(t, outcome, counted))

----------------------------------------------------------------------------
Init ==
    /\ queue = <<>> /\ executing = 0 /\ repeatables = <<>> /\ looping = FALSE
    /\ issued = {} /\ cancelled = {}
    /\ failures = [t \in Txn |-> 0]
    /\ slot = [s \in Slot |-> None] /\ timer = [s \in Slot |-> None]
    /\ handle = [t \in Txn |-> None]
    /\ ticks = <<>> /\ emitted = FALSE
    /\ waiting = [t \in Txn |-> 0]
    /\ connected = FALSE /\ isOpen = FALSE /\ opens = 0
    /\ destroyed = FALSE /\ detached = {} /\ crashed = FALSE
    /\ done = {} /\ thrown = {} /\ swallowed = {}
    /\ attempts = [t \in Txn |-> 0]
    /\ uncounted = 0 /\ leaked = 0 /\ requeues = 0 /\ quietDestroy = TRUE

----------------------------------------------------------------------------
\* The application

\* addRepeatableTransaction.
WithRepeatable(t) == IF IsRepeatable(t) THEN Append(repeatables, t) ELSE repeatables

Execute(t) ==
    /\ MayRun /\ ~destroyed
    /\ t \notin issued
    /\ issued' = issued \cup {t}
    /\ repeatables' = WithRepeatable(t)
    /\ queue' = Append(queue, t)
    /\ looping' = TRUE
    /\ UNCHANGED <<executing, cancelled, exchanges, link, shutdown, history>>

Cancel(t) ==
    /\ MayRun
    /\ t \in (issued \cap Cancellable) \ cancelled
    /\ cancelled' = cancelled \cup {t}
    /\ \/ t \notin ToSet(repeatables) /\ UNCHANGED repeatables
       \/ \E i \in DOMAIN repeatables :
             repeatables[i] = t /\ repeatables' = RemoveAt(repeatables, i)
    /\ UNCHANGED <<queue, executing, looping, issued, exchanges, link, shutdown, history>>

\* destroy() reaches the transactions the transport, the queue and the list
\* of repeatables hold: each loses its listeners and the timers its two
\* handles point at.  One that waits for its tick is out of reach.
Destroy ==
    LET Reached == ToSet(queue) \cup ToSet(repeatables) \cup {slot[s] : s \in Busy}
        Cleared == {handle[t] : t \in Reached}
    IN  /\ MayRun /\ ~destroyed
        /\ destroyed' = TRUE
        /\ detached' = Reached
        /\ queue' = <<>> /\ repeatables' = <<>>
        /\ slot' = [s \in Slot |-> None]
        /\ timer' = [s \in Slot |-> IF s \in Cleared THEN None ELSE timer[s]]
        /\ handle' = [t \in Txn |-> IF t \in Reached THEN None ELSE handle[t]]
        /\ waiting' = [t \in Txn |-> IF t \in Reached THEN LeftWaiting(t) ELSE waiting[t]]
        /\ quietDestroy' = (ticks = <<>>)
        /\ UNCHANGED <<executing, looping, issued, cancelled, failures, ticks,
                       emitted, link, crashed, done, thrown, swallowed, attempts,
                       uncounted, leaked, requeues>>

----------------------------------------------------------------------------
\* executeQueuedTransactions: one iteration of its loop.  No callback and no
\* listener runs before the loop has ended.

SendNext(s) ==
    LET t == Head(queue)
    IN  /\ InLoop /\ t \notin cancelled
        /\ Cardinality(Busy) < Capacity
        /\ slot[s] = None /\ timer[s] = None
        /\ slot' = [slot EXCEPT ![s] = t]
        /\ timer' = [timer EXCEPT ![s] = t]
        /\ handle' = [handle EXCEPT ![t] = s]
        /\ queue' = Tail(queue)
        /\ executing' = executing + 1
        /\ attempts' = [attempts EXCEPT ![t] = @ + 1]
        /\ UNCHANGED <<repeatables, looping, issued, cancelled, failures, ticks, emitted,
                       waiting, link, shutdown, done, thrown, swallowed, uncounted, leaked,
                       requeues, quietDestroy>>

\* The transport refuses: the exception ends the loop, and the transaction
\* is no longer in the queue.
SendThrows ==
    /\ InLoop /\ Head(queue) \notin cancelled
    /\ Cardinality(Busy) >= Capacity
    /\ thrown' = thrown \cup {Head(queue)}
    /\ queue' = Tail(queue)
    /\ looping' = FALSE
    /\ UNCHANGED <<executing, repeatables, issued, cancelled, exchanges, link,
                   shutdown, done, swallowed, attempts, uncounted, leaked,
                   requeues, quietDestroy>>

DropCancelled ==
    LET t == Head(queue)
    IN  /\ InLoop /\ t \in cancelled
        /\ queue' = Tail(queue)
        /\ Settle(t, "error", FALSE, timer)
        /\ UNCHANGED <<executing, repeatables, looping, issued, cancelled, slot,
                       emitted, waiting, link, shutdown, history>>

----------------------------------------------------------------------------
\* The transport ends an exchange

Answer(s, outcome) ==
    /\ EventLoop
    /\ slot[s] # None
    /\ slot' = [slot EXCEPT ![s] = None]
    /\ Settle(slot[s], outcome, TRUE, timer)
    /\ UNCHANGED <<requests, emitted, waiting, link, shutdown, history>>

\* Transaction.handleTimeout forgets its handle, lets the transport drop the
\* exchange if it is still there, and fails the transaction either way.
Timeout(s) ==
    LET t == timer[s]
        wasBusy == slot[s] # None
    IN  /\ EventLoop
        /\ t # None
        /\ slot' = [slot EXCEPT ![s] = None]
        /\ timer' = [timer EXCEPT ![s] = None]
        /\ handle' = [handle EXCEPT ![t] = None]
        /\ failures' = [failures EXCEPT ![t] = NextFailures(t, "error")]
        /\ ticks' = <<Tick(t, "error", wasBusy)>>
        /\ UNCHANGED <<requests, emitted, waiting, link, shutdown, history>>

----------------------------------------------------------------------------
\* The nextTick callback: first the event, then 'complete'

\* An 'error' event without a listener throws, and 'complete' is not reached.
Throws(k) ==
    /\ k.txn \notin cancelled
    /\ k.outcome = "error"
    /\ k.txn \in Unhandled \cup detached

TickEvent ==
    LET k == Head(ticks)
    IN  /\ MayRun /\ ticks # <<>> /\ ~emitted
        /\ IF Throws(k)
           THEN /\ ticks' = Tail(ticks)
                /\ crashed' = (k.txn \in detached)
                /\ swallowed' = swallowed \cup {k.txn}
                /\ leaked' = IF k.counted THEN leaked + 1 ELSE leaked
                /\ UNCHANGED emitted
           ELSE /\ emitted' = TRUE
                /\ UNCHANGED <<ticks, crashed, swallowed, leaked>>
        /\ UNCHANGED <<requests, failures, slot, timer, handle, waiting, link,
                       destroyed, detached, done, thrown, attempts, uncounted,
                       requeues, quietDestroy>>

\* Mutants: a retry is scheduled as well, and the connection test is inverted.
SchedulesRetried(t, outcome) == t \notin cancelled /\ IsRepeatable(t) /\ isOpen
SchedulesClosed(t, outcome) ==
    t \notin cancelled /\ ~Retries(t, outcome) /\ IsRepeatable(t) /\ ~isOpen

\* The next poll of t: at once when its interval is 0, else after a timer.
Schedules(t, outcome) ==
    /\ t \notin cancelled
    /\ ~Retries(t, outcome)
    /\ IsRepeatable(t)
    /\ isOpen

\* Mutant: the retry is not queued.
NextQueueNoRetry(t, outcome) ==
    IF Schedules(t, outcome) /\ Interval[t] = 0 THEN Append(queue, t) ELSE queue

\* Where the completion of t leaves the queue.
NextQueue(t, outcome) ==
    CASE t \notin cancelled /\ Retries(t, outcome) -> <<t>> \o queue
      [] Schedules(t, outcome) /\ Interval[t] = 0  -> Append(queue, t)
      [] OTHER -> queue

\* Master.onTransactionComplete.
Complete(k) ==
    LET t == k.txn
        again == t \notin cancelled /\ Retries(t, k.outcome)
        scheduled == Schedules(t, k.outcome)
    IN  /\ executing' = executing - 1
        /\ uncounted' = IF k.counted THEN uncounted ELSE uncounted + 1
        /\ queue' = NextQueue(t, k.outcome)
        /\ waiting' = IF scheduled /\ Interval[t] > 0
                      THEN [waiting EXCEPT ![t] = @ + 1] ELSE waiting
        /\ done' = IF again \/ scheduled THEN done ELSE done \cup {t}
        /\ attempts' = IF again THEN attempts ELSE [attempts EXCEPT ![t] = 0]
        /\ looping' = TRUE
        /\ UNCHANGED crashed

\* After destroy() the queue is null: a completion that still has its
\* listener throws a TypeError, one that lost it does nothing.
TickComplete ==
    LET k == Head(ticks)
    IN  /\ MayRun /\ ticks # <<>> /\ emitted
        /\ ticks' = Tail(ticks)
        /\ emitted' = FALSE
        /\ \/ ~destroyed /\ Complete(k)
           \/ /\ destroyed
              /\ crashed' = (k.txn \notin detached)
              /\ UNCHANGED <<executing, uncounted, queue, waiting, done, attempts, looping>>
        /\ UNCHANGED <<repeatables, issued, cancelled, failures, slot, timer, handle,
                       link, destroyed, detached, thrown, swallowed, leaked,
                       requeues, quietDestroy>>

\* Transaction.executionTimer fires: scheduleExecution's callback.
ExecutionTimer(t) ==
    /\ EventLoop
    /\ waiting[t] > 0
    /\ waiting' = [waiting EXCEPT ![t] = @ - 1]
    /\ IF t \in cancelled
       THEN UNCHANGED <<queue, looping, crashed>>
       ELSE /\ crashed' = destroyed
            /\ queue' = IF destroyed THEN queue ELSE Append(queue, t)
            /\ looping' = TRUE
    /\ UNCHANGED <<executing, repeatables, issued, cancelled, failures, slot, timer,
                   handle, ticks, emitted, link, destroyed, detached, history>>

----------------------------------------------------------------------------
\* The connection

\* queueRepeatableTransactions: every one of them, wherever it is.
WithRepeatablesQueued == queue \o repeatables

ConnectionOpen ==
    /\ EventLoop /\ ~destroyed
    /\ ~isOpen /\ opens < MaxOpens
    /\ isOpen' = TRUE /\ connected' = TRUE
    /\ opens' = opens + 1
    /\ queue' = WithRepeatablesQueued
    /\ looping' = TRUE
    /\ requeues' = IF repeatables = <<>> THEN requeues ELSE requeues + 1
    /\ UNCHANGED <<executing, repeatables, issued, cancelled, exchanges, shutdown, done,
                   thrown, swallowed, attempts, uncounted, leaked, quietDestroy>>

\* isOpen() turns false; the 'close' event follows, at once or later.
LineDown ==
    /\ EventLoop /\ ~destroyed
    /\ isOpen
    /\ isOpen' = FALSE
    /\ UNCHANGED <<requests, exchanges, connected, opens, shutdown, history>>

ConnectionClose ==
    /\ EventLoop /\ ~destroyed
    /\ ~isOpen /\ connected
    /\ connected' = FALSE
    /\ UNCHANGED <<requests, exchanges, isOpen, opens, shutdown, history>>

----------------------------------------------------------------------------
Application == Destroy \/ \E t \in Txn : Execute(t) \/ Cancel(t)
Loop == SendThrows \/ DropCancelled \/ \E s \in Slot : SendNext(s)
Ticks == TickEvent \/ TickComplete
Timers == (\E s \in Slot : Timeout(s)) \/ \E t \in Txn : ExecutionTimer(t)
Remote == \E s \in Slot, outcome \in Outcome : Answer(s, outcome)
Connection == ConnectionOpen \/ LineDown \/ ConnectionClose

Next == Application \/ Loop \/ Ticks \/ Timers \/ Remote \/ Connection

Spec == Init /\ [][Next]_vars

\* The loop and the ticks run to their end.  Timer callbacks are disabled while
\* ticks are pending, and the event loop still comes round to every due timer.
Fairness ==
    /\ WF_vars(Loop)
    /\ WF_vars(Ticks)
    /\ \A s \in Slot : SF_vars(Timeout(s))
    /\ \A t \in Txn : SF_vars(ExecutionTimer(t))

FairSpec == Spec /\ Fairness

----------------------------------------------------------------------------
\* Properties

OneShot == {t \in Txn : ~IsRepeatable(t)}
One(condition) == IF condition THEN 1 ELSE 0
Places(t) ==
    Cardinality({i \in DOMAIN queue : queue[i] = t})
  + Cardinality({s \in Slot : slot[s] = t})
  + Cardinality({i \in DOMAIN ticks : ticks[i].txn = t})
Counted(tk) == {i \in DOMAIN tk : tk[i].counted}
Outstanding == Cardinality(Busy) + Cardinality(Counted(ticks))

TypeRequests ==
    /\ queue \in Seq(Txn)
    /\ executing \in Int
    /\ repeatables \in Seq(Txn)
    /\ looping \in BOOLEAN
    /\ issued \in SUBSET Txn
    /\ cancelled \in SUBSET Txn
TypeExchanges ==
    /\ failures \in [Txn -> Nat]
    /\ slot \in [Slot -> Txn \cup {None}]
    /\ timer \in [Slot -> Txn \cup {None}]
    /\ handle \in [Txn -> Slot \cup {None}]
    /\ ticks \in Seq([txn : Txn, outcome : Outcome, counted : BOOLEAN])
    /\ emitted \in BOOLEAN
    /\ waiting \in [Txn -> Nat]
TypeLink == connected \in BOOLEAN /\ isOpen \in BOOLEAN /\ opens \in Nat
TypeShutdown == destroyed \in BOOLEAN /\ detached \in SUBSET Txn /\ crashed \in BOOLEAN
TypeHistory ==
    /\ done \in SUBSET Txn
    /\ thrown \in SUBSET Txn
    /\ swallowed \in SUBSET Txn
    /\ attempts \in [Txn -> Nat]
    /\ uncounted \in Nat
    /\ leaked \in Nat
    /\ requeues \in Nat
    /\ quietDestroy \in BOOLEAN

\* Every variable of the scheduler keeps the type the code gives it.
TypeOK == TypeRequests /\ TypeExchanges /\ TypeLink /\ TypeShutdown /\ TypeHistory

\* executingRequests is the number of requests between sendRequest and
\* 'complete', except for the completions that never were counted (a cancelled
\* transaction dropped from the queue, a stale timer) and the counted requests
\* whose 'error' event threw before 'complete'.
Accounting == ~destroyed => executing = Outstanding + leaked - uncounted

\* No more than maxConcurrentRequests requests are outstanding, beyond those
\* that the uncounted completions let through.
ConcurrencyBound == ~destroyed => Outstanding <= MaxConcurrentRequests + uncounted

\* A transport that accepts maxConcurrentRequests exchanges refuses a request
\* only after a completion was not counted.
RefusalNeedsOverrun ==
    (thrown # {} /\ MaxConcurrentRequests <= Capacity) => uncounted > 0

\* An issued transaction that is not repeatable is in exactly one place: the
\* queue, one exchange, one pending tick, or among the settled ones.
Conservation ==
    ~destroyed => \A t \in OneShot :
        Places(t) + One(t \in done) + One(t \in thrown) + One(t \in swallowed)
            = One(t \in issued)

\* An exchange is guarded by the timer its transaction's handle points at, and
\* no live timer outlives its exchange: for one-shot transactions always, for
\* repeatable ones until an 'open' event queues a second copy.
TimersMatchExchanges ==
    \A s \in Slot, t \in Txn :
        t \in OneShot \/ requeues = 0 =>
            /\ slot[s] = t => timer[s] = t
            /\ timer[s] = t => slot[s] = t /\ handle[t] = s

\* One-shot transactions are sent at most 1 + maxRetries times, and one that is
\* about to be given up because of an error has used every retry.
RetryBudget ==
    /\ \A t \in OneShot : attempts[t] <= MaxRetries[t] + 1
    /\ (ticks # <<>> /\ emitted /\ ~destroyed) =>
          LET k == Head(ticks)
          IN  (k.txn \in OneShot \ cancelled /\ k.outcome = "error" /\ ~ShouldRetry(k.txn))
                 => attempts[k.txn] = MaxRetries[k.txn] + 1

\* While no completion is miscounted, a repeatable transaction exists in the
\* queue, the exchanges, the ticks and the execution timers at most once more
\* than the copy execute() made per 'open' event that queued it again.
CopiesBounded ==
    (MaxConcurrentRequests = 1 /\ uncounted = 0) =>
        \A t \in Txn : Places(t) + waiting[t] <= 1 + requeues

\* readme.md:47: maxConcurrentRequests "determines how many transactions may be
\* attempted simultaneously".
ConcurrencyLimit == Cardinality(Busy) <= MaxConcurrentRequests

\* destroy() called from an I/O or timer callback of the application, with no
\* repeatable transaction queued twice, leaves nothing behind that can throw.
DestroySafe == crashed => requeues > 0 \/ ~quietDestroy

\* Every one-shot transaction that was executed emits 'done', unless the master
\* was destroyed or an 'error' event without a listener threw: the request it
\* belonged to stays counted, which may stop all the others.
EveryRequestSettles ==
    \A t \in OneShot :
        t \in issued ~> t \in done \cup thrown \/ destroyed \/ leaked > 0

\* A repeatable transaction is sent again and again while the connection stays
\* open, unless it is cancelled, refused by a full transport, or such an event threw.
KeepsPolling ==
    \A t \in Txn \ OneShot :
        [](t \in issued /\ [](isOpen /\ ~destroyed /\ leaked = 0 /\ t \notin cancelled \cup thrown)
             => []<>(\E s \in Slot : slot[s] = t))

\* Each one-shot transaction runs through the abstract lifecycle of a request.
Status(t) ==
    CASE t \notin issued -> "new"
      [] t \in thrown \cup swallowed -> "lost"
      [] t \in done -> "done"
      [] t \in detached -> "abandoned"
      [] OTHER -> CASE \E s \in Slot : slot[s] = t -> "sent"
                    [] t \in ToSet(queue) -> "queued"
                    [] OTHER -> "settling"
Lifecycle == INSTANCE RequestLifecycle WITH
    Request <- OneShot, Budget <- MaxRetries,
    status <- [t \in OneShot |-> Status(t)], tries <- [t \in OneShot |-> attempts[t]]
RefinesLifecycle == Lifecycle!Spec

=============================================================================
