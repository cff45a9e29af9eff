---------------------------- MODULE TcpConnection ----------------------------
(***************************************************************************)
(* lib/connections/TcpConnection.js: one net.Socket kept connected.        *)
(*                                                                         *)
(* The object mirrors the socket in two flags and runs three timers.  The  *)
(* socket reports through events that come later than the calls causing    *)
(* them: destroy() frees the handle at once, its 'close' event follows.    *)
(* In between the application, the reconnect timer and the inactivity      *)
(* timer may all call in.                                                  *)
(*                                                                         *)
(* Delays are counted in units of 250 ms, up to MaxDelay, maxReconnectTime *)
(* in these units; connectionAttempts only ever serves to compute a delay, *)
(* so that it may stop counting there.                                     *)
(*                                                                         *)
(* Names that IpTransport has too are given the prefix connection here, so *)
(* that one module can speak of the two.                                   *)
(***************************************************************************)
EXTENDS Naturals

CONSTANTS
    MaxDelay,    \* maxReconnectTime, in units of 250 ms
    MaxOrphans,  \* bound: reconnect timers nobody can clear
    Off          \* a reconnect timer that is not running

ASSUME DelayAssumption == MaxDelay \in Nat /\ MaxOrphans \in Nat
ASSUME OffAssumption == Off \notin Nat

VARIABLES
    options,          \* TcpConnection.Options
    connected,
    connecting,
    shouldReconnect,
    reconnectTimer,   \* Off, or the delay of the live timer in the field
    minConnectTimer,  \* minConnectTimeTimer is live
    activityTimer,    \* noActivityTimeTimer is live
    attempts,         \* connectionAttempts
    disposed,         \* destroy() has been called
    \* net.Socket and the event loop.
    handle,           \* the socket's handle: "none", "connecting" or "open"
    closing,          \* handles closed whose 'close' event is still to come
    orphans,          \* live reconnect timers whose field was overwritten
    \* History.
    stopped,          \* no connect() has taken effect since close(), or at all
    flaps             \* connections opened since one last reached minConnectTime

flags == <<connected, connecting, shouldReconnect>>
timers == <<reconnectTimer, minConnectTimer, activityTimer, orphans>>
socket == <<handle, closing>>
connectionVars == <<options, flags, timers, attempts, disposed, socket, stopped, flaps>>

Options == [autoConnect : BOOLEAN, autoReconnect : BOOLEAN, watchActivity : BOOLEAN]

\* The cap of reconnectTime.
Bounded(n) == IF n > MaxDelay THEN MaxDelay ELSE n

----------------------------------------------------------------------------
\* net.Socket

\* socket.connect(): on a handle that is in use it fails, which destroys it.
SocketConnects ==
    IF handle = "none"
    THEN handle' = "connecting" /\ UNCHANGED closing
    ELSE handle' = "none" /\ closing' = closing + 1

\* socket.destroy(): without effect on a socket that has no handle.
SocketDestroyed ==
    /\ handle' = "none"
    /\ closing' = IF handle = "none" THEN closing ELSE closing + 1

----------------------------------------------------------------------------
\* The calls of the application

\* connect() beyond its early return.  The timer in the field is cleared.
Connects ==
    /\ ~connected /\ ~connecting
    /\ reconnectTimer' = Off
    /\ connecting' = TRUE
    /\ shouldReconnect' = options.autoReconnect
    /\ attempts' = Bounded(attempts + 1)
    /\ SocketConnects
    /\ stopped' = FALSE
    /\ UNCHANGED connected

\* connect() by the application; while a connection is up, or being made, it
\* returns at once.
Connect ==
    /\ ~disposed
    /\ Connects
    /\ UNCHANGED <<options, minConnectTimer, activityTimer, orphans, disposed, flaps>>

\* doClose: the mutant forgets the reconnect timer.
DoCloseOnly(reconnect) ==
    /\ shouldReconnect' = reconnect /\ UNCHANGED reconnectTimer /\ SocketDestroyed
DoClose(reconnect) ==
    /\ shouldReconnect' = reconnect
    /\ reconnectTimer' = Off
    /\ SocketDestroyed

Close ==
    /\ ~disposed
    /\ DoClose(FALSE)
    /\ stopped' = TRUE
    /\ UNCHANGED <<options, connected, connecting, minConnectTimer, activityTimer,
                   attempts, disposed, orphans, flaps>>

\* destroy() takes every listener off the socket: none of its events arrives.
DestroyConnection ==
    /\ ~disposed
    /\ disposed' = TRUE
    /\ SocketDestroyed
    /\ reconnectTimer' = Off /\ minConnectTimer' = FALSE /\ activityTimer' = FALSE
    /\ UNCHANGED <<options, flags, orphans, attempts, stopped, flaps>>

----------------------------------------------------------------------------
\* The events of the socket.  The event loop reports the end of a closed handle
\* before anything about the handle opened after it.

OnSocketConnect ==
    /\ ~disposed
    /\ handle = "connecting" /\ closing = 0
    /\ handle' = "open"
    /\ connecting' = FALSE /\ connected' = TRUE
    /\ minConnectTimer' = TRUE
    /\ flaps' = Bounded(flaps + 1)
    /\ UNCHANGED <<options, shouldReconnect, reconnectTimer, activityTimer, orphans,
                   attempts, disposed, closing, stopped>>

\* handleReconnect: a timer that is live in the field is lost sight of.
\* Mutants: reconnects without a delay; never reconnects.
ReconnectAtOnce ==
    /\ reconnectTimer' = IF shouldReconnect THEN 0 ELSE reconnectTimer
    /\ orphans' = IF shouldReconnect /\ reconnectTimer # Off THEN orphans + 1 ELSE orphans
NoReconnect == UNCHANGED <<reconnectTimer, orphans>>
HandleReconnect ==
    IF shouldReconnect
    THEN /\ reconnectTimer' = Bounded(attempts)
         /\ orphans' = IF reconnectTimer = Off THEN orphans ELSE orphans + 1
    ELSE UNCHANGED <<reconnectTimer, orphans>>

\* The connection timers that end with the connection.
\* Mutant: the inactivity timer is left running.
StopMinConnectOnly == minConnectTimer' = FALSE /\ UNCHANGED activityTimer
StopConnectionTimers == minConnectTimer' = FALSE /\ activityTimer' = FALSE

\* Mutant: an attempt is still taken to be under way.
StillConnecting == connected' = FALSE /\ UNCHANGED connecting
NotConnected == connecting' = FALSE /\ connected' = FALSE

OnSocketClose ==
    /\ ~disposed
    /\ closing > 0
    /\ orphans < MaxOrphans \/ reconnectTimer = Off
    /\ closing' = closing - 1
    /\ StopConnectionTimers
    /\ NotConnected
    /\ HandleReconnect
    /\ UNCHANGED <<options, shouldReconnect, attempts, disposed, handle, stopped, flaps>>

\* The attempt fails, or the established connection ends: the handle is closed.
ConnectionLost ==
    /\ ~disposed
    /\ handle # "none" /\ closing = 0
    /\ SocketDestroyed
    /\ UNCHANGED <<options, flags, timers, attempts, disposed, stopped, flaps>>

----------------------------------------------------------------------------
\* The timers

\* The reconnect timer calls connect(), which may have nothing to do.
Reconnect ==
    /\ reconnectTimer # Off
    /\ IF connected \/ connecting
       THEN reconnectTimer' = Off /\ UNCHANGED <<flags, attempts, socket, stopped>>
       ELSE Connects
    /\ UNCHANGED <<options, minConnectTimer, activityTimer, orphans, disposed, flaps>>

\* So does one that no field refers to; it outlives close(), and destroy() too, after
\* which it throws on the options that are gone: that is left out.
ReconnectOrphan ==
    /\ orphans > 0 /\ ~disposed
    /\ orphans' = orphans - 1
    /\ IF connected \/ connecting
       THEN UNCHANGED <<flags, reconnectTimer, attempts, socket, stopped>>
       ELSE Connects
    /\ UNCHANGED <<options, minConnectTimer, activityTimer, disposed, flaps>>

MinConnectTimeReached ==
    /\ minConnectTimer
    /\ minConnectTimer' = FALSE
    /\ attempts' = 0
    /\ activityTimer' = (activityTimer \/ options.watchActivity)
    /\ flaps' = 0
    /\ UNCHANGED <<options, flags, reconnectTimer, orphans, disposed, socket, stopped>>

\* The inactivity timer finds that no data came for noActivityTime.  When data
\* did come checkActivity changes nothing.
CheckActivity ==
    /\ activityTimer
    /\ connected' = FALSE
    /\ DoClose(TRUE)
    /\ UNCHANGED <<options, connecting, minConnectTimer, activityTimer, orphans,
                   attempts, disposed, stopped, flaps>>

----------------------------------------------------------------------------
ConnectionInit ==
    /\ options \in Options
    /\ connected = FALSE
    /\ connecting = options.autoConnect
    /\ shouldReconnect = options.autoReconnect
    /\ reconnectTimer = Off /\ minConnectTimer = FALSE /\ activityTimer = FALSE
    /\ attempts = Bounded(IF options.autoConnect THEN 1 ELSE 0)
    /\ disposed = FALSE
    /\ handle = (IF options.autoConnect THEN "connecting" ELSE "none")
    /\ closing = 0 /\ orphans = 0
    /\ stopped = ~options.autoConnect /\ flaps = 0

Application == Connect \/ Close \/ DestroyConnection
Socket == OnSocketConnect \/ OnSocketClose \/ ConnectionLost
Timers == Reconnect \/ ReconnectOrphan \/ MinConnectTimeReached \/ CheckActivity
ConnectionNext == Application \/ Socket \/ Timers

\* A closed handle is reported, an attempt ends one way or the other, and the
\* reconnect timer fires.
Fairness ==
    /\ WF_connectionVars(OnSocketClose)
    /\ WF_connectionVars(OnSocketConnect \/ ConnectionLost)
    /\ WF_connectionVars(Reconnect)

ConnectionSpec == ConnectionInit /\ [][ConnectionNext]_connectionVars /\ Fairness

----------------------------------------------------------------------------
\* Properties

\* Every variable keeps its type; at most two 'close' events are outstanding.
ConnectionTypeOK ==
    /\ options \in Options
    /\ connected \in BOOLEAN /\ connecting \in BOOLEAN /\ shouldReconnect \in BOOLEAN
    /\ minConnectTimer \in BOOLEAN /\ activityTimer \in BOOLEAN
    /\ disposed \in BOOLEAN /\ stopped \in BOOLEAN
    /\ reconnectTimer \in 0 .. MaxDelay \cup {Off}
    /\ attempts \in 0 .. MaxDelay /\ flaps \in 0 .. MaxDelay
    /\ handle \in {"none", "connecting", "open"}
    /\ closing \in 0 .. 2
    /\ orphans \in 0 .. MaxOrphans

\* Once every 'close' event has been handled the flags tell the truth about the
\* socket: isOpen() is right, an open socket is never taken for a closed one,
\* and connecting, which bars every further connect(), always ends.
FlagsMatchSocket ==
    ~disposed =>
        /\ closing = 0 => (connected <=> handle = "open")
        /\ connected \/ connecting => handle # "none" \/ closing > 0

\* The timers of a connection are live until its 'close' event is handled, and no
\* further: once it is, only an open socket has any, and a socket opens only when no
\* such event is outstanding.  So minConnectTime is counted from the socket's own
\* opening, and checkActivity closes no open connection but its own.  An attempt made
\* by connect() between the destruction of a socket and its 'close' event it may end.
TimersEndBeforeNextOpens ==
    /\ closing = 0 /\ handle # "open" => ~minConnectTimer /\ ~activityTimer
    /\ ~disposed /\ handle = "open" => closing = 0

\* "Internal connection attempts counter is reset only after the specified time
\* to prevent flood of connections in cases where the slave accepts a connection
\* and then immediately closes it" (example/verbose-init-tcp-ip.js:40): the
\* delay grows with every connection that did not reach minConnectTime.
NoFlood == reconnectTimer # Off => reconnectTimer >= flaps

\* After close(), and until the next connect(), no connection is attempted,
\* unless the inactivity timer, whose doClose(true) overrules close(), is used.
CloseIsFinal ==
    [][stopped /\ ~options.watchActivity => ~Reconnect /\ ~ReconnectOrphan]_connectionVars

\* A connection that should be kept stays down only because of close(): whatever
\* is lost, reported late or called in between, a new attempt follows.
KeepsConnecting ==
    options.autoReconnect =>
        []<>(connected \/ connecting \/ stopped \/ disposed)

=============================================================================
