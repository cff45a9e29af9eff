# Verification of cs-modbus

cs-modbus is a MODBUS master for Node.js: an application asks for registers,
coils or commands, the library queues the requests, sends each one over a
transport and a connection, matches answers to requests, times out, retries and
polls. The modules of this directory are TLA+ specifications translated from the
code in `src/lib`, model-checked with TLC, with theorems checked by TLAPS.

Contents: 1 the system, 2 the modules, 3 the runs, 4 the proofs, 5 disagreements
between the code and its documentation, 6 what is not modelled, 7 the plan.

## 1. The system

JavaScript runs to completion. What interleaves is one callback with another:
I/O and timer callbacks of the event loop, the `process.nextTick` callbacks that
run before the loop goes on, and the calls the application makes from inside any
of them.

| Part (`src/lib`) | State | Operations | Talks to |
|---|---|---|---|
| `Master.js` | queue, count of executing requests, list of repeatable transactions | `execute`, `destroy`, the sending loop, `onTransactionComplete`, the connection's events | calls `transport.sendRequest`; listens to 'complete' of each transaction and to 'open', 'close' of the connection |
| `Transaction.js` | retries used, cancelled flag, handles of a response timer and an execution timer | `start`, `handleResponse`, `handleError`, `cancel`, `scheduleExecution` | is called by the transport; emits 'response', 'error', 'complete', 'timeout' |
| `transports/RtuTransport.js` | one open transaction, collected bytes, end-of-frame timer | `sendRequest`, `onData`, the timer | writes to the connection, listens to 'data' |
| `transports/IpTransport.js` | transactions by identifier, next identifier, bytes, header | `sendRequest`, `onData`, timeout handlers | the same |
| `transports/TunnelTransport.js` | current and waiting transaction, sequence number, bytes, end-of-frame timer | `sendRequest`, `onData`, polls by the bus master | the same |
| `transports/AsciiTransport.js` | one open transaction, bytes | the same with delimiters | the same |
| `transports/CS1179Transport.js`, `SocketcandTransport.js`, `J1939Transport.js` | open transactions, chunk timers | transfers in chunks, over USB or CAN; J1939 in whole messages | the same |
| `connections/TcpConnection.js` | flags that mirror a `net.Socket`, three timers, attempt counter | `connect`, `close`, `destroy`, the socket's events | emits 'open', 'close', 'data' |
| other connections | at most one flag | rename events | – |
| `functions/` | none | requests and responses to and from bytes, with range checks and exceptions | called by the transports and the master |

What is hard to get right and hard to test:

* completion is deferred by a tick, and cancel, execute, destroy and 'open' may
  come in between;
* two timers (response and end of frame) race for one exchange;
* answers come late, in pieces, in another order, or for a request that is over;
* the master counts requests in one place and un-counts them in another, on
  paths that do not pair up (a cancelled request, an exception in a listener);
* 'open' queues repeatable transactions that may still be under way;
* identifiers and sequence numbers wrap around;
* transfers in chunks are repeated by timers of their own, and replies of some adapters
  carry nothing that ties them to a request;
* frames are cached in transactions, and some transports consume or rewrite the cache;
* codecs cut counts to one byte and fill what is missing with zeros;
* a socket reports the end of a connection after a new one was asked for.

What makes the parts correct: the count equals the requests that are outstanding
and no request is lost, settled twice or sent too often (master); every exchange
ends exactly once and with its own answer (transports); flags and timers match
the socket and the connection comes back (TCP connection); what one side writes is what
the other reads, or is refused (codecs). `PROJECT.json` lists
every hazard at its line with the properties that cover it.

## 2. The modules

| Module | Models | Abstract specification |
|---|---|---|
| `RequestLifecycle` | what the master promises for one request | is one |
| `Master`, `MCMaster` | `Master.js` with `Transaction.js` over any transport | implements `RequestLifecycle` |
| `TransportContract` | what the master relies on in a transport | is one |
| `RtuTransport`, `MCRtuTransport` | the RTU transport, a slave and a serial line | implements `TransportContract`, capacity 1 |
| `IpTransport` | MODBUS TCP, a slave and a byte stream | implements it without a limit |
| `TunnelTransport` | the tunnel transport and its bus master | implements it, capacity 2 |
| `AsciiTransport`, `MCAsciiTransport` | the ASCII transport, a slave and a serial line | implements it, capacity 1 |
| `CS1179Transport`, `MCCS1179Transport` | the CS1179 transport and its adapter | implements it, capacity 1 |
| `SocketcandTransport`, `MCSocketcandTransport` | the socketcand transport and one unit on the bus | implements it, capacity 1 for each unit |
| `J1939Transport` | the J1939 transport and the units on the bus | implements it without a limit |
| `TcpConnection` | the TCP connection over an external `net.Socket` | – |
| `Codecs`, `MCCodecs` | the request and response classes of `functions/`, the helpers of `Master.js`, a master and a slave that use them | – |
| `*Proofs` | theorems about the module they are named after; `ModbusRtuProofs` about `RtuTransport` and `Codecs`, `ModbusTcpProofs` about `IpTransport` and `TcpConnection` | – |

The layers meet in `TransportContract`: an exchange begins unless the transport
is full, in which case `sendRequest` throws, and ends exactly once unless the
transport is destroyed first. Where the code departs from that, the module of the transport
names the exchanges concerned and the contract lets only them depart: `surviving` ones may end
after `destroy()`, `faulty` ones may be completed by a `sendRequest` that throws, or again (`Spoil`).
RTU, ASCII and tunnel name none; IP names survivors, namely exchanges that shared their identifier; CS1179 names
unknown functions, resets sent again, and exchanges that began with a
rest in the reader, socketcand unknown functions, J1939 exchanges that another one or an unasked message
disturbed. An exchange's `Phase` sees only its first end in RTU, ASCII, tunnel, IP and socketcand; that there is
no second one is what the timer and place invariants of these modules say (`TimersGuardTransaction`,
`ReaderFollowsFrame`, `TimerGuardsCurrent`, `OpenIsRegistered`, `TimersFollowEntry`).
`Master` has this transport built in (`Slot`,
`Capacity`, `SendThrows`, `Answer`, `Timeout`), so that one model of the scheduler
serves every transport, and each transport is shown to implement it.

### Master

One action per entry point of the code. `Execute`, `Cancel` and `Destroy` are the
application's calls; `SendNext`, `SendThrows` and `DropCancelled` are the three
outcomes of one iteration of `executeQueuedTransactions`; `Answer` and `Timeout`
end an exchange and defer a tick; `TickEvent` and `TickComplete` are the two
halves of the `nextTick` callback, 'response' or 'error' and then 'complete' with
all of `onTransactionComplete`; `ExecutionTimer` is the next poll of a repeatable
transaction; `ConnectionOpen`, `LineDown` and `ConnectionClose` are the connection.

Variables have the names of the fields (`executing` is `executingRequests`, `queue`
is `transactionQueue`, `handle` is `timeoutTimer`, `waiting` are execution timers).
Run-to-completion is in the guards: `InLoop` bars everything else while the loop
runs, `EventLoop` lets timers and I/O in only when no tick is pending, `MayRun`
lets the application in at any point where its code can run. A timer is modelled
by the slot it was started for, so that a handle that was overwritten leaves a
live timer behind as in the code.

`uncounted` and `leaked` are history: completions that decremented the count for
nothing, and counted requests whose completion never came because an 'error' event
without listener threw. The properties are exact because of them: the
count is off by these two numbers and by nothing else.

### RtuTransport

A frame is a sequence of bytes `<<exchange, position>>`; which frame the collected
bytes are is decided by `Verdict` as `validate` and `createResponse` do, by length,
checksum (taken to be collision-free), unit and function. The line delivers any
prefix at any time, an answer may be cut short or never come, and bytes that
arrive with no exchange open are dropped as in `onData`.

### IpTransport

Bytes as above. `onData` is recursive in the code; here `ReadHeader` and
`HandleFrameData` are its two branches and `Idle` keeps everything else out until
neither applies. Bytes which are not the beginning of a frame may read as any
header. The connection may be replaced at any point; the transport keeps its bytes.
`Destroy` ends the timers of the registered transactions only: one whose identifier was given to a
later exchange keeps its timer (`LeftByDestroy`), which completes it after `destroy()`.

### TunnelTransport

The transport is a slave on the bus: `Poll` is the bus master's question with its
sequence number and perhaps an answer, `HandleFrameData` handles it and writes the
reply, which the bus master receives or not (`BusReceives`). The bus master is the
one of `src/test/transports/TunnelTransport.js`. `adu` is the frame a transaction
caches at its first attempt, of which only the sequence number matters.

### AsciiTransport

A frame is four characters: the colon, one that stands for the data, CR and LF. The
line delivers them in chunks cut anywhere (`Arrives(n)`), and `Deliveries` says which
characters of an answer reach the port. The four branches of `onData` are four actions:
`DataIgnored` (no exchange is open), `DataRejected` (a chunk that does not start a
frame, with which the code fails the exchange), `DataCollected` and `FrameReceived`.
`lastByte` is a field of its own in the code because CR and LF may come in different
chunks. There is no end-of-frame timer: a frame whose end is lost waits for the
response timer.

### CS1179Transport

A request becomes chunks, one for each memory location (`Chunks`, with the translation of
addresses to banks); `ChunkReply` keeps the first byte of a reply and writes the next
chunk, `LastReply` completes the exchange. `getAdu` puts the function code into the buffer
that collects the replies, before it builds the chunks, so that a request that cannot be
built (`SendFails`) leaves it there; `SendUnsupported` completes a transaction, keeps it without a timer and throws.
So does a reset that is sent again: `buildAduCommand` has replaced its request by one without a
function code (`Replaced`), and that is what a transaction that was completed once brings to `getAdu` (`Repeated`).
`LastReplyRejected` is `createResponse` throwing on such a rest, `ResetReply` the reply to the reset. A byte is the chunk it answers, and
the history variables `inStep` and `dirty` remember how an exchange began.

### SocketcandTransport

Exchanges with different units share nothing, so that the module has one unit. `adu` is
the list of chunks that a transaction caches; `ChunkAnswered` shifts an answered chunk off
that list, and a transaction that is sent again goes on with the rest. `ChunkTimeout(own)`
is the timer that repeats a chunk, the one of the entry or one that an exchange left behind when
it timed out; `Resend` writes the first chunk of whatever the unit has now. `Fits` is what
the code compares: opcode and address for the motor controller, opcode only for
the communication processor. `fresh`, `quiet`, `resent` and `strayed` are history.

### J1939Transport

Transactions are kept by unit. `SendRequest` overwrites what is there, `OnPgn` completes what
is there and leaves it, `HandleTimeout(e)` removes what is there by then. `Unasked` is a
message that answers nothing. `destroy()` is inherited, changes nothing, and is no
action; the contract is implemented with `closed` constantly false. A second completion is a phase of its own there
("spoiled"), which only disturbed exchanges reach.

### Codecs

A class is a record: its function code, the shortest buffer `fromBuffer` accepts, and its
fields with their kinds and ranges. `New`, `FromOptions`, `ToBuffer` and
`FromBuffer` interpret these records, which is what the bodies of the forty classes do
one by one; where a class departs from the others (the diagnostics request demands its
arguments, the command is read from one place too far, the generic request compares its code
with a property that does not exist) its record has a field or a kind for it. Numbers keep
their widths: a count is written `% 256`, a word in two bytes. `Buffer.copy` fills with zeros,
other readers throw, and the kinds differ in that. `Carried` is what the writing side lets through of a value: the
bytes that a one-byte count admits, the values of a command without the first.

On top there is one exchange: a request from options or by a helper of the master
(`RequestFromOptions`, `Helper`), read by a slave with the same classes (`SlaveReads`), answered
(`SlaveResponds`, `SlaveRefuses`, `OtherResponds`) and read by the master without the last
bytes of the reply (`MasterReads`). The values are arbitrary except for their types (`Type`: numbers, bytes,
bits or records), which is what `ValueAssumption` asks of the constant `Value`; the constructors check
ranges, and nothing else is assumed. The names `CodecsInit` to `CodecsSpec` keep the module apart from
`RtuTransport` where both are extended.

### TcpConnection

`handle` and `closing` are `net.Socket` as the code sees it: `destroy()` takes effect
at once and its 'close' event comes later, before any event of a newer handle.
Delays are in units of 250 ms. `orphans` are reconnect timers whose field was
overwritten: they still fire, and nobody can clear them. `ConnectionInit` to `ConnectionSpec` and
`disposed`, that `destroy()` was called, are named so that the module can be extended together
with `IpTransport`.

## 3. The runs

| Run | States | Checks | Shows |
|---|---|---|---|
| `master_serial` | 101,552 | `RetryBudget`, `CopiesBounded`, `DestroySafe`, `EveryRequestSettles`, `KeepsPolling` | on a serial line a request is sent at most once more than its retries, copies of a polled request do not pile up, a destroyed master leaves no timer that can throw, every one-shot request settles and polling goes on while the line is open |
| `master_concurrent` | 685,511 | `Accounting`, `ConcurrencyBound`, `Conservation`, `TimersMatchExchanges`, `RefinesLifecycle` | where the transport carries two exchanges and a polled request may be in flight twice: the count is off by what the model records and nothing else, no request is lost, and each follows the abstract lifecycle |
| `master_limit` | – | `ConcurrencyLimit` (violated) | a disagreement with the readme (section 5) |
| `rtu_transport` | 47,851 | `TimersGuardTransaction`, `InStepOnQuietLine`, `ImplementsContract` | timers guard the open exchange, the transport is in step again on a quiet line |
| `ascii_transport` | 126,672 | `ReaderFollowsFrame`, `InStepOnQuietLine`, `ImplementsContract` | what is collected is one unfinished frame of the open exchange, however it is cut; in step on a quiet line |
| `ip_transport` | 24,862 | `OpenIsRegistered`, `OwnAnswer`, `ImplementsContract` | open exchanges are found under their identifiers, take their own answers, and end after `destroy()` only if they shared an identifier |
| `tunnel_transport` | 757,410 | `TimerGuardsCurrent`, `OwnAnswer`, `ImplementsContract` | the timer guards the current exchange, and sequence numbers keep answers apart unless an exchange times out |
| `cs1179_transport` | 719,695 | `BlockedOnlyByFailures`, `EndsOnce`, `OwnReplies`, `ImplementsContract` | the transport jams, and completes a transaction it refused or completes one twice, in exactly three cases; an exchange that begins in step stays in step |
| `socketcand_transport` | 598,162 | `TimersFollowEntry`, `MotorMemoryInOrder`, `OtherMemoryOnQuietBus`, `ImplementsContract` | chunk timers are accounted for, stale ones included; addresses keep the motor controller's bytes in order, the others need a quiet bus |
| `j1939_transport` | 69,236 | `OpenIsTimed`, `AloneIsServed`, `ImplementsContract` | every exchange ends, replaced ones too; one alone with its unit is served once, with its own answer |
| `tcp_connection` | 2,369 | `FlagsMatchSocket`, `TimersEndBeforeNextOpens`, `NoFlood`, `CloseIsFinal`, `KeepsConnecting` | for every choice of the options: flags follow the socket, the timers of one connection end before the next opens, delays grow, only `close()` is final |
| `codecs` | 204,827 | `RequestArrives`, `AnswerFaithful` | what the slave reads of each request, and what the master reads of each reply, whole or cut |

Every run takes between one second and about a minute. The type invariants are proved
(section 4) and therefore not run, except that of `J1939Transport`, which is the first
part of `OpenIsTimed`; `Codecs` has none, `ExchangeHolds` says more. Deadlock checking is off everywhere: calls are bounded and
every part may really come to rest.

**Bounds.** `master_serial`: a one-shot request and a polled one, one retry each, two 'open'
events, so that a request can fail, succeed late, be given up, and be queued again while it is
under way. `master_concurrent`: two one-shot requests and a polled one (`q`, polled at once),
two exchanges at a time. `master_limit`: three slots and a limit of one, so that one too
many fits. Each transaction is issued once. `Slot` bounds the live timers too: a slot is free
when its timer is gone. `failures` saturates above `maxRetries`, which is all `shouldRetry` asks.

`rtu_transport`, `ascii_transport`: three exchanges, two of them alike (`TwoUnits`): a late answer
can meet a request that looks like its own and one that does not, in pieces. RTU frames have
three bytes of which two are the least that validates; an ASCII answer arrives whole, loses its colon,
its CR, its LF or its end, or never comes. `ip_transport`: three exchanges and two identifiers
(0xFFFF in the code), so that the third takes the first's; headers of two bytes, so that a header is
cut too. `tunnel_transport`: four exchanges of two requests, so that both are sent again, and
three sequence numbers (256 in the code), so that they wrap around. `cs1179_transport`: three
exchanges out of nine requests that cross from RAM into the shadowed EEPROM and out of the
banks, the slave's identity, a command, the reset and an unknown function: one exchange to
leave something behind, one to suffer, one to recover. `socketcand_transport`: three exchanges of five
transactions (a read of three chunks from the motor controller, one of two from the communication
processor, a write, a command, an unknown function), each of which may be sent again, and two
repeated chunks. `j1939_transport`: three exchanges with two units, and one message of each
that nobody asked for. `tcp_connection`: delays up to three units. The attempt counter only ever
serves to compute a delay, so that stopping at `MaxDelay` loses nothing; `MaxOrphans` bounds
overwritten timers at two. `codecs`: each field at its limits, one past them, between them and left
out, payloads of 0 to 500 bytes around every limit of a count and of the constructors, none of whose bytes is 0, so that padding
shows; replies lose 0 to 9, 12 or 17 bytes, which ends inside and between file records.

**Symmetry.** `master_concurrent` takes slots for interchangeable: no action and no
property names one, and no constant distinguishes them. Runs with liveness of their own use no
symmetry.

**Fairness.** The loop and the ticks of `Master` run to their end (WF): Node drains
ticks before anything else. Timers get SF because a pending tick disables their
action though the event loop comes round to each due timer. Nothing is assumed of
answers, calls or the connection. In the transports only the timers are fair, and
`onData`'s own recursion: that every exchange ends rests on the response timer. The IP transport's
timers get SF, because the recursion disables them for its duration. In `TcpConnection` a closed handle is reported, an
attempt ends in one way or the other, and the reconnect timer fires; that a connection succeeds, or that
data come, is not assumed. `Codecs` has no fairness: its properties are safety.

The liveness of `Master` is checked on the serial line. Where exchanges are concurrent, a
polled request that 'open' queued a second time shares its one timer handle with its
other copy; what that does to timers is the subject of `TimersMatchExchanges`, and settling is not
promised there.

**Mutants.** Each property has an operator, commented *Mutant* next to the definition
it varies, that describes a plausible bug: with it in place the property fails in
the same run. They are in the modules so that the bounds can be seen to be large
enough for the bug to show.

## 4. The proofs

All proofs are for every value of the constants, from the named assumptions in the
modules, which only give types (sets are finite where counted, limits are
positive, `None` is not a member of the sets it stands beside, an address is one that
`prepareAddress` accepts, a value of a field is of the field's type). Every component has its type invariant
proved under the name `TypeCorrect`, the TCP connection `ConnectionTypeCorrect`. Every inductive invariant below was
also checked by TLC on the instance of the component's run, so that none holds for want of states; that of the
codecs with `Valid` in the form that its constructor accepts the message as it is, and fewer cuts.

### The master

`MasterProofs` has four layers, each built on the one before.

* **Counting** (`AccountingInv`): `AccountingHolds`, `ConcurrencyBounded`, `RefusalsExplained`. The types,
  the exact accounting, that the count never passes the limit (`CountWithinLimit`: only
  the loop increments it, behind its guard) and that after destroy() nothing is outstanding. The bound on
  outstanding requests follows by arithmetic.
* **Places** (`CopyInv`): `ConservationHolds`, `TimersMatch`, `CopiesStayBounded`. `Queued`, `Carried` and
  `Ticking` count the occurrences of a transaction in the queue, the slots and the ticks; one lemma for
  each action says by how much each of the three changes (`Moves`). On that rest four facts that need each
  other: a one-shot request is in one place or has met one fate (`Located`); a transaction has at most one copy
  for execute() and one for each 'open' (`Copies`); the timer of a transaction with one
  copy guards its exchange (`Guarded`, `HandleTrue`), since a second copy would overwrite the handle; and
  the list of repeatable transactions, which is what 'open' queues, has each once (`RepeatedOnce`).
* **Budget** (`BudgetInv`): `RetryBudgetHolds`. A request that is not cancelled has as many attempts as
  failures while it is queued and one more while it is in an exchange (`InBudget`), which is inductive only
  because it is never in two places.
* **Lifecycle**: `ImplementsLifecycle`, by reading the status off the place (`StatusMap`): since the places
  exclude each other each step changes the status of one request, and as the lifecycle allows.
  `DestroyIsSafe` adds to the places what a destroy() from an idle event loop has silenced (`Silent`).

### The transports

* **The contract.** `KeepsContract`, for RTU, ASCII, tunnel, IP, CS1179, socketcand and J1939:
  `Spec => Contract!Safety`, the initial state and the steps of `TransportContract`. An exchange begins only when the
  transport has room, does not begin again, and ends after destroy() or departs otherwise only if the
  module names it (section 2). For J1939 and CS1179 this includes that no other exchange is
  completed twice; elsewhere that is the timer theorem of the module. Each proof has an invariant that names
  the open exchanges: the current one (RTU, ASCII), the current and the waiting one (tunnel,
  which makes two), those under their identifiers (IP, which are no more than were begun),
  the one that is kept unless it was refused (CS1179), the entry of the unit
  (socketcand), those with a live timer (J1939). What the contract says of fairness is left to TLC.
* RTU (`ModbusRtuProofs`): `TimersGuarded`: `handleFrameData` calls its
  transaction without a check, and the theorem says that it always has one. `InStep`: while an exchange that
  began on a quiet line is open, what was collected and what is on the line are together the first
  bytes of its own frame, all of them unless it was damaged (`OwnBytes`), and only a whole frame validates.
* `AsciiTransportProofs`: `ReaderFollows`. The property is inductive with the types; the work is
  in how a chunk extends what is collected (`CollectedIsUnfinished`): its last character is the last of
  the chunk, and an end of frame that two chunks cut is seen because `lastByte` is right. `InStep` is the argument
  of RTU with characters (`OwnChars`), where a chunk may be refused or end the frame on its own.
* IP (`ModbusTcpProofs`): `OpenRegistered`. The invariant adds that open
  exchanges are those that were sent, and that two open ones with one identifier are
  recorded in `shared`. `OwnAnswerHolds`: what the reader holds and what the stream still brings
  are one sequence of frames that begins where the transport expects it (`InFrames`, `InStep`), whatever is
  skipped or run together, and the identifier of an answer that is due stands for that exchange, for none,
  or for one that is recorded as `stale` (`DueFits`).
* `TunnelTransportProofs`: `TimerGuards`, `AnswersKeptApart`. Own answers
  need two facts more: the poll waiting in the reader is what the bus master
  says now (`PollIsCurrent`), and an answer under the transport's number belongs to
  its current exchange unless one timed out under this number (`AnswerFits`). The
  proof uses no more of the arithmetic than that the next number is another one, which
  holds with two numbers already.
* `CS1179TransportProofs`: `BlockedOnlyThen`, `CompletedOnce`: of the three ways to block, and to complete a
  transaction that `sendRequest` refused or one that was completed. The invariant adds that what is kept
  or was completed has been sent (`Begun`), and that what a read that began with an empty reader
  collects is headed by its function code (`HeadedByCode`), which is why `createResponse` accepts it.
  `OwnRepliesHold` rests on `TakesTurns`: what was collected and the chunks that are left are together the request, and
  only the reply to the first of these chunks can be under way.
* `SocketcandTransportProofs`: `TimersFollow`. Chunk timers are counted against the exchanges
  that timed out: the proof is about how the cardinality of that set changes with each ending, and needs
  `Begun`, that only begun exchanges have ended. `AddressesKeepOrder` and `QuietBusKeepsOrder` share
  `Collects`: bytes collected and chunks left are as many as were asked for, and the chunks left are the last
  ones. The next byte is then the right one for either of two reasons (`AnswerTells`): opcode and address
  byte determine the address of every message ever written (`Genuine`, `OpcodesTell`), or no
  other chunk is owed (`OneOwed`). Addresses that wrap past 255 need no exception in the first case,
  because `Fits` compares an address that does not wrap; in the second they do.

* `J1939TransportProofs`: `OpenHolds`. An exchange has a timer exactly as long as it has not ended, replaced or
  not, and what is kept for a unit is its latest exchange (`KeepsLatest`). `AloneHolds`: of an exchange that was alone
  and stayed so (`Undisturbed`) all earlier ones of its unit were over when it began and it was over when a later one
  began, and while it is open it is what its unit keeps (`Served`): so the only answer the unit can give is
  its own, and it finds its own exchange.

### The codecs

`ModbusRtuProofs`, second half: `RequestsArrive` and `AnswersFaithful`, for every value of every field of all
21 functions and every number of lost bytes. The argument has four levels.

* **Fields.** A value stands in a buffer that ends n bytes too early (`Stands`); for each kind a lemma says what
  `Shift` then reads (`NumberTrip`, `CountedTrip`, `StatesTrip`, ... `RecordsTrip`), in one form (`Arrives`): a number
  whole or not at all, counted bytes up to their one-byte count with zeros for what is
  missing, bits up to a whole byte, records as far as whole ones arrived. Bits rest on the quotients of `Packed` by the eight
  weights. Lists of records are where induction is needed: on the number of parts for
  `FlattenSeq` (`JoinsExist`, `FlattenPlaces`) and backwards from the end of the buffer for the scan
  of `ShiftSubs` (`ScanExists`, `RecordsRead`). Both are stated for a set of numbers that has 0 and, with a
  number, the next one (`NatSetInduction`), which the provers can instantiate where they cannot the
  library's principle.
* **Messages.** A message that a constructor accepts (`Made`, `Valid`) comes back as its fields do (`BackIs`); what
  `new` refuses of what came back has a count of which nothing is left (`Overlong`). What came back
  of a whole frame is `Carried` of each field (`Whole`).
* **Classes.** Requests are long enough for the least length their `fromBuffer` demands (`Enough`, `FrameLong`), responses have
  none of the kinds that only requests use, and cut the count only of a field that may be empty (`IsResponse`). `FunctionsAre` shows this class by class, which is where a wrong
  least length or range in one of the forty classes would fail.
* **The exchange.** `Exchanged` (`ExchangeHolds`) is inductive: frames and replies are always the bytes of valid messages,
  and what was read is what `fromBuffer` and `createResponse` make of them. Both properties follow from it: the high bit
  of the first byte tells exceptions from responses because function codes are at most 127 (`IsCode`).

The model was put into a form that can be proved about: bits are packed by a sum, the at most two fields
of a class are written and read one after the other, and the types of values are named.

### The TCP connection

`ModbusTcpProofs`: `FlagsAreTrue`, `TimersEndWithConnection`, `DelayGrows`, `CloseEndsIt`. `ConnectionTypeCorrect` includes
that at most two 'close' events are outstanding, which rests on `FewHandles`: handles in use or not yet reported closed are two
only while an attempt is under way. `TimersEndWithConnection` is about `TimersEndBeforeNextOpens`: from a socket's destruction to its
'close' event its timers are live, and what keeps them off the next connection is that no attempt succeeds
before that event; an attempt under way then may be ended by them (H18). `DelayGrows` adds that the minimum-connect timer belongs to an open
connection (`YoungIsConnected`) and that the attempts counted cover the connections that failed early
(`AttemptsCover`). `CloseEndsIt` shows that without the inactivity timer there is at most one handle, in use or
not yet reported closed, and no reconnect timer beside it (`OneHandle`): so `handleReconnect` never
overwrites a live timer, and after `close()` the last 'close' event finds `shouldReconnect` false.

### Only model-checked

* Liveness is out of the prover's reach: `EveryRequestSettles`, `KeepsPolling`, `KeepsConnecting` and the fairness
  in `ImplementsContract`. For this reason `TransportContract` names its two halves, `Safety` and
  the fairness that `Spec` adds, and the theorems are about the first. `RefinesLifecycle` states no fairness
  and is proved whole.
* `ConcurrencyLimit`, which is false.

Every invariant that a run checks, and every action property, is a theorem.

## 5. Disagreements between code and documentation

`master_limit` shows one with a counterexample: `ConcurrencyLimit`, a cancelled request taken off the
queue was never counted but is un-counted, so that more than `maxConcurrentRequests` go
out (`readme.md:47`). `ConcurrencyBound` states by how much.

The models contain these too, as what the code does:

* `retryOnException` is only stored when it was not given; a list or a boolean has no effect
  (`Master.js:108`, `readme.md:46`).
* Retries used up by one poll are missing in the next (`Transaction.js:342`, `readme.md:49`).
* The inactivity timer reconnects a connection with `autoReconnect` false
  (`TcpConnection.js:401`, `example/verbose-init-tcp-ip.js:36`).
* A tunnelled request keeps the frame of its first attempt, and with it the sequence number of that
  time, although the number was incremented "to show we are ready to move on"
  (`TunnelTransport.js:289`, `:450`).
* `readDiagnostics` passes one argument to a constructor that demands two, and always throws
  (`Master.js:361`).
* `readFifo8` with options in the place of the limit means "to deal with omitted max parameter", and
  passes null, which the constructor refuses (`Master.js:385`, `:387`).
* The values of a command are read from one place too far, so that their first byte is lost
  (`CommandRequest.js:84`).
* The table of request classes names a class for 0x42 that does not exist (`functions/index.js:74`).
* The constructors of objects accept 500 bytes (`WriteObjectRequest.js`, `ReadObjectResponse.js`), where the tests
  (`test/functions/WriteObjectRequest.js:45-57`, `test/functions/ReadObjectResponse.js:16-27`) say 250 and require 251 to throw. Objects of more than
  255 bytes are written with a count of one byte, so that the reader gets the length mod 256: this is
  the exception that `RequestArrives` and `AnswerFaithful` make, and they say what is read instead.
* A truncated answer with a count is filled with zeros rather than refused
  (`ReadHoldingRegistersResponse.js:86`, whose comment at `:75` announces an error); an exception of any function
  is accepted as that of the request (`Request.js:57`), as `test/functions/CommandRequest.js:124` asks for.
* CS1179: an unknown function, a reset that timed out or failed and is sent again, or an answer that `createResponse`
  refuses because a failed request left its function code in the reader, keeps the transport occupied
  (`CS1179Transport.js:112`, `:125`, `:195-197`). The first two complete the transaction and then throw
  (`:138`); the reset because `buildAduCommand` overwrites its request (`:448`), for which reason its
  exchange ends by its timer only as well.
* IP: `destroy()` ends the registered transactions (`IpTransport.js:140-148`); one whose identifier was
  given to a later request is left with its timer and completes afterwards.
* TCP: the timers of a connection are cleared on its 'close' event, not when it is destroyed, so
  that the inactivity timer may end the attempt that follows (`TcpConnection.js:320`).
* socketcand: an unknown function occupies its unit for ever; a request sent again sends only the chunks
  that were not answered, and its answer lacks the others (`SocketcandTransport.js:457`).
* J1939: a completed transaction stays registered, and a second message completes it again.

## 6. What is not modelled

* In `Master`: executing one `Transaction` object twice, calls made from the transport's
  'request' event, listeners that throw (except 'error' without a listener), write payloads. 'done' is emitted by the same
  callback that then runs the queue (`Master.js:890`, `:909`); a listener that calls `destroy()` in between makes
  the callback throw, where `TickComplete` is one step.
* In the transports: the rewriting of a cached IP frame that still waits in the socket, an IP
  header with length 0 (`IpTransport.js:102-106`, which no slave writes), collisions of checksums, one transaction in two open exchanges of one
  transport (`Master` has it, through the 'open' event, with a transport of its own), messages of
  other nodes on the CAN bus, which `onData` of the socketcand transport ignores. `getAdu` or `write` throwing in `RtuTransport.sendRequest` after it has set its transaction (`:172-178`) does not occur,
  since the connection is open. `SocketcandTransport` masks the high bit of an answer's command (`:540`), which the
  units here never set.
* In `TcpConnection`: a reconnect timer that outlives `destroy()` runs and throws on the options that are gone
  (`:218`); it changes nothing, and the model stops it.
* In the codecs: `toString`, getters, the parsing of options given as strings, `fromOptions` of the responses
  (which the library does not call), the defaults of single fields within file records. `Push` writes every byte modulo 256,
  also where the buffer library that writes it might refuse; `Prepare` gives every field a default, although
  `CommandResponse` and `ReadFifo8Response` have none.
* UDP, serial, generic and null connections: they rename the events of the object they wrap and
  keep at most one flag; there is no behaviour over time to check.
* `Register.js` is accessors over a buffer; `index.js` and the factories pick constructors by name; the
  error classes hold a name and a code; examples use the library.

## 7. The plan

Done: `Master`, its transaction and the abstract lifecycle; all seven transports and the contract
they implement; `TcpConnection`; the codecs; proofs of the type invariants and of every safety property the
runs check, with the lifecycle refinement and the safety part of the contract.

What could come next:

1. A composition of the master with one of the transports in place of its built-in one, which the proofs of
   the contract from both sides now allow.
2. A `Transaction` object executed twice, and a listener of the transport's 'request' event that calls
   `execute`: the two hazards that no property covers.
