# Verification of pure3270

pure3270 is a TN3270/TN3270E terminal emulator library in Python (asyncio). This
directory holds TLA+ models of it, the TLC runs that check them on small
instances, and TLAPS proofs that hold for every instance. Line numbers refer to
the repository's files; `handler`, `negotiator` and so on without a path are in
`pure3270/` or `pure3270/protocol/`.

## 1. Inventory

| Component | State | Operations | What is hard | What makes it correct |
|---|---|---|---|---|
| `TN3270Handler` (`tn3270_handler.py`), `SessionManager` | state, connected flag, transport, reader and writer, mode flags, locks | `connect`, `close`, `_change_state`, callbacks, `set_ascii_mode` | `connect` suspends at every I/O and takes no lock; `close` runs in between | the state describes the sockets; a session sees one sequence of attempts; every call returns |
| `Negotiator` (`negotiator.py`) | option flags, events, mode flags, LU selection, SNA state, pending requests | Telnet commands, subnegotiations, retries, SNA responses | messages in any order, refusals, timeouts, overlapping recoveries | negotiations end; flags, mode and what was told to the host agree |
| Telnet stream and data path (`tn3270_handler.py`) | buffer of an unfinished command, stashed payload, suspended mode | scanning, reader loop, `receive_data` | commands cut by reads; two readers after another | the result does not depend on the cuts |
| TN3270E header, sequence numbers | last sent and received, window, history | write, read, validate, resynchronise | wraparound, zero headers, malformed headers | what is accepted is what was written |
| Addressing modes (`addressing_negotiation.py`, `extended_*`) | mode, state, capabilities, extended buffer | negotiate, BIND, change of mode | a conversion that fails half-way | state, mode and screen agree |
| `DataStreamParser`, `DataStreamSender` (`data_stream.py`) | record position, WCC, snapshot for rollback | every order, rollback, bulk mode, structured fields | truncated records | an aborted write is undone; the parser ends |
| `ScreenBuffer`, fields, attributes, snapshots (`emulation/`) | cells, attribute bytes, field list, extended attributes | host writes, keys, navigation | the field list is a copy of the format | the copy follows the format; a snapshot restores values and fields |
| `AsyncSession`, `Session`, p3270 client (`session.py`, `p3270_client.py`) | handler, background reader, worker loop and thread | connect, reconnect, close, send, read, waits | self._handler changes across awaits; blocking calls into a loop that may stop | one handler at a time, nothing left behind, calls return |
| IND$FILE, LU-LU (`ind_file.py`, `lu_lu_session.py`) | active transfer, completion event; queue of records | send, receive, host messages; BIND, UNBIND | host messages between two awaits; overlapping calls | what calls share is given back; no record crosses sessions |
| Printing (`printer*.py`, `print_job_*`, `data_flow_controller.py`, `tcpip_printer_*`, `emulation/printer_buffer.py`) | jobs, buffer lines, breaker, status, flows, pool | SCS data, EOJ, error handling, routing, borrow and return | locks held across awaits, thresholds, partial failure | nothing lost, nothing left open, the breaker recovers |
| VT100 parser | cursor, saved cursor, cells | text and control sequences | parameters at the edges | the cursor stays on the screen |
| Test bench (`tools/`, `mock_server/`, `trace/`) | connections, processes, scripts, records, scenarios | replay, failover, scripted host, stress | tasks cancelled between awaits | what is started comes to an end |

How they interact: `AsyncSession.connect` opens a socket, builds a
`TN3270Handler` on it and calls `handler.connect()`, which creates a
`SessionManager`, lets it open the socket it will use, and has it drive first the
Telnet, then the TN3270E negotiation. The `Negotiator` writes the same mode flags
the handler reads. During negotiation a background reader loop feeds host bytes
through `_process_telnet_stream` to the negotiator, whose events wake the
coroutine in `_negotiate_tn3270`; payload is stashed for `receive_data`. After
that `AsyncSession.read` and a background reader take bytes from the handler and
give them to `DataStreamParser`, which writes the `ScreenBuffer` and passes
structured fields, SCS data, SNA responses and file transfer messages on. The
blocking `Session` runs an `AsyncSession` on a loop in a thread of its own; the
p3270 facade owns a `Session`. Printing over TCP/IP is separate: the data flow
controller opens printer sessions through a manager that borrows from the pool.

## 2. Modules and plan

| Step | Modules | Run | State |
|---|---|---|---|
| 1 | `HandlerStates`, `Handler`; `HandlerProofs` | `handler` | done |
| 2 | `SequenceNumbers`; proved about in `ExchangesProofs` | `codecs` | done |
| 3 | `Negotiation`; `NegotiationProofs` | `negotiation` | done |
| 4 | `ConnectionPool`; `ConnectionPoolProofs` | `pool` | done |
| 5 | `HandlerPromise`, what a handler promises; that `Handler` keeps it is in `HandlerProofs` | `handler` | done |
| 6 | `Session` on top of `HandlerPromise`; `SessionProofs` | `session` | done |
| 7 | `SyncSession`, `P3270Client`; `ClientProofs` | `client` | done |
| 8 | `ScreenBuffer`, `DataStream`, `Screen`; `ScreenProofs` | `screen` | done |
| 9 | `TelnetStream`, `TelnetOptions`, `SnaSession`, `Addressing`, `StateChanges`; `SnaSession` and `Addressing` proved about in `NegotiationProofs`, `TelnetStream` in `ScreenProofs` | `protocol` | done |
| 10 | `FileTransfer`, `LuLuSession`, `Exchanges`; `ExchangesProofs` | `exchanges` | done |
| 11 | `PrintJobs`, `PrinterBuffer`, `PrinterErrors`, `PrinterRecovery`, `PrintRouting`; `PrintingProofs` | `printing` | done |
| 12 | `Vt100`, `Header`, `Attributes`, `StructuredFields`; proved about in `ExchangesProofs` | `codecs` | done |
| 13 | `ReplayServer`, `Coordinator`, `MockServer`, `Replayer`, `StressTests`; `StressTests` proved about in `ClientProofs`, `ReplayServer` and `Replayer` in `ScreenProofs` | `bench` | done |
| 14 | the proof about what the printer's buffer computes over sequences, in `PrintingProofs` | `printing` | done |

Composition: `Handler` INSTANCEs `HandlerPromise` under the mapping of nine
handler states to five phases, and `Session` INSTANCEs it once per handler, so
that the two models meet in one abstract specification. `Screen` is parser,
buffer and user together; `Exchanges` is file transfer and LU-LU session over one
connection; `P3270Client` extends `SyncSession`. `MCProtocol`, `MCPrinting`,
`MCCodecs` and `MCTestBench` put parts that do not interact side by side: a
behaviour exercises one of them, so that the states add up and do not multiply.

An action is what the code runs between two points where it really suspends
(asyncio interrupts it nowhere else); in the threaded parts it is a piece that
reads or writes the shared fields once. No module under proof uses a RECURSIVE
operator.

A part that a run has beside others has a specification of its own (`SnaSpec`,
`AddressingSpec`, `RoutingSpec`, `JobsSpec`, `BufferSpec`, `ErrorsSpec`,
`RecoverySpec`, `SeqSpec`, `Vt100Spec`, `AttributesSpec`, `HeaderSpec`,
`FieldsSpec`, `StressSpec`, `StreamSpec`, `ReplaySpec`, `ReplayerSpec`), which is
its initial condition and its actions on its own variables: its theorems are about
that, and do not depend on what stands beside it. `PrintingProofs` carries them over
to the composition (`NothingLost`, `PartsStaySafe`).

An invariant that a run checks is proved the same way everywhere: an inductive
invariant (`Inv`, or `ScreenInv`, `SessionInv` and so on where modules meet), one
lemma per action or group of actions that it keeps it, and a theorem per property.
Loops of the code are recursive functions. What they keep is proved by induction
over sets: a set of naturals has a least member (`Least`, from `WFMin`), so a set
that contains 0 and with each number the next contains an interval (`UpTo`), so a
function can be iterated along it (`Iteration`), which is what makes a recursive
function equal to its definition. These lemmas are in `ScreenProofs`, which therefore
also has the proofs about the scanner of `TelnetStream` and the loops over the lines
of a trace; `PrintingProofs`, which cannot extend it, states them once more for the
codes of a printer's record.

## 3. The handler: `HandlerStates`, `Handler`, `HandlerPromise`

`HandlerStates` is the transition table and `_change_state`: a refused transition
raises and leaves ERROR behind. `Handler` gives each application task a program
counter whose labels are the suspensions of `connect()` and `close()`.

| State | Code |
|---|---|
| `state`, `connected`, `hAscii`, `tn3270e`, `transport`, `hwriter` | the handler's `_current_state`, `_connected`, `_ascii_mode`, `_negotiated_tn3270e`, `_transport`, `writer` |
| `nAscii` | the negotiator's `_ascii_mode` |
| `tsock` | `SessionManager.writer` of each transport |
| `open`, `created`, `closes` | sockets the operating system holds open; counters for the bounds |
| `pc`, `own`, `result`, `lock` | the callers' coroutines and the "connection" lock |

| Actions | Code |
|---|---|
| `Connect`, `SocketOpened`, `SetupFails`, `Resume` | `connect()` up to NEGOTIATING, `setup_connection` |
| `TelnetDone/Fails`, `Tn3270Done/Fails` | the negotiations as far as they change flags, and the final state |
| `CloseCall`, `CloseStart`, `CloseTornDown`, `CloseWriterClosed/Fails`, `CloseFinish` | `close()`, `teardown_connection` |
| `SetAsciiMode`, `DetectAscii` | the fallback of `AsyncSession.connect`, `receive_data` |

Abstractions: a negotiation ends with any of the flag values the negotiator can
leave; addresses, TLS and data are left out. The recovery task is left out here
because `_auto_recover` is False and nothing in the package sets it;
`StateChanges` has it, with callbacks (section 8).

`HandlerPromise` is what a session may rely on: an attempt starts only on a
handler that is down, a session becomes live only from an attempt whose socket is
open, a failure leaves "failed", only `close()` leaves that, and attempts and
closes end.

Run `handler`: two callers, three transports, two closes. Two callers are enough
to have a stale `connect()` on the old transport while the other task closes and
connects anew; three transports let that happen twice. Checked:
`OperationalHasSocket`, `ClosingIsExclusive`, `EveryCallReturns`, and
`KeepsPromise`, the refinement with its liveness. Fairness: weak, for every
suspended call, which is what asyncio gives: I/O completes, fails or times out
(`wait_for`, the 200-iteration watchdog), and a released lock wakes its waiters.
None is assumed for making calls. Deadlock is not checked: once the bounded calls
are used up the system may stop.

Proved (`HandlerProofs`) for any set of callers and any bounds: `TypeOK`,
`OperationalHasSocket`, `ClosingIsExclusive`, `AttemptHasDriver`,
`AsciiModeFlags`, `DisconnectedHasNoTransport`, and that no step but that of
`close()` leaves ERROR. `OperationalHasSocket` alone is not inductive: a
`connect()` that resumes may adopt a transport another task created, so one must
know that a transport's socket is its own (`TransportSockets`), that the socket
found in CONNECTING is open (`ConnectingSocketOpen`), that a `close()` past its
teardown has dropped the transport (`TornDown`) and that CONNECTED is never
entered (`UsedStates`).

Proved as well: `Spec => Promise!Spec`. The hard steps are a socket
that opens late and the end of a `close()` in the middle of which another task
failed: neither may change whether the session's transport is up behind the
session's back. `LinkInv` adds that one task at most opens a transport's socket
(`SetupIsFresh`), that `close()` tears down the current transport, already closed
(`TeardownIsDown`), and that in CLOSING a transport is left only while it is torn
down (`ClosingTearsDown`). Each action is then shown to be a step of the promise
or a stutter (`NextSeen`). The fairness half of `KeepsPromise` is model-checked.

Assumptions are those of `Handler`: positive bounds, and the lock's "nobody" is
not a caller.

## 4. Negotiation: `Negotiation`

Two tasks share the `Negotiator`: the driver (the handler's coroutine in
`_negotiate_tn3270` and the negotiator's waits) and the background reader loop.
The host is the environment: it sends any message at any time, falls silent or
closes.

| State | Code |
|---|---|
| `n` | the negotiator's flags and its three events |
| `cfg` | `force_mode`, `allow_fallback`, `negotiation_mode` |
| `trace` | what `infer_tn3270e_from_trace` would find |
| `pc`, `tries`, `failures` | where the driver waits, its retries, `consecutive_failures` |
| `reader`, `reads`, `left` | the reader task, its iterations, messages left of the last read |
| `eof`, `conns` | the host has closed; connections made with this handler |
| `heard`, `outcome` | history for the properties |

| Actions | Code |
|---|---|
| `TelnetRefused`, `TelnetMessage`, `TelnetNothing` | the first read of `perform_telnet_negotiation` |
| `StartForced`, `StartTn3270e`, `Announced`, `StartWaiting` | the forced modes and the start of `_negotiate_tn3270` |
| `EventReceived`, `CompleteReceived`, `TimedOut`, `BackoffOver`, `Watchdog` | waiting for the events, retries, the overall timeout |
| `Decide`, `Fail`, `GraceMessage`, `GraceOver` | the mode decided at the end, reads after a fallback |
| `ReaderMessage`, `ReaderIdle`, `ReaderEof`, `ReaderBreaks`, `ReaderCancelled` | the reader loop and its cancellation |
| `HostCloses`, `Reconnect` | the host; a new connection with the same handler |

What a message does is a function on the negotiator's fields (`Handled`), one case
per handler in `negotiator.py`. Abstractions: the handler's and the negotiator's
negotiated flags are one, since each is assigned from the other before either is
read; device and function values are left out; iterations that time out do not
count towards the reader's 500.

Run `negotiation`: 10 configurations (every forced mode with and without fallback
in strict mode, and flexible mode with none forced), 2 reads of up to 2 messages
for the 500 iterations, 1 read for the 30 after a fallback, 1 retry for 3, 2
consecutive failures for 3 and 2 connections. That gives every pair of messages in
one chunk and across chunks, a reader that runs out of iterations while the driver
waits, and a second connection that shows what the first left behind. Checked:
`FallbackNeverFails`, `OneReader`, `NegotiationEnds`, and
`BlindWaitOnlyAfterRequest`: on a fresh strict handler the driver waits for an event
without a reader that could bring it only if the host sent a bare REQUEST.
Fairness is weak fairness of the driver, of the first read, of the reads after a
fallback and of the reader's cancellation: each of these waits has a timeout. The
host has none.

Proved for all configurations and bounds: these safety properties, and that forced
TN3270E never goes ahead after WONT. The inductive invariant adds that with
fallback no hard failure is recorded (`NoHardFailure`), that the reader is off
before the wait and after the decision (`QuietReader`), that in strict mode a
complete negotiation has both events unless a bare REQUEST was heard
(`CompleteHasEvents`, `OverIsComplete`), that the reads after a fallback happen in
ASCII mode only (`GraceIsAscii`), and that a WONT has set a flag nothing clears
before the decision (`RefusalRemembered`). Two lemmas about `Handled` cover the
message handlers: which fields no message takes back (`HandledKeeps`) and when the
events go together (`HandledFull`).

## 5. Sessions: `Session`, `SyncSession`, `P3270Client`

`Session` is `AsyncSession`: `handler` is `self._handler`, read again after every
await, `link` and `up` are the promises of the handlers made so far, `rd` the
background reader each `connect()` leaves behind, and each task's record says at
which await of which method it is. `Dial`-like steps of a handler are taken by the
session's calls, its failures and the ends of its attempts by the handler itself
(`HandlerStep`), as `HandlerPromise` allows. A `connect()` on a session that was
not closed drops the old handler; the model remembers those (`dropped`).

Run `session`: one task connects, reconnects and closes (three handlers, three
calls), a second sends, reads and waits. `NoOrphans`: nothing of a connection that
was given up is left. `DrivesHandlersAsPromised`: every handler is driven by steps
of `HandlerPromise` only. `EveryCallReturns` under weak fairness of calls, handlers
and readers (each await has a timeout or is an awaited step of the handler, which
`KeepsPromise` shows to end). With two controllers `NoOrphans` fails: `close()`
clears `self._handler` whichever handler that is by then.

`SyncSession` is the blocking API: a worker thread with a loop per object, calls
that hand a coroutine to the loop and wait in `Future.result()` without a timeout,
and the finalizer. `P3270Client` adds the facade's own idea of being connected.
Run `client` has one thread, as the facade is used, and four sessions one after
another: `OneLoopPerSession` and `CallsAndWorkersEnd`. Fairness: a thread that can
go on does, an unreferenced session is collected (CPython counts references), and
a stopped loop ends. With two threads `OneLoopPerSession` fails
(session.py:273-277 tests and creates without a lock).

Proved (`SessionProofs`) for any tasks, handlers and numbers of calls and polls:
`SessionTypeOK`; `DrivesHandlersAsPromised`, which needs that handlers not made yet
are untouched (`OnlyMade`) and that one which a `close()` awaits is neither dialling
nor open (`ClosingIsQuiet`); and `NoOrphans` for an application with one
controlling task. That is a hypothesis of the theorem, not an assumption of the
module, since with two the property is false. Its invariant says what the
controlling task has left in `self._handler` at each await: only it is inside
`connect()`, `close()` or `reconnect()` (`OneControls`), `reconnect()` connects with
the handler unset (`ReconnectsUnset`), `close()` awaits the current one
(`ClosesCurrent`), and a finalized object leaves at most a `close()` behind
(`GoneIsClosing`).

Proved (`ClientProofs`) for any number of sessions, loops and calls: the types of
`P3270Client`, for any threads, and `OneLoopPerSession` for one thread, again as a
hypothesis. Between the test and the assignment in `_ensure_worker_loop` the
thread has to know that the session has no loop alive (`StartsWhenNone`).

## 6. The screen: `ScreenBuffer`, `DataStream`, `Screen`

`ScreenBuffer` is operators on a record: characters, attribute bytes, extended
attributes, field starts and the field list detected from them. `DataStream` is
`parse()`: a record is its length and the bytes are chosen as the parser reads
them, so every truncation of every order happens; the three ways an incomplete
order ends (raise, roll back and stop, skip a byte) and bulk mode, in which field
detection is suspended, are there. The handler has a position of its own, which is
not moved over null bytes (data_stream.py:1536-1538), so it lags behind the parser's
by the nulls since the last other byte (`rec.nulls`). When the last order of a record
has no operand, the parser is set behind the lagging position (1607-1615) and reads
those nulls and the order again (`rec.again`). `Screen` adds the session's keys between
records: typing, Tab, BackTab, erase, insert, delete, Enter, light pen.

Run `screen`: a screen of two by two, records of 0, 1, 4 and 5 bytes, eight bytes
in all, one key. Four cells allow fields that wrap, are empty or adjoin; five bytes
hold a write command, a WCC and a whole or a cut order, and are above the limit of
bulk mode. Checked: `FieldListAgrees`, `RollbackRestoresScreen`,
`TabReachesEveryInput`, and `ParserTerminates` under weak fairness of the parser,
which never suspends. It terminates although it goes back, since every time one byte
fewer is ahead of it; without the byte that 1607-1615 adds it would not.

Proved (`ScreenProofs`) for every size of the screen, all limits on records and any
sequence of orders, aborted writes and keys: `ScreenTypeOK`, `FieldListAgrees`,
`RollbackRestoresScreen` and `TabReachesEveryInput`. `ScreenInv` has, besides types
and agreement, that the snapshot taken at a write command shows the screen as it was
before the record (`SnapshotIsBefore`, `FirstIsBefore`); that the parser goes back
touches neither (`GoesBack`); extended attributes are compared as far as the
rollback keeps them (section 12). RA, EUA, SFE and NVT data write in loops, so the
lemmas say what one iteration keeps and the induction of section 2 what the loop
does. For Tab the measure is the distance ahead to the wanted field, around the
screen (`Ahead`): a Tab that does not arrive comes closer (`TabComesCloser`), and
the finitely many distances give the arrival.

## 7. IND$FILE and LU-LU: `FileTransfer`, `LuLuSession`, `Exchanges`

`FileTransfer`'s calls share `active_transfer` and `_transfer_complete_event`; the
host's DATA, EOF and ERROR come at any time. `LuLuSession` takes a session for
active without an answer, queues records and drains the queue in `end()`. Run
`exchanges`: two transfers of one block, three host messages, two users of the
LU-LU session, a connection that may break. `TransferIsOwned`: the active transfer,
its file and its event always belong to a call that will give them back.
`NoRecordOutlivesItsSession`, and `TransfersEnd` under weak fairness of the calls
(the wait has a timeout of 30 s). `exchanges_host_error` exhibits the disagreement
of section 12.

Proved (`ExchangesProofs`) for any number of transfers, blocks, host messages, users
and records: the types, `TransferIsOwned` and `NoRecordOutlivesItsSession`. The first
needs that an event is set only for a `receive()` that waits or has ended
(`FiredHaveWaited`), or a new transfer could find its event set already.

## 8. The rest of the protocol layer: `MCProtocol`

- `TelnetStream`: `_process_telnet_stream` with its buffer, the reader loop's
  stash, `receive_data`, ASCII and 3270 handling, AO and the suspended mode. A byte
  is named by its meaning, a header has two bytes. `CutsDoNotMatter` compares the
  commands handled, the data and the unfinished command with one scan of everything
  that was read. The run has seven streams with every form of command, escaped
  IACs and headers, cut anywhere.
- `TelnetOptions`: the negotiator keeps no state per option and answers every
  command, also an answer. With a host that keeps RFC 854 the exchange settles.
- `SnaSession`: one task per SNA response, recoveries that sleep or negotiate, and
  the table of pending requests. `PendingIsOwned`: PENDING_RECOVERY always has a
  task that will set the state again, unless the three sleeps of an LU busy are
  used up.
- `Addressing`: the negotiators of handler and `Negotiator`, changes of mode with
  conversions that fail, the extended cursor. `AddressingAgrees`: a screen is
  addressable in the mode in use and the state names that mode.
- `StateChanges`: `_change_state` under the non-reentrant lock with suspending
  callbacks, events and recovery tasks.

Proved (`NegotiationProofs`): `PendingIsOwned` for any tasks and retries, by what a
step does to the state and to its own task (`SnaEffect`); and `AddressingAgrees`
for any screen sizes and limits of the modes, where the invariant is the type with
the property itself. `ScreenSizes` assumes what the code's tables of models have,
rows and columns that are positive.

Proved (`ScreenProofs`): `CutsDoNotMatter`, for every stream of the bytes of the
model and every way to cut it (`StreamsAssumption`). A scan is a run of the loop from
`ScanStart` that gets stuck, at the end or at an unfinished command, after at most as
many steps as there are bytes (`ScanIsRun`, `RunGetsStuck`); two runs over the same
data that are stuck agree (`RunsAgree`). A byte or command is the same wherever it
stands, once it is complete (`SameItem`), and what is unfinished at the end of the
data is unfinished behind anything (`SameRest`), so a run over the earlier reads and
one over their rest with the next read make one over both: `ScanInPieces`, which is
the property for one read. The invariant `StreamInv` adds that the stash is replayed
at most once, and only after the negotiation; without an IAC and with an empty buffer
a second scan finds no command and leaves nothing (`PlainScan`).

`ProtocolSettles` says that options settle, recoveries end and changes of state
get through the lock. Fairness: messages in flight are received (TCP), tasks go on,
a callback ends. A callback that itself changes the state would wait for the lock
its caller holds; it is not registered in the model.

## 9. Printing: `MCPrinting`, `ConnectionPool`

- `PrintJobs`: jobs of a printer session under a thread that delivers records and
  one that controls the session, and the extractor with its detector. Records are
  processed under the session's lock, but `start_new_job()` takes none
  (printer.py:236-253), so both threads go through ending, storing, cutting the list
  and making a job step by step (`step`, `subject`). If they meet, a job can be
  overwritten or stored twice; the history `raced` tells, until `close()` puts it
  right. `JobsAreAccountedFor` holds the list to its limit in any case, and demands
  order and completeness whenever they did not meet.
- `PrinterBuffer`: the three ways SCS data becomes lines, with the bytes kept of
  the last record. A record is a sequence of codes, one for each kind of byte that
  the rules tell apart: screen orders, bytes that cannot be shown, the two halves of
  a word of a trace (`T`, `R`) and of a marker fragment (`U`, `S`), a digit and `H`,
  which together are taken for a header and stripped. The rules see the bytes kept
  together with the record, so that two records complete what neither holds.
  `LastRecordIsPrinted` compares the buffer with a printer that leaves nothing out
  (`Plain`, `Own`): whatever was kept, a record ends the current line (in bulk), or
  its own lines end the buffer, the last of them with the marker `pka` once more if
  that was looked for and not found. Text is left out (`lost`) only if a record so
  far had a code that the rules react to (`Tells`). Not asked for are lines that
  `max_lines` cuts off, and records after one that ends in an SOH whose status would
  be the next record's first byte.
- `PrinterErrors`: `handle_error` with the plan of the error's category under the
  recovery lock; the status reporter with its two tasks. `NothingIsLost` joins jobs
  and status.
- `PrinterRecovery`: the circuit breaker. A call may be cancelled at every await;
  since `call()` catches Exception only (printer_error_recovery.py:158-165), one in
  flight then records no outcome and its probe stays counted (`unrecorded`).
  `HalfOpenCanClose`: if the configuration admits as many probes as it wants
  successes, which nothing enforces, then the recorded successes, the calls in
  flight, those still admitted and those cancelled make the threshold: only
  cancelled calls can keep a half-open breaker from closing.
- `PrintRouting`: flows and the manager's printer sessions; `NothingIsLeftOpen`.

Bounds of `printing`: two failures, two routers and two main sessions (sharing a
flow); three jobs of which two are kept, so that a job is cut, overwritten and
stored twice, and two records; a breaker with both thresholds and the probes at two,
an operation and two guests: one outcome more than probes, so that late outcomes of
earlier calls meet a half-open breaker. The printer's buffer keeps three lines and
the tail of a record four codes (32 bytes in the code), of three records, so that
both are cut and a marker, a word and a header are split between two records.
Fairness for error handlers and routers is strong: they wait for an asyncio lock,
which is first come, first served. `PrintingEnds` says that errors are handled and
routing and `stop()` end.

Proved (`PrintingProofs`) for any finite sets of operations and guests and any
configuration: `RecoveryTypeOK` and `HalfOpenCanClose`. The invariant adds that
every probe is in flight, a recorded success or cancelled (`ProbesAccountedFor`) and
that successes are counted from zero (`CountStartsAtZero`); three lemmas do the
counting of calls in flight. For any routers, sessions and flows
`NothingIsLeftOpen`, which must say who closes what: a flow a task that sends or has
failed, or `stop()` (`FlowsHaveClosers`); a session whose flow is gone the task that
popped the flow (`SessionsHaveClosers`). `NothingIsLost` for any number of jobs and
any size of the histories. Its first half is in `JobsInv`: the list's limit holds
however the threads meet (`WithinLimit`); while they have not met (`Orderly`), one
of them at most is among the steps (`OneAtATime`), the completed jobs are a run of
consecutive ones up to the newest that is not open (`OpenIsNewest`,
`CompletedInOrder`, `CompletedHaveEnded`), and what a thread has found out about the
current job still holds at its next step (`Knows`). Each entry of the status history
names the status before it (`ReporterInv`), which survives that the history is cut
at its limit.

`LastRecordIsPrinted` is proved for any records, any `max_lines` and any length of
the tail. As long as nothing is left out, a code does the same to the lines of the
writer, its run of text included, as to those of the plain printer (`OutOfCode`). If
the lines of one printer end with those of another (`LinesEnd`), they still do after
the same code (`StepKeepsEnd`). The writer behind the kept bytes and a plain printer
that starts with the record therefore stay together along it (`RecordFollows`,
induction by the least counterexample), once they agree on whether a status is
awaited: the invariant `BufferInv` says that the bytes kept of clean records never
end with SOH (`NoStatusAwaited`). Trimming to `max_lines` keeps an ending that is not
longer (`TrimmedEnds`), and the tail of a record ends as it does (`TailEnds`). That
text is left out only for a reason is a second induction along the codes: without
tells in the kept bytes or the record no rule applies at any of them (`QuietRun`,
`WriteQuiet`).

`ConnectionPool` is the pool. All operations take one asyncio lock; an operation is
several actions because it suspends in `connect()` and `close()` inside it, and
meanwhile callers use, lose or close the sessions they hold.

| State | Code |
|---|---|
| `running`, `active`, `idle`, `all` | `_running`, the three collections; the lists as numbers of entries per session |
| `state`, `socks` | the printer sessions' state and open connections |
| `held` | which caller uses which session |
| `bg` | the health check and cleanup tasks |
| `op`, `by`, `target`, `closing` | the operation inside the lock, its caller, its sessions and the `close()` calls it waits for |
| `cancels` | borrows and returns cancelled so far |

`Reuse`, `Discard`, `Create`, `ConnectDone`, `ConnectFails` and `Discarded` are
`borrow_connection`, `Return` and `Dropped` `return_connection` and
`_destroy_connection`, `Sweep` and `Swept` the background tasks, `Start`, `Stop`,
`StopTasksEnded` and `Stopped` the life cycle, `CallCancelled` a timeout of the
caller, `PeerLost` a printer that goes away. A refusal at a limit changes nothing
and is no action. Which idle session is reused is left open; an expired session is
any idle one; callers return a session once.

Run `pool`: two callers, three sessions of one host, limit 2, one cancelled call:
one session more than the limit, so that a pool that creates too many is seen.
`ExclusiveUse`, `StopClosesAll`, `LockIsReleased` (`stop()` awaits tasks that wait
for the lock it holds, and does not hang because it cancels them); deadlock is
checked. Fairness: the operation inside the lock goes on, and a cancelled task
ends. `StopClosesAll` is stated for executions without a cancelled call: a borrow
cancelled in `connect()` leaves a connection nothing tracks, since CancelledError
is no Exception.

Proved for any finite set of sessions, any hosts, callers and limits: the type
invariant, `ExclusiveUse`, `StopClosesAll`, and that the lent sessions and those of
a host stay within their limits. The invariant says that a session is listed at
most once (`Listed`), that what a caller holds is its own and active unless
`stop()` took it (`Holding`), what the operation inside the lock knows (`Section`),
that a borrow on its way to `connect()` still has the room it found (`Limits`,
`Tracked`) and where an open connection can be (`Sockets`). `EntriesAreLent` shows
that list lengths count sessions; `LentGrows` and `LentShrinks` count once for all
actions.

## 10. What is read and written: `MCCodecs`

- `Vt100`: a new parser per read; one step is a character or a sequence.
  `CursorOnScreen`.
- `Header`: five-byte headers over a byte of `Radix` values (256 in the code), the
  extended-addressing bits, the recovery of malformed headers.
- `StructuredFields`: what the sender and the reply builders write, the tolerant
  parser, the records by data type, the validator. `AcceptedIsWritten` joins headers,
  fields, addresses and BIND images: what a reader accepts is what was written, or
  begins with it, and the validator accepts the BIND fields that can be cut into
  subfields. That everything written is read back cannot be promised: not
  twelve-bit addresses from 64 on, the head of the field behind one whose length
  counts something else, nor two kinds of headers (section 12).
- `Attributes`: values as each class validates them, raw values, base attributes,
  the field list they give, snapshots. `RestoredAsTaken`: a snapshot fails only on a
  screen that was given a value no class takes, and a restored screen has every
  value as an object of its class and what the snapshot records of each field. The
  limits of a validation attribute, the flags bypass, hidden and light_pen and the
  field starts are lost in the code and in the model.
- `SequenceNumbers`: `ValidationIsCircular`: the three overlapping tests of
  `_validate_sequence_number` accept exactly the circular window around the
  expected number, whether or not the caller reduced it. Proved for every modulus,
  window and history length by the case analysis of `Distance` (`DistanceForm`,
  `ValidateReduced`, `ValidateUnreduced`) from the type invariant.

Proved besides (`ExchangesProofs`): `CursorOnScreen` for every screen and all
parameters; `RestoredAsTaken` for any positions, base attributes and inputs, since
an object holds only values its own class accepts as an integer, which is what
setting it again gives it (`AttributesInv`, `SnapshotHolds`; `InputsAreValues` says
that an input is a name, an integer or neither); and `AcceptedIsWritten`
(`AcceptedWritten`), part by part: `HeadersReadBack`, which says exactly which
headers are read back, for every even number above four of values of a byte and
every limit of the log (`RadixIsEven`, `LogIsLimited`); `LongAddressesAreReadBack`;
and `FieldsRead`, the fields. A field that is taken off the wire has as much data as
its length says (`FieldTaken`) and the builders write a length, a type and their own
data (`BuildersWrite`), so `FieldsInv` follows a built field and the one behind it
until both are read; for which builders the length is exact is `ExactCount`.
`BindSubfieldsTile` compares a recursion with a set of cuts: `TilingStep` adds one
subfield to a tiling or takes it off, and `SubfieldsTile` is the induction, on the
least number of bytes left for which the two disagree.

Bounds: a screen of two by three with parameters 0, 1, 2 and 5; bytes of eight
values; bodies of up to six bytes, enough for two subfields with their lengths; six
sequence numbers with a history of three, so that both wrap and overflow.

## 11. The test bench: `MCTestBench`

`ReplayServer` replays traces to several clients, `Coordinator` keeps a cluster of
such servers with monitors and failover and runs distributed tests, `MockServer` is
the scripted host in its thread, `Replayer` puts the lines of a trace together to
records (a record goes on across blank lines), `StressTests` interrupts connections
and takes resources. Run `bench`: two connections, two servers with two processes, a
test of three connections, files of up to three lines, three scenarios on two links.
`TracesArePlayed`, `RecordsAreWhole`, `OneScenarioPerLink`, and `BenchEnds` under
weak fairness of the monitors, the failover loop, the tests and the mock server's
tasks and threads.

Proved (`ClientProofs`): `OneScenarioPerLink` for any connections, tests and bounds.
Tasks are numbered in the order in which they start (`StressInv`), so a connection
that is not listed has no scenario that is still active.

Proved (`ScreenProofs`): `RecordsAreWhole`, for files of any lines. After each line
the records and the one being collected are the lines read so far, in order and cut
by the rule for two data lines with nothing but blank lines between them
(`ParsedUpTo`; `BlankLineParsed`, `OtherLineParsed`, `NextLineParsed`), and playing
takes records off the front. And `TracesArePlayed`, for any traces, connections and
shutdowns: `ReplayInv` adds to the count of tasks that they are finitely many and
that a task that ended because its trace is over never sends again.

## 12. Where the code disagrees with its documents

`exchanges_host_error` exhibits one: the host answers a download with ERROR, the
file is removed and `receive()` returns normally (ind_file.py:268), while
docs/source/protocol.rst:87 says that all errors can be caught as `IndFileError`.

Met while modelling; the models have the behaviour of the code:

- Handler. Streams given to the constructor are never closed
  (tn3270_handler.py:1930). A second `connect()` on a live session ends in ERROR
  (1917, comment 1916). The recovery after RECOVERING tests for ERROR, so that no
  strategy runs. A state callback that changes the state deadlocks.
  `wait_for_state` ignores its timeout.
- Negotiation. Both the ASCII and the TN3270E flag can be set (negotiator.py:1226,
  1785); DONT TN3270E counts as agreement (2248, comment 2232), silence too
  (tn3270_handler.py:2088); a FUNCTIONS IS with three functions is read as a header
  (tn3270_handler.py:2649); FUNCTIONS SEND is answered twice; after three
  consecutive failures `negotiate()` is refused for ever; a failed negotiation
  resets the LU name but not the LU selection.
- Stream. Payload stashed during negotiation is parsed a second time by
  `receive_data` (comment tn3270_handler.py:381-383); a record is whatever one read
  returned, since IAC EOR is dropped; trailing 0x19 data bytes are stripped.
- SNA. A late recovery overwrites SESSION_DOWN with NORMAL; a busy LU leaves
  PENDING_RECOVERY for ever; the table of allowed transitions is never used.
- Addressing. The two owners treat a failed conversion differently; the BIND flag is
  written to another byte than it is read from; FAILED is unreachable.
- Screen. After an order without operands the parser may go back and read bytes
  again (data_stream.py:1607-1615; the log at 1592-1600 says that it skips one). The
  WCC's reset of the MDT has no effect (data_stream.py:1892); repeat to
  address does not wrap; keys work while the keyboard is locked; Enter sends a
  field's content as it was before BackSpace, Delete or EraseEOF; typing in a field
  that spans rows marks another field (screen_buffer.py:697, comment 691); a
  rollback loses extended attributes of a position with a raw one; erase all
  unprotected in bulk mode erases protected fields.
- What is read and written. The length of a structured field is that of type and
  data for the parser (data_stream.py:3048); three builders write one or two more
  (3165, 3183, 4420), and the parser takes the head of the next field for their
  data; builders write type 0x93 where the parser knows 0x81. `build_sba()` says
  that it writes two halves of six bits (4352) and writes a high and a low byte
  (4381-4382), which read back differently from address 64 on. A header of five zero
  bytes, that of a first record, and one with the extended-addressing bit in the
  response flag are written but not read. A snapshot loses limits of validation
  attributes, field starts and the flags bypass, hidden and light_pen
  (snapshot.py:43-58, 121-153), fails on raw values, and turns every position with
  an extended attribute into a field.
- Sessions. `connect()` with fallback sets `_connected` although the handler is in
  ERROR; a blocking call waits for ever if another thread closes the session; the
  facade's `MoveCursor` does not move the session's cursor
  (p3270_client.py:311-318); `read` parses data twice (session.py:1624).
- Printing. `start_new_job()` takes no lock and overwrites a job that a record
  starts meanwhile (printer.py:251). A circuit breaker whose probes are cancelled, or
  whose `success_threshold` exceeds `half_open_max_calls`, stays half-open and rejects
  every call. The pool's idle connections come on top of `max_connections`
  (tcpip_connection_pool.py:249); a connection returned twice is listed twice (318);
  `create_printer_session` drops the connection it borrowed; a rejected operation
  re-arms the breaker's timer (printer_error_recovery.py:435, 57); the printer
  buffer puts up to 32 bytes of a record in front of the next
  (printer_buffer.py:226-240), so that the two together may be suppressed as
  screen content although neither is; `classify_error` never yields DATA.
- Test bench. A record of a trace goes on across a blank line (replayer.py:416-417),
  although the comment at 420-425 counts blank lines among the hard breaks. A
  handshake in compatibility mode can go on for ever
  (trace_replay_server.py:312-319); failover starts a second process beside the
  first, and a stopped server on its list is started again; a distributed test that
  finds no healthy server leaves the servers running
  (multi_server_coordinator.py:466); a finished scenario stays listed; the processor
  stress test never ends (network_stress_testing.py:464).

## 13. What is only model-checked, and what is not modelled

Only model-checked:

- every liveness property and the fairness half of `KeepsPromise`: liveness under
  fairness is out of the prover's reach;
- the coordinator and the mock server, whose only property is `BenchEnds`, and
  `TelnetOptions` and `StateChanges`, whose only one is `ProtocolSettles`: liveness
  both.

Not modelled: the values negotiated (device types, functions); the recovery
strategies of the handler (no path reaches them); `update_from_stream`
(screen_buffer.py:722) and the functions nested in `_handle_scs_data`
(data_stream.py:3739-4178), which nothing calls; the test-double branches
(session.py:1388-1435, tn3270_handler.py:2214-2260); macros, scripts and resource
files; text extraction and rendering; statistics, timing profiles, logging and the
trace recorder; the EBCDIC tables, constants and exception classes; TLS options;
MCP servers, CI scripts, tests and examples. They keep no state the properties are
about, cannot run, or are not part of the library.
