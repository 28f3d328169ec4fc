------------------------------ MODULE Handler ------------------------------
(***************************************************************************)
(* The life cycle of one TN3270Handler: connect(), close() and the ASCII   *)
(* fallback, run by several asyncio tasks on one event loop, together with *)
(* the SessionManager transport objects the handler creates.               *)
(*                                                                         *)
(* An action is the code a task runs between two points where it really    *)
(* suspends.  _change_state is one such piece: nothing inside it suspends  *)
(* when no state callback is registered.  connect() takes no lock; close() *)
(* takes the "connection" lock.  The recovery task is not here: nothing    *)
(* ever sets _auto_recover, which __init__ makes False.                    *)
(***************************************************************************)
EXTENDS Integers, FiniteSets, HandlerStates

CONSTANTS
  Callers,        \* application tasks that call connect() and close()
  MaxConnects,    \* bound: SessionManager objects created
  MaxCloses,      \* bound: close() calls
  GivenStreams    \* TRUE: the handler is built on an open socket (AsyncSession)

ASSUME HandlerAssumption ==
  /\ MaxConnects \in Nat \ {0}
  /\ MaxCloses \in Nat \ {0}
  /\ GivenStreams \in BOOLEAN

None == 0              \* Python's None, for transports and streams
MockStream == -1       \* the _MockWriter a handler without streams starts with
GivenSocket == MaxConnects + 1    \* the socket AsyncSession.connect opened

Transports == 1..MaxConnects
Sockets == 1..GivenSocket         \* transport t opens socket t

NoCaller == "nobody"
ASSUME NoCallerAssumption == NoCaller \notin Callers

VARIABLES
  state,       \* _current_state
  connected,   \* _connected
  hAscii,      \* TN3270Handler._ascii_mode
  nAscii,      \* Negotiator._ascii_mode
  tn3270e,     \* _negotiated_tn3270e
  transport,   \* _transport
  created,     \* number of SessionManager objects created so far
  tsock,       \* SessionManager.writer of each transport
  hwriter,     \* TN3270Handler.writer
  open,        \* sockets that are open
  pc,          \* where each caller is suspended
  own,         \* the transport whose coroutine a caller is suspended in
  result,      \* how a caller's last connect() or close() ended
  lock,        \* holder of _async_operation_locks["connection"]
  closes       \* close() calls made

vars == <<state, connected, hAscii, nAscii, tn3270e, transport, created,
          tsock, hwriter, open, pc, own, result, lock, closes>>

streams == <<transport, created, tsock, hwriter, open>>
modes == <<hAscii, nAscii, tn3270e>>

Init ==
  /\ state = "DISCONNECTED"
  /\ connected = FALSE
  /\ hAscii = FALSE /\ nAscii = FALSE /\ tn3270e = FALSE
  /\ transport = None
  /\ created = 0
  /\ tsock = [t \in Transports |-> None]
  /\ hwriter = IF GivenStreams THEN GivenSocket ELSE MockStream
  /\ open = IF GivenStreams THEN {GivenSocket} ELSE {}
  /\ pc = [c \in Callers |-> "idle"]
  /\ own = [c \in Callers |-> None]
  /\ result = [c \in Callers |-> "none"]
  /\ lock = NoCaller
  /\ closes = 0

-----------------------------------------------------------------------------
Goto(c, label) == pc' = [pc EXCEPT ![c] = label]

Return(c, how) ==
  /\ Goto(c, "idle")
  /\ result' = [result EXCEPT ![c] = how]
  /\ own' = [own EXCEPT ![c] = None]

\* The except clauses: a legal or a refused ERROR both end in ERROR.
Fail(c) ==
  /\ state' = ChangeState(state, "ERROR", TRUE)
  /\ Return(c, "failed")

-----------------------------------------------------------------------------
(***************************************************************************)
(* connect().  The "already connected" return is for state CONNECTED only. *)
(***************************************************************************)
Connect(c) ==
  /\ pc[c] = "idle"
  /\ state # "CONNECTED"
  /\ state' = ChangeState(state, "CONNECTING", TRUE)
  /\ \/ LET t == IF transport = None THEN created + 1 ELSE transport IN
        /\ Allowed(state, "CONNECTING", TRUE)
        /\ t \in Transports
        /\ transport' = t
        /\ created' = IF transport = None THEN t ELSE created
        /\ own' = [own EXCEPT ![c] = t]
        /\ Goto(c, "setup")
        /\ UNCHANGED <<result, tsock, hwriter, open>>
     \/ /\ ~Allowed(state, "CONNECTING", TRUE)
        /\ Return(c, "failed")
        /\ UNCHANGED streams
  /\ UNCHANGED <<connected, hAscii, nAscii, tn3270e, lock, closes>>

\* SessionManager.setup_connection, in a task of its own: the socket opens.
SocketOpened(c) ==
  /\ pc[c] = "setup"
  /\ tsock' = [tsock EXCEPT ![own[c]] = own[c]]
  /\ open' = open \cup {own[c]}
  /\ Goto(c, "opened")
  /\ UNCHANGED <<state, connected, modes, transport, created, hwriter, own,
                 result, lock, closes>>

\* ... or is refused, or asyncio.wait_for gives up and cancels the task.
SetupFails(c) ==
  /\ pc[c] = "setup"
  /\ Fail(c)
  /\ UNCHANGED <<connected, modes, streams, lock, closes>>

\* connect() resumes and looks at self._transport, which may by now be gone,
\* or be another connect()'s transport.
HasStreams == transport # None /\ tsock[transport] # None

Resume(c) ==
  /\ pc[c] = "opened"
  /\ \/ /\ ~HasStreams
        /\ Fail(c)
        /\ UNCHANGED <<connected, hwriter>>
     \/ /\ HasStreams
        /\ hwriter' = tsock[transport]
        /\ connected' = TRUE
        /\ state' = ChangeState(state, "NEGOTIATING", TRUE)
        /\ IF Allowed(state, "NEGOTIATING", TRUE)
           THEN /\ Goto(c, "telnet")
                /\ own' = [own EXCEPT ![c] = transport]
                /\ UNCHANGED result
           ELSE Return(c, "failed")
  /\ UNCHANGED <<modes, transport, created, tsock, open, lock, closes>>

(***************************************************************************)
(* What a negotiation leaves in the mode flags: fallback sets both ASCII   *)
(* flags (Negotiator.set_ascii_mode), and nothing ever clears them but     *)
(* _reset_negotiation_state, which clears the negotiator's only.           *)
(***************************************************************************)
FallBackToAscii ==
  /\ nAscii' = TRUE /\ hAscii' = TRUE

ResetNegotiation ==
  /\ nAscii' = FALSE
  /\ tn3270e' = FALSE
  /\ UNCHANGED hAscii

\* SessionManager.perform_telnet_negotiation returns; the next statement
\* dereferences self._transport again.
TelnetDone(c) ==
  /\ pc[c] = "telnet"
  /\ \/ /\ transport = None
        /\ Fail(c)
     \/ /\ transport # None
        /\ Goto(c, "tn3270")
        /\ own' = [own EXCEPT ![c] = transport]
        /\ UNCHANGED <<state, result>>
  /\ \/ UNCHANGED modes
     \/ FallBackToAscii /\ UNCHANGED tn3270e
  /\ UNCHANGED <<connected, streams, lock, closes>>

TelnetFails(c) ==
  /\ pc[c] = "telnet"
  /\ Fail(c)
  /\ ResetNegotiation
  /\ UNCHANGED <<connected, streams, lock, closes>>

\* perform_tn3270_negotiation returns and connect() picks the final state:
\* ASCII_MODE needs the handler's own ASCII flag, TN3270_MODE its absence.
FinalMode(ascii) == IF ascii THEN "ASCII_MODE" ELSE "TN3270_MODE"

Tn3270Done(c) ==
  LET final == FinalMode(nAscii')
      consistent == hAscii' = nAscii'
  IN
  /\ pc[c] = "tn3270"
  /\ \/ UNCHANGED <<hAscii, nAscii>>
     \/ FallBackToAscii
  /\ tn3270e' \in BOOLEAN
  /\ state' = ChangeState(state, final, consistent)
  /\ Return(c, IF Allowed(state, final, consistent) THEN "connected"
                                                    ELSE "failed")
  /\ UNCHANGED <<connected, streams, lock, closes>>

\* It raises NegotiationError (after a reset), or TimeoutError at the
\* 200-iteration watchdog of _negotiate_tn3270 (no reset).
Tn3270Fails(c) ==
  /\ pc[c] = "tn3270"
  /\ Fail(c)
  /\ ResetNegotiation \/ UNCHANGED modes
  /\ UNCHANGED <<connected, streams, lock, closes>>

-----------------------------------------------------------------------------
(***************************************************************************)
(* close().                                                                *)
(***************************************************************************)
CloseCall(c) ==
  /\ pc[c] = "idle"
  /\ closes < MaxCloses
  /\ closes' = closes + 1
  /\ Goto(c, "lockwait")
  /\ UNCHANGED <<state, connected, modes, streams, own, result, lock>>

\* Mutant: the lock is not released on return.
FinishHoldingLock(c, from) ==
  /\ connected' = FALSE
  /\ state' = ChangeState(from, "DISCONNECTED", TRUE)
  /\ lock' = c
  /\ Return(c, "closed")

\* The end of close(): DISCONNECTED, or ERROR and a re-raise when that
\* transition is refused.
Finish(c, from) ==
  /\ connected' = FALSE
  /\ state' = ChangeState(from, "DISCONNECTED", TRUE)
  /\ lock' = NoCaller
  /\ Return(c, IF Allowed(from, "DISCONNECTED", TRUE) THEN "closed"
                                                      ELSE "failed")

\* Cancel the background tasks, the reader loops of callers inside
\* _negotiate_tn3270; close() suspends only if one of them is not done.
Reap(c, from) ==
  \/ /\ \E d \in Callers : pc[d] = "tn3270"
     /\ Goto(c, "reap")
     /\ state' = from
     /\ lock' = c
     /\ UNCHANGED <<connected, own, result>>
  \/ Finish(c, from)

\* Mutant: the CLOSING transition is missing.
SuspendInOldState(c, label) ==
  /\ Goto(c, label)
  /\ own' = [own EXCEPT ![c] = transport]
  /\ lock' = c
  /\ UNCHANGED <<state, connected, result>>

\* Mutant: close() does not hold the lock across its suspensions.
SuspendUnlocked(c, label) ==
  /\ Goto(c, label)
  /\ own' = [own EXCEPT ![c] = transport]
  /\ state' = "CLOSING"
  /\ UNCHANGED <<lock, connected, result>>

\* From the lock to the first suspension.  A refused CLOSING is forced, and
\* so every state leads to CLOSING.
Suspend(c, label) ==
  /\ Goto(c, label)
  /\ own' = [own EXCEPT ![c] = transport]
  /\ state' = "CLOSING"
  /\ lock' = c
  /\ UNCHANGED <<connected, result>>

CloseStart(c) ==
  /\ pc[c] = "lockwait"
  /\ lock = NoCaller
  /\ \/ /\ HasStreams
        /\ open' = open \ {tsock[transport]}
        /\ Suspend(c, "teardown")
        /\ UNCHANGED <<transport, hwriter>>
     \/ /\ transport # None /\ ~HasStreams
        /\ transport' = None
        /\ Reap(c, "CLOSING")
        /\ UNCHANGED <<hwriter, open>>
     \/ /\ transport = None /\ hwriter \in Sockets
        /\ open' = open \ {hwriter}
        /\ Suspend(c, "wait_closed")
        /\ UNCHANGED <<transport, hwriter>>
     \/ /\ transport = None /\ hwriter \notin Sockets
        /\ hwriter' = None
        /\ Reap(c, "CLOSING")
        /\ UNCHANGED <<transport, open>>
  /\ UNCHANGED <<modes, created, tsock, closes>>

\* teardown_connection returns; self._transport is dropped.
CloseTornDown(c) ==
  /\ pc[c] = "teardown"
  /\ tsock' = [tsock EXCEPT ![own[c]] = None]
  /\ transport' = None
  /\ Reap(c, state)
  /\ UNCHANGED <<modes, created, hwriter, open, closes>>

CloseWriterClosed(c) ==
  /\ pc[c] = "wait_closed"
  /\ hwriter' = None
  /\ Reap(c, state)
  /\ UNCHANGED <<modes, transport, created, tsock, open, closes>>

\* writer.wait_closed() raises: close() records ERROR and re-raises.
CloseWriterFails(c) ==
  /\ pc[c] = "wait_closed"
  /\ Fail(c)
  /\ lock' = NoCaller
  /\ UNCHANGED <<connected, modes, streams, closes>>

CloseFinish(c) ==
  /\ pc[c] = "reap"
  /\ Finish(c, state)
  /\ UNCHANGED <<modes, streams, closes>>

-----------------------------------------------------------------------------
\* AsyncSession.connect after a failed handler.connect(), fallback allowed:
\* TN3270Handler.set_ascii_mode, which leaves the handler state alone.
SetAsciiMode(c) ==
  /\ pc[c] = "idle"
  /\ result[c] = "failed"
  /\ FallBackToAscii
  /\ UNCHANGED <<state, connected, tn3270e, streams, pc, own, result, lock,
                 closes>>

\* receive_data sees VT100 sequences in host data and is not in TN3270E.  A
\* stream has one reader at a time: no negotiation is reading.
DetectAscii ==
  /\ hwriter \in open
  /\ \A c \in Callers : pc[c] \notin {"telnet", "tn3270"}
  /\ ~tn3270e
  /\ nAscii' = TRUE /\ hAscii' = TRUE
  /\ UNCHANGED <<state, connected, tn3270e, streams, pc, own,
                 result, lock, closes>>

-----------------------------------------------------------------------------
ConnectStep(c) == SocketOpened(c) \/ SetupFails(c) \/ Resume(c)
                  \/ TelnetDone(c) \/ TelnetFails(c)
                  \/ Tn3270Done(c) \/ Tn3270Fails(c)

CloseStep(c) == CloseStart(c) \/ CloseTornDown(c) \/ CloseWriterClosed(c)
                \/ CloseWriterFails(c) \/ CloseFinish(c)

Next == \/ \E c \in Callers : Connect(c) \/ CloseCall(c) \/ SetAsciiMode(c)
        \/ \E c \in Callers : ConnectStep(c)
        \/ \E c \in Callers : CloseStep(c)
        \/ DetectAscii

\* Every suspended coroutine is resumed: its I/O ends, fails or times out,
\* and asyncio.Lock wakes its waiters.
Fairness == /\ \A c \in Callers : WF_vars(ConnectStep(c))
            /\ \A c \in Callers : WF_vars(CloseStep(c))

Spec == Init /\ [][Next]_vars
FairSpec == Spec /\ Fairness
-----------------------------------------------------------------------------
(***************************************************************************)
(* Properties.                                                             *)
(***************************************************************************)
Labels == {"idle", "setup", "opened", "telnet", "tn3270", "lockwait",
           "teardown", "wait_closed", "reap"}

\* The handler's fields keep their types whatever connect(), close() and the
\* ASCII fallback do in whatever order.
TypeOK ==
  /\ state \in HandlerState
  /\ connected \in BOOLEAN
  /\ hAscii \in BOOLEAN /\ nAscii \in BOOLEAN /\ tn3270e \in BOOLEAN
  /\ transport \in Transports \cup {None}
  /\ created \in 0..MaxConnects
  /\ tsock \in [Transports -> Sockets \cup {None}]
  /\ hwriter \in Sockets \cup {None, MockStream}
  /\ open \subseteq Sockets
  /\ pc \in [Callers -> Labels]
  /\ own \in [Callers -> Transports \cup {None}]
  /\ result \in [Callers -> {"none", "connected", "closed", "failed"}]
  /\ lock \in Callers \cup {NoCaller}
  /\ closes \in 0..MaxCloses

Operational == {"NEGOTIATING", "ASCII_MODE", "TN3270_MODE"}

\* While the handler says it is negotiating or in a session, it is connected,
\* it writes to its transport's socket and that socket is open: no close()
\* and no stale connect() of another task takes it away unseen.
OperationalHasSocket ==
  state \in Operational =>
    /\ connected
    /\ transport # None
    /\ tsock[transport] \in open
    /\ hwriter = tsock[transport]

Closing(c) == pc[c] \in {"teardown", "wait_closed", "reap"}

\* Two close() calls never overlap, and no connect() revives the handler
\* between the two suspensions of a close().
ClosingIsExclusive ==
  \A c \in Callers : Closing(c) => lock = c /\ state \in {"CLOSING", "ERROR"}

\* CONNECTING and NEGOTIATING always have a connect() call under way that
\* will move the handler on: no failure path leaves one of them behind.
AttemptHasDriver ==
  /\ state = "CONNECTING" =>
       \E c \in Callers : pc[c] \in {"setup", "opened"} /\ own[c] = transport
  /\ state = "NEGOTIATING" =>
       \E c \in Callers : pc[c] \in {"telnet", "tn3270"}

\* In ASCII_MODE both the handler and its negotiator are in ASCII mode, also
\* when another task's failing connect() resets the negotiator.
AsciiModeFlags == state = "ASCII_MODE" => hAscii /\ nAscii

\* A disconnected handler holds no transport, so the next connect() opens a
\* new one instead of reusing one that close() tore down.
DisconnectedHasNoTransport == state = "DISCONNECTED" => transport = None

\* A handler in ERROR leaves it through close() only: connect() calls still
\* in flight when another one failed cannot bring the session back.
ErrorNeedsClose ==
  [][state = "ERROR" => state' \in {"ERROR", "CLOSING", "DISCONNECTED"}]_vars

\* The handler as its session sees it: five phases, and whether the current
\* transport has an open socket.
Link ==
  CASE state = "DISCONNECTED" -> "down"
    [] state \in {"CONNECTING", "NEGOTIATING"} -> "attempt"
    [] state \in {"ERROR", "RECOVERING"} -> "failed"
    [] state = "CLOSING" -> "closing"
    [] OTHER -> "live"

Up == transport # None /\ tsock[transport] \in open

Promise == INSTANCE HandlerPromise WITH link <- Link, up <- Up

\* The handler implements its promise: interleaved connect() and close()
\* calls of several tasks look to the session like one sequence of attempts,
\* a session becomes live only from an attempt with an open socket, and every
\* attempt and every close() comes to an end.
KeepsPromise == Promise!FairSpec

\* Every connect() and every close() returns.
EveryCallReturns == \A c \in Callers : pc[c] # "idle" ~> pc[c] = "idle"

=============================================================================
