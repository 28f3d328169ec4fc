---------------------------- MODULE ReplayServer ----------------------------
(***************************************************************************)
(* The server that replays recorded traces to clients under test           *)
(* (tools/trace_replay_server.py): how a trace is cut into events, one     *)
(* task per connection that sends the host's events and counts the         *)
(* client's, and the shutdown that cancels the tasks.                      *)
(***************************************************************************)
EXTENDS Integers, Sequences, FiniteSets

CONSTANTS
  Conns,        \* client connections
  Traces,       \* traces, as sequences of the kinds of their lines
  MaxMessages   \* bound: messages of each client

LineKinds == {"read", "host", "option", "client", "other"}

ASSUME TracesAssumption ==
  Traces \subseteq Seq(LineKinds) /\ MaxMessages \in Nat

VARIABLES
  trace,       \* recv_events: "option" for Telnet negotiation, else "data"
  toClient,    \* number of send_events
  compat,      \* compat_handshake
  looping,     \* loop_mode
  server,      \* serving, stopping or closed
  conn,        \* [connection -> its task]
  active       \* active_connections

replayVars == <<trace, toClient, compat, looping, server, conn, active>>

-----------------------------------------------------------------------------
\* from_trace_line(): what a line of the file says, if anything.
LineEvent(kind) ==
  CASE kind = "host" -> [dir |-> "recv", what |-> "data"]
    [] kind = "option" -> [dir |-> "recv", what |-> "option"]
    [] kind = "client" -> [dir |-> "send", what |-> "data"]
    [] OTHER -> [dir |-> "none", what |-> "data"]

\* The events read so far: the host's, the number of the client's, and whether
\* a "Host socket read complete" joins lines and has begun to.
NoEvents == [recv |-> <<>>, send |-> 0, joins |-> FALSE, open |-> FALSE]

\* One line.  The host's lines behind a read are one event; events are data
\* unless most of their bytes are Telnet commands.
LoadLine(acc, kind) ==
  LET e == LineEvent(kind) IN
  IF kind = "read" THEN [acc EXCEPT !.joins = TRUE, !.open = FALSE]
  ELSE IF e.dir = "none" THEN [acc EXCEPT !.joins = FALSE, !.open = FALSE]
  ELSE IF e.dir = "send"
    THEN [acc EXCEPT !.send = @ + 1, !.joins = FALSE, !.open = FALSE]
  ELSE IF acc.open
    THEN [acc EXCEPT !.recv[Len(acc.recv)] = IF e.what = "data" THEN "data" ELSE @]
    ELSE [acc EXCEPT !.recv = Append(@, e.what), !.open = acc.joins]

\* _load_trace(), which keeps the two directions apart.
LoadTrace(lines) ==
  LET after[i \in 0..Len(lines)] ==
        IF i = 0 THEN NoEvents ELSE LoadLine(after[i - 1], lines[i])
  IN after[Len(lines)]

NoConnection ==
  [pc |-> "none", sent |-> 0, matched |-> 0, ready |-> FALSE, said |-> 0, why |-> "none"]

ReplayInit ==
  /\ \E lines \in Traces :
       /\ trace = LoadTrace(lines).recv
       /\ toClient = LoadTrace(lines).send
  /\ compat \in BOOLEAN /\ looping \in BOOLEAN
  /\ server = "serving"
  /\ conn = [c \in Conns |-> NoConnection]
  /\ active = 0

Goes(c, pc) == conn' = [conn EXCEPT ![c].pc = pc]

-----------------------------------------------------------------------------
\* handle_connection() up to its loop.  The limit on connections only warns.
Accept(c) ==
  /\ server = "serving" /\ conn[c].pc = "none"
  /\ active' = active + 1
  /\ Goes(c, IF compat THEN "handshake" ELSE "loop")
  /\ UNCHANGED <<trace, toClient, compat, looping, server>>

\* _send_compat_handshake(): offers and requests, sent and not waited for.
SendHandshake(c) ==
  /\ conn[c].pc = "handshake"
  /\ Goes(c, "loop")
  /\ UNCHANGED <<trace, toClient, compat, looping, server, active>>

\* In compat mode nothing is sent before the client's answers are in, and
\* nothing is read either: the task yields and looks again.
AwaitsAnswers(c) ==
  compat /\ ~conn[c].ready /\ \A d \in Conns : ~conn[d].ready

Yield(c) ==
  /\ conn[c].pc = "loop" /\ AwaitsAnswers(c)
  /\ UNCHANGED replayVars

\* _should_skip_trace_event(): behind the handshake the trace's own negotiation
\* is left out.  The events that are sent when n of them are dealt with.
SentNext(n) ==
  LET Left == {i \in (n + 1)..Len(trace) : ~(compat /\ trace[i] = "option")}
  IN IF Left = {} THEN Len(trace) ELSE CHOOSE i \in Left : \A j \in Left : i <= j

\* Mutant: the event is counted before and after it is written.
SendEventTwice(c) ==
  /\ conn[c].pc = "loop" /\ ~AwaitsAnswers(c)
  /\ conn[c].sent < Len(trace)
  /\ conn' = [conn EXCEPT ![c].sent = @ + 2, ![c].pc = "read"]
  /\ UNCHANGED <<trace, toClient, compat, looping, server, active>>

\* The next of the host's events, or none is left, and then a short read.
SendEvent(c) ==
  /\ conn[c].pc = "loop" /\ ~AwaitsAnswers(c)
  /\ conn' = [conn EXCEPT ![c].sent = SentNext(@), ![c].pc = "read"]
  /\ UNCHANGED <<trace, toClient, compat, looping, server, active>>

\* _handle_compat_negotiation(): both answers in one read end the handshake.
HandleCompat(c, answers) == conn[c].ready \/ (compat /\ answers)

\* The client said something: it is compared with the trace and counted.
ClientData(c, answers) ==
  LET ready == HandleCompat(c, answers) IN
  /\ conn[c].pc = "read" /\ conn[c].said < MaxMessages
  /\ conn' = [conn EXCEPT ![c].pc = "loop", ![c].said = @ + 1, ![c].ready = ready,
                          ![c].matched = IF @ < toClient /\ compat = conn[c].ready
                                         THEN @ + 1 ELSE @]
  /\ UNCHANGED <<trace, toClient, compat, looping, server, active>>

\* Nothing for 50 ms: at the end of the trace it starts again or is over, in
\* compat mode only once this client's own answers are in.
ReadTimeout(c) ==
  /\ conn[c].pc = "read"
  /\ conn' =
       IF conn[c].sent < Len(trace) \/ (compat /\ ~conn[c].ready) THEN [conn EXCEPT ![c].pc = "loop"]
       ELSE IF looping
         THEN [conn EXCEPT ![c].pc = "loop", ![c].sent = 0, ![c].matched = 0]
         ELSE [conn EXCEPT ![c].pc = "finally", ![c].why = "played"]
  /\ UNCHANGED <<trace, toClient, compat, looping, server, active>>

\* End of file, or the write failed.
ClientGone(c) ==
  /\ conn[c].pc \in {"handshake", "loop", "read"}
  /\ conn[c].pc # "handshake" => ~AwaitsAnswers(c)
  /\ conn' = [conn EXCEPT ![c].pc = "finally", ![c].why = "gone"]
  /\ UNCHANGED <<trace, toClient, compat, looping, server, active>>

\* The finally clause, which a cancelled task runs too.
Finally(c) ==
  /\ conn[c].pc = "finally"
  /\ active' = active - 1
  /\ Goes(c, "closed")
  /\ UNCHANGED <<trace, toClient, compat, looping, server>>

\* start_server() is cancelled or interrupted: it cancels the tasks ...
ServerStops ==
  /\ server = "serving"
  /\ server' = "stopping"
  /\ conn' = [c \in Conns |->
                IF conn[c].pc \in {"handshake", "loop", "read"}
                THEN [conn[c] EXCEPT !.pc = "finally", !.why = "cancelled"] ELSE conn[c]]
  /\ UNCHANGED <<trace, toClient, compat, looping, active>>

\* ... gives them half a second and closes the socket.
StopEnds ==
  /\ server = "stopping"
  /\ server' = "closed"
  /\ UNCHANGED <<trace, toClient, compat, looping, conn, active>>

ReplayStep(c) == SendEvent(c) \/ ReadTimeout(c) \/ Finally(c)

ReplayNext ==
  \/ \E c \in Conns : Accept(c) \/ SendHandshake(c) \/ Yield(c) \/ ReplayStep(c) \/ ClientGone(c)
  \/ \E c \in Conns, answers \in BOOLEAN : ClientData(c, answers)
  \/ ServerStops \/ StopEnds

ReplaySpec == ReplayInit /\ [][ReplayNext]_replayVars

-----------------------------------------------------------------------------
(***************************************************************************)
(* active_connections counts the tasks that have not left their finally    *)
(* clause, however they end, and a connection that ends because its trace  *)
(* is over was sent every event of it once                                 *)
(* (trace_replay_server.py:257, 322-345, 393-411, 445-485).                *)
(***************************************************************************)
TracesArePlayed ==
  /\ active = Cardinality({c \in Conns : conn[c].pc \in {"handshake", "loop", "read", "finally"}})
  /\ \A c \in Conns : conn[c].why = "played" => conn[c].sent = Len(trace)
  /\ \A c \in Conns : conn[c].sent <= Len(trace)
=============================================================================
