---------------------------- MODULE Negotiation ----------------------------
(***************************************************************************)
(* The TN3270E negotiation of one handler: the Negotiator, the handler's   *)
(* coroutine that drives it, the background reader loop that feeds it, and *)
(* a host that sends its messages in any order, falls silent or closes.    *)
(*                                                                         *)
(* The driver and the reader are two asyncio tasks.  The driver waits for  *)
(* events with timeouts; the reader handles one message per step, since    *)
(* every answer awaits a drain.  A read returns a chunk of messages; only  *)
(* between chunks does the reader look at the completion event.            *)
(***************************************************************************)
EXTENDS Integers, FiniteSets

CONSTANTS
  Configs,     \* [force, fallback, mode] records the handler may be built with
  MaxReads,    \* the reader loop's max_iterations (500 in the code)
  MaxGrace,    \* reads after a fallback to ASCII (30 in the code)
  MaxChunk,    \* bound: messages in what one read returns
  MaxRetries,  \* retries of a failed negotiation (3 in the code)
  MaxFailures, \* max_consecutive_failures (3 in the code)
  MaxConns     \* bound: connections made with one handler

ForceModes == {"none", "ascii", "tn3270", "tn3270e"}

ASSUME NegotiationAssumption ==
  /\ Configs \subseteq [force : ForceModes, fallback : BOOLEAN,
                        mode : {"strict", "flexible"}]
  /\ MaxReads \in Nat \ {0}
  /\ MaxGrace \in Nat \ {0}
  /\ MaxChunk \in Nat \ {0}
  /\ MaxRetries \in Nat
  /\ MaxFailures \in Nat \ {0}
  /\ MaxConns \in Nat \ {0}

(***************************************************************************)
(* What the host can send.  A FUNCTIONS IS that lists three functions is a *)
(* case of its own: its payload is five bytes long.                        *)
(***************************************************************************)
Offers == {"WILL_TN3270E", "DO_TN3270E"}
Refusals == {"WONT_TN3270E", "DONT_TN3270E"}
Subnegotiations ==
  {"SEND_DEVICE", "DEVICE_IS", "DEVICE_REJECT", "RAW_IS", "SEND_FUNCTIONS",
   "FUNCTIONS_IS", "FUNCTIONS_IS_3", "FUNCTIONS_REQUEST_IS",
   "FUNCTIONS_SEND", "REQUEST"}
Messages == Offers \cup Refusals \cup Subnegotiations
              \cup {"WILL_EOR", "WONT_LOCATION", "DATA"}

\* What the properties tell apart of the messages heard.
Named == {"WONT_TN3270E", "DONT_TN3270E", "FUNCTIONS_IS_3", "REQUEST"}
Kind(m) ==
  CASE m \in Named -> m
    [] m \in (Offers \cup Subnegotiations) \ Named -> "tn3270e"
    [] OTHER -> "other"
Kinds == Named \cup {"tn3270e", "other"}

Signs == {"tn3270e", "location_refused"}

Negotiators ==
  [negotiated : BOOLEAN,   \* negotiated_tn3270e; the handler's copy is equal
   supports : BOOLEAN,     \* _server_supports_tn3270e
   ascii : BOOLEAN,        \* _ascii_mode
   device : BOOLEAN,       \* _device_type_is_event
   functions : BOOLEAN,    \* _functions_is_event
   complete : BOOLEAN,     \* _negotiation_complete
   forcedFailure : BOOLEAN,    \* _forced_failure
   forcedCompletion : BOOLEAN] \* _forced_completion

VARIABLES
  cfg,       \* the handler's parameters
  n,         \* the Negotiator's fields
  trace,     \* what infer_tn3270e_from_trace finds in _negotiation_trace
  failures,  \* consecutive_failures
  pc,        \* where the driver is
  tries,     \* retries done by _retry_with_backoff
  reader,    \* the reader task: off, running, over or ended by an exception
  reads,     \* iterations of the reader loop, or of the reads after it
  left,      \* messages of the current chunk not yet handled
  eof,       \* the host has closed this connection
  conns,     \* connections made
  heard,     \* history: kinds of messages handled on this connection
  outcome    \* history: how the driver's wait ended

vars == <<cfg, n, trace, failures, pc, tries, reader, reads, left, eof,
          conns, heard, outcome>>

Waiting == {"device", "either", "functions", "complete"}
Ended == {"done", "failed"}
Labels == Waiting \cup Ended \cup
            {"telnet", "start", "announce", "backoff", "joinOk",
             "joinFailed", "grace"}
Readers == {"off", "running", "over", "broken"}

Outcomes == {"none", "agreed", "timeout", "error", "watchdog"}

Initial ==
  [negotiated |-> FALSE, supports |-> FALSE, ascii |-> FALSE,
   device |-> FALSE, functions |-> FALSE, complete |-> FALSE,
   forcedFailure |-> FALSE, forcedCompletion |-> FALSE]

Init ==
  /\ cfg \in Configs
  /\ n = Initial
  /\ trace = {}
  /\ failures = 0
  /\ pc = "telnet"
  /\ tries = 0
  /\ reader = "off"
  /\ reads = 0
  /\ left = 0
  /\ eof = FALSE
  /\ conns = 1
  /\ heard = {}
  /\ outcome = "none"

-----------------------------------------------------------------------------
(***************************************************************************)
(* The Negotiator's signals, as functions from its fields to its fields.   *)
(***************************************************************************)
Finalized(c, s) ==
  LET enough == IF c.mode = "strict" THEN s.device /\ s.functions
                                     ELSE s.device \/ s.functions
  IN IF ~enough THEN s
     ELSE [s EXCEPT !.complete = TRUE,
                    !.negotiated = s.negotiated \/ s.supports]

SignalDevice(c, s) == Finalized(c, [s EXCEPT !.device = TRUE])

SignalFunctions(c, s) == Finalized(c, [s EXCEPT !.functions = TRUE])

SignalComplete(s, success) ==
  [s EXCEPT !.negotiated = success,
            !.supports = success \/ s.supports,
            !.complete = TRUE]

SignalAll(c, s, success) ==
  SignalComplete(SignalFunctions(c, SignalDevice(c, s)), success)

AllEventsSet(s) ==
  [s EXCEPT !.device = TRUE, !.functions = TRUE, !.complete = TRUE]

Negotiated(s) == [s EXCEPT !.negotiated = TRUE]

Cleaned(s) ==
  SignalComplete([Initial EXCEPT !.forcedCompletion = s.forcedCompletion],
                 FALSE)

(***************************************************************************)
(* The handlers of the host's messages.  drained is FALSE when the answer  *)
(* could not be written: the exception skips the rest of the handler.      *)
(***************************************************************************)
\* Mutant: every WONT that does not lead to ASCII is a hard failure.
HandleWontHard(c, s) ==
  IF c.fallback /\ c.force \notin {"tn3270", "tn3270e"}
    THEN SignalAll(c, [s EXCEPT !.ascii = TRUE, !.supports = FALSE], FALSE)
    ELSE SignalAll(c, [s EXCEPT !.forcedFailure = TRUE], TRUE)

HandleWont(c, s) ==
  LET r == [s EXCEPT !.supports = FALSE] IN
  IF c.fallback /\ c.force \notin {"tn3270", "tn3270e"}
    THEN SignalAll(c, [r EXCEPT !.ascii = TRUE, !.negotiated = FALSE], FALSE)
  ELSE IF ~c.fallback /\ c.force = "tn3270e"
    THEN SignalAll(c, [r EXCEPT !.forcedFailure = TRUE], TRUE)
  ELSE r

HandleDont(c, s) == SignalAll(c, [s EXCEPT !.negotiated = FALSE], TRUE)

SendDeviceTypes(c, s, drained) == IF drained THEN SignalDevice(c, s) ELSE s

\* Mutant: the answer to SEND FUNCTIONS completes a negotiation without a device.
SendFunctionsIsAlone(s, drained) ==
  IF ~drained THEN s
  ELSE [s EXCEPT !.functions = TRUE, !.negotiated = TRUE,
                 !.supports = TRUE, !.complete = TRUE]

SendFunctionsIs(s, drained) ==
  IF ~drained THEN s
  ELSE IF s.device
    THEN [s EXCEPT !.functions = TRUE, !.negotiated = TRUE,
                   !.supports = TRUE, !.complete = TRUE]
    ELSE [s EXCEPT !.functions = TRUE]

AnswerFunctions(c, s, drained) ==
  LET r == SendFunctionsIs(SignalFunctions(c, s), drained)
  IN IF drained THEN Negotiated(r) ELSE r

ParseSubnegotiation(c, s, m, drained) ==
  CASE m = "SEND_DEVICE" -> SendDeviceTypes(c, s, drained)
    [] m \in {"DEVICE_IS", "DEVICE_REJECT", "RAW_IS"} -> SignalDevice(c, s)
    [] m = "SEND_FUNCTIONS" -> SendFunctionsIs(s, drained)
    [] m = "FUNCTIONS_IS" -> SignalFunctions(c, s)
    [] m = "FUNCTIONS_IS_3" -> s    \* taken for a TN3270E header
    [] m = "FUNCTIONS_REQUEST_IS" -> AnswerFunctions(c, s, drained)
    [] m = "FUNCTIONS_SEND" ->
         IF drained THEN SignalFunctions(c, AnswerFunctions(c, s, TRUE))
                    ELSE AnswerFunctions(c, s, FALSE)
    [] m = "REQUEST" -> SignalComplete(s, TRUE)

Handled(c, s, m, drained) ==
  CASE m \in Offers -> [s EXCEPT !.supports = TRUE]
    [] m = "WONT_TN3270E" -> HandleWont(c, s)
    [] m = "DONT_TN3270E" -> HandleDont(c, s)
    [] m \in Subnegotiations -> ParseSubnegotiation(c, s, m, drained)
    [] OTHER -> s

\* After a chunk the reader loop tests its limit: there it completes the
\* negotiation by force.
LoopTest(s) ==
  IF left' = 0 /\ reads' >= MaxReads
    THEN SignalAll(cfg, [s EXCEPT !.forcedCompletion = TRUE], TRUE)
    ELSE s

\* handle_iac_command or handle_subnegotiation handles m, the next message of
\* the chunk at hand or the first of a new one, in the reader loop or not.
HandleNext(m, looping) ==
  /\ ~eof
  /\ left' \in IF left = 0 THEN 0..(MaxChunk - 1) ELSE {left - 1}
  /\ \E drained \in BOOLEAN :
       n' = IF looping THEN LoopTest(Handled(cfg, n, m, drained))
                       ELSE Handled(cfg, n, m, drained)
  /\ heard' = heard \cup {Kind(m)}

\* infer_tn3270e_from_trace: its refusal patterns hold option 0x24, which is
\* TERMINAL-LOCATION and not TN3270E.
Infer == "tn3270e" \in trace /\ "location_refused" \notin trace

Traced(m) ==
  trace \cup (IF m \in Offers \cup Subnegotiations \cup {"WILL_EOR"}
                THEN {"tn3270e"} ELSE {})
        \cup (IF m = "WONT_LOCATION" THEN {"location_refused"} ELSE {})

-----------------------------------------------------------------------------
(***************************************************************************)
(* connect() after the socket is open: one read on its own, whose bytes    *)
(* are not traced, and then the TN3270E negotiation.                       *)
(***************************************************************************)
host == <<eof, heard>>
reading == <<reader, reads, left>>
connection == <<cfg, conns>>

\* negotiator.negotiate() refuses after too many consecutive failures.
TelnetRefused ==
  /\ pc = "telnet"
  /\ failures >= MaxFailures
  /\ pc' = "failed"
  /\ UNCHANGED <<connection, failures, n, trace, tries, outcome, reading, host>>

TelnetMessage(m) ==
  /\ pc = "telnet"
  /\ failures < MaxFailures
  /\ HandleNext(m, FALSE)
  /\ failures' = 0
  /\ pc' = IF left' = 0 THEN "start" ELSE "telnet"
  /\ UNCHANGED <<connection, trace, tries, outcome, reader, reads, eof>>

TelnetNothing ==
  /\ pc = "telnet"
  /\ failures < MaxFailures
  /\ left = 0
  /\ failures' = 0
  /\ pc' = "start"
  /\ UNCHANGED <<connection, n, trace, tries, outcome, reading, host>>

FirstWait == IF cfg.mode = "strict" THEN "device" ELSE "either"

\* The reader task is created; a loop that finds the negotiation complete
\* ends before its first read.
ReaderStarts(s) ==
  /\ reader' = IF s.complete THEN "over" ELSE "running"
  /\ reads' = 0
  /\ left' = 0

(***************************************************************************)
(* _negotiate_tn3270 of handler and negotiator: the forced modes decide at *)
(* once; forced TN3270E first sends its device types.                      *)
(***************************************************************************)
StartForced ==
  /\ pc = "start"
  /\ cfg.force \in {"ascii", "tn3270"}
  /\ n' = [AllEventsSet(n) EXCEPT !.negotiated = FALSE,
                                  !.ascii = n.ascii \/ cfg.force = "ascii"]
  /\ ReaderStarts(n')
  /\ pc' = "joinOk"
  /\ UNCHANGED <<connection, failures, trace, tries, outcome, host>>

StartTn3270e ==
  /\ pc = "start"
  /\ cfg.force = "tn3270e"
  /\ ReaderStarts(n)
  /\ pc' = IF n.forcedFailure \/ (~cfg.fallback /\ ~n.supports)
             THEN "joinFailed" ELSE "announce"
  /\ UNCHANGED <<connection, failures, n, trace, tries, outcome, host>>

Announced ==
  /\ pc = "announce"
  /\ n' = [AllEventsSet(n) EXCEPT !.negotiated = TRUE, !.supports = TRUE]
  /\ pc' = "joinOk"
  /\ UNCHANGED <<connection, failures, trace, tries, outcome, reading, host>>

\* A refusal that came before the driver ran (lines 1879-1884) would not be waited
\* for, but is recorded only where TN3270E is forced, which ends above.
StartWaiting ==
  /\ pc = "start"
  /\ cfg.force = "none"
  /\ ReaderStarts(n)
  /\ tries' = 0
  /\ pc' = FirstWait
  /\ UNCHANGED <<connection, failures, n, trace, outcome, host>>

-----------------------------------------------------------------------------
(***************************************************************************)
(* The negotiator's waits.                                                 *)
(***************************************************************************)
Awaited ==
  CASE pc = "device" -> n.device
    [] pc = "either" -> n.device \/ n.functions
    [] pc = "functions" -> n.functions
    [] pc = "complete" -> n.complete

EventReceived ==
  /\ pc \in Waiting \ {"complete"}
  /\ Awaited
  /\ pc' = IF pc = "functions" THEN "complete" ELSE "functions"
  /\ UNCHANGED <<connection, failures, n, trace, tries, outcome, reading, host>>

\* The operation succeeded.  The handler withdraws the negotiated flag if
\* the negotiator is in ASCII mode, and waits for the reader to end.
Succeed(s, how) ==
  /\ n' = [s EXCEPT !.negotiated = s.negotiated /\ ~s.ascii]
  /\ failures' = 0
  /\ pc' = "joinOk"
  /\ outcome' = how
  /\ UNCHANGED tries

\* _retry_with_backoff: NegotiationError is retryable.
RetryOrFail ==
  /\ failures' = failures + 1
  /\ \/ /\ tries < MaxRetries
        /\ tries' = tries + 1
        /\ pc' = "backoff"
        /\ UNCHANGED <<n, outcome>>
     \/ /\ tries = MaxRetries
        /\ n' = Cleaned(n)
        /\ pc' = "joinFailed"
        /\ outcome' = "error"
        /\ UNCHANGED tries

(***************************************************************************)
(* All events are there.  handler.set_negotiated_tn3270e(True) sets the    *)
(* flag again even after a forced completion, so the checks that follow    *)
(* change it in ASCII mode only, and the final                             *)
(* _signal_negotiation_complete() sets it once more.                       *)
(***************************************************************************)
Judged(s) ==
  SignalComplete([s EXCEPT !.negotiated = ~s.ascii,
                           !.supports = s.supports \/ ~s.forcedCompletion],
                 TRUE)

CompleteReceived ==
  /\ pc = "complete"
  /\ n.complete
  /\ IF n.forcedFailure THEN RetryOrFail ELSE Succeed(Judged(n), "agreed")
  /\ UNCHANGED <<connection, trace, reading, host>>

\* Mutant: the wait for the functions event has no timeout.
TimedOutElsewhere ==
  /\ pc \in Waiting \ {"functions"}
  /\ ~Awaited
  /\ IF cfg.fallback
       THEN Succeed(AllEventsSet([n EXCEPT !.negotiated = FALSE]), "timeout")
       ELSE RetryOrFail
  /\ UNCHANGED <<connection, trace, reading, host>>

\* A step's timeout: basic TN3270 if fallback is allowed, else an error.
TimedOut ==
  /\ pc \in Waiting
  /\ ~Awaited
  /\ IF cfg.fallback
       THEN Succeed(AllEventsSet([n EXCEPT !.negotiated = FALSE]), "timeout")
       ELSE RetryOrFail
  /\ UNCHANGED <<connection, trace, reading, host>>

BackoffOver ==
  /\ pc = "backoff"
  /\ pc' = FirstWait
  /\ UNCHANGED <<connection, failures, n, trace, tries, outcome, reading, host>>

\* The handler's 200-iteration guard cancels the negotiation task.
Watchdog ==
  /\ pc \in Waiting \cup {"backoff", "joinOk"}
  /\ pc' = "joinFailed"
  /\ outcome' = "watchdog"
  /\ UNCHANGED <<connection, failures, n, trace, tries, reading, host>>

-----------------------------------------------------------------------------
(***************************************************************************)
(* The reader has ended: the handler decides, and in ASCII mode reads on.  *)
(***************************************************************************)
FinalFlag == cfg.force = "tn3270e" \/ n.negotiated \/ Infer

\* Mutant: the handler does not wait for its reader task.
DecideEarly ==
  /\ pc = "joinOk"
  /\ n' = [n EXCEPT !.negotiated = FinalFlag]
  /\ pc' = IF n.ascii THEN "grace" ELSE "done"
  /\ reads' = 0
  /\ UNCHANGED <<connection, failures, trace, tries, outcome, reader, left, host>>

Decide ==
  /\ pc = "joinOk"
  /\ reader = "over"
  /\ n' = [n EXCEPT !.negotiated = FinalFlag]
  /\ pc' = IF n.ascii THEN "grace" ELSE "done"
  /\ reads' = 0
  /\ UNCHANGED <<connection, failures, trace, tries, outcome, reader, left, host>>

Fail ==
  /\ \/ pc = "joinFailed" /\ reader \in {"over", "broken"}
     \/ pc = "joinOk" /\ reader = "broken"
  /\ pc' = "failed"
  /\ UNCHANGED <<connection, failures, n, trace, tries, outcome, reading, host>>

GraceMessage(m) ==
  /\ pc = "grace"
  /\ left = 0 => reads < MaxGrace
  /\ reads' = IF left = 0 THEN reads + 1 ELSE reads
  /\ HandleNext(m, FALSE)
  /\ UNCHANGED <<connection, failures, pc, trace, tries, outcome, reader, eof>>

GraceOver ==
  /\ pc = "grace"
  /\ left = 0
  /\ pc' = "done"
  /\ UNCHANGED <<connection, failures, n, trace, tries, outcome, reading, host>>

-----------------------------------------------------------------------------
(***************************************************************************)
(* The reader task.  Its loop test comes after every chunk.                *)
(***************************************************************************)
ReaderMessage(m) ==
  /\ reader = "running"
  /\ reads' = IF left = 0 THEN reads + 1 ELSE reads
  /\ HandleNext(m, TRUE)
  /\ trace' = Traced(m)
  /\ reader' = IF left' = 0 /\ n'.complete THEN "over" ELSE "running"
  /\ UNCHANGED <<connection, failures, pc, tries, outcome, eof>>

\* A read times out after a second, and the loop test finds the negotiation
\* complete.  Too few such reads fit into the driver's ten seconds to matter
\* for the iteration limit.
ReaderIdle ==
  /\ reader = "running"
  /\ left = 0
  /\ n.complete
  /\ reader' = "over"
  /\ UNCHANGED <<connection, failures, n, pc, trace, tries, outcome, reads,
                 left, host>>

ReaderEof ==
  /\ reader = "running"
  /\ left = 0
  /\ eof
  /\ n' = SignalAll(cfg, n, TRUE)
  /\ reader' = "over"
  /\ UNCHANGED <<connection, failures, pc, trace, tries, outcome, reads, left, host>>

\* read() raises, for example ConnectionResetError.
ReaderBreaks ==
  /\ reader = "running"
  /\ left = 0
  /\ reader' = "broken"
  /\ UNCHANGED <<connection, failures, n, pc, trace, tries, outcome, reads, left, host>>

\* The driver waits half a second for the reader, then cancels it.  The whole
\* chunk is already in the trace, the messages not handled included.
ReaderCancelled ==
  /\ pc \in {"joinOk", "joinFailed"}
  /\ reader = "running"
  /\ reader' = "over"
  /\ left' = 0
  /\ \E rest \in SUBSET Signs :
       /\ left = 0 => rest = {}
       /\ trace' = trace \cup rest
  /\ UNCHANGED <<connection, failures, n, pc, tries, outcome, reads, host>>

HostCloses ==
  /\ pc \notin Ended
  /\ ~eof
  /\ left = 0
  /\ eof' = TRUE
  /\ UNCHANGED <<connection, failures, n, pc, trace, tries, outcome, reading,
                 heard>>

(***************************************************************************)
(* close() and connect() on the same handler: neither touches the          *)
(* negotiator's fields nor the trace.                                      *)
(***************************************************************************)
Reconnect ==
  /\ pc \in Ended
  /\ conns < MaxConns
  /\ conns' = conns + 1
  /\ pc' = "telnet"
  /\ reader' = "off" /\ reads' = 0 /\ left' = 0
  /\ eof' = FALSE /\ heard' = {}
  /\ outcome' = "none"
  /\ UNCHANGED <<cfg, failures, n, trace, tries>>

-----------------------------------------------------------------------------
Telnet == TelnetRefused \/ TelnetNothing \/ \E m \in Messages : TelnetMessage(m)

Driver ==
  \/ StartForced \/ StartTn3270e \/ Announced \/ StartWaiting
  \/ EventReceived \/ CompleteReceived \/ TimedOut \/ BackoffOver
  \/ Decide \/ Fail

Grace == GraceOver \/ \E m \in Messages : GraceMessage(m)

Reader ==
  \/ ReaderIdle \/ ReaderEof \/ ReaderBreaks
  \/ \E m \in Messages : ReaderMessage(m)

Next ==
  \/ Telnet \/ Driver \/ Grace \/ Reader \/ ReaderCancelled \/ Watchdog
  \/ HostCloses \/ Reconnect

\* asyncio runs every task that can run, and every wait has a timeout.
Fairness ==
  /\ WF_vars(Telnet)
  /\ WF_vars(Driver)
  /\ WF_vars(Grace)
  /\ WF_vars(ReaderCancelled)

Spec == Init /\ [][Next]_vars /\ Fairness

-----------------------------------------------------------------------------
(***************************************************************************)
(* Properties.                                                             *)
(***************************************************************************)

\* The Negotiator's fields and the two tasks' variables keep their types.
TypeOK ==
  /\ cfg \in Configs
  /\ n \in Negotiators
  /\ trace \subseteq Signs
  /\ failures \in Nat
  /\ pc \in Labels
  /\ tries \in 0..MaxRetries
  /\ reader \in Readers
  /\ reads \in Nat
  /\ left \in 0..(MaxChunk - 1)
  /\ eof \in BOOLEAN
  /\ conns \in 1..MaxConns
  /\ heard \subseteq Kinds
  /\ outcome \in Outcomes

\* With fallback allowed, nothing the host says or leaves unsaid makes the
\* negotiation fail: only the watchdog and a broken socket do.
FallbackNeverFails ==
  pc = "failed" /\ cfg.fallback => outcome = "watchdog" \/ reader = "broken"

\* connect() goes on to read the socket itself, or returns, only after the
\* background reader has ended: no two tasks read one stream.
OneReader ==
  pc \in {"grace"} \cup Ended => reader # "running"

\* In strict mode the driver waits for an event without a reader that could
\* still bring it only if the host sent a bare REQUEST, which completes the
\* negotiation without device type and functions.
BlindWaitOnlyAfterRequest ==
  /\ conns = 1
  /\ cfg.mode = "strict"
  /\ pc \in Waiting
  /\ reader = "over"
  /\ ~Awaited
  => "REQUEST" \in heard

\* Forced TN3270E without fallback goes ahead only if the host has not
\* answered WONT TN3270E on this connection, whatever else it said.
ForcedRefusalFails ==
  [][pc = "start" /\ pc' = "announce" /\ ~cfg.fallback
       => "WONT_TN3270E" \notin heard]_vars

\* Every negotiation ends, whatever the host does.
NegotiationEnds == (pc \notin Ended) ~> (pc \in Ended)

-----------------------------------------------------------------------------
\* The configurations for model checking: the strict negotiator AsyncSession
\* builds, for every mode a user can ask for, and a flexible one that is free
\* to choose.
AllConfigs ==
  [force : ForceModes, fallback : BOOLEAN, mode : {"strict"}]
    \cup [force : {"none"}, fallback : BOOLEAN, mode : {"flexible"}]
=============================================================================
