----------------------------- MODULE SnaSession -----------------------------
(***************************************************************************)
(* The negotiator's SNA session state (negotiator.py).  The parser makes a *)
(* task of every SNA response it meets (data_stream.py:1329); a task sets  *)
(* the state and, for some sense codes, sleeps or negotiates anew before   *)
(* it sets the state again.  Tasks start in the order of their responses   *)
(* and then overlap.                                                       *)
(***************************************************************************)
EXTENDS Integers, Sequences, FiniteSets

CONSTANTS
  Tasks,         \* tasks that may be in flight
  MaxResponses,  \* SNA responses the host sends
  MaxSent        \* records the client sends

LuBusyRetries == 3       \* max_retries of _handle_lu_busy()
NegotiateRetries == 3    \* max_retries given to _retry_with_backoff()
FailureLimit == 3        \* max_consecutive_failures

SenseCodes == {"success", "lu_busy", "session_failure", "invalid_sequence",
               "no_resources", "state_error", "other"}

VARIABLES
  sna,        \* _sna_session_state
  scheduled,  \* responses whose tasks have not started
  task,       \* what each task is doing, and how often it may still try
  received,   \* responses so far
  bind,       \* is_bind_image_active
  inARow,     \* _connection_state["consecutive_failures"]
  lastSent,   \* _last_sent_seq_number
  pending,    \* keys of _pending_requests
  gaveUp      \* history: the last task to set sna gave up on a busy LU

snaVars == <<sna, scheduled, task, received, bind, inARow, lastSent, pending, gaveUp>>

Idle == [does |-> "nothing", left |-> 0]

SnaInit ==
  /\ sna = "NORMAL"
  /\ scheduled = <<>>
  /\ task = [t \in Tasks |-> Idle]
  /\ received = 0
  /\ bind \in BOOLEAN
  /\ inARow = 0
  /\ lastSent = 0
  /\ pending = {}
  /\ gaveUp = FALSE

Become(t, does, left) == task' = [task EXCEPT ![t] = [does |-> does, left |-> left]]
Finish(t) == Become(t, "nothing", 0)

\* sna is set: whoever gave up before is no longer the last.
SetState(s) == sna' = s /\ gaveUp' = FALSE

-----------------------------------------------------------------------------
\* parse() of a record with data type SNA-RESPONSE.
SnaResponse(code) ==
  /\ received < MaxResponses
  /\ received' = received + 1
  /\ scheduled' = Append(scheduled, code)
  /\ UNCHANGED <<sna, task, bind, inARow, lastSent, pending, gaveUp>>

\* _handle_sna_response() up to its first sleep or I/O.
Respond(t, code) ==
  CASE code = "success" ->
         SetState("NORMAL") /\ Finish(t) /\ UNCHANGED <<bind, pending>>
    [] code = "lu_busy" ->
         SetState("PENDING_RECOVERY") /\ Become(t, "busy", LuBusyRetries)
         /\ UNCHANGED <<bind, pending>>
    [] code = "session_failure" ->
         SetState("ERROR") /\ Become(t, "negotiate", NegotiateRetries)
         /\ UNCHANGED <<bind, pending>>
    [] code = "invalid_sequence" ->
         SetState("PENDING_RECOVERY") /\ Become(t, "pause", 0)
         /\ pending' = {} /\ UNCHANGED bind
    [] code = "no_resources" ->
         SetState("ERROR") /\ Become(t, "sleep", 0)
         /\ UNCHANGED <<bind, pending>>
    [] code = "state_error" ->
         SetState("PENDING_RECOVERY") /\ Become(t, "pause_negotiate", 0)
         /\ bind' = FALSE /\ UNCHANGED pending
    [] OTHER ->
         SetState("ERROR") /\ Finish(t) /\ UNCHANGED <<bind, pending>>

Start(t) ==
  /\ scheduled # <<>> /\ task[t] = Idle
  /\ scheduled' = Tail(scheduled)
  /\ Respond(t, Head(scheduled))
  /\ UNCHANGED <<received, inARow, lastSent>>

\* A sleep of _handle_lu_busy() is over.
BusySlept(t) ==
  /\ task[t].does = "busy"
  /\ \/ bind /\ SetState("NORMAL") /\ Finish(t)
     \/ /\ ~bind /\ task[t].left > 1
        /\ Become(t, "busy", task[t].left - 1)
        /\ UNCHANGED <<sna, gaveUp>>
     \/ /\ ~bind /\ task[t].left = 1
        /\ Finish(t)
        /\ gaveUp' = (gaveUp \/ sna = "PENDING_RECOVERY")
        /\ UNCHANGED sna
  /\ UNCHANGED <<scheduled, received, bind, inARow, lastSent, pending>>

\* Mutant: _handle_state_error() returns after its sleep.
SleptReturns(t) ==
  /\ task[t].does \in {"pause", "sleep", "pause_negotiate"}
  /\ Finish(t)
  /\ IF task[t].does = "pause" THEN SetState("NORMAL") ELSE UNCHANGED <<sna, gaveUp>>
  /\ UNCHANGED <<scheduled, received, bind, inARow, lastSent, pending>>

\* The sleeps of _handle_sequence_error(), of NO_RESOURCES and of
\* _handle_state_error() are over.
Slept(t) ==
  /\ \/ task[t].does = "pause" /\ SetState("NORMAL") /\ Finish(t)
     \/ task[t].does = "sleep" /\ Finish(t) /\ UNCHANGED <<sna, gaveUp>>
     \/ /\ task[t].does = "pause_negotiate"
        /\ Become(t, "negotiate", NegotiateRetries)
        /\ UNCHANGED <<sna, gaveUp>>
  /\ UNCHANGED <<scheduled, received, bind, inARow, lastSent, pending>>

-----------------------------------------------------------------------------
(***************************************************************************)
(* negotiate(): refused after FailureLimit failures in a row, which only a *)
(* success resets; a drain that times out is retried.                      *)
(***************************************************************************)
\* _validate_connection_state() refuses: negotiate() raises without cleanup.
NegotiateRefused(t) ==
  /\ task[t] = [does |-> "negotiate", left |-> NegotiateRetries]
  /\ inARow >= FailureLimit
  /\ SetState("SESSION_DOWN") /\ Finish(t)
  /\ UNCHANGED <<scheduled, received, bind, inARow, lastSent, pending>>

CanTry(t) ==
  /\ task[t].does = "negotiate"
  /\ inARow < FailureLimit \/ task[t].left < NegotiateRetries

NegotiateOk(t) ==
  /\ CanTry(t)
  /\ inARow' = 0
  /\ SetState("NORMAL") /\ Finish(t)
  /\ UNCHANGED <<scheduled, received, bind, lastSent, pending>>

\* The failure counter is kept at FailureLimit + 1: more tells nothing.
NegotiateFails(t, timeout) ==
  /\ CanTry(t)
  /\ inARow' = IF inARow > FailureLimit THEN inARow ELSE inARow + 1
  /\ \/ /\ timeout /\ task[t].left > 0
        /\ Become(t, "negotiate", task[t].left - 1)
        /\ UNCHANGED <<sna, gaveUp, bind>>
     \/ /\ ~timeout \/ task[t].left = 0
        /\ SetState("SESSION_DOWN") /\ Finish(t)
        /\ bind' = FALSE
  /\ UNCHANGED <<scheduled, received, lastSent, pending>>

-----------------------------------------------------------------------------
\* The host agrees on functions again, with or without BIND-IMAGE.
FunctionsIs(b) ==
  /\ bind' = b
  /\ UNCHANGED <<sna, scheduled, task, received, inARow, lastSent, pending, gaveUp>>

\* send_data() registers the record under the handler's own number.
SendData ==
  /\ lastSent < MaxSent
  /\ lastSent' = lastSent + 1
  /\ pending' = pending \cup {lastSent'}
  /\ UNCHANGED <<sna, scheduled, task, received, bind, inARow, gaveUp>>

\* _handle_tn3270e_response(): the number of any record of the host counts.
ResponseHeader(n) ==
  /\ n \in pending
  /\ pending' = pending \ {n}
  /\ UNCHANGED <<sna, scheduled, task, received, bind, inARow, lastSent, gaveUp>>

SnaStep(t) ==
  \/ Start(t) \/ BusySlept(t) \/ Slept(t)
  \/ NegotiateRefused(t) \/ NegotiateOk(t)
  \/ \E timeout \in BOOLEAN : NegotiateFails(t, timeout)

SnaNext ==
  \/ \E code \in SenseCodes : SnaResponse(code)
  \/ \E t \in Tasks : SnaStep(t)
  \/ \E b \in BOOLEAN : FunctionsIs(b)
  \/ SendData
  \/ \E n \in 1..MaxSent : ResponseHeader(n)

SnaSpec == SnaInit /\ [][SnaNext]_snaVars

\* Sleeps and drains with a timeout end, and the loop runs its tasks.
SnaFairness == \A t \in Tasks : WF_snaVars(SnaStep(t))

-----------------------------------------------------------------------------
(***************************************************************************)
(* PENDING_RECOVERY is never left behind: a task that will set the state   *)
(* again is in flight, unless _handle_lu_busy() has used its three sleeps  *)
(* (negotiator.py:3658-3687, which then returns with the state as it is).  *)
(***************************************************************************)
PendingIsOwned ==
  sna = "PENDING_RECOVERY" =>
    gaveUp \/ \E t \in Tasks : task[t].does \in {"busy", "pause", "pause_negotiate", "negotiate"}

(***************************************************************************)
(* Every SNA response is dealt with: no task sleeps or negotiates forever, *)
(* whatever the other tasks do (negotiator.py:3658-3826).                  *)
(***************************************************************************)
SnaRecoveriesEnd ==
  \A t \in Tasks : task[t] # Idle ~> task[t] = Idle
=============================================================================
