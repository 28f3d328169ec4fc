------------------------------ MODULE Session ------------------------------
(***************************************************************************)
(* AsyncSession (session.py): one session object shared by several asyncio *)
(* tasks, the TN3270Handlers it makes one after another and the background *)
(* reader each connect() leaves behind.  A handler is seen through         *)
(* HandlerPromise; the session refers to it as self._handler, read again   *)
(* after every await.  An action is what a task runs between two awaits.   *)
(***************************************************************************)
EXTENDS Integers

CONSTANTS
  Callers,        \* application tasks
  Controllers,    \* those of them that call connect(), close(), reconnect()
  MaxHandlers,    \* bound: handlers created
  MaxCalls,       \* bound: calls of the session's methods
  MaxPolls        \* bound: reads of a background reader (300 in the code)

ASSUME SessionAssumption ==
  /\ Controllers \subseteq Callers
  /\ MaxHandlers \in Nat /\ MaxCalls \in Nat /\ MaxPolls \in Nat

MaxRetries == 3          \* send(), read() and reconnect() try three times

NoHandler == 0
Handlers == 1..MaxHandlers

VARIABLES
  handler,     \* AsyncSession._handler
  connected,   \* AsyncSession._connected
  fallback,    \* AsyncSession._allow_fallback, set once
  made,        \* handlers created so far
  link, up,    \* HandlerPromise's view of each handler
  task,        \* each caller: the method it is in, where it is suspended, the
               \* attempt of its retry loop, the handler whose coroutine it awaits
  rd,          \* the background reader in each handler's _bg_tasks
  polls,       \* reads it has made
  calls,       \* calls made
  dropped,     \* history: handlers that a plain connect() has overwritten
  gone         \* the application has no reference to the session any more

vars == <<handler, connected, fallback, made, link, up, task, rd, polls,
          calls, dropped, gone>>

own == <<handler, connected, fallback>>
handlers == <<made, link, up>>
readers == <<rd, polls>>

H(h) == INSTANCE HandlerPromise WITH link <- link[h], up <- up[h]

Idle == [call |-> "none", pc |-> "idle", tries |-> 0, at |-> NoHandler]

Init ==
  /\ handler = NoHandler
  /\ connected = FALSE
  /\ fallback \in BOOLEAN
  /\ made = 0
  /\ link = [h \in Handlers |-> "down"]
  /\ up = [h \in Handlers |-> FALSE]
  /\ task = [c \in Callers |-> Idle]
  /\ rd = [h \in Handlers |-> "none"]
  /\ polls = [h \in Handlers |-> 0]
  /\ calls = 0
  /\ dropped = {}
  /\ gone = FALSE

-----------------------------------------------------------------------------
At(c, label) == task[c].pc = label

\* A new call, suspended at label.
Enter(c, method, label, h) ==
  /\ At(c, "idle")
  /\ calls < MaxCalls
  /\ calls' = calls + 1
  /\ task' = [task EXCEPT ![c] =
       [call |-> method, pc |-> label, tries |-> 1, at |-> h]]

Goto(c, label) == task' = [task EXCEPT ![c].pc = label]

\* The call returns or raises.
Return(c) == task' = [task EXCEPT ![c] = Idle]

\* The caller awaits a coroutine of self._handler, in the n-th attempt of its
\* method; None has no such attribute, and the call raises.
AwaitHandler(c, method, label, n) ==
  task' = [task EXCEPT ![c] =
    IF handler = NoHandler
      THEN Idle
      ELSE [call |-> method, pc |-> label, tries |-> n, at |-> handler]]

Again(c) == task[c].tries < MaxRetries

-----------------------------------------------------------------------------
(***************************************************************************)
(* What the handlers do on their own: an attempt reaches the host, settles *)
(* or fails.                                                               *)
(***************************************************************************)
HandlerStep(h) ==
  /\ link[h] = "attempt"
  /\ \/ /\ ~up[h]
        /\ up' = [up EXCEPT ![h] = TRUE]
        /\ UNCHANGED link
     \/ /\ link' = [link EXCEPT ![h] = "failed"]
        /\ UNCHANGED up
     \/ /\ up[h]
        /\ link' = [link EXCEPT ![h] = "live"]
        /\ UNCHANGED up
  /\ UNCHANGED <<own, made, task, readers, calls, dropped, gone>>

-----------------------------------------------------------------------------
(***************************************************************************)
(* connect(), alone or inside reconnect().                                 *)
(***************************************************************************)
ConnectCall(c) ==
  /\ c \in Controllers
  /\ Enter(c, "connect", "open", NoHandler)
  /\ UNCHANGED <<own, handlers, readers, dropped>>

\* connect() raises; reconnect() catches it and sleeps, twice.
Raise(c) ==
  IF task[c].call = "reconnect" /\ Again(c) THEN Goto(c, "backoff")
                                            ELSE Return(c)

\* asyncio.open_connection fails: self._handler keeps its old value.
OpenFails(c) ==
  /\ At(c, "open")
  /\ Raise(c)
  /\ UNCHANGED <<own, handlers, readers, calls, dropped>>

\* It succeeds: a new handler replaces the old one, which nobody closes, and
\* handler.connect() starts.
Opened(c) ==
  LET h == made + 1 IN
  /\ At(c, "open")
  /\ h \in Handlers
  /\ made' = h
  /\ handler' = h
  /\ dropped' = IF task[c].call = "connect" THEN dropped \cup {handler}
                                            ELSE dropped
  /\ link' = [link EXCEPT ![h] = "attempt"]
  /\ task' = [task EXCEPT ![c].pc = "dial", ![c].at = h]
  /\ UNCHANGED <<connected, fallback, up, readers, calls>>

\* The end of connect()'s try statement: the session calls itself connected,
\* creates its IndFile and starts the warm-up reads.
Connected(c) ==
  /\ connected' = TRUE
  /\ Goto(c, "warmup")
  /\ UNCHANGED <<handler, fallback, handlers, readers, calls, dropped>>

\* handler.connect() returns.
Dialed(c) ==
  /\ At(c, "dial")
  /\ link[task[c].at] = "live"
  /\ Connected(c)

Refused(c) == At(c, "dial") /\ link[task[c].at] \notin {"attempt", "live"}

\* handler.connect() raises and fallback is allowed: set_ascii_mode() is
\* called on self._handler and up to 20 reads follow.
FallBack(c) ==
  /\ Refused(c)
  /\ fallback /\ handler # NoHandler
  /\ Goto(c, "fallback")
  /\ UNCHANGED <<own, handlers, readers, calls, dropped>>

\* It raises without fallback, or another task's close() has removed the
\* handler: then a NegotiationError also resets the session.
DialFails(c) ==
  /\ Refused(c)
  /\ fallback => handler = NoHandler
  /\ connected' \in IF fallback THEN {connected, FALSE} ELSE {connected}
  /\ Raise(c)
  /\ UNCHANGED <<handler, fallback, handlers, readers, calls, dropped>>

FallenBack(c) ==
  /\ At(c, "fallback")
  /\ Connected(c)

\* The warm-up reads end (a non-blank screen, an error or 7 s), and the
\* reader task is put into the _bg_tasks of the current handler.
WarmedUp(c) ==
  /\ At(c, "warmup")
  /\ rd' = IF handler = NoHandler THEN rd ELSE [rd EXCEPT ![handler] = "run"]
  /\ Return(c)
  /\ UNCHANGED <<own, handlers, polls, calls, dropped>>

-----------------------------------------------------------------------------
(***************************************************************************)
(* close() and reconnect().                                                *)
(***************************************************************************)
CloseCall(c) ==
  /\ c \in Controllers
  /\ Enter(c, "close", "close", NoHandler)
  /\ UNCHANGED <<own, handlers, readers, dropped>>

\* Mutant: reconnect() connects without closing first.
ReconnectOpening(c) ==
  /\ c \in Controllers
  /\ Enter(c, "reconnect", "open", NoHandler)
  /\ UNCHANGED <<own, handlers, readers, dropped>>

ReconnectCall(c) ==
  /\ c \in Controllers
  /\ Enter(c, "reconnect", "close", NoHandler)
  /\ UNCHANGED <<own, handlers, readers, dropped>>

\* Mutant: the attempt is not counted.
BackedOffUncounted(c) ==
  /\ At(c, "backoff")
  /\ Goto(c, "close")
  /\ UNCHANGED <<own, handlers, readers, calls, dropped>>

\* The sleep between two attempts of reconnect() ends.
BackedOff(c) ==
  /\ At(c, "backoff")
  /\ task' = [task EXCEPT ![c].pc = "close", ![c].tries = @ + 1]
  /\ UNCHANGED <<own, handlers, readers, calls, dropped>>

AfterClose(c) ==
  IF task[c].call = "reconnect" THEN Goto(c, "open") ELSE Return(c)

\* The body of close() up to handler.close()'s first await.
CloseStart(c) ==
  /\ At(c, "close")
  /\ \/ /\ handler = NoHandler
        /\ connected' = FALSE
        /\ AfterClose(c)
        /\ UNCHANGED <<link, up>>
     \/ /\ handler # NoHandler
        /\ link' = [link EXCEPT ![handler] = "closing"]
        /\ up' = [up EXCEPT ![handler] = FALSE]
        /\ task' = [task EXCEPT ![c].pc = "closing", ![c].at = handler]
        /\ UNCHANGED connected
  /\ UNCHANGED <<handler, fallback, made, readers, calls, dropped>>

\* handler.close() has cancelled its background tasks and returned, or has
\* raised, which is swallowed.
Released(c) ==
  LET h == task[c].at IN
  /\ \E end \in {"down", "failed"} : link' = [link EXCEPT ![h] = end]
  /\ rd' = [rd EXCEPT ![h] = IF @ = "run" THEN "done" ELSE @]
  /\ UNCHANGED <<fallback, made, up, polls, calls, dropped>>

\* Mutant: close() keeps its handler, for a later connect() of it.
CloseRedials(c) ==
  /\ At(c, "closing")
  /\ LET h == task[c].at IN
     /\ link' = [link EXCEPT ![h] = "attempt"]
     /\ rd' = [rd EXCEPT ![h] = IF @ = "run" THEN "done" ELSE @]
  /\ connected' = FALSE
  /\ AfterClose(c)
  /\ UNCHANGED <<handler, fallback, made, up, polls, calls, dropped>>

CloseDone(c) ==
  /\ At(c, "closing")
  /\ Released(c)
  /\ handler' = NoHandler
  /\ connected' = FALSE
  /\ AfterClose(c)

-----------------------------------------------------------------------------
(***************************************************************************)
(* send(), the keys that reach the host, read() and the waits.             *)
(***************************************************************************)
SendMethods == {"send", "key", "sysreq"}

\* Without a handler these calls raise at once and change nothing.
SendCall(c) ==
  /\ handler # NoHandler
  /\ \E method \in SendMethods : Enter(c, method, "sending", handler)
  /\ UNCHANGED <<own, handlers, readers, dropped>>

\* send_data() returns; SysReq and Attn go on to read the answer.
Sent(c) ==
  /\ At(c, "sending")
  /\ IF task[c].call = "sysreq" THEN AwaitHandler(c, "sysreq", "reading", 1)
                                ELSE Return(c)
  /\ UNCHANGED <<own, handlers, readers, calls, dropped>>

\* It raises: OSError makes send() try again; a key sends an empty record
\* instead, once, unless the peer is gone.
SendFails(c) ==
  /\ At(c, "sending")
  /\ \/ Return(c)
     \/ /\ task[c].call = "send" /\ Again(c)
        /\ AwaitHandler(c, "send", "sending", task[c].tries + 1)
     \/ /\ task[c].call \in {"key", "sysreq"}
        /\ AwaitHandler(c, "emptykey", "sending", 1)
  /\ UNCHANGED <<own, handlers, readers, calls, dropped>>

ReadCall(c) ==
  /\ handler # NoHandler
  /\ Enter(c, "read", "reading", handler)
  /\ UNCHANGED <<own, handlers, readers, dropped>>

\* receive_data() returns, or raises.  After SysReq key() goes on with the
\* parser of self._handler; when that is gone it raises.
ReadDone(c) ==
  /\ At(c, "reading")
  /\ Return(c)
  /\ UNCHANGED <<own, handlers, readers, calls, dropped>>

\* It times out: up to three times, then read() returns no data.
ReadTimesOut(c) ==
  /\ At(c, "reading")
  /\ Again(c)
  /\ AwaitHandler(c, task[c].call, "reading", task[c].tries + 1)
  /\ UNCHANGED <<own, handlers, readers, calls, dropped>>

\* wait_for_text(), wait_for_aid() and expect() poll until the screen shows
\* what they wait for or their deadline has passed; they swallow exceptions.
WaitCall(c) ==
  /\ Enter(c, "wait", "waiting", NoHandler)
  /\ UNCHANGED <<own, handlers, readers, dropped>>

WaitEnds(c) ==
  /\ At(c, "waiting")
  /\ Return(c)
  /\ UNCHANGED <<own, handlers, readers, calls, dropped>>

-----------------------------------------------------------------------------
\* One turn of _post_connect_reader: it reads self._handler, whichever that
\* is by now, and stops when there is none, on an error, or after its last.
Poll(h) ==
  /\ rd[h] = "run"
  /\ \/ /\ handler # NoHandler /\ polls[h] < MaxPolls
        /\ polls' = [polls EXCEPT ![h] = @ + 1]
        /\ UNCHANGED rd
     \/ /\ rd' = [rd EXCEPT ![h] = "done"]
        /\ UNCHANGED polls
  /\ UNCHANGED <<own, handlers, task, calls, dropped, gone>>

-----------------------------------------------------------------------------
NewCall(c) ==
  /\ ~gone
  /\ \/ ConnectCall(c) \/ CloseCall(c) \/ ReconnectCall(c)
     \/ SendCall(c) \/ ReadCall(c) \/ WaitCall(c)
  /\ UNCHANGED gone

CallStep(c) ==
  /\ \/ OpenFails(c) \/ Opened(c) \/ Dialed(c) \/ FallBack(c)
     \/ DialFails(c) \/ FallenBack(c) \/ WarmedUp(c)
     \/ BackedOff(c) \/ CloseStart(c) \/ CloseDone(c)
     \/ Sent(c) \/ SendFails(c)
     \/ ReadDone(c) \/ ReadTimesOut(c) \/ WaitEnds(c)
  /\ UNCHANGED gone

\* __del__: no task is inside a call and no reader keeps the object alive.  A
\* close() is scheduled if there is a handler; it stands in a controller's place.
Finalize ==
  /\ ~gone
  /\ \A c \in Callers : At(c, "idle")
  /\ \A h \in Handlers : rd[h] # "run"
  /\ gone' = TRUE
  /\ connected' = FALSE
  /\ IF handler = NoHandler THEN UNCHANGED task
     ELSE \E c \in Controllers :
            task' = [task EXCEPT ![c] = [Idle EXCEPT !.call = "close", !.pc = "close"]]
  /\ UNCHANGED <<handler, fallback, handlers, readers, calls, dropped>>

Next == \/ \E c \in Callers : NewCall(c) \/ CallStep(c)
        \/ \E h \in Handlers : HandlerStep(h) \/ Poll(h)
        \/ Finalize

\* Every awaited operation ends or times out, and the loop runs every task;
\* a handler resolves its attempts (HandlerPromise!FairSpec).
Fairness == /\ \A c \in Callers : WF_vars(CallStep(c))
            /\ \A h \in Handlers : WF_vars(HandlerStep(h)) /\ WF_vars(Poll(h))

Spec == Init /\ [][Next]_vars
FairSpec == Spec /\ Fairness
-----------------------------------------------------------------------------
(***************************************************************************)
(* Properties.  They are about an application in which one task controls   *)
(* the connection while others send, read and wait.                        *)
(***************************************************************************)

\* The session drives each of its handlers only as the handler's promise
\* allows: connect() is called once per handler, never on one that is live,
\* failed or closed, whatever connect(), reconnect() and close() are mixed.
DrivesHandlersAsPromised ==
  /\ \A h \in Handlers : H(h)!Init
  /\ [][\A h \in Handlers : H(h)!Next \/ UNCHANGED <<link[h], up[h]>>]_vars

\* Nothing of a connection the session has given up is left: no attempt, no
\* open socket, no background reader.  The one exception is a connect() on a
\* session that was not closed; close() and reconnect() never do it.  A session
\* the application dropped without close() keeps no handler either.
NoOrphans ==
  /\ \A h \in Handlers :
       h # handler /\ h \notin dropped =>
         link[h] \notin {"attempt", "live"} /\ ~up[h] /\ rd[h] # "run"
  /\ gone /\ (\A c \in Callers : At(c, "idle")) => handler = NoHandler

\* Every call returns or raises: reconnect() gives up after three attempts,
\* reads and waits time out, also when another task closes the session.
EveryCallReturns == \A c \in Callers : ~At(c, "idle") ~> At(c, "idle")
=============================================================================
