---------------------------- MODULE SyncSession ----------------------------
(***************************************************************************)
(* The blocking Session (session.py): each object owns an AsyncSession and *)
(* a worker thread with an event loop.  A call hands a coroutine to the    *)
(* loop and blocks in Future.result() without a timeout; close() and the   *)
(* finalizer stop the loop.  Threads interleave anywhere: an action is a   *)
(* piece of code that reads or writes the object's fields once.            *)
(***************************************************************************)
EXTENDS Integers, FiniteSets

CONSTANTS
  Threads,       \* threads that call the blocking API
  MaxSessions,   \* bound: Session objects
  MaxLoops,      \* bound: event loops
  MaxCalls       \* bound: calls

ASSUME SyncAssumption ==
  MaxSessions \in Nat /\ MaxLoops \in Nat /\ MaxCalls \in Nat

Nil == 0
Sessions == 1..MaxSessions
Loops == 1..MaxLoops

VARIABLES
  made,      \* Session objects created
  async,     \* Session._async_session of each: "none", "new" or "connected"
  loop,      \* Session._loop of each (its _thread runs that loop)
  loops,     \* state of every loop: "none", "running", "stopping", "stopped"
  started,   \* loops created
  thread,    \* each thread: its call, the session, where it is, its future's loop
  calls      \* calls made

syncVars == <<made, async, loop, loops, started, thread, calls>>

Free == [call |-> "none", s |-> Nil, pc |-> "idle", on |-> Nil]

SyncInit ==
  /\ made = 0
  /\ async = [s \in Sessions |-> "none"]
  /\ loop = [s \in Sessions |-> Nil]
  /\ loops = [l \in Loops |-> "none"]
  /\ started = 0
  /\ thread = [t \in Threads |-> Free]
  /\ calls = 0

-----------------------------------------------------------------------------
At(t, label) == thread[t].pc = label
Goto(t, label) == thread' = [thread EXCEPT ![t].pc = label]
Done(t) == thread' = [thread EXCEPT ![t] = Free]

Enter(t, method, s, label) ==
  /\ At(t, "idle")
  /\ calls < MaxCalls
  /\ calls' = calls + 1
  /\ thread' = [thread EXCEPT ![t] =
       [call |-> method, s |-> s, pc |-> label, on |-> Nil]]

Alive(l) == l # Nil /\ loops[l] \in {"running", "stopping"}

\* Mutant: every call starts a loop of its own.
HasWorkerNever(s) == FALSE

\* _ensure_worker_loop finds a loop whose thread is alive.
HasWorker(s) == Alive(loop[s])

-----------------------------------------------------------------------------
(***************************************************************************)
(* The blocking calls.                                                     *)
(***************************************************************************)
\* connect(): always a new AsyncSession; a previous one is not closed.
ConnectCall(t, s) ==
  /\ async' = [async EXCEPT ![s] = "new"]
  /\ Enter(t, "connect", s, "ensure")
  /\ UNCHANGED <<loop, loops, started>>

\* _require_connected_session: send(), read(), key() and the keys raise
\* without an AsyncSession, and connect one that is not connected first.
GuardedCall(t, s) ==
  /\ async[s] # "none"
  /\ Enter(t, IF async[s] = "new" THEN "autoconnect" ELSE "call", s, "ensure")
  /\ UNCHANGED <<made, async, loop, loops, started>>

\* The other wrappers only ask for an AsyncSession.
PlainCall(t, s) ==
  /\ async[s] # "none"
  /\ Enter(t, "call", s, "ensure")
  /\ UNCHANGED <<made, async, loop, loops, started>>

\* Mutant: the loop is told to stop before it has run close().
CloseStoppingFirst(t, s) ==
  /\ Enter(t, "close", s, IF async[s] = "none" THEN "shutdown" ELSE "ensure")
  /\ loops' = IF Alive(loop[s]) THEN [loops EXCEPT ![loop[s]] = "stopping"]
                                ELSE loops
  /\ UNCHANGED <<made, async, loop, started>>

CloseCall(t, s) ==
  /\ Enter(t, "close", s, IF async[s] = "none" THEN "shutdown" ELSE "ensure")
  /\ UNCHANGED <<made, async, loop, loops, started>>

-----------------------------------------------------------------------------
(***************************************************************************)
(* _run_async.                                                             *)
(***************************************************************************)
Ensure(t) ==
  /\ At(t, "ensure")
  /\ Goto(t, IF HasWorker(thread[t].s) THEN "submit" ELSE "start")
  /\ UNCHANGED <<made, async, loop, loops, started, calls>>

\* A new loop and thread; the fields are assigned without a lock.
StartLoop(t) ==
  LET l == started + 1 IN
  /\ At(t, "start")
  /\ l \in Loops
  /\ started' = l
  /\ loops' = [loops EXCEPT ![l] = "running"]
  /\ loop' = [loop EXCEPT ![thread[t].s] = l]
  /\ Goto(t, "submit")
  /\ UNCHANGED <<made, async, calls>>

\* run_coroutine_threadsafe on self._loop, then fut.result(); the assertion
\* fails when another thread has shut the loop down meanwhile.
Submit(t) ==
  /\ At(t, "submit")
  /\ IF loop[thread[t].s] = Nil
       THEN Done(t)
       ELSE thread' = [thread EXCEPT ![t].pc = "wait",
                                     ![t].on = loop[thread[t].s]]
  /\ UNCHANGED <<made, async, loop, loops, started, calls>>

\* The loop runs the coroutine to its end.
Ready(t) == At(t, "wait") /\ loops[thread[t].on] = "running"

\* connect() succeeds; an automatic connect goes on with the call itself.
Connected(t) ==
  /\ Ready(t)
  /\ thread[t].call \in {"connect", "autoconnect"}
  /\ async' = [async EXCEPT ![thread[t].s] =
       IF @ = "none" THEN @ ELSE "connected"]
  /\ IF thread[t].call = "connect"
       THEN Done(t)
       ELSE thread' = [thread EXCEPT ![t].call = "call", ![t].pc = "ensure"]
  /\ UNCHANGED <<made, loop, loops, started, calls>>

\* It fails, or another call ends or raises.
Returned(t) ==
  /\ Ready(t)
  /\ thread[t].call # "close"
  /\ Done(t)
  /\ UNCHANGED <<made, async, loop, loops, started, calls>>

Closed(t) ==
  /\ Ready(t)
  /\ thread[t].call = "close"
  /\ async' = [async EXCEPT ![thread[t].s] = "none"]
  /\ Goto(t, "shutdown")
  /\ UNCHANGED <<made, loop, loops, started, calls>>

-----------------------------------------------------------------------------

\* _shutdown_worker_loop: loop and thread fields cleared, the loop told to
\* stop, the thread joined for at most a second.
Stop(s) ==
  /\ loop' = [loop EXCEPT ![s] = Nil]
  /\ loops' = IF Alive(loop[s]) THEN [loops EXCEPT ![loop[s]] = "stopping"]
                                ELSE loops

Shutdown(t) ==
  /\ At(t, "shutdown")
  /\ Stop(thread[t].s)
  /\ Done(t)
  /\ UNCHANGED <<made, async, started, calls>>

\* run_forever returns and the loop is closed, its tasks left where they are.
LoopEnds(l) ==
  /\ loops[l] = "stopping"
  /\ loops' = [loops EXCEPT ![l] = "stopped"]
  /\ UNCHANGED <<made, async, loop, started, thread, calls>>

\* Session.__del__, when nothing refers to the object any more.
Finalize(s) ==
  /\ \A t \in Threads : thread[t].s # s
  /\ loop[s] # Nil
  /\ Stop(s)
  /\ UNCHANGED <<made, async, started, thread, calls>>

CallStep(t) == Ensure(t) \/ StartLoop(t) \/ Submit(t) \/ Connected(t)
               \/ Returned(t) \/ Closed(t) \/ Shutdown(t)
=============================================================================
