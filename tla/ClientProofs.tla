---------------------------- MODULE ClientProofs ----------------------------
(***************************************************************************)
(* The blocking Session behind the p3270 facade, for any number of         *)
(* sessions, loops and calls; and the stress tools, for any connections,   *)
(* kinds of tests and bounds.                                              *)
(*                                                                         *)
(* The types hold for any number of threads.  That a session has one       *)
(* worker loop is about a program that uses a client from one thread: the  *)
(* fields of _ensure_worker_loop are read and assigned without a lock.  It *)
(* is inductive together with what the thread knows between the two: when  *)
(* it is about to start a loop, the session has none alive.                *)
(***************************************************************************)
EXTENDS P3270Client, StressTests, FiniteSetTheorems, TLAPS

InCall == {"ensure", "start", "submit", "wait", "shutdown"}
ThreadRecords ==
  [call : {"none", "connect", "autoconnect", "call", "close", "waitfor"},
   s : Sessions \cup {Nil}, pc : InCall \cup {"idle", "polling"}, on : Loops \cup {Nil}]
LoopStates == {"none", "running", "stopping", "stopped"}

ClientTypeOK ==
  /\ made \in Nat /\ started \in Nat /\ calls \in Nat
  /\ async \in [Sessions -> {"none", "new", "connected"}]
  /\ loop \in [Sessions -> Loops \cup {Nil}]
  /\ loops \in [Loops -> LoopStates]
  /\ thread \in [Threads -> ThreadRecords]
  /\ pure \in Sessions \cup {Nil} /\ linked \in BOOLEAN

\* A call is on a session, and a future on a loop.
CallsHaveSessions ==
  \A t \in Threads : /\ thread[t].pc \in InCall => thread[t].s \in Sessions
                     /\ thread[t].pc = "wait" => thread[t].on \in Loops

ClientTypes == ClientTypeOK /\ CallsHaveSessions

StartsWhenNone == \A t \in Threads : At(t, "start") => ~Alive(loop[thread[t].s])

ClientInv == ClientTypes /\ StartsWhenNone /\ OneLoopPerSession

\* Zero is neither a session nor a loop.
LEMMA NilIsNone == Nil \notin Sessions /\ Nil \notin Loops
  BY SyncAssumption DEF Nil, Sessions, Loops

\* What a step may do to a thread.
Moves(t, r) ==
  /\ r \in ThreadRecords
  /\ r.pc \in InCall => r.s \in Sessions
  /\ r.pc = "wait" => r.on \in Loops
  /\ thread' = [thread EXCEPT ![t] = r]

\* Setting a thread's record keeps the types of threads.
LEMMA MovesKeep ==
  ASSUME ClientTypes, NEW t \in Threads, NEW r, Moves(t, r)
  PROVE  /\ thread' \in [Threads -> ThreadRecords] /\ CallsHaveSessions'
         /\ thread'[t] = r
         /\ \A u \in Threads : u # t => thread'[u] = thread[u]
  BY DEF Moves, ClientTypes, ClientTypeOK, CallsHaveSessions

\* Stopping a session's loop.
LEMMA StopKeeps ==
  ASSUME ClientTypes, NEW s \in Sessions, Stop(s)
  PROVE  /\ loop' \in [Sessions -> Loops \cup {Nil}] /\ loops' \in [Loops -> LoopStates]
         /\ loop'[s] = Nil
         /\ \A q \in Sessions : q # s => loop'[q] = loop[q]
         /\ \A l \in Loops : loops'[l] = IF l = loop[s] /\ Alive(l) THEN "stopping" ELSE loops[l]
  BY NilIsNone DEF Stop, Alive, ClientTypes, ClientTypeOK, LoopStates

\* The record of a thread that enters a call.
LEMMA EnterMoves ==
  ASSUME ClientTypes, NEW t \in Threads,
         NEW m \in {"connect", "autoconnect", "call", "close"}, NEW s \in Sessions,
         NEW label \in {"ensure", "shutdown"}, Enter(t, m, s, label)
  PROVE  calls' \in Nat /\ \E r : Moves(t, r) /\ r.pc # "start"
  <1> DEFINE r == [call |-> m, s |-> s, pc |-> label, on |-> Nil]
  <1>1. Moves(t, r) /\ r.pc # "start"
    BY DEF Enter, Moves, ThreadRecords, InCall
  <1>2. calls' \in Nat
    BY DEF Enter, ClientTypes, ClientTypeOK
  <1> QED
    BY <1>1, <1>2

\* A thread that ends a call.
LEMMA DoneMoves ==
  ASSUME ClientTypes, NEW t \in Threads, Done(t)
  PROVE  Moves(t, Free)
  BY DEF Done, Moves, Free, ThreadRecords, InCall

\* A call that begins leaves the loops alone.
Begins(t) ==
  /\ \E r : Moves(t, r) /\ r.pc # "start"
  /\ UNCHANGED <<loop, loops, started>>
  /\ made' \in Nat /\ calls' \in Nat /\ pure' \in Sessions \cup {Nil}
  /\ linked' \in BOOLEAN /\ async' \in [Sessions -> {"none", "new", "connected"}]

\* The methods of the client begin calls, or wait in the caller's thread.
LEMMA MethodsBegin ==
  ASSUME ClientTypes, NEW t \in Threads,
         \/ Connect(t) \/ ConnectNowhere(t) \/ KeyCommand(t) \/ RawCommand(t)
         \/ WaitCommand(t) \/ PauseCommand(t) \/ ConnectCommand(t) \/ Disconnect(t)
         \/ WaitFor(t) \/ WaitEnds(t)
  PROVE  Begins(t)
  <1>1. pure # Nil => pure \in Sessions
    BY DEF ClientTypes, ClientTypeOK
  <1>2. CASE Connect(t)
    <2> DEFINE s == made + 1
    <2>1. /\ s \in Sessions /\ made' = s /\ pure' = s /\ UNCHANGED linked
          /\ ConnectCall(t, s)
      BY <1>2 DEF Connect
    <2> HIDE DEF s
    <2>2. Enter(t, "connect", s, "ensure") /\ UNCHANGED <<loop, loops, started>>
      BY <2>1 DEF ConnectCall
    <2>3. async' \in [Sessions -> {"none", "new", "connected"}]
      BY <2>1 DEF ConnectCall, ClientTypes, ClientTypeOK
    <2>4. s \in Nat
      BY <2>1, SyncAssumption DEF Sessions
    <2>5. calls' \in Nat /\ \E r : Moves(t, r) /\ r.pc # "start"
      BY <2>1, <2>2, EnterMoves
    <2> QED
      BY <2>1, <2>2, <2>3, <2>4, <2>5 DEF Begins, ClientTypes, ClientTypeOK
  <1>3. CASE ConnectNowhere(t)
    <2> DEFINE s == made + 1
    <2>1. /\ s \in Sessions /\ made' = s /\ pure' = s /\ At(t, "idle")
          /\ UNCHANGED <<async, loop, loops, started, thread, calls, linked>>
      BY <1>3 DEF ConnectNowhere
    <2>2. s \in Nat
      BY <2>1, SyncAssumption DEF Sessions
    <2>3. Moves(t, thread[t]) /\ thread[t].pc # "start"
      BY <2>1 DEF Moves, At, InCall, ClientTypes, ClientTypeOK
    <2> QED
      BY <2>1, <2>2, <2>3 DEF Begins, ClientTypes, ClientTypeOK
  <1>4. ASSUME pure # Nil, GuardedCall(t, pure) \/ PlainCall(t, pure), UNCHANGED client
        PROVE  Begins(t)
    <2>1. PICK m \in {"autoconnect", "call"} : Enter(t, m, pure, "ensure")
      BY <1>4 DEF GuardedCall, PlainCall
    <2>2. UNCHANGED <<made, async, loop, loops, started, pure, linked>>
      BY <1>4 DEF GuardedCall, PlainCall, client
    <2>3. calls' \in Nat /\ \E r : Moves(t, r) /\ r.pc # "start"
      BY <1>1, <1>4, <2>1, EnterMoves
    <2> QED
      BY <2>2, <2>3 DEF Begins, ClientTypes, ClientTypeOK
  <1>5. ASSUME Enter(t, "waitfor", Nil, "polling"),
               UNCHANGED <<made, async, loop, loops, started, client>>
        PROVE  Begins(t)
    <2>1. Moves(t, [call |-> "waitfor", s |-> Nil, pc |-> "polling", on |-> Nil])
          /\ calls' \in Nat
      BY <1>5 DEF Enter, Moves, ThreadRecords, InCall, ClientTypes, ClientTypeOK
    <2> QED
      BY <1>5, <2>1 DEF Begins, client, ClientTypes, ClientTypeOK
  <1>6. CASE Disconnect(t)
    <2>1. PICK label \in {"ensure", "shutdown"} : Enter(t, "close", pure, label)
      BY <1>6 DEF Disconnect, CloseCall
    <2>2. pure # Nil /\ UNCHANGED <<made, async, loop, loops, started, pure, linked>>
      BY <1>6 DEF Disconnect, CloseCall, client
    <2>3. calls' \in Nat /\ \E r : Moves(t, r) /\ r.pc # "start"
      BY <1>1, <2>1, <2>2, EnterMoves
    <2> QED
      BY <2>2, <2>3 DEF Begins, ClientTypes, ClientTypeOK
  <1>7. CASE WaitEnds(t)
    <2>1. Moves(t, Free) /\ Free.pc # "start"
      BY <1>7, DoneMoves DEF WaitEnds, Free
    <2> QED
      BY <1>7, <2>1 DEF WaitEnds, Begins, client, ClientTypes, ClientTypeOK
  <1> QED
    BY <1>2, <1>3, <1>4, <1>5, <1>6, <1>7
       DEF KeyCommand, RawCommand, WaitCommand, PauseCommand, ConnectCommand, WaitFor

\* A call that begins keeps the types and what StartsWhenNone says.
LEMMA BeginsKeeps ==
  ASSUME ClientTypes, NEW t \in Threads, Begins(t)
  PROVE  ClientTypes' /\ (StartsWhenNone => StartsWhenNone')
         /\ (OneLoopPerSession => OneLoopPerSession')
  <1>1. PICK r : Moves(t, r) /\ r.pc # "start"
    BY DEF Begins
  <1>2. /\ thread' \in [Threads -> ThreadRecords] /\ CallsHaveSessions'
        /\ thread'[t] = r
        /\ \A u \in Threads : u # t => thread'[u] = thread[u]
    BY <1>1, MovesKeep
  <1>3. ClientTypes'
    BY <1>2 DEF Begins, ClientTypes, ClientTypeOK
  <1>4. StartsWhenNone => StartsWhenNone'
    BY <1>1, <1>2 DEF Begins, StartsWhenNone, At, Alive
  <1> QED
    BY <1>3, <1>4 DEF Begins, OneLoopPerSession

(***************************************************************************)
(* The steps inside a call.                                                *)
(***************************************************************************)
\* They keep the types of the client's own fields.
LEMMA StepFields ==
  ASSUME ClientTypes, NEW t \in Threads, Step(t)
  PROVE  pure' \in Sessions \cup {Nil} /\ linked' \in BOOLEAN
  BY DEF Step, ClientTypes, ClientTypeOK

\* What each does to its thread and to the loops: it starts a loop for its
\* session, stops that of its session, or leaves the loops alone.
Starts(t) ==
  \E l \in Loops : /\ thread[t].pc = "start"
                   /\ loops' = [loops EXCEPT ![l] = "running"]
                   /\ loop' = [loop EXCEPT ![thread[t].s] = l]

CallEffect(t) ==
  /\ \E r : Moves(t, r) /\ (r.pc = "start" => ~Alive(loop[r.s]) /\ UNCHANGED <<loop, loops>>)
  /\ Starts(t) \/ Stop(thread[t].s) \/ UNCHANGED <<loop, loops>>
  /\ thread[t].s \in Sessions
  /\ started' \in Nat /\ UNCHANGED <<made, calls>>
  /\ async' \in [Sessions -> {"none", "new", "connected"}]

\* Every step of a call has such an effect.
LEMMA StepEffect ==
  ASSUME ClientTypes, NEW t \in Threads, CallStep(t)
  PROVE  CallEffect(t)
  <1> DEFINE rec == thread[t]
  <1>1. rec \in ThreadRecords
    BY DEF ClientTypes, ClientTypeOK
  <1>2. \A label \in InCall \ {"wait"} :
          Goto(t, label) /\ rec.s \in Sessions => Moves(t, [rec EXCEPT !.pc = label])
    <2> SUFFICES ASSUME NEW label \in InCall \ {"wait"}, Goto(t, label), rec.s \in Sessions
                 PROVE  Moves(t, [rec EXCEPT !.pc = label])
      OBVIOUS
    <2>1. [rec EXCEPT !.pc = label] \in ThreadRecords
      BY <1>1 DEF ThreadRecords
    <2>2. [rec EXCEPT !.pc = label].pc = label /\ [rec EXCEPT !.pc = label].s = rec.s
      BY <1>1 DEF ThreadRecords
    <2>3. thread' = [thread EXCEPT ![t] = [rec EXCEPT !.pc = label]]
      BY DEF Goto
    <2> QED
      BY <2>1, <2>2, <2>3 DEF Moves
  <1>3. rec.pc \in InCall => rec.s \in Sessions
    BY DEF ClientTypes, CallsHaveSessions
  <1> USE DEF At
  <1>4. CASE Ensure(t)
    <2> DEFINE label == IF HasWorker(rec.s) THEN "submit" ELSE "start"
               r == [rec EXCEPT !.pc = label]
    <2>1. rec.s \in Sessions
      BY <1>3, <1>4 DEF Ensure, InCall
    <2>2. Moves(t, r)
      <3>1. label \in InCall \ {"wait"}
        BY DEF InCall
      <3>2. Goto(t, label)
        BY <1>4 DEF Ensure
      <3> HIDE DEF label
      <3> QED
        BY <1>2, <2>1, <3>1, <3>2
    <2>3. r.pc = "start" => ~Alive(loop[r.s])
      BY <1>1 DEF HasWorker, ThreadRecords
    <2>4. UNCHANGED <<made, async, loop, loops, started, calls>>
      BY <1>4 DEF Ensure
    <2> HIDE DEF r
    <2> QED
      BY <2>1, <2>2, <2>3, <2>4 DEF CallEffect, ClientTypes, ClientTypeOK
  <1>5. CASE StartLoop(t)
    <2>1. rec.s \in Sessions /\ rec.pc = "start" /\ Goto(t, "submit")
      BY <1>3, <1>5 DEF StartLoop, InCall
    <2> DEFINE r == [rec EXCEPT !.pc = "submit"]
    <2>2. Moves(t, r) /\ r.pc # "start"
      BY <1>1, <1>2, <2>1 DEF InCall, ThreadRecords
    <2>3. started + 1 \in Nat
      BY DEF ClientTypes, ClientTypeOK
    <2>4. Starts(t) /\ started' = started + 1 /\ UNCHANGED <<made, async, calls>>
      BY <1>5 DEF StartLoop, Starts
    <2> HIDE DEF r
    <2> QED
      BY <2>1, <2>2, <2>3, <2>4 DEF CallEffect, ClientTypes, ClientTypeOK
  <1>6. CASE Submit(t)
    <2>1. rec.s \in Sessions
      BY <1>3, <1>6 DEF Submit, InCall
    <2>2. \E r : Moves(t, r) /\ r.pc # "start"
      <3>1. CASE loop[rec.s] = Nil
        BY <1>6, <3>1, DoneMoves DEF Submit, Free
      <3>2. CASE loop[rec.s] # Nil
        <4> DEFINE r == [rec EXCEPT !.pc = "wait", !.on = loop[rec.s]]
        <4>1. loop[rec.s] \in Loops
          BY <2>1, <3>2 DEF ClientTypes, ClientTypeOK
        <4>2. thread' = [thread EXCEPT ![t] = r]
          BY <1>6, <3>2 DEF Submit
        <4>3. r \in ThreadRecords /\ r.pc = "wait" /\ r.on = loop[rec.s] /\ r.s = rec.s
          BY <1>1, <4>1 DEF ThreadRecords, InCall
        <4> QED
          BY <2>1, <4>1, <4>2, <4>3 DEF Moves
      <3> QED
        BY <3>1, <3>2
    <2>3. UNCHANGED <<made, async, loop, loops, started, calls>>
      BY <1>6 DEF Submit
    <2> QED
      BY <2>1, <2>2, <2>3 DEF CallEffect, ClientTypes, ClientTypeOK
  <1>7. CASE Connected(t)
    <2>1. rec.s \in Sessions
      BY <1>3, <1>7 DEF Connected, Ready, InCall
    <2>2. \E r : Moves(t, r) /\ r.pc # "start"
      <3>1. CASE rec.call = "connect"
        BY <1>7, <3>1, DoneMoves DEF Connected, Free
      <3>2. CASE rec.call # "connect"
        <4> DEFINE r == [rec EXCEPT !.call = "call", !.pc = "ensure"]
        <4>1. thread' = [thread EXCEPT ![t] = r]
          BY <1>7, <3>2 DEF Connected
        <4>2. r \in ThreadRecords /\ r.pc = "ensure" /\ r.s = rec.s
          BY <1>1 DEF ThreadRecords, InCall
        <4> QED
          BY <2>1, <4>1, <4>2 DEF Moves
      <3> QED
        BY <3>1, <3>2
    <2>3. async' \in [Sessions -> {"none", "new", "connected"}]
      BY <1>7 DEF Connected, ClientTypes, ClientTypeOK
    <2>4. UNCHANGED <<made, loop, loops, started, calls>>
      BY <1>7 DEF Connected
    <2> QED
      BY <2>1, <2>2, <2>3, <2>4 DEF CallEffect, ClientTypes, ClientTypeOK
  <1>8. CASE Returned(t)
    <2>1. rec.s \in Sessions
      BY <1>3, <1>8 DEF Returned, Ready, InCall
    <2>2. Moves(t, Free) /\ Free.pc # "start"
      BY <1>8, DoneMoves DEF Returned, Free
    <2>3. UNCHANGED <<made, async, loop, loops, started, calls>>
      BY <1>8 DEF Returned
    <2> QED
      BY <2>1, <2>2, <2>3 DEF CallEffect, ClientTypes, ClientTypeOK
  <1>9. CASE Closed(t)
    <2>1. rec.s \in Sessions /\ Goto(t, "shutdown")
      BY <1>3, <1>9 DEF Closed, Ready, InCall
    <2> DEFINE r == [rec EXCEPT !.pc = "shutdown"]
    <2>2. Moves(t, r) /\ r.pc # "start"
      BY <1>1, <1>2, <2>1 DEF InCall, ThreadRecords
    <2>3. async' \in [Sessions -> {"none", "new", "connected"}]
      BY <1>9 DEF Closed, ClientTypes, ClientTypeOK
    <2>4. UNCHANGED <<made, loop, loops, started, calls>>
      BY <1>9 DEF Closed
    <2> HIDE DEF r
    <2> QED
      BY <2>1, <2>2, <2>3, <2>4 DEF CallEffect, ClientTypes, ClientTypeOK
  <1>10. CASE Shutdown(t)
    <2>1. rec.s \in Sessions /\ Stop(rec.s)
      BY <1>3, <1>10 DEF Shutdown, InCall
    <2>2. Moves(t, Free) /\ Free.pc # "start"
      BY <1>10, DoneMoves DEF Shutdown, Free
    <2>3. UNCHANGED <<made, async, started, calls>>
      BY <1>10 DEF Shutdown
    <2> QED
      BY <2>1, <2>2, <2>3 DEF CallEffect, ClientTypes, ClientTypeOK
  <1> QED
    BY <1>4, <1>5, <1>6, <1>7, <1>8, <1>9, <1>10 DEF CallStep

\* A step of a call keeps the types.
LEMMA StepTypes ==
  ASSUME ClientTypes, NEW t \in Threads, Step(t)
  PROVE  ClientTypes' /\ CallEffect(t)
  <1>1. CallEffect(t)
    BY StepEffect DEF Step
  <1>2. PICK r : Moves(t, r)
    BY <1>1 DEF CallEffect
  <1>3. thread' \in [Threads -> ThreadRecords] /\ CallsHaveSessions'
    BY <1>2, MovesKeep
  <1>4. loop' \in [Sessions -> Loops \cup {Nil}] /\ loops' \in [Loops -> LoopStates]
    <2>1. CASE Starts(t)
      <3>1. PICK l \in Loops : /\ loops' = [loops EXCEPT ![l] = "running"]
                               /\ loop' = [loop EXCEPT ![thread[t].s] = l]
        BY <2>1 DEF Starts
      <3>2. "running" \in LoopStates
        BY DEF LoopStates
      <3> QED
        BY <3>1, <3>2 DEF ClientTypes, ClientTypeOK
    <2>2. CASE Stop(thread[t].s)
      BY <1>1, <2>2, StopKeeps DEF CallEffect
    <2>3. CASE UNCHANGED <<loop, loops>>
      BY <2>3 DEF ClientTypes, ClientTypeOK
    <2> QED
      BY <1>1, <2>1, <2>2, <2>3 DEF CallEffect
  <1>5. pure' \in Sessions \cup {Nil} /\ linked' \in BOOLEAN
    BY StepFields
  <1>6. made' \in Nat /\ calls' \in Nat /\ started' \in Nat
        /\ async' \in [Sessions -> {"none", "new", "connected"}]
    BY <1>1 DEF CallEffect, ClientTypes, ClientTypeOK
  <1> QED
    BY <1>1, <1>3, <1>4, <1>5, <1>6 DEF ClientTypes, ClientTypeOK

\* So do the finalizer and the end of a loop.
LEMMA WorkerTypes ==
  ASSUME ClientTypes,
         \/ \E s \in Sessions : Collect(s)
         \/ \E l \in Loops : EndLoop(l)
  PROVE  ClientTypes'
  <1>1. ASSUME NEW s \in Sessions, Collect(s)
        PROVE  ClientTypes'
    <2>1. Stop(s) /\ UNCHANGED <<made, async, started, thread, calls, pure, linked>>
      BY <1>1 DEF Collect, Finalize, client
    <2>2. loop' \in [Sessions -> Loops \cup {Nil}] /\ loops' \in [Loops -> LoopStates]
      BY <2>1, StopKeeps
    <2> QED
      BY <2>1, <2>2 DEF ClientTypes, ClientTypeOK, CallsHaveSessions
  <1>2. ASSUME NEW l \in Loops, EndLoop(l)
        PROVE  ClientTypes'
    <2>1. /\ loops' = [loops EXCEPT ![l] = "stopped"]
          /\ UNCHANGED <<made, async, loop, started, thread, calls, pure, linked>>
      BY <1>2 DEF EndLoop, LoopEnds, client
    <2>2. loops' \in [Loops -> LoopStates]
      BY <2>1 DEF ClientTypes, ClientTypeOK, LoopStates
    <2> QED
      BY <2>1, <2>2 DEF ClientTypes, ClientTypeOK, CallsHaveSessions
  <1> QED
    BY <1>1, <1>2

\* At the start there are no sessions and no loops.
LEMMA ClientInit == Init => ClientInv
  <1> SUFFICES ASSUME Init PROVE ClientInv
    OBVIOUS
  <1>1. Free \in ThreadRecords
    BY DEF Free, ThreadRecords
  <1>2. ClientTypeOK
    BY <1>1 DEF Init, SyncInit, ClientTypeOK, LoopStates
  <1>3. CallsHaveSessions /\ StartsWhenNone
    BY DEF Init, SyncInit, Free, CallsHaveSessions, StartsWhenNone, At, InCall
  <1>4. OneLoopPerSession
    BY DEF Init, SyncInit, OneLoopPerSession
  <1> QED
    BY <1>2, <1>3, <1>4 DEF ClientInv, ClientTypes

\* The fields of sessions and client keep their types, and every call in
\* progress has its session, whatever the threads do to each other.
THEOREM ClientTypesHold == Spec => []ClientTypes
  <1>1. Init => ClientTypes
    BY ClientInit DEF ClientInv
  <1>2. ASSUME ClientTypes, [Next]_vars
        PROVE  ClientTypes'
    <2>1. ASSUME NEW t \in Threads, Step(t)
          PROVE  ClientTypes'
      BY <1>2, <2>1, StepTypes
    <2>2. ASSUME NEW t \in Threads,
                 \/ Connect(t) \/ ConnectNowhere(t) \/ KeyCommand(t) \/ RawCommand(t)
                 \/ WaitCommand(t) \/ PauseCommand(t) \/ ConnectCommand(t) \/ Disconnect(t)
                 \/ WaitFor(t) \/ WaitEnds(t)
          PROVE  ClientTypes'
      BY <1>2, <2>2, MethodsBegin, BeginsKeeps
    <2>3. CASE UNCHANGED vars
      BY <1>2, <2>3 DEF vars, syncVars, ClientTypes, ClientTypeOK, CallsHaveSessions
    <2> QED
      BY <1>2, <2>1, <2>2, <2>3, WorkerTypes DEF Next
  <1> QED
    BY <1>1, <1>2, PTL DEF Spec

-----------------------------------------------------------------------------
(***************************************************************************)
(* One thread.                                                             *)
(***************************************************************************)
\* Stopping the loop of a session leaves every running loop with its session,
\* and wakes none.
LEMMA StopLeaves ==
  ASSUME ClientTypes, NEW s \in Sessions, Stop(s)
  PROVE  /\ OneLoopPerSession => OneLoopPerSession'
         /\ \A q \in Sessions : ~Alive(loop[q]) => ~Alive(loop[q])'
  <1>1. /\ loop'[s] = Nil
        /\ \A q \in Sessions : q # s => loop'[q] = loop[q]
        /\ \A l \in Loops : loops'[l] = IF l = loop[s] /\ Alive(l) THEN "stopping" ELSE loops[l]
    BY StopKeeps
  <1>2. ASSUME OneLoopPerSession
        PROVE  OneLoopPerSession'
    <2> SUFFICES ASSUME NEW l \in Loops, loops'[l] = "running"
                 PROVE  \E q \in Sessions : loop'[q] = l
      BY DEF OneLoopPerSession
    <2>1. loops[l] = "running" /\ l # loop[s]
      BY <1>1, NilIsNone DEF Alive
    <2>2. PICK q \in Sessions : loop[q] = l
      BY <1>2, <2>1 DEF OneLoopPerSession
    <2> QED
      BY <1>1, <2>1, <2>2
  <1>3. ASSUME NEW q \in Sessions, ~Alive(loop[q])
        PROVE  ~(loop'[q] # Nil /\ loops'[loop'[q]] \in {"running", "stopping"})
    <2>1. CASE loop'[q] = Nil
      BY <2>1
    <2>2. CASE loop'[q] # Nil
      <3>1. loop'[q] = loop[q] /\ loop[q] \in Loops
        BY <1>1, <2>2 DEF ClientTypes, ClientTypeOK
      <3>2. loops'[loop[q]] = loops[loop[q]]
        BY <1>1, <1>3, <3>1
      <3> QED
        BY <1>3, <2>2, <3>1, <3>2 DEF Alive
    <2> QED
      BY <2>1, <2>2
  <1> QED
    BY <1>2, <1>3 DEF Alive

\* With one thread the invariant is inductive.
LEMMA OneThreadStep ==
  ASSUME ClientInv, \A t, u \in Threads : t = u, [Next]_vars
  PROVE  ClientInv'
  <1> USE DEF ClientInv
  <1>1. ASSUME NEW t \in Threads,
               \/ Connect(t) \/ ConnectNowhere(t) \/ KeyCommand(t) \/ RawCommand(t)
               \/ WaitCommand(t) \/ PauseCommand(t) \/ ConnectCommand(t) \/ Disconnect(t)
               \/ WaitFor(t) \/ WaitEnds(t)
        PROVE  ClientInv'
    BY <1>1, MethodsBegin, BeginsKeeps
  <1>2. ASSUME NEW t \in Threads, Step(t)
        PROVE  ClientInv'
    <2>1. ClientTypes' /\ CallEffect(t)
      BY <1>2, StepTypes
    <2>2. PICK r : /\ Moves(t, r)
                   /\ r.pc = "start" => ~Alive(loop[r.s]) /\ UNCHANGED <<loop, loops>>
      BY <2>1 DEF CallEffect
    <2>3. thread'[t] = r
      BY <2>2, MovesKeep
    <2>4. StartsWhenNone'
      BY <2>2, <2>3 DEF StartsWhenNone, At, Alive
    <2>5. OneLoopPerSession'
      <3>1. CASE Starts(t)
        <4>1. PICK l \in Loops : /\ thread[t].pc = "start"
                                 /\ loops' = [loops EXCEPT ![l] = "running"]
                                 /\ loop' = [loop EXCEPT ![thread[t].s] = l]
          BY <3>1 DEF Starts
        <4> DEFINE s == thread[t].s
        <4>2. s \in Sessions /\ ~Alive(loop[s])
          BY <2>1, <4>1 DEF CallEffect, StartsWhenNone, At
        <4>3. loop'[s] = l /\ \A q \in Sessions : q # s => loop'[q] = loop[q]
          BY <4>1, <4>2 DEF ClientTypes, ClientTypeOK
        <4> SUFFICES ASSUME NEW k \in Loops, loops'[k] = "running"
                     PROVE  \E q \in Sessions : loop'[q] = k
          BY DEF OneLoopPerSession
        <4>4. CASE k = l
          BY <4>2, <4>3, <4>4
        <4>5. CASE k # l
          <5>1. loops[k] = "running"
            BY <4>1, <4>5 DEF ClientTypes, ClientTypeOK
          <5>2. PICK q \in Sessions : loop[q] = k
            BY <5>1 DEF OneLoopPerSession
          <5>3. q # s
            BY <4>2, <5>1, <5>2, NilIsNone DEF Alive
          <5> QED
            BY <4>3, <5>2, <5>3
        <4> QED
          BY <4>4, <4>5
      <3>2. CASE Stop(thread[t].s)
        BY <2>1, <3>2, StopLeaves DEF CallEffect
      <3>3. CASE UNCHANGED <<loop, loops>>
        BY <3>3 DEF OneLoopPerSession
      <3> QED
        BY <2>1, <3>1, <3>2, <3>3 DEF CallEffect
    <2> QED
      BY <2>1, <2>4, <2>5
  <1>3. ASSUME NEW s \in Sessions, Collect(s)
        PROVE  ClientInv'
    <2>1. ClientTypes'
      BY <1>3, WorkerTypes
    <2>2. Stop(s) /\ UNCHANGED thread
      BY <1>3 DEF Collect, Finalize
    <2>3. /\ OneLoopPerSession'
          /\ \A q \in Sessions : ~Alive(loop[q]) => ~Alive(loop[q])'
      BY <2>2, StopLeaves
    <2>4. StartsWhenNone'
      <3> SUFFICES ASSUME NEW t \in Threads, thread[t].pc = "start"
                   PROVE  ~Alive(loop[thread[t].s])'
        BY <2>2 DEF StartsWhenNone, At
      <3>1. thread[t].s \in Sessions /\ ~Alive(loop[thread[t].s])
        BY DEF StartsWhenNone, At, ClientTypes, CallsHaveSessions, InCall
      <3> QED
        BY <2>2, <2>3, <3>1 DEF Alive
    <2> QED
      BY <2>1, <2>3, <2>4
  <1>4. ASSUME NEW l \in Loops, EndLoop(l)
        PROVE  ClientInv'
    <2>1. ClientTypes'
      BY <1>4, WorkerTypes
    <2>2. loops' = [loops EXCEPT ![l] = "stopped"] /\ UNCHANGED <<loop, thread>>
      BY <1>4 DEF EndLoop, LoopEnds
    <2>3. \A k \in Loops : loops'[k] \in {loops[k], "stopped"}
      BY <2>2 DEF ClientTypes, ClientTypeOK
    <2>4. OneLoopPerSession'
      BY <2>2, <2>3 DEF OneLoopPerSession
    <2>5. StartsWhenNone'
      <3> SUFFICES ASSUME NEW t \in Threads, thread[t].pc = "start"
                   PROVE  ~Alive(loop[thread[t].s])'
        BY <2>2 DEF StartsWhenNone, At
      <3>1. thread[t].s \in Sessions /\ ~Alive(loop[thread[t].s])
        BY DEF StartsWhenNone, At, ClientTypes, CallsHaveSessions, InCall
      <3>2. loop[thread[t].s] \in Loops \cup {Nil}
        BY <3>1 DEF ClientTypes, ClientTypeOK
      <3> QED
        BY <2>2, <2>3, <3>1, <3>2 DEF Alive
    <2> QED
      BY <2>1, <2>4, <2>5
  <1>5. CASE UNCHANGED vars
    BY <1>5 DEF vars, syncVars, ClientTypes, ClientTypeOK, CallsHaveSessions,
                StartsWhenNone, At, Alive, OneLoopPerSession
  <1> QED
    BY <1>1, <1>2, <1>3, <1>4, <1>5 DEF Next

\* A client used from one thread has at most one running loop per session:
\* every running loop is the one its session will use, so close() runs where
\* connect() did and stops it (session.py, _ensure_worker_loop).
THEOREM LoopsOwned ==
  ASSUME \A t, u \in Threads : t = u
  PROVE  Spec => []OneLoopPerSession
  <1>1. ASSUME ClientInv, [Next]_vars
        PROVE  ClientInv'
    BY <1>1, OneThreadStep
  <1>2. ClientInv => OneLoopPerSession
    BY DEF ClientInv
  <1> QED
    BY <1>1, <1>2, ClientInit, PTL DEF Spec

-----------------------------------------------------------------------------
(***************************************************************************)
(* The stress tools.  Tasks are numbered in the order they start, so a     *)
(* connection that is not listed has no scenario that is still active.     *)
(***************************************************************************)
StressStates == {"configured", "takes", "stays", "failed", "recovers", "completed"}
Scenarios == [link : Links, pc : {"waits", "acts", "cancelled", "over"}]

Numbered(k) ==
  /\ scenarios \in [1..k -> Scenarios]
  /\ listed \in [Links -> 0..k]

StressInv ==
  /\ \E k \in Nat : Numbered(k)
  /\ stress \in [StressKinds -> StressStates] /\ held \in [StressKinds -> Int]
  /\ OneScenarioPerLink

\* The next task has the next number.
LEMMA NextNumber ==
  ASSUME NEW k \in Nat, Numbered(k)
  PROVE  NewTask = k + 1
  <1>1. DOMAIN scenarios = 1..k
    BY DEF Numbered
  <1>2. Cardinality(1..k) = k
    BY FS_Interval
  <1> QED
    BY <1>1, <1>2 DEF NewTask

\* A scenario that moves on, without becoming active, keeps the list right.
LEMMA ScenarioMoves ==
  ASSUME StressInv, NEW t \in DOMAIN scenarios,
         NEW pc \in {"waits", "acts", "cancelled", "over"},
         pc \in {"waits", "acts"} => scenarios[t].pc \in {"waits", "acts"},
         scenarios' = [scenarios EXCEPT ![t].pc = pc],
         UNCHANGED <<listed, stress, held>>
  PROVE  StressInv'
  <1>1. PICK k \in Nat : Numbered(k)
    BY DEF StressInv
  <1>2. scenarios' \in [1..k -> Scenarios]
    BY <1>1 DEF Numbered, Scenarios
  <1>3. /\ scenarios'[t].pc = pc /\ scenarios'[t].link = scenarios[t].link
        /\ \A u \in 1..k : u # t => scenarios'[u] = scenarios[u]
    BY <1>1 DEF Numbered, Scenarios
  <1>4. Numbered(k)'
    BY <1>1, <1>2 DEF Numbered
  <1>5. \A u \in 1..k : scenarios'[u].pc \in {"waits", "acts"} => listed[scenarios'[u].link] = u
    BY <1>1, <1>3 DEF StressInv, OneScenarioPerLink, Numbered
  <1>6. OneScenarioPerLink'
    BY <1>2, <1>5 DEF StressInv, OneScenarioPerLink
  <1> QED
    BY <1>4, <1>6 DEF StressInv

\* The scenarios of connections keep the invariant.
LEMMA LinkStep ==
  ASSUME StressInv, LinkNext
  PROVE  StressInv'
  <1>1. PICK k \in Nat : Numbered(k)
    BY DEF StressInv
  <1>2. DOMAIN scenarios = 1..k
    BY <1>1 DEF Numbered
  <1>3. ASSUME NEW l \in Links, StartScenario(l)
        PROVE  StressInv'
    <2> DEFINE r == [link |-> l, pc |-> "waits"]
    <2>1. /\ listed[l] = 0 /\ UNCHANGED <<stress, held>>
          /\ scenarios' = [t \in 1..k \cup {k + 1} |-> IF t = k + 1 THEN r ELSE scenarios[t]]
          /\ listed' = [listed EXCEPT ![l] = k + 1]
      BY <1>1, <1>2, <1>3, NextNumber DEF StartScenario
    <2>2. 1..k \cup {k + 1} = 1..(k + 1) /\ k + 1 \in 1..(k + 1) /\ k + 1 \notin 1..k
      OBVIOUS
    <2>3. r \in Scenarios
      BY DEF Scenarios
    <2>4. /\ scenarios'[k + 1] = r
          /\ \A t \in 1..k : scenarios'[t] = scenarios[t]
      BY <2>1, <2>2
    <2>5. scenarios' \in [1..(k + 1) -> Scenarios]
      BY <1>1, <2>1, <2>2, <2>3 DEF Numbered
    <2>6. listed' \in [Links -> 0..(k + 1)] /\ \A m \in Links : m # l => listed'[m] = listed[m]
      BY <1>1, <2>1 DEF Numbered
    <2>7. Numbered(k + 1)'
      BY <2>5, <2>6 DEF Numbered
    <2>8. listed'[l] = k + 1
      BY <1>1, <2>1 DEF Numbered
    <2>9. ASSUME NEW t \in 1..(k + 1), scenarios'[t].pc \in {"waits", "acts"}
          PROVE  listed'[scenarios'[t].link] = t
      <3>1. CASE t = k + 1
        BY <2>4, <2>8, <3>1
      <3>2. CASE t \in 1..k
        <4>1. scenarios'[t] = scenarios[t] /\ scenarios[t].link \in Links
          BY <1>1, <2>4, <3>2 DEF Numbered, Scenarios
        <4>2. listed[scenarios[t].link] = t
          BY <1>2, <2>9, <3>2, <4>1 DEF StressInv, OneScenarioPerLink
        <4>3. scenarios[t].link # l
          BY <2>1, <3>2, <4>2
        <4> QED
          BY <2>6, <4>1, <4>2, <4>3
      <3> QED
        BY <2>2, <3>1, <3>2
    <2>10. OneScenarioPerLink'
      BY <2>1, <2>5, <2>9 DEF StressInv, OneScenarioPerLink
    <2>11. k + 1 \in Nat
      OBVIOUS
    <2> QED
      BY <2>1, <2>7, <2>10, <2>11 DEF StressInv
  <1>4. ASSUME NEW l \in Links, StopScenario(l)
        PROVE  StressInv'
    <2> DEFINE t == listed[l]
               pc == IF scenarios[t].pc = "over" THEN "over" ELSE "cancelled"
    <2>1. t \in 1..k
      BY <1>1, <1>4 DEF StopScenario, Numbered
    <2>2. /\ scenarios' = [scenarios EXCEPT ![t].pc = pc]
          /\ listed' = [listed EXCEPT ![l] = 0]
          /\ UNCHANGED <<stress, held>>
      BY <1>4 DEF StopScenario
    <2>3. pc \in {"cancelled", "over"}
      OBVIOUS
    <2> HIDE DEF pc
    <2>4. scenarios' \in [1..k -> Scenarios]
      BY <1>1, <2>1, <2>2, <2>3 DEF Numbered, Scenarios
    <2>5. /\ scenarios'[t].pc = pc
          /\ \A u \in 1..k : u # t => scenarios'[u] = scenarios[u]
      BY <1>1, <2>1, <2>2 DEF Numbered, Scenarios
    <2>6. /\ listed' \in [Links -> 0..k]
          /\ \A m \in Links : m # l => listed'[m] = listed[m]
      BY <1>1, <2>2 DEF Numbered
    <2>7. ASSUME NEW u \in 1..k, scenarios'[u].pc \in {"waits", "acts"}
          PROVE  listed'[scenarios'[u].link] = u
      <3>1. u # t /\ scenarios'[u] = scenarios[u]
        BY <2>3, <2>5, <2>7
      <3>2. listed[scenarios[u].link] = u /\ scenarios[u].link \in Links
        BY <1>1, <1>2, <2>7, <3>1 DEF StressInv, OneScenarioPerLink, Numbered, Scenarios
      <3> QED
        BY <2>6, <3>1, <3>2
    <2>8. OneScenarioPerLink'
      BY <2>2, <2>4, <2>7 DEF StressInv, OneScenarioPerLink
    <2> QED
      BY <2>2, <2>4, <2>6, <2>8 DEF StressInv, Numbered
  <1>5. ASSUME NEW t \in 1..MaxStarts, Interrupt(t)
        PROVE  StressInv'
    BY <1>5, ScenarioMoves DEF Interrupt
  <1>6. ASSUME NEW t \in 1..MaxStarts, InterruptEnds(t)
        PROVE  StressInv'
    BY <1>6, ScenarioMoves DEF InterruptEnds
  <1>7. ASSUME NEW t \in 1..MaxStarts, ScenarioEnds(t)
        PROVE  StressInv'
    BY <1>7, ScenarioMoves DEF ScenarioEnds
  <1> QED
    BY <1>3, <1>4, <1>5, <1>6, <1>7 DEF LinkNext

\* So do the tests that take resources.
LEMMA TestStep ==
  ASSUME StressInv, NEW k \in StressKinds,
         StartStressTest(k) \/ GiveUp(k) \/ StressStep(k)
  PROVE  StressInv'
  <1>1. UNCHANGED <<listed, scenarios>>
    BY DEF StartStressTest, GiveUp, StressStep, Take, HasEnough, Stay, TestRecovery
  <1>2. stress \in [StressKinds -> StressStates] /\ held \in [StressKinds -> Int]
    BY DEF StressInv
  <1> DEFINE Over == {"recovers", "completed", "failed"}
  <1> DEFINE Sets(s, n) == /\ s \in StressStates /\ n \in Int
                           /\ stress' = [stress EXCEPT ![k] = s]
                           /\ held' = [held EXCEPT ![k] = n]
                           /\ s \in Over => n = 0
  <1>3. \E s, n : Sets(s, n)
    <2>1. stress = [stress EXCEPT ![k] = stress[k]] /\ held = [held EXCEPT ![k] = held[k]]
          /\ stress[k] \in StressStates /\ held[k] \in Int
      BY <1>2
    <2>2. stress[k] \in Over => held[k] = 0
      BY DEF StressInv, OneScenarioPerLink
    <2>3. StartStressTest(k) => Sets("takes", held[k])
      BY <2>1 DEF StartStressTest, StressStates
    <2>4. GiveUp(k) => Sets("failed", 0)
      BY DEF GiveUp, StressStates
    <2>5. Take(k) => Sets("takes", held[k] + 1)
      BY <2>1 DEF Take, StressStates
    <2>6. HasEnough(k) => Sets("stays", held[k])
      BY <2>1 DEF HasEnough, StressStates
    <2>7. Stay(k) => Sets("recovers", 0)
      BY DEF Stay, StressStates
    <2>8. TestRecovery(k) => Sets("completed", held[k])
      BY <2>1, <2>2 DEF TestRecovery, StressStates
    <2> HIDE DEF Sets
    <2> QED
      BY <2>3, <2>4, <2>5, <2>6, <2>7, <2>8 DEF StressStep
  <1>4. PICK s, n : Sets(s, n)
    BY <1>3
  <1>5. /\ stress' \in [StressKinds -> StressStates] /\ held' \in [StressKinds -> Int]
        /\ stress'[k] = s /\ held'[k] = n
        /\ \A j \in StressKinds : j # k => stress'[j] = stress[j] /\ held'[j] = held[j]
    BY <1>2, <1>4
  <1>6. \A j \in StressKinds : stress'[j] \in Over => held'[j] = 0
    BY <1>5, <1>4 DEF StressInv, OneScenarioPerLink
  <1>7. OneScenarioPerLink'
    BY <1>1, <1>6 DEF StressInv, OneScenarioPerLink
  <1> QED
    BY <1>1, <1>5, <1>7 DEF StressInv, Numbered

\* A connection is interrupted by one scenario at a time, one that can be
\* stopped, and a stress test that is over holds nothing
\* (network_stress_testing.py).
THEOREM OneScenario == StressSpec => []OneScenarioPerLink
  <1>1. StressInit => StressInv
    <2> SUFFICES ASSUME StressInit PROVE StressInv
      OBVIOUS
    <2>1. 1..0 = {} /\ 0 \in 0..0 /\ 0 \in Nat
      OBVIOUS
    <2>2. Numbered(0)
      BY <2>1 DEF StressInit, Numbered
    <2>3. OneScenarioPerLink
      BY DEF StressInit, OneScenarioPerLink
    <2>4. stress \in [StressKinds -> StressStates] /\ held \in [StressKinds -> Int]
      BY DEF StressInit, StressStates
    <2> QED
      BY <2>1, <2>2, <2>3, <2>4 DEF StressInv
  <1>2. ASSUME StressInv, [LinkNext \/ StressNext]_stressVars
        PROVE  StressInv'
    <2>1. CASE UNCHANGED stressVars
      BY <1>2, <2>1 DEF stressVars, StressInv, Numbered, OneScenarioPerLink
    <2> QED
      BY <1>2, <2>1, LinkStep, TestStep DEF StressNext
  <1>3. StressInv => OneScenarioPerLink
    BY DEF StressInv
  <1> QED
    BY <1>1, <1>2, <1>3, PTL DEF StressSpec
=============================================================================
