---------------------------- MODULE P3270Client ----------------------------
(***************************************************************************)
(* P3270Client (p3270_client.py), the p3270-compatible facade: it keeps    *)
(* one blocking Session and its own idea of being connected.  Every        *)
(* command swallows its exceptions.                                        *)
(***************************************************************************)
EXTENDS SyncSession

VARIABLES
  pure,     \* P3270Client._pure_session
  linked    \* P3270Client._connected

vars == <<syncVars, pure, linked>>
client == <<pure, linked>>

Init ==
  /\ SyncInit
  /\ pure = Nil
  /\ linked = FALSE

\* connect(): a new Session replaces the old one, which is not closed.
Connect(t) ==
  LET s == made + 1 IN
  /\ ~linked
  /\ s \in Sessions
  /\ made' = s
  /\ pure' = s
  /\ ConnectCall(t, s)
  /\ UNCHANGED linked

\* Without a host name connect() only makes a Session object.
ConnectNowhere(t) ==
  LET s == made + 1 IN
  /\ At(t, "idle")
  /\ ~linked
  /\ s \in Sessions
  /\ made' = s
  /\ pure' = s
  /\ UNCHANGED <<async, loop, loops, started, thread, calls, linked>>

\* _sendCommand(): keys and text, with or without a wrapper that connects.
KeyCommand(t) ==
  /\ pure # Nil
  /\ GuardedCall(t, pure) \/ PlainCall(t, pure)
  /\ UNCHANGED client

\* Bytes in hexadecimal, and every command it does not know, are sent.
RawCommand(t) ==
  /\ pure # Nil
  /\ GuardedCall(t, pure)
  /\ UNCHANGED client

\* Wait sleeps in the caller's thread, ...
WaitCommand(t) ==
  /\ pure # Nil
  /\ Enter(t, "waitfor", Nil, "polling")
  /\ UNCHANGED <<made, async, loop, loops, started, client>>

\* ... Pause and Bell in a call that connects like the keys.
PauseCommand(t) ==
  /\ pure # Nil
  /\ GuardedCall(t, pure)
  /\ UNCHANGED client

\* Connect goes through connect(), which makes another Session although the
\* command needs one; a client that is connected already stays so.
ConnectCommand(t) == pure # Nil /\ Connect(t)

\* The waitFor methods poll the client's own fields with a deadline.
WaitFor(t) ==
  /\ Enter(t, "waitfor", Nil, "polling")
  /\ UNCHANGED <<made, async, loop, loops, started, client>>

WaitEnds(t) ==
  /\ At(t, "polling")
  /\ Done(t)
  /\ UNCHANGED <<made, async, loop, loops, started, calls, client>>

Disconnect(t) ==
  /\ pure # Nil
  /\ CloseCall(t, pure)
  /\ UNCHANGED client

\* The step of a call that ends the client's method as well.
Step(t) ==
  /\ CallStep(t)
  /\ LET ended == thread'[t].pc = "idle" IN
     /\ linked' = CASE ended /\ thread[t].call = "close" -> FALSE
                    [] thread[t].call = "connect" /\ Connected(t) -> TRUE
                    [] OTHER -> linked
     /\ pure' = IF ended /\ thread[t].call = "close" THEN Nil ELSE pure

\* Only the client refers to its session.
Collect(s) == s # pure /\ Finalize(s) /\ UNCHANGED client

EndLoop(l) == LoopEnds(l) /\ UNCHANGED client

Next == \/ \E t \in Threads : \/ Connect(t) \/ ConnectNowhere(t)
                              \/ KeyCommand(t) \/ RawCommand(t) \/ WaitCommand(t)
                              \/ PauseCommand(t) \/ ConnectCommand(t)
                              \/ Disconnect(t) \/ Step(t)
                              \/ WaitFor(t) \/ WaitEnds(t)
        \/ \E s \in Sessions : Collect(s)
        \/ \E l \in Loops : EndLoop(l)

\* Threads run, coroutines on a running loop end, and CPython finalizes an
\* unreferenced object.
Fairness == /\ \A t \in Threads : WF_vars(Step(t) \/ WaitEnds(t))
            /\ \A s \in Sessions : WF_vars(Collect(s))
            /\ \A l \in Loops : WF_vars(EndLoop(l))

Spec == Init /\ [][Next]_vars /\ Fairness
-----------------------------------------------------------------------------
(***************************************************************************)
(* Properties.                                                             *)
(***************************************************************************)
\* Every call of the blocking API returns: no future waits on a loop that
\* has been stopped under it.
EveryCallReturns == \A t \in Threads : ~At(t, "idle") ~> At(t, "idle")

\* "We reuse a single loop per Session": every loop that still runs is the
\* one its session will use next, so close() runs where connect() did.
OneLoopPerSession ==
  \A l \in Loops : loops[l] = "running" => \E s \in Sessions : loop[s] = l

\* Worker threads end: that of a session the client has dropped, closed or
\* not, does not run for ever.
DroppedWorkersEnd ==
  \A l \in Loops :
    loops[l] = "running" /\ (pure = Nil \/ loop[pure] # l)
      ~> loops[l] = "stopped"

(***************************************************************************)
(* Blocking calls return and the workers of dropped sessions end           *)
(* (session.py:345, p3270_client.py:146).                                  *)
(***************************************************************************)
CallsAndWorkersEnd == EveryCallReturns /\ DroppedWorkersEnd
=============================================================================
