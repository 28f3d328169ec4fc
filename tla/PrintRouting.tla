---------------------------- MODULE PrintRouting ----------------------------
(***************************************************************************)
(* DataFlowController (data_flow_controller.py) and the printer sessions   *)
(* TCPIPPrinterSessionManager keeps for it (tcpip_printer_session_manager  *)
(* .py).  A flow and its printer session are named by the main session     *)
(* they serve; the connection pool, which ConnectionPool models, is the    *)
(* number of connections it has lent.                                      *)
(***************************************************************************)
EXTENDS Integers, FiniteSets

CONSTANTS
  Routers,        \* tasks that route print data
  Mains,          \* the main sessions, as flow ids
  PoolLimit       \* connections the pool lends at most

ASSUME RoutingAssumption ==
  /\ PoolLimit \in Nat \ {0}
  /\ {"nobody", "stopper"} \cap (Routers \cup Mains) = {}

VARIABLES
  running,      \* DataFlowController._started
  managing,     \* TCPIPPrinterSessionManager._started
  flows,        \* _active_flows
  sessions,     \* _active_sessions
  lent,         \* connections the pool counts as active
  flow_lock,    \* who holds _flow_lock
  session_lock, \* _session_lock is held by the manager's stop()
  route,        \* where each routing task is suspended
  main,         \* the main session it routes for
  stop,         \* where stop() is suspended
  to_close      \* the flows stop() still has to close

routingVars == <<running, managing, flows, sessions, lent, flow_lock,
                 session_lock, route, main, stop, to_close>>
tables == <<flows, sessions, lent>>
stopper == <<stop, to_close>>

RoutingInit ==
  /\ running = FALSE /\ managing = FALSE
  /\ flows = {} /\ sessions = {} /\ lent = 0
  /\ flow_lock = "nobody" /\ session_lock = FALSE
  /\ route = [r \in Routers |-> "idle"]
  /\ main = [r \in Routers |-> "nobody"]
  /\ stop = "idle" /\ to_close = {}

Step(r, label) == route' = [route EXCEPT ![r] = label]

-----------------------------------------------------------------------------
\* start(): the manager and its pool.
StartRouting ==
  /\ ~running /\ ~managing /\ stop = "idle"
  /\ running' = TRUE /\ managing' = TRUE
  /\ UNCHANGED <<tables, flow_lock, session_lock, route, main, stopper>>

\* process_main_session_data() found print data.
Route(r, m) ==
  /\ running
  /\ route[r] = "idle"
  /\ Step(r, "flow")
  /\ main' = [main EXCEPT ![r] = m]
  /\ UNCHANGED <<running, managing, tables, flow_lock, session_lock, stopper>>

\* The flow is there already.
KnownFlow(r) ==
  /\ route[r] = "flow"
  /\ flow_lock = "nobody"
  /\ main[r] \in flows
  /\ Step(r, "send")
  /\ UNCHANGED <<running, managing, tables, flow_lock, session_lock, main, stopper>>

\* No flow and no printer host, or a manager that is stopped: nothing was
\* created, and the handler tries to close the flow all the same.
NoFlow(r) ==
  /\ route[r] = "flow"
  /\ flow_lock = "nobody"
  /\ main[r] \notin flows
  /\ Step(r, "close")
  /\ UNCHANGED <<running, managing, tables, flow_lock, session_lock, main, stopper>>

\* create_printer_session() borrows while _flow_lock is held.
Borrow(r) ==
  /\ route[r] = "flow"
  /\ flow_lock = "nobody"
  /\ main[r] \notin flows
  /\ managing
  /\ flow_lock' = r
  /\ Step(r, "borrow")
  /\ UNCHANGED <<running, managing, tables, session_lock, main, stopper>>

\* The borrowed connection is dropped and a session that was never connected
\* is registered in its place.
Borrowed(r) ==
  /\ route[r] = "borrow"
  /\ lent < PoolLimit
  /\ ~session_lock
  /\ lent' = lent + 1
  /\ sessions' = sessions \cup {main[r]}
  /\ flows' = flows \cup {main[r]}
  /\ flow_lock' = "nobody"
  /\ Step(r, "send")
  /\ UNCHANGED <<running, managing, session_lock, main, stopper>>

\* Mutant: the lock is not released when no connection can be had.
BorrowFailsHolding(r) ==
  /\ route[r] = "borrow"
  /\ Step(r, "close")
  /\ UNCHANGED <<running, managing, tables, flow_lock, session_lock, main, stopper>>

\* A limit of the pool, a failed connection or the timeout.
BorrowFails(r) ==
  /\ route[r] = "borrow"
  /\ flow_lock' = "nobody"
  /\ Step(r, "close")
  /\ UNCHANGED <<running, managing, tables, session_lock, main, stopper>>

\* send_print_job(): get_printer_session() refuses a session that is missing
\* or, as each of them, not active.
SendRefused(r) ==
  /\ route[r] = "send"
  /\ ~session_lock
  /\ Step(r, "close")
  /\ UNCHANGED <<running, managing, tables, flow_lock, session_lock, main, stopper>>

-----------------------------------------------------------------------------
(***************************************************************************)
(* _close_flow(): the flow is popped under the lock, then the session is   *)
(* deleted, closed and given to the pool, which does not know it.          *)
(***************************************************************************)
RouteEnds(r) ==
  /\ Step(r, "idle")
  /\ main' = [main EXCEPT ![r] = "nobody"]

\* Mutant: the error path leaves the flow to somebody else.
CloseFlowSkipped(r) ==
  /\ route[r] = "close"
  /\ flow_lock = "nobody"
  /\ RouteEnds(r)
  /\ UNCHANGED <<running, managing, tables, flow_lock, session_lock, stopper>>

CloseFlow(r) ==
  /\ route[r] = "close"
  /\ flow_lock = "nobody"
  /\ \/ main[r] \in flows /\ flows' = flows \ {main[r]} /\ Step(r, "delete")
        /\ UNCHANGED main
     \/ main[r] \notin flows /\ RouteEnds(r) /\ UNCHANGED flows
  /\ UNCHANGED <<running, managing, sessions, lent, flow_lock, session_lock, stopper>>

\* close_printer_session() raises if the manager's stop() was faster.
CloseSession(r) ==
  /\ route[r] = "delete"
  /\ ~session_lock
  /\ sessions' = sessions \ {main[r]}
  /\ RouteEnds(r)
  /\ UNCHANGED <<running, managing, flows, lent, flow_lock, session_lock, stopper>>

-----------------------------------------------------------------------------
(***************************************************************************)
(* stop(): the flows there are, then the manager: its sessions are closed  *)
(* with _session_lock held and the pool is stopped.                        *)
(***************************************************************************)
StopRouting ==
  /\ running /\ stop = "idle"
  /\ flow_lock = "nobody"
  /\ stop' = "flows"
  /\ to_close' = flows
  /\ UNCHANGED <<running, managing, tables, flow_lock, session_lock, route, main>>

StopClosesFlow(m) ==
  /\ stop = "flows"
  /\ m \in to_close
  /\ flow_lock = "nobody"
  /\ flows' = flows \ {m}
  /\ sessions' = IF m \in flows THEN sessions \ {m} ELSE sessions
  /\ to_close' = to_close \ {m}
  /\ UNCHANGED <<running, managing, lent, flow_lock, session_lock, route, main, stop>>

StopManager ==
  /\ stop = "flows"
  /\ to_close = {}
  /\ sessions' = {}
  /\ session_lock' = TRUE
  /\ stop' = "sessions"
  /\ UNCHANGED <<running, managing, flows, lent, flow_lock, route, main, to_close>>

SessionsClosed ==
  /\ stop = "sessions"
  /\ session_lock' = FALSE
  /\ stop' = "pool"
  /\ UNCHANGED <<running, managing, tables, flow_lock, route, main, to_close>>

\* The pool has closed what it lent and forgotten it.
PoolStopped ==
  /\ stop = "pool"
  /\ lent' = 0
  /\ running' = FALSE /\ managing' = FALSE
  /\ stop' = "idle"
  /\ UNCHANGED <<flows, sessions, flow_lock, session_lock, route, main, to_close>>

-----------------------------------------------------------------------------
RouterStep(r) ==
  \/ KnownFlow(r) \/ NoFlow(r) \/ Borrow(r) \/ Borrowed(r) \/ BorrowFails(r)
  \/ SendRefused(r) \/ CloseFlow(r) \/ CloseSession(r)

StopperStep ==
  \/ \E m \in Mains : StopClosesFlow(m)
  \/ StopManager \/ SessionsClosed \/ PoolStopped

RoutingNext ==
  \/ StartRouting \/ StopRouting \/ StopperStep
  \/ \E r \in Routers : RouterStep(r) \/ \E m \in Mains : Route(r, m)

RoutingSpec == RoutingInit /\ [][RoutingNext]_routingVars

\* Locks are first come, first served and every await ends or times out.
RoutingFairness ==
  /\ \A r \in Routers : SF_routingVars(RouterStep(r))
  /\ SF_routingVars(StopperStep)

-----------------------------------------------------------------------------
(***************************************************************************)
(* No flow and no printer session is left behind: a task that still uses   *)
(* it, or stop(), will close it, although routing tasks share a flow and   *)
(* stop() overlaps with them (data_flow_controller.py:215-252, 305-331).   *)
(***************************************************************************)
NothingIsLeftOpen ==
  \A m \in flows \cup sessions :
    \/ \E r \in Routers : main[r] = m /\ route[r] \in {"send", "close", "delete"}
    \/ m \in to_close

(***************************************************************************)
(* Routing and stop() end: _flow_lock is held while the pool is asked for  *)
(* a connection and _session_lock while sessions close, and nobody waits   *)
(* for the other (data_flow_controller.py:216-223, session_manager:79).    *)
(***************************************************************************)
RoutingEnds ==
  /\ \A r \in Routers : route[r] # "idle" ~> route[r] = "idle"
  /\ stop # "idle" ~> stop = "idle"
=============================================================================
