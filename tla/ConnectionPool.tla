--------------------------- MODULE ConnectionPool ---------------------------
(***************************************************************************)
(* TCPIPConnectionPool and the printer sessions it lends: callers borrow   *)
(* and return sessions, two background tasks check and expire idle ones,   *)
(* and start() and stop() come at any time.                                *)
(*                                                                         *)
(* Every operation runs under one asyncio lock, so op is the operation     *)
(* that holds it and only the places where it suspends are separate steps. *)
(* Callers use the sessions they hold without the lock.  The lists hold    *)
(* each session a number of times; which idle one is reused is left open.  *)
(***************************************************************************)
EXTENDS Integers, FiniteSets

CONSTANTS
  Sessions,        \* bound: the TCPIPPrinterSession objects alive at a time
  Hosts,
  HostOf,          \* the host:port key of each session
  Tasks,           \* callers
  MaxConnections,  \* config.max_connections
  MaxPerHost,      \* config.max_connections_per_host
  MaxCancels       \* bound: borrows and returns that are cancelled

ASSUME PoolAssumption ==
  /\ IsFiniteSet(Sessions)
  /\ HostOf \in [Sessions -> Hosts]
  /\ MaxConnections \in Nat
  /\ MaxPerHost \in Nat
  /\ MaxCancels \in Nat
  /\ "nobody" \notin Tasks

VARIABLES
  running,  \* _running
  active,   \* how often each session is in _active_connections
  idle,     \* how often each session is in _idle_connections
  all,      \* _all_connections
  state,    \* TCPIPPrinterSession.state
  socks,    \* sessions with an open socket
  held,     \* the sessions each caller has borrowed and not returned
  bg,       \* the health check and the cleanup task
  op,       \* the operation inside the lock
  by,       \* the caller of a borrow that is inside the lock
  target,   \* the sessions the operation connects or takes out of the pool
  closing,  \* those of them whose close() has not ended
  cancels   \* history: calls cancelled so far

vars == <<running, active, idle, all, state, socks, held, bg, op, by,
          target, closing, cancels>>

\* NONE is no session, CONNECTING all of connect() and activate(), WORN an
\* ACTIVE session with too many errors or a handler that lost its peer, and
\* STUCK an ERROR that a failed close() left.
SessionStates ==
  {"NONE", "CONNECTING", "ACTIVE", "WORN", "CLOSING", "DISCONNECTED", "ERROR",
   "STUCK"}
Operations ==
  {"free", "connect", "discard", "drop", "sweep", "stopTasks", "stopClose"}
Background == {"health", "cleanup"}
TaskStates == {"off", "looping", "inside", "cancelled"}

Init ==
  /\ running = FALSE
  /\ active = [s \in Sessions |-> 0]
  /\ idle = [s \in Sessions |-> 0]
  /\ all = {}
  /\ state = [s \in Sessions |-> "NONE"]
  /\ socks = {}
  /\ held = [t \in Tasks |-> {}]
  /\ bg = [k \in Background |-> "off"]
  /\ op = "free"
  /\ by = "nobody"
  /\ target = {}
  /\ closing = {}
  /\ cancels = 0

lists == <<active, idle, all>>
sessions == <<state, socks, closing>>
section == <<op, by, target>>

-----------------------------------------------------------------------------
Healthy(s) == state[s] = "ACTIVE"

\* How many entries the lists f have for the sessions of S.
Entries(f, S) == Cardinality(UNION {{s} \X (1..f[s]) : s \in S})

OfHost(h) == {s \in Sessions : HostOf[s] = h}

Added(f, s) == [f EXCEPT ![s] = @ + 1]

Removed(f, S) ==
  [s \in Sessions |-> IF s \in S /\ f[s] > 0 THEN f[s] - 1 ELSE f[s]]

\* Mutant: a session in ERROR counts as closed.
ToCloseButErrors(S) ==
  {s \in S : state[s] \notin {"CLOSING", "DISCONNECTED", "ERROR"}}

\* session.close() returns at once if the session is closed or being closed.
ToClose(S) == {s \in S : state[s] \notin {"CLOSING", "DISCONNECTED"}}

BeginClose(S) ==
  /\ closing' = ToClose(S)
  /\ state' = [s \in Sessions |-> IF s \in ToClose(S) THEN "CLOSING" ELSE state[s]]

Enter(o, t, S) == op' = o /\ by' = t /\ target' = S
Leave == Enter("free", "nobody", {})

-----------------------------------------------------------------------------

(***************************************************************************)
(* borrow_connection.  A refusal at a limit changes nothing.               *)
(***************************************************************************)
MayBorrow(h) ==
  /\ op = "free"
  /\ Entries(active, Sessions) < MaxConnections
  /\ Entries(active, OfHost(h)) < MaxPerHost

\* Mutant: the idle connection is not taken off its list.
ReusePeeking(t, s) ==
  /\ MayBorrow(HostOf[s])
  /\ idle[s] > 0
  /\ Healthy(s)
  /\ active' = Added(active, s)
  /\ held' = [held EXCEPT ![t] = @ \cup {s}]
  /\ UNCHANGED <<running, idle, all, sessions, bg, section, cancels>>

Reuse(t, s) ==
  /\ MayBorrow(HostOf[s])
  /\ idle[s] > 0
  /\ Healthy(s)
  /\ idle' = Removed(idle, {s})
  /\ active' = Added(active, s)
  /\ held' = [held EXCEPT ![t] = @ \cup {s}]
  /\ UNCHANGED <<running, all, sessions, bg, section, cancels>>

Discard(t, s) ==
  /\ MayBorrow(HostOf[s])
  /\ idle[s] > 0
  /\ ~Healthy(s)
  /\ idle' = Removed(idle, {s})
  /\ BeginClose({s})
  /\ Enter("discard", t, {s})
  /\ UNCHANGED <<running, active, all, socks, held, bg, cancels>>

Create(t, s) ==
  /\ MayBorrow(HostOf[s])
  /\ \A r \in OfHost(HostOf[s]) : idle[r] = 0
  /\ state[s] = "NONE"
  /\ state' = [state EXCEPT ![s] = "CONNECTING"]
  /\ socks' = socks \cup {s}
  /\ Enter("connect", t, {s})
  /\ UNCHANGED <<running, lists, closing, held, bg, cancels>>

ConnectDone ==
  /\ op = "connect"
  /\ \E s \in target :
       /\ state' = [state EXCEPT ![s] = "ACTIVE"]
       /\ active' = Added(active, s)
       /\ all' = all \cup {s}
       /\ held' = [held EXCEPT ![by] = @ \cup {s}]
  /\ Leave
  /\ UNCHANGED <<running, idle, socks, closing, bg, cancels>>

ConnectFails ==
  /\ op = "connect"
  /\ BeginClose(target)
  /\ socks' = socks \ target
  /\ Enter("drop", by, target)
  /\ UNCHANGED <<running, lists, held, bg, cancels>>

\* wait_for cancels a borrow, or a task its return: CancelledError is no
\* Exception, so the session being connected or closed stays as it is.
CallCancelled ==
  /\ cancels < MaxCancels
  /\ cancels' = cancels + 1
  /\ op \in {"connect", "discard", "drop"}
  /\ closing' = {}
  /\ Leave
  /\ UNCHANGED <<running, lists, state, socks, held, bg>>

-----------------------------------------------------------------------------
(***************************************************************************)
(* return_connection, and the end of _destroy_connection.                  *)
(***************************************************************************)
Return(t, s) ==
  /\ op = "free"
  /\ s \in held[t]
  /\ held' = [held EXCEPT ![t] = @ \ {s}]
  /\ active' = Removed(active, {s})
  /\ \/ /\ Healthy(s)
        /\ idle' = Added(idle, s)
        /\ UNCHANGED <<sessions, section>>
     \/ /\ ~Healthy(s)
        /\ BeginClose({s})
        /\ Enter("drop", t, {s})
        /\ UNCHANGED <<idle, socks>>
  /\ UNCHANGED <<running, all, bg, cancels>>

\* close() ends, or handler.close() raises and the session's own connection
\* stays open.
Closed(s) ==
  \/ /\ state' = [state EXCEPT ![s] = "DISCONNECTED"]
     /\ socks' = socks \ {s}
  \/ /\ state' = [state EXCEPT ![s] = "STUCK"]
     /\ UNCHANGED socks

\* One session.close() that the operation waits for ends.
CloseEnds(s) ==
  /\ s \in closing
  /\ closing' = closing \ {s}
  /\ Closed(s)
  /\ UNCHANGED <<running, lists, held, bg, section, cancels>>

\* A session neither tracked nor held is garbage, and its name is free for a
\* new one.
Garbage(S) == {s \in S : \A t \in Tasks : s \notin held[t]}

Fresh(S) == [s \in Sessions |-> IF s \in Garbage(S) THEN "NONE" ELSE state[s]]

Untracked ==
  /\ closing = {}
  /\ active' = Removed(active, target)
  /\ idle' = Removed(idle, target)
  /\ all' = all \ target
  /\ UNCHANGED <<running, closing, held>>

Forget ==
  /\ state' = Fresh(target)
  /\ socks' = socks \ Garbage(target)

\* After a discarded idle session the borrow goes on with a new one.
Discarded(s) ==
  /\ op = "discard"
  /\ Untracked
  /\ \A r \in target : HostOf[r] = HostOf[s]
  /\ Fresh(target)[s] = "NONE"
  /\ state' = [Fresh(target) EXCEPT ![s] = "CONNECTING"]
  /\ socks' = (socks \ Garbage(target)) \cup {s}
  /\ Enter("connect", by, {s})
  /\ UNCHANGED <<bg, cancels>>

Dropped ==
  /\ op = "drop"
  /\ Untracked
  /\ Forget
  /\ Leave
  /\ UNCHANGED <<bg, cancels>>

-----------------------------------------------------------------------------
(***************************************************************************)
(* The callers' use of what they hold, and what happens to any session.    *)
(***************************************************************************)
\* send_print_data fails, perhaps one begun before the session was closed.
SendFails(t, s) ==
  /\ s \in held[t]
  /\ state[s] \in {"ACTIVE", "WORN", "CLOSING", "DISCONNECTED"}
  /\ state' = [state EXCEPT ![s] = "ERROR"]
  /\ UNCHANGED <<running, lists, socks, closing, held, bg, section, cancels>>

HolderCloses(t, s) ==
  /\ s \in held[t]
  /\ s \notin closing
  /\ state[s] \in {"ACTIVE", "WORN", "ERROR", "STUCK"}
  /\ Closed(s)
  /\ UNCHANGED <<running, lists, closing, held, bg, section, cancels>>

\* The peer closes the connection: TN3270Handler.is_connected() sees it.
PeerLost(s) ==
  /\ state[s] = "ACTIVE"
  /\ state' = [state EXCEPT ![s] = "WORN"]
  /\ UNCHANGED <<running, lists, socks, closing, held, bg, section, cancels>>

\* Receives and status reports failed too often.
Degrades(s) ==
  /\ state[s] = "ACTIVE"
  /\ state' = [state EXCEPT ![s] = "WORN"]
  /\ UNCHANGED <<running, lists, socks, closing, held, bg, section, cancels>>

-----------------------------------------------------------------------------
(***************************************************************************)
(* start, stop and the two background tasks.                               *)
(***************************************************************************)
Start ==
  /\ op = "free"
  /\ ~running
  /\ running' = TRUE
  /\ bg' = [k \in Background |-> "looping"]
  /\ UNCHANGED <<lists, sessions, held, section, cancels>>

Idle == {s \in Sessions : idle[s] > 0}

\* The unhealthy idle sessions, or those whose idle timeout has passed.
Doomed(k) ==
  IF k = "health" THEN {{s \in Idle : ~Healthy(s)}} ELSE SUBSET Idle

\* A background task wakes up and gets the lock.  It destroys its sessions one
\* by one, which no one else can see.
Sweep(k) ==
  /\ bg[k] = "looping"
  /\ op = "free"
  /\ \E S \in Doomed(k) :
       /\ idle' = [s \in Sessions |-> IF s \in S THEN 0 ELSE idle[s]]
       /\ BeginClose(S)
       /\ Enter("sweep", "nobody", S)
  /\ bg' = [bg EXCEPT ![k] = "inside"]
  /\ UNCHANGED <<running, active, all, socks, held, cancels>>

Swept(k) ==
  /\ op = "sweep"
  /\ bg[k] = "inside"
  /\ Untracked
  /\ Forget
  /\ bg' = [bg EXCEPT ![k] = "looping"]
  /\ Leave
  /\ UNCHANGED cancels

\* stop() cancels and awaits one task after the other; meanwhile the second
\* can only sleep or wait for the lock.
\* Mutant: the background tasks are awaited and not cancelled.
StopWithoutCancel ==
  /\ op = "free"
  /\ running
  /\ running' = FALSE
  /\ Enter("stopTasks", "nobody", {})
  /\ UNCHANGED <<lists, sessions, held, bg, cancels>>

Stop ==
  /\ op = "free"
  /\ running
  /\ running' = FALSE
  /\ bg' = [k \in Background |-> "cancelled"]
  /\ Enter("stopTasks", "nobody", {})
  /\ UNCHANGED <<lists, sessions, held, cancels>>

TaskCancelled(k) ==
  /\ bg[k] = "cancelled"
  /\ bg' = [bg EXCEPT ![k] = "off"]
  /\ UNCHANGED <<running, lists, sessions, held, section, cancels>>

StopTasksEnded ==
  /\ op = "stopTasks"
  /\ \A k \in Background : bg[k] = "off"
  /\ BeginClose(all)
  /\ Enter("stopClose", "nobody", all)
  /\ UNCHANGED <<running, lists, socks, held, bg, cancels>>

Stopped ==
  /\ op = "stopClose"
  /\ closing = {}
  /\ active' = [s \in Sessions |-> 0]
  /\ idle' = [s \in Sessions |-> 0]
  /\ all' = {}
  /\ Forget
  /\ Leave
  /\ UNCHANGED <<running, closing, held, bg, cancels>>

-----------------------------------------------------------------------------
Borrow ==
  \E s \in Sessions, t \in Tasks : Reuse(t, s) \/ Discard(t, s) \/ Create(t, s)

\* What the operation inside the lock does next.
Proceed ==
  \/ ConnectDone \/ ConnectFails \/ Dropped \/ StopTasksEnded \/ Stopped
  \/ \E s \in Sessions : CloseEnds(s) \/ Discarded(s)
  \/ \E k \in Background : Swept(k)

Next ==
  \/ Start \/ Stop \/ Borrow \/ Proceed \/ CallCancelled
  \/ \E s \in Sessions, t \in Tasks :
       Return(t, s) \/ SendFails(t, s) \/ HolderCloses(t, s)
  \/ \E s \in Sessions : PeerLost(s) \/ Degrades(s)
  \/ \E k \in Background : Sweep(k) \/ TaskCancelled(k)

\* The event loop runs every task that can run; connects have timeouts.
Fairness ==
  /\ WF_vars(Proceed)
  /\ \A k \in Background : WF_vars(TaskCancelled(k))

Spec == Init /\ [][Next]_vars /\ Fairness

-----------------------------------------------------------------------------
(***************************************************************************)
(* Properties.                                                             *)
(***************************************************************************)

\* The pool's lists and the sessions keep their types.
TypeOK ==
  /\ running \in BOOLEAN
  /\ active \in [Sessions -> Nat]
  /\ idle \in [Sessions -> Nat]
  /\ all \subseteq Sessions
  /\ state \in [Sessions -> SessionStates]
  /\ socks \subseteq Sessions
  /\ held \in [Tasks -> SUBSET Sessions]
  /\ bg \in [Background -> TaskStates]
  /\ op \in Operations
  /\ by \in Tasks \cup {"nobody"}
  /\ target \subseteq Sessions
  /\ closing \subseteq target
  /\ cancels \in 0..MaxCancels

\* Callers that return what they borrowed, once, never share a session, and
\* the pool never lends or expires one that is in use.
ExclusiveUse ==
  \A s \in Sessions, t \in Tasks :
    s \in held[t] =>
      /\ idle[s] = 0
      /\ \A u \in Tasks \ {t} : s \notin held[u]

\* The sessions lent and not closed by stop() stay within the pool's limit,
\* although the limit is tested before connect() suspends.
LentWithinLimit ==
  Cardinality({s \in all : \E t \in Tasks : s \in held[t]}) <= MaxConnections

\* As long as no call is cancelled, a host's sessions stay within its limit:
\* lent, idle and being destroyed.
HostWithinLimit ==
  cancels = 0 =>
    \A h \in Hosts : Cardinality({s \in all : HostOf[s] = h}) <= MaxPerHost

\* When stop() has waited for its close() calls no session has an open
\* connection, not even one that is lent or in error, but those whose close()
\* failed; unless a call was cancelled.
StopClosesAll ==
  op = "stopClose" /\ closing = {} /\ cancels = 0 =>
    \A s \in socks : state[s] = "STUCK"

\* Whoever holds the pool's lock releases it.
LockIsReleased == op # "free" ~> op = "free"


-----------------------------------------------------------------------------
\* For model checking: every session is made for the same host.
SameHost == [s \in Sessions |-> CHOOSE h \in Hosts : TRUE]
=============================================================================
