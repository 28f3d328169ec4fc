----------------------------- MODULE Coordinator ----------------------------
(***************************************************************************)
(* The coordinator of a cluster of test servers                            *)
(* (tools/multi_server_coordinator.py): it starts each server as a         *)
(* process, a monitor task per server watches the process and its health,  *)
(* and a loop restarts servers that failed three checks.  A distributed    *)
(* test starts all servers, spreads connections over them and stops them.  *)
(***************************************************************************)
EXTENDS Integers, FiniteSets

CONSTANTS
  Names,          \* the configured servers
  MaxProcesses,   \* bound: processes that are ever started
  Target          \* connections of a distributed test

NoProcess == 0
FailureLimit == 3

VARIABLES
  srv,        \* [name -> its ServerInstance]
  alive,      \* processes that run
  started,    \* processes started so far
  monitor,    \* [name -> whether _monitor_server_process() runs]
  starter,    \* [name -> who is inside start_server(): nobody, caller or failover]
  stopper,    \* names that stop_server() waits for
  sweep,      \* the failed servers that _handle_failover() has still to start
  test,       \* run_distributed_test(): its phase, the servers it has still to
              \* deal with, the one it deals with, those that started
  links       \* [name -> simulated connections that connect and that are open]

serverVars == <<srv, alive, started, monitor, starter, stopper, sweep>>
testVars == <<test, links>>
clusterVars == <<serverVars, testVars>>

ClusterInit ==
  /\ srv = [n \in Names |-> [state |-> "STOPPED", process |-> NoProcess, errors |-> 0,
                             healthy |-> FALSE]]
  /\ alive = {} /\ started = 0
  /\ monitor = [n \in Names |-> FALSE]
  /\ starter = [n \in Names |-> "nobody"]
  /\ stopper = {} /\ sweep = {}
  /\ test = [phase |-> "none", todo |-> {}, cur |-> {}, up |-> {}]
  /\ links = [n \in Names |-> [connecting |-> 0, open |-> 0]]

-----------------------------------------------------------------------------
\* start_server() up to the creation of the process; a server that starts or
\* runs is left alone.
Begin(n, who) ==
  /\ starter[n] = "nobody"
  /\ srv[n].state \notin {"STARTING", "RUNNING"}
  /\ srv' = [srv EXCEPT ![n].state = "STARTING"]
  /\ starter' = [starter EXCEPT ![n] = who]

StartServer(n) ==
  /\ n \notin stopper
  /\ Begin(n, "caller")
  /\ UNCHANGED <<alive, started, monitor, stopper, sweep>>

\* The process is there: RUNNING, with a monitor.  What the health check two
\* seconds later says is only the result of the call.
ProcessStarts(n) ==
  /\ starter[n] # "nobody" /\ started < MaxProcesses
  /\ started' = started + 1
  /\ alive' = alive \cup {started'}
  /\ srv' = [srv EXCEPT ![n].process = started', ![n].state = "RUNNING"]
  /\ monitor' = [monitor EXCEPT ![n] = TRUE]
  /\ starter' = [starter EXCEPT ![n] = "nobody"]
  /\ UNCHANGED <<stopper, sweep>>

ProcessDoesNotStart(n) ==
  /\ starter[n] # "nobody"
  /\ srv' = [srv EXCEPT ![n].state = "FAILED"]
  /\ starter' = [starter EXCEPT ![n] = "nobody"]
  /\ UNCHANGED <<alive, started, monitor, stopper, sweep>>

\* stop_server() cancels the monitor, terminates the process and waits for it.
StopServer(n) ==
  /\ n \notin stopper /\ starter[n] # "caller"
  /\ srv' = [srv EXCEPT ![n].state = "STOPPING"]
  /\ monitor' = [monitor EXCEPT ![n] = FALSE]
  /\ stopper' = stopper \cup {n}
  /\ alive' = alive \ {srv[n].process}
  /\ UNCHANGED <<started, starter, sweep>>

\* A process that is gone already cannot be terminated: the call fails.
StopFails(n) ==
  /\ n \notin stopper /\ starter[n] # "caller"
  /\ srv[n].process # NoProcess /\ srv[n].process \notin alive
  /\ srv' = [srv EXCEPT ![n].state = "FAILED"]
  /\ monitor' = [monitor EXCEPT ![n] = FALSE]
  /\ UNCHANGED <<alive, started, starter, stopper, sweep>>

\* The call forgets the process of the server, which may be a new one by now.
StopEnded(n) ==
  /\ n \in stopper
  /\ srv' = [srv EXCEPT ![n].state = "STOPPED", ![n].process = NoProcess]
  /\ stopper' = stopper \ {n}
  /\ UNCHANGED <<alive, started, monitor, starter, sweep>>

-----------------------------------------------------------------------------
\* _monitor_server_process(): the process has ended.
MonitorSeesExit(n) ==
  /\ monitor[n] /\ srv[n].state = "RUNNING" /\ srv[n].process \notin alive
  /\ srv' = [srv EXCEPT ![n].state = "FAILED"]
  /\ monitor' = [monitor EXCEPT ![n] = FALSE]
  /\ UNCHANGED <<alive, started, starter, stopper, sweep>>

\* It runs, and answers or does not; the third failure in a row is the end.
MonitorChecks(n, healthy) ==
  LET errors == IF healthy THEN 0 ELSE srv[n].errors + 1 IN
  /\ monitor[n] /\ srv[n].state = "RUNNING" /\ srv[n].process \in alive
  /\ srv' = [srv EXCEPT ![n].healthy = healthy,
                        ![n].errors = IF errors > FailureLimit THEN FailureLimit ELSE errors,
                        ![n].state = IF errors >= FailureLimit THEN "FAILED" ELSE @]
  /\ monitor' = [monitor EXCEPT ![n] = errors < FailureLimit]
  /\ UNCHANGED <<alive, started, starter, stopper, sweep>>

\* The loop ends when the state is another one.
MonitorEnds(n) ==
  /\ monitor[n] /\ srv[n].state # "RUNNING"
  /\ monitor' = [monitor EXCEPT ![n] = FALSE]
  /\ UNCHANGED <<srv, alive, started, starter, stopper, sweep>>

ProcessDies(p) ==
  /\ p \in alive
  /\ alive' = alive \ {p}
  /\ UNCHANGED <<srv, started, monitor, starter, stopper, sweep>>

-----------------------------------------------------------------------------
\* _handle_failover(): the list of failed servers is made once ...
Sweep ==
  /\ sweep = {}
  /\ sweep' = {n \in Names : srv[n].state = "FAILED" /\ srv[n].errors >= FailureLimit}
  /\ sweep' # {}
  /\ UNCHANGED <<srv, alive, started, monitor, starter, stopper>>

\* Mutant: the servers of the list are only counted off.
FailoverSkipped(n) ==
  /\ n \in sweep /\ \A o \in Names : starter[o] # "failover"
  /\ sweep' = sweep \ {n}
  /\ UNCHANGED <<srv, starter, alive, started, monitor, stopper>>

\* ... and worked off one by one, whatever has become of them.
Failover(n) ==
  /\ n \in sweep /\ \A o \in Names : starter[o] # "failover"
  /\ sweep' = sweep \ {n}
  /\ IF starter[n] = "nobody" /\ srv[n].state \notin {"STARTING", "RUNNING"}
     THEN Begin(n, "failover") ELSE UNCHANGED <<srv, starter>>
  /\ UNCHANGED <<alive, started, monitor, stopper>>

StartStep(n) == ProcessStarts(n) \/ ProcessDoesNotStart(n)
LoopStep(n) == StopEnded(n) \/ MonitorSeesExit(n) \/ MonitorEnds(n)

ClusterNext ==
  /\ \/ \E n \in Names : StartServer(n) \/ StopServer(n) \/ StopFails(n) \/ StartStep(n)
                           \/ LoopStep(n) \/ Failover(n)
     \/ \E n \in Names, healthy \in BOOLEAN : MonitorChecks(n, healthy)
     \/ \E p \in 1..MaxProcesses : ProcessDies(p)
     \/ Sweep
  /\ UNCHANGED testVars

-----------------------------------------------------------------------------
\* run_distributed_test(), which the command line calls once, starts the
\* servers one after the other.
RunDistributedTest ==
  /\ test.phase = "none"
  /\ test' = [test EXCEPT !.phase = "starting", !.todo = Names]
  /\ UNCHANGED <<serverVars, links>>

\* A server that runs already counts as started.
TestStarts(n) ==
  LET running == srv[n].state \in {"STARTING", "RUNNING"} IN
  /\ test.phase = "starting" /\ test.cur = {} /\ n \in test.todo
  /\ test' = [test EXCEPT !.todo = @ \ {n}, !.cur = IF running THEN {} ELSE {n},
                          !.up = IF running THEN @ \cup {n} ELSE @]
  /\ IF running THEN UNCHANGED <<srv, starter>> ELSE Begin(n, "test")
  /\ UNCHANGED <<alive, started, monitor, stopper, sweep, links>>

\* The check that ends start_server(), two seconds after the process started,
\* or the end of a start that failed.
TestSees(n, healthy) ==
  /\ test.phase = "starting" /\ n \in test.cur /\ starter[n] = "nobody"
  /\ healthy => srv[n].process \in alive
  /\ srv' = [srv EXCEPT ![n].healthy = IF srv[n].process = NoProcess THEN @ ELSE healthy]
  /\ test' = [test EXCEPT !.cur = {}, !.up = IF healthy THEN @ \cup {n} ELSE @]
  /\ UNCHANGED <<alive, started, monitor, starter, stopper, sweep, links>>

\* Without a server that answered the test fails, and stops none of them.
TestFails ==
  /\ test.phase = "starting" /\ test.todo = {} /\ test.cur = {} /\ test.up = {}
  /\ test' = [test EXCEPT !.phase = "failed"]
  /\ UNCHANGED <<serverVars, links>>

HealthyServers == {n \in Names : srv[n].state = "RUNNING" /\ srv[n].healthy}

\* distribute_connections(): at most one server per connection.  None has a
\* load yet, so that any of them may come first.
ServersByLoad ==
  {used \in SUBSET HealthyServers :
     Cardinality(used) = IF Cardinality(HealthyServers) < Target
                         THEN Cardinality(HealthyServers) ELSE Target}

\* The shares of the servers: the first of them take the remainder.
Shares(used) ==
  LET k == Cardinality(used) IN
  {share \in [used -> {Target \div k, Target \div k + 1}] :
     Cardinality({n \in used : share[n] > Target \div k}) = Target % k}

\* The servers may have failed since they answered: nothing to connect to then.
Distribute ==
  /\ test.phase = "starting" /\ test.todo = {} /\ test.cur = {} /\ test.up # {}
  /\ test' = [test EXCEPT !.phase = "connected"]
  /\ \E used \in ServersByLoad : \E share \in IF used = {} THEN {<<>>} ELSE Shares(used) :
       links' = [n \in Names |-> [connecting |-> IF n \in used THEN share[n] ELSE 0,
                                  open |-> 0]]
  /\ UNCHANGED serverVars

\* _simulate_connection(): a connection is made, or not, ...
Connects(n) ==
  /\ links[n].connecting > 0 /\ srv[n].process \in alive
  /\ links' = [links EXCEPT ![n].connecting = @ - 1, ![n].open = @ + 1]
  /\ UNCHANGED <<serverVars, test>>

ConnectFails(n) ==
  /\ links[n].connecting > 0
  /\ links' = [links EXCEPT ![n].connecting = @ - 1]
  /\ UNCHANGED <<serverVars, test>>

\* ... and closed when the duration is over, whatever the server sent.
Leaves(n) ==
  /\ links[n].open > 0
  /\ links' = [links EXCEPT ![n].open = @ - 1]
  /\ UNCHANGED <<serverVars, test>>

\* gather() has all results: the servers are stopped one after the other.
ConnectionsEnded ==
  /\ test.phase = "connected"
  /\ \A n \in Names : links[n].connecting = 0 /\ links[n].open = 0
  /\ test' = [test EXCEPT !.phase = "stopping", !.todo = Names]
  /\ UNCHANGED <<serverVars, links>>

TestStops(n) ==
  /\ test.phase = "stopping" /\ n \in test.todo /\ stopper = {}
  /\ StopServer(n) \/ StopFails(n)
  /\ test' = [test EXCEPT !.todo = @ \ {n}]
  /\ UNCHANGED links

TestEnds ==
  /\ test.phase = "stopping" /\ test.todo = {} /\ stopper = {}
  /\ test' = [test EXCEPT !.phase = "done"]
  /\ UNCHANGED <<serverVars, links>>

LinkStep(n) == Connects(n) \/ ConnectFails(n) \/ Leaves(n)

TestStep ==
  \/ \E n \in Names : TestStarts(n) \/ TestStops(n)
  \/ \E n \in Names, healthy \in BOOLEAN : TestSees(n, healthy)
  \/ TestFails \/ Distribute \/ ConnectionsEnded \/ TestEnds

\* A test runs alone; the monitors of its servers run beside it.
TestNext ==
  \/ RunDistributedTest \/ TestStep
  \/ \E n \in Names : LinkStep(n)
  \/ /\ \/ \E n \in Names : StartStep(n) \/ LoopStep(n)
        \/ \E n \in Names, healthy \in BOOLEAN : MonitorChecks(n, healthy)
        \/ \E p \in 1..MaxProcesses : ProcessDies(p)
     /\ UNCHANGED testVars

\* The loop of the health monitoring and the coroutines of the calls go on.
ClusterFairness ==
  /\ WF_serverVars(Sweep) /\ WF_clusterVars(TestStep)
  /\ \A n \in Names : /\ WF_serverVars(StartStep(n)) /\ WF_serverVars(LoopStep(n))
                     /\ WF_serverVars(Failover(n)) /\ WF_clusterVars(LinkStep(n))

-----------------------------------------------------------------------------
(***************************************************************************)
(* A server that failed three checks in a row does not stay FAILED while   *)
(* the health monitoring runs (multi_server_coordinator.py:276-288,        *)
(* 345-363).                                                               *)
(***************************************************************************)
FailedAreRestarted ==
  \A n \in Names :
    srv[n].state = "FAILED" /\ srv[n].errors >= FailureLimit ~> srv[n].state # "FAILED"

(***************************************************************************)
(* A distributed test comes to an end whatever its servers do, and one     *)
(* that got as far as connecting leaves no server process behind           *)
(* (multi_server_coordinator.py:454-539).                                  *)
(***************************************************************************)
TestsEnd ==
  /\ test.phase = "starting" ~> test.phase \in {"failed", "connected"}
  /\ test.phase = "connected" ~> test.phase = "done" /\ alive = {}
=============================================================================
