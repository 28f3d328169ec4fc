----------------------------- MODULE StressTests ----------------------------
(***************************************************************************)
(* The stress tools (tools/network_stress_testing.py): scenarios that      *)
(* interrupt connections, one task per connection, and tests that take     *)
(* memory, files, tasks or processor time and give them back.              *)
(***************************************************************************)
EXTENDS Integers, FiniteSets

CONSTANTS
  Links,       \* connections that are interrupted
  MaxStarts,   \* bound: scenarios that are started
  MaxHeld,     \* what a stress test takes (blocks, files, workers)
  StressKinds  \* of the kinds memory, cpu, flood, bandwidth, files, threads

Holds(kind) == kind \in {"memory", "cpu", "flood", "files", "threads"}

VARIABLES
  listed,     \* active_interruptions: [link -> its task, 0 for none]
  scenarios,  \* [task -> its link and whether it waits, acts, is cancelled or over]
  stats,      \* interruption_stats
  stress,     \* [kind -> its _run_stress_test()]
  held        \* [kind -> what the test holds]

stressVars == <<listed, scenarios, stats, stress, held>>

StressInit ==
  /\ listed = [l \in Links |-> 0]
  /\ scenarios = [t \in {} |-> 0]
  /\ stats = [triggered |-> 0, done |-> 0]
  /\ stress = [k \in StressKinds |-> "configured"]
  /\ held = [k \in StressKinds |-> 0]

-----------------------------------------------------------------------------
NewTask == Cardinality(DOMAIN scenarios) + 1

\* Mutant: the list is not asked.
StartScenarioAnyway(l) ==
  /\ NewTask <= MaxStarts
  /\ scenarios' = [t \in DOMAIN scenarios \cup {NewTask} |->
                 IF t = NewTask THEN [link |-> l, pc |-> "waits"] ELSE scenarios[t]]
  /\ listed' = [listed EXCEPT ![l] = NewTask]
  /\ stats' = [stats EXCEPT !.triggered = @ + 1]
  /\ UNCHANGED <<stress, held>>

\* start_scenario(): refused as long as the connection is listed.
StartScenario(l) ==
  /\ listed[l] = 0 /\ NewTask <= MaxStarts
  /\ scenarios' = [t \in DOMAIN scenarios \cup {NewTask} |->
                 IF t = NewTask THEN [link |-> l, pc |-> "waits"] ELSE scenarios[t]]
  /\ listed' = [listed EXCEPT ![l] = NewTask]
  /\ stats' = [stats EXCEPT !.triggered = @ + 1]
  /\ UNCHANGED <<stress, held>>

\* stop_scenario(): the task is cancelled, which it learns when it runs again.
StopScenario(l) ==
  /\ listed[l] # 0
  /\ scenarios' = [scenarios EXCEPT ![listed[l]].pc = IF @ = "over" THEN @ ELSE "cancelled"]
  /\ listed' = [listed EXCEPT ![l] = 0]
  /\ UNCHANGED <<stats, stress, held>>

\* _run_interruption_scenario(): by chance, and for a while, an interruption.
Interrupt(t) ==
  /\ t \in DOMAIN scenarios /\ scenarios[t].pc = "waits"
  /\ scenarios' = [scenarios EXCEPT ![t].pc = "acts"]
  /\ UNCHANGED <<listed, stats, stress, held>>

InterruptEnds(t) ==
  /\ t \in DOMAIN scenarios /\ scenarios[t].pc = "acts"
  /\ scenarios' = [scenarios EXCEPT ![t].pc = "waits"]
  /\ stats' = [stats EXCEPT !.done = IF @ < MaxStarts THEN @ + 1 ELSE @]
  /\ UNCHANGED <<listed, stress, held>>

\* The duration is over; the connection stays listed.
ScenarioEnds(t) ==
  /\ t \in DOMAIN scenarios /\ scenarios[t].pc \in {"waits", "cancelled"}
  /\ scenarios' = [scenarios EXCEPT ![t].pc = "over"]
  /\ UNCHANGED <<listed, stats, stress, held>>

-----------------------------------------------------------------------------
\* start_stress_test(): a test that was ever started counts as running.
StartStressTest(k) ==
  /\ stress[k] = "configured"
  /\ stress' = [stress EXCEPT ![k] = "takes"]
  /\ UNCHANGED <<listed, scenarios, stats, held>>

\* One more block, file, worker or connection; the tests
\* take until they have enough, files also until the system has no more.
Take(k) ==
  /\ stress[k] = "takes" /\ Holds(k) /\ held[k] < MaxHeld
  /\ held' = [held EXCEPT ![k] = @ + 1]
  /\ UNCHANGED <<listed, scenarios, stats, stress>>

HasEnough(k) ==
  /\ stress[k] = "takes" /\ (Holds(k) => held[k] = MaxHeld \/ k = "files")
  /\ stress' = [stress EXCEPT ![k] = "stays"]
  /\ UNCHANGED <<listed, scenarios, stats, held>>

\* Metrics that cannot be had end a test in the middle; its finally or except
\* clause lets go of what it took.
GiveUp(k) ==
  /\ stress[k] = "takes" /\ k \in {"memory", "cpu"}
  /\ stress' = [stress EXCEPT ![k] = "failed"]
  /\ held' = [held EXCEPT ![k] = 0]
  /\ UNCHANGED <<listed, scenarios, stats>>

\* The test lasts its time and lets go.  The processor test compares the time
\* with itself plus the duration and never comes to its end.
Stay(k) ==
  /\ stress[k] = "stays" /\ k # "cpu"
  /\ stress' = [stress EXCEPT ![k] = "recovers"]
  /\ held' = [held EXCEPT ![k] = 0]
  /\ UNCHANGED <<listed, scenarios, stats>>

\* _test_recovery(), whatever it finds.
TestRecovery(k) ==
  /\ stress[k] = "recovers"
  /\ stress' = [stress EXCEPT ![k] = "completed"]
  /\ UNCHANGED <<listed, scenarios, stats, held>>

StressStep(k) == Take(k) \/ HasEnough(k) \/ Stay(k) \/ TestRecovery(k)

LinkNext ==
  \/ \E l \in Links : StartScenario(l) \/ StopScenario(l)
  \/ \E t \in 1..MaxStarts : Interrupt(t) \/ InterruptEnds(t) \/ ScenarioEnds(t)

StressNext == \E k \in StressKinds : StartStressTest(k) \/ GiveUp(k) \/ StressStep(k)

StressSpec == StressInit /\ [][LinkNext \/ StressNext]_stressVars

-----------------------------------------------------------------------------
(***************************************************************************)
(* A connection is interrupted by one scenario at a time: of its scenarios *)
(* at most one is not cancelled or over, and that one can be stopped,      *)
(* also when scenarios are stopped and started before the cancelled task   *)
(* has run again; and a stress test that is over holds nothing             *)
(* (network_stress_testing.py:115-173, 416-438, 474-478, 549-575).         *)
(***************************************************************************)
OneScenarioPerLink ==
  /\ \A t \in DOMAIN scenarios :
       scenarios[t].pc \in {"waits", "acts"} => listed[scenarios[t].link] = t
  /\ \A k \in StressKinds :
       stress[k] \in {"recovers", "completed", "failed"} => held[k] = 0
=============================================================================
