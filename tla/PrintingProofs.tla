--------------------------- MODULE PrintingProofs ---------------------------
(***************************************************************************)
(* The parts of printing, for any number of operations, routing tasks and  *)
(* jobs and any limits; and that they keep what is proved when they are    *)
(* put side by side (MCPrinting).                                          *)
(***************************************************************************)
EXTENDS MCPrinting, FiniteSetTheorems, SequenceTheorems, WellFoundedInduction, TLAPS

(***************************************************************************)
(* A half-open circuit breaker can close again, but for cancelled calls.   *)
(*                                                                         *)
(* HalfOpenCanClose is not inductive as it stands: it needs that every     *)
(* probe is in flight, a recorded success or a cancelled call, which late  *)
(* outcomes of calls admitted earlier can only improve, and that the count *)
(* of successes starts from zero.                                          *)
(***************************************************************************)

CallLabels == {"idle", "call", "backoff", "force", "fallback", "run", "ok", "bad"}

RecoveryTypeOK ==
  /\ st \in {"CLOSED", "OPEN", "HALF_OPEN"}
  /\ failures \in Nat /\ successes \in Nat /\ probes \in Nat /\ wait \in Nat
  /\ holder \in Callers \cup {Nobody}
  /\ unrecorded \in Nat
  /\ pc \in [Callers -> CallLabels]
  /\ tries \in [Callers -> Nat]

\* Successes are counted in half-open only.
CountStartsAtZero == st # "HALF_OPEN" => successes = 0

\* Each probe is in flight, was recorded as a success, or was cancelled.
ProbesAccountedFor ==
  st = "HALF_OPEN" => successes + Cardinality(InFlight) + unrecorded >= probes

RecoveryInv == RecoveryTypeOK /\ CountStartsAtZero /\ ProbesAccountedFor

-----------------------------------------------------------------------------
\* The calls in flight are finitely many.
LEMMA InFlightFinite == IsFiniteSet(InFlight) /\ Cardinality(InFlight) \in Nat
  <1>1. IsFiniteSet(Callers)
    BY FS_Union, RecoveryAssumption DEF Callers
  <1>2. InFlight \subseteq Callers
    BY DEF InFlight
  <1> QED
    BY <1>1, <1>2, FS_Subset, FS_CardinalityType

\* One call more in flight.
LEMMA OneMore ==
  ASSUME NEW c, InFlight' = InFlight \cup {c}, c \notin InFlight
  PROVE  Cardinality(InFlight') = Cardinality(InFlight) + 1
  BY InFlightFinite, FS_AddElement

\* One call less.
LEMMA OneLess ==
  ASSUME NEW c, InFlight' = InFlight \ {c}, c \in InFlight
  PROVE  Cardinality(InFlight') = Cardinality(InFlight) - 1
  BY InFlightFinite, FS_RemoveElement

\* What a step of one caller does to the calls in flight.
LEMMA InFlightAfter ==
  ASSUME RecoveryTypeOK, NEW c \in Callers, NEW label \in CallLabels,
         pc' = [pc EXCEPT ![c] = label]
  PROVE  InFlight' = IF label \in {"run", "ok", "bad"} THEN InFlight \cup {c}
                                                       ELSE InFlight \ {c}
  BY DEF InFlight, RecoveryTypeOK

-----------------------------------------------------------------------------
\* Every step keeps the types.
LEMMA RecoveryNextType ==
  ASSUME RecoveryTypeOK, [RecoveryNext]_recoveryVars
  PROVE  RecoveryTypeOK'
  <1> USE RecoveryAssumption DEF RecoveryTypeOK, breaker, callers, Goto, Over
  <1>1. ASSUME NEW c \in Callers, Execute(c) \/ BackedOff(c) \/ ForceOpen(c)
        PROVE  RecoveryTypeOK'
    BY <1>1 DEF Execute, BackedOff, ForceOpen, CallLabels
  <1>2. ASSUME NEW c \in Callers, Admit(c) \/ FallbackEnds(c) \/ FuncEnds(c)
        PROVE  RecoveryTypeOK'
    BY <1>2 DEF Admit, FallbackEnds, FuncEnds, CallLabels
  <1>3. ASSUME NEW c \in Callers, Reject(c)
        PROVE  RecoveryTypeOK'
    BY <1>3 DEF Reject, Failed, CallLabels
  <1>4. ASSUME NEW c \in Callers, RecordSuccess(c)
        PROVE  RecoveryTypeOK'
    BY <1>4 DEF RecordSuccess, CallLabels
  <1>5. ASSUME NEW c \in Callers, RecordFailure(c)
        PROVE  RecoveryTypeOK'
    BY <1>5 DEF RecordFailure, Counted, Failed, CallLabels
  <1>6. CASE Reset \/ Tick \/ UNCHANGED recoveryVars
    BY <1>6 DEF Reset, Tick, recoveryVars
  <1>7. ASSUME NEW c \in Callers, Cancel(c)
        PROVE  RecoveryTypeOK'
    BY <1>7 DEF Cancel, CallLabels
  <1> QED
    BY <1>1, <1>2, <1>3, <1>4, <1>5, <1>6, <1>7 DEF RecoveryNext, CallerStep

\* Every step keeps the count of the probes.
LEMMA RecoveryNextInv == RecoveryInv /\ [RecoveryNext]_recoveryVars => RecoveryInv'
  <1> SUFFICES ASSUME RecoveryInv, [RecoveryNext]_recoveryVars PROVE RecoveryInv'
    OBVIOUS
  <1> USE InFlightFinite DEF breaker, callers
  <1>1. RecoveryTypeOK /\ RecoveryTypeOK'
    BY RecoveryNextType DEF RecoveryInv
  <1>2. ASSUME UNCHANGED <<pc, st, successes, probes, unrecorded>>
        PROVE  RecoveryInv'
    BY <1>1, <1>2 DEF RecoveryInv, CountStartsAtZero, ProbesAccountedFor, InFlight
  <1>3. ASSUME NEW c \in Callers, pc[c] \notin {"run", "ok", "bad"},
               NEW label \in CallLabels \ {"run", "ok", "bad"},
               pc' = [pc EXCEPT ![c] = label],
               UNCHANGED <<st, successes, probes, unrecorded>>
        PROVE  RecoveryInv'
    <2>1. InFlight' = InFlight
      BY <1>1, <1>3, InFlightAfter DEF InFlight
    <2> QED
      BY <1>1, <1>3, <2>1 DEF RecoveryInv, CountStartsAtZero, ProbesAccountedFor
  <1>4. ASSUME NEW c \in Callers,
               Execute(c) \/ BackedOff(c) \/ Reject(c) \/ FallbackEnds(c)
        PROVE  RecoveryInv'
    BY <1>3, <1>4
    DEF Execute, BackedOff, Reject, FallbackEnds, Failed, Over, Goto, CallLabels
  <1>5. ASSUME NEW c \in Callers, FuncEnds(c)
        PROVE  RecoveryInv'
    <2>1. InFlight' = InFlight
      BY <1>1, <1>5, InFlightAfter DEF FuncEnds, Goto, InFlight, CallLabels
    <2> QED
      BY <1>1, <1>5, <2>1
      DEF FuncEnds, RecoveryInv, CountStartsAtZero, ProbesAccountedFor
  <1>6. ASSUME NEW c \in Callers, Admit(c)
        PROVE  RecoveryInv'
    <2>1. InFlight' = InFlight \cup {c} /\ c \notin InFlight
      BY <1>1, <1>6, InFlightAfter DEF Admit, Goto, InFlight, CallLabels
    <2>2. Cardinality(InFlight') = Cardinality(InFlight) + 1
      BY <2>1, OneMore
    <2> QED
      BY <1>1, <1>6, <2>2
      DEF Admit, Recovered, RecoveryInv, CountStartsAtZero, ProbesAccountedFor,
          RecoveryTypeOK
  <1>7. ASSUME NEW c \in Callers, RecordSuccess(c)
        PROVE  RecoveryInv'
    <2>1. InFlight' = InFlight \ {c} /\ c \in InFlight
      BY <1>1, <1>7, InFlightAfter
      DEF RecordSuccess, Over, Goto, InFlight, CallLabels
    <2>2. Cardinality(InFlight') = Cardinality(InFlight) - 1
      BY <2>1, OneLess
    <2> QED
      BY <1>1, <1>7, <2>2
      DEF RecordSuccess, RecoveryInv, CountStartsAtZero, ProbesAccountedFor,
          RecoveryTypeOK
  <1>8. ASSUME NEW c \in Callers, RecordFailure(c) \/ ForceOpen(c)
        PROVE  RecoveryInv'
    BY <1>1, <1>8
    DEF RecordFailure, ForceOpen, RecoveryInv, CountStartsAtZero, ProbesAccountedFor,
        RecoveryTypeOK
  <1>9. CASE Reset
    BY <1>1, <1>9 DEF Reset, RecoveryInv, CountStartsAtZero, ProbesAccountedFor
  <1>10. CASE Tick \/ UNCHANGED recoveryVars
    BY <1>2, <1>10 DEF Tick, recoveryVars
  <1>11. ASSUME NEW c \in Callers, Cancel(c)
         PROVE  RecoveryInv'
    <2>1. InFlight' = InFlight \ {c} /\ UNCHANGED <<st, successes, probes>>
      BY <1>1, <1>11, InFlightAfter DEF Cancel, Over, Goto, CallLabels
    <2>2. CASE c \in InFlight
      <3>1. Cardinality(InFlight') = Cardinality(InFlight) - 1
        BY <2>1, <2>2, OneLess
      <3> QED
        BY <1>1, <1>11, <2>1, <2>2, <3>1
        DEF Cancel, RecoveryInv, CountStartsAtZero, ProbesAccountedFor, RecoveryTypeOK
    <2>3. CASE c \notin InFlight
      <3>1. InFlight' = InFlight /\ unrecorded' = unrecorded
        BY <1>11, <2>1, <2>3 DEF Cancel
      <3> QED
        BY <1>1, <2>1, <3>1 DEF RecoveryInv, CountStartsAtZero, ProbesAccountedFor
    <2> QED
      BY <2>2, <2>3
  <1> QED
    BY <1>4, <1>5, <1>6, <1>7, <1>8, <1>9, <1>10, <1>11 DEF RecoveryNext, CallerStep

\* A new breaker is closed.
LEMMA RecoveryInitInv == RecoveryInit => RecoveryInv
  BY DEF RecoveryInit, RecoveryInv, RecoveryTypeOK, CountStartsAtZero,
         ProbesAccountedFor, CallLabels

-----------------------------------------------------------------------------
\* The breaker's counters and its callers keep their types.
THEOREM RecoveryTypes == RecoverySpec => []RecoveryTypeOK
  <1>1. RecoveryInv => RecoveryTypeOK
    BY DEF RecoveryInv
  <1> QED
    BY <1>1, RecoveryInitInv, RecoveryNextInv, PTL DEF RecoverySpec

\* If a half-open breaker admits probes enough, only cancelled calls can keep it
\* from closing: whatever late outcomes, reset() and force_open() calls come in
\* between, what it has recorded, what is in flight, what it still admits and
\* what was cancelled make the success threshold.
THEOREM HalfOpenSafe == RecoverySpec => []HalfOpenCanClose
  <1>1. RecoveryInv => HalfOpenCanClose
    BY RecoveryAssumption, InFlightFinite
    DEF RecoveryInv, RecoveryTypeOK, ProbesAccountedFor, HalfOpenCanClose
  <1> QED
    BY <1>1, RecoveryInitInv, RecoveryNextInv, PTL DEF RecoverySpec

-----------------------------------------------------------------------------
(***************************************************************************)
(* Routing.  NothingIsLeftOpen must say who closes what: a flow is closed  *)
(* by a task that sends or has failed, or by stop(); a session whose flow  *)
(* is gone by the task that popped the flow.  A task that finds no flow    *)
(* may then leave, even if the session of that flow is still there.        *)
(***************************************************************************)
RouteLabels == {"idle", "flow", "borrow", "send", "close", "delete"}

RoutingTypeOK ==
  /\ route \in [Routers -> RouteLabels]
  /\ main \in [Routers -> Mains \cup {"nobody"}]

FlowsHaveClosers ==
  \A m \in flows :
    \/ \E r \in Routers : main[r] = m /\ route[r] \in {"send", "close"}
    \/ m \in to_close

SessionsHaveClosers ==
  \A m \in sessions :
    \/ m \in flows
    \/ \E r \in Routers : main[r] = m /\ route[r] = "delete"

RoutingInv == RoutingTypeOK /\ FlowsHaveClosers /\ SessionsHaveClosers

\* A step of one task leaves the others where they are.
LEMMA StepMoves ==
  ASSUME RoutingTypeOK, NEW r \in Routers, NEW label \in RouteLabels, Step(r, label)
  PROVE  /\ route' \in [Routers -> RouteLabels] /\ route'[r] = label
         /\ \A q \in Routers : q # r => route'[q] = route[q]
  BY DEF RoutingTypeOK, Step

\* The end of a route.
LEMMA RouteEndsEffect ==
  ASSUME RoutingTypeOK, NEW r \in Routers, RouteEnds(r)
  PROVE  /\ RoutingTypeOK' /\ route'[r] = "idle"
         /\ \A q \in Routers : q # r => route'[q] = route[q] /\ main'[q] = main[q]
  <1>1. "idle" \in RouteLabels
    BY DEF RouteLabels
  <1>2. /\ main' \in [Routers -> Mains \cup {"nobody"}]
        /\ \A q \in Routers : q # r => main'[q] = main[q]
    BY DEF RouteEnds, RoutingTypeOK
  <1> QED
    BY <1>1, <1>2, StepMoves DEF RouteEnds, RoutingTypeOK

\* Every step of a routing task leaves every flow and session with a closer.
LEMMA RouterStepInv ==
  ASSUME RoutingInv, NEW r \in Routers, RouterStep(r)
  PROVE  RoutingInv'
  <1>1. RoutingTypeOK /\ FlowsHaveClosers /\ SessionsHaveClosers
    BY DEF RoutingInv
  <1> USE DEF RoutingInv, RoutingTypeOK, FlowsHaveClosers, SessionsHaveClosers,
              tables, stopper
  <1>2. ASSUME NEW label \in {"send", "close"}, Step(r, label),
               route[r] \in {"flow", "send", "borrow"},
               UNCHANGED <<flows, sessions, main, to_close>>
        PROVE  RoutingInv'
    <2>1. /\ route' \in [Routers -> RouteLabels] /\ route'[r] = label
          /\ \A q \in Routers : q # r => route'[q] = route[q]
      BY <1>1, <1>2, StepMoves DEF RouteLabels
    <2> QED
      BY <1>1, <1>2, <2>1
  <1>3. CASE KnownFlow(r) \/ NoFlow(r) \/ BorrowFails(r) \/ SendRefused(r)
    BY <1>2, <1>3 DEF KnownFlow, NoFlow, BorrowFails, SendRefused
  <1>4. CASE Borrow(r)
    <2>1. /\ route' \in [Routers -> RouteLabels] /\ route'[r] = "borrow"
          /\ \A q \in Routers : q # r => route'[q] = route[q]
      BY <1>1, <1>4, StepMoves DEF Borrow, RouteLabels
    <2>2. route[r] = "flow" /\ UNCHANGED <<flows, sessions, main, to_close>>
      BY <1>4 DEF Borrow
    <2> QED
      BY <1>1, <2>1, <2>2
  <1>5. CASE Borrowed(r)
    <2>1. /\ route' \in [Routers -> RouteLabels] /\ route'[r] = "send"
          /\ \A q \in Routers : q # r => route'[q] = route[q]
      BY <1>1, <1>5, StepMoves DEF Borrowed, RouteLabels
    <2>2. /\ route[r] = "borrow"
          /\ sessions' = sessions \cup {main[r]} /\ flows' = flows \cup {main[r]}
          /\ UNCHANGED <<main, to_close>>
      BY <1>5 DEF Borrowed
    <2> QED
      BY <1>1, <2>1, <2>2
  <1>6. CASE CloseFlow(r)
    <2>1. route[r] = "close" /\ UNCHANGED <<sessions, to_close>>
      BY <1>6 DEF CloseFlow
    <2>2. CASE /\ main[r] \in flows /\ flows' = flows \ {main[r]}
               /\ Step(r, "delete") /\ UNCHANGED main
      <3>1. /\ route' \in [Routers -> RouteLabels] /\ route'[r] = "delete"
            /\ \A q \in Routers : q # r => route'[q] = route[q]
        BY <1>1, <2>2, StepMoves DEF RouteLabels
      <3> QED
        BY <1>1, <2>1, <2>2, <3>1
    <2>3. CASE main[r] \notin flows /\ RouteEnds(r) /\ UNCHANGED flows
      <3>1. /\ RoutingTypeOK' /\ route'[r] = "idle"
            /\ \A q \in Routers : q # r => route'[q] = route[q] /\ main'[q] = main[q]
        BY <1>1, <2>3, RouteEndsEffect
      <3> QED
        BY <1>1, <2>1, <2>3, <3>1
    <2> QED
      BY <1>6, <2>2, <2>3 DEF CloseFlow
  <1>7. CASE CloseSession(r)
    <2>1. /\ route[r] = "delete" /\ sessions' = sessions \ {main[r]}
          /\ UNCHANGED <<flows, to_close>>
      BY <1>7 DEF CloseSession
    <2>2. /\ RoutingTypeOK' /\ route'[r] = "idle"
          /\ \A q \in Routers : q # r => route'[q] = route[q] /\ main'[q] = main[q]
      BY <1>1, <1>7, RouteEndsEffect DEF CloseSession
    <2> QED
      BY <1>1, <2>1, <2>2
  <1> QED
    BY <1>3, <1>4, <1>5, <1>6, <1>7 DEF RouterStep

\* So does every other step, those of stop() included.
LEMMA RoutingNextInv == RoutingInv /\ [RoutingNext]_routingVars => RoutingInv'
  <1> SUFFICES ASSUME RoutingInv, [RoutingNext]_routingVars PROVE RoutingInv'
    OBVIOUS
  <1>1. RoutingTypeOK /\ FlowsHaveClosers /\ SessionsHaveClosers
    BY DEF RoutingInv
  <1> USE DEF RoutingInv, RoutingTypeOK, FlowsHaveClosers, SessionsHaveClosers,
              tables, stopper
  <1>2. CASE StartRouting \/ UNCHANGED routingVars
    BY <1>1, <1>2 DEF StartRouting, routingVars
  <1>3. CASE StopRouting
    BY <1>1, <1>3 DEF StopRouting
  <1>4. ASSUME NEW m \in Mains, StopClosesFlow(m)
        PROVE  RoutingInv'
    BY <1>1, <1>4 DEF StopClosesFlow
  <1>5. CASE StopManager
    BY <1>1, <1>5 DEF StopManager
  <1>6. CASE SessionsClosed \/ PoolStopped
    BY <1>1, <1>6 DEF SessionsClosed, PoolStopped
  <1>7. ASSUME NEW r \in Routers, NEW m \in Mains, Route(r, m)
        PROVE  RoutingInv'
    <2>1. /\ route' \in [Routers -> RouteLabels] /\ route'[r] = "flow"
          /\ \A q \in Routers : q # r => route'[q] = route[q]
      BY <1>1, <1>7, StepMoves DEF Route, RouteLabels
    <2>2. /\ main' \in [Routers -> Mains \cup {"nobody"}]
          /\ \A q \in Routers : q # r => main'[q] = main[q]
      BY <1>1, <1>7 DEF Route
    <2>3. route[r] = "idle" /\ UNCHANGED <<flows, sessions, to_close>>
      BY <1>7 DEF Route
    <2> QED
      BY <1>1, <2>1, <2>2, <2>3
  <1> QED
    BY <1>2, <1>3, <1>4, <1>5, <1>6, <1>7, RouterStepInv
    DEF RoutingNext, StopperStep

\* Nothing is open at first.
LEMMA RoutingInitInv == RoutingInit => RoutingInv
  BY DEF RoutingInit, RoutingInv, RoutingTypeOK, FlowsHaveClosers,
         SessionsHaveClosers, RouteLabels

\* Routing tasks stay at their awaits and at main sessions.
THEOREM RoutingTypes == RoutingSpec => []RoutingTypeOK
  <1>1. RoutingInv => RoutingTypeOK
    BY DEF RoutingInv
  <1> QED
    BY <1>1, RoutingInitInv, RoutingNextInv, PTL DEF RoutingSpec

\* However many tasks route for however many main sessions, and wherever
\* stop() overtakes them, every flow and every printer session is still in
\* the hands of a task or of stop().
THEOREM NothingLeftOpen == RoutingSpec => []NothingIsLeftOpen
  <1>1. RoutingInv => NothingIsLeftOpen
    BY DEF RoutingInv, FlowsHaveClosers, SessionsHaveClosers, NothingIsLeftOpen
  <1> QED
    BY <1>1, RoutingInitInv, RoutingNextInv, PTL DEF RoutingSpec
-----------------------------------------------------------------------------
(***************************************************************************)
(* Print jobs are not lost.                                                *)
(*                                                                         *)
(* The completed jobs are a run of consecutive ones up to the job before   *)
(* the current one, or up to the newest.  That is stronger than what       *)
(* JobsAreAccountedFor says when none is left, as after close(), and that  *)
(* is what the next job completed needs.  While a thread works on the      *)
(* current job, step by step, the other is idle unless they raced; only    *)
(* the limit of the list holds then too.                                   *)
(***************************************************************************)
JobStatuses == {"active", "paused", "completed", "error"}
Jobs == 1..MaxMade
Labels == {"idle", "fail", "complete", "finish", "stored", "trim", "clear", "make", "done"}

JobsTypeOK ==
  /\ current \in 0..MaxMade
  /\ made \in 0..MaxMade
  /\ completed \in Seq(Jobs)
  /\ status \in [Jobs -> JobStatuses]
  /\ step \in [Threads -> Labels]
  /\ subject \in [Threads -> 0..MaxMade]
  /\ raced \in BOOLEAN
  /\ \A t \in Threads : step[t] \in {"fail", "complete"} => subject[t] \in Jobs

\* No more jobs are kept than max_jobs and those a thread is about to cut.
WithinLimit == Len(completed) <= MaxJobs + Excess("control") + Excess("deliver")

\* Consecutive jobs up to the last.
RunUpTo(jobs, last) == \A i \in 1..Len(jobs) : jobs[i] = last - (Len(jobs) - i)

Ended(j) == status[j] # "active" \/ j \in resumed

\* The newest job that is not open.
LatestEnded == IF current = NoJob \/ Storing THEN made ELSE current - 1

OneAtATime == Idle("control") \/ Idle("deliver")
OpenIsNewest == current # NoJob => current = made
CompletedInOrder == RunUpTo(completed, LatestEnded)
CompletedHaveEnded == \A i \in 1..Len(completed) : Ended(completed[i])

\* What thread t knows of the current job.
Knows(t) ==
  /\ step[t] \in {"fail", "complete"} => current # NoJob /\ subject[t] = current
  /\ step[t] = "finish" /\ current # NoJob => Ended(current)
  /\ step[t] \in {"stored", "trim", "clear"} => current # NoJob
  /\ step[t] = "make" => current = NoJob

Orderly ==
  /\ OneAtATime /\ OpenIsNewest /\ CompletedInOrder /\ CompletedHaveEnded
  /\ Knows("control") /\ Knows("deliver")

JobsInv == JobsTypeOK /\ WithinLimit /\ (~raced => Orderly)

\* The next job is appended to a run.
LEMMA RunGrows ==
  ASSUME NEW last \in Nat, NEW jobs \in Seq(Jobs), RunUpTo(jobs, last), last + 1 \in Jobs
  PROVE  /\ Append(jobs, last + 1) \in Seq(Jobs)
         /\ Len(Append(jobs, last + 1)) = Len(jobs) + 1
         /\ RunUpTo(Append(jobs, last + 1), last + 1)
         /\ \A i \in 1..Len(Append(jobs, last + 1)) :
              \/ Append(jobs, last + 1)[i] = last + 1
              \/ \E k \in 1..Len(jobs) : Append(jobs, last + 1)[i] = jobs[k]
  <1> DEFINE all == Append(jobs, last + 1)
  <1> DEFINE n == Len(jobs)
  <1>1. /\ all \in Seq(Jobs) /\ n \in Nat /\ Len(all) = n + 1
        /\ all[n + 1] = last + 1
        /\ \A i \in 1..n : all[i] = jobs[i]
    OBVIOUS
  <1>2. \A i \in 1..(n + 1) : all[i] = (last + 1) - ((n + 1) - i)
    <2> SUFFICES ASSUME NEW i \in 1..(n + 1)
                 PROVE  all[i] = (last + 1) - ((n + 1) - i)
      OBVIOUS
    <2>1. CASE i = n + 1
      BY <2>1, <1>1
    <2>2. CASE i # n + 1
      <3>1. i \in 1..n
        BY <2>2, <1>1
      <3>2. all[i] = last - (n - i)
        BY <3>1, <1>1 DEF RunUpTo
      <3> HIDE DEF all, n
      <3> QED
        BY <3>1, <3>2, <1>1
    <2> QED
      BY <2>1, <2>2
  <1>3. \A i \in 1..Len(all) : all[i] = last + 1 \/ \E k \in 1..n : all[i] = jobs[k]
    <2> TAKE i \in 1..Len(all)
    <2>1. i = n + 1 \/ i \in 1..n
      BY <1>1
    <2> QED
      BY <2>1, <1>1
  <1> HIDE DEF all
  <1>4. RunUpTo(all, last + 1)
    BY <1>1, <1>2 DEF RunUpTo
  <1> QED
    BY <1>1, <1>3, <1>4 DEF all, n

\* What Kept() leaves of a list.
LEMMA KeptOf ==
  ASSUME NEW jobs \in Seq(Jobs)
  PROVE  /\ Kept(jobs) \in Seq(Jobs)
         /\ Len(Kept(jobs)) <= MaxJobs /\ Len(Kept(jobs)) <= Len(jobs)
         /\ \A i \in 1..Len(Kept(jobs)) :
              /\ i + (Len(jobs) - Len(Kept(jobs))) \in 1..Len(jobs)
              /\ Kept(jobs)[i] = jobs[i + (Len(jobs) - Len(Kept(jobs)))]
  <1> DEFINE n == Len(jobs)
  <1>1. n \in Nat /\ MaxJobs \in Nat \ {0}
    BY JobsAssumption
  <1>2. CASE n <= MaxJobs
    <2>1. Kept(jobs) = jobs
      BY <1>1, <1>2 DEF Kept
    <2>2. \A i \in 1..n : i + (n - n) = i
      BY <1>1
    <2> HIDE DEF n
    <2>3. Len(jobs) = n
      BY DEF n
    <2> QED
      BY <1>1, <1>2, <2>1, <2>2, <2>3
  <1>3. CASE n > MaxJobs
    <2> DEFINE d == n - MaxJobs
    <2> DEFINE kept == SubSeq(jobs, d + 1, n)
    <2>1. Kept(jobs) = kept
      BY <1>3 DEF Kept
    <2>2. d \in Nat /\ n = d + MaxJobs /\ \A i \in (d + 1)..n : i \in 1..n
      BY <1>1, <1>3
    <2>3. \A i \in (d + 1)..n : jobs[i] \in Jobs
      BY <2>2
    <2> HIDE DEF n, d
    <2>4. /\ kept \in Seq(Jobs) /\ Len(kept) = IF d + 1 <= n THEN n - (d + 1) + 1 ELSE 0
          /\ \A i \in 1..(n - (d + 1) + 1) : kept[i] = jobs[(d + 1) + i - 1]
      BY <1>1, <2>2, <2>3, SubSeqProperties
    <2> HIDE DEF kept
    <2>6. n - (d + 1) + 1 = MaxJobs /\ n - MaxJobs = d /\ d + 1 <= n
      BY <1>1, <2>2
    <2>5. Len(kept) = MaxJobs /\ \A i \in 1..MaxJobs : (d + 1) + i - 1 = i + d /\ i + d \in 1..n
      <3>1. Len(kept) = MaxJobs
        BY <2>4, <2>6
      <3>2. \A i \in 1..MaxJobs : (d + 1) + i - 1 = i + d /\ i + d \in 1..n
        BY <1>1, <2>2
      <3> QED
        BY <3>1, <3>2
    <2>7. \A i \in 1..MaxJobs : kept[i] = jobs[i + d]
      BY <2>4, <2>5, <2>6
    <2>8. Len(jobs) = n
      BY DEF n
    <2>9. \A i \in 1..MaxJobs : i + (n - MaxJobs) \in 1..n /\ kept[i] = jobs[i + (n - MaxJobs)]
      BY <2>5, <2>6, <2>7
    <2>10. Kept(jobs) \in Seq(Jobs) /\ Len(Kept(jobs)) = MaxJobs
      BY <2>1, <2>4, <2>5
    <2>11. MaxJobs <= n
      BY <1>1, <1>3
    <2>12. \A i \in 1..Len(Kept(jobs)) :
              /\ i + (Len(jobs) - Len(Kept(jobs))) \in 1..Len(jobs)
              /\ Kept(jobs)[i] = jobs[i + (Len(jobs) - Len(Kept(jobs)))]
      BY <2>1, <2>8, <2>9, <2>10, Zenon
    <2> QED
      BY <1>1, <2>8, <2>10, <2>11, <2>12
  <1> QED
    BY <1>1, <1>2, <1>3

\* Kept() leaves a run a run.
LEMMA KeptIsRun ==
  ASSUME NEW last \in Nat, NEW jobs \in Seq(Jobs), RunUpTo(jobs, last)
  PROVE  RunUpTo(Kept(jobs), last)
  <1> DEFINE n == Len(jobs)
  <1> DEFINE kept == Kept(jobs)
  <1> DEFINE m == Len(kept)
  <1>1. /\ kept \in Seq(Jobs) /\ m <= n
        /\ \A i \in 1..m : i + (n - m) \in 1..n /\ kept[i] = jobs[i + (n - m)]
    BY KeptOf
  <1>2. n \in Nat /\ m \in Nat /\ \A i \in 1..n : jobs[i] = last - (n - i)
    BY <1>1 DEF RunUpTo
  <1> HIDE DEF n, m, kept
  <1>3. ASSUME NEW i \in 1..m PROVE kept[i] = last - (m - i)
    <2>1. i + (n - m) \in 1..n /\ n - (i + (n - m)) = m - i
      BY <1>1, <1>2
    <2> QED
      BY <1>1, <1>2, <2>1
  <1> QED
    BY <1>3 DEF RunUpTo, kept, m

-----------------------------------------------------------------------------
\* The two threads.
LEMMA TwoThreads ==
  "control" \in Threads /\ "deliver" \in Threads /\ \A t \in Threads : t = "control" \/ t = "deliver"
  BY DEF Threads

\* Every step keeps the types.
LEMMA JobsNextType ==
  ASSUME JobsTypeOK, [SessionNext]_sessionVars
  PROVE  JobsTypeOK'
  <1> USE DEF jobsNow, statuses, printer, threads
  <1>0. /\ MaxMade \in Nat /\ {"error", "paused", "active", "completed"} \subseteq JobStatuses
        /\ \A l \in {"idle", "fail", "complete", "finish", "stored", "trim", "clear", "make", "done"} : l \in Labels
        /\ NoJob \in 0..MaxMade
    BY JobsAssumption DEF JobStatuses, Labels, NoJob
  <1>a. ASSUME JobsTypeOK, UNCHANGED <<step, subject, raced>>,
               current' \in 0..MaxMade, made' \in 0..MaxMade, completed' \in Seq(Jobs),
               status' \in [Jobs -> JobStatuses]
        PROVE  JobsTypeOK'
    BY <1>a DEF JobsTypeOK
  <1>b. ASSUME NEW t \in Threads, NEW l \in Labels \ {"fail", "complete"}, GoOn(t, l),
               current' \in 0..MaxMade, made' \in 0..MaxMade, completed' \in Seq(Jobs),
               status' \in [Jobs -> JobStatuses]
        PROVE  JobsTypeOK'
    BY <1>b, <1>0 DEF JobsTypeOK, GoOn
  <1>c. ASSUME NEW t \in Threads, NEW l \in Labels, Enter(t, l),
               l \in {"fail", "complete"} => current # NoJob
        PROVE  JobsTypeOK'
    <2>1. current # NoJob => current \in Jobs
      BY <1>0 DEF JobsTypeOK, Jobs, NoJob
    <2>2. UNCHANGED <<current, made, completed, status>> /\ raced' \in BOOLEAN
      BY <1>c DEF Enter
    <2>3. step' \in [Threads -> Labels] /\ subject' \in [Threads -> 0..MaxMade]
      BY <1>c, <1>0 DEF Enter, JobsTypeOK
    <2>4. \A u \in Threads : step'[u] \in {"fail", "complete"} => subject'[u] \in Jobs
      BY <1>c, <2>1 DEF Enter, JobsTypeOK
    <2> QED
      BY <2>2, <2>3, <2>4 DEF JobsTypeOK
  <1>1. CASE Activate
    BY <1>1 DEF Activate, JobsTypeOK
  <1>2. CASE Deactivate
    <2>1. CASE current = NoJob /\ UNCHANGED <<current, completed, status>>
      BY <1>2, <2>1 DEF Deactivate, JobsTypeOK
    <2>2. CASE current # NoJob /\ status' = [status EXCEPT ![current] = "error"]
               /\ completed' = Kept(Append(completed, current)) /\ current' = NoJob
      <3>1. Append(completed, current) \in Seq(Jobs)
        BY <2>2, <1>0 DEF JobsTypeOK, Jobs, NoJob
      <3>2. completed' \in Seq(Jobs)
        BY <2>2, <3>1, KeptOf
      <3>3. status' \in [Jobs -> JobStatuses]
        BY <2>2, <1>0 DEF JobsTypeOK
      <3> QED
        BY <1>2, <1>a, <1>0, <2>2, <3>2, <3>3 DEF Deactivate, JobsTypeOK
    <2> QED
      BY <1>2, <2>1, <2>2 DEF Deactivate
  <1>3. CASE Close
    <2>1. status' \in [Jobs -> JobStatuses] /\ completed' \in Seq(Jobs)
      BY <1>3, <1>0 DEF Close, JobsTypeOK
    <2> QED
      BY <1>3, <1>0, <2>1 DEF Close, JobsTypeOK
  <1>4. CASE StartNewJob
    BY <1>4, <1>c, <1>0, TwoThreads DEF StartNewJob
  <1>5. ASSUME NEW j \in 1..made, PauseOrResume(j) PROVE JobsTypeOK'
    BY <1>5, <1>0 DEF PauseOrResume, JobsTypeOK
  <1>6. ASSUME NEW t \in Threads, EndJobOf(t) PROVE JobsTypeOK'
    <2>1. CASE step[t] = "fail"
      <3>1. status' \in [Jobs -> JobStatuses]
        BY <1>6, <2>1, <1>0 DEF EndJobOf, JobsTypeOK
      <3> DEFINE l == IF t = "control" THEN "finish" ELSE "done"
      <3>2. GoOn(t, l) /\ l \in Labels \ {"fail", "complete"}
        BY <1>6, <2>1, <1>0 DEF EndJobOf
      <3> HIDE DEF l
      <3> QED
        BY <1>6, <1>b, <3>1, <3>2 DEF EndJobOf, JobsTypeOK
    <2>2. CASE step[t] = "complete"
      <3>1. subject[t] \in Jobs
        BY <2>2 DEF JobsTypeOK
      <3>2. Completed(subject[t]) \in JobStatuses
        BY <3>1, <1>0 DEF Completed, JobsTypeOK
      <3>3. status' \in [Jobs -> JobStatuses]
        BY <1>6, <2>2, <3>2 DEF EndJobOf, JobsTypeOK
      <3>4. GoOn(t, "finish") /\ "finish" \in Labels \ {"fail", "complete"}
        BY <1>6, <2>2, <1>0 DEF EndJobOf
      <3> QED
        BY <1>6, <1>b, <3>3, <3>4 DEF EndJobOf, JobsTypeOK
    <2> QED
      BY <1>6, <2>1, <2>2 DEF EndJobOf
  <1>7. ASSUME NEW t \in Threads, Store(t) PROVE JobsTypeOK'
    <2>1. CASE current # NoJob
      <3>1. completed' \in Seq(Jobs)
        <4>1. current \in Jobs /\ completed \in Seq(Jobs) /\ completed' = Append(completed, current)
          BY <1>7, <2>1, <1>0 DEF Store, JobsTypeOK, Jobs, NoJob
        <4> QED
          BY <4>1, AppendProperties
      <3>2. GoOn(t, "stored") /\ "stored" \in Labels \ {"fail", "complete"}
        BY <1>7, <2>1, <1>0 DEF Store
      <3> QED
        BY <1>7, <1>b, <3>1, <3>2 DEF Store, JobsTypeOK
    <2>2. CASE current = NoJob
      <3>1. GoOn(t, AfterFinish(t)) /\ AfterFinish(t) \in Labels \ {"fail", "complete"}
        BY <1>7, <2>2, <1>0 DEF Store, AfterFinish
      <3> DEFINE l == AfterFinish(t)
      <3> HIDE DEF l
      <3>2. GoOn(t, l) /\ l \in Labels \ {"fail", "complete"}
        BY <3>1 DEF l
      <3> QED
        BY <1>7, <1>b, <2>2, <3>2 DEF Store, JobsTypeOK
    <2> QED
      BY <2>1, <2>2
  <1>8. ASSUME NEW t \in Threads, Limit(t) PROVE JobsTypeOK'
    <2> DEFINE l == IF Len(completed) > MaxJobs THEN "trim" ELSE "clear"
    <2>1. GoOn(t, l) /\ l \in Labels \ {"fail", "complete"}
      BY <1>8, <1>0 DEF Limit
    <2> HIDE DEF l
    <2> QED
      BY <1>8, <1>b, <2>1 DEF Limit, JobsTypeOK
  <1>9. ASSUME NEW t \in Threads, ClearJob(t) PROVE JobsTypeOK'
    <2>1. completed' \in Seq(Jobs)
      BY <1>9, KeptOf DEF ClearJob, JobsTypeOK
    <2> DEFINE l == AfterFinish(t)
    <2>2. GoOn(t, l) /\ l \in Labels \ {"fail", "complete"}
      BY <1>9, <1>0 DEF ClearJob, AfterFinish
    <2> HIDE DEF l
    <2> QED
      BY <1>9, <1>b, <1>0, <2>1, <2>2 DEF ClearJob, JobsTypeOK
  <1>10. ASSUME NEW t \in Threads, MakeJob(t) PROVE JobsTypeOK'
    <2> DEFINE l == IF t = "control" THEN "idle" ELSE "done"
    <2>1. GoOn(t, l) /\ l \in Labels \ {"fail", "complete"}
      BY <1>10, <1>0 DEF MakeJob
    <2> HIDE DEF l
    <2>2. made' \in 0..MaxMade /\ current' \in 0..MaxMade
      BY <1>10, <1>0 DEF MakeJob, JobsTypeOK
    <2> QED
      BY <1>10, <1>b, <2>1, <2>2 DEF MakeJob, JobsTypeOK
  <1>11. ASSUME NEW k \in RecordKinds, Deliver(k) PROVE JobsTypeOK'
    BY <1>11 DEF Deliver, JobsTypeOK
  <1>12. CASE Process
    <2> DEFINE l == CASE reading = "scs" /\ current = NoJob               -> "make"
                      [] reading = "eoj" /\ is_active /\ current # NoJob  -> "complete"
                      [] reading = "error" /\ current # NoJob             -> "fail"
                      [] OTHER                                            -> "done"
    <2>1. l \in Labels /\ (l \in {"fail", "complete"} => current # NoJob)
      BY <1>0
    <2>2. Enter("deliver", l)
      BY <1>12 DEF Process
    <2> HIDE DEF l
    <2> QED
      BY <1>c, <2>1, <2>2, TwoThreads
  <1>13. CASE Processed
    BY <1>13, <1>0 DEF Processed, JobsTypeOK
  <1>14. CASE UNCHANGED sessionVars
    BY <1>14 DEF sessionVars, JobsTypeOK
  <1> QED
    BY <1>1, <1>2, <1>3, <1>4, <1>5, <1>6, <1>7, <1>8, <1>9, <1>10, <1>11, <1>12, <1>13, <1>14
    DEF SessionNext, JobStep

\* Every step keeps the list within its limit.
LEMMA JobsNextLimit ==
  ASSUME JobsTypeOK, WithinLimit, [SessionNext]_sessionVars
  PROVE  WithinLimit'
  <1> USE DEF jobsNow, statuses, printer, threads
  <1>0. /\ MaxJobs \in Nat \ {0} /\ completed \in Seq(Jobs) /\ Len(completed) \in Nat
        /\ step \in [Threads -> Labels]
    BY JobsAssumption DEF JobsTypeOK
  <1>1. Excess("control") \in {0, 1} /\ Excess("deliver") \in {0, 1}
    BY DEF Excess
  <1>2. Free => Excess("control") = 0 /\ Excess("deliver") = 0
    BY DEF Free, Idle, Excess
  <1>a. ASSUME NEW t \in Threads, NEW l \in Labels, step' = [step EXCEPT ![t] = l],
               l \notin {"stored", "trim"}, completed' = completed,
               step[t] \notin {"stored", "trim"}
        PROVE  WithinLimit'
    BY <1>0, <1>1, <1>a, TwoThreads DEF WithinLimit, Excess
  <1>3. CASE UNCHANGED <<step, completed>>
    BY <1>3 DEF WithinLimit, Excess
  <1>4. CASE Deactivate
    <2>1. completed' = Kept(Append(completed, current)) \/ completed' = completed
      BY <1>4 DEF Deactivate
    <2>2. CASE current # NoJob /\ completed' = Kept(Append(completed, current))
      <3> DEFINE all == Append(completed, current)
      <3>1. all \in Seq(Jobs)
        BY <2>2, <1>0, JobsAssumption DEF JobsTypeOK, Jobs, NoJob
      <3>a. completed' = Kept(all)
        BY <2>2
      <3> HIDE DEF all
      <3>2. Len(completed') <= MaxJobs /\ Len(completed') \in Nat
        BY <3>1, <3>a, KeptOf
      <3>3. step' = step
        BY <1>4 DEF Deactivate
      <3> QED
        BY <1>0, <1>1, <3>2, <3>3 DEF WithinLimit, Excess
    <2>3. CASE current = NoJob
      BY <1>3, <1>4, <2>3 DEF Deactivate
    <2> QED
      BY <1>4, <2>2, <2>3 DEF Deactivate
  <1>5. CASE Close
    <2>1. Len(completed') = 0 /\ step' = step
      BY <1>5 DEF Close
    <2> QED
      BY <1>0, <1>1, <2>1 DEF WithinLimit, Excess
  <1>6. CASE StartNewJob
    BY <1>6, <1>a, TwoThreads DEF StartNewJob, Enter, Labels, Idle
  <1>7. ASSUME NEW t \in Threads, EndJobOf(t) PROVE WithinLimit'
    BY <1>7, <1>a DEF EndJobOf, GoOn, Labels
  <1>8. ASSUME NEW t \in Threads, Store(t) PROVE WithinLimit'
    <2>1. CASE current # NoJob
      <3>1. Len(completed') = Len(completed) + 1 /\ step' = [step EXCEPT ![t] = "stored"] /\ step[t] = "finish"
        BY <1>8, <2>1, <1>0 DEF Store, GoOn
      <3> QED
        BY <1>0, <1>1, <3>1, TwoThreads DEF WithinLimit, Excess
    <2>2. CASE current = NoJob
      BY <1>8, <2>2, <1>a DEF Store, GoOn, AfterFinish, Labels
    <2> QED
      BY <2>1, <2>2
  <1>9. ASSUME NEW t \in Threads, Limit(t) PROVE WithinLimit'
    <2>1. /\ step' = [step EXCEPT ![t] = IF Len(completed) > MaxJobs THEN "trim" ELSE "clear"]
          /\ completed' = completed /\ step[t] = "stored"
      BY <1>9 DEF Limit, GoOn
    <2> QED
      BY <1>0, <1>1, <2>1, TwoThreads DEF WithinLimit, Excess
  <1>10. ASSUME NEW t \in Threads, ClearJob(t) PROVE WithinLimit'
    <2>1. CASE step[t] = "trim"
      <3>1. Len(completed') <= MaxJobs /\ Len(completed') \in Nat
        BY <1>10, <2>1, <1>0, KeptOf DEF ClearJob
      <3>2. Excess("control")' \in {0, 1} /\ Excess("deliver")' \in {0, 1}
        BY DEF Excess
      <3> QED
        BY <1>0, <3>1, <3>2 DEF WithinLimit
    <2>2. CASE step[t] = "clear"
      BY <1>10, <2>2, <1>a DEF ClearJob, GoOn, AfterFinish, Labels
    <2> QED
      BY <1>10, <2>1, <2>2 DEF ClearJob
  <1>11. ASSUME NEW t \in Threads, MakeJob(t) PROVE WithinLimit'
    BY <1>11, <1>a DEF MakeJob, GoOn, Labels
  <1>12. CASE Process
    BY <1>12, <1>a, TwoThreads DEF Process, Enter, Labels, Idle
  <1>13. CASE Processed
    BY <1>13, <1>a, TwoThreads DEF Processed, Labels
  <1>14. ASSUME NEW j \in 1..made, PauseOrResume(j) PROVE WithinLimit'
    BY <1>3, <1>14 DEF PauseOrResume
  <1>15. ASSUME NEW k \in RecordKinds, Deliver(k) PROVE WithinLimit'
    BY <1>3, <1>15 DEF Deliver
  <1>16. CASE Activate \/ UNCHANGED sessionVars
    BY <1>3, <1>16 DEF Activate, sessionVars
  <1> QED
    BY <1>4, <1>5, <1>6, <1>7, <1>8, <1>9, <1>10, <1>11, <1>12, <1>13, <1>14, <1>15, <1>16
    DEF SessionNext, JobStep

\* What the job that is open or the next one is.
LEMMA JobNumbers ==
  ASSUME JobsTypeOK, Orderly
  PROVE  /\ LatestEnded \in Nat /\ MaxMade \in Nat
         /\ current # NoJob /\ ~Storing => current \in Jobs /\ LatestEnded + 1 = current
         /\ current # NoJob => current \in Jobs /\ current = made
         /\ completed \in Seq(Jobs) /\ Len(completed) \in Nat
         /\ \A i \in 1..Len(completed) : completed[i] \in Jobs
  BY JobsAssumption DEF JobsTypeOK, Orderly, OpenIsNewest, LatestEnded, NoJob, Jobs

\* Completed jobs are older than the open one.
LEMMA CompletedAreOlder ==
  ASSUME JobsTypeOK, Orderly, current # NoJob, ~Storing
  PROVE  \A i \in 1..Len(completed) : completed[i] # current
  <1> TAKE i \in 1..Len(completed)
  <1>1. completed[i] = LatestEnded - (Len(completed) - i)
    BY DEF Orderly, CompletedInOrder, RunUpTo
  <1>2. LatestEnded \in Nat /\ LatestEnded + 1 = current /\ Len(completed) \in Nat
    BY JobNumbers
  <1> HIDE DEF LatestEnded
  <1> QED
    BY <1>1, <1>2

\* A step after which the completed jobs are as before, of which the status
\* may have changed but not from ended to open.
LEMMA OrderKept ==
  ASSUME Orderly, completed' = completed, LatestEnded' = LatestEnded,
         \A i \in 1..Len(completed) : Ended(completed[i]) => Ended(completed[i])'
  PROVE  CompletedInOrder' /\ CompletedHaveEnded'
  BY DEF Orderly, CompletedInOrder, CompletedHaveEnded, RunUpTo

\* What is true of every job of a list is true of those kept.
LEMMA KeptAreIn ==
  ASSUME NEW jobs \in Seq(Jobs), NEW S, \A i \in 1..Len(jobs) : jobs[i] \in S
  PROVE  \A i \in 1..Len(Kept(jobs)) : Kept(jobs)[i] \in S
  <1> DEFINE kept == Kept(jobs)
  <1> DEFINE d == Len(jobs) - Len(kept)
  <1>1. \A i \in 1..Len(kept) : i + d \in 1..Len(jobs) /\ kept[i] = jobs[i + d]
    BY KeptOf
  <1> HIDE DEF kept, d
  <1>2. \A i \in 1..Len(kept) : kept[i] \in S
    BY <1>1
  <1> QED
    BY <1>2 DEF kept

\* The open job, once stored, is the last of the run.
LEMMA JobIsStored ==
  ASSUME JobsTypeOK, Orderly, current # NoJob, ~Storing
  PROVE  /\ Append(completed, current) \in Seq(Jobs)
         /\ RunUpTo(Append(completed, current), current)
         /\ \A i \in 1..Len(Append(completed, current)) :
              \/ Append(completed, current)[i] = current
              \/ \E k \in 1..Len(completed) : Append(completed, current)[i] = completed[k]
  <1>1. /\ LatestEnded \in Nat /\ LatestEnded + 1 = current /\ current \in Jobs
        /\ completed \in Seq(Jobs)
    BY JobNumbers
  <1>2. RunUpTo(completed, LatestEnded)
    BY DEF Orderly, CompletedInOrder
  <1> HIDE DEF LatestEnded
  <1>3. LatestEnded + 1 \in Jobs
    BY <1>1
  <1> QED
    BY <1>1, <1>2, <1>3, RunGrows

\* A thread that works on the current job is alone, and stays alone.
LEMMA StepsAlone ==
  ASSUME JobsTypeOK, Orderly, NEW t \in Threads, NEW l \in Labels,
         step[t] # "idle", step' = [step EXCEPT ![t] = l]
  PROVE  /\ step'[t] = l
         /\ \A u \in Threads : u # t => step[u] = "idle" /\ step'[u] = "idle"
         /\ OneAtATime'
         /\ Storing <=> step[t] \in {"stored", "trim", "clear"}
         /\ Storing' <=> l \in {"stored", "trim", "clear"}
  <1>1. step \in [Threads -> Labels] /\ OneAtATime
    BY DEF JobsTypeOK, Orderly
  <1>2. step'[t] = l /\ \A u \in Threads : u # t => step[u] = "idle" /\ step'[u] = "idle"
    BY <1>1, TwoThreads DEF OneAtATime, Idle
  <1>3. OneAtATime'
    BY <1>2, TwoThreads DEF OneAtATime, Idle
  <1> QED
    BY <1>2, <1>3 DEF Storing

\* What it has to know after the step is enough.
LEMMA KnowsEnough ==
  ASSUME NEW t \in Threads, \A u \in Threads : u # t => step'[u] = "idle", Knows(t)'
  PROVE  Knows("control")' /\ Knows("deliver")'
  <1>1. \A u \in Threads : step'[u] = "idle" => Knows(u)'
    BY DEF Knows
  <1> QED
    BY <1>1, TwoThreads

\* The end of a job, by an error or by PRINT-EOJ, keeps the order.
LEMMA EndJobOrder ==
  ASSUME JobsTypeOK, Orderly, NEW t \in Threads, EndJobOf(t)
  PROVE  Orderly'
  <1> USE DEF jobsNow
  <1>0. step[t] \in {"fail", "complete"} /\ UNCHANGED <<current, made, completed, resumed>>
    BY DEF EndJobOf
  <1>1. PICK l \in {"finish", "done"} : GoOn(t, l)
    BY DEF EndJobOf
  <1>2. l \in Labels /\ step[t] # "idle" /\ step' = [step EXCEPT ![t] = l]
    BY <1>0, <1>1 DEF Labels, GoOn
  <1>3. /\ step'[t] = l /\ \A u \in Threads : u # t => step'[u] = "idle"
        /\ OneAtATime' /\ ~Storing /\ ~Storing'
    BY <1>0, <1>1, <1>2, StepsAlone
  <1>4. current # NoJob /\ subject[t] = current
    BY <1>0, TwoThreads DEF Orderly, Knows
  <1>5. current \in Jobs
    BY <1>4, JobNumbers
  <1>6. PICK s \in JobStatuses : s # "active" /\ status' = [status EXCEPT ![current] = s]
    <2>1. CASE step[t] = "fail"
      BY <2>1, <1>4 DEF EndJobOf, JobStatuses
    <2>2. CASE step[t] = "complete"
      <3>1. Completed(current) \in JobStatuses /\ Completed(current) # "active"
        BY <1>5 DEF Completed, JobStatuses, JobsTypeOK
      <3> QED
        BY <2>2, <3>1, <1>4 DEF EndJobOf
    <2> QED
      BY <1>0, <2>1, <2>2
  <1>7. Ended(current)'
    BY <1>5, <1>6, <1>0 DEF Ended, JobsTypeOK
  <1>8. \A i \in 1..Len(completed) : Ended(completed[i]) => Ended(completed[i])'
    <2> TAKE i \in 1..Len(completed)
    <2>1. completed[i] # current
      BY <1>3, <1>4, CompletedAreOlder
    <2>2. status'[completed[i]] = status[completed[i]]
      BY <1>6, <2>1, JobNumbers DEF JobsTypeOK
    <2> QED
      BY <2>2, <1>0 DEF Ended
  <1>9. LatestEnded' = LatestEnded
    BY <1>0, <1>3 DEF LatestEnded
  <1>10. CompletedInOrder' /\ CompletedHaveEnded'
    BY <1>0, <1>8, <1>9, OrderKept
  <1>11. Knows(t)'
    BY <1>3, <1>7, <1>0 DEF Knows
  <1>12. Knows("control")' /\ Knows("deliver")'
    BY <1>3, <1>11, KnowsEnough
  <1> QED
    BY <1>0, <1>3, <1>10, <1>12 DEF Orderly, OpenIsNewest

\* So does storing it, ...
LEMMA StoreOrder ==
  ASSUME JobsTypeOK, Orderly, NEW t \in Threads, Store(t)
  PROVE  Orderly'
  <1> USE DEF statuses
  <1>0. step[t] = "finish" /\ UNCHANGED <<current, made, status, resumed>>
    BY DEF Store
  <1>1. CASE current = NoJob
    <2>1. GoOn(t, AfterFinish(t)) /\ completed' = completed
      BY <1>1 DEF Store
    <2>2. AfterFinish(t) \in {"make", "done"} /\ step' = [step EXCEPT ![t] = AfterFinish(t)]
      BY <2>1 DEF AfterFinish, GoOn
    <2> DEFINE l == AfterFinish(t)
    <2> HIDE DEF l
    <2>3. l \in {"make", "done"} /\ step' = [step EXCEPT ![t] = l]
      BY <2>2 DEF l
    <2>4. l \in Labels /\ step[t] # "idle"
      BY <2>3, <1>0 DEF Labels
    <2>5. /\ step'[t] = l /\ \A u \in Threads : u # t => step'[u] = "idle"
          /\ OneAtATime' /\ ~Storing /\ ~Storing'
      BY <1>0, <2>3, <2>4, StepsAlone
    <2>6. LatestEnded' = LatestEnded
      BY <1>0, <2>5 DEF LatestEnded
    <2>7. CompletedInOrder' /\ CompletedHaveEnded'
      <3>1. \A i \in 1..Len(completed) : Ended(completed[i]) => Ended(completed[i])'
        BY <1>0, <2>1 DEF Ended
      <3> QED
        BY <2>1, <2>6, <3>1, OrderKept
    <2>8. Knows(t)'
      BY <2>3, <2>5, <1>0, <1>1 DEF Knows
    <2>9. Knows("control")' /\ Knows("deliver")'
      BY <2>5, <2>8, KnowsEnough
    <2> QED
      BY <1>0, <2>5, <2>7, <2>9 DEF Orderly, OpenIsNewest
  <1>2. CASE current # NoJob
    <2>1. completed' = Append(completed, current) /\ step' = [step EXCEPT ![t] = "stored"]
      BY <1>2 DEF Store, GoOn
    <2>2. "stored" \in Labels /\ step[t] # "idle"
      BY <1>0 DEF Labels
    <2>3. /\ step'[t] = "stored" /\ \A u \in Threads : u # t => step'[u] = "idle"
          /\ OneAtATime' /\ ~Storing /\ Storing'
      BY <1>0, <2>1, <2>2, StepsAlone
    <2>4. Ended(current)
      BY <1>0, <1>2, TwoThreads DEF Orderly, Knows
    <2> DEFINE all == Append(completed, current)
    <2>5. /\ RunUpTo(all, current)
          /\ \A i \in 1..Len(all) : all[i] = current \/ \E k \in 1..Len(completed) : all[i] = completed[k]
      BY <1>2, <2>3, JobIsStored
    <2>6. LatestEnded' = current
      BY <1>0, <1>2, <2>3, JobNumbers DEF LatestEnded
    <2>7. \A i \in 1..Len(completed) : Ended(completed[i])
      BY DEF Orderly, CompletedHaveEnded
    <2>8. completed' = all
      BY <2>1
    <2> HIDE DEF all
    <2>9. CompletedInOrder'
      BY <2>5, <2>6, <2>8 DEF CompletedInOrder, RunUpTo
    <2>10. \A i \in 1..Len(all) : Ended(all[i])
      BY <2>4, <2>5, <2>7
    <2>11. CompletedHaveEnded'
      BY <1>0, <2>8, <2>10 DEF CompletedHaveEnded, Ended
    <2>12. Knows(t)'
      BY <1>0, <1>2, <2>3 DEF Knows
    <2>13. Knows("control")' /\ Knows("deliver")'
      BY <2>3, <2>12, KnowsEnough
    <2> QED
      BY <1>0, <2>3, <2>9, <2>11, <2>13 DEF Orderly, OpenIsNewest
  <1> QED
    BY <1>1, <1>2

\* ... taking the length of the list, ...
LEMMA LimitOrder ==
  ASSUME JobsTypeOK, Orderly, NEW t \in Threads, Limit(t)
  PROVE  Orderly'
  <1> USE DEF jobsNow, statuses
  <1>0. step[t] = "stored" /\ UNCHANGED <<current, made, completed, status, resumed>>
    BY DEF Limit
  <1>1. PICK l \in {"trim", "clear"} : step' = [step EXCEPT ![t] = l]
    BY DEF Limit, GoOn
  <1>2. l \in Labels /\ step[t] # "idle"
    BY <1>0 DEF Labels
  <1>3. /\ step'[t] = l /\ \A u \in Threads : u # t => step'[u] = "idle"
        /\ OneAtATime' /\ Storing /\ Storing'
    BY <1>0, <1>1, <1>2, StepsAlone
  <1>4. LatestEnded' = LatestEnded
    BY <1>0, <1>3 DEF LatestEnded
  <1>5. CompletedInOrder' /\ CompletedHaveEnded'
    <2>1. \A i \in 1..Len(completed) : Ended(completed[i]) => Ended(completed[i])'
      BY <1>0 DEF Ended
    <2> QED
      BY <1>0, <1>4, <2>1, OrderKept
  <1>6. Knows(t)'
    <2>1. current # NoJob
      BY <1>0, TwoThreads DEF Orderly, Knows
    <2> QED
      BY <1>0, <1>3, <2>1 DEF Knows
  <1>7. Knows("control")' /\ Knows("deliver")'
    BY <1>3, <1>6, KnowsEnough
  <1> QED
    BY <1>0, <1>3, <1>5, <1>7 DEF Orderly, OpenIsNewest

\* ... cutting it and clearing the job, ...
LEMMA ClearJobOrder ==
  ASSUME JobsTypeOK, Orderly, NEW t \in Threads, ClearJob(t)
  PROVE  Orderly'
  <1> USE DEF statuses
  <1>0. /\ step[t] \in {"trim", "clear"} /\ UNCHANGED <<made, status, resumed>> /\ current' = NoJob
        /\ completed' = Kept(completed) \/ completed' = completed
    BY DEF ClearJob
  <1>1. PICK l \in {"make", "done"} : step' = [step EXCEPT ![t] = l]
    BY DEF ClearJob, GoOn, AfterFinish
  <1>2. l \in Labels /\ step[t] # "idle"
    BY <1>0, <1>1 DEF Labels
  <1>3. /\ step'[t] = l /\ \A u \in Threads : u # t => step'[u] = "idle"
        /\ OneAtATime' /\ Storing
    BY <1>0, <1>1, <1>2, StepsAlone
  <1>4. LatestEnded = made /\ LatestEnded' = made /\ made \in Nat
    BY <1>0, <1>3, JobsAssumption DEF LatestEnded, JobsTypeOK
  <1>5. RunUpTo(completed, made)
    BY <1>4 DEF Orderly, CompletedInOrder
  <1>6. completed \in Seq(Jobs)
    BY DEF JobsTypeOK
  <1>7. RunUpTo(completed', made)
    BY <1>0, <1>4, <1>5, <1>6, KeptIsRun
  <1> DEFINE S == {j \in Jobs : Ended(j)}
  <1>8. \A i \in 1..Len(completed) : completed[i] \in S
    BY <1>6 DEF Orderly, CompletedHaveEnded
  <1> HIDE DEF S
  <1>9. \A i \in 1..Len(completed') : completed'[i] \in S
    <2>1. CASE completed' = completed
      BY <2>1, <1>8
    <2>2. CASE completed' = Kept(completed)
      BY <2>2, <1>6, <1>8, KeptAreIn
    <2> QED
      BY <1>0, <2>1, <2>2
  <1>10. CompletedHaveEnded'
    BY <1>0, <1>9 DEF CompletedHaveEnded, Ended, S
  <1>11. CompletedInOrder'
    BY <1>4, <1>7 DEF CompletedInOrder, RunUpTo
  <1>12. Knows(t)'
    BY <1>0, <1>1, <1>3 DEF Knows
  <1>13. Knows("control")' /\ Knows("deliver")'
    BY <1>3, <1>12, KnowsEnough
  <1> QED
    BY <1>0, <1>3, <1>10, <1>11, <1>13 DEF Orderly, OpenIsNewest

\* ... and making the next one.
LEMMA MakeJobOrder ==
  ASSUME JobsTypeOK, Orderly, NEW t \in Threads, MakeJob(t)
  PROVE  Orderly'
  <1> USE DEF statuses
  <1>0. /\ step[t] = "make" /\ UNCHANGED <<completed, status, resumed>>
        /\ made' = made + 1 /\ current' = made + 1 /\ made \in Nat
    BY JobsAssumption DEF MakeJob, JobsTypeOK
  <1>1. PICK l \in {"idle", "done"} : step' = [step EXCEPT ![t] = l]
    BY DEF MakeJob, GoOn
  <1>2. l \in Labels /\ step[t] # "idle"
    BY <1>0, <1>1 DEF Labels
  <1>3. /\ step'[t] = l /\ \A u \in Threads : u # t => step'[u] = "idle"
        /\ OneAtATime' /\ ~Storing /\ ~Storing'
    BY <1>0, <1>1, <1>2, StepsAlone
  <1>4. current = NoJob
    BY <1>0, TwoThreads DEF Orderly, Knows
  <1>5. LatestEnded = made /\ LatestEnded' = made
    BY <1>0, <1>3, <1>4 DEF LatestEnded, NoJob
  <1>6. CompletedInOrder' /\ CompletedHaveEnded'
    <2>1. \A i \in 1..Len(completed) : Ended(completed[i]) => Ended(completed[i])'
      BY <1>0 DEF Ended
    <2> QED
      BY <1>0, <1>5, <2>1, OrderKept
  <1>7. Knows(t)'
    BY <1>1, <1>3 DEF Knows
  <1>8. Knows("control")' /\ Knows("deliver")'
    BY <1>3, <1>7, KnowsEnough
  <1> QED
    BY <1>0, <1>3, <1>6, <1>8 DEF Orderly, OpenIsNewest

\* A thread that turns to the current job while the other is idle.
LEMMA EnterOrder ==
  ASSUME JobsTypeOK, Orderly, NEW t \in Threads, NEW l \in {"make", "fail", "complete", "done"},
         Enter(t, l), ~raced',
         l \in {"fail", "complete"} => current # NoJob,
         l = "make" => current = NoJob
  PROVE  Orderly'
  <1>0. UNCHANGED <<current, made, completed, status, resumed>> /\ \A u \in Threads : Idle(u)
    BY DEF Enter, printer, jobsNow, statuses
  <1>1. /\ step'[t] = l /\ \A u \in Threads : u # t => step'[u] = "idle"
        /\ l \in {"fail", "complete"} => subject'[t] = current
    BY <1>0 DEF Enter, JobsTypeOK, Idle
  <1>2. ~Storing /\ ~Storing'
    BY <1>0, <1>1 DEF Storing, Idle
  <1>3. OneAtATime'
    BY <1>1, TwoThreads DEF OneAtATime, Idle
  <1>4. LatestEnded' = LatestEnded
    BY <1>0, <1>2 DEF LatestEnded
  <1>5. CompletedInOrder' /\ CompletedHaveEnded'
    <2>1. \A i \in 1..Len(completed) : Ended(completed[i]) => Ended(completed[i])'
      BY <1>0 DEF Ended
    <2> QED
      BY <1>0, <1>4, <2>1, OrderKept
  <1>6. Knows(t)'
    BY <1>0, <1>1 DEF Knows
  <1>7. Knows("control")' /\ Knows("deliver")'
    BY <1>1, <1>6, KnowsEnough
  <1> QED
    BY <1>0, <1>3, <1>5, <1>7 DEF Orderly, OpenIsNewest

\* deactivate() stores a job that is open as a failed one.
LEMMA DeactivateOrder ==
  ASSUME JobsTypeOK, Orderly, Deactivate
  PROVE  Orderly'
  <1>0. UNCHANGED <<made, resumed, step, subject>> /\ Free
    BY DEF Deactivate, threads
  <1>1. ~Storing /\ ~Storing' /\ \A t \in Threads : step'[t] = "idle"
    BY <1>0, TwoThreads DEF Storing, Free, Idle
  <1>2. OneAtATime' /\ Knows("control")' /\ Knows("deliver")'
    BY <1>1, TwoThreads DEF OneAtATime, Knows, Idle
  <1>3. CASE current = NoJob /\ UNCHANGED <<current, completed, status>>
    <2>1. LatestEnded' = LatestEnded
      BY <1>0, <1>1, <1>3 DEF LatestEnded
    <2>2. \A i \in 1..Len(completed) : Ended(completed[i]) => Ended(completed[i])'
      BY <1>0, <1>3 DEF Ended
    <2>3. CompletedInOrder' /\ CompletedHaveEnded'
      BY <1>3, <2>1, <2>2, OrderKept
    <2> QED
      BY <1>2, <1>3, <2>3 DEF Orderly, OpenIsNewest
  <1>4. CASE /\ current # NoJob /\ status' = [status EXCEPT ![current] = "error"]
             /\ completed' = Kept(Append(completed, current)) /\ current' = NoJob
    <2> DEFINE all == Append(completed, current)
    <2>1. /\ all \in Seq(Jobs) /\ RunUpTo(all, current)
          /\ \A i \in 1..Len(all) : all[i] = current \/ \E k \in 1..Len(completed) : all[i] = completed[k]
      BY <1>1, <1>4, JobIsStored
    <2>2. current \in Jobs /\ current \in Nat /\ current = made
      BY <1>4, JobNumbers DEF Jobs
    <2>3. LatestEnded' = current
      BY <1>0, <1>4, <2>2 DEF LatestEnded
    <2> DEFINE S == {j \in Jobs : Ended(j)'}
    <2>4. \A j \in Jobs : Ended(j) => Ended(j)'
      BY <1>0, <1>4, <2>2 DEF Ended, JobsTypeOK
    <2>5. current \in S
      BY <1>4, <2>2 DEF Ended, JobsTypeOK
    <2>6. \A i \in 1..Len(completed) : completed[i] \in S
      BY <2>4 DEF Orderly, CompletedHaveEnded, JobsTypeOK
    <2>7. completed' = Kept(all)
      BY <1>4
    <2> HIDE DEF all, S
    <2>8. \A i \in 1..Len(all) : all[i] \in S
      BY <2>1, <2>5, <2>6
    <2>9. \A i \in 1..Len(completed') : completed'[i] \in S
      BY <2>1, <2>7, <2>8, KeptAreIn
    <2>10. RunUpTo(completed', current)
      BY <2>1, <2>2, <2>7, KeptIsRun
    <2>11. CompletedInOrder'
      BY <2>3, <2>10 DEF CompletedInOrder, RunUpTo
    <2>12. CompletedHaveEnded'
      BY <2>9 DEF CompletedHaveEnded, S
    <2> QED
      BY <1>2, <1>4, <2>11, <2>12 DEF Orderly, OpenIsNewest
  <1> QED
    BY <1>3, <1>4 DEF Deactivate

\* close() leaves nothing to be in order.
LEMMA CloseOrder ==
  ASSUME JobsTypeOK, Close
  PROVE  Orderly'
  <1>1. /\ UNCHANGED <<step, subject>> /\ Free /\ completed' = <<>> /\ current' = NoJob
    BY DEF Close
  <1>2. \A t \in Threads : step'[t] = "idle"
    BY <1>1, TwoThreads DEF Free, Idle
  <1>3. OneAtATime' /\ Knows("control")' /\ Knows("deliver")'
    BY <1>2, TwoThreads DEF OneAtATime, Knows, Idle
  <1>4. CompletedInOrder' /\ CompletedHaveEnded'
    BY <1>1 DEF CompletedInOrder, CompletedHaveEnded, RunUpTo
  <1> QED
    BY <1>1, <1>3, <1>4 DEF Orderly, OpenIsNewest

\* A paused job has ended for the list, and a resumed one is known as such.
LEMMA PauseOrder ==
  ASSUME JobsTypeOK, Orderly, NEW j \in 1..made, PauseOrResume(j)
  PROVE  Orderly'
  <1>0. UNCHANGED <<current, made, completed, step, subject>>
    BY DEF PauseOrResume, jobsNow, threads
  <1>1. \A k \in Jobs : Ended(k) => Ended(k)'
    BY DEF Ended, PauseOrResume, JobsTypeOK
  <1>2. LatestEnded' = LatestEnded
    BY <1>0 DEF LatestEnded, Storing
  <1>3. CompletedInOrder' /\ CompletedHaveEnded'
    <2>1. \A i \in 1..Len(completed) : Ended(completed[i]) => Ended(completed[i])'
      <3> TAKE i \in 1..Len(completed)
      <3> DEFINE j0 == completed[i]
      <3>1. j0 \in Jobs /\ completed'[i] = j0
        BY <1>0, JobNumbers
      <3>2. Ended(completed[i])' <=> status'[j0] # "active" \/ j0 \in resumed'
        BY <3>1 DEF Ended
      <3>3. Ended(j0) => status'[j0] # "active" \/ j0 \in resumed'
        BY <1>1, <3>1 DEF Ended
      <3> QED
        BY <3>2, <3>3
    <2> QED
      BY <1>0, <1>2, <2>1, OrderKept
  <1>4. \A t \in Threads : Knows(t) => Knows(t)'
    <2>1. current # NoJob => current \in Jobs
      BY JobNumbers
    <2> QED
      BY <1>0, <1>1, <2>1 DEF Knows
  <1> QED
    BY <1>0, <1>3, <1>4, TwoThreads DEF Orderly, OpenIsNewest, OneAtATime, Idle

\* The session is done with a record.
LEMMA ProcessedOrder ==
  ASSUME JobsTypeOK, Orderly, Processed
  PROVE  Orderly'
  <1> DEFINE t == "deliver"
  <1>0. /\ step[t] = "done" /\ UNCHANGED <<current, made, completed, status, resumed, subject>>
        /\ step' = [step EXCEPT ![t] = "idle"]
    BY DEF Processed, printer, jobsNow, statuses
  <1>1. "idle" \in Labels /\ step[t] # "idle" /\ t \in Threads
    BY <1>0 DEF Labels, Threads
  <1> HIDE DEF t
  <1>2. /\ step'[t] = "idle" /\ \A u \in Threads : u # t => step'[u] = "idle"
        /\ OneAtATime' /\ ~Storing /\ ~Storing'
    BY <1>0, <1>1, StepsAlone
  <1>3. LatestEnded' = LatestEnded
    BY <1>0, <1>2 DEF LatestEnded
  <1>4. CompletedInOrder' /\ CompletedHaveEnded'
    <2>1. \A i \in 1..Len(completed) : Ended(completed[i]) => Ended(completed[i])'
      BY <1>0 DEF Ended
    <2> QED
      BY <1>0, <1>3, <2>1, OrderKept
  <1>5. Knows(t)'
    BY <1>2 DEF Knows
  <1>6. Knows("control")' /\ Knows("deliver")'
    BY <1>1, <1>2, <1>5, KnowsEnough
  <1> QED
    BY <1>0, <1>2, <1>4, <1>6 DEF Orderly, OpenIsNewest

\* A step that changes neither the jobs nor where the threads are.
LEMMA UnchangedOrder ==
  ASSUME Orderly, UNCHANGED <<current, made, completed, status, resumed, step, subject>>
  PROVE  Orderly'
  <1>1. \A j : Ended(j)' <=> Ended(j)
    BY DEF Ended
  <1>2. LatestEnded' = LatestEnded
    BY DEF LatestEnded, Storing
  <1>3. CompletedInOrder' /\ CompletedHaveEnded'
    BY <1>1, <1>2, OrderKept
  <1>4. \A t \in Threads : Knows(t) => Knows(t)'
    BY <1>1 DEF Knows
  <1> QED
    BY <1>3, <1>4, TwoThreads DEF Orderly, OpenIsNewest, OneAtATime, Idle

\* Every step keeps the order of the jobs, unless the threads raced.
LEMMA JobsNextOrder ==
  ASSUME JobsTypeOK, ~raced => Orderly, [SessionNext]_sessionVars, ~raced'
  PROVE  Orderly'
  <1>1. CASE Close
    BY <1>1, CloseOrder
  <1>2. CASE ~Close
    <2>1. ~raced
      BY <1>2 DEF SessionNext, sessionVars, threads, printer, Activate, Deactivate, PauseOrResume,
         StartNewJob, Enter, JobStep, EndJobOf, Store, Limit, ClearJob, MakeJob, GoOn, Deliver,
         Process, Processed
    <2>2. Orderly
      BY <2>1
    <2>3. CASE Activate
      BY <2>2, <2>3, UnchangedOrder DEF Activate, jobsNow, statuses, threads
    <2>4. CASE Deactivate
      BY <2>2, <2>4, DeactivateOrder
    <2>5. CASE StartNewJob
      <3> DEFINE l == IF current = NoJob THEN "make" ELSE "fail"
      <3>1. Enter("control", l) /\ l \in {"make", "fail", "complete", "done"}
        BY <2>5 DEF StartNewJob
      <3>2. (l \in {"fail", "complete"} => current # NoJob) /\ (l = "make" => current = NoJob)
        OBVIOUS
      <3> HIDE DEF l
      <3> QED
        BY <2>2, <3>1, <3>2, EnterOrder, TwoThreads
    <2>6. ASSUME NEW j \in 1..made, PauseOrResume(j) PROVE Orderly'
      BY <2>2, <2>6, PauseOrder
    <2>7. ASSUME NEW t \in Threads, JobStep(t) PROVE Orderly'
      BY <2>2, <2>7, EndJobOrder, StoreOrder, LimitOrder, ClearJobOrder, MakeJobOrder DEF JobStep
    <2>8. ASSUME NEW k \in RecordKinds, Deliver(k) PROVE Orderly'
      BY <2>2, <2>8, UnchangedOrder DEF Deliver, printer, jobsNow, statuses, threads
    <2>9. CASE Process
      <3> DEFINE l == CASE reading = "scs" /\ current = NoJob               -> "make"
                        [] reading = "eoj" /\ is_active /\ current # NoJob  -> "complete"
                        [] reading = "error" /\ current # NoJob             -> "fail"
                        [] OTHER                                            -> "done"
      <3>1. Enter("deliver", l)
        BY <2>9 DEF Process
      <3>2. /\ l \in {"make", "fail", "complete", "done"}
            /\ l \in {"fail", "complete"} => current # NoJob
            /\ l = "make" => current = NoJob
        OBVIOUS
      <3> HIDE DEF l
      <3> QED
        BY <2>2, <3>1, <3>2, EnterOrder, TwoThreads
    <2>10. CASE Processed
      BY <2>2, <2>10, ProcessedOrder
    <2>11. CASE UNCHANGED sessionVars
      BY <2>2, <2>11, UnchangedOrder DEF sessionVars, printer, jobsNow, statuses, threads
    <2> QED
      BY <1>2, <2>3, <2>4, <2>5, <2>6, <2>7, <2>8, <2>9, <2>10, <2>11 DEF SessionNext
  <1> QED
    BY <1>1, <1>2

\* The strengthened invariant is inductive.
LEMMA JobsInitInv ==
  ASSUME JobsInit
  PROVE  JobsInv
  <1>1. JobsTypeOK
    <2>1. /\ current \in 0..MaxMade /\ made \in 0..MaxMade /\ completed \in Seq(Jobs)
      BY JobsAssumption DEF JobsInit, NoJob
    <2>4. raced \in BOOLEAN
      BY DEF JobsInit
    <2>2. status \in [Jobs -> JobStatuses]
      BY DEF JobsInit, Jobs, JobStatuses
    <2>3. /\ step \in [Threads -> Labels] /\ subject \in [Threads -> 0..MaxMade]
          /\ \A t \in Threads : step[t] = "idle"
      BY JobsAssumption DEF JobsInit, Labels, NoJob
    <2> QED
      BY <2>1, <2>2, <2>3, <2>4 DEF JobsTypeOK
  <1>2. WithinLimit
    BY JobsAssumption DEF JobsInit, WithinLimit, Excess
  <1>3. ~Storing /\ \A t \in Threads : step[t] = "idle"
    BY DEF JobsInit, Storing
  <1>4. CompletedInOrder /\ CompletedHaveEnded
    BY DEF JobsInit, CompletedInOrder, CompletedHaveEnded, RunUpTo
  <1>5. OneAtATime /\ Knows("control") /\ Knows("deliver")
    BY <1>3, TwoThreads DEF OneAtATime, Idle, Knows
  <1> QED
    BY <1>1, <1>2, <1>4, <1>5 DEF JobsInv, Orderly, OpenIsNewest, JobsInit

LEMMA JobsNextInv ==
  ASSUME JobsInv, [SessionNext]_sessionVars
  PROVE  JobsInv'
  <1>1. JobsTypeOK'
    BY JobsNextType DEF JobsInv
  <1>2. WithinLimit'
    BY JobsNextLimit DEF JobsInv
  <1>3. ~raced' => Orderly'
    BY JobsNextOrder DEF JobsInv
  <1> QED
    BY <1>1, <1>2, <1>3 DEF JobsInv

\* It says that the jobs are accounted for.
LEMMA JobsAccounted ==
  ASSUME JobsInv
  PROVE  JobsAreAccountedFor
  <1> DEFINE n == Len(completed)
  <1>1. n <= MaxJobs + Excess("control") + Excess("deliver")
    BY DEF JobsInv, WithinLimit
  <1>2. ASSUME ~raced, ~Storing
        PROVE  /\ \A i \in 1..n : completed[i] = completed[n] - (n - i)
               /\ n > 0 => completed[n] = IF current = NoJob THEN made ELSE current - 1
               /\ current # NoJob => current = made
               /\ \A i \in 1..n : status[completed[i]] # "active" \/ completed[i] \in resumed
    <2>1. JobsTypeOK /\ Orderly
      BY <1>2 DEF JobsInv
    <2>2. LatestEnded = IF current = NoJob THEN made ELSE current - 1
      BY <1>2 DEF LatestEnded
    <2>3. LatestEnded \in Nat /\ n \in Nat
      BY <2>1, JobNumbers
    <2>4. \A i \in 1..n : completed[i] = LatestEnded - (n - i)
      BY <2>1 DEF Orderly, CompletedInOrder, RunUpTo
    <2>5. (current # NoJob => current = made) /\ \A i \in 1..n : Ended(completed[i])
      BY <2>1 DEF Orderly, OpenIsNewest, CompletedHaveEnded
    <2> HIDE DEF n, LatestEnded
    <2>6. n > 0 => n \in 1..n /\ completed[n] = LatestEnded
      <3> SUFFICES ASSUME n > 0 PROVE n \in 1..n /\ completed[n] = LatestEnded
        OBVIOUS
      <3>1. n \in 1..n /\ n - n = 0
        BY <2>3
      <3> QED
        BY <2>3, <2>4, <3>1
    <2>7. \A i \in 1..n : completed[i] = completed[n] - (n - i)
      BY <2>3, <2>4, <2>6
    <2>8. n > 0 => completed[n] = IF current = NoJob THEN made ELSE current - 1
      BY <2>2, <2>6
    <2> QED
      BY <2>5, <2>7, <2>8 DEF Ended
  <1> QED
    BY <1>1, <1>2 DEF JobsAreAccountedFor

\* What the detector keeps of a job is what was forwarded.
LEMMA ExtractorKeeps ==
  ASSUME JobDataIsForwarded, [ExtractorNext]_extractorVars
  PROVE  JobDataIsForwarded'
  <1>1. ASSUME NEW k \in RecordKinds, Extract(k) PROVE JobDataIsForwarded'
    BY <1>1 DEF Extract, JobDataIsForwarded
  <1>2. CASE EndPrintJob
    BY <1>2 DEF EndPrintJob, JobDataIsForwarded
  <1>3. CASE UNCHANGED extractorVars
    BY <1>3 DEF extractorVars, JobDataIsForwarded
  <1> QED
    BY <1>1, <1>2, <1>3 DEF ExtractorNext

\* Both, for every step of the session and of the extractor.
JobsKeptInv == JobsInv /\ JobDataIsForwarded

LEMMA JobsKeptNext ==
  ASSUME JobsKeptInv, [JobsNext]_jobVars
  PROVE  JobsKeptInv'
  <1>1. ([SessionNext]_sessionVars) /\ ([ExtractorNext]_extractorVars)
    BY DEF JobsNext, jobVars
  <1> QED
    BY <1>1, JobsNextInv, ExtractorKeeps DEF JobsKeptInv

\* Every value of the session's jobs is of its type, whichever steps of the
\* two threads interleave (printer.py:178-304, 335-344, 494-545).
THEOREM JobTypes == JobsSpec => []JobsTypeOK
  <1>1. JobsInit => JobsKeptInv
    BY JobsInitInv DEF JobsKeptInv, JobDataIsForwarded, JobsInit
  <1>2. JobsKeptInv /\ [JobsNext]_jobVars => JobsKeptInv'
    BY JobsKeptNext
  <1>3. JobsKeptInv => JobsTypeOK
    BY DEF JobsKeptInv, JobsInv
  <1> QED
    BY <1>1, <1>2, <1>3, PTL DEF JobsSpec

\* Jobs and the data of jobs are kept, each once and in order, however the
\* records and the calls of the session interleave, unless start_new_job(),
\* which takes no lock, meets a record (printer.py:236-304, 494-505).
THEOREM JobsKept == JobsSpec => []JobsAreKept
  <1>1. JobsInit => JobsKeptInv
    BY JobsInitInv DEF JobsKeptInv, JobDataIsForwarded, JobsInit
  <1>2. JobsKeptInv /\ [JobsNext]_jobVars => JobsKeptInv'
    BY JobsKeptNext
  <1>3. JobsKeptInv => JobsAreKept
    BY JobsAccounted DEF JobsKeptInv, JobsAreKept
  <1> QED
    BY <1>1, <1>2, <1>3, PTL DEF JobsSpec

-----------------------------------------------------------------------------
(***************************************************************************)
(* The status history is a chain, for any size of it.                      *)
(***************************************************************************)
HealthStatuses == {"UNKNOWN", "HEALTHY", "DEGRADED", "UNHEALTHY"}
Entries == [status : HealthStatuses, previous : HealthStatuses \cup {"none"}]

ReporterTypeOK == health \in HealthStatuses /\ log \in Seq(Entries)

\* Each entry names the status of the one before it.
IsChain(history) ==
  \A i \in 2..Len(history) :
    history[i].previous = IF history[i].status = history[i - 1].status
                            THEN "none" ELSE history[i - 1].status

ReporterInv == ReporterTypeOK /\ StatusIsRecorded

\* update_status() extends the chain and drops its oldest entry.
LEMMA StatusUpdated ==
  ASSUME ReporterInv, NEW new \in HealthStatuses, UpdateStatus(new)
  PROVE  ReporterInv'
  <1> DEFINE entry == Entry(new)
  <1> DEFINE all == Append(log, entry)
  <1> DEFINE n == Len(log)
  <1>1. entry \in Entries /\ entry.status = new
    BY DEF ReporterInv, ReporterTypeOK, Entry, Entries
  <1>2. /\ all \in Seq(Entries) /\ n \in Nat /\ Len(all) = n + 1
        /\ all[n + 1] = entry /\ \A i \in 1..n : all[i] = log[i]
    <2> HIDE DEF entry
    <2> QED
      BY <1>1 DEF ReporterInv, ReporterTypeOK
  <1>3. HistorySize \in Nat \ {0} /\ n <= HistorySize
    BY ErrorsAssumption DEF ReporterInv, StatusIsRecorded
  <1>4. n > 0 => log[n].status = health
    BY <1>2 DEF ReporterInv, ReporterTypeOK, StatusIsRecorded, Last
  <1>5. IsChain(all)
    <2> SUFFICES ASSUME NEW i \in 2..(n + 1)
                 PROVE  all[i].previous = IF all[i].status = all[i - 1].status
                                            THEN "none" ELSE all[i - 1].status
      BY <1>2 DEF IsChain
    <2>1. CASE i = n + 1
      <3>1. n > 0 /\ n \in 1..n /\ i - 1 = n
        BY <2>1, <1>2
      <3>2. all[i] = entry /\ all[i - 1].status = health
        BY <2>1, <3>1, <1>2, <1>4
      <3> QED
        BY <3>2 DEF Entry
    <2>2. CASE i # n + 1
      <3>1. i \in 2..n /\ i \in 1..n /\ i - 1 \in 1..n
        BY <2>2, <1>2
      <3>2. all[i] = log[i] /\ all[i - 1] = log[i - 1]
        BY <3>1, <1>2
      <3> QED
        BY <3>1, <3>2 DEF ReporterInv, StatusIsRecorded
    <2> QED
      BY <2>1, <2>2
  <1>6. /\ log' \in Seq(Entries) /\ log' # <<>> /\ Len(log') <= HistorySize
        /\ Last(log').status = new /\ IsChain(log')
    <2>1. log' = Recent(all)
      BY DEF UpdateStatus
    <2>2. CASE n + 1 <= HistorySize
      <3>1. log' = all
        BY <2>1, <2>2, <1>2, <1>3 DEF Recent
      <3> HIDE DEF all, entry
      <3> QED
        BY <3>1, <2>2, <1>1, <1>2, <1>5 DEF Last
    <2>3. CASE ~(n + 1 <= HistorySize)
      <3>1. log' = Tail(all) /\ n = HistorySize
        BY <2>1, <2>3, <1>2, <1>3 DEF Recent
      <3> HIDE DEF all, entry, n
      <3>2. log' \in Seq(Entries) /\ Len(log') = n /\ \A i \in 1..n : log'[i] = all[i + 1]
        BY <3>1, <1>2, <1>3
      <3>3. Last(log').status = new /\ log' # <<>>
        <4>1. n \in 1..n
          BY <3>1, <1>2, <1>3
        <4>2. log'[n] = entry
          BY <4>1, <3>2, <1>2
        <4>3. Last(log') = log'[n]
          BY <3>2 DEF Last
        <4> QED
          BY <4>2, <4>3, <3>1, <3>2, <1>1, <1>3
      <3>4. IsChain(log')
        <4> SUFFICES ASSUME NEW i \in 2..n
                     PROVE  log'[i].previous = IF log'[i].status = log'[i - 1].status
                                                 THEN "none" ELSE log'[i - 1].status
          BY <3>2 DEF IsChain
        <4>1. i + 1 \in 2..Len(all) /\ i \in 1..n /\ i - 1 \in 1..n /\ (i - 1) + 1 = i
              /\ (i + 1) - 1 = i
          BY <1>2
        <4>2. log'[i] = all[i + 1] /\ log'[i - 1] = all[i]
          BY <4>1, <3>2
        <4> QED
          BY <4>1, <4>2, <1>5 DEF IsChain
      <3> QED
        BY <3>1, <3>2, <3>3, <3>4, <1>3
    <2> QED
      BY <2>2, <2>3
  <1>7. health' = new
    BY DEF UpdateStatus
  <1> QED
    BY <1>6, <1>7 DEF ReporterInv, ReporterTypeOK, StatusIsRecorded, IsChain

\* Steps that update the status do it by update_status(); no other touches it.
LEMMA ReporterNextInv ==
  ReporterInv /\ [ErrorsNext \/ ReporterNext]_errorVars => ReporterInv'
  <1> SUFFICES ASSUME ReporterInv, [ErrorsNext \/ ReporterNext]_errorVars
               PROVE  ReporterInv'
    OBVIOUS
  <1>1. ASSUME UNCHANGED <<health, log>> PROVE ReporterInv'
    BY <1>1 DEF ReporterInv, ReporterTypeOK, StatusIsRecorded, Last
  <1>2. ASSUME NEW new \in {"HEALTHY", "DEGRADED"}, UpdateStatus(new) PROVE ReporterInv'
    BY <1>2, StatusUpdated DEF HealthStatuses
  <1>3. ASSUME NEW metrics \in [connectionFailures : 5..6, highErrorRate : BOOLEAN],
               UpdateHealthMetrics(metrics)
        PROVE  ReporterInv'
    <2>1. Evaluate(metrics) \in HealthStatuses
      BY DEF Evaluate, HealthStatuses
    <2> QED
      BY <1>3, <2>1, StatusUpdated DEF UpdateHealthMetrics
  <1>4. CASE ErrorsNext
    <2>1. UNCHANGED reports
      BY <1>4 DEF ErrorsNext, HandlerStep, HandleError, AttemptRecovery, NotRecovered,
         CallbackSucceeds, CallbackFails, Handled
    <2> QED
      BY <1>1, <2>1 DEF reports
  <1>5. CASE \/ StartReporter \/ ReportEvent \/ HealthCheck \/ DeliverNote
             \/ StopReporter \/ StopStep
    <2>1. UNCHANGED <<health, log>>
      BY <1>5 DEF StartReporter, ReportEvent, HealthCheck, DeliverNote, StopReporter,
         StopStep, CheckerStopped, NotifierStopped
    <2> QED
      BY <1>1, <2>1
  <1>6. CASE UNCHANGED errorVars
    BY <1>1, <1>6 DEF errorVars, reports
  <1> QED
    BY <1>2, <1>3, <1>4, <1>5, <1>6 DEF ReporterNext

\* The empty history.
LEMMA ReporterInitInv == ErrorsInit => ReporterInv
  <1> SUFFICES ASSUME ErrorsInit PROVE ReporterInv
    OBVIOUS
  <1>1. log = <<>> /\ Len(log) = 0 /\ 2..Len(log) = {} /\ log \in Seq(Entries)
    BY DEF ErrorsInit, ReporterInit
  <1> QED
    BY <1>1, ErrorsAssumption DEF ErrorsInit, ReporterInit, ReporterInv, ReporterTypeOK,
       StatusIsRecorded, HealthStatuses

\* However errors are handled and statuses reported, the history leads up to
\* the current status without a gap, whatever its size.
THEOREM StatusRecorded == ErrorsSpec => []StatusIsRecorded
  <1>1. ReporterInv => StatusIsRecorded
    BY DEF ReporterInv
  <1> QED
    BY <1>1, ReporterInitInv, ReporterNextInv, PTL DEF ErrorsSpec

-----------------------------------------------------------------------------
(***************************************************************************)
(* The printer's buffer.  A record is written behind whatever the buffer,  *)
(* the current line and the bytes kept of earlier records hold, and is to  *)
(* be printed as by a printer that leaves nothing out and starts empty.    *)
(* Out() is all that a writer has printed, Stepped() what a code does to   *)
(* the other printer's lines; the lines of the writer then end with those  *)
(* of the other (LinesEnd) after every code, by induction along the codes, *)
(* as long as nothing is left out: the two wait for the same byte of       *)
(* status, since the bytes kept never end with SOH.  And without one of    *)
(* the Tells among the codes no run, kept bytes or not, is suppressed and  *)
(* no start of it is taken for a header.                                   *)
(***************************************************************************)
\* A set of naturals that is not empty has a least member.
LEMMA Least ==
  ASSUME NEW T, T \subseteq Nat, T # {}
  PROVE  \E x \in T : \A y \in T : x <= y
  <1> DEFINE R == OpToRel(<, Nat)
  <1>1. IsWellFoundedOn(R, Nat)
    BY NatLessThanWellFounded
  <1> HIDE DEF R
  <1>2. PICK x \in T : \A y \in T : ~(<<y, x>> \in R)
    BY <1>1, WFMin
  <1>3. \A y \in T : ~(y < x)
    BY <1>2 DEF R, OpToRel
  <1> QED
    BY <1>3

\* Induction over an interval; the set stands for the predicate.
LEMMA UpTo ==
  ASSUME NEW n \in Nat, NEW S, 0 \in S, \A i \in 1..n : i - 1 \in S => i \in S
  PROVE  0..n \subseteq S
  <1> SUFFICES ASSUME (0..n) \ S # {} PROVE FALSE
    OBVIOUS
  <1>1. PICK x \in (0..n) \ S : \A y \in (0..n) \ S : x <= y
    <2>1. (0..n) \ S \subseteq Nat
      OBVIOUS
    <2> QED
      BY <2>1, Least
  <1>2. x \in 1..n /\ x - 1 \in 0..n
    BY <1>1
  <1>3. x - 1 \in S
    BY <1>1, <1>2
  <1> QED
    BY <1>1, <1>2, <1>3

\* f lists what s becomes when g is applied again and again.
Iterates(f, g, s, n) == f[0] = s /\ \A i \in 1..n : f[i] = g[<<f[i - 1], i>>]

\* A function can be iterated along an interval.
LEMMA Iteration ==
  ASSUME NEW S, NEW n \in Nat, NEW g \in [S \X (1..n) -> S], NEW s \in S
  PROVE  \E f \in [0..n -> S] : Iterates(f, g, s, n)
  <1> DEFINE Good(m) == \E f \in [0..m -> S] :
                          f[0] = s /\ \A i \in 1..m : f[i] = g[<<f[i - 1], i>>]
  <1> DEFINE G == {m \in 0..n : Good(m)}
  <1>1. 0 \in G
    <2> DEFINE f == [i \in 0..0 |-> s]
    <2>1. f \in [0..0 -> S] /\ f[0] = s /\ 1..0 = {}
      OBVIOUS
    <2> HIDE DEF f
    <2>2. Good(0)
      BY <2>1
    <2> QED
      BY <2>2
  <1>2. ASSUME NEW m \in 1..n, m - 1 \in G PROVE m \in G
    <2>1. PICK f \in [0..(m - 1) -> S] :
                 f[0] = s /\ \A i \in 1..(m - 1) : f[i] = g[<<f[i - 1], i>>]
      BY <1>2
    <2> DEFINE h == [i \in 0..m |-> IF i = m THEN g[<<f[m - 1], m>>] ELSE f[i]]
    <2>2. m - 1 \in 0..(m - 1) /\ f[m - 1] \in S /\ <<f[m - 1], m>> \in S \X (1..n)
      BY <2>1
    <2>3. g[<<f[m - 1], m>>] \in S
      BY <2>2
    <2>4. \A i \in 0..m : i # m => i \in 0..(m - 1)
      OBVIOUS
    <2>5. h \in [0..m -> S]
      BY <2>3, <2>4
    <2>6. h[0] = s
      BY <2>1
    <2>7. ASSUME NEW i \in 1..m PROVE h[i] = g[<<h[i - 1], i>>]
      <3>1. i - 1 \in 0..m /\ i - 1 # m /\ h[i - 1] = f[i - 1] /\ i \in 0..m
        OBVIOUS
      <3>2. CASE i = m
        BY <3>1, <3>2
      <3>3. CASE i # m
        <4>1. i \in 1..(m - 1) /\ h[i] = f[i]
          BY <3>3
        <4> QED
          BY <3>1, <4>1, <2>1
      <3> QED
        BY <3>2, <3>3
    <2> HIDE DEF h
    <2>8. Good(m)
      BY <2>5, <2>6, <2>7
    <2> QED
      BY <2>8
  <1> HIDE DEF G
  <1>3. 0..n \subseteq G
    BY <1>1, <1>2, UpTo
  <1>4. n \in G
    BY <1>3
  <1> QED
    BY <1>4 DEF G, Iterates

\* What lines are made of.
Shown == Codes \cup {"blank", "EOJ"}

\* The states of the writer.
Writers == [lines : Seq(Seq(Shown)), cur : Seq(Shown), run : Seq(Codes), text : Seq(Codes),
            soh : BOOLEAN, lost : BOOLEAN]

\* All lines of a writer, the current one with its run of text included.
Out(w) == Append(w.lines, w.cur \o w.text)

\* t ends with s.
TextEnds(t, s) ==
  Len(s) <= Len(t) /\ \A i \in 1..Len(s) : t[Len(t) - Len(s) + i] = s[i]

\* The lines o end with the lines v, of which the first may go on with a line
\* begun before.
LinesEnd(o, v) ==
  /\ 1 <= Len(v) /\ Len(v) <= Len(o)
  /\ TextEnds(o[Len(o) - Len(v) + 1], v[1])
  /\ \A j \in 2..Len(v) : o[Len(o) - Len(v) + j] = v[j]

\* An ending is a suffix.
LEMMA EndIsSuffix ==
  ASSUME NEW s \in Seq(Shown), NEW t \in Seq(Shown), TextEnds(t, s)
  PROVE  IsSuffix(s, t)
  <1> DEFINE m == Len(s)
  <1> DEFINE n == Len(t)
  <1>1. m \in Nat /\ n \in Nat /\ m <= n /\ \A i \in 1..m : t[n - m + i] = s[i]
    BY DEF TextEnds
  <1>2. \A i \in 1..n : t[n - i + 1] \in Shown
    OBVIOUS
  <1>3. \A i \in 1..m : s[m - i + 1] \in Shown
    OBVIOUS
  <1> DEFINE rs == Reverse(s)
  <1> DEFINE rt == Reverse(t)
  <1>4. rs \in Seq(Shown) /\ Len(rs) = m /\ \A i \in 1..m : rs[i] = s[m - i + 1]
    BY <1>1, <1>3 DEF Reverse
  <1>5. rt \in Seq(Shown) /\ Len(rt) = n /\ \A i \in 1..n : rt[i] = t[n - i + 1]
    BY <1>1, <1>2 DEF Reverse
  <1>6. ASSUME NEW i \in 1..m PROVE rs[i] = rt[i]
    <2>0. m \in Nat /\ n \in Nat /\ m <= n
      BY <1>1
    <2> HIDE DEF m, n, rs, rt
    <2>1. m - i + 1 \in 1..m /\ n - m + (m - i + 1) = n - i + 1 /\ i \in 1..n
      BY <2>0
    <2> QED
      BY <1>1, <1>4, <1>5, <2>1
  <1> HIDE DEF m, n, rs, rt
  <1>7. SubSeq(rs, 1, m) = rs
    BY <1>4, SubSeqFull
  <1>8. SubSeq(rt, 1, m) = rs
    <2> DEFINE q == SubSeq(rt, 1, m)
    <2>1. 1 \in Int /\ m \in Int /\ \A i \in 1..m : rt[i] \in Shown
      BY <1>1, <1>5
    <2>2. /\ q \in Seq(Shown) /\ Len(q) = IF 1 <= m THEN m - 1 + 1 ELSE 0
          /\ \A i \in 1..(m - 1 + 1) : q[i] = rt[1 + i - 1]
      BY <2>1, SubSeqProperties
    <2> HIDE DEF q
    <2>3. Len(q) = m /\ \A i \in 1..m : q[i] = rt[i]
      BY <1>1, <2>2
    <2>4. q = rs
      BY <1>4, <1>6, <2>2, <2>3, SeqEqual
    <2> QED
      BY <2>4 DEF q
  <1> QED
    BY <1>1, <1>4, <1>5, <1>7, <1>8 DEF IsSuffix, IsPrefix, rs, rt

\* Lines that end so are what EndWith() asks for.
LEMMA LinesEndWith ==
  ASSUME NEW o \in Seq(Seq(Shown)), NEW v \in Seq(Seq(Shown)), LinesEnd(o, v)
  PROVE  EndWith(o, v)
  <1>1. /\ Len(o) - Len(v) >= 0 /\ Len(o) - Len(v) + 1 \in 1..Len(o) /\ 1 \in 1..Len(v)
    BY DEF LinesEnd
  <1>2. o[Len(o) - Len(v) + 1] \in Seq(Shown) /\ v[1] \in Seq(Shown)
    BY <1>1, ElementOfSeq
  <1>3. IsSuffix(v[1], o[Len(o) - Len(v) + 1])
    BY <1>2, EndIsSuffix DEF LinesEnd
  <1> QED
    BY <1>1, <1>3 DEF EndWith, LinesEnd

\* The same code behind both keeps an ending.
LEMMA TextEndsAppend ==
  ASSUME NEW s \in Seq(Shown), NEW t \in Seq(Shown), TextEnds(t, s), NEW c \in Shown
  PROVE  TextEnds(Append(t, c), Append(s, c))
  <1> DEFINE m == Len(s)
  <1> DEFINE n == Len(t)
  <1> DEFINE s2 == Append(s, c)
  <1> DEFINE t2 == Append(t, c)
  <1>1. m \in Nat /\ n \in Nat /\ m <= n /\ \A i \in 1..m : t[n - m + i] = s[i]
    BY DEF TextEnds
  <1>2. Len(s2) = m + 1 /\ s2[m + 1] = c /\ \A i \in 1..m : s2[i] = s[i]
    BY AppendProperties
  <1>3. Len(t2) = n + 1 /\ t2[n + 1] = c /\ \A i \in 1..n : t2[i] = t[i]
    BY AppendProperties
  <1> HIDE DEF m, n, s2, t2
  <1>4. ASSUME NEW i \in 1..(m + 1) PROVE t2[(n + 1) - (m + 1) + i] = s2[i]
    <2>1. CASE i = m + 1
      BY <1>1, <1>2, <1>3, <2>1
    <2>2. CASE i # m + 1
      <3>1. i \in 1..m /\ n - m + i \in 1..n /\ (n + 1) - (m + 1) + i = n - m + i
        BY <1>1, <2>2
      <3> QED
        BY <1>1, <1>2, <1>3, <3>1
    <2> QED
      BY <2>1, <2>2
  <1>5. TextEnds(t2, s2)
    BY <1>1, <1>2, <1>3, <1>4 DEF TextEnds
  <1> QED
    BY <1>5 DEF s2, t2

\* Letters and tabs go on with the last line; LF and FF begin two new ones.
LEMMA SteppedLines ==
  ASSUME NEW o \in Seq(Seq(Shown)), Len(o) >= 1, NEW c \in Codes
  PROVE  /\ Stepped(o, c) \in Seq(Seq(Shown)) /\ Len(Stepped(o, c)) >= 1
         /\ c \in Letters \cup {"HT", "order"} =>
              /\ Len(Stepped(o, c)) = Len(o)
              /\ Stepped(o, c)[Len(o)] = Append(o[Len(o)], c)
              /\ \A j \in 1..(Len(o) - 1) : Stepped(o, c)[j] = o[j]
         /\ c \in {"LF", "FF"} =>
              /\ Len(Stepped(o, c)) = Len(o) + 2
              /\ \A j \in 1..Len(o) : Stepped(o, c)[j] = o[j]
              /\ Stepped(o, c)[Len(o) + 1] = IF c = "LF" THEN << >> ELSE <<"FF">>
              /\ Stepped(o, c)[Len(o) + 2] = << >>
         /\ c \in {"CR", "SOH", "ctl"} => Stepped(o, c) = o
  <1> DEFINE n == Len(o)
  <1>1. n \in Nat /\ n >= 1 /\ n \in 1..n /\ o[n] \in Seq(Shown) /\ c \in Shown
    BY DEF Shown
  <1>2. CASE c \in Letters \cup {"HT", "order"}
    <2>1. Stepped(o, c) = [o EXCEPT ![n] = Append(o[n], c)]
      BY <1>2 DEF Stepped, Letters, Alphabetic
    <2>2. Append(o[n], c) \in Seq(Shown)
      BY <1>1, AppendProperties
    <2> DEFINE e == Append(o[n], c)
    <2> HIDE DEF e
    <2>3. /\ [o EXCEPT ![n] = e] \in Seq(Seq(Shown)) /\ Len([o EXCEPT ![n] = e]) = n
          /\ \A j \in 1..n : [o EXCEPT ![n] = e][j] = IF j = n THEN e ELSE o[j]
      BY <1>1, <2>2, ExceptSeq DEF e
    <2> DEFINE q == Stepped(o, c)
    <2>4. q \in Seq(Seq(Shown)) /\ Len(q) = n /\ \A j \in 1..n : q[j] = IF j = n THEN e ELSE o[j]
      BY <2>1, <2>3 DEF e
    <2> HIDE DEF q, n
    <2>5. q[n] = e /\ \A j \in 1..(n - 1) : q[j] = o[j]
      BY <1>1, <2>4
    <2>6. c \notin {"LF", "FF"} /\ c \notin {"CR", "SOH", "ctl"}
      BY <1>2 DEF Letters, Alphabetic
    <2> QED
      BY <1>1, <2>4, <2>5, <2>6 DEF q, n, e
  <1>3. CASE c \in {"LF", "FF"}
    <2> DEFINE x == IF c = "LF" THEN << >> ELSE <<"FF">>
    <2>1. Stepped(o, c) = Append(Append(o, x), << >>)
      BY <1>3 DEF Stepped, Letters, Alphabetic
    <2>2. x \in Seq(Shown) /\ << >> \in Seq(Shown)
      <3>1. "FF" \in Shown
        BY DEF Shown, Codes, Controls
      <3> QED
        BY <3>1
    <2> HIDE DEF x
    <2> DEFINE p == Append(o, x)
    <2> DEFINE q == Append(p, << >>)
    <2>3. p \in Seq(Seq(Shown)) /\ Len(p) = n + 1 /\ p[n + 1] = x /\ \A j \in 1..n : p[j] = o[j]
      BY <2>2, AppendProperties
    <2> HIDE DEF p
    <2>4. /\ q \in Seq(Seq(Shown)) /\ Len(q) = Len(p) + 1 /\ q[Len(p) + 1] = << >>
          /\ \A j \in 1..Len(p) : q[j] = p[j]
      BY <2>2, <2>3, AppendProperties
    <2> HIDE DEF q, n
    <2>5. /\ Len(q) = n + 2 /\ q[n + 1] = x /\ q[n + 2] = << >> /\ \A j \in 1..n : q[j] = o[j]
      <3>1. Len(p) + 1 = n + 2 /\ n + 1 \in 1..Len(p) /\ \A j \in 1..n : j \in 1..Len(p)
        BY <1>1, <2>3
      <3>2. \A j \in 1..n : q[j] = o[j]
        BY <2>3, <2>4, <3>1
      <3> QED
        BY <2>3, <2>4, <3>1, <3>2
    <2>6. q = Stepped(o, c) /\ c \notin Letters \cup {"HT", "order"} /\ c \notin {"CR", "SOH", "ctl"}
      BY <1>3, <2>1 DEF p, q, Letters, Alphabetic
    <2> QED
      BY <1>1, <2>4, <2>5, <2>6 DEF n, x
  <1>4. CASE c \in {"CR", "SOH", "ctl"}
    BY <1>4 DEF Stepped, Letters, Alphabetic
  <1> QED
    BY <1>2, <1>3, <1>4 DEF Codes, Controls

\* The same code keeps the lines' ending.
LEMMA StepKeepsEnd ==
  ASSUME NEW o \in Seq(Seq(Shown)), NEW v \in Seq(Seq(Shown)), LinesEnd(o, v), NEW c \in Codes
  PROVE  LinesEnd(Stepped(o, c), Stepped(v, c))
  <1> DEFINE n == Len(o)
  <1> DEFINE m == Len(v)
  <1> DEFINE o2 == Stepped(o, c)
  <1> DEFINE v2 == Stepped(v, c)
  <1>1. /\ n \in Nat /\ m \in Nat /\ 1 <= m /\ m <= n
        /\ TextEnds(o[n - m + 1], v[1]) /\ \A j \in 2..m : o[n - m + j] = v[j]
    BY DEF LinesEnd
  <1>0. Len(o) >= 1 /\ Len(v) >= 1
    BY <1>1
  <1>2. CASE c \in Letters \cup {"HT", "order"}
    <2>1. Len(o2) = n /\ o2[n] = Append(o[n], c) /\ \A j \in 1..(n - 1) : o2[j] = o[j]
      BY <1>0, <1>2, SteppedLines
    <2>2. Len(v2) = m /\ v2[m] = Append(v[m], c) /\ \A j \in 1..(m - 1) : v2[j] = v[j]
      BY <1>0, <1>2, SteppedLines
    <2>3. c \in Shown /\ o[n - m + 1] \in Seq(Shown) /\ v[1] \in Seq(Shown)
      <3>1. n - m + 1 \in 1..n /\ 1 \in 1..m
        BY <1>1
      <3> QED
        BY <3>1, ElementOfSeq DEF Shown
    <2> HIDE DEF n, m, o2, v2
    <2>4. TextEnds(o2[n - m + 1], v2[1])
      <3>1. CASE m = 1
        <4>1. n - m + 1 = n
          BY <1>1, <3>1
        <4>2. TextEnds(Append(o[n], c), Append(v[1], c))
          BY <1>1, <2>3, <4>1, TextEndsAppend
        <4> QED
          BY <2>1, <2>2, <3>1, <4>1, <4>2
      <3>2. CASE m # 1
        <4>1. n - m + 1 \in 1..(n - 1) /\ 1 \in 1..(m - 1)
          BY <1>1, <3>2
        <4> QED
          BY <1>1, <2>1, <2>2, <4>1
      <3> QED
        BY <3>1, <3>2
    <2>5. ASSUME NEW j \in 2..m PROVE o2[n - m + j] = v2[j]
      <3>1. CASE j = m
        <4>1. n - m + j = n
          BY <1>1, <3>1
        <4>2. o[n - m + j] = v[j]
          BY <1>1
        <4> QED
          BY <2>1, <2>2, <3>1, <4>1, <4>2
      <3>2. CASE j # m
        <4>1. n - m + j \in 1..(n - 1) /\ j \in 1..(m - 1)
          BY <1>1, <3>2
        <4> QED
          BY <1>1, <2>1, <2>2, <4>1
      <3> QED
        BY <3>1, <3>2
    <2> QED
      BY <1>1, <2>1, <2>2, <2>4, <2>5 DEF LinesEnd, o2, v2
  <1>3. CASE c \in {"LF", "FF"}
    <2> DEFINE x == IF c = "LF" THEN << >> ELSE <<"FF">>
    <2>1. /\ Len(o2) = n + 2 /\ o2[n + 1] = x /\ o2[n + 2] = << >> /\ \A j \in 1..n : o2[j] = o[j]
      BY <1>0, <1>3, SteppedLines
    <2>2. /\ Len(v2) = m + 2 /\ v2[m + 1] = x /\ v2[m + 2] = << >> /\ \A j \in 1..m : v2[j] = v[j]
      BY <1>0, <1>3, SteppedLines
    <2> HIDE DEF n, m, o2, v2, x
    <2>3. (n + 2) - (m + 2) + 1 = n - m + 1 /\ n - m + 1 \in 1..n /\ 1 \in 1..m
      BY <1>1
    <2>4. TextEnds(o2[(n + 2) - (m + 2) + 1], v2[1])
      BY <1>1, <2>1, <2>2, <2>3
    <2>5. ASSUME NEW j \in 2..(m + 2) PROVE o2[(n + 2) - (m + 2) + j] = v2[j]
      <3>1. CASE j = m + 1
        <4>1. (n + 2) - (m + 2) + j = n + 1
          BY <1>1, <3>1
        <4> QED
          BY <2>1, <2>2, <3>1, <4>1
      <3>2. CASE j = m + 2
        <4>1. (n + 2) - (m + 2) + j = n + 2
          BY <1>1, <3>2
        <4> QED
          BY <2>1, <2>2, <3>2, <4>1
      <3>3. CASE j # m + 1 /\ j # m + 2
        <4>1. j \in 2..m /\ j \in 1..m /\ (n + 2) - (m + 2) + j = n - m + j /\ n - m + j \in 1..n
          BY <1>1, <3>3
        <4> QED
          BY <1>1, <2>1, <2>2, <4>1
      <3> QED
        BY <3>1, <3>2, <3>3
    <2>6. 1 <= m + 2 /\ m + 2 <= n + 2
      BY <1>1
    <2> QED
      BY <2>1, <2>2, <2>4, <2>5, <2>6 DEF LinesEnd, o2, v2
  <1>4. CASE c \in {"CR", "SOH", "ctl"}
    BY <1>0, <1>4, SteppedLines
  <1> QED
    BY <1>2, <1>3, <1>4 DEF Codes, Controls

\* A code behind a run is a code behind the line.
LEMMA ConcatAppend ==
  ASSUME NEW s \in Seq(Shown), NEW t \in Seq(Shown), NEW c \in Shown
  PROVE  s \o Append(t, c) = Append(s \o t, c)
  <1> DEFINE t2 == Append(t, c)
  <1> DEFINE u == s \o t
  <1> DEFINE a == s \o t2
  <1> DEFINE b == Append(u, c)
  <1> DEFINE m == Len(s)
  <1> DEFINE n == Len(t)
  <1>1. m \in Nat /\ n \in Nat
    OBVIOUS
  <1>2. t2 \in Seq(Shown) /\ Len(t2) = n + 1 /\ t2[n + 1] = c /\ \A i \in 1..n : t2[i] = t[i]
    BY AppendProperties
  <1>3. /\ u \in Seq(Shown) /\ Len(u) = m + n
        /\ \A i \in 1..(m + n) : u[i] = IF i <= m THEN s[i] ELSE t[i - m]
    BY ConcatProperties
  <1> HIDE DEF t2, u
  <1>4. /\ a \in Seq(Shown) /\ Len(a) = m + Len(t2)
        /\ \A i \in 1..(m + Len(t2)) : a[i] = IF i <= m THEN s[i] ELSE t2[i - m]
    BY <1>2, ConcatProperties
  <1>5. /\ b \in Seq(Shown)
        /\ Len(b) = Len(u) + 1
        /\ \A i \in 1..Len(u) : b[i] = u[i]
        /\ b[Len(u) + 1] = c
    <2> HIDE DEF m, n, a
    <2> QED
      BY <1>3, AppendProperties, ZenonT(20)
  <1> HIDE DEF a, b, m, n
  <1>6. Len(a) = m + n + 1 /\ Len(b) = m + n + 1
    BY <1>1, <1>2, <1>3, <1>4, <1>5
  <1>7. ASSUME NEW i \in 1..Len(a) PROVE a[i] = b[i]
    <2>1. CASE i = m + n + 1
      <3>1. ~(i <= m) /\ i - m = n + 1 /\ i \in 1..(m + Len(t2)) /\ i = Len(u) + 1
        BY <1>1, <1>2, <1>3, <2>1
      <3> QED
        BY <1>2, <1>4, <1>5, <3>1
    <2>2. CASE i # m + n + 1
      <3>1. i \in 1..(m + n) /\ i \in 1..Len(u) /\ i \in 1..(m + Len(t2)) /\ (~(i <= m) => i - m \in 1..n)
        BY <1>1, <1>2, <1>3, <1>6, <2>2
      <3> QED
        BY <1>2, <1>3, <1>4, <1>5, <3>1
    <2> QED
      BY <2>1, <2>2
  <1>8. a = b
    BY <1>4, <1>5, <1>6, <1>7, SeqEqual
  <1> QED
    BY <1>8 DEF a, b, t2, u

\* A letter or a tab behind the current line.
LEMMA SteppedLast ==
  ASSUME NEW l \in Seq(Seq(Shown)), NEW x \in Seq(Shown), NEW c \in Codes,
         c \in Letters \cup {"HT", "order"}
  PROVE  Stepped(Append(l, x), c) = Append(l, Append(x, c))
  <1> DEFINE n == Len(l)
  <1> DEFINE o == Append(l, x)
  <1> DEFINE y == Append(x, c)
  <1> DEFINE p == Append(l, y)
  <1> DEFINE q == Stepped(o, c)
  <1>1. n \in Nat /\ o \in Seq(Seq(Shown)) /\ Len(o) = n + 1 /\ o[n + 1] = x /\ \A j \in 1..n : o[j] = l[j]
    BY AppendProperties
  <1>2. y \in Seq(Shown)
    BY AppendProperties DEF Shown
  <1>3. p \in Seq(Seq(Shown)) /\ Len(p) = n + 1 /\ p[n + 1] = y /\ \A j \in 1..n : p[j] = l[j]
    <2> HIDE DEF y
    <2> QED
      BY <1>2, AppendProperties
  <1> HIDE DEF n, o, p
  <1>4. Len(o) >= 1
    BY <1>1
  <1>5. /\ q \in Seq(Seq(Shown)) /\ Len(q) = Len(o) /\ q[Len(o)] = Append(o[Len(o)], c)
        /\ \A j \in 1..(Len(o) - 1) : q[j] = o[j]
    BY <1>1, <1>4, SteppedLines
  <1> HIDE DEF q
  <1>6. q[n + 1] = y /\ Len(q) = n + 1 /\ \A j \in 1..n : q[j] = l[j]
    BY <1>1, <1>5 DEF y
  <1> HIDE DEF y
  <1>7. ASSUME NEW j \in 1..Len(q) PROVE q[j] = p[j]
    <2>1. j \in 1..n \/ j = n + 1
      BY <1>1, <1>6
    <2> QED
      BY <1>3, <1>6, <2>1
  <1>8. Len(q) = Len(p)
    BY <1>3, <1>6
  <1>9. q = p
    BY <1>3, <1>5, <1>7, <1>8, SeqEqual
  <1> QED
    BY <1>9 DEF o, p, q, y

\* A writer by its parts.
Parts(l, x, r, t, s, b) ==
  [lines |-> l, cur |-> x, run |-> r, text |-> t, soh |-> s, lost |-> b]

\* The parts of such a writer.
LEMMA OnParts ==
  ASSUME NEW l, NEW x, NEW r, NEW t, NEW s, NEW b
  PROVE  /\ Parts(l, x, r, t, s, b).lines = l /\ Parts(l, x, r, t, s, b).cur = x
         /\ Parts(l, x, r, t, s, b).run = r /\ Parts(l, x, r, t, s, b).text = t
         /\ Parts(l, x, r, t, s, b).soh = s /\ Parts(l, x, r, t, s, b).lost = b
         /\ Out(Parts(l, x, r, t, s, b)) = Append(l, x \o t)
  BY DEF Parts, Out

\* One part replaced, the current line.
LEMMA SetCur ==
  ASSUME NEW l, NEW x, NEW r, NEW t, NEW s, NEW b, NEW y
  PROVE  [Parts(l, x, r, t, s, b) EXCEPT !.cur = y] = Parts(l, y, r, t, s, b)
  BY DEF Parts

\* The same for the run.
LEMMA SetRun ==
  ASSUME NEW l, NEW x, NEW r, NEW t, NEW s, NEW b, NEW y
  PROVE  [Parts(l, x, r, t, s, b) EXCEPT !.run = y] = Parts(l, x, y, t, s, b)
  BY DEF Parts

\* The same for its text.
LEMMA SetText ==
  ASSUME NEW l, NEW x, NEW r, NEW t, NEW s, NEW b, NEW y
  PROVE  [Parts(l, x, r, t, s, b) EXCEPT !.text = y] = Parts(l, x, r, y, s, b)
  BY DEF Parts

\* The same for the flag of a header's byte.
LEMMA SetSoh ==
  ASSUME NEW l, NEW x, NEW r, NEW t, NEW s, NEW b, NEW y
  PROVE  [Parts(l, x, r, t, s, b) EXCEPT !.soh = y] = Parts(l, x, r, t, y, b)
  BY DEF Parts

\* The same for the history of what is left out.
LEMMA SetLost ==
  ASSUME NEW l, NEW x, NEW r, NEW t, NEW s, NEW b, NEW y
  PROVE  [Parts(l, x, r, t, s, b) EXCEPT !.lost = y] = Parts(l, x, r, t, s, y)
  BY DEF Parts

\* A flush moves the current line.
LEMMA FlushParts ==
  ASSUME NEW l, NEW x, NEW r, NEW t, NEW s, NEW b
  PROVE  Flush(Parts(l, x, r, t, s, b)) = Parts(Append(l, x), << >>, r, t, s, b)
  <1> DEFINE w == Parts(l, x, r, t, s, b)
  <1> DEFINE e == << >>
  <1> DEFINE y == Append(l, x)
  <1>0. w.lines = l /\ w.cur = x
    BY DEF Parts
  <1>1. Flush(w) = [w EXCEPT !.lines = y, !.cur = e]
    <2> HIDE DEF w
    <2> QED
      BY <1>0 DEF Flush
  <1> HIDE DEF e, y
  <1>2. [w EXCEPT !.lines = y, !.cur = e] = [[w EXCEPT !.lines = y] EXCEPT !.cur = e]
    OBVIOUS
  <1>3. [w EXCEPT !.lines = y] = Parts(y, x, r, t, s, b)
    BY DEF Parts
  <1>4. [Parts(y, x, r, t, s, b) EXCEPT !.cur = e] = Parts(y, e, r, t, s, b)
    BY SetCur
  <1> QED
    BY <1>1, <1>2, <1>3, <1>4 DEF e, y

\* A line feed ends the current line and an empty one.
LEMMA LineFeed ==
  ASSUME NEW l, NEW x, NEW r, NEW t, NEW s, NEW b
  PROVE  Control(Parts(l, x, r, t, s, b), "LF")
           = Parts(Append(Append(l, x), << >>), << >>, r, t, s, b)
  <1> DEFINE w == Parts(l, x, r, t, s, b)
  <1>1. Control(w, "LF") = Flush(Flush(w))
    BY DEF Control
  <1>2. Flush(w) = Parts(Append(l, x), << >>, r, t, s, b)
    BY FlushParts
  <1>3. Flush(Parts(Append(l, x), << >>, r, t, s, b))
          = Parts(Append(Append(l, x), << >>), << >>, r, t, s, b)
    BY FlushParts
  <1> HIDE DEF w
  <1>4. Control(w, "LF") = Parts(Append(Append(l, x), << >>), << >>, r, t, s, b)
    BY <1>1, <1>2, <1>3
  <1> QED
    BY <1>4 DEF w

\* A form feed ends the current line and stands on a line of its own.
LEMMA FormFeed ==
  ASSUME NEW l, NEW x, NEW r, NEW t, NEW s, NEW b
  PROVE  Control(Parts(l, x, r, t, s, b), "FF")
           = Parts(Append(Append(l, x), <<"FF">>), << >>, r, t, s, b)
  <1> DEFINE w == Parts(l, x, r, t, s, b)
  <1>1. Control(w, "FF") = [Flush(w) EXCEPT !.lines = Append(@, <<"FF">>)]
    BY DEF Control
  <1>2. Flush(w) = Parts(Append(l, x), << >>, r, t, s, b)
    BY FlushParts
  <1>3. [Parts(Append(l, x), << >>, r, t, s, b) EXCEPT !.lines = Append(@, <<"FF">>)]
          = Parts(Append(Append(l, x), <<"FF">>), << >>, r, t, s, b)
    <2> DEFINE e == << >>
    <2> DEFINE y == Append(l, x)
    <2> DEFINE f == <<"FF">>
    <2> HIDE DEF e, y, f
    <2>1. [Parts(y, e, r, t, s, b) EXCEPT !.lines = Append(@, f)] = Parts(Append(y, f), e, r, t, s, b)
      BY DEF Parts
    <2> QED
      BY <2>1 DEF e, y, f
  <1> HIDE DEF w
  <1>4. Control(w, "FF") = Parts(Append(Append(l, x), <<"FF">>), << >>, r, t, s, b)
    BY <1>1, <1>2, <1>3
  <1> QED
    BY <1>4 DEF w

\* A tab goes to the current line.
LEMMA Tab ==
  ASSUME NEW l, NEW x, NEW r, NEW t, NEW s, NEW b
  PROVE  Control(Parts(l, x, r, t, s, b), "HT") = Parts(l, Append(x, "HT"), r, t, s, b)
  <1> DEFINE w == Parts(l, x, r, t, s, b)
  <1>1. Control(w, "HT") = [w EXCEPT !.cur = Append(@, "HT")]
    BY DEF Control
  <1>2. [w EXCEPT !.cur = Append(@, "HT")] = Parts(l, Append(x, "HT"), r, t, s, b)
    <2> DEFINE y == Append(x, "HT")
    <2>1. w.cur = x
      BY DEF Parts
    <2> HIDE DEF w
    <2>2. [w EXCEPT !.cur = Append(@, "HT")] = [w EXCEPT !.cur = y]
      BY <2>1
    <2> HIDE DEF y
    <2>3. [w EXCEPT !.cur = y] = Parts(l, y, r, t, s, b)
      BY SetCur DEF w
    <2> QED
      BY <2>2, <2>3 DEF y
  <1> QED
    BY <1>1, <1>2

\* A carriage return changes nothing.
LEMMA Return ==
  ASSUME NEW w
  PROVE  Control(w, "CR") = w
  BY DEF Control

\* SOH announces a byte of status.
LEMMA Header ==
  ASSUME NEW l, NEW x, NEW r, NEW t, NEW s, NEW b
  PROVE  Control(Parts(l, x, r, t, s, b), "SOH") = Parts(l, x, r, t, TRUE, b)
  <1> DEFINE w == Parts(l, x, r, t, s, b)
  <1>1. Control(w, "SOH") = [w EXCEPT !.soh = TRUE]
    BY DEF Control
  <1>2. [w EXCEPT !.soh = TRUE] = Parts(l, x, r, t, TRUE, b)
    <2> DEFINE yes == TRUE
    <2> HIDE DEF yes
    <2>1. [w EXCEPT !.soh = yes] = Parts(l, x, r, t, yes, b)
      BY SetSoh
    <2> QED
      BY <2>1 DEF yes
  <1> QED
    BY <1>1, <1>2

\* Writers have such parts, and such parts make a writer.
LEMMA WriterParts ==
  /\ \A w \in Writers : /\ w = Parts(w.lines, w.cur, w.run, w.text, w.soh, w.lost)
                        /\ w.lines \in Seq(Seq(Shown)) /\ w.cur \in Seq(Shown)
                        /\ w.run \in Seq(Codes) /\ w.text \in Seq(Codes)
                        /\ w.soh \in BOOLEAN /\ w.lost \in BOOLEAN
  /\ \A l \in Seq(Seq(Shown)), x \in Seq(Shown), r \in Seq(Codes), t \in Seq(Codes),
       s \in BOOLEAN, b \in BOOLEAN : Parts(l, x, r, t, s, b) \in Writers
  BY DEF Writers, Parts

\* What is left without a header is text.
LEMMA WithoutHeaderIsText ==
  ASSUME NEW t \in Seq(Shown), NEW blanks
  PROVE  WithoutHeader(t, blanks) \in Seq(Shown)
  <1> DEFINE n == Len(t)
  <1> DEFINE H == HeaderEnds(t, blanks)
  <1> DEFINE k == CHOOSE i \in H : TRUE
  <1> DEFINE q == SubSeq(t, k + 1, n)
  <1>1. H = {} => WithoutHeader(t, blanks) = t
    BY DEF WithoutHeader
  <1>2. H # {} => WithoutHeader(t, blanks) = q
    BY DEF WithoutHeader
  <1>3. ASSUME H # {} PROVE q \in Seq(Shown)
    <2>1. k \in H
      BY <1>3
    <2>2. k \in 2..(n - 1)
      BY <2>1 DEF HeaderEnds
    <2> HIDE DEF k, H
    <2>3. n \in Nat /\ k + 1 \in Int /\ \A i \in (k + 1)..n : t[i] \in Shown
      BY <2>2
    <2> HIDE DEF n
    <2> QED
      BY <2>3, SubSeqProperties
  <1> HIDE DEF H, q
  <1> QED
    BY <1>1, <1>2, <1>3

\* What becomes of the current line and of what is left out when a run ends.
CurAfter(x, r, t) == IF ShouldSuppress(r) THEN x ELSE x \o WithoutHeader(t, 0)
LostAfter(r, t, b) == b \/ ShouldSuppress(r) \/ WithoutHeader(t, 0) # t

\* The text of a run goes to the current line unless it is left out.
LEMMA EndRunOf ==
  ASSUME NEW l \in Seq(Seq(Shown)), NEW x \in Seq(Shown), NEW r \in Seq(Codes),
         NEW t \in Seq(Codes), NEW s \in BOOLEAN, NEW b \in BOOLEAN
  PROVE  /\ EndRun(Parts(l, x, r, t, s, b))
              = Parts(l, CurAfter(x, r, t), << >>, << >>, s, LostAfter(r, t, b))
         /\ CurAfter(x, r, t) \in Seq(Shown) /\ t \in Seq(Shown) /\ x \o t \in Seq(Shown)
         /\ LostAfter(r, t, b) \in BOOLEAN
         /\ ~LostAfter(r, t, b) => ~b /\ CurAfter(x, r, t) = x \o t
  <1> DEFINE w == Parts(l, x, r, t, s, b)
  <1> DEFINE e == << >>
  <1> DEFINE text == WithoutHeader(t, 0)
  <1>1. t \in Seq(Shown)
    <2>1. Codes \subseteq Shown
      BY DEF Shown
    <2> QED
      BY <2>1, SeqMonotonic
  <1>2. text \in Seq(Shown)
    BY <1>1, WithoutHeaderIsText
  <1> HIDE DEF text
  <1>3. x \o text \in Seq(Shown) /\ x \o t \in Seq(Shown)
    BY <1>1, <1>2, ConcatProperties
  <1>4. w.run = r /\ w.text = t /\ w.lost = b /\ w.cur = x
    BY OnParts
  <1>5. \A y, d : [[Parts(l, y, r, t, s, d) EXCEPT !.run = e] EXCEPT !.text = e] = Parts(l, y, e, e, s, d)
    <2> HIDE DEF e
    <2> SUFFICES ASSUME NEW y, NEW d
                 PROVE  [[Parts(l, y, r, t, s, d) EXCEPT !.run = e] EXCEPT !.text = e] = Parts(l, y, e, e, s, d)
      OBVIOUS
    <2>1. [Parts(l, y, r, t, s, d) EXCEPT !.run = e] = Parts(l, y, e, t, s, d)
      BY SetRun
    <2>2. [Parts(l, y, e, t, s, d) EXCEPT !.text = e] = Parts(l, y, e, e, s, d)
      BY SetText
    <2> QED
      BY <2>1, <2>2
  <1>6. \A v : [v EXCEPT !.run = e, !.text = e] = [[v EXCEPT !.run = e] EXCEPT !.text = e]
    OBVIOUS
  <1>7. CASE ShouldSuppress(r)
    <2> DEFINE yes == TRUE
    <2>1. EndRun(w) = [[w EXCEPT !.lost = yes] EXCEPT !.run = e, !.text = e]
      <3> HIDE DEF w
      <3> QED
        BY <1>4, <1>7 DEF EndRun
    <2> HIDE DEF yes
    <2>2. [w EXCEPT !.lost = yes] = Parts(l, x, r, t, s, yes)
      BY SetLost
    <2> HIDE DEF e, w
    <2>3. EndRun(w) = Parts(l, x, e, e, s, yes)
      BY <1>5, <1>6, <2>1, <2>2
    <2>4. LostAfter(r, t, b) = yes /\ CurAfter(x, r, t) = x
      BY <1>7 DEF LostAfter, CurAfter, yes
    <2> QED
      BY <1>1, <1>3, <2>3, <2>4 DEF yes, e, w
  <1>8. CASE ~ShouldSuppress(r)
    <2> DEFINE y == x \o text
    <2> DEFINE d == b \/ text # t
    <2>1. EndRun(w) = [AppendText(w) EXCEPT !.run = e, !.text = e]
      <3> HIDE DEF w
      <3> QED
        BY <1>4, <1>8 DEF EndRun
    <2>2. AppendText(w) = [w EXCEPT !.cur = w.cur \o WithoutHeader(w.text, 0),
                                    !.lost = w.lost \/ WithoutHeader(w.text, 0) # w.text]
      BY DEF AppendText
    <2>3. AppendText(w) = [w EXCEPT !.cur = y, !.lost = d]
      <3> HIDE DEF w
      <3> QED
        BY <1>4, <2>2 DEF text
    <2> HIDE DEF y, d
    <2>4. [w EXCEPT !.cur = y, !.lost = d] = [[w EXCEPT !.cur = y] EXCEPT !.lost = d]
      OBVIOUS
    <2>5. [w EXCEPT !.cur = y] = Parts(l, y, r, t, s, b)
      BY SetCur
    <2>6. [Parts(l, y, r, t, s, b) EXCEPT !.lost = d] = Parts(l, y, r, t, s, d)
      BY SetLost
    <2> HIDE DEF e, w
    <2>7. EndRun(w) = Parts(l, y, e, e, s, d)
      <3> DEFINE v == Parts(l, y, r, t, s, d)
      <3>1. AppendText(w) = v
        BY <2>3, <2>4, <2>5, <2>6
      <3>2. [[v EXCEPT !.run = e] EXCEPT !.text = e] = Parts(l, y, e, e, s, d)
        BY <1>5
      <3> HIDE DEF v
      <3>3. [v EXCEPT !.run = e, !.text = e] = Parts(l, y, e, e, s, d)
        BY <1>6, <3>2
      <3> QED
        BY <2>1, <3>1, <3>3
    <2>8. CurAfter(x, r, t) = y
      BY <1>8 DEF CurAfter, y, text
    <2>9. LostAfter(r, t, b) = d
      BY <1>8 DEF LostAfter, d, text
    <2>10. d \in BOOLEAN /\ (~d => ~b /\ y = x \o t)
      BY DEF d, y
    <2>11. y \in Seq(Shown)
      BY <1>3 DEF y
    <2> QED
      BY <1>1, <1>3, <2>7, <2>8, <2>9, <2>10, <2>11 DEF e, w
  <1> QED
    BY <1>7, <1>8

\* What a control code makes of a writer between two runs, and any code of the
\* parts of a writer.
ControlOf(l, y, d, c) == Control(Parts(l, y, << >>, << >>, FALSE, d), c)
CodeOf(l, x, r, t, s, b, c) ==
  IF s THEN Parts(l, x, r, t, FALSE, b)
  ELSE IF c \in Controls THEN ControlOf(l, CurAfter(x, r, t), LostAfter(r, t, b), c)
  ELSE Parts(l, x, Append(r, c), IF c = "ctl" THEN t ELSE Append(t, c), FALSE, b)

\* What a code makes of the parts.
LEMMA CodeParts ==
  ASSUME NEW l \in Seq(Seq(Shown)), NEW x \in Seq(Shown), NEW r \in Seq(Codes),
         NEW t \in Seq(Codes), NEW s \in BOOLEAN, NEW b \in BOOLEAN, NEW c \in Codes
  PROVE  Code(Parts(l, x, r, t, s, b), c) = CodeOf(l, x, r, t, s, b, c)
  <1> DEFINE w == Parts(l, x, r, t, s, b)
  <1>1. w.soh = s /\ w.run = r /\ w.text = t
    BY OnParts
  <1>2. EndRun(w) = Parts(l, CurAfter(x, r, t), << >>, << >>, s, LostAfter(r, t, b))
    BY EndRunOf
  <1>3. [w EXCEPT !.soh = FALSE] = Parts(l, x, r, t, FALSE, b)
    <2> DEFINE no == FALSE
    <2> HIDE DEF no
    <2>1. [w EXCEPT !.soh = no] = Parts(l, x, r, t, no, b)
      BY SetSoh
    <2> QED
      BY <2>1 DEF no
  <1> DEFINE r2 == Append(r, c)
  <1> DEFINE t2 == IF c = "ctl" THEN t ELSE Append(t, c)
  <1>4. [w EXCEPT !.run = r2, !.text = t2] = Parts(l, x, r2, t2, s, b)
    <2> HIDE DEF r2, t2
    <2>1. [w EXCEPT !.run = r2, !.text = t2] = [[w EXCEPT !.run = r2] EXCEPT !.text = t2]
      OBVIOUS
    <2>2. [w EXCEPT !.run = r2] = Parts(l, x, r2, t, s, b)
      BY SetRun
    <2>3. [Parts(l, x, r2, t, s, b) EXCEPT !.text = t2] = Parts(l, x, r2, t2, s, b)
      BY SetText
    <2> QED
      BY <2>1, <2>2, <2>3
  <1> HIDE DEF w
  <1>5. CASE s
    BY <1>1, <1>3, <1>5 DEF Code, CodeOf, w
  <1>6. CASE ~s
    <2>1. s = FALSE
      BY <1>6
    <2>2. Code(w, c) = IF c \in Controls THEN Control(EndRun(w), c)
                       ELSE [w EXCEPT !.run = Append(w.run, c),
                                      !.text = IF c = "ctl" THEN w.text ELSE Append(w.text, c)]
      BY <1>1, <1>6 DEF Code
    <2> QED
      BY <1>1, <1>2, <1>4, <2>1, <2>2 DEF CodeOf, ControlOf, w
  <1> QED
    BY <1>5, <1>6

\* All lines of the parts.
LEMMA OutParts ==
  ASSUME NEW l, NEW x, NEW r, NEW t, NEW s, NEW b
  PROVE  Out(Parts(l, x, r, t, s, b)) = Append(l, x \o t)
  BY DEF Parts, Out

\* The flag of the parts.
LEMMA SohParts ==
  ASSUME NEW l, NEW x, NEW r, NEW t, NEW s, NEW b
  PROVE  Parts(l, x, r, t, s, b).soh = s
  BY DEF Parts

\* Whether something was left out.
LEMMA LostParts ==
  ASSUME NEW l, NEW x, NEW r, NEW t, NEW s, NEW b
  PROVE  Parts(l, x, r, t, s, b).lost = b
  BY DEF Parts

\* A writer between two runs.
LEMMA Between ==
  ASSUME NEW l \in Seq(Seq(Shown)), NEW x \in Seq(Shown), NEW s \in BOOLEAN, NEW b \in BOOLEAN
  PROVE  /\ Parts(l, x, << >>, << >>, s, b) \in Writers
         /\ Parts(l, x, << >>, << >>, s, b).soh = s
         /\ Parts(l, x, << >>, << >>, s, b).lost = b
         /\ Out(Parts(l, x, << >>, << >>, s, b)) = Append(l, x)
         /\ Parts(l, x, << >>, << >>, s, b).run = << >>
         /\ Parts(l, x, << >>, << >>, s, b).text = << >>
  <1> DEFINE e == << >>
  <1> DEFINE v == Parts(l, x, e, e, s, b)
  <1>1. e \in Seq(Codes) /\ x \o e = x
    BY ConcatEmptySeq
  <1> HIDE DEF e
  <1>2. v \in Writers
    BY <1>1, WriterParts
  <1>3. v.soh = s
    BY SohParts
  <1>4. v.lost = b
    BY LostParts
  <1>5. Out(v) = Append(l, x \o e)
    BY OutParts
  <1>7. v.run = e /\ v.text = e
    BY DEF Parts
  <1> HIDE DEF v
  <1>6. /\ v \in Writers /\ v.soh = s /\ v.lost = b /\ Out(v) = Append(l, x)
        /\ v.run = e /\ v.text = e
    BY <1>1, <1>2, <1>3, <1>4, <1>5, <1>7
  <1> QED
    BY <1>6 DEF v, e

\* What a control code makes of the lines.
LEMMA OutOfControl ==
  ASSUME NEW l \in Seq(Seq(Shown)), NEW y \in Seq(Shown), NEW d \in BOOLEAN, NEW c \in Controls,
         NEW v, v = ControlOf(l, y, d, c)
  PROVE  /\ v \in Writers /\ v.soh = (c = "SOH") /\ v.lost = d
         /\ Out(v) = Stepped(Append(l, y), c) /\ v.run = << >> /\ v.text = << >>
  <1> DEFINE e == << >>
  <1> DEFINE no == FALSE
  <1> DEFINE yes == TRUE
  <1>1. Append(l, y) \in Seq(Seq(Shown)) /\ e \in Seq(Shown) /\ no \in BOOLEAN /\ yes \in BOOLEAN
    BY AppendProperties
  <1>2. v = Control(Parts(l, y, e, e, no, d), c)
    BY DEF ControlOf
  <1> DEFINE Fine(k, z, s) ==
        /\ Parts(k, z, e, e, s, d) \in Writers
        /\ Parts(k, z, e, e, s, d).soh = s
        /\ Parts(k, z, e, e, s, d).lost = d
        /\ Out(Parts(k, z, e, e, s, d)) = Append(k, z)
        /\ Parts(k, z, e, e, s, d).run = e /\ Parts(k, z, e, e, s, d).text = e
  <1>3. \A k \in Seq(Seq(Shown)), z \in Seq(Shown), s \in BOOLEAN : Fine(k, z, s)
    BY Between
  <1>4. CASE c = "LF"
    <2> DEFINE k == Append(Append(l, y), e)
    <2>1. Control(Parts(l, y, e, e, no, d), "LF") = Parts(k, e, e, e, no, d)
      <3> HIDE DEF no
      <3>1. Control(Parts(l, y, e, e, no, d), "LF") = Parts(Append(Append(l, y), << >>), << >>, e, e, no, d)
        BY LineFeed
      <3> QED
        BY <3>1
    <2>2. Stepped(Append(l, y), c) = Append(k, e)
      BY <1>4 DEF Stepped, Letters, Alphabetic
    <2> HIDE DEF e, no
    <2>3. k \in Seq(Seq(Shown))
      BY <1>1, AppendProperties
    <2> HIDE DEF k
    <2>4. Fine(k, e, no)
      BY <1>1, <1>3, <2>3
    <2> QED
      BY <1>2, <1>4, <2>1, <2>2, <2>4 DEF no, e
  <1>5. CASE c = "FF"
    <2> DEFINE f == <<"FF">>
    <2> DEFINE k == Append(Append(l, y), f)
    <2>1. Control(Parts(l, y, e, e, no, d), "FF") = Parts(k, e, e, e, no, d)
      <3> HIDE DEF no
      <3>1. Control(Parts(l, y, e, e, no, d), "FF") = Parts(Append(Append(l, y), <<"FF">>), << >>, e, e, no, d)
        BY FormFeed
      <3> QED
        BY <3>1
    <2>2. Stepped(Append(l, y), c) = Append(k, e)
      BY <1>5 DEF Stepped, Letters, Alphabetic
    <2>3. f \in Seq(Shown)
      <3>1. "FF" \in Shown
        BY DEF Shown, Codes, Controls
      <3> QED
        BY <3>1
    <2> HIDE DEF e, no, f
    <2>4. k \in Seq(Seq(Shown))
      BY <1>1, <2>3, AppendProperties
    <2> HIDE DEF k
    <2>5. Fine(k, e, no)
      BY <1>1, <1>3, <2>4
    <2> QED
      BY <1>2, <1>5, <2>1, <2>2, <2>5 DEF no, e
  <1>6. CASE c = "HT"
    <2> DEFINE z == Append(y, c)
    <2>1. Control(Parts(l, y, e, e, no, d), c) = Parts(l, z, e, e, no, d)
      <3> HIDE DEF e, no
      <3> QED
        BY <1>6, Tab
    <2>2. Stepped(Append(l, y), c) = Append(l, z)
      <3>1. c \in Letters \cup {"HT", "order"} /\ c \in Codes
        BY <1>6 DEF Codes
      <3> QED
        BY <3>1, SteppedLast
    <2>3. z \in Seq(Shown)
      <3>1. c \in Shown
        BY DEF Shown, Codes
      <3> QED
        BY <3>1, AppendProperties
    <2> HIDE DEF e, no, z
    <2>4. Fine(l, z, no)
      BY <1>1, <1>3, <2>3
    <2> QED
      BY <1>2, <1>6, <2>1, <2>2, <2>4 DEF no, e
  <1>7. CASE c = "CR"
    <2>1. Control(Parts(l, y, e, e, no, d), c) = Parts(l, y, e, e, no, d)
      <3> HIDE DEF e, no
      <3> QED
        BY <1>7, Return
    <2>2. Stepped(Append(l, y), c) = Append(l, y)
      BY <1>7 DEF Stepped, Letters, Alphabetic
    <2> HIDE DEF e, no
    <2>3. Fine(l, y, no)
      BY <1>1, <1>3
    <2> QED
      BY <1>2, <1>7, <2>1, <2>2, <2>3 DEF no, e
  <1>8. CASE c = "SOH"
    <2>1. Control(Parts(l, y, e, e, no, d), c) = Parts(l, y, e, e, yes, d)
      <3> HIDE DEF e, no
      <3> QED
        BY <1>8, Header
    <2>2. Stepped(Append(l, y), c) = Append(l, y)
      BY <1>8 DEF Stepped, Letters, Alphabetic
    <2> HIDE DEF e, no, yes
    <2>3. Fine(l, y, yes)
      BY <1>1, <1>3
    <2> QED
      BY <1>2, <1>8, <2>1, <2>2, <2>3 DEF yes, e
  <1> QED
    BY <1>4, <1>5, <1>6, <1>7, <1>8 DEF Controls

\* What a code makes of a writer's lines, unless text is left out.
LEMMA OutOfCode ==
  ASSUME NEW w \in Writers, NEW c \in Codes
  PROVE  /\ Code(w, c) \in Writers
         /\ Code(w, c).soh = (~w.soh /\ c = "SOH")
         /\ Out(w) \in Seq(Seq(Shown)) /\ Len(Out(w)) >= 1
         /\ ~Code(w, c).lost => ~w.lost
         /\ ~Code(w, c).lost => Out(Code(w, c)) = IF w.soh THEN Out(w) ELSE Stepped(Out(w), c)
  <1> DEFINE l == w.lines
  <1> DEFINE x == w.cur
  <1> DEFINE r == w.run
  <1> DEFINE t == w.text
  <1> DEFINE s == w.soh
  <1> DEFINE b == w.lost
  <1> DEFINE y == x \o t
  <1> DEFINE z == CurAfter(x, r, t)
  <1> DEFINE d == LostAfter(r, t, b)
  <1> DEFINE v == Code(w, c)
  <1>1. /\ w = Parts(l, x, r, t, s, b) /\ l \in Seq(Seq(Shown)) /\ x \in Seq(Shown)
        /\ r \in Seq(Codes) /\ t \in Seq(Codes) /\ s \in BOOLEAN /\ b \in BOOLEAN
    BY WriterParts
  <1>a. s = w.soh /\ b = w.lost
    OBVIOUS
  <1> HIDE DEF l, x, r, t, s, b, y, z, d
  <1>2. /\ t \in Seq(Shown) /\ y \in Seq(Shown) /\ c \in Shown
        /\ z \in Seq(Shown) /\ d \in BOOLEAN /\ (~d => ~b /\ z = y)
    BY <1>1, EndRunOf DEF y, z, d, Shown
  <1>3. Out(w) = Append(l, y)
    BY <1>1, OutParts DEF y
  <1>4. Append(l, y) \in Seq(Seq(Shown)) /\ Len(Append(l, y)) = Len(l) + 1
    BY <1>1, <1>2, AppendProperties
  <1>5. Out(w) \in Seq(Seq(Shown)) /\ Len(Out(w)) >= 1
    <2>1. Len(l) \in Nat
      BY <1>1
    <2> QED
      BY <1>3, <1>4, <2>1
  <1> DEFINE r2 == Append(r, c)
  <1> DEFINE t2 == IF c = "ctl" THEN t ELSE Append(t, c)
  <1>6. v = IF s THEN Parts(l, x, r, t, FALSE, b)
            ELSE IF c \in Controls THEN ControlOf(l, z, d, c)
            ELSE Parts(l, x, r2, t2, FALSE, b)
    <2>1. Code(Parts(l, x, r, t, s, b), c) = CodeOf(l, x, r, t, s, b, c)
      BY <1>1, CodeParts
    <2>2. v = Code(Parts(l, x, r, t, s, b), c)
      BY <1>1
    <2> QED
      BY <2>1, <2>2 DEF CodeOf, z, d
  <1> HIDE DEF v
  <1> DEFINE no == FALSE
  <1>7. no \in BOOLEAN
    OBVIOUS
  <1>8. CASE s
    <2>1. v = Parts(l, x, r, t, no, b)
      BY <1>6, <1>8
    <2> HIDE DEF no
    <2>2. v \in Writers
      BY <1>1, <1>7, <2>1, WriterParts
    <2>3. v.soh = no
      BY <2>1, SohParts
    <2>4. v.lost = b
      BY <2>1, LostParts
    <2>5. Out(v) = Append(l, y)
      BY <2>1, OutParts DEF y
    <2> QED
      BY <1>a, <1>3, <1>5, <1>8, <2>2, <2>3, <2>4, <2>5 DEF no, v
  <1>9. CASE ~s /\ c \notin Controls
    <2>1. v = Parts(l, x, r2, t2, no, b)
      BY <1>6, <1>9
    <2>2. r2 \in Seq(Codes) /\ t2 \in Seq(Codes)
      BY <1>1, AppendProperties
    <2>3. c # "SOH"
      BY <1>9 DEF Controls
    <2>4. Append(l, x \o t2) = Stepped(Append(l, y), c)
      <3>1. CASE c = "ctl"
        <4>1. t2 = t /\ Stepped(Append(l, y), c) = Append(l, y)
          BY <3>1 DEF Stepped, Letters, Alphabetic
        <4> QED
          BY <4>1 DEF y
      <3>2. CASE c # "ctl"
        <4>1. t2 = Append(t, c) /\ c \in Letters \cup {"HT", "order"}
          BY <1>9, <3>2 DEF Codes, Controls
        <4>2. x \o t2 = Append(y, c)
          BY <1>1, <1>2, <4>1, ConcatAppend DEF y
        <4>3. Stepped(Append(l, y), c) = Append(l, Append(y, c))
          BY <1>1, <1>2, <4>1, SteppedLast
        <4> QED
          BY <4>2, <4>3
      <3> QED
        BY <3>1, <3>2
    <2> HIDE DEF no, r2, t2
    <2>5. v \in Writers
      BY <1>1, <1>7, <2>1, <2>2, WriterParts
    <2>6. v.soh = no
      BY <2>1, SohParts
    <2>7. v.lost = b
      BY <2>1, LostParts
    <2>8. Out(v) = Append(l, x \o t2)
      BY <2>1, OutParts
    <2> QED
      BY <1>a, <1>3, <1>5, <1>9, <2>3, <2>4, <2>5, <2>6, <2>7, <2>8 DEF no, v
  <1>10. CASE ~s /\ c \in Controls
    <2>1. v = ControlOf(l, z, d, c)
      BY <1>6, <1>10
    <2>2. v \in Writers /\ v.soh = (c = "SOH") /\ v.lost = d /\ Out(v) = Stepped(Append(l, z), c)
      <3>1. l \in Seq(Seq(Shown)) /\ z \in Seq(Shown) /\ d \in BOOLEAN /\ c \in Controls
        BY <1>1, <1>2, <1>10
      <3> QED
        BY <2>1, <3>1, OutOfControl
    <2>3. ~d => ~b /\ Out(v) = Stepped(Append(l, y), c)
      BY <1>2, <2>2
    <2> QED
      BY <1>a, <1>3, <1>5, <1>10, <2>2, <2>3 DEF v
  <1> QED
    BY <1>8, <1>9, <1>10

\* f lists the states of the writer that starts as w, one for each code.
IsWriting(f, w, data) ==
  /\ f \in [0..Len(data) -> Writers]
  /\ f[0] = w
  /\ \A i \in 1..Len(data) : f[i] = Code(f[i - 1], data[i])

\* What the loop over the codes returns is the last of such a list.
LEMMA WriteIsRun ==
  ASSUME NEW w \in Writers, NEW data \in Seq(Codes)
  PROVE  \E f : IsWriting(f, w, data) /\ WriteCodes(w, data) = f[Len(data)]
  <1> DEFINE n == Len(data)
  <1> DEFINE one == [x \in Writers \X (1..n) |-> Code(x[1], data[x[2]])]
  <1>0. n \in Nat /\ \A i \in 1..n : data[i] \in Codes
    OBVIOUS
  <1>1. \A v \in Writers, i \in 1..n : Code(v, data[i]) \in Writers
    BY <1>0, OutOfCode
  <1>2. one \in [Writers \X (1..n) -> Writers]
    <2> HIDE DEF n
    <2> QED
      BY <1>1
  <1>3. PICK f \in [0..n -> Writers] : Iterates(f, one, w, n)
    <2> HIDE DEF one, n
    <2> QED
      BY <1>0, <1>2, Iteration
  <1>4. f[0] = w /\ \A i \in 1..n : f[i] = Code(f[i - 1], data[i])
    <2> SUFFICES ASSUME NEW i \in 1..n PROVE f[i] = Code(f[i - 1], data[i])
      BY <1>3 DEF Iterates
    <2> HIDE DEF n
    <2>1. i - 1 \in 0..n
      BY <1>0
    <2>2. f[i - 1] \in Writers
      BY <1>3, <2>1
    <2>3. one[<<f[i - 1], i>>] = Code(f[i - 1], data[i])
      BY <2>2
    <2> HIDE DEF one
    <2> QED
      BY <1>3, <2>3 DEF Iterates
  <1>5. f = [i \in 0..n |-> IF i = 0 THEN w ELSE Code(f[i - 1], data[i])]
    <2> HIDE DEF n, one
    <2> SUFFICES ASSUME NEW i \in 0..n
                 PROVE  f[i] = IF i = 0 THEN w ELSE Code(f[i - 1], data[i])
      BY <1>3
    <2>1. i # 0 => i \in 1..n
      BY <1>0
    <2> QED
      BY <1>4, <2>1
  <1> DEFINE after == CHOOSE h : h = [i \in 0..n |-> IF i = 0 THEN w ELSE Code(h[i - 1], data[i])]
  <1>6. after = [i \in 0..n |-> IF i = 0 THEN w ELSE Code(after[i - 1], data[i])]
    BY <1>5
  <1>7. WriteCodes(w, data) = after[n]
    BY DEF WriteCodes
  <1> HIDE DEF after, one
  <1> DEFINE G == {i \in 0..n : after[i] = f[i]}
  <1>8. 0 \in G
    BY <1>0, <1>4, <1>6
  <1>9. ASSUME NEW i \in 1..n, i - 1 \in G PROVE i \in G
    <2>1. i \in 0..n /\ i # 0 /\ after[i - 1] = f[i - 1]
      BY <1>0, <1>9
    <2>2. after[i] = Code(after[i - 1], data[i])
      <3> HIDE DEF n
      <3> QED
        BY <1>6, <2>1
    <2> QED
      BY <1>4, <2>1, <2>2
  <1>10. 0..n \subseteq G
    <2> HIDE DEF G, n
    <2> QED
      BY <1>0, <1>8, <1>9, UpTo
  <1>11. after[n] = f[n]
    BY <1>0, <1>10
  <1>12. IsWriting(f, w, data)
    BY <1>3, <1>4 DEF IsWriting
  <1> QED
    BY <1>7, <1>11, <1>12

\* The states of the printer that leaves nothing out.
Plains == {p \in [out : Seq(Seq(Shown)), soh : BOOLEAN] : Len(p.out) >= 1}

\* One on which nothing was printed.
Blank == [out |-> <<<< >>>>, soh |-> FALSE]

\* Its states stay such states.
LEMMA PlainTypes ==
  /\ Blank \in Plains /\ Blank.out = <<<< >>>> /\ ~Blank.soh
  /\ \A p \in Plains, c \in Codes :
       /\ Plain(p, c) \in Plains
       /\ Plain(p, c).soh = (~p.soh /\ c = "SOH")
       /\ Plain(p, c).out = IF p.soh THEN p.out ELSE Stepped(p.out, c)
  <1>1. Blank \in Plains /\ Blank.out = <<<< >>>> /\ ~Blank.soh
    BY DEF Blank, Plains
  <1>2. ASSUME NEW p \in Plains, NEW c \in Codes
        PROVE  /\ Plain(p, c) \in Plains
               /\ Plain(p, c).soh = (~p.soh /\ c = "SOH")
               /\ Plain(p, c).out = IF p.soh THEN p.out ELSE Stepped(p.out, c)
    <2> DEFINE o == p.out
    <2>1. o \in Seq(Seq(Shown)) /\ Len(o) >= 1 /\ p.soh \in BOOLEAN
      BY DEF Plains
    <2>2. Stepped(o, c) \in Seq(Seq(Shown)) /\ Len(Stepped(o, c)) >= 1
      BY <2>1, SteppedLines
    <2> DEFINE q == Stepped(o, c)
    <2> DEFINE b == (c = "SOH")
    <2> DEFINE no == FALSE
    <2>3. p.soh => Plain(p, c) = [out |-> o, soh |-> no]
      BY DEF Plain
    <2>4. ~p.soh => Plain(p, c) = [out |-> q, soh |-> b]
      BY DEF Plain
    <2>5. no \in BOOLEAN /\ b \in BOOLEAN
      OBVIOUS
    <2> HIDE DEF o, q, b, no
    <2>6. \A u \in Seq(Seq(Shown)), s \in BOOLEAN : Len(u) >= 1 =>
             [out |-> u, soh |-> s] \in Plains
      BY DEF Plains
    <2>7. \A u, s : [out |-> u, soh |-> s].out = u /\ [out |-> u, soh |-> s].soh = s
      OBVIOUS
    <2>8. CASE p.soh
      <3>1. Plain(p, c) \in Plains
        BY <2>1, <2>3, <2>5, <2>6, <2>8
      <3>2. Plain(p, c).soh = no /\ Plain(p, c).out = o
        BY <2>3, <2>7, <2>8
      <3> QED
        BY <2>8, <3>1, <3>2 DEF no, o
    <2>9. CASE ~p.soh
      <3>1. Plain(p, c) \in Plains
        BY <2>2, <2>4, <2>5, <2>6, <2>9 DEF q
      <3>2. Plain(p, c).soh = b /\ Plain(p, c).out = q
        BY <2>4, <2>7, <2>9
      <3> QED
        BY <2>9, <3>1, <3>2 DEF b, q, o
    <2> QED
      BY <2>8, <2>9
  <1> QED
    BY <1>1, <1>2

\* g lists its states along a record.
IsPlain(g, record) ==
  /\ g \in [0..Len(record) -> Plains]
  /\ g[0] = Blank
  /\ \A i \in 1..Len(record) : g[i] = Plain(g[i - 1], record[i])

\* The lines that it makes of a record are the last of such a list.
LEMMA PlainIsRun ==
  ASSUME NEW record \in Seq(Codes)
  PROVE  \E g : IsPlain(g, record) /\ Own(record) = g[Len(record)].out
  <1> DEFINE n == Len(record)
  <1> DEFINE one == [x \in Plains \X (1..n) |-> Plain(x[1], record[x[2]])]
  <1>0. n \in Nat /\ \A i \in 1..n : record[i] \in Codes
    OBVIOUS
  <1>a. Blank \in Plains
    BY PlainTypes
  <1>1. \A v \in Plains, i \in 1..n : Plain(v, record[i]) \in Plains
    BY <1>0, PlainTypes
  <1>2. one \in [Plains \X (1..n) -> Plains]
    <2> HIDE DEF n
    <2> QED
      BY <1>1
  <1>3. PICK g \in [0..n -> Plains] : Iterates(g, one, Blank, n)
    <2> HIDE DEF one, n
    <2> QED
      BY <1>0, <1>a, <1>2, Iteration
  <1>4. g[0] = Blank /\ \A i \in 1..n : g[i] = Plain(g[i - 1], record[i])
    <2> SUFFICES ASSUME NEW i \in 1..n PROVE g[i] = Plain(g[i - 1], record[i])
      BY <1>3 DEF Iterates
    <2> HIDE DEF n
    <2>1. i - 1 \in 0..n
      BY <1>0
    <2>2. g[i - 1] \in Plains
      BY <1>3, <2>1
    <2>3. one[<<g[i - 1], i>>] = Plain(g[i - 1], record[i])
      BY <2>2
    <2> HIDE DEF one
    <2> QED
      BY <1>3, <2>3 DEF Iterates
  <1>5. g = [i \in 0..n |-> IF i = 0 THEN Blank ELSE Plain(g[i - 1], record[i])]
    <2> HIDE DEF n, one
    <2> SUFFICES ASSUME NEW i \in 0..n
                 PROVE  g[i] = IF i = 0 THEN Blank ELSE Plain(g[i - 1], record[i])
      BY <1>3
    <2>1. i # 0 => i \in 1..n
      BY <1>0
    <2> QED
      BY <1>4, <2>1
  <1> DEFINE after == CHOOSE h : h = [i \in 0..n |-> IF i = 0 THEN Blank ELSE Plain(h[i - 1], record[i])]
  <1>6. after = [i \in 0..n |-> IF i = 0 THEN Blank ELSE Plain(after[i - 1], record[i])]
    BY <1>5
  <1>7. Own(record) = after[n].out
    BY DEF Own, Blank
  <1> HIDE DEF after, one
  <1> DEFINE G == {i \in 0..n : after[i] = g[i]}
  <1>8. 0 \in G
    BY <1>0, <1>4, <1>6
  <1>9. ASSUME NEW i \in 1..n, i - 1 \in G PROVE i \in G
    <2>1. i \in 0..n /\ i # 0 /\ after[i - 1] = g[i - 1]
      BY <1>0, <1>9
    <2>2. after[i] = Plain(after[i - 1], record[i])
      <3> HIDE DEF n
      <3> QED
        BY <1>6, <2>1
    <2> QED
      BY <1>4, <2>1, <2>2
  <1>10. 0..n \subseteq G
    <2> HIDE DEF G, n
    <2> QED
      BY <1>0, <1>8, <1>9, UpTo
  <1>11. after[n] = g[n]
    BY <1>0, <1>10
  <1>12. IsPlain(g, record)
    BY <1>3, <1>4 DEF IsPlain
  <1> QED
    BY <1>7, <1>11, <1>12

\* A writer behind codes of which the last is no SOH waits for no status.
LEMMA NoStatusAwaited ==
  ASSUME NEW w \in Writers, ~w.soh, NEW data \in Seq(Codes), NEW f, IsWriting(f, w, data),
         NEW m \in 0..Len(data), m # 0 => data[m] # "SOH"
  PROVE  f[m] \in Writers /\ ~f[m].soh
  <1>1. f[m] \in Writers
    BY DEF IsWriting
  <1>2. CASE m = 0
    BY <1>1, <1>2 DEF IsWriting
  <1>3. CASE m # 0
    <2>1. m \in 1..Len(data) /\ m - 1 \in 0..Len(data) /\ data[m] \in Codes
      BY <1>3
    <2>2. f[m] = Code(f[m - 1], data[m]) /\ f[m - 1] \in Writers
      BY <2>1 DEF IsWriting
    <2>3. \A u \in Writers, c \in Codes : c # "SOH" => ~Code(u, c).soh
      BY OutOfCode
    <2> QED
      BY <1>1, <1>3, <2>1, <2>2, <2>3
  <1> QED
    BY <1>2, <1>3

\* A writer and a plain printer at the same code: wherever the one stands in its
\* status, so does the other, and the lines of the one end with those of the
\* other.
Follows(w, p) == (w.soh <=> p.soh) /\ LinesEnd(Out(w), p.out)

\* They stay together with every code by which nothing is left out.
LEMMA FollowsOn ==
  ASSUME NEW w \in Writers, NEW p \in Plains, Follows(w, p), NEW c \in Codes, ~Code(w, c).lost
  PROVE  Follows(Code(w, c), Plain(p, c))
  <1>1. /\ Code(w, c).soh = (~w.soh /\ c = "SOH")
        /\ Out(w) \in Seq(Seq(Shown))
        /\ Out(Code(w, c)) = IF w.soh THEN Out(w) ELSE Stepped(Out(w), c)
    BY OutOfCode
  <1>2. /\ Plain(p, c).soh = (~p.soh /\ c = "SOH")
        /\ p.out \in Seq(Seq(Shown))
        /\ Plain(p, c).out = IF p.soh THEN p.out ELSE Stepped(p.out, c)
    BY PlainTypes DEF Plains
  <1>3. LinesEnd(Out(w), p.out) /\ (w.soh <=> p.soh)
    BY DEF Follows
  <1>4. LinesEnd(Stepped(Out(w), c), Stepped(p.out, c))
    BY <1>1, <1>2, <1>3, StepKeepsEnd
  <1> QED
    BY <1>1, <1>2, <1>3, <1>4 DEF Follows

\* A record written behind others keeps up with the plain printer.
LEMMA RecordFollows ==
  ASSUME NEW w \in Writers, NEW data \in Seq(Codes), NEW record \in Seq(Codes),
         NEW f, IsWriting(f, w, data), NEW g, IsPlain(g, record),
         NEW m \in Nat, Len(data) = m + Len(record),
         \A i \in 1..Len(record) : data[m + i] = record[i],
         f[m].lost \/ Follows(f[m], Blank)
  PROVE  /\ f[Len(data)].lost \/ Follows(f[Len(data)], g[Len(record)])
         /\ f[Len(data)] \in Writers /\ g[Len(record)] \in Plains
  <1> DEFINE n == Len(record)
  <1> DEFINE S == {i \in 0..n : f[m + i].lost \/ Follows(f[m + i], g[i])}
  <1>1. n \in Nat /\ Len(data) = m + n /\ \A i \in 1..n : record[i] \in Codes
    OBVIOUS
  <1>2. /\ f \in [0..(m + n) -> Writers] /\ \A i \in 1..(m + n) : f[i] = Code(f[i - 1], data[i])
        /\ g \in [0..n -> Plains] /\ g[0] = Blank /\ \A i \in 1..n : g[i] = Plain(g[i - 1], record[i])
    BY <1>1 DEF IsWriting, IsPlain
  <1> HIDE DEF n
  <1>3. 0 \in S
    BY <1>1, <1>2
  <1>4. ASSUME NEW i \in 1..n, i - 1 \in S PROVE i \in S
    <2>1. /\ i - 1 \in 0..n /\ i \in 0..n /\ m + i \in 1..(m + n) /\ m + (i - 1) \in 0..(m + n)
          /\ (m + i) - 1 = m + (i - 1)
      BY <1>1
    <2> DEFINE u == f[m + (i - 1)]
    <2> DEFINE p == g[i - 1]
    <2> DEFINE c == record[i]
    <2>2. u \in Writers /\ p \in Plains /\ c \in Codes /\ (u.lost \/ Follows(u, p))
      BY <1>1, <1>2, <1>4, <2>1
    <2>3. f[m + i] = Code(u, c) /\ g[i] = Plain(p, c)
      BY <1>2, <2>1 DEF n
    <2> HIDE DEF u, p, c
    <2>4. Code(u, c).lost \/ Follows(Code(u, c), Plain(p, c))
      <3> SUFFICES ASSUME ~Code(u, c).lost PROVE Follows(Code(u, c), Plain(p, c))
        OBVIOUS
      <3>1. ~u.lost
        BY <2>2, OutOfCode
      <3> QED
        BY <2>2, <3>1, FollowsOn
    <2> QED
      BY <2>1, <2>3, <2>4
  <1>5. 0..n \subseteq S
    <2> HIDE DEF S
    <2> QED
      BY <1>1, <1>3, <1>4, UpTo
  <1>6. n \in 0..n /\ n \in S /\ m + n \in 0..(m + n)
    BY <1>1, <1>5
  <1> QED
    BY <1>1, <1>2, <1>6 DEF n

\* The writer that a record starts with.
LEMMA FreshWriter ==
  ASSUME NEW l \in Seq(Seq(Shown)), NEW x \in Seq(Shown)
  PROVE  /\ Writer(l, x) \in Writers /\ ~Writer(l, x).soh /\ ~Writer(l, x).lost
         /\ Out(Writer(l, x)) = Append(l, x)
         /\ Writer(l, x).run = << >> /\ Writer(l, x).text = << >>
  <1> DEFINE no == FALSE
  <1>1. Writer(l, x) = Parts(l, x, << >>, << >>, no, no)
    BY DEF Writer, Parts
  <1>2. no \in BOOLEAN
    OBVIOUS
  <1> HIDE DEF no
  <1>3. /\ Writer(l, x) \in Writers /\ Writer(l, x).soh = no /\ Writer(l, x).lost = no
        /\ Out(Writer(l, x)) = Append(l, x)
    BY <1>1, <1>2, Between
  <1> QED
    BY <1>3 DEF no, Writer

\* A writer that is done, and one that appends the marker once more.
LEMMA WriterDone ==
  ASSUME NEW w \in Writers, NEW data
  PROVE  /\ Flush(Recheck(EndRun(w), data)).lines \in Seq(Seq(Shown))
         /\ Flush(Recheck(EndRun(w), data)).lost \in BOOLEAN
         /\ Flush(Recheck(EndRun(w), data)).lost = LostAfter(w.run, w.text, w.lost)
         /\ ~Flush(Recheck(EndRun(w), data)).lost =>
              /\ ~w.lost
              /\ \/ Flush(Recheck(EndRun(w), data)).lines = Out(w)
                 \/ Flush(Recheck(EndRun(w), data)).lines = Stepped(Out(w), "pka")
  <1> DEFINE l == w.lines
  <1> DEFINE x == w.cur
  <1> DEFINE r == w.run
  <1> DEFINE t == w.text
  <1> DEFINE s == w.soh
  <1> DEFINE b == w.lost
  <1> DEFINE y == x \o t
  <1> DEFINE z == CurAfter(x, r, t)
  <1> DEFINE d == LostAfter(r, t, b)
  <1> DEFINE e == << >>
  <1> DEFINE p == "pka"
  <1>1. /\ w = Parts(l, x, r, t, s, b) /\ l \in Seq(Seq(Shown)) /\ x \in Seq(Shown)
        /\ r \in Seq(Codes) /\ t \in Seq(Codes) /\ s \in BOOLEAN /\ b \in BOOLEAN
    BY WriterParts
  <1>a. d = LostAfter(w.run, w.text, w.lost) /\ b = w.lost
    OBVIOUS
  <1> HIDE DEF l, x, r, t, s, b, y, z, d
  <1>2. /\ EndRun(Parts(l, x, r, t, s, b)) = Parts(l, z, << >>, << >>, s, d)
        /\ z \in Seq(Shown) /\ d \in BOOLEAN /\ (~d => ~b /\ z = y)
    BY <1>1, EndRunOf DEF y, z, d
  <1>3. Out(w) = Append(l, y)
    BY <1>1, OutParts DEF y
  <1>4. p \in Codes /\ p \in Letters \cup {"HT", "order"} /\ p \in Shown
    BY DEF Codes, Controls, Letters, Alphabetic, Shown
  <1>5. EndRun(w) = Parts(l, z, e, e, s, d)
    BY <1>1, <1>2
  <1> HIDE DEF e, p
  <1>6. \A a : /\ Flush(Parts(l, a, e, e, s, d)).lines = Append(l, a)
               /\ Flush(Parts(l, a, e, e, s, d)).lost = d
    <2> SUFFICES ASSUME NEW a
                 PROVE  /\ Flush(Parts(l, a, e, e, s, d)).lines = Append(l, a)
                        /\ Flush(Parts(l, a, e, e, s, d)).lost = d
      OBVIOUS
    <2> DEFINE k == Append(l, a)
    <2>1. Flush(Parts(l, a, e, e, s, d)) = Parts(k, << >>, e, e, s, d)
      BY FlushParts
    <2> HIDE DEF k
    <2> QED
      BY <2>1 DEF Parts, k
  <1>7. PICK a \in {z, Append(z, p)} : Recheck(Parts(l, z, e, e, s, d), data) = Parts(l, a, e, e, s, d)
    <2>1. [Parts(l, z, e, e, s, d) EXCEPT !.cur = Append(@, p)] = Parts(l, Append(z, p), e, e, s, d)
      BY DEF Parts
    <2> QED
      BY <2>1 DEF Recheck, p
  <1> DEFINE done == Flush(Recheck(EndRun(w), data))
  <1>8. done = Flush(Parts(l, a, e, e, s, d))
    BY <1>5, <1>7
  <1> HIDE DEF done
  <1>9. done.lines = Append(l, a) /\ done.lost = d
    BY <1>6, <1>8
  <1>10. a \in Seq(Shown)
    <2>1. Append(z, p) \in Seq(Shown)
      BY <1>2, <1>4, AppendProperties
    <2> QED
      BY <1>2, <1>7, <2>1
  <1>11. done.lines \in Seq(Seq(Shown))
    BY <1>1, <1>9, <1>10, AppendProperties
  <1>12. Stepped(Append(l, z), p) = Append(l, Append(z, p))
    BY <1>1, <1>2, <1>4, SteppedLast
  <1>13. ~d => ~b /\ (done.lines = Out(w) \/ done.lines = Stepped(Out(w), p))
    BY <1>2, <1>3, <1>7, <1>9, <1>12
  <1> QED
    BY <1>a, <1>2, <1>9, <1>11, <1>13 DEF done, p

\* The marker once more is one more letter.
LEMMA MarkedIsStepped ==
  \A o : MarkedAgain(o) = Stepped(o, "pka")
  BY DEF MarkedAgain, Stepped, Letters, Alphabetic

\* The codes end with a record, behind m others.
Behind(data, m, record) ==
  /\ m \in Nat /\ Len(data) = m + Len(record)
  /\ \A i \in 1..Len(record) : data[m + i] = record[i]

\* The lines that the writer makes of codes, behind the lines l and the line x,
\* and whether it leaves something out.
DoneWith(l, x, data) == Flush(Recheck(EndRun(WriteCodes(Writer(l, x), data)), data))
LinesOf(l, x, data) == DoneWith(l, x, data).lines
LostOf(l, x, data) == DoneWith(l, x, data).lost

\* Behind whatever codes, the lines end with those of the record alone.
LEMMA WrittenEnds ==
  ASSUME NEW l \in Seq(Seq(Shown)), NEW x \in Seq(Shown),
         NEW data \in Seq(Codes), NEW record \in Seq(Codes),
         NEW m \in Nat, Behind(data, m, record), m # 0 => data[m] # "SOH"
  PROVE  /\ Own(record) \in Seq(Seq(Shown))
         /\ MarkedAgain(Own(record)) \in Seq(Seq(Shown))
         /\ Len(MarkedAgain(Own(record))) = Len(Own(record))
         /\ ~LostOf(l, x, data) =>
              \/ LinesEnd(LinesOf(l, x, data), Own(record))
              \/ LinesEnd(LinesOf(l, x, data), MarkedAgain(Own(record)))
  <1> DEFINE w == Writer(l, x)
  <1> DEFINE o == LinesOf(l, x, data)
  <1>0. Len(data) = m + Len(record) /\ \A i \in 1..Len(record) : data[m + i] = record[i]
    BY DEF Behind
  <1>1. w \in Writers /\ ~w.soh
    BY FreshWriter
  <1> HIDE DEF w
  <1>3. PICK f : IsWriting(f, w, data) /\ WriteCodes(w, data) = f[Len(data)]
    BY <1>1, WriteIsRun
  <1>4. PICK g : IsPlain(g, record) /\ Own(record) = g[Len(record)].out
    BY PlainIsRun
  <1>5. m \in 0..Len(data)
    BY <1>0
  <1>6. f[m] \in Writers /\ ~f[m].soh
    BY <1>1, <1>3, <1>5, NoStatusAwaited
  <1>7. Follows(f[m], Blank)
    <2> DEFINE a == Out(f[m])
    <2> DEFINE b == Blank.out
    <2>1. a \in Seq(Seq(Shown)) /\ Len(a) >= 1
      <3>1. "a" \in Codes
        BY DEF Codes, Controls, Letters, Alphabetic
      <3> QED
        BY <1>6, <3>1, OutOfCode
    <2>2. Len(b) = 1 /\ b[1] = << >> /\ ~Blank.soh
      BY PlainTypes
    <2>3. Len(a) - 1 + 1 \in 1..Len(a)
      BY <2>1
    <2> HIDE DEF a, b
    <2>4. a[Len(a) - 1 + 1] \in Seq(Shown)
      BY <2>1, <2>3, ElementOfSeq
    <2>5. TextEnds(a[Len(a) - 1 + 1], b[1])
      BY <2>2, <2>4 DEF TextEnds
    <2>6. LinesEnd(a, b)
      BY <2>1, <2>2, <2>5 DEF LinesEnd
    <2> QED
      BY <1>6, <2>2, <2>6 DEF Follows, a, b
  <1> DEFINE w2 == f[Len(data)]
  <1> DEFINE p2 == g[Len(record)]
  <1>8. (w2.lost \/ Follows(w2, p2)) /\ w2 \in Writers /\ p2 \in Plains
    BY <1>0, <1>1, <1>3, <1>4, <1>7, RecordFollows
  <1> HIDE DEF w2, p2
  <1>9. "pka" \in Codes /\ "pka" \in Letters \cup {"HT", "order"}
    BY DEF Codes, Controls, Letters, Alphabetic
  <1> DEFINE v == p2.out
  <1>10. Out(w2) \in Seq(Seq(Shown)) /\ v \in Seq(Seq(Shown)) /\ Len(v) >= 1
    BY <1>8, <1>9, OutOfCode DEF Plains
  <1>11. Own(record) = v
    BY <1>4 DEF p2
  <1>12. MarkedAgain(v) = Stepped(v, "pka")
    BY MarkedIsStepped
  <1> HIDE DEF v
  <1>13. Stepped(v, "pka") \in Seq(Seq(Shown)) /\ Len(Stepped(v, "pka")) = Len(v)
    BY <1>9, <1>10, SteppedLines
  <1>14. ASSUME ~LostOf(l, x, data) PROVE LinesEnd(o, v) \/ LinesEnd(o, MarkedAgain(v))
    <2> DEFINE done == Flush(Recheck(EndRun(w2), data))
    <2>1. done = DoneWith(l, x, data)
      BY <1>3 DEF DoneWith, w2, w
    <2>2. ~done.lost => ~w2.lost /\ (done.lines = Out(w2) \/ done.lines = Stepped(Out(w2), "pka"))
      BY <1>8, WriterDone
    <2> HIDE DEF done
    <2>3. ~w2.lost /\ (o = Out(w2) \/ o = Stepped(Out(w2), "pka"))
      BY <1>14, <2>1, <2>2 DEF LostOf, LinesOf
    <2>4. LinesEnd(Out(w2), v)
      BY <1>8, <2>3 DEF Follows, v
    <2>5. LinesEnd(Stepped(Out(w2), "pka"), Stepped(v, "pka"))
      BY <1>9, <1>10, <2>4, StepKeepsEnd
    <2> HIDE DEF o
    <2> QED
      BY <1>12, <2>3, <2>4, <2>5
  <1> QED
    BY <1>10, <1>11, <1>12, <1>13, <1>14

\* Whatever is written, lines come of it, and a note of what was left out.
LEMMA WrittenTypes ==
  ASSUME NEW l \in Seq(Seq(Shown)), NEW x \in Seq(Shown), NEW data \in Seq(Codes)
  PROVE  LinesOf(l, x, data) \in Seq(Seq(Shown)) /\ LostOf(l, x, data) \in BOOLEAN
  <1> DEFINE w == Writer(l, x)
  <1>1. w \in Writers
    BY FreshWriter
  <1> HIDE DEF w
  <1>2. PICK f : IsWriting(f, w, data) /\ WriteCodes(w, data) = f[Len(data)]
    BY <1>1, WriteIsRun
  <1> DEFINE v == f[Len(data)]
  <1>3. v \in Writers
    BY <1>2 DEF IsWriting
  <1>4. DoneWith(l, x, data) = Flush(Recheck(EndRun(v), data))
    BY <1>2 DEF DoneWith, w
  <1> HIDE DEF v
  <1> DEFINE done == Flush(Recheck(EndRun(v), data))
  <1>5. done.lines \in Seq(Seq(Shown)) /\ done.lost \in BOOLEAN
    BY <1>3, WriterDone
  <1> HIDE DEF done
  <1>6. LinesOf(l, x, data) = done.lines /\ LostOf(l, x, data) = done.lost
    BY <1>4 DEF LinesOf, LostOf, done
  <1> QED
    BY <1>5, <1>6

\* What the buffer keeps of its lines ends as they do.
LEMMA TrimmedEnds ==
  ASSUME NEW o \in Seq(Seq(Shown)), MaxLines \in Nat \ {0}
  PROVE  /\ Trimmed(o) \in Seq(Seq(Shown))
         /\ \A v \in Seq(Seq(Shown)) : LinesEnd(o, v) /\ Len(v) <= MaxLines => LinesEnd(Trimmed(o), v)
  <1>1. CASE Len(o) <= MaxLines
    BY <1>1 DEF Trimmed
  <1>2. CASE Len(o) > MaxLines
    <2> DEFINE n == Len(o)
    <2> DEFINE k == n - MaxLines
    <2> DEFINE q == SubSeq(o, k + 1, n)
    <2>1. n \in Nat /\ k \in Nat /\ n = k + MaxLines /\ k + 1 \in 1..n
      BY <1>2
    <2>2. Trimmed(o) = q
      BY <1>2 DEF Trimmed
    <2>3. \A i \in (k + 1)..n : o[i] \in Seq(Shown)
      <3>1. \A i \in (k + 1)..n : i \in 1..n
        BY <2>1
      <3> QED
        BY <3>1, ElementOfSeq
    <2> HIDE DEF n, k
    <2>4. /\ q \in Seq(Seq(Shown)) /\ Len(q) = IF k + 1 <= n THEN n - (k + 1) + 1 ELSE 0
          /\ \A i \in 1..(n - (k + 1) + 1) : q[i] = o[(k + 1) + i - 1]
      BY <2>1, <2>3, SubSeqProperties
    <2> HIDE DEF q
    <2>5. Len(q) = MaxLines /\ \A i \in 1..MaxLines : q[i] = o[k + i]
      <3>1. n - (k + 1) + 1 = MaxLines /\ k + 1 <= n /\ \A i \in 1..MaxLines : (k + 1) + i - 1 = k + i
        BY <2>1
      <3> QED
        BY <2>4, <3>1
    <2>6. ASSUME NEW v \in Seq(Seq(Shown)), LinesEnd(o, v), Len(v) <= MaxLines PROVE LinesEnd(q, v)
      <3> DEFINE m == Len(v)
      <3>1. /\ m \in Nat /\ 1 <= m /\ m <= MaxLines
            /\ TextEnds(o[n - m + 1], v[1]) /\ \A j \in 2..m : o[n - m + j] = v[j]
        <4>1. /\ 1 <= m /\ TextEnds(o[n - m + 1], v[1])
              /\ \A j \in 2..m : o[n - m + j] = v[j]
          BY <2>6, Zenon DEF LinesEnd, n
        <4> QED
          BY <2>6, <4>1
      <3> HIDE DEF m
      <3>2. \A j \in 1..m : MaxLines - m + j \in 1..MaxLines /\ k + (MaxLines - m + j) = n - m + j
        BY <2>1, <3>1
      <3>3. \A j \in 1..m : q[MaxLines - m + j] = o[n - m + j]
        BY <2>5, <3>2
      <3>4. 1 \in 1..m /\ \A j \in 2..m : j \in 1..m
        BY <3>1
      <3> QED
        BY <2>5, <3>1, <3>3, <3>4 DEF LinesEnd, m
    <2> QED
      BY <2>2, <2>4, <2>6
  <1>3. Len(o) \in Nat
    OBVIOUS
  <1> QED
    BY <1>1, <1>2, <1>3

\* Codes kept, with a record behind them.
LEMMA KeptBehind ==
  ASSUME NEW kept \in Seq(Codes), NEW record \in Seq(Codes)
  PROVE  /\ kept \o record \in Seq(Codes) /\ Behind(kept \o record, Len(kept), record)
         /\ Len(kept) # 0 => (kept \o record)[Len(kept)] = kept[Len(kept)]
         /\ Behind(record, 0, record)
  <1> DEFINE m == Len(kept)
  <1> DEFINE n == Len(record)
  <1> DEFINE q == kept \o record
  <1>1. /\ q \in Seq(Codes) /\ Len(q) = m + n
        /\ \A i \in 1..(m + n) : q[i] = IF i <= m THEN kept[i] ELSE record[i - m]
    BY ConcatProperties
  <1>2. m \in Nat /\ n \in Nat
    OBVIOUS
  <1> HIDE DEF m, n, q
  <1>3. \A i \in 1..n : m + i \in 1..(m + n) /\ ~(m + i <= m) /\ (m + i) - m = i
    BY <1>2
  <1>4. \A i \in 1..n : q[m + i] = record[i]
    BY <1>1, <1>3
  <1>5. m # 0 => m \in 1..(m + n) /\ m <= m
    BY <1>2
  <1>6. m # 0 => q[m] = kept[m]
    BY <1>1, <1>5
  <1>7. Behind(q, m, record)
    BY <1>1, <1>2, <1>4 DEF Behind, n
  <1>8. Behind(record, 0, record)
    BY DEF Behind
  <1> QED
    BY <1>1, <1>6, <1>7, <1>8 DEF q, m

\* In bulk a record ends the current line, which is not empty then.
LEMMA RelaxedEnds ==
  ASSUME NEW x \in Seq(Shown), NEW data \in Seq(Codes), NEW record \in Seq(Codes),
         NEW m, Behind(data, m, record)
  PROVE  /\ x \o Relaxed(data) \in Seq(Shown)
         /\ IsSuffix(Relaxed(record), x \o Relaxed(data))
         /\ Marked(data) => x \o Relaxed(data) # << >>
  <1> DEFINE n == Len(record)
  <1> DEFINE d == Relaxed(data)
  <1> DEFINE r == Relaxed(record)
  <1> DEFINE q == x \o d
  <1> DEFINE k == Len(x)
  <1>1. k \in Nat /\ m \in Nat /\ n \in Nat /\ Len(data) = m + n /\ \A i \in 1..n : data[m + i] = record[i]
    BY DEF Behind
  <1>0. Letters \cup {"blank"} \subseteq Shown
    BY DEF Shown, Codes
  <1>2. d \in Seq(Shown) /\ Len(d) = m + n /\ \A i \in 1..(m + n) : d[i] = IF data[i] \in Letters THEN data[i] ELSE "blank"
    BY <1>0, <1>1 DEF Relaxed
  <1>3. r \in Seq(Shown) /\ Len(r) = n /\ \A i \in 1..n : r[i] = IF record[i] \in Letters THEN record[i] ELSE "blank"
    BY <1>0, <1>1 DEF Relaxed
  <1>8. Marked(data) => m + n >= 1
    BY <1>1 DEF Marked
  <1> HIDE DEF d, r, n
  <1>4. /\ q \in Seq(Shown) /\ Len(q) = k + Len(d)
        /\ \A i \in 1..(k + Len(d)) : q[i] = IF i <= k THEN x[i] ELSE d[i - k]
    BY <1>2, ConcatProperties
  <1> HIDE DEF q, k
  <1>5. ASSUME NEW i \in 1..n PROVE q[Len(q) - n + i] = r[i]
    <2>1. /\ Len(q) - n + i = k + (m + i) /\ k + (m + i) \in 1..(k + Len(d)) /\ ~(k + (m + i) <= k)
          /\ (k + (m + i)) - k = m + i /\ m + i \in 1..(m + n)
      BY <1>1, <1>2, <1>4
    <2> QED
      BY <1>1, <1>2, <1>3, <1>4, <2>1
  <1>6. n <= Len(q)
    BY <1>1, <1>2, <1>4
  <1>7. TextEnds(q, r)
    BY <1>3, <1>5, <1>6 DEF TextEnds
  <1>9. IsSuffix(r, q)
    BY <1>3, <1>4, <1>7, EndIsSuffix
  <1>10. Marked(data) => q # << >>
    BY <1>1, <1>2, <1>4, <1>8
  <1> QED
    BY <1>4, <1>9, <1>10 DEF q, r, d

\* The bytes kept of a record end as it does.
LEMMA TailEnds ==
  ASSUME NEW S, NEW data \in Seq(S), data # << >>, TailLength \in Nat \ {0}
  PROVE  /\ TailOf(data) \in Seq(S) /\ TailOf(data) # << >>
         /\ Last(TailOf(data)) = Last(data)
  <1> DEFINE n == Len(data)
  <1>1. CASE n < TailLength
    BY <1>1 DEF TailOf
  <1>2. CASE ~(n < TailLength)
    <2> DEFINE k == n - TailLength
    <2> DEFINE q == SubSeq(data, k + 1, n)
    <2>1. n \in Nat /\ k \in Nat /\ n = k + TailLength /\ \A i \in (k + 1)..n : data[i] \in S
      BY <1>2
    <2>2. TailOf(data) = q
      BY <1>2 DEF TailOf
    <2> HIDE DEF n, k
    <2>3. /\ q \in Seq(S) /\ Len(q) = IF k + 1 <= n THEN n - (k + 1) + 1 ELSE 0
          /\ \A i \in 1..(n - (k + 1) + 1) : q[i] = data[(k + 1) + i - 1]
      BY <2>1, SubSeqProperties
    <2> HIDE DEF q
    <2>4. /\ n - (k + 1) + 1 = TailLength /\ k + 1 <= n /\ TailLength \in 1..TailLength
          /\ (k + 1) + TailLength - 1 = n
      BY <2>1
    <2>5. Len(q) = TailLength /\ q[TailLength] = data[n]
      BY <2>3, <2>4
    <2>6. q # << >>
      BY <2>5
    <2> QED
      BY <2>2, <2>3, <2>5, <2>6 DEF Last, n
  <1> QED
    BY <1>1, <1>2

\* Codes on which none of the rules reacts by which text is left out.
Mild == Codes \ Tells

\* They are codes, and no tells.
LEMMA MildCodes ==
  /\ Mild \subseteq Codes /\ Mild \subseteq Shown
  /\ \A c \in Mild : c # "order" /\ c # "ctl" /\ c # "T" /\ c # "1"
  BY DEF Mild, Shown, Tells

\* Without a digit there is no header.
LEMMA NoHeader ==
  ASSUME NEW t \in Seq(Shown), \A i \in 1..Len(t) : t[i] # "1", NEW blanks \in Nat
  PROVE  WithoutHeader(t, blanks) = t
  <1>1. ASSUME NEW k \in HeaderEnds(t, blanks) PROVE FALSE
    <2>1. PICK b \in 0..blanks :
               b < k - 1 /\ \A i \in 1..(k - 1) : t[i] = IF i <= b THEN "blank" ELSE "1"
      BY <1>1 DEF HeaderEnds
    <2>2. k \in 2..(Len(t) - 1)
      BY <1>1 DEF HeaderEnds
    <2>3. k - 1 \in 1..(k - 1) /\ k - 1 \in 1..Len(t) /\ ~(k - 1 <= b)
      BY <2>1, <2>2
    <2>4. t[k - 1] = "1"
      BY <2>1, <2>3
    <2> QED
      BY <2>3, <2>4
  <1>2. HeaderEnds(t, blanks) = {}
    BY <1>1
  <1> QED
    BY <1>2 DEF WithoutHeader

\* A run of such codes is not suppressed, and its text keeps its start.
LEMMA QuietRun ==
  ASSUME NEW r \in Seq(Mild), NEW t \in Seq(Mild)
  PROVE  ~ShouldSuppress(r) /\ WithoutHeader(t, 0) = t
  <1> DEFINE n == Len(r)
  <1> DEFINE A == {i \in 1..n : r[i] \in Letters}
  <1> DEFINE B == {i \in 1..n : r[i] \in {"ctl"}}
  <1>1. n \in Nat /\ \A i \in 1..n : r[i] \in Mild
    OBVIOUS
  <1>2. \A i \in 1..n : r[i] # "order" /\ r[i] # "ctl" /\ r[i] # "T"
    BY <1>1, MildCodes
  <1> HIDE DEF n
  <1>3. IsFiniteSet(A)
    <2>1. IsFiniteSet(1..n)
      BY <1>1, FS_Interval
    <2>2. A \subseteq 1..n
      OBVIOUS
    <2> HIDE DEF A
    <2> QED
      BY <2>1, <2>2, FS_Subset
  <1> HIDE DEF A
  <1>4. Cardinality(A) \in Nat
    BY <1>3, FS_CardinalityType
  <1>5. B = {}
    BY <1>2
  <1> HIDE DEF B
  <1>6. Cardinality(B) = 0
    BY <1>5, FS_EmptySet
  <1>7. Count(r, Letters) = Cardinality(A) /\ Count(r, {"ctl"}) = Cardinality(B)
    BY DEF Count, A, B, n
  <1>8. ~(2 * Count(r, {"ctl"}) > Count(r, Letters))
    BY <1>4, <1>6, <1>7
  <1>9. ~Contains(r, "order")
    BY <1>2 DEF Contains, n
  <1>10. ~\E i \in 1..(Len(r) - 1) : r[i] = "T" /\ r[i + 1] = "R"
    <2>1. \A i \in 1..(n - 1) : i \in 1..n
      BY <1>1
    <2>2. \A i \in 1..(n - 1) : r[i] # "T"
      BY <1>2, <2>1
    <2> QED
      BY <2>2 DEF n
  <1>11. ~ShouldSuppress(r)
    BY <1>8, <1>9, <1>10 DEF ShouldSuppress
  <1>12. WithoutHeader(t, 0) = t
    <2>1. \A i \in 1..Len(t) : t[i] \in Mild
      OBVIOUS
    <2>2. \A i \in 1..Len(t) : t[i] # "1"
      BY <2>1, MildCodes
    <2>3. t \in Seq(Shown)
      BY MildCodes, SeqMonotonic
    <2> DEFINE none == 0
    <2>4. none \in Nat
      OBVIOUS
    <2> HIDE DEF none
    <2>5. WithoutHeader(t, none) = t
      BY <2>2, <2>3, <2>4, NoHeader
    <2> QED
      BY <2>5 DEF none
  <1> QED
    BY <1>11, <1>12

\* A writer that has left nothing out, with such a run.
Quiet(w) == w.run \in Seq(Mild) /\ w.text \in Seq(Mild) /\ ~w.lost

\* Such codes keep it so.
LEMMA QuietOn ==
  ASSUME NEW w \in Writers, Quiet(w), NEW c \in Mild
  PROVE  Quiet(Code(w, c))
  <1> DEFINE l == w.lines
  <1> DEFINE x == w.cur
  <1> DEFINE r == w.run
  <1> DEFINE t == w.text
  <1> DEFINE s == w.soh
  <1> DEFINE b == w.lost
  <1> DEFINE z == CurAfter(x, r, t)
  <1> DEFINE d == LostAfter(r, t, b)
  <1> DEFINE v == Code(w, c)
  <1>1. /\ w = Parts(l, x, r, t, s, b) /\ l \in Seq(Seq(Shown)) /\ x \in Seq(Shown)
        /\ r \in Seq(Codes) /\ t \in Seq(Codes) /\ s \in BOOLEAN /\ b \in BOOLEAN
    BY WriterParts
  <1>2. r \in Seq(Mild) /\ t \in Seq(Mild) /\ ~b
    BY DEF Quiet
  <1>3. c \in Codes /\ c # "ctl"
    BY MildCodes
  <1> HIDE DEF l, x, r, t, s, b, z, d
  <1>4. z \in Seq(Shown) /\ d \in BOOLEAN
    BY <1>1, EndRunOf DEF z, d
  <1>5. ~d
    BY <1>2, QuietRun DEF d, LostAfter
  <1> DEFINE r2 == Append(r, c)
  <1> DEFINE t2 == Append(t, c)
  <1> DEFINE no == FALSE
  <1>6. v = IF s THEN Parts(l, x, r, t, no, b)
            ELSE IF c \in Controls THEN ControlOf(l, z, d, c)
            ELSE Parts(l, x, r2, t2, no, b)
    <2>1. Code(Parts(l, x, r, t, s, b), c) = CodeOf(l, x, r, t, s, b, c)
      BY <1>1, <1>3, CodeParts
    <2>2. v = Code(Parts(l, x, r, t, s, b), c)
      BY <1>1
    <2> QED
      BY <1>3, <2>1, <2>2 DEF CodeOf, z, d
  <1> HIDE DEF v
  <1>7. r2 \in Seq(Mild) /\ t2 \in Seq(Mild)
    BY <1>2, AppendProperties
  <1> HIDE DEF r2, t2, no
  <1>8. CASE s
    <2>1. v.run = r /\ v.text = t /\ v.lost = b
      BY <1>6, <1>8 DEF Parts
    <2> QED
      BY <1>2, <2>1 DEF Quiet, v
  <1>9. CASE ~s /\ c \in Controls
    <2>1. v = ControlOf(l, z, d, c)
      BY <1>6, <1>9
    <2>2. v.lost = d /\ v.run = << >> /\ v.text = << >>
      BY <1>1, <1>4, <1>9, <2>1, OutOfControl
    <2>3. << >> \in Seq(Mild)
      OBVIOUS
    <2> QED
      BY <1>5, <2>2, <2>3 DEF Quiet, v
  <1>10. CASE ~s /\ c \notin Controls
    <2>1. v.run = r2 /\ v.text = t2 /\ v.lost = b
      BY <1>6, <1>10 DEF Parts
    <2> QED
      BY <1>2, <1>7, <2>1 DEF Quiet, v
  <1> QED
    BY <1>8, <1>9, <1>10

\* Nothing is left out of such codes.
LEMMA WrittenQuietly ==
  ASSUME NEW l \in Seq(Seq(Shown)), NEW x \in Seq(Shown), NEW data \in Seq(Mild)
  PROVE  ~LostOf(l, x, data)
  <1> DEFINE w == Writer(l, x)
  <1> DEFINE n == Len(data)
  <1>1. w \in Writers /\ Quiet(w)
    <2>1. << >> \in Seq(Mild)
      OBVIOUS
    <2> QED
      BY <2>1, FreshWriter DEF Quiet
  <1>2. data \in Seq(Codes) /\ n \in Nat /\ \A i \in 1..n : data[i] \in Mild
    BY MildCodes, SeqMonotonic
  <1> HIDE DEF w
  <1>3. PICK f : IsWriting(f, w, data) /\ WriteCodes(w, data) = f[Len(data)]
    BY <1>1, <1>2, WriteIsRun
  <1>4. f[0] = w /\ f \in [0..n -> Writers] /\ \A i \in 1..n : f[i] = Code(f[i - 1], data[i])
    BY <1>3 DEF IsWriting
  <1> HIDE DEF n
  <1> DEFINE G == {i \in 0..n : Quiet(f[i])}
  <1>5. 0 \in G
    BY <1>1, <1>2, <1>4
  <1>6. ASSUME NEW i \in 1..n, i - 1 \in G PROVE i \in G
    <2>1. i - 1 \in 0..n /\ i \in 0..n
      BY <1>2
    <2>2. f[i - 1] \in Writers /\ Quiet(f[i - 1]) /\ data[i] \in Mild
      BY <1>2, <1>4, <1>6, <2>1
    <2>3. Quiet(Code(f[i - 1], data[i]))
      BY <2>2, QuietOn
    <2> QED
      BY <1>4, <2>1, <2>3
  <1> HIDE DEF G
  <1>7. 0..n \subseteq G
    BY <1>2, <1>5, <1>6, UpTo
  <1> DEFINE v == f[n]
  <1>8. v \in Writers /\ Quiet(v)
    <2>1. n \in 0..n
      BY <1>2
    <2> QED
      BY <1>4, <1>7, <2>1 DEF G
  <1>9. DoneWith(l, x, data) = Flush(Recheck(EndRun(v), data))
    BY <1>3 DEF DoneWith, w, n
  <1> HIDE DEF v
  <1>10. Flush(Recheck(EndRun(v), data)).lost = LostAfter(v.run, v.text, v.lost)
    BY <1>8, WriterDone
  <1>11. ~LostAfter(v.run, v.text, v.lost)
    BY <1>8, QuietRun DEF Quiet, LostAfter
  <1> QED
    BY <1>9, <1>10, <1>11 DEF LostOf

\* The types of what is kept.
BufferTypes ==
  /\ buf \in Seq(Seq(Shown)) /\ line \in Seq(Shown) /\ pending \in Seq(Codes)
  /\ lost \in BOOLEAN

\* The bytes of a record as they are written, and those kept beside it.
DataOf(record, based) == IF based THEN pending \o record ELSE record
KeptBeside(based) == IF based THEN << >> ELSE pending

\* Those that are searched for a fragment, written in bulk, and what they make.
Bulk(data, kept) == IF Marked(data) THEN data ELSE kept \o data
BulkText(data, kept) ==
  WithoutHeader(Relaxed(Bulk(data, kept)), IF Marked(data) THEN Len(data) ELSE 0)

\* A record in the two ways of writing it.
LEMMA WaysToWrite ==
  ASSUME NEW record, NEW based, WriteScsData(record, based),
         NEW data, data = DataOf(record, based), NEW kept, kept = KeptBeside(based)
  PROVE  /\ Marked(kept \o data) =>
              /\ line' = line \o BulkText(data, kept)
              /\ lost' = (BulkText(data, kept) # Relaxed(Bulk(data, kept)))
              /\ pending' = IF Marked(data) THEN kept ELSE << >>
              /\ buf' = buf
         /\ ~Marked(kept \o data) =>
              /\ buf' = Trimmed(LinesOf(buf, line, data))
              /\ lost' = LostOf(buf, line, data)
              /\ line' = << >>
              /\ pending' = IF based /\ data # << >> THEN TailOf(data) ELSE kept
  BY DEF WriteScsData, DataOf, KeptBeside, Bulk, BulkText, Written, LinesOf, LostOf, DoneWith

\* Both are sequences of codes, or of some of them.
LEMMA DataTypes ==
  ASSUME NEW S, S \subseteq Codes, pending \in Seq(S), NEW record \in Seq(S), NEW based
  PROVE  /\ DataOf(record, based) \in Seq(S) /\ KeptBeside(based) \in Seq(S)
         /\ Bulk(DataOf(record, based), KeptBeside(based)) \in Seq(S)
  <1>1. DataOf(record, based) \in Seq(S) /\ KeptBeside(based) \in Seq(S)
    BY ConcatProperties DEF DataOf, KeptBeside
  <1> QED
    BY <1>1, ConcatProperties DEF Bulk

\* What a bulk is decoded to.
LEMMA RelaxedTypes ==
  ASSUME NEW bytes \in Seq(Codes)
  PROVE  Relaxed(bytes) \in Seq(Shown)
  <1>1. \A i \in 1..Len(bytes) : bytes[i] \in Codes
    OBVIOUS
  <1> QED
    BY <1>1 DEF Relaxed, Shown

\* A write keeps the types.
LEMMA WriteTypes ==
  ASSUME BufferTypes, NEW record \in Seq(Codes), NEW based, WriteScsData(record, based)
  PROVE  BufferTypes'
  <1> DEFINE data == DataOf(record, based)
  <1> DEFINE kept == KeptBeside(based)
  <1>0. MaxLines \in Nat \ {0} /\ TailLength \in Nat \ {0}
    BY BufferAssumption
  <1>1. buf \in Seq(Seq(Shown)) /\ line \in Seq(Shown) /\ pending \in Seq(Codes)
    BY DEF BufferTypes
  <1>2. data \in Seq(Codes) /\ kept \in Seq(Codes) /\ Bulk(data, kept) \in Seq(Codes)
    BY <1>1, DataTypes
  <1>3. /\ Marked(kept \o data) =>
              /\ line' = line \o BulkText(data, kept)
              /\ lost' = (BulkText(data, kept) # Relaxed(Bulk(data, kept)))
              /\ pending' = IF Marked(data) THEN kept ELSE << >>
              /\ buf' = buf
        /\ ~Marked(kept \o data) =>
              /\ buf' = Trimmed(LinesOf(buf, line, data))
              /\ lost' = LostOf(buf, line, data)
              /\ line' = << >>
              /\ pending' = IF based /\ data # << >> THEN TailOf(data) ELSE kept
    BY WaysToWrite
  <1> HIDE DEF data, kept
  <1>4. CASE Marked(kept \o data)
    <2>1. BulkText(data, kept) \in Seq(Shown)
      BY <1>2, RelaxedTypes, WithoutHeaderIsText DEF BulkText
    <2>2. line' \in Seq(Shown)
      BY <1>1, <1>3, <1>4, <2>1, ConcatProperties
    <2>3. lost' \in BOOLEAN
      BY <1>3, <1>4
    <2>4. pending' \in Seq(Codes)
      <3>1. << >> \in Seq(Codes)
        OBVIOUS
      <3> QED
        BY <1>2, <1>3, <1>4, <3>1
    <2> QED
      BY <1>1, <1>3, <1>4, <2>2, <2>3, <2>4 DEF BufferTypes
  <1>5. CASE ~Marked(kept \o data)
    <2> DEFINE l == buf
    <2> DEFINE x == line
    <2>1. l \in Seq(Seq(Shown)) /\ x \in Seq(Shown)
      BY <1>1
    <2> HIDE DEF l, x
    <2>2. LinesOf(l, x, data) \in Seq(Seq(Shown)) /\ LostOf(l, x, data) \in BOOLEAN
      BY <1>2, <2>1, WrittenTypes
    <2>3. buf' = Trimmed(LinesOf(l, x, data)) /\ lost' = LostOf(l, x, data)
      BY <1>3, <1>5 DEF l, x
    <2>4. buf' \in Seq(Seq(Shown))
      BY <1>0, <2>2, <2>3, TrimmedEnds
    <2>5. pending' \in Seq(Codes)
      BY <1>0, <1>2, <1>3, <1>5, TailEnds
    <2>6. line' \in Seq(Shown)
      BY <1>3, <1>5
    <2> QED
      BY <2>2, <2>3, <2>4, <2>5, <2>6 DEF BufferTypes
  <1> QED
    BY <1>4, <1>5

\* The bytes kept do not end with a control that swallows the next one.
TailClean == pending # << >> => Last(pending) # "SOH"

\* A write keeps them so, when the record does not end so either.
LEMMA WriteTail ==
  ASSUME BufferTypes, TailClean, NEW record \in Seq(Codes), Clean(record),
         NEW based, WriteScsData(record, based)
  PROVE  TailClean'
  <1> DEFINE data == DataOf(record, based)
  <1> DEFINE kept == KeptBeside(based)
  <1>0. TailLength \in Nat \ {0}
    BY BufferAssumption
  <1>1. pending \in Seq(Codes)
    BY DEF BufferTypes
  <1>2. data \in Seq(Codes)
    BY <1>1, DataTypes
  <1>3. kept # << >> => Last(kept) # "SOH"
    BY DEF KeptBeside, TailClean
  <1>4. \/ pending' = kept
        \/ pending' = << >>
        \/ data # << >> /\ pending' = TailOf(data)
    BY WaysToWrite
  <1>5. data # << >> => Last(data) # "SOH"
    <2>1. CASE ~based
      BY <2>1 DEF DataOf, Clean
    <2>2. CASE based
      <3> DEFINE m == Len(pending)
      <3>1. data = pending \o record
        BY <2>2 DEF DataOf
      <3>2. Behind(data, m, record) /\ (m # 0 => data[m] = pending[m])
        BY <1>1, <3>1, KeptBehind
      <3>3. m \in Nat /\ Len(record) \in Nat /\ Len(data) = m + Len(record)
        BY <1>1, <3>2 DEF Behind
      <3>4. CASE Len(record) = 0
        <4>1. data # << >> => m # 0
          BY <1>2, <3>3, <3>4
        <4>2. m # 0 => Last(data) = Last(pending) /\ pending # << >>
          BY <3>2, <3>3, <3>4 DEF Last
        <4> QED
          BY <4>1, <4>2 DEF TailClean
      <3>5. CASE Len(record) # 0
        <4>1. Len(record) \in 1..Len(record) /\ record # << >>
          BY <3>3, <3>5
        <4>2. data[m + Len(record)] = record[Len(record)]
          BY <3>2, <4>1 DEF Behind
        <4>3. Last(data) = Last(record)
          BY <3>3, <4>2 DEF Last
        <4> QED
          BY <4>1, <4>3 DEF Clean
      <3> QED
        BY <3>4, <3>5
    <2> QED
      BY <2>1, <2>2
  <1> HIDE DEF data, kept
  <1>6. data # << >> => TailOf(data) # << >> /\ Last(TailOf(data)) = Last(data)
    BY <1>0, <1>2, TailEnds
  <1> QED
    BY <1>3, <1>4, <1>5, <1>6 DEF TailClean

\* Nothing is left out, and nothing kept by which something could be.
AllMild == pending \in Seq(Mild) /\ ~lost

\* A write keeps it so, when the record has no tells.
LEMMA WriteQuiet ==
  ASSUME BufferTypes, AllMild, NEW record \in Seq(Mild), NEW based, WriteScsData(record, based)
  PROVE  AllMild'
  <1> DEFINE data == DataOf(record, based)
  <1> DEFINE kept == KeptBeside(based)
  <1>0. TailLength \in Nat \ {0} /\ Mild \subseteq Codes
    BY BufferAssumption, MildCodes
  <1>1. buf \in Seq(Seq(Shown)) /\ line \in Seq(Shown) /\ pending \in Seq(Mild)
    BY DEF BufferTypes, AllMild
  <1>2. data \in Seq(Mild) /\ kept \in Seq(Mild) /\ Bulk(data, kept) \in Seq(Mild)
    BY <1>0, <1>1, DataTypes
  <1>3. /\ Marked(kept \o data) =>
              /\ lost' = (BulkText(data, kept) # Relaxed(Bulk(data, kept)))
              /\ pending' = IF Marked(data) THEN kept ELSE << >>
        /\ ~Marked(kept \o data) =>
              /\ lost' = LostOf(buf, line, data)
              /\ pending' = IF based /\ data # << >> THEN TailOf(data) ELSE kept
    BY WaysToWrite
  <1> HIDE DEF data, kept
  <1>4. CASE Marked(kept \o data)
    <2> DEFINE bytes == Bulk(data, kept)
    <2> DEFINE blanks == IF Marked(data) THEN Len(data) ELSE 0
    <2> DEFINE text == Relaxed(bytes)
    <2>1. blanks \in Nat
      BY <1>2
    <2>2. bytes \in Seq(Codes) /\ \A i \in 1..Len(bytes) : bytes[i] \in Mild
      BY <1>0, <1>2, SeqMonotonic
    <2>3. text \in Seq(Shown)
      <3> HIDE DEF bytes
      <3> QED
        BY <2>2, RelaxedTypes
    <2>4. \A i \in 1..Len(text) : text[i] # "1"
      <3> HIDE DEF bytes
      <3>1. Len(text) = Len(bytes)
        BY <2>2 DEF Relaxed
      <3>2. ASSUME NEW i \in 1..Len(bytes) PROVE text[i] # "1"
        <4>1. bytes[i] # "1"
          BY <2>2, MildCodes
        <4> QED
          BY <4>1 DEF Relaxed
      <3> QED
        BY <3>1, <3>2
    <2>5. BulkText(data, kept) = WithoutHeader(text, blanks)
      BY DEF BulkText
    <2> HIDE DEF text, blanks, bytes
    <2>6. WithoutHeader(text, blanks) = text
      BY <2>1, <2>3, <2>4, NoHeader
    <2>7. ~lost'
      BY <1>3, <1>4, <2>5, <2>6 DEF text, bytes
    <2>8. pending' \in Seq(Mild)
      <3>1. << >> \in Seq(Mild)
        OBVIOUS
      <3> QED
        BY <1>2, <1>3, <1>4, <3>1
    <2> QED
      BY <2>7, <2>8 DEF AllMild
  <1>5. CASE ~Marked(kept \o data)
    <2> DEFINE l == buf
    <2> DEFINE x == line
    <2>1. l \in Seq(Seq(Shown)) /\ x \in Seq(Shown)
      BY <1>1
    <2>2. lost' = LostOf(l, x, data)
      BY <1>3, <1>5
    <2> HIDE DEF l, x
    <2>3. ~LostOf(l, x, data)
      BY <1>2, <2>1, WrittenQuietly
    <2>4. pending' \in Seq(Mild)
      BY <1>0, <1>2, <1>3, <1>5, TailEnds
    <2> QED
      BY <2>2, <2>3, <2>4 DEF AllMild
  <1> QED
    BY <1>4, <1>5

\* A record is printed, in bulk or line by line.
RecordShown(record) ==
  IF line # << >> THEN IsSuffix(Relaxed(record), line)
  ELSE Len(Own(record)) <= MaxLines =>
         EndWith(buf, Own(record)) \/ EndWith(buf, MarkedAgain(Own(record)))

\* A write prints its record, unless text is left out.
LEMMA WriteShows ==
  ASSUME BufferTypes, TailClean, NEW record \in Seq(Codes), NEW based,
         WriteScsData(record, based), ~lost'
  PROVE  RecordShown(record)'
  <1> DEFINE data == DataOf(record, based)
  <1> DEFINE kept == KeptBeside(based)
  <1>0. MaxLines \in Nat \ {0}
    BY BufferAssumption
  <1>1. buf \in Seq(Seq(Shown)) /\ line \in Seq(Shown) /\ pending \in Seq(Codes)
    BY DEF BufferTypes
  <1>2. data \in Seq(Codes) /\ kept \in Seq(Codes)
    BY <1>1, DataTypes
  <1>3. PICK m \in Nat : Behind(data, m, record) /\ (m # 0 => data[m] # "SOH")
    <2>1. CASE based
      <3> DEFINE k == Len(pending)
      <3>1. Behind(pending \o record, k, record) /\ (k # 0 => (pending \o record)[k] = pending[k])
        BY <1>1, KeptBehind
      <3>2. k # 0 => pending[k] # "SOH"
        BY <1>1 DEF Last, TailClean
      <3>3. k \in Nat /\ Behind(data, k, record) /\ (k # 0 => data[k] # "SOH")
        BY <1>1, <2>1, <3>1, <3>2 DEF DataOf
      <3> HIDE DEF k, data
      <3> QED
        BY <3>3
    <2>2. CASE ~based
      <3>1. Behind(data, 0, record)
        BY <1>1, <2>2, KeptBehind DEF DataOf
      <3> QED
        BY <3>1
    <2> QED
      BY <2>1, <2>2
  <1>4. kept \o data \in Seq(Codes) /\ \E k : Behind(kept \o data, k, record)
    <2>1. CASE based
      <3>1. << >> \o (pending \o record) = pending \o record
        BY <1>1, ConcatEmptySeq, KeptBehind
      <3> QED
        BY <1>2, <1>3, <2>1, <3>1 DEF DataOf, KeptBeside
    <2>2. CASE ~based
      BY <1>1, <2>2, KeptBehind DEF DataOf, KeptBeside
    <2> QED
      BY <2>1, <2>2
  <1>5. /\ Marked(kept \o data) =>
              /\ line' = line \o BulkText(data, kept)
              /\ lost' = (BulkText(data, kept) # Relaxed(Bulk(data, kept)))
        /\ ~Marked(kept \o data) =>
              /\ buf' = Trimmed(LinesOf(buf, line, data))
              /\ lost' = LostOf(buf, line, data)
              /\ line' = << >>
    BY WaysToWrite
  <1> HIDE DEF data, kept
  <1>6. CASE Marked(kept \o data)
    <2> DEFINE bytes == Bulk(data, kept)
    <2>1. line' = line \o Relaxed(bytes)
      BY <1>5, <1>6
    <2>2. bytes \in Seq(Codes) /\ Marked(bytes) /\ \E k : Behind(bytes, k, record)
      BY <1>2, <1>3, <1>4, <1>6 DEF Bulk
    <2> HIDE DEF bytes
    <2>3. line \o Relaxed(bytes) # << >> /\ IsSuffix(Relaxed(record), line \o Relaxed(bytes))
      BY <1>1, <2>2, RelaxedEnds
    <2> QED
      BY <2>1, <2>3 DEF RecordShown
  <1>7. CASE ~Marked(kept \o data)
    <2> DEFINE l == buf
    <2> DEFINE x == line
    <2> DEFINE o == LinesOf(l, x, data)
    <2> DEFINE own == Own(record)
    <2> DEFINE more == MarkedAgain(own)
    <2>1. l \in Seq(Seq(Shown)) /\ x \in Seq(Shown)
      BY <1>1
    <2>2. buf' = Trimmed(o) /\ line' = << >> /\ ~LostOf(l, x, data)
      BY <1>5, <1>7
    <2> HIDE DEF l, x
    <2>3. /\ own \in Seq(Seq(Shown)) /\ more \in Seq(Seq(Shown)) /\ Len(more) = Len(own)
          /\ LinesEnd(o, own) \/ LinesEnd(o, more)
      BY <1>2, <1>3, <2>1, <2>2, WrittenEnds
    <2>4. o \in Seq(Seq(Shown))
      BY <1>2, <2>1, WrittenTypes
    <2> HIDE DEF o, own, more
    <2>5. /\ Trimmed(o) \in Seq(Seq(Shown))
          /\ \A v \in Seq(Seq(Shown)) : LinesEnd(o, v) /\ Len(v) <= MaxLines => LinesEnd(Trimmed(o), v)
      BY <1>0, <2>4, TrimmedEnds
    <2>6. Len(own) <= MaxLines => EndWith(Trimmed(o), own) \/ EndWith(Trimmed(o), more)
      BY <2>3, <2>5, LinesEndWith
    <2> QED
      BY <2>2, <2>6 DEF RecordShown, own, more
  <1> QED
    BY <1>6, <1>7

\* No record so far swallows the start of the next one; none has tells.
AllClean == \A i \in 1..Len(printed) : Clean(printed[i])
NoTells == \A i \in 1..Len(printed) : \A j \in 1..Len(printed[i]) : printed[i][j] \notin Tells

\* Without tells nothing is left out; of clean records none swallows the start
\* of the next, and the last is printed unless text was left out.
BufferInv ==
  /\ printed \in Seq(Seq(Codes))
  /\ BufferTypes
  /\ AllClean => TailClean
  /\ NoTells => AllMild
  /\ AllClean /\ ~lost /\ printed # << >> => RecordShown(Last(printed))

\* What the invariant is for.
LEMMA BufferMeaning == BufferInv => LastRecordIsPrinted
  <1> SUFFICES ASSUME BufferInv PROVE LastRecordIsPrinted
    OBVIOUS
  <1>1. lost => \E i \in 1..Len(printed) : \E j \in 1..Len(printed[i]) : printed[i][j] \in Tells
    BY DEF BufferInv, NoTells, AllMild
  <1>2. (~lost /\ printed # << >> /\ \A i \in 1..Len(printed) : Clean(printed[i])) =>
          RecordShown(Last(printed))
    BY DEF BufferInv, AllClean
  <1> QED
    BY <1>1, <1>2 DEF LastRecordIsPrinted, RecordShown

\* A record is appended to the history; what holds of all then holds of it.
LEMMA HistoryGrows ==
  ASSUME printed \in Seq(Seq(Codes)), NEW record \in Seq(Codes), printed' = Append(printed, record)
  PROVE  /\ printed' \in Seq(Seq(Codes)) /\ printed' # << >> /\ Last(printed') = record
         /\ AllClean' => AllClean /\ Clean(record)
         /\ NoTells' => NoTells /\ record \in Seq(Mild)
  <1> DEFINE n == Len(printed)
  <1> DEFINE q == Append(printed, record)
  <1>1. /\ q \in Seq(Seq(Codes)) /\ Len(q) = n + 1 /\ q[n + 1] = record
        /\ \A i \in 1..n : q[i] = printed[i]
    BY AppendProperties
  <1>2. n \in Nat
    OBVIOUS
  <1> HIDE DEF n
  <1>3. q # << >> /\ Last(q) = record
    <2> HIDE DEF q
    <2> QED
      BY <1>1, <1>2 DEF Last
  <1>4. n + 1 \in 1..(n + 1) /\ \A i \in 1..n : i \in 1..(n + 1)
    BY <1>2
  <1>5. ASSUME AllClean' PROVE AllClean /\ Clean(record)
    <2>1. \A i \in 1..(n + 1) : Clean(q[i])
      BY <1>1, <1>5 DEF AllClean
    <2> HIDE DEF q
    <2>2. Clean(record) /\ \A i \in 1..n : Clean(printed[i])
      BY <1>1, <1>4, <2>1
    <2> QED
      BY <2>2 DEF AllClean, n
  <1>6. ASSUME NoTells' PROVE NoTells /\ record \in Seq(Mild)
    <2>1. \A i \in 1..(n + 1) : \A j \in 1..Len(q[i]) : q[i][j] \notin Tells
      BY <1>1, <1>6 DEF NoTells
    <2> HIDE DEF q
    <2>2. /\ \A j \in 1..Len(record) : record[j] \notin Tells
          /\ \A i \in 1..n : \A j \in 1..Len(printed[i]) : printed[i][j] \notin Tells
      BY <1>1, <1>4, <2>1
    <2>3. \A j \in 1..Len(record) : record[j] \in Mild
      BY <2>2 DEF Mild
    <2>4. record \in Seq(Mild)
      BY <2>3
    <2> QED
      BY <2>2, <2>4 DEF NoTells, n
  <1> QED
    BY <1>1, <1>3, <1>5, <1>6

\* A step that writes a record keeps the invariant.
LEMMA WriteKeeps ==
  ASSUME BufferInv, NEW record \in Seq(Codes), NEW based, WriteScsData(record, based),
         printed' = Append(printed, record)
  PROVE  BufferInv'
  <1>0. printed \in Seq(Seq(Codes)) /\ BufferTypes
    BY DEF BufferInv
  <1>1. /\ printed' \in Seq(Seq(Codes)) /\ printed' # << >> /\ Last(printed') = record
        /\ AllClean' => AllClean /\ Clean(record)
        /\ NoTells' => NoTells /\ record \in Seq(Mild)
    BY <1>0, HistoryGrows
  <1>2. BufferTypes'
    BY <1>0, WriteTypes
  <1>3. AllClean' => TailClean /\ TailClean'
    BY <1>0, <1>1, WriteTail DEF BufferInv
  <1>4. NoTells' => AllMild'
    BY <1>0, <1>1, WriteQuiet DEF BufferInv
  <1>5. AllClean' /\ ~lost' => RecordShown(record)'
    BY <1>0, <1>3, WriteShows
  <1>6. RecordShown(Last(printed))' <=> RecordShown(record)'
    BY <1>1 DEF RecordShown
  <1> QED
    BY <1>1, <1>2, <1>3, <1>4, <1>5, <1>6 DEF BufferInv

\* The record of a job's end prints nothing of its own.
LEMMA EndShows ==
  ASSUME BufferTypes, buf' = Append(Append(buf, line), <<"EOJ">>), line' = << >>
  PROVE  buf' \in Seq(Seq(Shown)) /\ line' \in Seq(Shown) /\ RecordShown(<< >>)'
  <1> DEFINE e == << >>
  <1> DEFINE f == <<"EOJ">>
  <1> DEFINE p == Append(buf, line)
  <1> DEFINE q == Append(p, f)
  <1> DEFINE own == Own(e)
  <1>1. buf \in Seq(Seq(Shown)) /\ line \in Seq(Shown)
    BY DEF BufferTypes
  <1>2. e \in Seq(Seq(Shown)) /\ e \in Seq(Shown) /\ e \in Seq(Codes) /\ f \in Seq(Shown)
    <2>1. "EOJ" \in Shown
      BY DEF Shown
    <2> QED
      BY <2>1
  <1>3. Len(f) = 1 /\ Len(e) = 0
    OBVIOUS
  <1>4. p \in Seq(Seq(Shown)) /\ Len(p) \in Nat
    <2> HIDE DEF e, f
    <2> QED
      BY <1>1, AppendProperties
  <1> DEFINE b == Blank.out
  <1>5. b \in Seq(Seq(Shown)) /\ Len(b) = 1 /\ b[1] = e
    BY PlainTypes DEF Plains
  <1> HIDE DEF e, f, p, b
  <1>6. own = b
    <2>1. PICK g : IsPlain(g, e) /\ Own(e) = g[Len(e)].out
      BY <1>2, PlainIsRun
    <2> QED
      BY <1>3, <2>1 DEF IsPlain, b
  <1>7. q \in Seq(Seq(Shown)) /\ Len(q) = Len(p) + 1 /\ q[Len(p) + 1] = f
    BY <1>2, <1>4, AppendProperties
  <1> HIDE DEF q, own
  <1>8. TextEnds(q[Len(q) - 1 + 1], b[1])
    BY <1>3, <1>4, <1>5, <1>7 DEF TextEnds
  <1>9. LinesEnd(q, b)
    BY <1>4, <1>5, <1>7, <1>8 DEF LinesEnd
  <1>10. EndWith(q, own)
    BY <1>5, <1>6, <1>7, <1>9, LinesEndWith
  <1>11. buf' = q /\ line' = e
    BY DEF q, p, f, e
  <1>12. RecordShown(e)'
    BY <1>10, <1>11 DEF RecordShown, own, e
  <1> QED
    BY <1>2, <1>7, <1>11, <1>12 DEF e

\* The invariant is inductive.
LEMMA BufferKeeps ==
  ASSUME BufferInv, [BufferNext]_bufferVars
  PROVE  BufferInv'
  <1>1. ASSUME NEW r \in Records, RouteScsData(r) PROVE BufferInv'
    <2>1. r \in Seq(Codes)
      BY BufferAssumption
    <2> DEFINE yes == TRUE
    <2>2. WriteScsData(r, yes) /\ printed' = Append(printed, r)
      BY <1>1 DEF RouteScsData
    <2> HIDE DEF yes
    <2> QED
      BY <2>1, <2>2, WriteKeeps
  <1>2. ASSUME NEW c \in Controls \ {"SOH"}, ScsOrder(c) PROVE BufferInv'
    <2> DEFINE record == <<c>>
    <2>1. record \in Seq(Codes)
      <3>1. c \in Codes
        BY DEF Codes
      <3> QED
        BY <3>1
    <2> DEFINE based == routed
    <2>2. WriteScsData(record, based) /\ printed' = Append(printed, record)
      BY <1>2 DEF ScsOrder
    <2> HIDE DEF record, based
    <2> QED
      BY <2>1, <2>2, WriteKeeps
  <1>3. ASSUME EndJob PROVE BufferInv'
    <2> DEFINE e == << >>
    <2>0. printed \in Seq(Seq(Codes)) /\ BufferTypes
      BY DEF BufferInv
    <2>1. /\ buf' = Append(Append(buf, line), <<"EOJ">>) /\ line' = << >>
          /\ pending' = pending /\ printed' = Append(printed, e)
      BY <1>3 DEF EndJob
    <2> DEFINE no == FALSE
    <2>2. lost' = no /\ no \in BOOLEAN /\ ~no
      BY <1>3 DEF EndJob
    <2>3. e \in Seq(Codes)
      OBVIOUS
    <2>4. buf' \in Seq(Seq(Shown)) /\ line' \in Seq(Shown) /\ RecordShown(e)'
      BY <2>0, <2>1, EndShows
    <2> HIDE DEF e, no
    <2>5. /\ printed' \in Seq(Seq(Codes)) /\ printed' # << >> /\ Last(printed') = e
          /\ AllClean' => AllClean /\ Clean(e)
          /\ NoTells' => NoTells /\ e \in Seq(Mild)
      BY <2>0, <2>1, <2>3, HistoryGrows
    <2>6. RecordShown(Last(printed))' <=> RecordShown(e)'
      BY <2>5 DEF RecordShown
    <2>7. BufferTypes'
      BY <2>0, <2>1, <2>2, <2>4 DEF BufferTypes
    <2>8. AllClean' => TailClean'
      BY <2>1, <2>5 DEF BufferInv, TailClean
    <2>9. NoTells' => AllMild'
      BY <2>1, <2>2, <2>5 DEF BufferInv, AllMild
    <2> QED
      BY <2>4, <2>5, <2>6, <2>7, <2>8, <2>9 DEF BufferInv
  <1>4. ASSUME UNCHANGED bufferVars PROVE BufferInv'
    BY <1>4 DEF bufferVars, BufferInv, AllClean, NoTells, BufferTypes, TailClean, AllMild, RecordShown
  <1> QED
    BY <1>1, <1>2, <1>3, <1>4 DEF BufferNext

(***************************************************************************)
(* Unless text was left out, the record just written is printed, complete  *)
(* and line by line; and text is left out only if a record so far had a    *)
(* code to which the rules for screen content and headers react            *)
(* (printer_buffer.py:130-182, 226-240, 261-296, 353-388, 396-789, 883).   *)
(***************************************************************************)
THEOREM RecordPrinted == BufferSpec => []LastRecordIsPrinted
  <1>1. BufferInit => BufferInv
    <2> SUFFICES ASSUME BufferInit PROVE BufferInv
      OBVIOUS
    <2> DEFINE no == FALSE
    <2>1. /\ buf = << >> /\ line = << >> /\ pending = << >> /\ printed = << >> /\ lost = no
      BY DEF BufferInit
    <2>2. /\ << >> \in Seq(Seq(Shown)) /\ << >> \in Seq(Shown) /\ << >> \in Seq(Codes)
          /\ << >> \in Seq(Seq(Codes)) /\ << >> \in Seq(Mild) /\ no \in BOOLEAN /\ ~no
      OBVIOUS
    <2> HIDE DEF no
    <2>3. BufferTypes /\ TailClean /\ AllMild
      BY <2>1, <2>2 DEF BufferTypes, TailClean, AllMild
    <2> QED
      BY <2>1, <2>2, <2>3 DEF BufferInv
  <1>2. BufferInv /\ [BufferNext]_bufferVars => BufferInv'
    BY BufferKeeps
  <1> QED
    BY <1>1, <1>2, BufferMeaning, PTL DEF BufferSpec

-----------------------------------------------------------------------------
(***************************************************************************)
(* The parts side by side.                                                 *)
(***************************************************************************)
\* A step of the whole is a step of each part, or leaves it alone.
LEMMA StepOfParts ==
  ASSUME [Next]_vars
  PROVE  /\ [JobsNext]_jobVars
         /\ [BufferNext]_bufferVars
         /\ [ErrorsNext \/ ReporterNext]_errorVars
         /\ [RecoveryNext]_recoveryVars
         /\ [RoutingNext]_routingVars
  <1>1. CASE UNCHANGED vars
    BY <1>1 DEF vars
  <1>2. CASE Next
    <2>1. JobsStep \/ ExtractorStep => [JobsNext]_jobVars
      BY DEF JobsStep, ExtractorStep, JobsNext
    <2>2. JobsStep \/ ExtractorStep =>
            UNCHANGED <<bufferVars, errorVars, recoveryVars, routingVars>>
      BY DEF JobsStep, ExtractorStep
    <2>3. CASE JobsStep \/ ExtractorStep
      BY <2>1, <2>2, <2>3
    <2>4. CASE BufferStep \/ ErrorsStep \/ ReporterStep \/ RecoveryStep \/ RoutingStep
      BY <2>4 DEF BufferStep, ErrorsStep, ReporterStep, RecoveryStep, RoutingStep
    <2> QED
      BY <1>2, <2>3, <2>4 DEF Next
  <1> QED
    BY <1>1, <1>2

\* Every behaviour of the whole is a behaviour of each part.
LEMMA SpecOfParts == Spec => JobsSpec /\ BufferSpec /\ ErrorsSpec /\ RecoverySpec /\ RoutingSpec
  BY StepOfParts, PTL DEF Spec, Init, JobsSpec, BufferSpec, ErrorsSpec, RecoverySpec, RoutingSpec

\* In the composition no print job, no print data and no status is lost
\* (printer.py:291-310, printer_status_reporter.py:187-205).
THEOREM NothingLost == Spec => []NothingIsLost
  <1>1. JobsAreKept /\ StatusIsRecorded => NothingIsLost
    BY DEF NothingIsLost
  <1> QED
    BY <1>1, SpecOfParts, JobsKept, StatusRecorded, PTL

\* The composition also prints the last record, keeps the circuit breaker able
\* to close and leaves no routing flow or session behind.
THEOREM PartsStaySafe == Spec => [](LastRecordIsPrinted /\ HalfOpenCanClose /\ NothingIsLeftOpen)
  BY SpecOfParts, RecordPrinted, HalfOpenSafe, NothingLeftOpen, PTL
=============================================================================
