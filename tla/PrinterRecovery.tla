-------------------------- MODULE PrinterRecovery --------------------------
(***************************************************************************)
(* The circuit breaker of a printer operation and the retry loop that      *)
(* calls through it (printer_error_recovery.py).  A breaker's methods hold *)
(* its asyncio lock; only a fallback suspends inside it, so each of the    *)
(* others is one step once the lock is free.  Any call may be cancelled.   *)
(***************************************************************************)
EXTENDS Integers, FiniteSets

CONSTANTS
  Operations,        \* concurrent execute_operation() calls
  Guests,            \* tasks that use call() with a fallback themselves
  FailureThreshold, SuccessThreshold, HalfOpenMaxCalls,   \* the configuration
  RecoveryTicks,     \* recovery_timeout, in ticks of the clock
  MaxAttempts        \* max_attempts

ASSUME RecoveryAssumption ==
  /\ IsFiniteSet(Operations) /\ IsFiniteSet(Guests)
  /\ Operations \cap Guests = {}
  /\ "nobody" \notin Operations \cup Guests
  /\ FailureThreshold \in Nat \ {0}
  /\ SuccessThreshold \in Nat \ {0}
  /\ HalfOpenMaxCalls \in Nat \ {0}
  /\ RecoveryTicks \in Nat \ {0}
  /\ MaxAttempts \in Nat \ {0}

Callers == Operations \cup Guests
Nobody == "nobody"

VARIABLES
  st,          \* CircuitBreaker._state
  failures,    \* _failure_count, not counted past the threshold
  successes,   \* _success_count
  probes,      \* _half_open_calls
  wait,        \* ticks until recovery_timeout has passed since the last failure
  holder,      \* a fallback that runs inside _state_lock
  unrecorded,  \* history: calls cancelled in flight since half-open was entered
  pc,          \* where each caller is suspended
  tries        \* attempts a caller has made

breaker == <<st, failures, successes, probes, wait>>
callers == <<pc, tries>>
recoveryVars == <<breaker, holder, unrecorded, callers>>

InFlight == {c \in Callers : pc[c] \in {"run", "ok", "bad"}}

RecoveryInit ==
  /\ st = "CLOSED"
  /\ failures = 0 /\ successes = 0 /\ probes = 0 /\ wait = 0
  /\ holder = Nobody
  /\ unrecorded = 0
  /\ pc = [c \in Callers |-> "idle"]
  /\ tries = [c \in Callers |-> 0]

-----------------------------------------------------------------------------
(***************************************************************************)
(* execute_operation() and execute_with_recovery().                        *)
(***************************************************************************)
Goto(c, label) == pc' = [pc EXCEPT ![c] = label]

Execute(c) ==
  /\ pc[c] = "idle"
  /\ Goto(c, "call")
  /\ tries' = [tries EXCEPT ![c] = 1]
  /\ UNCHANGED <<breaker, holder, unrecorded>>

\* The call is over.
Over(c) ==
  /\ Goto(c, "idle")
  /\ tries' = [tries EXCEPT ![c] = 0]

\* The attempt raised, CircuitBreakerOpenError included: the recovery policy,
\* or force_open() after the last one.  A guest's call() just raises.
Failed(c) ==
  \/ c \in Guests /\ Over(c)
  \/ /\ c \in Operations
     /\ Goto(c, IF tries[c] < MaxAttempts THEN "backoff" ELSE "force")
     /\ UNCHANGED tries

BackedOff(c) ==
  /\ pc[c] = "backoff"
  /\ Goto(c, "call")
  /\ tries' = [tries EXCEPT ![c] = @ + 1]
  /\ UNCHANGED <<breaker, holder, unrecorded>>

ForceOpen(c) ==
  /\ pc[c] = "force"
  /\ holder = Nobody
  /\ st' = "OPEN"
  /\ successes' = 0
  /\ wait' = RecoveryTicks
  /\ Over(c)
  /\ UNCHANGED <<failures, probes, holder, unrecorded>>

-----------------------------------------------------------------------------
(***************************************************************************)
(* CircuitBreaker.call(): admission under the lock, func() outside it, its *)
(* outcome recorded under the lock again.                                  *)
(***************************************************************************)
Recovered == st = "OPEN" /\ wait = 0

\* Mutant: entering half-open does not reset the count of probes.
AdmitWithoutReset(c) ==
  /\ pc[c] = "call"
  /\ holder = Nobody
  /\ \/ st = "CLOSED" /\ UNCHANGED <<st, probes, unrecorded>>
     \/ /\ Recovered \/ st = "HALF_OPEN"
        /\ probes < HalfOpenMaxCalls
        /\ st' = "HALF_OPEN"
        /\ probes' = probes + 1
        /\ unrecorded' = IF Recovered THEN 0 ELSE unrecorded
  /\ Goto(c, "run")
  /\ UNCHANGED <<failures, successes, wait, holder, tries>>

Admit(c) ==
  /\ pc[c] = "call"
  /\ holder = Nobody
  /\ \/ st = "CLOSED" /\ UNCHANGED <<st, probes, unrecorded>>
     \/ Recovered /\ st' = "HALF_OPEN" /\ probes' = 1 /\ unrecorded' = 0
     \/ /\ st = "HALF_OPEN" /\ probes < HalfOpenMaxCalls
        /\ probes' = probes + 1
        /\ UNCHANGED <<st, unrecorded>>
  /\ Goto(c, "run")
  /\ UNCHANGED <<failures, successes, wait, holder, tries>>

\* Rejected: a guest's fallback runs inside the lock, an operation raises.
Reject(c) ==
  /\ pc[c] = "call"
  /\ holder = Nobody
  /\ \/ st = "OPEN" /\ wait > 0
     \/ st = "HALF_OPEN" /\ probes >= HalfOpenMaxCalls
  /\ \/ c \in Guests /\ Goto(c, "fallback") /\ holder' = c /\ UNCHANGED tries
     \/ Failed(c) /\ UNCHANGED holder
  /\ UNCHANGED <<breaker, unrecorded>>

FallbackEnds(c) ==
  /\ pc[c] = "fallback"
  /\ holder' = Nobody
  /\ Over(c)
  /\ UNCHANGED <<breaker, unrecorded>>

\* func() returns or raises.
FuncEnds(c) ==
  /\ pc[c] = "run"
  /\ Goto(c, "ok") \/ Goto(c, "bad")
  /\ UNCHANGED <<breaker, holder, unrecorded, tries>>

RecordSuccess(c) ==
  /\ pc[c] = "ok"
  /\ holder = Nobody
  /\ \/ /\ st = "HALF_OPEN" /\ successes + 1 < SuccessThreshold
        /\ successes' = successes + 1
        /\ UNCHANGED <<st, failures, probes>>
     \/ /\ st = "HALF_OPEN" /\ successes + 1 >= SuccessThreshold
        /\ st' = "CLOSED"
        /\ failures' = 0 /\ successes' = 0 /\ probes' = 0
     \/ /\ st # "HALF_OPEN"
        /\ failures' = 0
        /\ UNCHANGED <<st, successes, probes>>
  /\ Over(c)
  /\ UNCHANGED <<wait, holder, unrecorded>>

Counted == IF failures < FailureThreshold THEN failures + 1 ELSE failures

RecordFailure(c) ==
  /\ pc[c] = "bad"
  /\ holder = Nobody
  /\ failures' = Counted
  /\ wait' = RecoveryTicks
  /\ \/ /\ st = "HALF_OPEN" \/ (st = "CLOSED" /\ Counted >= FailureThreshold)
        /\ st' = "OPEN" /\ successes' = 0
     \/ /\ st = "OPEN" \/ (st = "CLOSED" /\ Counted < FailureThreshold)
        /\ UNCHANGED <<st, successes>>
  /\ Failed(c)
  /\ UNCHANGED <<probes, holder, unrecorded>>

\* The caller's task is cancelled.  call() catches Exception only, so a call in
\* flight records no outcome and its probe stays counted; a lock that is held
\* is released.
Cancel(c) ==
  /\ pc[c] # "idle"
  /\ Over(c)
  /\ holder' = IF holder = c THEN Nobody ELSE holder
  /\ unrecorded' = IF st = "HALF_OPEN" /\ c \in InFlight THEN unrecorded + 1
                                                       ELSE unrecorded
  /\ UNCHANGED breaker

\* reset() takes no lock.
Reset ==
  /\ st' = "CLOSED"
  /\ failures' = 0 /\ successes' = 0 /\ probes' = 0 /\ wait' = 0
  /\ UNCHANGED <<holder, unrecorded, callers>>

\* The clock.
Tick ==
  /\ wait > 0
  /\ wait' = wait - 1
  /\ UNCHANGED <<st, failures, successes, probes, holder, unrecorded, callers>>

-----------------------------------------------------------------------------
CallerStep(c) ==
  \/ BackedOff(c) \/ ForceOpen(c) \/ Admit(c) \/ Reject(c) \/ FallbackEnds(c)
  \/ FuncEnds(c) \/ RecordSuccess(c) \/ RecordFailure(c) \/ Cancel(c)

RecoveryNext ==
  \/ \E c \in Callers : Execute(c) \/ CallerStep(c)
  \/ Reset \/ Tick

RecoverySpec == RecoveryInit /\ [][RecoveryNext]_recoveryVars

-----------------------------------------------------------------------------
(***************************************************************************)
(* If the configuration lets enough probes in, only cancelled calls can    *)
(* keep a half-open breaker from closing: the successes recorded, the      *)
(* calls in flight, those it still admits and those cancelled make the     *)
(* success threshold.  Otherwise it would reject everything and never      *)
(* leave the state (printer_error_recovery.py:143-165, 193-196).  Late     *)
(* outcomes of earlier calls, reset() and force_open() interfere.          *)
(***************************************************************************)
HalfOpenCanClose ==
  SuccessThreshold <= HalfOpenMaxCalls /\ st = "HALF_OPEN" =>
    successes + Cardinality(InFlight) + unrecorded + (HalfOpenMaxCalls - probes)
      >= SuccessThreshold
=============================================================================
