--------------------------- MODULE PrinterErrors ---------------------------
(***************************************************************************)
(* PrinterErrorHandler.handle_error() (printer_error_handler.py): under    *)
(* _recovery_lock the recovery strategies of the error's category, one     *)
(* after the other, until one succeeds; and PrinterStatusReporter          *)
(* (printer_status_reporter.py), which records the printer's status and    *)
(* runs a task for notifications and one for health checks.  What a        *)
(* notification says and its priority are left out.                        *)
(***************************************************************************)
EXTENDS Integers, Sequences, SequencesExt

CONSTANTS
  Failures,       \* concurrent handle_error() calls
  MaxRetries,     \* max_retries
  QueueSize,      \* notification_queue_size
  HistorySize     \* status_history_size

ASSUME ErrorsAssumption ==
  /\ MaxRetries \in Nat \ {0} /\ QueueSize \in Nat \ {0} /\ HistorySize \in Nat \ {0}
  /\ "nobody" \notin Failures

\* _build_recovery_strategies(): the plan of each category.
Plans ==
  [CONNECTION |-> <<"RECONNECT", "RETRY", "ESCALATE">>,
   PROTOCOL |-> <<"RESET", "RETRY", "ESCALATE">>,
   TIMEOUT |-> <<"RETRY", "RECONNECT", "ESCALATE">>,
   DATA |-> <<"RETRY", "RESET", "ESCALATE">>,
   SESSION |-> <<"RECONNECT", "RESET", "ESCALATE">>,
   RESOURCE |-> <<"RETRY", "FAILOVER", "ESCALATE">>,
   UNKNOWN |-> <<"RETRY", "ESCALATE">>]

\* An exception by its type and the word that its text, or the context of a
\* Pure3270Error, holds.  A TimeoutError is an OSError since Python 3.11.  The
\* first test that applies decides, so that no error is classified as DATA.
Errors ==
  {"OSError", "ValueError", "RuntimeError", "MemoryError", "Pure3270Error", "other"}
    \X {"timeout", "protocol", "session", "resource", "connection", "none"}

ClassifyError(type, word) ==
  IF type = "OSError" THEN IF word = "timeout" THEN "TIMEOUT" ELSE "CONNECTION"
  ELSE IF type = "ValueError" \/ word = "protocol" THEN "PROTOCOL"
  ELSE IF word = "timeout" THEN "TIMEOUT"
  ELSE IF type = "RuntimeError" \/ word = "session" THEN "SESSION"
  ELSE IF type = "MemoryError" /\ word = "resource" THEN "RESOURCE"
  ELSE IF type = "Pure3270Error" /\ word = "connection" THEN "CONNECTION"
  ELSE "UNKNOWN"

VARIABLES
  fix,        \* where each handle_error() is suspended
  fixer,      \* the one that holds _recovery_lock
  plan,       \* its strategies that are left
  retry,      \* attempts of the current strategy
  notes,      \* length of _notification_queue
  notifier,   \* _notification_task: none, running, or ended by an exception
  checker,    \* _health_check_task: none or running
  stopping,   \* the task that stop() has cancelled and awaits: no, checker, notifier
  health,     \* _current_status
  log         \* _status_history

strategies == <<fix, fixer, plan, retry>>
tasks == <<notifier, checker, stopping>>
reports == <<notes, tasks, health, log>>
errorVars == <<strategies, reports>>

ReporterInit ==
  /\ notes = 0
  /\ notifier = "none" /\ checker = "none" /\ stopping = "no"
  /\ health = "UNKNOWN"
  /\ log = <<>>

ErrorsInit ==
  /\ fix = [f \in Failures |-> "idle"]
  /\ fixer = "nobody"
  /\ plan = <<>>
  /\ retry = 0
  /\ ReporterInit

HandleError(f) ==
  /\ fix[f] = "idle"
  /\ fix' = [fix EXCEPT ![f] = "lock"]
  /\ UNCHANGED <<fixer, plan, retry, reports>>

\* Without a callback every strategy up to ESCALATE returns at once.
AttemptRecovery(f) ==
  /\ fix[f] = "lock"
  /\ fixer = "nobody"
  /\ fixer' = f
  /\ fix' = [fix EXCEPT ![f] = "strategy"]
  /\ \/ plan' = <<"ESCALATE">>
     \/ \E e \in Errors : plan' = Plans[ClassifyError(e[1], e[2])]
  /\ retry' = 0
  /\ UNCHANGED reports

\* The lock is released and the call returns whether it recovered.
Handled(f) ==
  /\ fixer' = "nobody"
  /\ fix' = [fix EXCEPT ![f] = "idle"]
  /\ plan' = <<>>
  /\ retry' = 0
  /\ UNCHANGED reports

\* ESCALATE is not a recovery.
NotRecovered(f) ==
  /\ fix[f] = "strategy"
  /\ Head(plan) = "ESCALATE"
  /\ Handled(f)

CallbackSucceeds(f) ==
  /\ fix[f] = "strategy"
  /\ Head(plan) # "ESCALATE"
  /\ Handled(f)

\* It raises or exceeds recovery_timeout: another attempt of a RETRY, or the
\* next strategy.
CallbackFails(f) ==
  /\ fix[f] = "strategy"
  /\ Head(plan) # "ESCALATE"
  /\ IF Head(plan) = "RETRY" /\ retry + 1 < MaxRetries
       THEN retry' = retry + 1 /\ UNCHANGED plan
       ELSE retry' = 0 /\ plan' = Tail(plan)
  /\ UNCHANGED <<fix, fixer, reports>>

-----------------------------------------------------------------------------
(***************************************************************************)
(* The reporter's operations do not suspend: _status_lock is never held    *)
(* over an await, and put_nowait() drops what the queue has no room for.   *)
(***************************************************************************)
StartReporter ==
  /\ notifier = "none" \/ checker = "none"
  /\ notifier' = IF notifier = "none" THEN "running" ELSE notifier
  /\ checker' = "running"
  /\ UNCHANGED <<strategies, notes, stopping, health, log>>

Notify == notes' = IF notes < QueueSize THEN notes + 1 ELSE notes

Recent(history) == IF Len(history) > HistorySize THEN Tail(history) ELSE history

Entry(new) == [status |-> new, previous |-> IF new = health THEN "none" ELSE health]

\* update_status(), for instance from the circuit breaker.
UpdateStatus(new) ==
  /\ health' = new
  /\ log' = Recent(Append(log, Entry(new)))
  /\ IF new # health THEN Notify ELSE UNCHANGED notes
  /\ UNCHANGED <<strategies, tasks>>

\* report_error() and report_recovery()
ReportEvent ==
  /\ Notify
  /\ UNCHANGED <<strategies, tasks, health, log>>

Evaluate(metrics) ==
  IF metrics.connectionFailures > 5 THEN "UNHEALTHY"
  ELSE IF metrics.highErrorRate THEN "DEGRADED" ELSE "HEALTHY"

UpdateHealthMetrics(metrics) ==
  /\ Evaluate(metrics) # health
  /\ UpdateStatus(Evaluate(metrics))

\* A round of _run_health_checks(): the check itself only takes the time.
HealthCheck ==
  /\ checker = "running" /\ stopping # "checker"
  /\ ReportEvent

\* The callbacks run; an exception of one ends the task.
DeliverNote ==
  /\ notifier = "running" /\ stopping # "notifier"
  /\ notes > 0
  /\ notes' = notes - 1
  /\ notifier' \in {"running", "failed"}
  /\ UNCHANGED <<strategies, checker, stopping, health, log>>

\* stop() cancels and awaits the two tasks one after the other.
StopReporter ==
  /\ stopping = "no"
  /\ notifier # "none" \/ checker # "none"
  /\ stopping' = IF checker = "running" THEN "checker" ELSE "notifier"
  /\ UNCHANGED <<strategies, notes, notifier, checker, health, log>>

CheckerStopped ==
  /\ stopping = "checker"
  /\ checker' = "none"
  /\ stopping' = IF notifier = "none" THEN "no" ELSE "notifier"
  /\ UNCHANGED <<strategies, notes, notifier, health, log>>

\* A running task ends by its cancellation; awaiting one that has failed
\* raises out of stop(), which leaves _notification_task as it is.
NotifierStopped ==
  /\ stopping = "notifier"
  /\ stopping' = "no"
  /\ notifier' = IF notifier = "running" THEN "none" ELSE notifier
  /\ UNCHANGED <<strategies, notes, checker, health, log>>

-----------------------------------------------------------------------------
HandlerStep(f) ==
  AttemptRecovery(f) \/ NotRecovered(f) \/ CallbackSucceeds(f) \/ CallbackFails(f)

ErrorsNext == \E f \in Failures : HandleError(f) \/ HandlerStep(f)

StopStep == CheckerStopped \/ NotifierStopped

ReporterNext ==
  \/ StartReporter \/ ReportEvent \/ HealthCheck \/ DeliverNote
  \/ StopReporter \/ StopStep
  \/ \E new \in {"HEALTHY", "DEGRADED"} : UpdateStatus(new)
  \/ \E metrics \in [connectionFailures : 5..6, highErrorRate : BOOLEAN] :
       UpdateHealthMetrics(metrics)

ErrorsSpec == ErrorsInit /\ [][ErrorsNext \/ ReporterNext]_errorVars

\* The lock's queue is first come, first served; cancelled tasks run.
ErrorsFairness ==
  /\ \A f \in Failures : SF_errorVars(HandlerStep(f))
  /\ WF_errorVars(StopStep)

-----------------------------------------------------------------------------
(***************************************************************************)
(* Every error is dealt with, although the handlers wait for each other    *)
(* and callbacks fail: a strategy is tried a bounded number of times and   *)
(* the lock is given back (printer_error_handler.py:252-271, 331).         *)
(***************************************************************************)
ErrorsAreHandled == \A f \in Failures : fix[f] # "idle" ~> fix[f] = "idle"

(***************************************************************************)
(* The history is a chain up to the current status: it ends with it, and   *)
(* each entry names the status of the entry before, also when the oldest   *)
(* have been dropped (printer_status_reporter.py:187-205).                 *)
(***************************************************************************)
StatusIsRecorded ==
  /\ Len(log) <= HistorySize
  /\ health = IF log = <<>> THEN "UNKNOWN" ELSE Last(log).status
  /\ \A i \in 2..Len(log) :
       log[i].previous = IF log[i].status = log[i - 1].status THEN "none"
                         ELSE log[i - 1].status
=============================================================================
