----------------------------- MODULE PrintJobs -----------------------------
(***************************************************************************)
(* PrinterSession and its PrinterJobs (printer.py), with a thread that     *)
(* delivers the host's records and one that controls the session; and the  *)
(* PrintJobExtractor (print_job_extractor.py, print_job_detector.py,       *)
(* protocol_translator.py), which works on records of its own.  Jobs are   *)
(* named by the order in which they became current.                        *)
(*                                                                         *)
(* start_new_job() takes no lock, so its steps interleave with those of a  *)
(* record that is processed inside the lock.  A step ends where a call     *)
(* lets the interpreter switch threads.                                    *)
(***************************************************************************)
EXTENDS Integers, Sequences, SequencesExt

CONSTANTS
  MaxJobs,        \* max_jobs: completed jobs that are kept
  MaxMade,        \* bound: jobs made
  MaxPauses,      \* bound: calls of pause_job() and resume_job()
  MaxDelivered,   \* bound: records delivered to the session
  MaxExtracted    \* bound: records of the extractor

ASSUME JobsAssumption ==
  MaxJobs \in Nat \ {0} /\ MaxMade \in Nat /\ MaxPauses \in Nat
  /\ MaxDelivered \in Nat /\ MaxExtracted \in Nat

NoJob == 0
Threads == {"control", "deliver"}

\* A record is SCS data, a PRINT-EOJ code (as a header or a control code),
\* an error response, 3270 data with SCS indicators, or something else that
\* neither begins nor ends a job, as a control code that counts lines.
RecordKinds == {"scs", "eoj", "error", "scs3270", "other"}

VARIABLES
  is_active,     \* PrinterSession.is_active
  current,       \* PrinterSession.current_job
  completed,     \* PrinterSession.completed_jobs
  made,          \* jobs made so far
  status,        \* PrinterJob.status of each
  reading,       \* the record the delivering thread has checked is_active for
  step,          \* where each thread is among jobs
  subject,       \* the job it has just looked at
  raced,         \* history: start_new_job() met a record since the last close()
  resumed,       \* history: the jobs that were resumed
  pauses,        \* calls of pause_job() and resume_job()
  delivered,     \* records of the session so far
  in_job,        \* PrintJobDetector._in_print_job
  job_data,      \* PrintJobDetector._current_job_data, as numbers of records
  forwarded,     \* history: what callbacks got since the detector's job began
  extracted      \* records of the extractor so far

jobsNow == <<current, completed, made>>
statuses == <<status, resumed, pauses>>
printer == <<is_active, jobsNow, statuses>>
threads == <<step, subject, raced>>
sessionVars == <<printer, reading, threads, delivered>>
extractorVars == <<in_job, job_data, forwarded, extracted>>
jobVars == <<sessionVars, extractorVars>>

JobsInit ==
  /\ is_active = FALSE
  /\ current = NoJob
  /\ completed = <<>>
  /\ made = 0
  /\ status = [j \in 1..MaxMade |-> "active"]
  /\ reading = "none"
  /\ step = [t \in Threads |-> "idle"]
  /\ subject = [t \in Threads |-> NoJob]
  /\ raced = FALSE
  /\ resumed = {}
  /\ pauses = 0
  /\ in_job = FALSE
  /\ job_data = <<>>
  /\ forwarded = <<>>
  /\ delivered = 0
  /\ extracted = 0

-----------------------------------------------------------------------------
(***************************************************************************)
(* PrinterSession.                                                         *)
(***************************************************************************)
Idle(t) == step[t] = "idle"

\* The controlling thread is free, and gets the lock.
Free == Idle("control") /\ Idle("deliver")

Activate ==
  /\ Free
  /\ is_active' = TRUE
  /\ UNCHANGED <<jobsNow, statuses, reading, threads, delivered>>

Kept(list) ==
  IF Len(list) > MaxJobs THEN SubSeq(list, Len(list) - MaxJobs + 1, Len(list))
                         ELSE list

Deactivate ==
  /\ Free
  /\ \/ /\ current # NoJob
        /\ status' = [status EXCEPT ![current] = "error"]
        /\ completed' = Kept(Append(completed, current))
        /\ current' = NoJob
     \/ current = NoJob /\ UNCHANGED <<current, completed, status>>
  /\ is_active' = FALSE
  /\ UNCHANGED <<made, resumed, pauses, reading, threads, delivered>>

\* close(): deactivate() and clear_completed_jobs().
Close ==
  /\ Free
  /\ \/ current # NoJob /\ status' = [status EXCEPT ![current] = "error"]
     \/ current = NoJob /\ UNCHANGED status
  /\ current' = NoJob
  /\ completed' = <<>>
  /\ is_active' = FALSE
  /\ raced' = FALSE
  /\ UNCHANGED <<made, resumed, pauses, reading, step, subject, delivered>>

\* pause_job() and resume_job() of a job the controlling thread knows.
PauseOrResume(j) ==
  /\ Idle("control")
  /\ pauses < MaxPauses
  /\ pauses' = pauses + 1
  /\ \/ /\ status[j] = "active"
        /\ status' = [status EXCEPT ![j] = "paused"]
        /\ UNCHANGED resumed
     \/ /\ status[j] = "paused"
        /\ status' = [status EXCEPT ![j] = "active"]
        /\ resumed' = resumed \cup {j}
  /\ UNCHANGED <<is_active, jobsNow, reading, threads, delivered>>

-----------------------------------------------------------------------------
(***************************************************************************)
(* What both threads do to the current job, step by step.                  *)
(***************************************************************************)
GoOn(t, label) ==
  /\ step' = [step EXCEPT ![t] = label]
  /\ subject' = [subject EXCEPT ![t] = NoJob]
  /\ UNCHANGED <<is_active, raced, reading, delivered>>

\* Thread t turns to the current job while the other may be busy with it.
Enter(t, label) ==
  /\ step' = [step EXCEPT ![t] = label]
  /\ subject' = [subject EXCEPT ![t] = IF label \in {"fail", "complete"} THEN current ELSE NoJob]
  /\ raced' = (raced \/ \E u \in Threads : ~Idle(u))
  /\ UNCHANGED <<printer, reading, delivered>>

\* start_new_job() looks for a job that is still open.
StartNewJob ==
  /\ Idle("control")
  /\ is_active
  /\ Enter("control", IF current = NoJob THEN "make" ELSE "fail")

\* complete_job() only completes an active job.
Completed(j) == IF status[j] = "active" THEN "completed" ELSE status[j]

\* set_error() and complete_job() of the job looked at; an error response
\* leaves it current.
EndJobOf(t) ==
  \/ /\ step[t] = "fail"
     /\ status' = [status EXCEPT ![subject[t]] = "error"]
     /\ GoOn(t, IF t = "control" THEN "finish" ELSE "done")
     /\ UNCHANGED <<jobsNow, resumed, pauses>>
  \/ /\ step[t] = "complete"
     /\ status' = [status EXCEPT ![subject[t]] = Completed(subject[t])]
     /\ GoOn(t, "finish")
     /\ UNCHANGED <<jobsNow, resumed, pauses>>

AfterFinish(t) == IF t = "control" THEN "make" ELSE "done"

\* _finish_current_job(): whatever job is current then is stored, ...
Store(t) ==
  /\ step[t] = "finish"
  /\ \/ /\ current # NoJob
        /\ completed' = Append(completed, current)
        /\ GoOn(t, "stored")
     \/ current = NoJob /\ GoOn(t, AfterFinish(t)) /\ UNCHANGED completed
  /\ UNCHANGED <<current, made, statuses>>

\* ... its length is taken, ...
Limit(t) ==
  /\ step[t] = "stored"
  /\ GoOn(t, IF Len(completed) > MaxJobs THEN "trim" ELSE "clear")
  /\ UNCHANGED <<jobsNow, statuses>>

\* ... the list is cut, and no job is current any more.
ClearJob(t) ==
  /\ step[t] \in {"trim", "clear"}
  /\ completed' = IF step[t] = "trim" THEN Kept(completed) ELSE completed
  /\ current' = NoJob
  /\ GoOn(t, AfterFinish(t))
  /\ UNCHANGED <<made, statuses>>

\* The new job becomes current, whatever was current.
MakeJob(t) ==
  /\ step[t] = "make"
  /\ made < MaxMade
  /\ made' = made + 1
  /\ current' = made + 1
  /\ GoOn(t, IF t = "control" THEN "idle" ELSE "done")
  /\ UNCHANGED <<completed, statuses>>

JobStep(t) == EndJobOf(t) \/ Store(t) \/ Limit(t) \/ ClearJob(t) \/ MakeJob(t)

-----------------------------------------------------------------------------
(***************************************************************************)
(* process_tn3270e_message(), which tests is_active before it takes the    *)
(* lock.                                                                   *)
(***************************************************************************)
Deliver(kind) ==
  /\ reading = "none"
  /\ delivered < MaxDelivered
  /\ is_active
  /\ reading' = kind
  /\ UNCHANGED <<printer, threads, delivered>>

\* Inside the lock: SCS data may start a job, even if the session has been
\* deactivated meanwhile; PRINT-EOJ raises in that case.
Process ==
  /\ reading # "none"
  /\ Idle("deliver")
  /\ Enter("deliver",
       CASE reading = "scs" /\ current = NoJob               -> "make"
         [] reading = "eoj" /\ is_active /\ current # NoJob  -> "complete"
         [] reading = "error" /\ current # NoJob             -> "fail"
         [] OTHER                                            -> "done")

\* The session is done with the record.
Processed ==
  /\ step["deliver"] = "done"
  /\ step' = [step EXCEPT !["deliver"] = "idle"]
  /\ reading' = "none"
  /\ delivered' = delivered + 1
  /\ UNCHANGED <<printer, subject, raced>>

SessionNext ==
  \/ Activate \/ Deactivate \/ Close \/ StartNewJob
  \/ \E j \in 1..made : PauseOrResume(j)
  \/ \E t \in Threads : JobStep(t)
  \/ \E k \in RecordKinds : Deliver(k)
  \/ Process \/ Processed

-----------------------------------------------------------------------------
(***************************************************************************)
(* PrintJobExtractor.process_data_stream(): detect_print_job() twice, the  *)
(* second time inside extract_print_data(), then the callbacks.            *)
(***************************************************************************)
StartsJob(kind) == kind \in {"scs", "scs3270"}

\* _start_print_job() and _end_print_job().
Detected(kind, now) ==
  CASE StartsJob(kind) -> TRUE
    [] kind = "eoj"    -> FALSE
    [] OTHER           -> now

\* Mutant: a new job keeps the data of the one before.
ExtractKeeping(kind) ==
  /\ extracted < MaxExtracted
  /\ extracted' = extracted + 1
  /\ in_job' = Detected(kind, in_job)
  /\ \/ /\ in_job'
        /\ job_data' = Append(job_data, extracted)
        /\ forwarded' = Append(IF in_job THEN forwarded ELSE <<>>, extracted)
     \/ ~in_job' /\ UNCHANGED <<job_data, forwarded>>

Extract(kind) ==
  /\ extracted < MaxExtracted
  /\ extracted' = extracted + 1
  /\ in_job' = Detected(kind, in_job)
  /\ \/ /\ in_job'
        /\ job_data' = Append(IF in_job THEN job_data ELSE <<>>, extracted)
        /\ forwarded' = Append(IF in_job THEN forwarded ELSE <<>>, extracted)
     \/ ~in_job' /\ UNCHANGED <<job_data, forwarded>>

\* end_print_job() and reset() of the extractor.
EndPrintJob ==
  /\ in_job' = FALSE
  /\ job_data' = <<>>
  /\ forwarded' = <<>>
  /\ UNCHANGED extracted

ExtractorNext ==
  \/ \E k \in RecordKinds : Extract(k)
  \/ EndPrintJob

JobsNext ==
  \/ SessionNext /\ UNCHANGED extractorVars
  \/ ExtractorNext /\ UNCHANGED sessionVars

JobsSpec == JobsInit /\ [][JobsNext]_jobVars

-----------------------------------------------------------------------------
\* A thread has stored a job and not yet cut the list, or cleared the job.
Storing == \E t \in Threads : step[t] \in {"stored", "trim", "clear"}

\* The jobs a thread may have stored beyond the limit.
Excess(t) == IF step[t] \in {"stored", "trim"} THEN 1 ELSE 0

(***************************************************************************)
(* No job is lost, kept twice or out of order: the completed jobs are      *)
(* consecutive ones and no longer than max_jobs, the newest made just      *)
(* before the current job, or the newest of all; only the current job is   *)
(* open, and those resumed after they ended.  That is so unless            *)
(* start_new_job(), which takes no lock, met a record: then a job can be   *)
(* overwritten or stored twice, but no list outgrows its limit, and a      *)
(* close() puts it right (printer.py:236-304, 335-344, 494-505).           *)
(***************************************************************************)
JobsAreAccountedFor ==
  LET n == Len(completed) IN
  /\ n <= MaxJobs + Excess("control") + Excess("deliver")
  /\ ~raced /\ ~Storing =>
       /\ \A i \in 1..n : completed[i] = completed[n] - (n - i)
       /\ n > 0 => completed[n] = IF current = NoJob THEN made ELSE current - 1
       /\ current # NoJob => current = made
       /\ \A i \in 1..n :
            status[completed[i]] # "active" \/ completed[i] \in resumed

(***************************************************************************)
(* The data the detector keeps for a job is what the callbacks received    *)
(* for it, although every record is examined twice and a job may begin in  *)
(* the middle of 3270 data (print_job_extractor.py:49-67,                  *)
(* print_job_detector.py:88-103, 132-137).                                 *)
(***************************************************************************)
JobDataIsForwarded == job_data = forwarded

(***************************************************************************)
(* Jobs and the data of jobs are neither lost nor mixed up, in the session *)
(* and in the detector (printer.py:255-304, print_job_detector.py:34-103). *)
(***************************************************************************)
JobsAreKept == JobsAreAccountedFor /\ JobDataIsForwarded
=============================================================================
