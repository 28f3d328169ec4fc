----------------------------- MODULE MCPrinting -----------------------------
(***************************************************************************)
(* The parts of printing that work independently of each other, side by    *)
(* side: print jobs, their extraction, the printer's buffer, error         *)
(* handling, the status reporter, the circuit breaker and the routing of   *)
(* print data.  A behaviour exercises one of them (part), so their states  *)
(* add up and do not multiply.                                             *)
(***************************************************************************)
EXTENDS PrintJobs, PrinterBuffer, PrinterErrors, PrinterRecovery, PrintRouting

VARIABLE part

vars == <<part, jobVars, bufferVars, errorVars, recoveryVars, routingVars>>

Init ==
  /\ part \in {"jobs", "extractor", "buffer", "errors", "reporter", "recovery", "routing"}
  /\ JobsInit /\ BufferInit /\ ErrorsInit /\ RecoveryInit /\ RoutingInit

JobsStep ==
  SessionNext /\ UNCHANGED <<extractorVars, bufferVars, errorVars, recoveryVars, routingVars>>
ExtractorStep ==
  ExtractorNext /\ UNCHANGED <<sessionVars, bufferVars, errorVars, recoveryVars, routingVars>>
BufferStep == BufferNext /\ UNCHANGED <<jobVars, errorVars, recoveryVars, routingVars>>
ErrorsStep == ErrorsNext /\ UNCHANGED <<jobVars, bufferVars, recoveryVars, routingVars>>
ReporterStep == ReporterNext /\ UNCHANGED <<jobVars, bufferVars, recoveryVars, routingVars>>
RecoveryStep == RecoveryNext /\ UNCHANGED <<jobVars, bufferVars, errorVars, routingVars>>
RoutingStep == RoutingNext /\ UNCHANGED <<jobVars, bufferVars, errorVars, recoveryVars>>

Next ==
  /\ UNCHANGED part
  /\ \/ part = "jobs" /\ JobsStep
     \/ part = "extractor" /\ ExtractorStep
     \/ part = "buffer" /\ BufferStep
     \/ part = "errors" /\ ErrorsStep
     \/ part = "reporter" /\ ReporterStep
     \/ part = "recovery" /\ RecoveryStep
     \/ part = "routing" /\ RoutingStep

Spec == Init /\ [][Next]_vars /\ ErrorsFairness /\ RoutingFairness

-----------------------------------------------------------------------------
(***************************************************************************)
(* Every error is handled to the end although the handlers wait for one    *)
(* lock, and every routed record and stop() return                         *)
(* (printer_error_handler.py:252, data_flow_controller.py:216).            *)
(***************************************************************************)
PrintingEnds == ErrorsAreHandled /\ RoutingEnds

(***************************************************************************)
(* What was asked for is not lost: print jobs and their data, and the      *)
(* printer's status with its history (printer.py:291-310,                  *)
(* printer_status_reporter.py:187-205).                                    *)
(***************************************************************************)
NothingIsLost == JobsAreKept /\ StatusIsRecorded

-----------------------------------------------------------------------------
\* SCS records, with the cases that the buffer tells apart.
MCRecords ==
  { <<"a">>, <<"a", "LF", "b">>, <<"b", "FF">>, <<"order", "a", "CR", "b">>,
    <<"U", "S", "a">>, <<"b", "U">>, <<"S", "SOH", "a", "b">>, <<"pka", "HT", "b">>,
    <<"SOH", "pka">>, <<"a", "SOH">>, <<>>, <<"a", "T">>, <<"R", "b">>,
    <<"ctl", "ctl">>, <<"a", "b", "ctl">>, <<"1">>, <<"H", "b">> }
=============================================================================
