---------------------------- MODULE MCTestBench -----------------------------
(***************************************************************************)
(* The tools the library is tested with, side by side: the server that     *)
(* replays traces, the coordinator of such servers, the scripted mock      *)
(* host, the offline replayer, the stress tools.  A behaviour exercises    *)
(* one of them (tool).                                                     *)
(***************************************************************************)
EXTENDS ReplayServer, Coordinator, MockServer, Replayer, StressTests

VARIABLE tool

vars == <<tool, replayVars, clusterVars, mockVars, replayerVars, stressVars>>

Init ==
  /\ tool \in {"replay", "cluster", "test", "mock", "offline", "links", "stress"}
  /\ ReplayInit /\ ClusterInit /\ MockInit /\ ReplayerInit /\ StressInit
  /\ tool # "replay" => ~compat /\ ~looping /\ trace = <<>>

ReplayTool == ReplayNext /\ UNCHANGED <<clusterVars, mockVars, replayerVars, stressVars>>
ClusterTool == ClusterNext /\ UNCHANGED <<replayVars, mockVars, replayerVars, stressVars>>
TestTool == TestNext /\ UNCHANGED <<replayVars, mockVars, replayerVars, stressVars>>
MockTool == MockNext /\ UNCHANGED <<replayVars, clusterVars, replayerVars, stressVars>>
OfflineTool == ReplayerNext /\ UNCHANGED <<replayVars, clusterVars, mockVars, stressVars>>
LinkTool == LinkNext /\ UNCHANGED <<replayVars, clusterVars, mockVars, replayerVars>>
StressTool == StressNext /\ UNCHANGED <<replayVars, clusterVars, mockVars, replayerVars>>

Next ==
  /\ UNCHANGED tool
  /\ \/ tool = "replay" /\ ReplayTool
     \/ tool = "cluster" /\ ClusterTool
     \/ tool = "test" /\ TestTool
     \/ tool = "mock" /\ MockTool
     \/ tool = "offline" /\ OfflineTool
     \/ tool = "links" /\ LinkTool
     \/ tool = "stress" /\ StressTool

Spec == Init /\ [][Next]_vars /\ ClusterFairness /\ MockFairness

-----------------------------------------------------------------------------
(***************************************************************************)
(* The tools come to an end of what they started: failed servers do not    *)
(* stay failed under failover, distributed tests end without leaving a     *)
(* process behind, scripted sessions and stop() end                        *)
(* (multi_server_coordinator.py:345, 454, tn3270_mock_server.py:141-189).  *)
(***************************************************************************)
BenchEnds == (tool = "cluster" => FailedAreRestarted) /\ TestsEnd /\ ScriptsEnd

-----------------------------------------------------------------------------
\* The traces of the two replay tools.
MCTraces == {<<>>, <<"read", "option", "host">>, <<"host", "client", "host">>,
             <<"option", "host", "other", "host", "client">>}

\* Lines that can follow each other in many ways, and what they may start.
MCLines ==
  {OtherLine, BlankLine}
    \cup [dir : {"<", ">"}, off : {0, 2, 4}, len : {2}, head : {"write"}]
    \cup [dir : {"<"}, off : {0}, len : {3, 6}, head : {"accept", "refuse", "telnet", "envelope"}]

MCFiles == [size : {0}, lines : UNION {[1..n -> MCLines] : n \in 0..3}]
             \cup [size : {43}, lines : {<<>>}]
=============================================================================
