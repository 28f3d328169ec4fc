----------------------------- MODULE MockServer -----------------------------
(***************************************************************************)
(* The scripted host of the tests (mock_server/tn3270_mock_server.py): it  *)
(* runs its own loop in its own thread, plays one negotiation to each      *)
(* client, and is stopped from the thread of the test.                     *)
(***************************************************************************)
EXTENDS Integers, Sequences, FiniteSets

CONSTANT Clients   \* connections to the mock server

VARIABLES
  thread,      \* the server's loop: none, starting, running, closing or stopped
  startCall,   \* start_threaded(): not called, waiting, returned or raised
  stopCall,    \* stop(): not called, sleeping, joining or returned
  client,      \* [client -> its handle_client()]
  tasks        \* _client_tasks

mockVars == <<thread, startCall, stopCall, client, tasks>>

\* What handle_client() writes, in its order, and behind which of its writes
\* it waits for an answer.  What it records for the test is left out.
Script == <<"will ttype", "will eor", "will tn3270e", "ttype send", "device type",
            "device type is", "functions", "data">>
Asks == {4, 5, 7}

Fresh == [pc |-> "none", step |-> 1]

MockInit ==
  /\ thread = "none" /\ startCall = "idle" /\ stopCall = "idle"
  /\ client = [c \in Clients |-> Fresh]
  /\ tasks = {}

-----------------------------------------------------------------------------
\* start_threaded(): once per server; it waits for the thread.
StartThreaded ==
  /\ startCall = "idle"
  /\ startCall' = "waiting" /\ thread' = "starting"
  /\ UNCHANGED <<stopCall, client, tasks>>

\* _start_in_loop(): the socket listens, the event is set, run_forever().
StartInLoop ==
  /\ thread = "starting"
  /\ thread' = "running"
  /\ UNCHANGED <<startCall, stopCall, client, tasks>>

\* The wait ends with the event, or after five seconds without it.
StarterReturns ==
  /\ startCall = "waiting"
  /\ startCall' = IF thread = "starting" THEN "raised" ELSE "returned"
  /\ UNCHANGED <<thread, stopCall, client, tasks>>

-----------------------------------------------------------------------------
Connect(c) ==
  /\ thread = "running" /\ client[c].pc = "none"
  /\ client' = [client EXCEPT ![c].pc = "accepted"]
  /\ UNCHANGED <<thread, startCall, stopCall, tasks>>

\* handle_client(): the task lists itself.
HandleClient(c) ==
  /\ thread \in {"running", "closing"} /\ client[c].pc = "accepted"
  /\ client' = [client EXCEPT ![c].pc = "writes"]
  /\ tasks' = tasks \cup {c}
  /\ UNCHANGED <<thread, startCall, stopCall>>

Runs(c) == thread \in {"running", "closing"} /\ client[c].pc \in {"writes", "reads", "idles"}

\* _send(), drain() and the pause: the next step of the script.
Send(c) ==
  /\ Runs(c) /\ client[c].pc = "writes"
  /\ client' = [client EXCEPT ![c].pc = IF client[c].step \in Asks THEN "reads"
                                        ELSE IF client[c].step = Len(Script) THEN "idles" ELSE @,
                              ![c].step = @ + 1]
  /\ UNCHANGED <<thread, startCall, stopCall, tasks>>

\* readuntil() under wait_for(): an answer, or none in time; only an answer to
\* the device type is acknowledged.
Read(c, answered) ==
  /\ Runs(c) /\ client[c].pc = "reads"
  /\ client' = [client EXCEPT ![c].pc = "writes",
                              ![c].step = IF Script[@] = "device type is" /\ ~answered
                                          THEN @ + 1 ELSE @]
  /\ UNCHANGED <<thread, startCall, stopCall, tasks>>

\* Behind the script whatever the client says is read and forgotten.
ClientTalks(c) ==
  /\ Runs(c) /\ client[c].pc = "idles"
  /\ UNCHANGED mockVars

\* End of file, or 30 seconds of silence.
ClientDone(c) ==
  /\ Runs(c) /\ client[c].pc = "idles"
  /\ client' = [client EXCEPT ![c].pc = "done"]
  /\ tasks' = tasks \ {c}
  /\ UNCHANGED <<thread, startCall, stopCall>>

\* A write to a client that is gone, or the task was cancelled.
ClientFails(c) ==
  /\ thread # "stopped"
  /\ client[c].pc \in {"writes", "cancelled"}
  /\ client' = [client EXCEPT ![c].pc = "done"]
  /\ tasks' = tasks \ {c}
  /\ UNCHANGED <<thread, startCall, stopCall>>

-----------------------------------------------------------------------------
\* stop(): nothing unless the server listens.
StopCalled ==
  /\ startCall \in {"returned", "raised"} /\ stopCall = "idle" /\ thread = "running"
  /\ stopCall' = "sleeping"
  /\ UNCHANGED <<thread, startCall, client, tasks>>

\* _cancel_client_tasks(), in the server's loop: the tasks on the list.
CancelClientTasks ==
  /\ stopCall = "sleeping" /\ thread = "running"
  /\ client' = [c \in Clients |-> IF c \in tasks THEN [client[c] EXCEPT !.pc = "cancelled"]
                                  ELSE client[c]]
  /\ tasks' = {}
  /\ thread' = "closing"
  /\ UNCHANGED <<startCall, stopCall>>

\* The tenth of a second lets every cancelled task run its finally clause.
LoopStops ==
  /\ stopCall = "sleeping" /\ thread = "closing"
  /\ \A c \in Clients : client[c].pc # "cancelled"
  /\ stopCall' = "joining" /\ thread' = "stopped"
  /\ UNCHANGED <<startCall, client, tasks>>

StopReturns ==
  /\ stopCall = "joining"
  /\ stopCall' = "returned"
  /\ UNCHANGED <<thread, startCall, client, tasks>>

ClientStep(c) ==
  HandleClient(c) \/ Send(c) \/ Read(c, FALSE) \/ ClientFails(c)

StopStep == CancelClientTasks \/ LoopStops \/ StopReturns

MockNext ==
  \/ StartThreaded \/ StartInLoop \/ StarterReturns \/ StopCalled \/ StopStep
  \/ \E c \in Clients : Connect(c) \/ ClientStep(c) \/ Read(c, TRUE) \/ ClientTalks(c) \/ ClientDone(c)

\* The loop of the server runs its tasks, every read of the script has a
\* timeout, the thread of the test goes on.
MockFairness ==
  /\ WF_mockVars(StartInLoop) /\ WF_mockVars(StarterReturns) /\ WF_mockVars(StopStep)
  /\ \A c \in Clients : WF_mockVars(ClientStep(c))

-----------------------------------------------------------------------------
(***************************************************************************)
(* A client that is served while the server runs gets to the end of the    *)
(* script, answering or not, or fails; and stop() returns                  *)
(* (tn3270_mock_server.py:165-189, 283-480).                               *)
(***************************************************************************)
ScriptsEnd ==
  /\ \A c \in Clients :
       client[c].pc = "accepted" ~> client[c].pc \in {"idles", "done"} \/ thread = "stopped"
  /\ stopCall = "sleeping" ~> stopCall = "returned"
=============================================================================
