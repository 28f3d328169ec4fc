---------------------------- MODULE FileTransfer ----------------------------
(***************************************************************************)
(* IND$FILE (ind_file.py): the one IndFile of a session, its send() and    *)
(* receive() coroutines and the host's messages, which the data stream     *)
(* parser hands to handle_incoming_message() whenever they arrive.  Calls  *)
(* share active_transfer and _transfer_complete_event; an action is what   *)
(* runs between two awaits.                                                *)
(***************************************************************************)
EXTENDS Integers

CONSTANTS
  Transfers,      \* calls of send() and receive(), one transfer each
  MaxChunks,      \* bound: 4096-byte blocks of an uploaded file
  MaxIncoming     \* bound: messages from the host

ASSUME TransferAssumption == MaxChunks \in Nat /\ MaxIncoming \in Nat

None == "none"
ASSUME NoneAssumption == None \notin Transfers

VARIABLES
  up,          \* the session can send
  active,      \* IndFile.active_transfer
  attr,        \* the receive() whose event _transfer_complete_event is
  fired,       \* receive() calls whose event is set
  handles,     \* transfers with an open file_handle
  file,        \* the local file of a download: absent, partial or whole
  call,        \* where each call is suspended, or how it ended
  left,        \* blocks an upload has still to send
  incoming,    \* messages from the host so far
  hostError    \* history: downloads the host reported as failed

shared == <<active, attr, fired, handles, file>>
fileVars == <<shared, call, left, incoming, hostError>>

Uploading == {"request up", "data", "eof", "report"}
Downloading == {"request down", "wait"}
Over == {"returned up", "returned down", "raised"}

TypeOK ==
  /\ up \in BOOLEAN
  /\ active \in Transfers \cup {None}
  /\ attr \in Transfers \cup {None}
  /\ fired \subseteq Transfers
  /\ handles \subseteq Transfers
  /\ file \in [Transfers -> {"absent", "partial", "whole"}]
  /\ call \in [Transfers -> {"idle"} \cup Uploading \cup Downloading \cup Over]
  /\ left \in [Transfers -> 0..MaxChunks]
  /\ incoming \in 0..MaxIncoming
  /\ hostError \subseteq Transfers

FileInit ==
  /\ active = None
  /\ attr = None
  /\ fired = {}
  /\ handles = {}
  /\ file = [t \in Transfers |-> "absent"]
  /\ call = [t \in Transfers |-> "idle"]
  /\ left = [t \in Transfers |-> 0]
  /\ incoming = 0
  /\ hostError = {}

-----------------------------------------------------------------------------
(***************************************************************************)
(* IndFileTransfer.finish() and abort() of the active transfer, after      *)
(* which every caller clears active_transfer.                              *)
(***************************************************************************)
Goto(t, label) == call' = [call EXCEPT ![t] = label]

Clear ==
  /\ active' = None
  /\ handles' = handles \ {active}

\* finish() closes the file; only an EOF tells that all of it arrived.
Finish(complete) ==
  /\ Clear
  /\ file' = [t \in Transfers |->
       IF t = active /\ t \in handles /\ complete THEN "whole" ELSE file[t]]

\* abort() also removes the local file of a download.
Abort ==
  /\ Clear
  /\ file' = [t \in Transfers |->
       IF t = active /\ call[t] \notin Uploading THEN "absent" ELSE file[t]]

-----------------------------------------------------------------------------
(***************************************************************************)
(* send().                                                                 *)
(***************************************************************************)
\* A transfer is active, or the local file does not exist.
SendRefused(t) ==
  /\ call[t] = "idle"
  /\ Goto(t, "raised")
  /\ UNCHANGED <<up, shared, left, incoming, hostError>>

SendStart(t) ==
  /\ call[t] = "idle"
  /\ active = None
  /\ active' = t
  /\ Goto(t, "request up")
  /\ left' \in {[left EXCEPT ![t] = n] : n \in 0..MaxChunks}
  /\ UNCHANGED <<up, attr, fired, handles, file, incoming, hostError>>

\* The next message: a block while the file has one, then EOF.
Progress(t) ==
  /\ call[t] \in {"request up", "data"}
  /\ up
  /\ Goto(t, IF left[t] > 0 THEN "data" ELSE "eof")
  /\ left' = [left EXCEPT ![t] = IF left[t] > 0 THEN @ - 1 ELSE 0]
  /\ UNCHANGED <<up, shared, incoming, hostError>>

\* finally: whatever transfer is active by now is finished.
SendEnds(t) ==
  /\ call[t] = "eof"
  /\ up
  /\ Goto(t, "returned up")
  /\ Finish(FALSE)
  /\ UNCHANGED <<up, attr, fired, left, incoming, hostError>>

\* The session raises: abort, then the error message to the host is awaited.
SendFails(t) ==
  /\ call[t] \in {"request up", "data", "eof"}
  /\ ~up
  /\ Goto(t, "report")
  /\ Abort
  /\ UNCHANGED <<up, attr, fired, left, incoming, hostError>>

SendRaisesTrying(t) ==
  /\ call[t] = "report" /\ up
  /\ Goto(t, "raised")
  /\ Finish(FALSE)
  /\ UNCHANGED <<up, attr, fired, left, incoming, hostError>>

\* The report is sent or raises in its turn; the finally clause runs last.
SendRaises(t) ==
  /\ call[t] = "report"
  /\ Goto(t, "raised")
  /\ Finish(FALSE)
  /\ UNCHANGED <<up, attr, fired, left, incoming, hostError>>

-----------------------------------------------------------------------------
(***************************************************************************)
(* receive().                                                              *)
(***************************************************************************)
ReceiveRefused(t) ==
  /\ call[t] = "idle"
  /\ active # None
  /\ Goto(t, "raised")
  /\ UNCHANGED <<up, shared, left, incoming, hostError>>

\* start() cannot open the local file: abort, delete the event attribute.
ReceiveNoFile(t) ==
  /\ call[t] = "idle"
  /\ active = None
  /\ attr' = None
  /\ Goto(t, "raised")
  /\ UNCHANGED <<up, active, fired, handles, file, left, incoming, hostError>>

ReceiveStart(t) ==
  /\ call[t] = "idle"
  /\ active = None
  /\ active' = t
  /\ handles' = handles \cup {t}
  /\ file' = [file EXCEPT ![t] = "partial"]
  /\ Goto(t, "request down")
  /\ UNCHANGED <<up, attr, fired, left, incoming, hostError>>

\* The request is out: only now is there an event to set.
Requested(t) ==
  /\ call[t] = "request down"
  /\ up
  /\ attr' = t
  /\ Goto(t, "wait")
  /\ UNCHANGED <<up, active, fired, handles, file, left, incoming, hostError>>

Leave(t) ==
  /\ Goto(t, "raised")
  /\ attr' = None
  /\ UNCHANGED <<up, fired, left, incoming, hostError>>

ReceiveFailsKeeping(t) ==
  /\ \/ call[t] = "request down" /\ ~up
     \/ call[t] = "wait" /\ t \notin fired
  /\ Leave(t)
  /\ UNCHANGED <<active, handles, file>>

\* Sending fails, or 30 s pass without the event.
ReceiveFails(t) ==
  /\ \/ call[t] = "request down" /\ ~up
     \/ call[t] = "wait" /\ t \notin fired
  /\ Abort
  /\ Leave(t)

ReceiveReturns(t) ==
  /\ call[t] = "wait"
  /\ t \in fired
  /\ attr' = None
  /\ Goto(t, "returned down")
  /\ UNCHANGED <<up, active, fired, handles, file, left, incoming, hostError>>

-----------------------------------------------------------------------------
(***************************************************************************)
(* handle_incoming_message(): the message does not say which transfer it   *)
(* belongs to; it is taken for the active one.  Requests of the host are   *)
(* only logged, and DATA leaves a download partial.                        *)
(***************************************************************************)
Signal ==
  fired' = IF active # None /\ attr # None THEN fired \cup {attr} ELSE fired

IncomingEOF ==
  /\ IF active # None THEN Finish(TRUE) ELSE UNCHANGED <<active, handles, file>>
  /\ Signal
  /\ UNCHANGED hostError

\* ERROR, or an exception of the file system while the message is handled.
IncomingERROR ==
  /\ IF active # None THEN Abort ELSE UNCHANGED <<active, handles, file>>
  /\ Signal
  /\ hostError' = IF active # None THEN hostError \cup {active} ELSE hostError

IncomingDATA == UNCHANGED <<active, handles, file, fired, hostError>>

Incoming ==
  /\ up
  /\ incoming < MaxIncoming
  /\ incoming' = incoming + 1
  /\ IncomingEOF \/ IncomingERROR \/ IncomingDATA
  /\ UNCHANGED <<up, attr, call, left>>

-----------------------------------------------------------------------------
Steps(t) ==
  \/ Progress(t) \/ SendEnds(t) \/ SendFails(t) \/ SendRaises(t)
  \/ Requested(t) \/ ReceiveFails(t) \/ ReceiveReturns(t)

FileNext ==
  \/ \E t \in Transfers :
       SendRefused(t) \/ SendStart(t) \/ ReceiveRefused(t) \/ ReceiveNoFile(t)
       \/ ReceiveStart(t) \/ Steps(t)
  \/ Incoming

\* Awaited sends end, well or not, and the 30 s timer runs.
FileFairness == \A t \in Transfers : WF_fileVars(Steps(t))

-----------------------------------------------------------------------------
InProgress(t) == call[t] \in Uploading \cup Downloading

(***************************************************************************)
(* What the two calls share always belongs to a call that will still give  *)
(* it back: the active transfer's call is in progress and its completion   *)
(* event not yet set, only its file may be open, and the event attribute   *)
(* is that of a waiting receive().  Otherwise every later transfer is      *)
(* refused (ind_file.py:144, 195) or a file descriptor leaks.  Calls       *)
(* overlap once a host message has cleared active_transfer under a         *)
(* running one.                                                            *)
(***************************************************************************)
TransferIsOwned ==
  /\ active # None => InProgress(active) /\ active \notin fired
  /\ handles \subseteq {active}
  /\ attr # None => call[attr] = "wait"

(***************************************************************************)
(* send() and receive() end, whatever the host sends or omits              *)
(* (ind_file.py:188-191, 215).                                             *)
(***************************************************************************)
TransfersEnd == \A t \in Transfers : InProgress(t) ~> call[t] \in Over

(***************************************************************************)
(* docs/source/protocol.rst:87: "All errors are properly logged and can be *)
(* caught as IndFileError exceptions" - a receive() the host reported as   *)
(* failed does not return as if it had succeeded.                          *)
(***************************************************************************)
HostErrorIsRaised ==
  \A t \in hostError : call[t] # "returned down"
=============================================================================
