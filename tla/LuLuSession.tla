---------------------------- MODULE LuLuSession ----------------------------
(***************************************************************************)
(* LuLuSession (lu_lu_session.py): BIND, a queue of inbound records,       *)
(* UNBIND.  start() sends BIND, sleeps and takes the session for active    *)
(* without looking at an answer; end() empties the queue.                  *)
(***************************************************************************)
EXTENDS Integers, Sequences

CONSTANTS
  Users,          \* tasks that call start(), end(), receive_data()
  MaxQueue        \* bound: records waiting (the code's queue is unbounded)

VARIABLES
  up,             \* the session can send
  is_active,      \* LuLuSession.is_active
  epoch,          \* history: parity of the UNBINDs so far
  queue,          \* _data_queue, each record tagged with the epoch it came in
  user            \* where each task is suspended

LuInit ==
  /\ is_active = FALSE
  /\ epoch = 0
  /\ queue = <<>>
  /\ user = [u \in Users |-> "idle"]

At(u, label) == user[u] = label
Move(u, from, to) == At(u, from) /\ user' = [user EXCEPT ![u] = to]

Start(u) ==
  /\ Move(u, "idle", "bind")
  /\ UNCHANGED <<up, is_active, epoch, queue>>

\* BIND is out and 0.1 s have passed.
Started(u) ==
  /\ Move(u, "bind", "idle")
  /\ up
  /\ is_active' = TRUE
  /\ UNCHANGED <<up, epoch, queue>>

End(u) ==
  /\ is_active
  /\ Move(u, "idle", "unbind")
  /\ UNCHANGED <<up, is_active, epoch, queue>>

\* UNBIND is out: inactive, and the queue emptied in the same step.
EndedUndrained(u) ==
  /\ Move(u, "unbind", "idle")
  /\ up
  /\ is_active' = FALSE
  /\ epoch' = 1 - epoch
  /\ UNCHANGED <<up, queue>>

Ended(u) ==
  /\ Move(u, "unbind", "idle")
  /\ up
  /\ is_active' = FALSE
  /\ epoch' = 1 - epoch
  /\ queue' = <<>>
  /\ UNCHANGED up

\* send() of the session raises.
LuSendFails(u) ==
  /\ ~up
  /\ Move(u, "bind", "idle") \/ Move(u, "unbind", "idle")
  /\ UNCHANGED <<up, is_active, epoch, queue>>

SendOrReceive(u) ==
  /\ is_active
  /\ Move(u, "idle", "get")
  /\ UNCHANGED <<up, is_active, epoch, queue>>

Received(u) ==
  /\ Move(u, "get", "idle")
  /\ queue # <<>>
  /\ queue' = Tail(queue)
  /\ UNCHANGED <<up, is_active, epoch>>

\* 30 s pass: b"" is returned.
NothingReceived(u) ==
  /\ Move(u, "get", "idle")
  /\ queue = <<>>
  /\ UNCHANGED <<up, is_active, epoch, queue>>

\* handle_inbound_3270ds().
Inbound ==
  /\ is_active
  /\ Len(queue) < MaxQueue
  /\ queue' = Append(queue, epoch)
  /\ UNCHANGED <<up, is_active, epoch, user>>

LuSteps(u) ==
  \/ Started(u) \/ Ended(u) \/ LuSendFails(u)
  \/ Received(u) \/ NothingReceived(u)

LuNext ==
  \/ \E u \in Users : Start(u) \/ End(u) \/ SendOrReceive(u) \/ LuSteps(u)
  \/ Inbound

(***************************************************************************)
(* A record received in one LU-LU session is never delivered in a later    *)
(* one, although start(), end() and receive_data() of several tasks        *)
(* overlap (lu_lu_session.py:47-57).                                       *)
(***************************************************************************)
NoRecordOutlivesItsSession ==
  \A i \in 1..Len(queue) : is_active /\ queue[i] = epoch
=============================================================================
