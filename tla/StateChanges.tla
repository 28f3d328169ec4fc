---------------------------- MODULE StateChanges ----------------------------
(***************************************************************************)
(* State changes as TN3270Handler serialises and announces them            *)
(* (tn3270_handler.py): _change_state() holds the non-reentrant            *)
(* _state_lock while it changes the state, sets and clears the events of   *)
(* wait_for_state() and awaits the registered callbacks; with _auto_recover*)
(* an ERROR starts a recovery task, which asks for RECOVERING.             *)
(*                                                                         *)
(* A callback may suspend; one that asks for a change of state would wait  *)
(* for the lock its caller holds, and is not registered here.              *)
(***************************************************************************)
EXTENDS Integers, Sequences, HandlerStates

CONSTANTS
  Changers,     \* tasks that change the state
  Targets,      \* states they ask for
  MaxChanges    \* changes they ask for

Recovery == "recovery"   \* stands for every recovery task

VARIABLES
  hstate,     \* _current_state
  holder,     \* who holds _state_lock
  queue,      \* who waits for it, and the state asked for: first come, first served
  callback,   \* none, returns (or raises, which is swallowed) or suspends
  autoRecover,\* _auto_recover
  event,      \* [state -> its event: absent, set or clear]
  changes     \* changes asked for

changeVars == <<hstate, holder, queue, callback, autoRecover, event, changes>>

ChangesInit ==
  /\ hstate \in {"DISCONNECTED", "CONNECTED"}
  /\ holder = "nobody"
  /\ queue = <<>>
  /\ callback \in {"none", "returns", "suspends"}
  /\ autoRecover \in BOOLEAN
  /\ event = [s \in HandlerState |-> "absent"]
  /\ changes = 0

Waiting(t) == \E i \in 1..Len(queue) : queue[i][1] = t

-----------------------------------------------------------------------------
Ask(t, to) ==
  /\ changes < MaxChanges
  /\ holder # t /\ ~Waiting(t)
  /\ changes' = changes + 1
  /\ queue' = Append(queue, <<t, to>>)
  /\ UNCHANGED <<hstate, holder, callback, autoRecover, event>>

\* _signal_state_change(), up to the callbacks.
Signal(from, to) ==
  event' = [s \in HandlerState |->
              IF event[s] = "absent" THEN "absent"
              ELSE IF s = from THEN "clear" ELSE IF s = to THEN "set" ELSE event[s]]

\* Mutant: recording the transition takes the lock a second time.
AcquireRelocks ==
  /\ holder = "nobody" /\ queue # <<>>
  /\ holder' = Head(queue)[1]
  /\ queue' = Tail(queue)
  /\ UNCHANGED <<hstate, callback, autoRecover, event, changes>>

\* _change_state() gets the lock and runs until a callback suspends.  A
\* refused change announces ERROR, unless the state is ERROR already.
Acquire ==
  LET t == Head(queue)[1]
      new == ChangeState(hstate, Head(queue)[2], TRUE)
      changed == new # hstate
  IN  /\ holder = "nobody" /\ queue # <<>>
      /\ hstate' = new
      /\ IF changed THEN Signal(hstate, new) ELSE UNCHANGED event
      /\ queue' = IF changed /\ new = "ERROR" /\ autoRecover
                    THEN Append(Tail(queue), <<Recovery, "RECOVERING">>) ELSE Tail(queue)
      /\ holder' = IF changed /\ callback = "suspends" THEN t ELSE "nobody"
      /\ UNCHANGED <<callback, autoRecover, changes>>

\* _trigger_state_change_callbacks() is over, and with it the change.
CallbacksEnd ==
  /\ callback = "suspends" /\ holder # "nobody"
  /\ holder' = "nobody"
  /\ UNCHANGED <<hstate, queue, callback, autoRecover, event, changes>>

WaitForState(s) ==
  /\ event[s] = "absent"
  /\ event' = [event EXCEPT ![s] = "clear"]
  /\ UNCHANGED <<hstate, holder, queue, callback, autoRecover, changes>>

ChangesNext ==
  \/ \E t \in Changers, to \in Targets : Ask(t, to)
  \/ Acquire \/ CallbacksEnd
  \/ \E s \in Targets \cup {"ERROR"} : WaitForState(s)

\* The loop runs whoever gets the lock, and callbacks end.
ChangesFairness == WF_changeVars(Acquire) /\ WF_changeVars(CallbacksEnd)

-----------------------------------------------------------------------------

(***************************************************************************)
(* No change of state waits forever for the lock, also when ERROR starts   *)
(* recoveries that are themselves refused and start more                   *)
(* (tn3270_handler.py:1123, 1252-1254, 1404-1442, 1838-1875).              *)
(***************************************************************************)
ChangesEnd == <>[](queue = <<>> /\ holder = "nobody")
=============================================================================
