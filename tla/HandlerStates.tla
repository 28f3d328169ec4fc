--------------------------- MODULE HandlerStates ---------------------------
(***************************************************************************)
(* The state vocabulary of TN3270Handler (protocol/tn3270_handler.py): the *)
(* HandlerState constants, the table of allowed transitions, and what one  *)
(* call of _change_state does to the current state.                        *)
(***************************************************************************)

HandlerState == {"DISCONNECTED", "CONNECTING", "NEGOTIATING", "CONNECTED",
                 "ASCII_MODE", "TN3270_MODE", "ERROR", "RECOVERING",
                 "CLOSING"}

ValidTransitions ==
       {"DISCONNECTED"} \X {"CONNECTING", "CLOSING", "CONNECTED"}
  \cup {"CONNECTING"}   \X {"NEGOTIATING", "CLOSING", "ERROR", "DISCONNECTED"}
  \cup {"NEGOTIATING"}  \X {"CONNECTED", "ASCII_MODE", "TN3270_MODE",
                            "CLOSING", "ERROR"}
  \cup {"CONNECTED"}    \X {"TN3270_MODE", "ASCII_MODE", "ERROR", "CLOSING"}
  \cup {"ASCII_MODE"}   \X {"CONNECTED", "ERROR", "CLOSING"}
  \cup {"TN3270_MODE"}  \X {"CONNECTED", "ERROR", "CLOSING"}
  \cup {"ERROR"}        \X {"RECOVERING", "DISCONNECTED", "CLOSING"}
  \cup {"RECOVERING"}   \X {"CONNECTED", "ERROR", "DISCONNECTED"}
  \cup {"CLOSING"}      \X {"DISCONNECTED", "ERROR"}

(***************************************************************************)
(* The outcome of _change_state(to) in state from, when the state-specific *)
(* preconditions of _validate_state_consistency hold or not: a refused     *)
(* transition raises and leaves the handler in ERROR.                      *)
(***************************************************************************)
Allowed(from, to, consistent) ==
  <<from, to>> \in ValidTransitions /\ consistent

\* Mutant: the transition is made whatever the validation says.
ChangeStateUnchecked(from, to, consistent) == to

ChangeState(from, to, consistent) ==
  IF Allowed(from, to, consistent) THEN to ELSE "ERROR"
=============================================================================
