--------------------------- MODULE HandlerPromise ---------------------------
(***************************************************************************)
(* What a TN3270Handler promises to the session that owns it, whatever the *)
(* tasks inside it do: the abstraction that Handler implements and that    *)
(* Session is built on.  The nine handler states are seen as five.         *)
(***************************************************************************)
VARIABLES
  link,   \* "down", "attempt", "live", "failed" or "closing"
  up      \* the handler's transport has an open socket

promiseVars == <<link, up>>

Init == link = "down" /\ up = FALSE

\* connect() starts an attempt on a handler that is down, and on no other.
Dial == link = "down" /\ link' = "attempt" /\ UNCHANGED up

\* The socket of the current transport opens, also for an attempt that
\* another task has spoiled meanwhile.
Reach == link \in {"attempt", "failed"} /\ up' = TRUE /\ UNCHANGED link

\* Only an attempt whose socket is open becomes a live session.
Settle == link = "attempt" /\ up /\ link' = "live" /\ UNCHANGED up

\* Any failing or refused call leaves "failed".
Break == link' = "failed" /\ UNCHANGED up

\* Only close() leaves "failed" or "live" for good; it gives up the socket.
Close == link' \in {"closing", "down"} /\ up' = FALSE

Next == Dial \/ Reach \/ Settle \/ Break \/ Close

\* An attempt and a close() come to an end.
Leave(phase) == link = phase /\ Next /\ link' # phase

Spec == Init /\ [][Next]_promiseVars
FairSpec == /\ Spec
            /\ WF_promiseVars(Leave("attempt"))
            /\ WF_promiseVars(Leave("closing"))
=============================================================================
