----------------------------- MODULE Exchanges -----------------------------
(***************************************************************************)
(* The two host exchanges an AsyncSession offers besides the screen,       *)
(* IND$FILE transfers and an LU-LU session, over one connection that can   *)
(* break: every send of either raises from then on (session.py:1535-1553). *)
(***************************************************************************)
EXTENDS FileTransfer

CONSTANTS Users, MaxQueue

ASSUME QueueAssumption == MaxQueue \in Nat

VARIABLES is_active, epoch, queue, user

LU == INSTANCE LuLuSession

exchangeVars == <<up, fileVars, is_active, epoch, queue, user>>

Init == up = TRUE /\ FileInit /\ LU!LuInit

\* The connection breaks: the session's sends raise from now on.
Break ==
  /\ up
  /\ up' = FALSE
  /\ UNCHANGED <<fileVars, is_active, epoch, queue, user>>

Next ==
  \/ FileNext /\ UNCHANGED <<is_active, epoch, queue, user>>
  \/ LU!LuNext /\ UNCHANGED fileVars
  \/ Break

Spec == Init /\ [][Next]_exchangeVars
FairSpec == Spec /\ FileFairness

NoRecordOutlivesItsSession == LU!NoRecordOutlivesItsSession
=============================================================================
