--------------------------- MODULE SessionProofs ---------------------------
(***************************************************************************)
(* An AsyncSession and its handlers, for any number of tasks, handlers,    *)
(* calls and polls.                                                        *)
(*                                                                         *)
(* That the session drives every handler as HandlerPromise allows needs    *)
(* two facts about handlers: those not made yet are untouched, and one     *)
(* that some close() awaits is neither dialling nor open.  It holds for    *)
(* any number of controlling tasks.  NoOrphans is about an application     *)
(* with one controlling task, and rests on what that task has left in      *)
(* self._handler at each of its awaits.                                    *)
(***************************************************************************)
EXTENDS Session, TLAPS

Links == {"down", "attempt", "live", "failed", "closing"}
Methods == {"none", "connect", "close", "reconnect", "send", "key", "sysreq",
            "emptykey", "read", "wait"}
ControlLabels == {"open", "dial", "fallback", "warmup", "backoff", "close",
                  "closing"}
Labels == {"idle", "sending", "reading", "waiting"} \cup ControlLabels
Tasks == [call : Methods, pc : Labels, tries : Nat, at : Nat]

SessionTypeOK ==
  /\ handler \in Nat /\ made \in Nat
  /\ connected \in BOOLEAN /\ fallback \in BOOLEAN /\ gone \in BOOLEAN
  /\ link \in [Handlers -> Links]
  /\ up \in [Handlers -> BOOLEAN]
  /\ task \in [Callers -> Tasks]
  /\ rd \in [Handlers -> {"none", "run", "done"}]
  /\ polls \in [Handlers -> Nat]
  /\ calls \in Nat
  /\ dropped \subseteq Nat

\* The session knows only handlers that were made; the others are untouched.
OnlyMade ==
  /\ handler <= made
  /\ made <= MaxHandlers
  /\ \A h \in Handlers : h > made => link[h] = "down" /\ ~up[h]

\* A handler that a close() awaits is neither dialling nor open.
ClosingIsQuiet ==
  \A c \in Callers :
    At(c, "closing") => /\ task[c].at \in 1..made
                        /\ link[task[c].at] # "attempt"
                        /\ ~up[task[c].at]

HandlersInv == SessionTypeOK /\ OnlyMade /\ ClosingIsQuiet

(***************************************************************************)
(* What one controlling task has arranged when it is suspended: only it is *)
(* inside connect(), close() or reconnect(); reconnect() connects with     *)
(* self._handler unset; close() awaits self._handler and no other.  When   *)
(* the object is finalized, all that is left is a close() for its handler. *)
(***************************************************************************)
OneControls ==
  \A c \in Callers : task[c].pc \in ControlLabels => c \in Controllers

ReconnectsUnset ==
  \A c \in Callers :
    At(c, "open") /\ task[c].call # "connect" => handler = NoHandler

ClosesCurrent ==
  \A c \in Callers : At(c, "closing") => task[c].at = handler

GoneIsClosing ==
  gone => /\ \A c \in Callers :
               \/ At(c, "idle")
               \/ task[c].call = "close" /\ task[c].pc \in {"close", "closing"}
          /\ handler # NoHandler => \E c \in Callers : ~At(c, "idle")

SessionInv == /\ HandlersInv
              /\ OneControls /\ ReconnectsUnset /\ ClosesCurrent
              /\ GoneIsClosing /\ NoOrphans

-----------------------------------------------------------------------------
\* What a task may become: the methods only move between the known awaits.
LEMMA TaskType ==
  ASSUME SessionTypeOK, NEW c \in Callers,
         \/ NewCall(c) \/ CallStep(c)
  PROVE  task' \in [Callers -> Tasks]
  <1> USE DEF SessionTypeOK, Tasks, Methods, Labels, ControlLabels, Idle,
              Enter, Goto, Return, AwaitHandler, At
  <1>1. CASE NewCall(c)
    BY <1>1 DEF NewCall, ConnectCall, CloseCall, ReconnectCall, SendCall,
                ReadCall, WaitCall, SendMethods, NoHandler
  <1>2. CASE OpenFails(c) \/ DialFails(c)
    <2>1. Raise(c)
      BY <1>2 DEF OpenFails, DialFails
    <2> QED
      BY <2>1 DEF Raise, NoHandler
  <1>3. CASE Opened(c)
    <2>1. PICK n \in Nat : task' = [task EXCEPT ![c].pc = "dial", ![c].at = n]
      BY <1>3, made + 1 \in Nat DEF Opened
    <2>2. [task[c] EXCEPT !.pc = "dial", !.at = n] \in Tasks
      OBVIOUS
    <2>3. task' = [task EXCEPT ![c] = [task[c] EXCEPT !.pc = "dial", !.at = n]]
      BY <2>1
    <2> QED
      BY <2>2, <2>3
  <1>4. CASE Dialed(c) \/ FallBack(c) \/ FallenBack(c) \/ WarmedUp(c)
    BY <1>4 DEF Dialed, FallBack, FallenBack, WarmedUp, Connected, NoHandler
  <1>5. CASE BackedOff(c) \/ CloseStart(c) \/ CloseDone(c)
    BY <1>5 DEF BackedOff, CloseStart, CloseDone, AfterClose, NoHandler
  <1>6. CASE Sent(c) \/ SendFails(c)
    BY <1>6 DEF Sent, SendFails, NoHandler
  <1>7. CASE ReadDone(c) \/ ReadTimesOut(c) \/ WaitEnds(c)
    BY <1>7 DEF ReadDone, ReadTimesOut, WaitEnds, NoHandler
  <1> QED
    BY <1>1, <1>2, <1>3, <1>4, <1>5, <1>6, <1>7 DEF CallStep

\* A task's step is its own.
LEMMA OtherTasks ==
  ASSUME SessionTypeOK, NEW c \in Callers, NewCall(c) \/ CallStep(c),
         NEW d \in Callers, d # c
  PROVE  task'[d] = task[d]
  <1> USE DEF SessionTypeOK, Enter, Goto, Return, AwaitHandler
  <1>1. CASE NewCall(c)
    BY <1>1 DEF NewCall, ConnectCall, CloseCall, ReconnectCall, SendCall,
                ReadCall, WaitCall
  <1>2. CASE OpenFails(c) \/ DialFails(c) \/ Opened(c)
    BY <1>2 DEF OpenFails, DialFails, Opened, Raise
  <1>3. CASE Dialed(c) \/ FallBack(c) \/ FallenBack(c) \/ WarmedUp(c)
    BY <1>3 DEF Dialed, FallBack, FallenBack, WarmedUp, Connected
  <1>4. CASE BackedOff(c) \/ CloseStart(c) \/ CloseDone(c)
    BY <1>4 DEF BackedOff, CloseStart, CloseDone, AfterClose
  <1>5. CASE Sent(c) \/ SendFails(c)
    BY <1>5 DEF Sent, SendFails
  <1>6. CASE ReadDone(c) \/ ReadTimesOut(c) \/ WaitEnds(c)
    BY <1>6 DEF ReadDone, ReadTimesOut, WaitEnds
  <1> QED
    BY <1>1, <1>2, <1>3, <1>4, <1>5, <1>6 DEF CallStep

(***************************************************************************)
(* The steps that leave the handlers, the readers and self._handler alone, *)
(* and the tasks they lead to.                                             *)
(***************************************************************************)
QuietCall(c) ==
  \/ OpenFails(c) \/ Dialed(c) \/ FallBack(c) \/ DialFails(c) \/ FallenBack(c)
  \/ BackedOff(c) \/ Sent(c) \/ SendFails(c) \/ ReadDone(c) \/ ReadTimesOut(c)
  \/ WaitEnds(c)

Quiet(c) ==
  /\ UNCHANGED <<handler, made, link, up, rd, dropped, gone>>
  /\ task'[c].pc \in Labels \ {"closing"}
  /\ task'[c].pc = "open" => task'[c].call = "connect"
  /\ task'[c].pc \in ControlLabels =>
       c \in Controllers \/ task[c].pc \in ControlLabels
  /\ gone => task[c].pc \notin {"idle", "close", "closing"}

\* New calls and most steps of calls are of that kind.
LEMMA QuietSteps ==
  ASSUME SessionTypeOK, NEW c \in Callers,
         NewCall(c) \/ (QuietCall(c) /\ UNCHANGED gone)
  PROVE  Quiet(c)
  <1> USE DEF SessionTypeOK, Tasks, Labels, ControlLabels, Idle, Enter, Goto,
              Return, AwaitHandler, At, Quiet, own, handlers, readers
  <1>1. CASE NewCall(c)
    BY <1>1 DEF NewCall, ConnectCall, CloseCall, ReconnectCall, SendCall,
                ReadCall, WaitCall
  <1> SUFFICES ASSUME QuietCall(c), UNCHANGED gone PROVE Quiet(c)
    BY <1>1
  <1>2. CASE OpenFails(c)
    BY <1>2 DEF OpenFails, Raise
  <1>3. CASE DialFails(c)
    BY <1>3 DEF DialFails, Raise, Refused
  <1>4. CASE Dialed(c) \/ FallBack(c) \/ FallenBack(c)
    BY <1>4 DEF Dialed, FallBack, FallenBack, Connected, Refused
  <1>5. CASE BackedOff(c)
    BY <1>5 DEF BackedOff
  <1>6. CASE Sent(c) \/ SendFails(c)
    BY <1>6 DEF Sent, SendFails
  <1>7. CASE ReadDone(c) \/ ReadTimesOut(c) \/ WaitEnds(c)
    BY <1>7 DEF ReadDone, ReadTimesOut, WaitEnds
  <1> QED
    BY <1>2, <1>3, <1>4, <1>5, <1>6, <1>7 DEF QuietCall

-----------------------------------------------------------------------------
\* Every step keeps the types.
LEMMA NextType ==
  ASSUME HandlersInv, [Next]_vars
  PROVE  SessionTypeOK'
  <1> USE SessionAssumption DEF HandlersInv, SessionTypeOK, Handlers, NoHandler
  <1>1. ASSUME NEW c \in Callers, NewCall(c)
        PROVE  SessionTypeOK'
    <2>1. task' \in [Callers -> Tasks]
      BY <1>1, TaskType
    <2>2. /\ UNCHANGED <<own, handlers, readers, dropped, gone>>
          /\ calls' = calls + 1
      BY <1>1 DEF NewCall, ConnectCall, CloseCall, ReconnectCall, SendCall,
                  ReadCall, WaitCall, Enter
    <2> QED
      BY <2>1, <2>2 DEF own, handlers, readers
  <1>2. ASSUME NEW c \in Callers, CallStep(c)
        PROVE  SessionTypeOK'
    <2>1. task' \in [Callers -> Tasks]
      BY <1>2, TaskType
    <2>2. CASE QuietCall(c)
      BY <1>2, <2>1, <2>2
      DEF CallStep, QuietCall, OpenFails, Dialed, FallBack, DialFails,
          FallenBack, BackedOff, Sent, SendFails, ReadDone, ReadTimesOut,
          WaitEnds, Connected, own, handlers, readers
    <2>3. CASE Opened(c)
      BY <1>2, <2>1, <2>3 DEF CallStep, Opened, Links, readers
    <2>4. CASE WarmedUp(c)
      BY <1>2, <2>1, <2>4 DEF CallStep, WarmedUp, own, handlers
    <2>5. CASE CloseStart(c)
      BY <1>2, <2>1, <2>5 DEF CallStep, CloseStart, Links, readers
    <2>6. CASE CloseDone(c)
      BY <1>2, <2>1, <2>6 DEF CallStep, CloseDone, Released, Links
    <2> QED
      BY <1>2, <2>2, <2>3, <2>4, <2>5, <2>6 DEF CallStep, QuietCall
  <1>3. ASSUME NEW h \in Handlers, HandlerStep(h) \/ Poll(h)
        PROVE  SessionTypeOK'
    <2>1. CASE HandlerStep(h)
      BY <2>1 DEF HandlerStep, Links, own, readers
    <2>2. CASE Poll(h)
      BY <2>2 DEF Poll, own, handlers
    <2> QED
      BY <1>3, <2>1, <2>2
  <1>4. CASE Finalize
    <2>1. [Idle EXCEPT !.call = "close", !.pc = "close"] \in Tasks
      BY DEF Idle, Tasks, Labels, ControlLabels, Methods
    <2>2. task' \in [Callers -> Tasks]
      BY <1>4, <2>1 DEF Finalize
    <2> QED
      BY <1>4, <2>2 DEF Finalize, own, handlers, readers
  <1>5. CASE UNCHANGED vars
    BY <1>5 DEF vars
  <1> QED
    BY <1>1, <1>2, <1>3, <1>4, <1>5 DEF Next

\* Every step keeps what is known about the handlers.
LEMMA NextHandlers == HandlersInv /\ [Next]_vars => HandlersInv'
  <1> SUFFICES ASSUME HandlersInv, [Next]_vars PROVE HandlersInv'
    OBVIOUS
  <1>1. SessionTypeOK /\ SessionTypeOK'
    BY NextType DEF HandlersInv
  <1> USE SessionAssumption DEF HandlersInv, OnlyMade, ClosingIsQuiet, Handlers,
          NoHandler, At
  <1>2. ASSUME NEW c \in Callers, NewCall(c) \/ CallStep(c), Quiet(c)
        PROVE  HandlersInv'
    <2>1. \A d \in Callers : task'[d].pc = "closing" => task'[d] = task[d]
      BY <1>1, <1>2, OtherTasks DEF Quiet
    <2> QED
      BY <1>1, <1>2, <2>1 DEF Quiet
  <1>3. ASSUME NEW c \in Callers, NewCall(c)
        PROVE  HandlersInv'
    BY <1>1, <1>2, <1>3, QuietSteps
  <1>4. ASSUME NEW c \in Callers, CallStep(c)
        PROVE  HandlersInv'
    <2>1. UNCHANGED gone
      BY <1>4 DEF CallStep
    <2>2. CASE QuietCall(c)
      BY <1>1, <1>2, <1>4, <2>1, <2>2, QuietSteps
    <2>3. CASE Opened(c)
      <3>1. task'[c].pc = "dial"
        BY <1>1, <2>3 DEF SessionTypeOK, Tasks, Opened
      <3>2. \A d \in Callers : task'[d].pc = "closing" => task'[d] = task[d]
        BY <1>1, <1>4, <3>1, OtherTasks
      <3> QED
        BY <1>1, <2>3, <3>2 DEF Opened, SessionTypeOK
    <2>4. CASE WarmedUp(c)
      <3>1. task'[c].pc = "idle"
        BY <1>1, <2>4 DEF SessionTypeOK, WarmedUp, Return, Idle
      <3>2. \A d \in Callers : task'[d].pc = "closing" => task'[d] = task[d]
        BY <1>1, <1>4, <3>1, OtherTasks
      <3> QED
        BY <1>1, <2>4, <3>2 DEF WarmedUp, own, handlers
    <2>5. CASE CloseStart(c)
      <3>1. \/ /\ UNCHANGED <<link, up>>
               /\ task'[c].pc # "closing"
            \/ /\ handler \in 1..made
               /\ link' = [link EXCEPT ![handler] = "closing"]
               /\ up' = [up EXCEPT ![handler] = FALSE]
               /\ task'[c].at = handler
        BY <1>1, <2>5
        DEF CloseStart, AfterClose, Goto, Return, Idle, SessionTypeOK, Tasks
      <3>2. \A d \in Callers : d # c => task'[d] = task[d]
        BY <1>1, <1>4, OtherTasks
      <3>3. UNCHANGED <<handler, made>>
        BY <2>5 DEF CloseStart
      <3>4. CASE UNCHANGED <<link, up>> /\ task'[c].pc # "closing"
        BY <1>1, <3>2, <3>3, <3>4
      <3>5. CASE /\ handler \in 1..made
                 /\ link' = [link EXCEPT ![handler] = "closing"]
                 /\ up' = [up EXCEPT ![handler] = FALSE]
                 /\ task'[c].at = handler
        <4>1. OnlyMade'
          BY <1>1, <3>3, <3>5 DEF SessionTypeOK
        <4>2. ASSUME NEW d \in Callers, task'[d].pc = "closing"
              PROVE  /\ task'[d].at \in 1..made
                     /\ link'[task'[d].at] # "attempt"
                     /\ ~up'[task'[d].at]
          <5>1. CASE d = c
            BY <1>1, <3>5, <5>1 DEF SessionTypeOK
          <5>2. CASE d # c
            BY <1>1, <3>2, <3>5, <4>2, <5>2 DEF SessionTypeOK
          <5> QED
            BY <5>1, <5>2
        <4> QED
          BY <1>1, <3>3, <4>1, <4>2
      <3> QED
        BY <3>1, <3>4, <3>5
    <2>6. CASE CloseDone(c)
      <3>1. task'[c].pc # "closing"
        BY <1>1, <2>6
        DEF CloseDone, AfterClose, Goto, Return, Idle, SessionTypeOK, Tasks
      <3>2. \A d \in Callers : task'[d].pc = "closing" => task'[d] = task[d]
        BY <1>1, <1>4, <3>1, OtherTasks
      <3> QED
        BY <1>1, <2>6, <3>2 DEF CloseDone, Released, SessionTypeOK
    <2> QED
      BY <1>4, <2>2, <2>3, <2>4, <2>5, <2>6 DEF CallStep, QuietCall
  <1>5. ASSUME NEW h \in Handlers, HandlerStep(h)
        PROVE  HandlersInv'
    <2>1. /\ link[h] = "attempt"
          /\ link' = link \/ \E l \in Links \ {"attempt"} : link' = [link EXCEPT ![h] = l]
          /\ up' = up \/ up' = [up EXCEPT ![h] = TRUE]
          /\ UNCHANGED <<handler, made, task>>
      BY <1>5 DEF HandlerStep, own, Links
    <2>2. \A g \in Handlers : g # h => link'[g] = link[g] /\ up'[g] = up[g]
      BY <1>1, <2>1 DEF SessionTypeOK
    <2>3. h <= made
      BY <1>1, <2>1 DEF SessionTypeOK
    <2>4. OnlyMade'
      BY <1>1, <2>1, <2>2, <2>3 DEF SessionTypeOK
    <2>5. \A c \in Callers : At(c, "closing") => task[c].at # h
      BY <2>1
    <2>6. ClosingIsQuiet'
      BY <1>1, <2>1, <2>2, <2>5 DEF SessionTypeOK
    <2> QED
      BY <1>1, <2>4, <2>6
  <1>6. ASSUME NEW h \in Handlers, Poll(h)
        PROVE  HandlersInv'
    BY <1>1, <1>6 DEF Poll, own, handlers
  <1>7. CASE Finalize
    <2>1. \A d \in Callers : task'[d].pc # "closing"
      BY <1>1, <1>7 DEF Finalize, Idle, SessionTypeOK, Tasks
    <2> QED
      BY <1>1, <1>7, <2>1 DEF Finalize, own, handlers, readers
  <1>8. CASE UNCHANGED vars
    BY <1>1, <1>8 DEF vars
  <1> QED
    BY <1>3, <1>4, <1>5, <1>6, <1>7, <1>8 DEF Next

\* A new session has no handler.
LEMMA InitHandlers == Init => HandlersInv
  <1> SUFFICES ASSUME Init PROVE HandlersInv
    OBVIOUS
  <1>1. Idle \in Tasks
    BY DEF Idle, Tasks, Methods, Labels, NoHandler
  <1>2. SessionTypeOK
    BY <1>1 DEF Init, SessionTypeOK, Links, NoHandler
  <1>3. OnlyMade
    BY SessionAssumption DEF Init, OnlyMade, NoHandler
  <1>4. ClosingIsQuiet
    BY DEF Init, ClosingIsQuiet, At, Idle
  <1> QED
    BY <1>2, <1>3, <1>4 DEF HandlersInv

-----------------------------------------------------------------------------
\* Every step of the session is one that each handler's promise allows.
LEMMA StepIsPromised ==
  ASSUME HandlersInv, [Next]_vars, NEW g \in Handlers
  PROVE  H(g)!Next \/ UNCHANGED <<link[g], up[g]>>
  <1>1. SessionTypeOK
    BY DEF HandlersInv
  <1> USE DEF H!Next, H!Dial, H!Reach, H!Settle, H!Break, H!Close
  <1>2. ASSUME UNCHANGED <<link, up>>
        PROVE  UNCHANGED <<link[g], up[g]>>
    BY <1>2
  <1>3. ASSUME NEW c \in Callers, NewCall(c)
        PROVE  UNCHANGED <<link[g], up[g]>>
    BY <1>1, <1>3, QuietSteps DEF Quiet
  <1>4. ASSUME NEW c \in Callers, CallStep(c)
        PROVE  H(g)!Next \/ UNCHANGED <<link[g], up[g]>>
    <2>1. CASE QuietCall(c)
      BY <1>1, <1>4, <2>1, QuietSteps DEF Quiet, CallStep
    <2>2. CASE Opened(c)
      <3>1. /\ link' = [link EXCEPT ![made + 1] = "attempt"]
            /\ link[made + 1] = "down" /\ made + 1 \in Handlers
            /\ UNCHANGED up
        BY <1>1, <2>2 DEF Opened, HandlersInv, OnlyMade, SessionTypeOK
      <3> QED
        BY <1>1, <3>1 DEF SessionTypeOK
    <2>3. CASE WarmedUp(c)
      BY <2>3 DEF WarmedUp, handlers
    <2>4. CASE CloseStart(c)
      BY <1>1, <2>4 DEF CloseStart, SessionTypeOK
    <2>5. CASE CloseDone(c)
      <3>1. ~up[task[c].at] /\ UNCHANGED up
        BY <2>5 DEF CloseDone, Released, HandlersInv, ClosingIsQuiet, At
      <3>2. PICK end \in {"down", "failed"} :
              link' = [link EXCEPT ![task[c].at] = end]
        BY <2>5 DEF CloseDone, Released
      <3> QED
        BY <1>1, <3>1, <3>2 DEF SessionTypeOK
    <2> QED
      BY <1>4, <2>1, <2>2, <2>3, <2>4, <2>5 DEF CallStep, QuietCall
  <1>5. ASSUME NEW h \in Handlers, HandlerStep(h)
        PROVE  H(g)!Next \/ UNCHANGED <<link[g], up[g]>>
    BY <1>1, <1>5 DEF HandlerStep, SessionTypeOK
  <1>6. ASSUME NEW h \in Handlers, Poll(h)
        PROVE  UNCHANGED <<link[g], up[g]>>
    BY <1>6 DEF Poll, handlers
  <1>7. CASE Finalize \/ UNCHANGED vars
    BY <1>7 DEF Finalize, handlers, vars
  <1> QED
    BY <1>3, <1>4, <1>5, <1>6, <1>7 DEF Next

\* The session, its tasks, its readers and its handlers keep their types.
THEOREM TypeCorrect == Spec => []SessionTypeOK
  <1>1. HandlersInv => SessionTypeOK
    BY DEF HandlersInv
  <1> QED
    BY <1>1, InitHandlers, NextHandlers, PTL DEF Spec

\* Whatever connect(), close() and reconnect() calls any number of tasks mix,
\* the session drives each handler only as HandlerPromise allows: connect()
\* once, on a handler that is down; only close() gives up the socket.
THEOREM PromiseKept == Spec => DrivesHandlersAsPromised
  <1>1. Init => \A h \in Handlers : H(h)!Init
    BY DEF Init, H!Init
  <1>2. HandlersInv /\ [Next]_vars =>
          [\A h \in Handlers : H(h)!Next \/ UNCHANGED <<link[h], up[h]>>]_vars
    BY StepIsPromised
  <1> QED
    BY <1>1, <1>2, InitHandlers, NextHandlers, PTL
    DEF Spec, DrivesHandlersAsPromised

-----------------------------------------------------------------------------
(***************************************************************************)
(* One controlling task.                                                   *)
(***************************************************************************)
\* Every step of a session that one task controls keeps SessionInv.
LEMMA NextSession ==
  ASSUME \A c, d \in Controllers : c = d
  PROVE  SessionInv /\ [Next]_vars => SessionInv'
  <1> SUFFICES ASSUME SessionInv, [Next]_vars PROVE SessionInv'
    OBVIOUS
  <1>1. HandlersInv /\ HandlersInv' /\ SessionTypeOK /\ SessionTypeOK'
    BY NextHandlers DEF SessionInv, HandlersInv
  <1> USE DEF SessionInv, OneControls, ReconnectsUnset, ClosesCurrent,
              GoneIsClosing, NoOrphans, At
  <1>2. ASSUME NEW c \in Callers, NewCall(c) \/ CallStep(c), Quiet(c)
        PROVE  SessionInv'
    <2>1. \A d \in Callers : d # c => task'[d] = task[d]
      BY <1>1, <1>2, OtherTasks
    <2>2. ~gone /\ ~gone'
      BY <1>2 DEF Quiet, Idle
    <2>3. OneControls' /\ ReconnectsUnset' /\ ClosesCurrent'
      BY <1>2, <2>1 DEF Quiet
    <2> QED
      BY <1>1, <1>2, <2>2, <2>3 DEF Quiet
  <1>3. ASSUME NEW c \in Callers, NewCall(c)
        PROVE  SessionInv'
    BY <1>1, <1>2, <1>3, QuietSteps
  <1>4. ASSUME NEW c \in Callers, CallStep(c), ~QuietCall(c)
        PROVE  SessionInv'
    <2>1. UNCHANGED gone
      BY <1>4 DEF CallStep
    <2>2. \A d \in Callers : d # c => task'[d] = task[d]
      BY <1>1, <1>4, OtherTasks
    <2>3. c \in Controllers
      BY <1>4 DEF CallStep, QuietCall, Opened, WarmedUp, CloseStart, CloseDone,
                  ControlLabels
    <2>4. \A d \in Callers : d # c => task'[d].pc \notin ControlLabels
      BY <2>2, <2>3
    <2>5. OneControls'
      BY <2>3, <2>4
    <2>6. CASE Opened(c)
      <3>1. ~gone
        BY <2>6 DEF Opened, Idle
      <3>2. task'[c].pc = "dial"
        BY <1>1, <2>6 DEF Opened, SessionTypeOK, Tasks
      <3>3. ReconnectsUnset' /\ ClosesCurrent'
        BY <2>4, <3>2 DEF ControlLabels
      <3>4. ASSUME NEW h \in Handlers, h # handler', h \notin dropped'
            PROVE  link'[h] \notin {"attempt", "live"} /\ ~up'[h] /\ rd'[h] # "run"
        <4>1. /\ link' = [link EXCEPT ![made + 1] = "attempt"]
              /\ handler' = made + 1
              /\ UNCHANGED <<up, rd>>
              /\ task[c].call = "connect" => dropped' = dropped \cup {handler}
              /\ task[c].call # "connect" => dropped' = dropped
              /\ task[c].pc = "open"
          BY <2>6 DEF Opened, readers
        <4>2. link'[h] = link[h]
          BY <1>1, <3>4, <4>1 DEF SessionTypeOK
        <4>3. h # handler /\ h \notin dropped
          BY <3>4, <4>1 DEF Handlers, NoHandler
        <4> QED
          BY <4>1, <4>2, <4>3
      <3> QED
        BY <1>1, <2>1, <2>5, <3>1, <3>3, <3>4
    <2>7. CASE WarmedUp(c)
      <3>1. ~gone
        BY <2>7 DEF WarmedUp, Idle
      <3>2. task'[c].pc = "idle"
        BY <1>1, <2>7 DEF WarmedUp, Return, Idle, SessionTypeOK
      <3>3. ReconnectsUnset' /\ ClosesCurrent'
        BY <2>4, <3>2 DEF ControlLabels
      <3> QED
        BY <1>1, <2>1, <2>5, <2>7, <3>1, <3>3
        DEF WarmedUp, own, handlers, SessionTypeOK
    <2>8. CASE CloseStart(c)
      <3>1. /\ task[c].pc = "close"
            /\ UNCHANGED <<handler, dropped, rd>>
        BY <2>8 DEF CloseStart, readers
      <3>2. CASE handler = NoHandler
        <4>1. /\ UNCHANGED <<link, up>>
              /\ IF task[c].call = "reconnect"
                   THEN task' = [task EXCEPT ![c].pc = "open"]
                   ELSE task' = [task EXCEPT ![c] = Idle]
          BY <2>8, <3>2 DEF CloseStart, AfterClose, Goto, Return
        <4>2. task'[c].pc # "closing"
          BY <1>1, <4>1 DEF SessionTypeOK, Tasks, Idle
        <4>3. ReconnectsUnset' /\ ClosesCurrent'
          BY <2>4, <3>1, <3>2, <4>2 DEF ControlLabels
        <4>4. gone => task'[c] = Idle
          BY <1>1, <3>1, <4>1 DEF SessionTypeOK, Idle
        <4>5. GoneIsClosing'
          BY <2>1, <2>2, <3>1, <3>2, <4>4 DEF Idle
        <4>6. NoOrphans'
          BY <3>1, <3>2, <4>1
        <4> QED
          BY <1>1, <2>5, <4>3, <4>5, <4>6
      <3>3. CASE handler # NoHandler
        <4>1. /\ link' = [link EXCEPT ![handler] = "closing"]
              /\ up' = [up EXCEPT ![handler] = FALSE]
              /\ task' = [task EXCEPT ![c].pc = "closing", ![c].at = handler]
          BY <2>8, <3>3 DEF CloseStart
        <4>2. /\ task'[c].pc = "closing" /\ task'[c].at = handler
              /\ task'[c].call = task[c].call
          BY <1>1, <4>1 DEF SessionTypeOK, Tasks
        <4>3. ReconnectsUnset' /\ ClosesCurrent'
          BY <2>4, <3>1, <4>2 DEF ControlLabels
        <4>4. GoneIsClosing'
          BY <2>1, <2>2, <3>1, <4>2 DEF Idle
        <4>5. NoOrphans'
          BY <1>1, <3>1, <3>3, <4>1, <4>2 DEF SessionTypeOK
        <4> QED
          BY <1>1, <2>5, <4>3, <4>4, <4>5
      <3> QED
        BY <3>2, <3>3
    <2>9. CASE CloseDone(c)
      <3>1. /\ task[c].pc = "closing" /\ task[c].at = handler
            /\ handler' = NoHandler
            /\ UNCHANGED <<up, dropped>>
        BY <2>9 DEF CloseDone, Released
      <3>2. PICK end \in {"down", "failed"} : link' = [link EXCEPT ![handler] = end]
        BY <2>9, <3>1 DEF CloseDone, Released
      <3>3. rd' = [rd EXCEPT ![handler] = IF @ = "run" THEN "done" ELSE @]
        BY <2>9, <3>1 DEF CloseDone, Released
      <3>4. /\ ~up[handler]
            /\ handler \in Handlers
        BY <1>1, <3>1, SessionAssumption
        DEF HandlersInv, ClosingIsQuiet, OnlyMade, SessionTypeOK, Handlers
      <3>5. IF task[c].call = "reconnect"
              THEN task' = [task EXCEPT ![c].pc = "open"]
              ELSE task' = [task EXCEPT ![c] = Idle]
        BY <2>9 DEF CloseDone, AfterClose, Goto, Return
      <3>6. task'[c].pc # "closing"
        BY <1>1, <3>5 DEF SessionTypeOK, Tasks, Idle
      <3>7. ReconnectsUnset' /\ ClosesCurrent'
        BY <2>4, <3>1, <3>6 DEF ControlLabels
      <3>8. gone => task'[c] = Idle
        BY <1>1, <3>1, <3>5 DEF SessionTypeOK, Idle
      <3>9. GoneIsClosing'
        BY <2>1, <2>2, <3>1, <3>8 DEF Idle
      <3>10. ASSUME NEW h \in Handlers, h \notin dropped
             PROVE  link'[h] \notin {"attempt", "live"} /\ ~up'[h] /\ rd'[h] # "run"
        <4>1. CASE h = handler
          BY <1>1, <3>1, <3>2, <3>3, <3>4, <4>1 DEF SessionTypeOK
        <4>2. CASE h # handler
          BY <1>1, <3>1, <3>2, <3>3, <3>10, <4>2 DEF SessionTypeOK
        <4> QED
          BY <4>1, <4>2
      <3> QED
        BY <1>1, <2>5, <3>1, <3>7, <3>9, <3>10
    <2> QED
      BY <1>4, <2>6, <2>7, <2>8, <2>9 DEF CallStep, QuietCall
  <1>5. ASSUME NEW h \in Handlers, HandlerStep(h)
        PROVE  SessionInv'
    BY <1>1, <1>5 DEF HandlerStep, own, readers, SessionTypeOK
  <1>6. ASSUME NEW h \in Handlers, Poll(h)
        PROVE  SessionInv'
    BY <1>1, <1>6 DEF Poll, own, handlers, SessionTypeOK
  <1>7. CASE Finalize
    <2>1. UNCHANGED <<handler, link, up, rd, dropped>>
      BY <1>7 DEF Finalize, handlers, readers
    <2>2. \A d \in Callers : task[d].pc = "idle"
      BY <1>7 DEF Finalize
    <2>3. ~gone
      BY <1>7 DEF Finalize
    <2>4. CASE handler = NoHandler /\ UNCHANGED task
      BY <1>1, <2>1, <2>2, <2>4
    <2>5. CASE handler # NoHandler
      <3>1. PICK c \in Controllers :
              task' = [task EXCEPT ![c] =
                         [Idle EXCEPT !.call = "close", !.pc = "close"]]
        BY <1>7, <2>5 DEF Finalize
      <3>2. c \in Callers
        BY SessionAssumption
      <3>3. /\ task'[c].call = "close" /\ task'[c].pc = "close"
            /\ \A d \in Callers : d # c => task'[d].pc = "idle"
        BY <1>1, <2>2, <3>1, <3>2 DEF SessionTypeOK, Idle
      <3> QED
        BY <1>1, <2>1, <3>2, <3>3 DEF ControlLabels
    <2> QED
      BY <1>7, <2>4, <2>5 DEF Finalize
  <1>8. CASE UNCHANGED vars
    BY <1>1, <1>8 DEF vars
  <1> QED
    BY <1>1, <1>2, <1>3, <1>4, <1>5, <1>6, <1>7, <1>8, QuietSteps
    DEF Next, CallStep

\* A new session owns nothing.
LEMMA InitSession == Init => SessionInv
  <1> SUFFICES ASSUME Init PROVE SessionInv
    OBVIOUS
  <1>1. HandlersInv
    BY InitHandlers
  <1> QED
    BY <1>1 DEF Init, SessionInv, OneControls, ReconnectsUnset, ClosesCurrent,
                GoneIsClosing, NoOrphans, At, Idle, ControlLabels

\* When one task controls the connection, nothing of a connection given up
\* by close() or reconnect() is left behind, however many tasks send, read
\* and wait meanwhile and however late their reads come back.
THEOREM NothingOrphaned ==
  ASSUME \A c, d \in Controllers : c = d
  PROVE  Spec => []NoOrphans
  <1>1. SessionInv /\ [Next]_vars => SessionInv'
    BY NextSession
  <1>2. SessionInv => NoOrphans
    BY DEF SessionInv
  <1> QED
    BY <1>1, <1>2, InitSession, PTL DEF Spec
=============================================================================
