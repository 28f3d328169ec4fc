------------------------- MODULE NegotiationProofs -------------------------
(***************************************************************************)
(* Proofs about Negotiation, for every set of configurations and all       *)
(* bounds: its type invariant and its safety properties.                   *)
(***************************************************************************)
EXTENDS Negotiation, SnaSession, Addressing, SequenceTheorems, TLAPS

-----------------------------------------------------------------------------
(***************************************************************************)
(* What handling a message does to the negotiator.                         *)
(***************************************************************************)

\* No message takes back an event, the ASCII mode or a hard failure, and with
\* fallback allowed none causes a hard failure.
Kept(c, s, r) ==
  /\ r \in Negotiators
  /\ s.ascii => r.ascii
  /\ s.forcedFailure => r.forcedFailure
  /\ c.fallback /\ ~s.forcedFailure => ~r.forcedFailure

\* The negotiation is complete only if both events are set.
Full(s) == s.complete => s.device /\ s.functions

\* The signals of a strict negotiator keep Full.
LEMMA SignalsKeep ==
  ASSUME NEW c \in Configs, NEW s \in Negotiators, NEW b \in BOOLEAN
  PROVE  /\ Kept(c, s, SignalDevice(c, s))
         /\ Kept(c, s, SignalFunctions(c, s))
         /\ Kept(c, s, SignalComplete(s, b))
         /\ Kept(c, s, SignalAll(c, s, b))
         /\ Kept(c, s, SendFunctionsIs(s, b))
         /\ Kept(c, s, Negotiated(s))
         /\ Kept(c, s, AllEventsSet(s))
<1> USE DEF Kept, Negotiators
<1>1. ASSUME NEW t \in Negotiators PROVE Kept(c, t, Finalized(c, t))
  <2> DEFINE r == [t EXCEPT !.complete = TRUE,
                            !.negotiated = t.negotiated \/ t.supports]
  <2>1. (t.negotiated \/ t.supports) \in BOOLEAN
    OBVIOUS
  <2>2. Kept(c, t, r)
    BY <2>1
  <2>3. Kept(c, t, t)
    OBVIOUS
  <2>4. Finalized(c, t) = t \/ Finalized(c, t) = r
    BY DEF Finalized
  <2> QED
    BY <2>2, <2>3, <2>4
<1>2. ASSUME NEW t \in Negotiators PROVE Kept(c, t, SignalDevice(c, t))
  <2> DEFINE u == [t EXCEPT !.device = TRUE]
  <2>1. u \in Negotiators /\ Kept(c, t, u)
    OBVIOUS
  <2>2. Kept(c, u, Finalized(c, u))
    BY <1>1, <2>1
  <2> QED
    BY <2>1, <2>2 DEF SignalDevice
<1>3. ASSUME NEW t \in Negotiators PROVE Kept(c, t, SignalFunctions(c, t))
  <2> DEFINE u == [t EXCEPT !.functions = TRUE]
  <2>1. u \in Negotiators /\ Kept(c, t, u)
    OBVIOUS
  <2>2. Kept(c, u, Finalized(c, u))
    BY <1>1, <2>1
  <2> QED
    BY <2>1, <2>2 DEF SignalFunctions
<1>4. \A t \in Negotiators : Kept(c, t, SignalComplete(t, b))
  BY DEF SignalComplete
<1>5. Kept(c, s, SignalAll(c, s, b))
  BY <1>2, <1>3, <1>4 DEF SignalAll
<1>6. Kept(c, s, SendFunctionsIs(s, b))
  BY DEF SendFunctionsIs
<1>7. Kept(c, s, Negotiated(s)) /\ Kept(c, s, AllEventsSet(s))
  BY DEF Negotiated, AllEventsSet
<1> QED
  BY <1>2, <1>3, <1>4, <1>5, <1>6, <1>7

LEMMA SignalsFull ==
  ASSUME NEW c \in Configs, c.mode = "strict",
         NEW s \in Negotiators, NEW b \in BOOLEAN
  PROVE  /\ Full(s) => Full(SignalDevice(c, s))
         /\ Full(s) => Full(SignalFunctions(c, s))
         /\ Full(s) => Full(SendFunctionsIs(s, b))
         /\ Full(s) => Full(Negotiated(s))
         /\ Full(SignalAll(c, s, b))
<1> USE DEF Full, Negotiators
<1>1. Full(s) => Full(SignalDevice(c, s))
  BY DEF SignalDevice, Finalized
<1>2. Full(s) => Full(SignalFunctions(c, s))
  BY DEF SignalFunctions, Finalized
<1>3. Full(s) => Full(SendFunctionsIs(s, b))
  BY DEF SendFunctionsIs
<1>4. Full(s) => Full(Negotiated(s))
  BY DEF Negotiated
<1>5. Full(SignalAll(c, s, b))
  BY DEF SignalAll, SignalComplete, SignalFunctions, SignalDevice, Finalized
<1> QED
  BY <1>1, <1>2, <1>3, <1>4, <1>5

\* Every message keeps what was said before, whatever its handler does.
LEMMA HandledKeeps ==
  ASSUME NEW c \in Configs, NEW s \in Negotiators,
         NEW m \in Messages, NEW d \in BOOLEAN
  PROVE  Kept(c, s, Handled(c, s, m, d))
<1>1. Kept(c, s, s)
  BY DEF Kept, Negotiators
<1>2. Kept(c, s, HandleWont(c, s))
  <2> DEFINE u == [s EXCEPT !.supports = FALSE]
             v == [u EXCEPT !.ascii = TRUE, !.negotiated = FALSE]
             w == [u EXCEPT !.forcedFailure = TRUE]
  <2>1. /\ Kept(c, s, u)
        /\ Kept(c, s, v)
        /\ ~c.fallback => Kept(c, s, w)
        /\ v \in Negotiators /\ w \in Negotiators
    BY DEF Kept, Negotiators
  <2> HIDE DEF u, v, w
  <2>2. Kept(c, v, SignalAll(c, v, FALSE)) /\ Kept(c, w, SignalAll(c, w, TRUE))
    BY <2>1, SignalsKeep
  <2>3. \/ HandleWont(c, s) = SignalAll(c, v, FALSE)
        \/ ~c.fallback /\ HandleWont(c, s) = SignalAll(c, w, TRUE)
        \/ HandleWont(c, s) = u
    BY DEF HandleWont, u, v, w
  <2> QED
    BY <2>1, <2>2, <2>3 DEF Kept
<1>3. Kept(c, s, HandleDont(c, s))
  <2> DEFINE u == [s EXCEPT !.negotiated = FALSE]
  <2>1. Kept(c, s, u) /\ u \in Negotiators
    BY DEF Kept, Negotiators
  <2> HIDE DEF u
  <2>2. Kept(c, u, SignalAll(c, u, TRUE))
    BY <2>1, SignalsKeep
  <2>3. HandleDont(c, s) = SignalAll(c, u, TRUE)
    BY DEF HandleDont, u
  <2> QED
    BY <2>1, <2>2, <2>3 DEF Kept
<1>4. Kept(c, s, [s EXCEPT !.supports = TRUE])
  BY DEF Kept, Negotiators
<1>5. ASSUME NEW e \in BOOLEAN PROVE Kept(c, s, AnswerFunctions(c, s, e))
  <2> DEFINE u == SignalFunctions(c, s)
             v == SendFunctionsIs(u, e)
  <2>1. Kept(c, s, u)
    BY SignalsKeep
  <2>2. Kept(c, u, v)
    BY <2>1, SignalsKeep DEF Kept
  <2>3. Kept(c, v, Negotiated(v))
    BY <2>2, SignalsKeep DEF Kept
  <2>4. AnswerFunctions(c, s, e) \in {v, Negotiated(v)}
    BY DEF AnswerFunctions
  <2> HIDE DEF u, v
  <2> QED
    BY <2>1, <2>2, <2>3, <2>4 DEF Kept
<1>6. ASSUME m \in Subnegotiations
      PROVE  Kept(c, s, ParseSubnegotiation(c, s, m, d))
  <2>1. Kept(c, s, SignalFunctions(c, AnswerFunctions(c, s, TRUE)))
    <3>1. Kept(c, s, AnswerFunctions(c, s, TRUE))
      BY <1>5
    <3>2. Kept(c, AnswerFunctions(c, s, TRUE),
                  SignalFunctions(c, AnswerFunctions(c, s, TRUE)))
      BY <3>1, SignalsKeep DEF Kept
    <3> QED
      BY <3>1, <3>2 DEF Kept
  <2>2. ParseSubnegotiation(c, s, m, d) \in
          {s, SignalDevice(c, s), SignalFunctions(c, s), SendFunctionsIs(s, d),
           SignalComplete(s, TRUE), AnswerFunctions(c, s, d),
           AnswerFunctions(c, s, FALSE),
           SignalFunctions(c, AnswerFunctions(c, s, TRUE))}
    BY <1>6 DEF ParseSubnegotiation, Subnegotiations, SendDeviceTypes
  <2>3. /\ Kept(c, s, SignalDevice(c, s))
        /\ Kept(c, s, SignalFunctions(c, s))
        /\ Kept(c, s, SendFunctionsIs(s, d))
        /\ Kept(c, s, SignalComplete(s, TRUE))
    BY SignalsKeep
  <2>4. Kept(c, s, AnswerFunctions(c, s, d)) /\ Kept(c, s, AnswerFunctions(c, s, FALSE))
    BY <1>5
  <2> QED
    BY <1>1, <2>1, <2>2, <2>3, <2>4
<1> QED
  BY <1>1, <1>2, <1>3, <1>4, <1>6 DEF Handled

\* A strict negotiator completes without both events by REQUEST only.
LEMMA HandledFull ==
  ASSUME NEW c \in Configs, c.mode = "strict", NEW s \in Negotiators,
         NEW m \in Messages \ {"REQUEST"}, NEW d \in BOOLEAN, Full(s)
  PROVE  Full(Handled(c, s, m, d))
<1>1. Full(HandleWont(c, s))
  <2> DEFINE u == [s EXCEPT !.supports = FALSE]
             v == [u EXCEPT !.ascii = TRUE, !.negotiated = FALSE]
             w == [u EXCEPT !.forcedFailure = TRUE]
  <2>1. v \in Negotiators /\ w \in Negotiators /\ Full(u)
    BY DEF Negotiators, Full
  <2>2. Full(SignalAll(c, v, FALSE)) /\ Full(SignalAll(c, w, TRUE))
    BY <2>1, SignalsFull
  <2>3. HandleWont(c, s) \in {SignalAll(c, v, FALSE), SignalAll(c, w, TRUE), u}
    BY DEF HandleWont
  <2> HIDE DEF u, v, w
  <2> QED
    BY <2>1, <2>2, <2>3
<1>2. Full(HandleDont(c, s))
  <2> DEFINE u == [s EXCEPT !.negotiated = FALSE]
  <2>1. u \in Negotiators
    BY DEF Negotiators
  <2> QED
    BY <2>1, SignalsFull DEF HandleDont
<1>3. Full([s EXCEPT !.supports = TRUE])
  BY DEF Full, Negotiators
<1>4. ASSUME NEW e \in BOOLEAN PROVE Full(AnswerFunctions(c, s, e))
                                      /\ AnswerFunctions(c, s, e) \in Negotiators
  <2> DEFINE u == SignalFunctions(c, s)
             v == SendFunctionsIs(u, e)
  <2>1. Full(u) /\ u \in Negotiators
    BY SignalsFull, SignalsKeep DEF Kept
  <2>2. Full(v) /\ v \in Negotiators
    BY <2>1, SignalsFull, SignalsKeep DEF Kept
  <2>3. Full(Negotiated(v)) /\ Negotiated(v) \in Negotiators
    BY <2>2, SignalsFull, SignalsKeep DEF Kept
  <2>4. AnswerFunctions(c, s, e) \in {v, Negotiated(v)}
    BY DEF AnswerFunctions
  <2> HIDE DEF u, v
  <2> QED
    BY <2>1, <2>2, <2>3, <2>4
<1>5. ASSUME m \in Subnegotiations
      PROVE  Full(ParseSubnegotiation(c, s, m, d))
  <2>1. Full(SignalFunctions(c, AnswerFunctions(c, s, TRUE)))
    BY <1>4, SignalsFull
  <2>2. ParseSubnegotiation(c, s, m, d) \in
          {s, SignalDevice(c, s), SignalFunctions(c, s), SendFunctionsIs(s, d),
           AnswerFunctions(c, s, d), AnswerFunctions(c, s, FALSE),
           SignalFunctions(c, AnswerFunctions(c, s, TRUE))}
    BY <1>5 DEF ParseSubnegotiation, Subnegotiations, SendDeviceTypes
  <2>3. /\ Full(SignalDevice(c, s))
        /\ Full(SignalFunctions(c, s))
        /\ Full(SendFunctionsIs(s, d))
    BY SignalsFull
  <2>4. Full(AnswerFunctions(c, s, d)) /\ Full(AnswerFunctions(c, s, FALSE))
    BY <1>4
  <2> QED
    BY <2>1, <2>2, <2>3, <2>4
<1> QED
  BY <1>1, <1>2, <1>3, <1>5 DEF Handled

\* A refusal of a forced TN3270E without fallback is remembered.
LEMMA WontRemembered ==
  ASSUME NEW c \in Configs, c.force = "tn3270e", ~c.fallback,
         NEW s \in Negotiators, NEW d \in BOOLEAN
  PROVE  Handled(c, s, "WONT_TN3270E", d).forcedFailure
<1> DEFINE u == [s EXCEPT !.supports = FALSE]
           w == [u EXCEPT !.forcedFailure = TRUE]
<1>1. w \in Negotiators /\ w.forcedFailure
  BY DEF Negotiators
<1>2. Handled(c, s, "WONT_TN3270E", d) = SignalAll(c, w, TRUE)
  <2>1. Handled(c, s, "WONT_TN3270E", d) = HandleWont(c, s)
    BY DEF Handled, Offers, Subnegotiations
  <2>2. HandleWont(c, s) = SignalAll(c, w, TRUE)
    BY DEF HandleWont
  <2> QED
    BY <2>1, <2>2
<1> HIDE DEF u, w
<1>3. Kept(c, w, SignalAll(c, w, TRUE))
  BY <1>1, SignalsKeep
<1> QED
  BY <1>1, <1>2, <1>3 DEF Kept

-----------------------------------------------------------------------------
(***************************************************************************)
(* The inductive invariant.                                                *)
(***************************************************************************)

\* With fallback allowed no failure is ever recorded.
NoHardFailure ==
  cfg.fallback =>
    /\ ~n.forcedFailure
    /\ failures = 0
    /\ pc = "joinFailed" => outcome = "watchdog"

\* The reader runs only while the driver waits for it or for its events.
QuietReader ==
  pc \in {"telnet", "start", "grace"} \cup Ended => reader # "running"

\* On the first connection of a strict handler, completion without both
\* events is the effect of a REQUEST.
CompleteHasEvents ==
  /\ conns = 1
  /\ cfg.mode = "strict"
  /\ pc \in {"telnet", "start", "backoff"} \cup Waiting
  /\ "REQUEST" \notin heard
  => Full(n)

\* A reader that ended by itself left the negotiation complete.
OverIsComplete ==
  pc \in {"backoff"} \cup Waiting /\ reader = "over" => n.complete

GraceIsAscii == pc = "grace" => n.ascii

\* Until the driver looks at it, a refusal of forced TN3270E is remembered.
RefusalRemembered ==
  /\ cfg.force = "tn3270e" /\ ~cfg.fallback
  /\ pc \in {"telnet", "start"}
  /\ "WONT_TN3270E" \in heard
  => n.forcedFailure

Inv ==
  /\ TypeOK
  /\ NoHardFailure
  /\ FallbackNeverFails
  /\ QuietReader
  /\ CompleteHasEvents
  /\ OverIsComplete
  /\ GraceIsAscii
  /\ RefusalRemembered

-----------------------------------------------------------------------------
LEMMA KindFacts ==
  ASSUME NEW m \in Messages
  PROVE  /\ Kind(m) \in Kinds
         /\ Kind(m) = "REQUEST" <=> m = "REQUEST"
         /\ Kind(m) = "WONT_TN3270E" <=> m = "WONT_TN3270E"
BY DEF Kind, Kinds, Named, Messages, Offers, Refusals, Subnegotiations

\* What every task that handles a message can rely on.
MessageEffect(m) ==
  /\ Kept(cfg, n, n')
  /\ cfg.mode = "strict" /\ m # "REQUEST" /\ Full(n) => Full(n')
  /\ left' \in 0..(MaxChunk - 1)
  /\ heard' = heard \cup {Kind(m)}

LEMMA HandleNextSame ==
  ASSUME TypeOK, NEW m \in Messages, HandleNext(m, FALSE)
  PROVE  /\ MessageEffect(m)
         /\ cfg.force = "tn3270e" /\ ~cfg.fallback /\ m = "WONT_TN3270E"
              => n'.forcedFailure
<1> USE DEF TypeOK
<1>1. PICK d \in BOOLEAN : n' = Handled(cfg, n, m, d)
  BY DEF HandleNext
<1>2. left' \in 0..(MaxChunk - 1) /\ heard' = heard \cup {Kind(m)}
  BY NegotiationAssumption DEF HandleNext
<1>3. Kept(cfg, n, n')
  BY <1>1, HandledKeeps
<1>4. cfg.mode = "strict" /\ m # "REQUEST" /\ Full(n) => Full(n')
  BY <1>1, HandledFull
<1>5. cfg.force = "tn3270e" /\ ~cfg.fallback /\ m = "WONT_TN3270E"
        => n'.forcedFailure
  BY <1>1, WontRemembered
<1> QED
  BY <1>2, <1>3, <1>4, <1>5 DEF MessageEffect

LEMMA HandleNextLoop ==
  ASSUME TypeOK, NEW m \in Messages, HandleNext(m, TRUE)
  PROVE  MessageEffect(m)
<1> USE DEF TypeOK
<1>1. PICK d \in BOOLEAN : n' = LoopTest(Handled(cfg, n, m, d))
  BY DEF HandleNext
<1>2. left' \in 0..(MaxChunk - 1) /\ heard' = heard \cup {Kind(m)}
  BY NegotiationAssumption DEF HandleNext
<1> DEFINE h == Handled(cfg, n, m, d)
           f == [h EXCEPT !.forcedCompletion = TRUE]
<1>3. Kept(cfg, n, h)
  BY HandledKeeps
<1>4. cfg.mode = "strict" /\ m # "REQUEST" /\ Full(n) => Full(h)
  BY HandledFull
<1>5. n' = h \/ n' = SignalAll(cfg, f, TRUE)
  BY <1>1 DEF LoopTest
<1> HIDE DEF h
<1>6. f \in Negotiators /\ Kept(cfg, h, f)
  BY <1>3 DEF Kept, Negotiators
<1> HIDE DEF f
<1>7. Kept(cfg, f, SignalAll(cfg, f, TRUE))
  BY <1>6, SignalsKeep
<1>8. cfg.mode = "strict" => Full(SignalAll(cfg, f, TRUE))
  BY <1>6, SignalsFull
<1>9. Kept(cfg, n, n')
  BY <1>3, <1>5, <1>6, <1>7 DEF Kept
<1> QED
  BY <1>2, <1>4, <1>5, <1>8, <1>9 DEF MessageEffect

-----------------------------------------------------------------------------
(***************************************************************************)
(* The actions, one lemma for each group that changes n the same way.      *)
(***************************************************************************)

\* All parts of the invariant but the type: where the driver stands.
Places ==
  /\ NoHardFailure
  /\ FallbackNeverFails
  /\ QuietReader
  /\ CompleteHasEvents
  /\ OverIsComplete
  /\ GraceIsAscii
  /\ RefusalRemembered

LEMMA InitInv == Init => Inv
<1> SUFFICES ASSUME Init PROVE Inv
  OBVIOUS
<1>1. cfg \in Configs /\ n \in Negotiators
  BY DEF Init, Initial, Negotiators
<1>2. 0 \in 0..MaxRetries /\ 0 \in 0..(MaxChunk - 1) /\ 1 \in 1..MaxConns
  BY NegotiationAssumption
<1>3. TypeOK
  BY <1>1, <1>2 DEF Init, TypeOK, Labels, Readers, Outcomes, Waiting
<1> QED
  BY <1>3
  DEF Init, Initial, Inv, NoHardFailure, FallbackNeverFails, QuietReader,
      CompleteHasEvents, OverIsComplete, GraceIsAscii,
      RefusalRemembered, Full, Waiting, Ended

\* A step that leaves the negotiator's fields alone.
LEMMA QuietSteps ==
  ASSUME Inv,
         \/ TelnetRefused \/ TelnetNothing \/ StartTn3270e \/ StartWaiting
         \/ EventReceived \/ BackoffOver \/ Watchdog \/ Fail \/ GraceOver
         \/ ReaderIdle \/ ReaderBreaks \/ ReaderCancelled \/ HostCloses
         \/ Reconnect
  PROVE  Inv'
<1> USE NegotiationAssumption
    DEF connection, reading, host, Labels, Waiting, Ended, Readers
<1>1. TypeOK
  BY DEF Inv
<1>2. n' = n /\ cfg' = cfg /\ (conns' = 1 => conns = 1)
  BY <1>1
  DEF TelnetRefused, TelnetNothing, StartTn3270e, StartWaiting, EventReceived,
      BackoffOver, Watchdog, Fail, GraceOver, ReaderIdle, ReaderBreaks,
      ReaderCancelled, HostCloses, Reconnect, TypeOK
<1>3. CASE TelnetRefused
  BY <1>1, <1>2, <1>3
  DEF TelnetRefused, Inv, TypeOK, NoHardFailure, FallbackNeverFails, QuietReader,
      CompleteHasEvents, OverIsComplete, GraceIsAscii,
      RefusalRemembered, Infer, Full
<1>4. CASE TelnetNothing
  BY <1>1, <1>2, <1>4
  DEF TelnetNothing, Inv, TypeOK, NoHardFailure, FallbackNeverFails, QuietReader,
      CompleteHasEvents, OverIsComplete, GraceIsAscii,
      RefusalRemembered, Infer, Full
<1>5. CASE StartTn3270e
  BY <1>1, <1>2, <1>5
  DEF StartTn3270e, ReaderStarts, Inv, TypeOK, NoHardFailure, FallbackNeverFails,
      QuietReader, CompleteHasEvents, OverIsComplete, GraceIsAscii,
      RefusalRemembered, Infer, Full
<1>6. CASE StartWaiting
  BY <1>1, <1>2, <1>6
  DEF StartWaiting, FirstWait, ReaderStarts, Inv, TypeOK, NoHardFailure,
      FallbackNeverFails, QuietReader, CompleteHasEvents, OverIsComplete,
      GraceIsAscii, RefusalRemembered, Infer, Full
<1>7. CASE EventReceived
  BY <1>1, <1>2, <1>7
  DEF EventReceived, Inv, TypeOK, NoHardFailure, FallbackNeverFails, QuietReader,
      CompleteHasEvents, OverIsComplete, GraceIsAscii,
      RefusalRemembered, Infer, Full
<1>8. CASE BackoffOver
  BY <1>1, <1>2, <1>8
  DEF BackoffOver, FirstWait, Inv, TypeOK, NoHardFailure, FallbackNeverFails,
      QuietReader, CompleteHasEvents, OverIsComplete, GraceIsAscii,
      RefusalRemembered, Infer, Full
<1>9. CASE Watchdog
  BY <1>1, <1>2, <1>9
  DEF Watchdog, Inv, TypeOK, NoHardFailure, FallbackNeverFails, QuietReader,
      CompleteHasEvents, OverIsComplete, GraceIsAscii,
      RefusalRemembered, Infer, Full, Outcomes
<1>10. CASE Fail
  BY <1>1, <1>2, <1>10
  DEF Fail, Inv, TypeOK, NoHardFailure, FallbackNeverFails, QuietReader,
      CompleteHasEvents, OverIsComplete, GraceIsAscii,
      RefusalRemembered, Infer, Full
<1>11. CASE GraceOver
  BY <1>1, <1>2, <1>11
  DEF GraceOver, Inv, TypeOK, NoHardFailure, FallbackNeverFails, QuietReader,
      CompleteHasEvents, OverIsComplete, GraceIsAscii,
      RefusalRemembered, Infer, Full
<1>12. CASE ReaderIdle
  BY <1>1, <1>2, <1>12
  DEF ReaderIdle, Inv, TypeOK, NoHardFailure, FallbackNeverFails, QuietReader,
      CompleteHasEvents, OverIsComplete, GraceIsAscii,
      RefusalRemembered, Infer, Full
<1>13. CASE ReaderBreaks
  BY <1>1, <1>2, <1>13
  DEF ReaderBreaks, Inv, TypeOK, NoHardFailure, FallbackNeverFails, QuietReader,
      CompleteHasEvents, OverIsComplete, GraceIsAscii,
      RefusalRemembered, Infer, Full
<1>14. CASE ReaderCancelled
  BY <1>1, <1>2, <1>14
  DEF ReaderCancelled, Inv, TypeOK, NoHardFailure, FallbackNeverFails,
      QuietReader, CompleteHasEvents, OverIsComplete, GraceIsAscii,
      RefusalRemembered, Infer, Full
<1>15. CASE HostCloses
  BY <1>1, <1>2, <1>15
  DEF HostCloses, Inv, TypeOK, NoHardFailure, FallbackNeverFails, QuietReader,
      CompleteHasEvents, OverIsComplete, GraceIsAscii,
      RefusalRemembered, Infer, Full
<1>16. CASE Reconnect
  <2>1. 0 \in 0..(MaxChunk - 1) /\ conns + 1 \in 1..MaxConns /\ conns + 1 # 1
    BY <1>1, <1>16 DEF Reconnect, TypeOK
  <2>2. TypeOK'
    BY <1>1, <1>2, <1>16, <2>1 DEF Reconnect, TypeOK, Outcomes
  <2>3. Places'
    BY <1>1, <1>2, <1>16, <2>1
    DEF Reconnect, Inv, TypeOK, Places, NoHardFailure, FallbackNeverFails,
        QuietReader, CompleteHasEvents, OverIsComplete, GraceIsAscii,
        RefusalRemembered
  <2> QED
    BY <2>2, <2>3 DEF Inv, Places
<1> QED
  BY <1>3, <1>4, <1>5, <1>6, <1>7, <1>8, <1>9, <1>10, <1>11, <1>12, <1>13,
     <1>14, <1>15, <1>16

\* A step that handles a message of the host.
LEMMA MessageSteps ==
  ASSUME Inv, NEW m \in Messages,
         TelnetMessage(m) \/ GraceMessage(m) \/ ReaderMessage(m)
  PROVE  Inv'
<1> USE NegotiationAssumption
    DEF connection, reading, host, Labels, Waiting, Ended, Readers
<1>1. TypeOK
  BY DEF Inv
<1>2. CASE TelnetMessage(m)
  <2>1. /\ MessageEffect(m)
        /\ cfg.force = "tn3270e" /\ ~cfg.fallback /\ m = "WONT_TN3270E"
             => n'.forcedFailure
    BY <1>1, <1>2, HandleNextSame DEF TelnetMessage
  <2>2. n \in Negotiators /\ n' \in Negotiators
    BY <1>1, <2>1 DEF TypeOK, MessageEffect, Kept
  <2>3. TypeOK'
    BY <1>1, <1>2, <2>1, <2>2, KindFacts DEF TelnetMessage, MessageEffect, TypeOK
  <2>4. Places'
    BY <1>1, <1>2, <2>1, <2>2, KindFacts
    DEF TelnetMessage, MessageEffect, Kept, Inv, TypeOK, Places, NoHardFailure,
        FallbackNeverFails, QuietReader, CompleteHasEvents, OverIsComplete,
        GraceIsAscii, RefusalRemembered
  <2> QED
    BY <2>3, <2>4 DEF Inv, Places
<1>3. CASE GraceMessage(m)
  <2>1. MessageEffect(m)
    BY <1>1, <1>3, HandleNextSame DEF GraceMessage
  <2>2. n \in Negotiators /\ n' \in Negotiators
    BY <1>1, <2>1 DEF TypeOK, MessageEffect, Kept
  <2>3. TypeOK'
    BY <1>1, <1>3, <2>1, <2>2, KindFacts DEF GraceMessage, MessageEffect, TypeOK
  <2>4. Places'
    BY <1>1, <1>3, <2>1, <2>2, KindFacts
    DEF GraceMessage, MessageEffect, Kept, Inv, TypeOK, Places, NoHardFailure,
        FallbackNeverFails, QuietReader, CompleteHasEvents, OverIsComplete,
        GraceIsAscii, RefusalRemembered
  <2> QED
    BY <2>3, <2>4 DEF Inv, Places
<1>4. CASE ReaderMessage(m)
  <2>1. MessageEffect(m)
    BY <1>1, <1>4, HandleNextLoop DEF ReaderMessage
  <2>2. n \in Negotiators /\ n' \in Negotiators
    BY <1>1, <2>1 DEF TypeOK, MessageEffect, Kept
  <2>3. TypeOK'
    BY <1>1, <1>4, <2>1, <2>2, KindFacts
    DEF ReaderMessage, MessageEffect, TypeOK, Traced, Signs
  <2>4. Places'
    BY <1>1, <1>4, <2>1, <2>2, KindFacts
    DEF ReaderMessage, MessageEffect, Kept, Inv, TypeOK, Places, NoHardFailure,
        FallbackNeverFails, QuietReader, CompleteHasEvents, OverIsComplete,
        GraceIsAscii, RefusalRemembered
  <2> QED
    BY <2>3, <2>4 DEF Inv, Places
<1> QED
  BY <1>2, <1>3, <1>4

\* A step of the driver or of the reader that changes the negotiator's fields.
LEMMA DecidingSteps ==
  ASSUME Inv,
         \/ StartForced \/ Announced \/ CompleteReceived
         \/ TimedOut \/ Decide \/ ReaderEof
  PROVE  Inv'
<1> USE NegotiationAssumption
    DEF connection, reading, host, Labels, Waiting, Ended, Readers
<1>1. TypeOK /\ n \in Negotiators /\ cfg \in Configs
  BY DEF Inv, TypeOK
<1>2. CASE StartForced
  <2>1. n' \in Negotiators /\ n'.complete /\ n'.forcedFailure = n.forcedFailure
    BY <1>1, <1>2 DEF StartForced, AllEventsSet, Negotiators
  <2>2. TypeOK'
    BY <1>1, <1>2, <2>1 DEF StartForced, ReaderStarts, TypeOK
  <2>3. Places'
    BY <1>1, <1>2, <2>1
    DEF StartForced, ReaderStarts, Inv, TypeOK, Places, NoHardFailure,
        FallbackNeverFails, QuietReader, CompleteHasEvents, OverIsComplete,
        GraceIsAscii, RefusalRemembered
  <2> QED
    BY <2>2, <2>3 DEF Inv, Places
<1>3. CASE Announced
  <2>1. n' \in Negotiators /\ n'.forcedFailure = n.forcedFailure
    BY <1>1, <1>3 DEF Announced, AllEventsSet, Negotiators
  <2>2. TypeOK'
    BY <1>1, <1>3, <2>1 DEF Announced, TypeOK
  <2>3. Places'
    BY <1>1, <1>3, <2>1
    DEF Announced, Inv, TypeOK, Places, NoHardFailure, FallbackNeverFails,
        QuietReader, CompleteHasEvents, OverIsComplete, GraceIsAscii,
        RefusalRemembered
  <2> QED
    BY <2>2, <2>3 DEF Inv, Places
<1>4. ASSUME NEW s \in Negotiators, NEW how \in Outcomes, Succeed(s, how),
             s.forcedFailure = n.forcedFailure,
             UNCHANGED <<connection, trace, reading, host>>
      PROVE  Inv'
  <2>1. n' \in Negotiators /\ n'.forcedFailure = n.forcedFailure
    BY <1>4 DEF Succeed, Negotiators
  <2>2. TypeOK'
    BY <1>1, <1>4, <2>1 DEF Succeed, TypeOK
  <2>3. Places'
    BY <1>1, <1>4, <2>1
    DEF Succeed, Inv, TypeOK, Places, NoHardFailure, FallbackNeverFails,
        QuietReader, CompleteHasEvents, OverIsComplete, GraceIsAscii,
        RefusalRemembered
  <2> QED
    BY <2>2, <2>3 DEF Inv, Places
<1>5. ASSUME RetryOrFail, ~cfg.fallback, pc \in Waiting,
             UNCHANGED <<connection, trace, reading, host>>
      PROVE  Inv'
  <2>1. n' \in Negotiators
    BY <1>1, <1>5
    DEF RetryOrFail, Cleaned, SignalComplete, Initial, Negotiators
  <2>2. TypeOK'
    BY <1>1, <1>5, <2>1 DEF RetryOrFail, TypeOK, Outcomes
  <2>3. pc' = "backoff" => n' = n
    BY <1>5 DEF RetryOrFail
  <2>4. pc' \in {"backoff", "joinFailed"}
    BY <1>5 DEF RetryOrFail
  <2>5. Places'
    BY <1>1, <1>5, <2>1, <2>3, <2>4
    DEF Inv, TypeOK, Places, NoHardFailure, FallbackNeverFails,
        QuietReader, CompleteHasEvents, OverIsComplete, GraceIsAscii,
        RefusalRemembered, Full
  <2> QED
    BY <2>2, <2>5 DEF Inv, Places
<1>6. CASE CompleteReceived
  <2>1. Judged(n) \in Negotiators /\ Judged(n).forcedFailure = n.forcedFailure
    BY <1>1 DEF Judged, SignalComplete, Negotiators
  <2>2. "agreed" \in Outcomes
    BY DEF Outcomes
  <2>3. CASE n.forcedFailure
    BY <1>5, <1>6, <2>3 DEF CompleteReceived, Inv, NoHardFailure
  <2>4. CASE ~n.forcedFailure
    BY <1>4, <1>6, <2>1, <2>2, <2>4 DEF CompleteReceived
  <2> QED
    BY <2>3, <2>4
<1>7. CASE TimedOut
  <2> DEFINE s == AllEventsSet([n EXCEPT !.negotiated = FALSE])
  <2>1. s \in Negotiators /\ s.forcedFailure = n.forcedFailure
    BY <1>1 DEF AllEventsSet, Negotiators
  <2>2. "timeout" \in Outcomes
    BY DEF Outcomes
  <2>3. CASE cfg.fallback
    <3>1. Succeed(s, "timeout") /\ UNCHANGED <<connection, trace, reading, host>>
      BY <1>7, <2>3 DEF TimedOut
    <3> HIDE DEF s
    <3> QED
      BY <1>4, <2>1, <2>2, <3>1
  <2>4. CASE ~cfg.fallback
    BY <1>5, <1>7, <2>4 DEF TimedOut
  <2> QED
    BY <2>3, <2>4
<1>8. CASE Decide
  <2>1. FinalFlag \in BOOLEAN
    BY <1>1 DEF FinalFlag, Infer, Negotiators
  <2>2. /\ n' \in Negotiators
        /\ n'.forcedFailure = n.forcedFailure
        /\ n'.ascii = n.ascii
        /\ n'.negotiated = FinalFlag
    BY <1>1, <1>8, <2>1 DEF Decide, Negotiators
  <2>3. TypeOK'
    BY <1>1, <1>8, <2>2 DEF Decide, TypeOK
  <2>4. Places'
    BY <1>1, <1>8, <2>2
    DEF Decide, FinalFlag, Infer, Inv, TypeOK, Places, NoHardFailure,
        FallbackNeverFails, QuietReader, CompleteHasEvents, OverIsComplete,
        GraceIsAscii, RefusalRemembered
  <2> QED
    BY <2>3, <2>4 DEF Inv, Places
<1>9. CASE ReaderEof
  <2>1. Kept(cfg, n, n')
    BY <1>1, <1>9, SignalsKeep DEF ReaderEof
  <2>2. cfg.mode = "strict" => Full(n')
    BY <1>1, <1>9, SignalsFull DEF ReaderEof
  <2>3. n'.complete
    <3>1. SignalFunctions(cfg, SignalDevice(cfg, n)) \in Negotiators
      BY <1>1, SignalsKeep DEF Kept
    <3> QED
      BY <1>9, <3>1 DEF ReaderEof, SignalAll, SignalComplete, Negotiators
  <2>4. TypeOK'
    BY <1>1, <1>9, <2>1 DEF ReaderEof, TypeOK, Kept
  <2>5. Places'
    BY <1>1, <1>9, <2>1, <2>2, <2>3, <2>4
    DEF ReaderEof, Kept, Inv, TypeOK, Places, NoHardFailure,
        FallbackNeverFails, QuietReader, CompleteHasEvents, OverIsComplete,
        GraceIsAscii, RefusalRemembered, Negotiators
  <2> QED
    BY <2>4, <2>5 DEF Inv, Places
<1> QED
  BY <1>2, <1>3, <1>6, <1>7, <1>8, <1>9

LEMMA NextInv == Inv /\ [Next]_vars => Inv'
<1> SUFFICES ASSUME Inv, [Next]_vars PROVE Inv'
  OBVIOUS
<1>1. CASE UNCHANGED vars
  BY <1>1
  DEF vars, Inv, TypeOK, NoHardFailure, FallbackNeverFails, QuietReader,
      CompleteHasEvents, OverIsComplete, GraceIsAscii,
      RefusalRemembered, Infer, Full
<1>2. CASE Next
  BY <1>2, QuietSteps, MessageSteps, DecidingSteps
  DEF Next, Telnet, Driver, Grace, Reader
<1> QED
  BY <1>1, <1>2

-----------------------------------------------------------------------------
\* Inv is an invariant of the negotiation.
THEOREM InvHolds == Spec => []Inv
BY InitInv, NextInv, PTL DEF Spec

\* Every reachable state is well typed, whatever the host sends: the retries
\* stay within their limit and no handler leaves a field undefined.
THEOREM TypeCorrect == Spec => []TypeOK
<1>1. Inv => TypeOK
  BY DEF Inv
<1> QED
  BY <1>1, InvHolds, PTL

\* With allow_fallback set, only the watchdog or a broken socket makes
\* connect() raise out of the negotiation.
THEOREM FallbackSafe == Spec => []FallbackNeverFails
<1>1. Inv => FallbackNeverFails
  BY DEF Inv
<1> QED
  BY <1>1, InvHolds, PTL

\* The handler's own reads never overlap those of the reader task.
THEOREM OneReaderSafe == Spec => []OneReader
<1>1. Inv => OneReader
  BY DEF Inv, QuietReader, OneReader
<1> QED
  BY <1>1, InvHolds, PTL

\* A strict negotiator waits for events nobody can bring after REQUEST only.
THEOREM BlindWaitSafe == Spec => []BlindWaitOnlyAfterRequest
<1>1. Inv => BlindWaitOnlyAfterRequest
  BY DEF Inv, TypeOK, CompleteHasEvents, OverIsComplete, Full, Waiting,
         BlindWaitOnlyAfterRequest, Awaited
<1> QED
  BY <1>1, InvHolds, PTL

\* Forced TN3270E without fallback never goes ahead against a WONT TN3270E.
THEOREM ForcedRefusal == Spec => ForcedRefusalFails
<1>1. Inv /\ [Next]_vars =>
        [pc = "start" /\ pc' = "announce" /\ ~cfg.fallback
           => "WONT_TN3270E" \notin heard]_vars
  <2> SUFFICES ASSUME Inv, Next, pc = "start", pc' = "announce", ~cfg.fallback
               PROVE  "WONT_TN3270E" \notin heard
    OBVIOUS
  <2>1. StartTn3270e
    BY DEF Next, Telnet, Driver, Grace, Reader, TelnetRefused, TelnetMessage,
           TelnetNothing, StartForced, Announced, StartWaiting,
           FirstWait,
           EventReceived, CompleteReceived, TimedOut, BackoffOver, Decide, Fail,
           GraceOver, GraceMessage, ReaderIdle, ReaderEof, ReaderBreaks,
           ReaderMessage, ReaderCancelled, Watchdog, HostCloses, Reconnect,
           Waiting, Ended
  <2>2. cfg.force = "tn3270e" /\ ~n.forcedFailure
    BY <2>1 DEF StartTn3270e
  <2> QED
    BY <2>2 DEF Inv, RefusalRemembered
<1> QED
  BY <1>1, InvHolds, PTL DEF Spec, ForcedRefusalFails

-----------------------------------------------------------------------------
(***************************************************************************)
(* The SNA session state.                                                  *)
(***************************************************************************)
Owning == {"busy", "pause", "pause_negotiate", "negotiate"}
Doings == Owning \cup {"nothing", "sleep"}
SnaStates == {"NORMAL", "PENDING_RECOVERY", "ERROR", "SESSION_DOWN"}

SnaTypeOK ==
  /\ sna \in SnaStates
  /\ scheduled \in Seq(SenseCodes)
  /\ task \in [Tasks -> [does : Doings, left : 0..3]]
  /\ bind \in BOOLEAN /\ gaveUp \in BOOLEAN
  /\ inARow \in 0..(FailureLimit + 1)
  /\ received \in Nat /\ lastSent \in Nat
  /\ pending \subseteq 1..lastSent

SnaInv == SnaTypeOK /\ PendingIsOwned

(***************************************************************************)
(* What a step of task t does to the state and to the task: it leaves      *)
(* PENDING_RECOVERY, or t will still set the state, or the state stands    *)
(* and t was no owner, or it stands and is known to be given up.           *)
(***************************************************************************)
SnaEffect(t) ==
  \/ sna' # "PENDING_RECOVERY"
  \/ task'[t].does \in Owning
  \/ UNCHANGED <<sna, gaveUp>> /\ task[t].does \notin Owning
  \/ gaveUp'

\* Setting a task's record.
LEMMA BecomeEffect ==
  ASSUME SnaTypeOK, NEW t \in Tasks, NEW does \in Doings, NEW k \in 0..3,
         Become(t, does, k)
  PROVE  /\ task' \in [Tasks -> [does : Doings, left : 0..3]]
         /\ task'[t].does = does
         /\ \A s \in Tasks : s # t => task'[s] = task[s]
  BY DEF SnaTypeOK, Become

\* A task that ends.
LEMMA FinishEffect ==
  ASSUME SnaTypeOK, NEW t \in Tasks, Finish(t)
  PROVE  /\ task' \in [Tasks -> [does : Doings, left : 0..3]]
         /\ task'[t].does = "nothing"
         /\ \A s \in Tasks : s # t => task'[s] = task[s]
  <1>1. 0 \in 0..3 /\ "nothing" \in Doings
    BY DEF Doings
  <1> QED
    BY <1>1, BecomeEffect DEF Finish

\* The steps of the tasks keep the types and have that effect.
LEMMA SnaStepEffect ==
  ASSUME SnaTypeOK, NEW t \in Tasks, SnaStep(t)
  PROVE  /\ SnaTypeOK'
         /\ SnaEffect(t)
         /\ \A s \in Tasks : s # t => task'[s] = task[s]
  <1> USE BecomeEffect DEF Owning, Doings, LuBusyRetries, NegotiateRetries,
                           FailureLimit, SetState, SnaEffect
  <1>1. CASE Start(t)
    <2>1. scheduled' \in Seq(SenseCodes) /\ UNCHANGED <<received, inARow, lastSent>>
      BY <1>1, HeadTailProperties DEF Start, SnaTypeOK
    <2>2. Respond(t, Head(scheduled))
      BY <1>1 DEF Start
    <2>3. PICK does \in Doings, k \in 0..3 : Become(t, does, k)
      BY <2>2 DEF Respond, Finish
    <2>4. /\ sna' \in SnaStates /\ gaveUp' = FALSE
          /\ bind' \in BOOLEAN /\ pending' \in {pending, {}}
      BY <2>2 DEF Respond, SnaStates, SnaTypeOK
    <2>5. sna' = "PENDING_RECOVERY" => task'[t].does \in Owning
      BY <2>2 DEF Respond
    <2> QED
      BY <2>1, <2>3, <2>4, <2>5 DEF SnaTypeOK
  <1>2. CASE BusySlept(t)
    <2>1. UNCHANGED <<scheduled, received, bind, inARow, lastSent, pending>>
      BY <1>2 DEF BusySlept
    <2>2. CASE bind /\ SetState("NORMAL") /\ Finish(t)
      BY <2>1, <2>2, FinishEffect DEF SnaTypeOK, SnaStates
    <2>3. CASE /\ task[t].left > 1
               /\ Become(t, "busy", task[t].left - 1)
               /\ UNCHANGED <<sna, gaveUp>>
      <3>1. task[t].left - 1 \in 0..3
        BY <2>3 DEF SnaTypeOK
      <3> QED
        BY <2>1, <2>3, <3>1 DEF SnaTypeOK
    <2>4. CASE /\ Finish(t)
               /\ gaveUp' = (gaveUp \/ sna = "PENDING_RECOVERY")
               /\ UNCHANGED sna
      <3>1. gaveUp' \in BOOLEAN /\ (sna' = "PENDING_RECOVERY" => gaveUp')
        BY <2>4 DEF SnaTypeOK
      <3> QED
        BY <2>1, <2>4, <3>1, FinishEffect DEF SnaTypeOK
    <2> QED
      BY <1>2, <2>2, <2>3, <2>4 DEF BusySlept
  <1>3. CASE Slept(t)
    <2>1. UNCHANGED <<scheduled, received, bind, inARow, lastSent, pending>>
      BY <1>3 DEF Slept
    <2>2. CASE SetState("NORMAL") /\ Finish(t)
      BY <2>1, <2>2, FinishEffect DEF SnaTypeOK, SnaStates
    <2>3. CASE task[t].does = "sleep" /\ Finish(t) /\ UNCHANGED <<sna, gaveUp>>
      BY <2>1, <2>3, FinishEffect DEF SnaTypeOK
    <2>4. CASE /\ Become(t, "negotiate", NegotiateRetries)
               /\ UNCHANGED <<sna, gaveUp>>
      BY <2>1, <2>4 DEF SnaTypeOK
    <2> QED
      BY <1>3, <2>2, <2>3, <2>4 DEF Slept
  <1>4. CASE NegotiateRefused(t)
    BY <1>4, FinishEffect DEF NegotiateRefused, SnaTypeOK, SnaStates
  <1>5. CASE NegotiateOk(t)
    <2>1. /\ inARow' = 0 /\ 0 \in 0..(FailureLimit + 1)
          /\ UNCHANGED <<scheduled, received, bind, lastSent, pending>>
      BY <1>5 DEF NegotiateOk
    <2>2. SetState("NORMAL") /\ Finish(t)
      BY <1>5 DEF NegotiateOk
    <2> QED
      BY <2>1, <2>2, FinishEffect DEF SnaTypeOK, SnaStates
  <1>6. ASSUME NEW timeout \in BOOLEAN, NegotiateFails(t, timeout)
        PROVE  /\ SnaTypeOK'
               /\ SnaEffect(t)
               /\ \A s \in Tasks : s # t => task'[s] = task[s]
    <2>1. /\ inARow' \in 0..(FailureLimit + 1)
          /\ UNCHANGED <<scheduled, received, lastSent, pending>>
      BY <1>6 DEF NegotiateFails, SnaTypeOK
    <2>2. CASE /\ task[t].left > 0
               /\ Become(t, "negotiate", task[t].left - 1)
               /\ UNCHANGED <<sna, gaveUp, bind>>
      <3>1. task[t].left - 1 \in 0..3
        BY <2>2 DEF SnaTypeOK
      <3> QED
        BY <2>1, <2>2, <3>1 DEF SnaTypeOK
    <2>3. CASE SetState("SESSION_DOWN") /\ Finish(t) /\ bind' = FALSE
      BY <2>1, <2>3, FinishEffect DEF SnaTypeOK, SnaStates
    <2> QED
      BY <1>6, <2>2, <2>3 DEF NegotiateFails
  <1> QED
    BY <1>1, <1>2, <1>3, <1>4, <1>5, <1>6 DEF SnaStep

\* Every step keeps PENDING_RECOVERY owned.
LEMMA SnaNextInv == SnaInv /\ [SnaNext]_snaVars => SnaInv'
  <1> SUFFICES ASSUME SnaInv, [SnaNext]_snaVars PROVE SnaInv'
    OBVIOUS
  <1> USE DEF SnaInv
  <1>1. ASSUME NEW t \in Tasks, SnaStep(t)
        PROVE  SnaInv'
    <2>1. /\ SnaTypeOK' /\ SnaEffect(t)
          /\ \A s \in Tasks : s # t => task'[s] = task[s]
      BY <1>1, SnaStepEffect
    <2>2. PendingIsOwned'
      BY <2>1 DEF SnaEffect, PendingIsOwned, Owning
    <2> QED
      BY <2>1, <2>2
  <1>2. ASSUME UNCHANGED <<sna, task, gaveUp>>
        PROVE  PendingIsOwned'
    BY <1>2 DEF PendingIsOwned
  <1>3. ASSUME NEW code \in SenseCodes, SnaResponse(code)
        PROVE  SnaInv'
    BY <1>2, <1>3, AppendProperties DEF SnaResponse, SnaTypeOK
  <1>4. ASSUME NEW b \in BOOLEAN, FunctionsIs(b)
        PROVE  SnaInv'
    BY <1>2, <1>4 DEF FunctionsIs, SnaTypeOK
  <1>5. CASE SendData
    BY <1>2, <1>5 DEF SendData, SnaTypeOK
  <1>6. ASSUME NEW k \in 1..MaxSent, ResponseHeader(k)
        PROVE  SnaInv'
    BY <1>2, <1>6 DEF ResponseHeader, SnaTypeOK
  <1>7. CASE UNCHANGED snaVars
    BY <1>2, <1>7 DEF snaVars, SnaTypeOK
  <1> QED
    BY <1>1, <1>3, <1>4, <1>5, <1>6, <1>7 DEF SnaNext

\* The session starts in NORMAL.
LEMMA SnaInitInv == SnaInit => SnaInv
  <1> SUFFICES ASSUME SnaInit PROVE SnaInv
    OBVIOUS
  <1>1. Idle \in [does : Doings, left : 0..3]
    BY DEF Idle, Doings
  <1>2. <<>> \in Seq(SenseCodes) /\ 0 \in 0..(FailureLimit + 1)
    BY DEF FailureLimit
  <1>3. SnaTypeOK
    BY <1>1, <1>2 DEF SnaInit, SnaTypeOK, SnaStates
  <1> QED
    BY <1>3 DEF SnaInit, SnaInv, PendingIsOwned

\* The negotiator's SNA state, its tasks and its pending requests keep their
\* types: in particular only numbers that were sent are pending.
THEOREM SnaTypes == SnaSpec => []SnaTypeOK
  <1>1. SnaInv => SnaTypeOK
    BY DEF SnaInv
  <1> QED
    BY <1>1, SnaInitInv, SnaNextInv, PTL DEF SnaSpec

\* However many SNA responses overlap, PENDING_RECOVERY has a task that will
\* still set the state, or _handle_lu_busy() has given up on a busy LU.
THEOREM PendingOwned == SnaSpec => []PendingIsOwned
  <1>1. SnaInv => PendingIsOwned
    BY DEF SnaInv
  <1> QED
    BY <1>1, SnaInitInv, SnaNextInv, PTL DEF SnaSpec

-----------------------------------------------------------------------------
(***************************************************************************)
(* Addressing modes.                                                       *)
(***************************************************************************)
Negotiations ==
  [state : Modes \cup {"not_negotiated"}, mode : Modes \cup {NoMode},
   server : Seq(Modes), overridden : BOOLEAN]
Positions == Nat \X Nat
Buffers == [mode : Modes, cursor : Positions, ext : Positions]

AddressingTypeOK ==
  /\ owner \in Owners
  /\ an \in Negotiations
  /\ rowCount \in RowCounts
  /\ ebuf \in Buffers

AddressingInv == AddressingTypeOK /\ AddressingAgrees

\* Steps that leave the screen buffer alone leave it addressable.
LEMMA SameScreen ==
  ASSUME ScreensAreAddressable, UNCHANGED <<rowCount, ebuf>>
  PROVE  ScreensAreAddressable'
  BY DEF ScreensAreAddressable, ValidAddress, MaxPositions, Address, OnScreen

\* A position is given by its row and its column.
LEMMA PositionForm ==
  ASSUME NEW pos \in Positions
  PROVE  pos[1] \in Nat /\ pos[2] \in Nat /\ pos = <<pos[1], pos[2]>>
  BY DEF Positions

\* Settling on a mode names it.
LEMMA SettleNames ==
  ASSUME an \in Negotiations, NEW mode \in Modes, Settle(mode)
  PROVE  an' \in Negotiations /\ StateNamesMode'
  <1>1. an' \in Negotiations
    BY DEF Settle, Negotiations
  <1>2. an'.mode = mode /\ an'.state = mode
    BY DEF Settle, Negotiations
  <1> QED
    BY <1>1, <1>2 DEF StateNamesMode, IsNegotiated

\* A BIND-IMAGE sets the mode, and says whether the state still names it.
LEMMA BindImageNames ==
  ASSUME AddressingInv, NEW image \in Images, LateMode(image) # NoMode,
         an' = [UpdateFromBindImage(image) EXCEPT
                  !.mode = LateMode(image),
                  !.overridden = (LateMode(image) # UpdateFromBindImage(image).state)]
  PROVE  an' \in Negotiations /\ StateNamesMode'
  <1> DEFINE updated == UpdateFromBindImage(image)
  <1>1. LateMode(image) \in Modes /\ EarlyMode(image) \in Modes
    BY DEF LateMode, EarlyMode, ModeOf, Modes, Images
  <1>2. updated \in Negotiations /\ updated.state \in Modes
    <2>1. "14-bit" \in Modes
      BY DEF Modes
    <2>2. Append(an.server, "14-bit") \in Seq(Modes)
      BY <2>1, AppendProperties DEF AddressingInv, AddressingTypeOK, Negotiations
    <2> QED
      BY <1>1, <2>2 DEF UpdateFromBindImage, IsNegotiated, AddressingInv,
                        AddressingTypeOK, Negotiations
  <1> HIDE DEF updated
  <1>3. an' = [updated EXCEPT !.mode = LateMode(image),
                              !.overridden = (LateMode(image) # updated.state)]
    BY DEF updated
  <1>4. an' \in Negotiations
    BY <1>1, <1>2, <1>3 DEF Negotiations
  <1>5. /\ an'.mode = LateMode(image) /\ an'.state = updated.state
        /\ an'.overridden = (LateMode(image) # updated.state)
    BY <1>2, <1>3 DEF Negotiations
  <1> QED
    BY <1>1, <1>2, <1>4, <1>5 DEF StateNamesMode, IsNegotiated

\* set_position() with a position that the mode can address.
LEMMA SetPositionInv ==
  ASSUME AddressingInv, NEW pos \in Positions, NEW strict \in BOOLEAN,
         SetPosition(pos, strict)
  PROVE  AddressingInv'
  <1> USE ScreenSizes DEF AddressingInv, AddressingTypeOK, AddressingAgrees
  <1>1. rowCount \in Nat \ {0} /\ ebuf.mode \in Modes
    BY DEF Buffers
  <1> DEFINE clamped == <<SmallerOf(pos[1], rowCount - 1), SmallerOf(pos[2], Columns - 1)>>
             shown == IF OnScreen(pos) THEN pos ELSE IF strict THEN ebuf.cursor ELSE clamped
  <1>2. clamped \in Positions
    BY <1>1, PositionForm DEF SmallerOf, Positions
  <1>3. shown \in Positions
    BY <1>2 DEF Buffers
  <1>4. /\ ebuf' = [ebuf EXCEPT !.ext = pos, !.cursor = shown]
        /\ UNCHANGED <<owner, an, rowCount>>
        /\ ValidAddress(Address(pos), ebuf.mode)
    BY DEF SetPosition
  <1>5. OnScreen(pos) => shown = pos
    OBVIOUS
  <1> HIDE DEF clamped, shown
  <1>6. ebuf' \in Buffers /\ ebuf'.ext = pos /\ ebuf'.cursor = shown /\ ebuf'.mode = ebuf.mode
    BY <1>3, <1>4 DEF Buffers
  <1>7. ScreensAreAddressable'
    BY <1>4, <1>5, <1>6
    DEF ScreensAreAddressable, ValidAddress, MaxPositions, Address, OnScreen
  <1>8. StateNamesMode'
    BY <1>4 DEF StateNamesMode, IsNegotiated
  <1> QED
    BY <1>4, <1>6, <1>7, <1>8

\* Every step keeps screens addressable and the state true to the mode.
LEMMA AddressingNextInv == AddressingInv /\ [AddressingNext]_addressVars => AddressingInv'
  <1> SUFFICES ASSUME AddressingInv, [AddressingNext]_addressVars PROVE AddressingInv'
    OBVIOUS
  <1>1. /\ owner \in Owners /\ an \in Negotiations /\ rowCount \in RowCounts
        /\ ebuf \in Buffers /\ ScreensAreAddressable /\ StateNamesMode
    BY DEF AddressingInv, AddressingTypeOK, AddressingAgrees
  <1>2. ASSUME an' \in Negotiations, StateNamesMode', UNCHANGED <<owner, rowCount, ebuf>>
        PROVE  AddressingInv'
    BY <1>1, <1>2, SameScreen DEF AddressingInv, AddressingTypeOK, AddressingAgrees
  <1>3. rowCount \in Nat \ {0} /\ Columns \in Nat \ {0}
    BY <1>1, ScreenSizes
  <1>4. ASSUME NEW server \in {<<>>, <<"12-bit", "14-bit">>, <<"14-bit">>},
               ParseServerCapabilities(server)
        PROVE  AddressingInv'
    <2>1. server \in Seq(Modes)
      <3>1. /\ <<>> \in Seq(Modes) /\ <<"12-bit", "14-bit">> \in Seq(Modes)
            /\ <<"14-bit">> \in Seq(Modes)
        BY DEF Modes
      <3> QED
        BY <3>1
    <2>2. an' \in Negotiations /\ StateNamesMode'
      BY <1>1, <1>4, <2>1
      DEF ParseServerCapabilities, Negotiations, StateNamesMode, IsNegotiated
    <2> QED
      BY <1>2, <1>4, <2>2 DEF ParseServerCapabilities
  <1>5. CASE NegotiateMode
    BY <1>1, <1>2, <1>5, SettleNames DEF NegotiateMode, Modes
  <1>6. CASE HandlerNegotiatesMode \/ NegotiatorNegotiatesMode
    <2>1. ClientModes \in Seq(Modes)
      BY DEF ClientModes, Modes
    <2>2. an' \in Negotiations /\ StateNamesMode'
      BY <1>1, <1>6, <2>1
      DEF HandlerNegotiatesMode, NegotiatorNegotiatesMode, Negotiations,
          StateNamesMode, IsNegotiated, Modes
    <2> QED
      BY <1>2, <1>6, <2>2 DEF HandlerNegotiatesMode, NegotiatorNegotiatesMode
  <1>7. CASE Reset
    <2>1. Fresh \in Negotiations
      BY DEF Fresh, Negotiations
    <2>2. StateNamesMode'
      BY <1>7 DEF Reset, Fresh, StateNamesMode, IsNegotiated, Modes, NoMode
    <2> QED
      BY <1>2, <1>7, <2>1, <2>2 DEF Reset
  <1>8. ASSUME NEW image \in Images,
               HandleBindImage(image) \/ HandleBindImageAddressing(image)
        PROVE  AddressingInv'
    BY <1>2, <1>8, BindImageNames DEF HandleBindImage, HandleBindImageAddressing
  <1>9. ASSUME NEW m \in Modes, TransitionToSame(m) \/ TransitionFails(m)
        PROVE  AddressingInv'
    <2>1. CASE UNCHANGED <<an, owner, rowCount, ebuf>>
      BY <1>1, <1>2, <2>1 DEF StateNamesMode, IsNegotiated
    <2>2. CASE TransitionToSame(m)
      BY <1>1, <1>2, <2>1, <2>2, SettleNames DEF TransitionToSame
    <2>3. CASE TransitionFails(m)
      BY <1>1, <1>2, <2>3, SettleNames DEF TransitionFails, Negotiations
    <2> QED
      BY <1>9, <2>2, <2>3
  <1>10. ASSUME NEW m \in Modes, TransitionConverts(m)
         PROVE  AddressingInv'
    <2>1. an' \in Negotiations /\ StateNamesMode'
      BY <1>1, <1>10, SettleNames DEF TransitionConverts
    <2>2. /\ ebuf' = [mode |-> m, cursor |-> ebuf.ext, ext |-> ebuf.ext]
          /\ UNCHANGED <<owner, rowCount>>
          /\ ValidAddress(rowCount * Columns - 1, m)
          /\ ValidAddress(Address(ebuf.ext), m)
      BY <1>10 DEF TransitionConverts, Convert, Convertible
    <2>3. ebuf' \in Buffers
      BY <1>1, <2>2 DEF Buffers
    <2>4. rowCount * Columns \in Nat /\ MaxPositions(m) \in Nat
      BY <1>3, LimitsGrow DEF MaxPositions
    <2>5. rowCount * Columns <= MaxPositions(m)
      BY <2>2, <2>4 DEF ValidAddress
    <2>6. ScreensAreAddressable'
      BY <2>2, <2>5
      DEF ScreensAreAddressable, ValidAddress, MaxPositions, Address, OnScreen
    <2> QED
      BY <1>1, <2>1, <2>2, <2>3, <2>6
      DEF AddressingInv, AddressingTypeOK, AddressingAgrees
  <1>11. CASE WriteChar
    <2> DEFINE next == NextCell(ebuf.cursor)
    <2>1. ebuf.cursor \in Positions
      BY <1>1 DEF Buffers
    <2>2. next \in Positions /\ (OnScreen(ebuf.cursor) => OnScreen(next))
      BY <1>3, <2>1, PositionForm DEF NextCell, OnScreen, Positions
    <2>3. ebuf' = [ebuf EXCEPT !.cursor = next] /\ UNCHANGED <<owner, an, rowCount>>
      BY <1>11 DEF WriteChar
    <2> HIDE DEF next
    <2>4. /\ ebuf' \in Buffers /\ ebuf'.cursor = next
          /\ ebuf'.ext = ebuf.ext /\ ebuf'.mode = ebuf.mode
      BY <1>1, <2>2, <2>3 DEF Buffers
    <2>5. ScreensAreAddressable'
      BY <1>1, <2>2, <2>3, <2>4
      DEF ScreensAreAddressable, ValidAddress, MaxPositions, Address, OnScreen
    <2>6. StateNamesMode'
      BY <1>1, <2>3 DEF StateNamesMode, IsNegotiated
    <2> QED
      BY <1>1, <2>3, <2>4, <2>5, <2>6
      DEF AddressingInv, AddressingTypeOK, AddressingAgrees
  <1>12. ASSUME NEW a \in 0..(Limit14 - 1), SetPositionFromAddress(a)
         PROVE  AddressingInv'
    <2>1. a \div Columns \in Nat /\ a % Columns \in Nat
      BY <1>3
    <2>2. Coords(a) \in Positions
      BY <2>1 DEF Coords, Positions
    <2> QED
      BY <1>12, <2>2, SetPositionInv DEF SetPositionFromAddress
  <1>13. ASSUME NEW c \in 0..Columns, NEW strict \in BOOLEAN,
                SetPosition(<<rowCount - 1, c>>, strict)
         PROVE  AddressingInv'
    <2>1. <<rowCount - 1, c>> \in Positions
      BY <1>3 DEF Positions
    <2> QED
      BY <1>13, <2>1, SetPositionInv
  <1>14. CASE UNCHANGED addressVars
    BY <1>1, <1>2, <1>14 DEF addressVars, StateNamesMode, IsNegotiated
  <1> QED
    BY <1>4, <1>5, <1>6, <1>7, <1>8, <1>9, <1>10, <1>11, <1>12, <1>13, <1>14
    DEF AddressingNext

\* The first screen is made for its mode.
LEMMA AddressingInitInv == AddressingInit => AddressingInv
  <1> SUFFICES ASSUME AddressingInit PROVE AddressingInv
    OBVIOUS
  <1>1. PICK m \in Modes :
          /\ ValidAddress(rowCount * Columns - 1, m)
          /\ ebuf = [mode |-> m, cursor |-> <<0, 0>>, ext |-> <<0, 0>>]
    BY DEF AddressingInit
  <1>2. rowCount \in Nat \ {0} /\ Columns \in Nat \ {0}
    BY ScreenSizes DEF AddressingInit
  <1>3. rowCount * Columns \in Nat /\ MaxPositions(m) \in Nat /\ 0 * Columns = 0
    BY <1>2, LimitsGrow DEF MaxPositions
  <1>4. ScreensAreAddressable
    BY <1>1, <1>2, <1>3 DEF ScreensAreAddressable, ValidAddress, Address, OnScreen
  <1>5. Fresh \in Negotiations /\ ebuf \in Buffers
    BY <1>1 DEF Fresh, Negotiations, Buffers, Positions
  <1>6. StateNamesMode
    BY DEF AddressingInit, Fresh, StateNamesMode, IsNegotiated, Modes, NoMode
  <1> QED
    BY <1>4, <1>5, <1>6
    DEF AddressingInit, AddressingInv, AddressingTypeOK, AddressingAgrees

\* The negotiation's record and the screen buffer keep their types.
THEOREM AddressingTypes == AddressingSpec => []AddressingTypeOK
  <1>1. AddressingInv => AddressingTypeOK
    BY DEF AddressingInv
  <1> QED
    BY <1>1, AddressingInitInv, AddressingNextInv, PTL DEF AddressingSpec

\* For either owner, any screen and any limits of the two modes: no transition,
\* given up or not, leaves a screen its mode cannot address, and the state of
\* the negotiation names the mode unless a BIND-IMAGE has overridden it.
THEOREM AddressingSound == AddressingSpec => []AddressingAgrees
  <1>1. AddressingInv => AddressingAgrees
    BY DEF AddressingInv
  <1> QED
    BY <1>1, AddressingInitInv, AddressingNextInv, PTL DEF AddressingSpec
=============================================================================
