--------------------------- MODULE HandlerProofs ---------------------------
(***************************************************************************)
(* Proofs about Handler for any set of callers and any bounds.             *)
(*                                                                         *)
(* OperationalHasSocket is not inductive: that a connect() resuming on     *)
(* another task's transport finds its socket open rests on when transports *)
(* are created and closed.  Inv adds what is needed.                       *)
(***************************************************************************)
EXTENDS Handler, TLAPS

\* connect() and close() use only part of the transition table: CONNECTED and
\* RECOVERING are never entered.
UsedStates == state \in HandlerState \ {"CONNECTED", "RECOVERING"}

\* A transport's socket is its own, and transports not yet created have none.
TransportSockets ==
  /\ transport \in 0..created
  /\ \A t \in Transports : tsock[t] \in {None, t}
  /\ \A t \in Transports : t > created => tsock[t] = None
  /\ \A c \in Callers : own[c] \in 0..created
  /\ \A c \in Callers : pc[c] = "setup" => own[c] # None

\* The socket a resuming connect() will adopt is open.
ConnectingSocketOpen ==
  state = "CONNECTING" /\ transport # None =>
    tsock[transport] = None \/ tsock[transport] \in open

\* Past the teardown, close() has dropped the transport.
TornDown ==
  \A c \in Callers : pc[c] \in {"wait_closed", "reap"} => transport = None

Inv == /\ TypeOK
       /\ UsedStates
       /\ TransportSockets
       /\ ConnectingSocketOpen
       /\ TornDown
       /\ OperationalHasSocket
       /\ ClosingIsExclusive
       /\ DisconnectedHasNoTransport
       /\ AttemptHasDriver
       /\ AsciiModeFlags

-----------------------------------------------------------------------------
\* Every except clause ends in ERROR, from any state.
LEMMA ErrorAlways == \A s : ChangeState(s, "ERROR", TRUE) = "ERROR"
  BY DEF ChangeState

\* From where a connect() may start, adopt its streams and finish.
LEMMA ConnectTransitions ==
  ASSUME NEW s \in HandlerState, NEW b \in BOOLEAN
  PROVE  /\ Allowed(s, "CONNECTING", b) => s = "DISCONNECTED"
         /\ Allowed(s, "NEGOTIATING", b) => s = "CONNECTING"
         /\ Allowed(s, "TN3270_MODE", b) => b /\ s \in {"NEGOTIATING", "CONNECTED"}
         /\ Allowed(s, "ASCII_MODE", b) => b /\ s \in {"NEGOTIATING", "CONNECTED"}
  BY DEF Allowed, ValidTransitions, HandlerState

\* The last transition of close() is never refused.
LEMMA CloseTransition ==
  ASSUME NEW s \in {"CLOSING", "ERROR"}
  PROVE  Allowed(s, "DISCONNECTED", TRUE)
  BY DEF Allowed, ValidTransitions, HandlerState

-----------------------------------------------------------------------------
\* Inv holds initially.
LEMMA InitInv == Init => Inv
  <1> SUFFICES ASSUME Init PROVE Inv
    OBVIOUS
  <1> USE HandlerAssumption, NoCallerAssumption DEF Init, None
  <1>0. MaxConnects \in Nat \ {0} /\ MaxCloses \in Nat
    BY DEF HandlerAssumption
  <1>1. TypeOK
    <2>1. hwriter \in Sockets \cup {None, MockStream} /\ open \subseteq Sockets
      BY <1>0 DEF Sockets, GivenSocket
    <2>2. tsock \in [Transports -> Sockets \cup {None}]
      OBVIOUS
    <2>3. closes \in 0..MaxCloses /\ created \in 0..MaxConnects
      BY <1>0
    <2>4. pc \in [Callers -> Labels]
      BY DEF Labels
    <2> QED BY <2>1, <2>2, <2>3, <2>4 DEF TypeOK, HandlerState
  <1>2. UsedStates /\ ConnectingSocketOpen /\ OperationalHasSocket
        /\ DisconnectedHasNoTransport /\ AttemptHasDriver /\ AsciiModeFlags
    BY DEF UsedStates, HandlerState, ConnectingSocketOpen, Operational,
           OperationalHasSocket, DisconnectedHasNoTransport, AttemptHasDriver,
           AsciiModeFlags
  <1>3. TransportSockets
    BY DEF TransportSockets
  <1>4. TornDown /\ ClosingIsExclusive
    BY DEF TornDown, ClosingIsExclusive, Closing
  <1> QED BY <1>1, <1>2, <1>3, <1>4 DEF Inv
-----------------------------------------------------------------------------
(***************************************************************************)
(* Every action keeps Inv.                                                 *)
(**************************************************************************)
\* close() cancelled its background tasks and waits for them ...
Waits(c, from) ==
  /\ pc' = [pc EXCEPT ![c] = "reap"]
  /\ state' = from
  /\ lock' = c
  /\ UNCHANGED <<connected, own, result>>

\* ... or had none and is over.
Ends(c) ==
  /\ pc' = [pc EXCEPT ![c] = "idle"]
  /\ state' = "DISCONNECTED"
  /\ connected' = FALSE
  /\ lock' = NoCaller
  /\ own' = [own EXCEPT ![c] = None]
  /\ result' = [result EXCEPT ![c] = "closed"]

\* What follows the teardown in close() succeeds from CLOSING and from ERROR.
LEMMA ReapOutcome ==
  ASSUME NEW c, NEW from \in {"CLOSING", "ERROR"}, Reap(c, from)
  PROVE  Waits(c, from) \/ Ends(c)
  BY CloseTransition DEF Reap, Finish, Return, Goto, ChangeState, Waits, Ends

\* A step of Connect keeps Inv.
LEMMA ConnectInv ==
  ASSUME Inv, NEW c \in Callers, Connect(c)
  PROVE  Inv'
  <1> USE HandlerAssumption, NoCallerAssumption
      DEF modes, streams, HandlerAssumption,
      None, Inv, TypeOK, UsedStates, TransportSockets, ConnectingSocketOpen,
      TornDown, OperationalHasSocket, ClosingIsExclusive, Closing,
      DisconnectedHasNoTransport, AttemptHasDriver, AsciiModeFlags
  <1>1. CASE Allowed(state, "CONNECTING", TRUE)
    <2>a. /\ state = "DISCONNECTED" /\ state' = "CONNECTING"
      BY <1>1, ConnectTransitions DEF ChangeState, Connect
    <2>b. /\ transport = None /\ created + 1 \in Transports
         /\ transport' = created + 1 /\ created' = created + 1
         /\ pc' = [pc EXCEPT ![c] = "setup"]
         /\ own' = [own EXCEPT ![c] = created + 1]
         /\ UNCHANGED <<connected, hAscii, nAscii, tn3270e, tsock, hwriter,
                        open, result, lock, closes>>
      BY <1>1, <2>a DEF Connect, modes, streams, Goto, Return
    <2>1. TypeOK'
      <3>1. created + 1 \in 0..MaxConnects
        BY <2>b DEF Transports
      <3>2. pc' \in [Callers -> Labels]
        BY <2>b DEF Labels
      <3>3. own' \in [Callers -> Transports \cup {None}]
        BY <2>b
      <3> QED
        BY <2>a, <2>b, <3>1, <3>2, <3>3 DEF HandlerState
    <2>2. TransportSockets'
      BY <1>1, <2>a, <2>b DEF Transports, Sockets
    <2>3. (UsedStates /\ DisconnectedHasNoTransport /\ ConnectingSocketOpen
           /\ OperationalHasSocket)'
      BY <1>1, <2>a, <2>b DEF HandlerState, Operational, Transports, Sockets
    <2>4. (TornDown /\ ClosingIsExclusive /\ AttemptHasDriver /\ AsciiModeFlags)'
      BY <1>1, <2>a, <2>b
    <2> QED BY <2>1, <2>2, <2>3, <2>4
  <1>2. CASE ~Allowed(state, "CONNECTING", TRUE)
    <2>a. /\ state' = "ERROR" /\ pc[c] = "idle"
         /\ pc' = [pc EXCEPT ![c] = "idle"]
         /\ own' = [own EXCEPT ![c] = None]
         /\ result' = [result EXCEPT ![c] = "failed"]
         /\ UNCHANGED <<connected, modes, streams, lock, closes>>
      BY <1>2 DEF Connect, modes, streams, Goto, Return, ChangeState
    <2>1. TypeOK'
      BY <1>2, <2>a DEF HandlerState, Labels, Sockets, Transports, GivenSocket
    <2>2. TransportSockets'
      BY <1>2, <2>a DEF Transports, Sockets
    <2>3. (UsedStates /\ DisconnectedHasNoTransport /\ ConnectingSocketOpen
           /\ OperationalHasSocket)'
      BY <1>2, <2>a DEF HandlerState, Operational, Transports, Sockets
    <2>4. (TornDown /\ ClosingIsExclusive /\ AttemptHasDriver /\ AsciiModeFlags)'
      BY <1>2, <2>a
    <2> QED BY <2>1, <2>2, <2>3, <2>4
  <1> QED BY <1>1, <1>2

\* A step of CloseCall keeps Inv.
LEMMA CloseCallInv ==
  ASSUME Inv, NEW c \in Callers, CloseCall(c)
  PROVE  Inv'
  <1> USE HandlerAssumption, NoCallerAssumption
      DEF CloseCall, modes, streams, Goto, HandlerAssumption,
      None, Inv, TypeOK, UsedStates, TransportSockets, ConnectingSocketOpen,
      TornDown, OperationalHasSocket, ClosingIsExclusive, Closing,
      DisconnectedHasNoTransport, AttemptHasDriver, AsciiModeFlags
  <1>1. TypeOK'
    BY DEF HandlerState, Labels, Sockets, Transports, GivenSocket
  <1>2. TransportSockets'
    BY DEF Transports, Sockets
  <1>3. (UsedStates /\ DisconnectedHasNoTransport /\ ConnectingSocketOpen
         /\ OperationalHasSocket)'
    BY DEF HandlerState, Operational, Transports, Sockets
  <1>4. (TornDown /\ ClosingIsExclusive /\ AttemptHasDriver /\ AsciiModeFlags)'
    OBVIOUS
  <1> QED BY <1>1, <1>2, <1>3, <1>4

\* A step of SetAsciiMode keeps Inv.
LEMMA SetAsciiModeInv ==
  ASSUME Inv, NEW c \in Callers, SetAsciiMode(c)
  PROVE  Inv'
  <1> USE HandlerAssumption, NoCallerAssumption
      DEF SetAsciiMode, modes, streams, FallBackToAscii, HandlerAssumption,
      None, Inv, TypeOK, UsedStates, TransportSockets, ConnectingSocketOpen,
      TornDown, OperationalHasSocket, ClosingIsExclusive, Closing,
      DisconnectedHasNoTransport, AttemptHasDriver, AsciiModeFlags
  <1>1. TypeOK'
    BY DEF HandlerState, Labels, Sockets, Transports, GivenSocket
  <1>2. TransportSockets'
    BY DEF Transports, Sockets
  <1>3. (UsedStates /\ DisconnectedHasNoTransport /\ ConnectingSocketOpen
         /\ OperationalHasSocket)'
    BY DEF HandlerState, Operational, Transports, Sockets
  <1>4. (TornDown /\ ClosingIsExclusive /\ AttemptHasDriver /\ AsciiModeFlags)'
    OBVIOUS
  <1> QED BY <1>1, <1>2, <1>3, <1>4

\* A step of SocketOpened keeps Inv.
LEMMA SocketOpenedInv ==
  ASSUME Inv, NEW c \in Callers, SocketOpened(c)
  PROVE  Inv'
  <1> USE HandlerAssumption, NoCallerAssumption
      DEF SocketOpened, modes, streams, Goto, HandlerAssumption,
      None, Inv, TypeOK, UsedStates, TransportSockets, ConnectingSocketOpen,
      TornDown, OperationalHasSocket, ClosingIsExclusive, Closing,
      DisconnectedHasNoTransport, AttemptHasDriver, AsciiModeFlags
  <1>0. own[c] \in Transports /\ own[c] \in Sockets
    BY DEF Transports, Sockets, GivenSocket
  <1>1. TypeOK'
    <2>1. pc' \in [Callers -> Labels]
      BY DEF Labels
    <2>2. tsock' \in [Transports -> Sockets \cup {None}] /\ open' \subseteq Sockets
      BY <1>0
    <2> QED
      BY <2>1, <2>2
  <1>2. TransportSockets'
    BY <1>0 DEF Transports, Sockets
  <1>3. (UsedStates /\ DisconnectedHasNoTransport /\ ConnectingSocketOpen
         /\ OperationalHasSocket)'
    BY <1>0 DEF HandlerState, Operational, Transports, Sockets
  <1>4. (TornDown /\ ClosingIsExclusive /\ AttemptHasDriver /\ AsciiModeFlags)'
    BY <1>0
  <1> QED BY <1>1, <1>2, <1>3, <1>4

\* A step of SetupFails keeps Inv.
LEMMA SetupFailsInv ==
  ASSUME Inv, NEW c \in Callers, SetupFails(c)
  PROVE  Inv'
  <1> USE HandlerAssumption, NoCallerAssumption
      DEF SetupFails, modes, streams, Fail, Return, Goto, HandlerAssumption,
      None, Inv, TypeOK, UsedStates, TransportSockets, ConnectingSocketOpen,
      TornDown, OperationalHasSocket, ClosingIsExclusive, Closing,
      DisconnectedHasNoTransport, AttemptHasDriver, AsciiModeFlags
  <1>0. state' = "ERROR"
    BY ErrorAlways
  <1>1. TypeOK'
    BY <1>0 DEF HandlerState, Labels, Sockets, Transports, GivenSocket
  <1>2. TransportSockets'
    BY <1>0 DEF Transports, Sockets
  <1>3. (UsedStates /\ DisconnectedHasNoTransport /\ ConnectingSocketOpen
         /\ OperationalHasSocket)'
    BY <1>0 DEF HandlerState, Operational, Transports, Sockets
  <1>4. (TornDown /\ ClosingIsExclusive /\ AttemptHasDriver /\ AsciiModeFlags)'
    BY <1>0
  <1> QED BY <1>1, <1>2, <1>3, <1>4

\* A step of Resume keeps Inv.
LEMMA ResumeInv ==
  ASSUME Inv, NEW c \in Callers, Resume(c)
  PROVE  Inv'
  <1> USE HandlerAssumption, NoCallerAssumption
      DEF modes, streams, HandlerAssumption,
      None, Inv, TypeOK, UsedStates, TransportSockets, ConnectingSocketOpen,
      TornDown, OperationalHasSocket, ClosingIsExclusive, Closing,
      DisconnectedHasNoTransport, AttemptHasDriver, AsciiModeFlags
  <1>1. CASE ~HasStreams
    <2>a. /\ state' = "ERROR" /\ pc[c] = "opened"
         /\ pc' = [pc EXCEPT ![c] = "idle"]
         /\ own' = [own EXCEPT ![c] = None]
         /\ result' = [result EXCEPT ![c] = "failed"]
         /\ UNCHANGED <<connected, modes, streams, lock, closes>>
      BY <1>1, ErrorAlways DEF Resume, modes, streams, HasStreams, Fail, Return, Goto
    <2>1. TypeOK'
      BY <1>1, <2>a DEF HandlerState, Labels, Sockets, Transports, GivenSocket
    <2>2. TransportSockets'
      BY <1>1, <2>a DEF Transports, Sockets
    <2>3. (UsedStates /\ DisconnectedHasNoTransport /\ ConnectingSocketOpen
           /\ OperationalHasSocket)'
      BY <1>1, <2>a DEF HandlerState, Operational, Transports, Sockets
    <2>4. (TornDown /\ ClosingIsExclusive /\ AttemptHasDriver /\ AsciiModeFlags)'
      BY <1>1, <2>a
    <2> QED BY <2>1, <2>2, <2>3, <2>4
  <1>2. CASE HasStreams /\ Allowed(state, "NEGOTIATING", TRUE)
    <2>a. /\ state = "CONNECTING" /\ state' = "NEGOTIATING"
      BY <1>2, ConnectTransitions DEF ChangeState, Resume, HasStreams
    <2>b. /\ pc[c] = "opened" /\ transport # None /\ tsock[transport] # None
         /\ hwriter' = tsock[transport] /\ connected' = TRUE
         /\ pc' = [pc EXCEPT ![c] = "telnet"]
         /\ own' = [own EXCEPT ![c] = transport]
         /\ UNCHANGED <<result, modes, transport, created, tsock, open, lock,
                        closes>>
      BY <1>2, <2>a DEF Resume, modes, streams, HasStreams, Fail, Return, Goto
    <2>1. TypeOK'
      BY <1>2, <2>a, <2>b DEF HandlerState, Labels, Sockets, Transports, GivenSocket
    <2>2. TransportSockets'
      BY <1>2, <2>a, <2>b DEF Transports, Sockets
    <2>3. (UsedStates /\ DisconnectedHasNoTransport /\ ConnectingSocketOpen
           /\ OperationalHasSocket)'
      BY <1>2, <2>a, <2>b DEF HandlerState, Operational, Transports, Sockets
    <2>4. (TornDown /\ ClosingIsExclusive /\ AttemptHasDriver /\ AsciiModeFlags)'
      BY <1>2, <2>a, <2>b
    <2> QED BY <2>1, <2>2, <2>3, <2>4
  <1>3. CASE HasStreams /\ ~Allowed(state, "NEGOTIATING", TRUE)
    <2>a. /\ state' = "ERROR" /\ pc[c] = "opened" /\ transport # None
         /\ hwriter' = tsock[transport] /\ connected' = TRUE
         /\ pc' = [pc EXCEPT ![c] = "idle"]
         /\ own' = [own EXCEPT ![c] = None]
         /\ result' = [result EXCEPT ![c] = "failed"]
         /\ UNCHANGED <<modes, transport, created, tsock, open, lock, closes>>
      BY <1>3 DEF Resume, modes, streams, HasStreams, Fail, Return, Goto, ChangeState
    <2>1. TypeOK'
      BY <1>3, <2>a DEF HandlerState, Labels, Sockets, Transports, GivenSocket
    <2>2. TransportSockets'
      BY <1>3, <2>a DEF Transports, Sockets
    <2>3. (UsedStates /\ DisconnectedHasNoTransport /\ ConnectingSocketOpen
           /\ OperationalHasSocket)'
      BY <1>3, <2>a DEF HandlerState, Operational, Transports, Sockets
    <2>4. (TornDown /\ ClosingIsExclusive /\ AttemptHasDriver /\ AsciiModeFlags)'
      BY <1>3, <2>a
    <2> QED BY <2>1, <2>2, <2>3, <2>4
  <1> QED BY <1>1, <1>2, <1>3

\* A step of TelnetDone keeps Inv.
LEMMA TelnetDoneInv ==
  ASSUME Inv, NEW c \in Callers, TelnetDone(c)
  PROVE  Inv'
  <1> USE HandlerAssumption, NoCallerAssumption
      DEF modes, streams, HandlerAssumption,
      None, Inv, TypeOK, UsedStates, TransportSockets, ConnectingSocketOpen,
      TornDown, OperationalHasSocket, ClosingIsExclusive, Closing,
      DisconnectedHasNoTransport, AttemptHasDriver, AsciiModeFlags
  <1>1. CASE transport = None
    <2>a. /\ state' = "ERROR" /\ pc[c] = "telnet"
         /\ pc' = [pc EXCEPT ![c] = "idle"]
         /\ own' = [own EXCEPT ![c] = None]
         /\ result' = [result EXCEPT ![c] = "failed"]
         /\ UNCHANGED <<connected, tn3270e, streams, lock, closes>>
      BY <1>1, ErrorAlways DEF TelnetDone, modes, streams, Fail, Return, Goto, FallBackToAscii
    <2>b. /\ hAscii' \in BOOLEAN /\ nAscii' \in BOOLEAN
      BY <1>1, <2>a DEF TelnetDone, modes, streams, Fail, Return, Goto, FallBackToAscii
    <2>1. TypeOK'
      BY <1>1, <2>a, <2>b DEF HandlerState, Labels, Sockets, Transports, GivenSocket
    <2>2. TransportSockets'
      BY <1>1, <2>a, <2>b DEF Transports, Sockets
    <2>3. (UsedStates /\ DisconnectedHasNoTransport /\ ConnectingSocketOpen
           /\ OperationalHasSocket)'
      BY <1>1, <2>a, <2>b DEF HandlerState, Operational, Transports, Sockets
    <2>4. (TornDown /\ ClosingIsExclusive /\ AttemptHasDriver /\ AsciiModeFlags)'
      BY <1>1, <2>a, <2>b
    <2> QED BY <2>1, <2>2, <2>3, <2>4
  <1>2. CASE transport # None
    <2>a. /\ pc[c] = "telnet"
         /\ pc' = [pc EXCEPT ![c] = "tn3270"]
         /\ own' = [own EXCEPT ![c] = transport]
         /\ UNCHANGED <<state, result, connected, tn3270e, streams, lock, closes>>
      BY <1>2 DEF TelnetDone, modes, streams, Fail, Return, Goto, FallBackToAscii
    <2>b. /\ hAscii' \in BOOLEAN /\ nAscii' \in BOOLEAN
      BY <1>2, <2>a DEF TelnetDone, modes, streams, Fail, Return, Goto, FallBackToAscii
    <2>1. TypeOK'
      BY <1>2, <2>a, <2>b DEF HandlerState, Labels, Sockets, Transports, GivenSocket
    <2>2. TransportSockets'
      BY <1>2, <2>a, <2>b DEF Transports, Sockets
    <2>3. (UsedStates /\ DisconnectedHasNoTransport /\ ConnectingSocketOpen
           /\ OperationalHasSocket)'
      BY <1>2, <2>a, <2>b DEF HandlerState, Operational, Transports, Sockets
    <2>4. (TornDown /\ ClosingIsExclusive /\ AttemptHasDriver)'
      BY <1>2, <2>a, <2>b
    <2>5. AsciiModeFlags'
      <3>1. CASE UNCHANGED modes
        BY <2>a, <3>1
      <3>2. CASE FallBackToAscii
        BY <3>2 DEF FallBackToAscii
      <3> QED BY <3>1, <3>2 DEF TelnetDone
    <2> QED BY <2>1, <2>2, <2>3, <2>4, <2>5
  <1> QED BY <1>1, <1>2

\* A step of TelnetFails keeps Inv.
LEMMA TelnetFailsInv ==
  ASSUME Inv, NEW c \in Callers, TelnetFails(c)
  PROVE  Inv'
  <1> USE HandlerAssumption, NoCallerAssumption
      DEF TelnetFails, modes, streams, Fail, Return, Goto, ResetNegotiation, HandlerAssumption,
      None, Inv, TypeOK, UsedStates, TransportSockets, ConnectingSocketOpen,
      TornDown, OperationalHasSocket, ClosingIsExclusive, Closing,
      DisconnectedHasNoTransport, AttemptHasDriver, AsciiModeFlags
  <1>0. state' = "ERROR"
    BY ErrorAlways
  <1>1. TypeOK'
    BY <1>0 DEF HandlerState, Labels, Sockets, Transports, GivenSocket
  <1>2. TransportSockets'
    BY <1>0 DEF Transports, Sockets
  <1>3. (UsedStates /\ DisconnectedHasNoTransport /\ ConnectingSocketOpen
         /\ OperationalHasSocket)'
    BY <1>0 DEF HandlerState, Operational, Transports, Sockets
  <1>4. (TornDown /\ ClosingIsExclusive /\ AttemptHasDriver /\ AsciiModeFlags)'
    BY <1>0
  <1> QED BY <1>1, <1>2, <1>3, <1>4

\* A step of Tn3270Done keeps Inv.
LEMMA Tn3270DoneInv ==
  ASSUME Inv, NEW c \in Callers, Tn3270Done(c)
  PROVE  Inv'
  <1> USE HandlerAssumption, NoCallerAssumption
      DEF modes, streams, HandlerAssumption,
      None, Inv, TypeOK, UsedStates, TransportSockets, ConnectingSocketOpen,
      TornDown, OperationalHasSocket, ClosingIsExclusive, Closing,
      DisconnectedHasNoTransport, AttemptHasDriver, AsciiModeFlags
  <1>1. CASE Allowed(state, FinalMode(nAscii'), hAscii' = nAscii')
    <2>a. /\ pc[c] = "tn3270" /\ pc' = [pc EXCEPT ![c] = "idle"]
         /\ own' = [own EXCEPT ![c] = None]
         /\ result' = [result EXCEPT ![c] = "connected"]
         /\ state' = FinalMode(nAscii')
         /\ UNCHANGED <<connected, streams, lock, closes>>
      BY <1>1 DEF Tn3270Done, modes, streams, Return, Goto, FallBackToAscii, ChangeState
    <2>b. /\ hAscii' \in BOOLEAN /\ nAscii' \in BOOLEAN
         /\ tn3270e' \in BOOLEAN
      BY <1>1, <2>a DEF Tn3270Done, modes, streams, Return, Goto, FallBackToAscii
    <2>c. state = "NEGOTIATING" /\ hAscii' = nAscii' 
      BY <1>1, <2>a, <2>b, ConnectTransitions DEF FinalMode
    <2>d. state' \in {"ASCII_MODE", "TN3270_MODE"} /\ (state' = "ASCII_MODE" => nAscii')
      BY <1>1, <2>a, <2>b, <2>c DEF FinalMode
    <2>1. TypeOK'
      BY <1>1, <2>a, <2>b, <2>c, <2>d DEF HandlerState, Labels, Sockets, Transports, GivenSocket
    <2>2. TransportSockets'
      BY <1>1, <2>a, <2>b, <2>c, <2>d DEF Transports, Sockets
    <2>3. (UsedStates /\ DisconnectedHasNoTransport /\ ConnectingSocketOpen
           /\ OperationalHasSocket)'
      BY <1>1, <2>a, <2>b, <2>c, <2>d DEF HandlerState, Operational, Transports, Sockets
    <2>4. (TornDown /\ ClosingIsExclusive /\ AttemptHasDriver /\ AsciiModeFlags)'
      BY <1>1, <2>a, <2>b, <2>c, <2>d
    <2> QED BY <2>1, <2>2, <2>3, <2>4
  <1>2. CASE ~Allowed(state, FinalMode(nAscii'), hAscii' = nAscii')
    <2>a. /\ pc[c] = "tn3270" /\ pc' = [pc EXCEPT ![c] = "idle"]
         /\ own' = [own EXCEPT ![c] = None]
         /\ result' = [result EXCEPT ![c] = "failed"]
         /\ state' = "ERROR"
         /\ UNCHANGED <<connected, streams, lock, closes>>
      BY <1>2 DEF Tn3270Done, modes, streams, Return, Goto, FallBackToAscii, ChangeState
    <2>b. /\ hAscii' \in BOOLEAN /\ nAscii' \in BOOLEAN
         /\ tn3270e' \in BOOLEAN
      BY <1>2, <2>a DEF Tn3270Done, modes, streams, Return, Goto, FallBackToAscii
    <2>1. TypeOK'
      BY <1>2, <2>a, <2>b DEF HandlerState, Labels, Sockets, Transports, GivenSocket
    <2>2. TransportSockets'
      BY <1>2, <2>a, <2>b DEF Transports, Sockets
    <2>3. (UsedStates /\ DisconnectedHasNoTransport /\ ConnectingSocketOpen
           /\ OperationalHasSocket)'
      BY <1>2, <2>a, <2>b DEF HandlerState, Operational, Transports, Sockets
    <2>4. (TornDown /\ ClosingIsExclusive /\ AttemptHasDriver /\ AsciiModeFlags)'
      BY <1>2, <2>a, <2>b
    <2> QED BY <2>1, <2>2, <2>3, <2>4
  <1> QED BY <1>1, <1>2

\* A step of Tn3270Fails keeps Inv.
LEMMA Tn3270FailsInv ==
  ASSUME Inv, NEW c \in Callers, Tn3270Fails(c)
  PROVE  Inv'
  <1> USE HandlerAssumption, NoCallerAssumption
      DEF Tn3270Fails, modes, streams, Fail, Return, Goto, ResetNegotiation, HandlerAssumption,
      None, Inv, TypeOK, UsedStates, TransportSockets, ConnectingSocketOpen,
      TornDown, OperationalHasSocket, ClosingIsExclusive, Closing,
      DisconnectedHasNoTransport, AttemptHasDriver, AsciiModeFlags
  <1>0. state' = "ERROR"
    BY ErrorAlways
  <1>1. TypeOK'
    BY <1>0 DEF HandlerState, Labels, Sockets, Transports, GivenSocket
  <1>2. TransportSockets'
    BY <1>0 DEF Transports, Sockets
  <1>3. (UsedStates /\ DisconnectedHasNoTransport /\ ConnectingSocketOpen
         /\ OperationalHasSocket)'
    BY <1>0 DEF HandlerState, Operational, Transports, Sockets
  <1>4. (TornDown /\ ClosingIsExclusive /\ AttemptHasDriver /\ AsciiModeFlags)'
    BY <1>0
  <1> QED BY <1>1, <1>2, <1>3, <1>4

\* A step of CloseStart keeps Inv.
LEMMA CloseStartInv ==
  ASSUME Inv, NEW c \in Callers, CloseStart(c)
  PROVE  Inv'
  <1> USE HandlerAssumption, NoCallerAssumption
      DEF modes, streams, Waits, Ends, HandlerAssumption,
      None, Inv, TypeOK, UsedStates, TransportSockets, ConnectingSocketOpen,
      TornDown, OperationalHasSocket, ClosingIsExclusive, Closing,
      DisconnectedHasNoTransport, AttemptHasDriver, AsciiModeFlags
  <1>1. CASE HasStreams
    <2>a. /\ pc[c] = "lockwait" /\ lock = NoCaller
         /\ transport # None /\ tsock[transport] # None
         /\ pc' = [pc EXCEPT ![c] = "teardown"]
         /\ own' = [own EXCEPT ![c] = transport]
         /\ open' = open \ {tsock[transport]}
         /\ state' = "CLOSING" /\ lock' = c
         /\ UNCHANGED <<connected, result, transport, hwriter, modes, created,
                        tsock, closes>>
      BY <1>1 DEF CloseStart, modes, streams, HasStreams, Suspend, Goto
    <2>1. TypeOK'
      BY <1>1, <2>a DEF HandlerState, Labels, Sockets, Transports, GivenSocket
    <2>2. TransportSockets'
      BY <1>1, <2>a DEF Transports, Sockets
    <2>3. (UsedStates /\ DisconnectedHasNoTransport /\ ConnectingSocketOpen
           /\ OperationalHasSocket)'
      BY <1>1, <2>a DEF HandlerState, Operational, Transports, Sockets
    <2>4. (TornDown /\ ClosingIsExclusive /\ AttemptHasDriver /\ AsciiModeFlags)'
      BY <1>1, <2>a
    <2> QED BY <2>1, <2>2, <2>3, <2>4
  <1>2. CASE transport = None /\ hwriter \in Sockets
    <2>a. /\ pc[c] = "lockwait" /\ lock = NoCaller
         /\ pc' = [pc EXCEPT ![c] = "wait_closed"]
         /\ own' = [own EXCEPT ![c] = transport]
         /\ open' = open \ {hwriter}
         /\ state' = "CLOSING" /\ lock' = c
         /\ UNCHANGED <<connected, result, transport, hwriter, modes, created,
                        tsock, closes>>
      BY <1>2 DEF CloseStart, modes, streams, HasStreams, Suspend, Goto
    <2>1. TypeOK'
      BY <1>2, <2>a DEF HandlerState, Labels, Sockets, Transports, GivenSocket
    <2>2. TransportSockets'
      BY <1>2, <2>a DEF Transports, Sockets
    <2>3. (UsedStates /\ DisconnectedHasNoTransport /\ ConnectingSocketOpen
           /\ OperationalHasSocket)'
      BY <1>2, <2>a DEF HandlerState, Operational, Transports, Sockets
    <2>4. (TornDown /\ ClosingIsExclusive /\ AttemptHasDriver /\ AsciiModeFlags)'
      BY <1>2, <2>a
    <2> QED BY <2>1, <2>2, <2>3, <2>4
  <1>3. CASE ~HasStreams /\ (transport # None \/ hwriter \notin Sockets) /\ Waits(c, "CLOSING")
    <2>a. /\ pc[c] = "lockwait" /\ lock = NoCaller
         /\ transport' = None /\ hwriter' \in {hwriter, None}
         /\ UNCHANGED <<open, modes, created, tsock, closes>>
      BY <1>3 DEF CloseStart, modes, streams, HasStreams, Suspend
    <2>1. TypeOK'
      BY <1>3, <2>a DEF HandlerState, Labels, Sockets, Transports, GivenSocket
    <2>2. TransportSockets'
      BY <1>3, <2>a DEF Transports, Sockets
    <2>3. (UsedStates /\ DisconnectedHasNoTransport /\ ConnectingSocketOpen
           /\ OperationalHasSocket)'
      BY <1>3, <2>a DEF HandlerState, Operational, Transports, Sockets
    <2>4. (TornDown /\ ClosingIsExclusive /\ AttemptHasDriver /\ AsciiModeFlags)'
      BY <1>3, <2>a
    <2> QED BY <2>1, <2>2, <2>3, <2>4
  <1>4. CASE ~HasStreams /\ (transport # None \/ hwriter \notin Sockets) /\ Ends(c)
    <2>a. /\ pc[c] = "lockwait" /\ lock = NoCaller
         /\ transport' = None /\ hwriter' \in {hwriter, None}
         /\ UNCHANGED <<open, modes, created, tsock, closes>>
      BY <1>4 DEF CloseStart, modes, streams, HasStreams, Suspend
    <2>1. TypeOK'
      BY <1>4, <2>a DEF HandlerState, Labels, Sockets, Transports, GivenSocket
    <2>2. TransportSockets'
      BY <1>4, <2>a DEF Transports, Sockets
    <2>3. (UsedStates /\ DisconnectedHasNoTransport /\ ConnectingSocketOpen
           /\ OperationalHasSocket)'
      BY <1>4, <2>a DEF HandlerState, Operational, Transports, Sockets
    <2>4. (TornDown /\ ClosingIsExclusive /\ AttemptHasDriver /\ AsciiModeFlags)'
      BY <1>4, <2>a
    <2> QED BY <2>1, <2>2, <2>3, <2>4
  <1> QED BY <1>1, <1>2, <1>3, <1>4, ReapOutcome DEF CloseStart, HasStreams

\* A step of CloseTornDown keeps Inv.
LEMMA CloseTornDownInv ==
  ASSUME Inv, NEW c \in Callers, CloseTornDown(c)
  PROVE  Inv'
  <1> USE HandlerAssumption, NoCallerAssumption
      DEF modes, streams, Waits, Ends, HandlerAssumption,
      None, Inv, TypeOK, UsedStates, TransportSockets, ConnectingSocketOpen,
      TornDown, OperationalHasSocket, ClosingIsExclusive, Closing,
      DisconnectedHasNoTransport, AttemptHasDriver, AsciiModeFlags
  <1>1. CASE Waits(c, state)
    <2>a. /\ pc[c] = "teardown" /\ state \in {"CLOSING", "ERROR"} /\ lock = c
         /\ transport' = None /\ tsock' = [tsock EXCEPT ![own[c]] = None]
         /\ UNCHANGED <<hwriter, open, modes, created, closes>>
      BY <1>1 DEF CloseTornDown, modes, streams
    <2>1. TypeOK'
      BY <1>1, <2>a DEF HandlerState, Labels, Sockets, Transports, GivenSocket
    <2>2. TransportSockets'
      BY <1>1, <2>a DEF Transports, Sockets
    <2>3. (UsedStates /\ DisconnectedHasNoTransport /\ ConnectingSocketOpen
           /\ OperationalHasSocket)'
      BY <1>1, <2>a DEF HandlerState, Operational, Transports, Sockets
    <2>4. (TornDown /\ ClosingIsExclusive /\ AttemptHasDriver /\ AsciiModeFlags)'
      BY <1>1, <2>a
    <2> QED BY <2>1, <2>2, <2>3, <2>4
  <1>2. CASE Ends(c)
    <2>a. /\ pc[c] = "teardown" /\ state \in {"CLOSING", "ERROR"} /\ lock = c
         /\ transport' = None /\ tsock' = [tsock EXCEPT ![own[c]] = None]
         /\ UNCHANGED <<hwriter, open, modes, created, closes>>
      BY <1>2 DEF CloseTornDown, modes, streams
    <2>1. TypeOK'
      BY <1>2, <2>a DEF HandlerState, Labels, Sockets, Transports, GivenSocket
    <2>2. TransportSockets'
      BY <1>2, <2>a DEF Transports, Sockets
    <2>3. (UsedStates /\ DisconnectedHasNoTransport /\ ConnectingSocketOpen
           /\ OperationalHasSocket)'
      BY <1>2, <2>a DEF HandlerState, Operational, Transports, Sockets
    <2>4. (TornDown /\ ClosingIsExclusive /\ AttemptHasDriver /\ AsciiModeFlags)'
      BY <1>2, <2>a
    <2> QED BY <2>1, <2>2, <2>3, <2>4
  <1>3. state \in {"CLOSING", "ERROR"}
    BY DEF CloseTornDown
  <1>4. Reap(c, state)
    BY DEF CloseTornDown
  <1>5. Waits(c, state) \/ Ends(c)
    BY ONLY <1>3, <1>4, ReapOutcome
  <1> QED BY <1>1, <1>2, <1>5

\* A step of CloseWriterClosed keeps Inv.
LEMMA CloseWriterClosedInv ==
  ASSUME Inv, NEW c \in Callers, CloseWriterClosed(c)
  PROVE  Inv'
  <1> USE HandlerAssumption, NoCallerAssumption
      DEF modes, streams, Waits, Ends, HandlerAssumption,
      None, Inv, TypeOK, UsedStates, TransportSockets, ConnectingSocketOpen,
      TornDown, OperationalHasSocket, ClosingIsExclusive, Closing,
      DisconnectedHasNoTransport, AttemptHasDriver, AsciiModeFlags
  <1>1. CASE Waits(c, state)
    <2>a. /\ pc[c] = "wait_closed" /\ state \in {"CLOSING", "ERROR"} /\ lock = c
         /\ hwriter' = None /\ transport = None
         /\ UNCHANGED <<transport, tsock, open, modes, created, closes>>
      BY <1>1 DEF CloseWriterClosed, modes, streams
    <2>1. TypeOK'
      BY <1>1, <2>a DEF HandlerState, Labels, Sockets, Transports, GivenSocket
    <2>2. TransportSockets'
      BY <1>1, <2>a DEF Transports, Sockets
    <2>3. (UsedStates /\ DisconnectedHasNoTransport /\ ConnectingSocketOpen
           /\ OperationalHasSocket)'
      BY <1>1, <2>a DEF HandlerState, Operational, Transports, Sockets
    <2>4. (TornDown /\ ClosingIsExclusive /\ AttemptHasDriver /\ AsciiModeFlags)'
      BY <1>1, <2>a
    <2> QED BY <2>1, <2>2, <2>3, <2>4
  <1>2. CASE Ends(c)
    <2>a. /\ pc[c] = "wait_closed" /\ state \in {"CLOSING", "ERROR"} /\ lock = c
         /\ hwriter' = None /\ transport = None
         /\ UNCHANGED <<transport, tsock, open, modes, created, closes>>
      BY <1>2 DEF CloseWriterClosed, modes, streams
    <2>1. TypeOK'
      BY <1>2, <2>a DEF HandlerState, Labels, Sockets, Transports, GivenSocket
    <2>2. TransportSockets'
      BY <1>2, <2>a DEF Transports, Sockets
    <2>3. (UsedStates /\ DisconnectedHasNoTransport /\ ConnectingSocketOpen
           /\ OperationalHasSocket)'
      BY <1>2, <2>a DEF HandlerState, Operational, Transports, Sockets
    <2>4. (TornDown /\ ClosingIsExclusive /\ AttemptHasDriver /\ AsciiModeFlags)'
      BY <1>2, <2>a
    <2> QED BY <2>1, <2>2, <2>3, <2>4
  <1>3. state \in {"CLOSING", "ERROR"}
    BY DEF CloseWriterClosed
  <1>4. Reap(c, state)
    BY DEF CloseWriterClosed
  <1>5. Waits(c, state) \/ Ends(c)
    BY ONLY <1>3, <1>4, ReapOutcome
  <1> QED BY <1>1, <1>2, <1>5

\* A step of CloseWriterFails keeps Inv.
LEMMA CloseWriterFailsInv ==
  ASSUME Inv, NEW c \in Callers, CloseWriterFails(c)
  PROVE  Inv'
  <1> USE HandlerAssumption, NoCallerAssumption
      DEF CloseWriterFails, modes, streams, Fail, Return, Goto, HandlerAssumption,
      None, Inv, TypeOK, UsedStates, TransportSockets, ConnectingSocketOpen,
      TornDown, OperationalHasSocket, ClosingIsExclusive, Closing,
      DisconnectedHasNoTransport, AttemptHasDriver, AsciiModeFlags
  <1>0. state' = "ERROR"
    BY ErrorAlways
  <1>1. TypeOK'
    BY <1>0 DEF HandlerState, Labels, Sockets, Transports, GivenSocket
  <1>2. TransportSockets'
    BY <1>0 DEF Transports, Sockets
  <1>3. (UsedStates /\ DisconnectedHasNoTransport /\ ConnectingSocketOpen
         /\ OperationalHasSocket)'
    BY <1>0 DEF HandlerState, Operational, Transports, Sockets
  <1>4. (TornDown /\ ClosingIsExclusive /\ AttemptHasDriver /\ AsciiModeFlags)'
    BY <1>0
  <1> QED BY <1>1, <1>2, <1>3, <1>4

\* A step of CloseFinish keeps Inv.
LEMMA CloseFinishInv ==
  ASSUME Inv, NEW c \in Callers, CloseFinish(c)
  PROVE  Inv'
  <1> USE HandlerAssumption, NoCallerAssumption
      DEF CloseFinish, modes, streams, Finish, Return, Goto, HandlerAssumption,
      None, Inv, TypeOK, UsedStates, TransportSockets, ConnectingSocketOpen,
      TornDown, OperationalHasSocket, ClosingIsExclusive, Closing,
      DisconnectedHasNoTransport, AttemptHasDriver, AsciiModeFlags
  <1>0. state' = "DISCONNECTED"
    BY CloseTransition DEF ChangeState
  <1>1. TypeOK'
    BY <1>0 DEF HandlerState, Labels, Sockets, Transports, GivenSocket
  <1>2. TransportSockets'
    BY <1>0 DEF Transports, Sockets
  <1>3. (UsedStates /\ DisconnectedHasNoTransport /\ ConnectingSocketOpen
         /\ OperationalHasSocket)'
    BY <1>0 DEF HandlerState, Operational, Transports, Sockets
  <1>4. (TornDown /\ ClosingIsExclusive /\ AttemptHasDriver /\ AsciiModeFlags)'
    BY <1>0
  <1> QED BY <1>1, <1>2, <1>3, <1>4

\* A step of DetectAscii keeps Inv.
LEMMA DetectAsciiInv ==
  ASSUME Inv, DetectAscii
  PROVE  Inv'
  <1> USE HandlerAssumption, NoCallerAssumption
      DEF DetectAscii, modes, streams, HandlerAssumption,
      None, Inv, TypeOK, UsedStates, TransportSockets, ConnectingSocketOpen,
      TornDown, OperationalHasSocket, ClosingIsExclusive, Closing,
      DisconnectedHasNoTransport, AttemptHasDriver, AsciiModeFlags
  <1>1. TypeOK'
    BY DEF HandlerState, Labels, Sockets, Transports, GivenSocket
  <1>2. TransportSockets'
    BY DEF Transports, Sockets
  <1>3. (UsedStates /\ DisconnectedHasNoTransport /\ ConnectingSocketOpen
         /\ OperationalHasSocket)'
    BY DEF HandlerState, Operational, Transports, Sockets
  <1>4. (TornDown /\ ClosingIsExclusive /\ AttemptHasDriver /\ AsciiModeFlags)'
    OBVIOUS
  <1> QED BY <1>1, <1>2, <1>3, <1>4
\* Any step of Next, or none, keeps Inv.
LEMMA NextInv == Inv /\ [Next]_vars => Inv'
  <1> SUFFICES ASSUME Inv, [Next]_vars PROVE Inv'
    OBVIOUS
  <1>1. ASSUME NEW c \in Callers, Connect(c) \/ CloseCall(c) \/ SetAsciiMode(c)
        PROVE  Inv'
    BY <1>1, ConnectInv, CloseCallInv, SetAsciiModeInv
  <1>2. ASSUME NEW c \in Callers, ConnectStep(c)
        PROVE  Inv'
    BY <1>2, SocketOpenedInv, SetupFailsInv, ResumeInv, TelnetDoneInv,
       TelnetFailsInv, Tn3270DoneInv, Tn3270FailsInv DEF ConnectStep
  <1>3. ASSUME NEW c \in Callers, CloseStep(c)
        PROVE  Inv'
    BY <1>3, CloseStartInv, CloseTornDownInv, CloseWriterClosedInv,
       CloseWriterFailsInv, CloseFinishInv DEF CloseStep
  <1>4. CASE DetectAscii
    BY <1>4, DetectAsciiInv
  <1>5. CASE UNCHANGED vars
    BY <1>5 DEF vars, Inv, TypeOK, UsedStates, TransportSockets,
       ConnectingSocketOpen, TornDown, OperationalHasSocket,
       ClosingIsExclusive, Closing, DisconnectedHasNoTransport,
       AttemptHasDriver, AsciiModeFlags
  <1> QED BY <1>1, <1>2, <1>3, <1>4, <1>5 DEF Next

-----------------------------------------------------------------------------
(***************************************************************************)
(* The theorems.                                                           *)
(***************************************************************************)
\* The strengthened invariant holds in every reachable state.
THEOREM Invariance == Spec => []Inv
  BY InitInv, NextInv, PTL DEF Spec

\* The fields keep their types.
THEOREM TypeCorrect == Spec => []TypeOK
  <1>1. Inv => TypeOK
    BY DEF Inv
  <1> QED BY <1>1, Invariance, PTL

\* A handler that negotiates or is in a session is connected and writes to
\* its transport's open socket, however connects and closes interleave.
THEOREM OperationalSafe == Spec => []OperationalHasSocket
  <1>1. Inv => OperationalHasSocket
    BY DEF Inv
  <1> QED BY <1>1, Invariance, PTL

\* close() calls do not overlap and no connect() revives the handler in one.
THEOREM CloseSafe == Spec => []ClosingIsExclusive
  <1>1. Inv => ClosingIsExclusive
    BY DEF Inv
  <1> QED BY <1>1, Invariance, PTL

\* CONNECTING and NEGOTIATING are never left behind without a connect() call.
THEOREM AttemptSafe == Spec => []AttemptHasDriver
  <1>1. Inv => AttemptHasDriver
    BY DEF Inv
  <1> QED BY <1>1, Invariance, PTL

\* In ASCII_MODE both ASCII flags are set.
THEOREM AsciiSafe == Spec => []AsciiModeFlags
  <1>1. Inv => AsciiModeFlags
    BY DEF Inv
  <1> QED BY <1>1, Invariance, PTL

\* After a completed close() the next connect() makes a new transport.
THEOREM TransportSafe == Spec => []DisconnectedHasNoTransport
  <1>1. Inv => DisconnectedHasNoTransport
    BY DEF Inv
  <1> QED BY <1>1, Invariance, PTL
\* A handler in ERROR leaves it through close() only: no connect() still in
\* flight, and no new one, brings it back.
THEOREM ErrorStays == Spec => ErrorNeedsClose
  <1> DEFINE Stays == state = "ERROR" => state' \in {"ERROR", "CLOSING", "DISCONNECTED"}
  <1>1. ASSUME Inv, [Next]_vars PROVE [Stays]_vars
    <2> SUFFICES ASSUME state = "ERROR", Next PROVE Stays
      BY <1>1
    <2> USE ErrorAlways
    <2>1. ASSUME NEW to, NEW b \in BOOLEAN,
                 to \in {"CONNECTING", "NEGOTIATING", "ASCII_MODE", "TN3270_MODE"}
          PROVE  ChangeState(state, to, b) = "ERROR"
      BY <2>1, ConnectTransitions DEF ChangeState, HandlerState
    <2>2. ASSUME NEW c \in Callers, Connect(c) \/ CloseCall(c) \/ SetAsciiMode(c)
          PROVE  Stays
      BY <2>1, <2>2 DEF Connect, CloseCall, SetAsciiMode
    <2>3. ASSUME NEW c \in Callers, ConnectStep(c)
          PROVE  Stays
      <3>1. ASSUME Tn3270Done(c) PROVE Stays
        <4>1. FinalMode(nAscii') \in {"ASCII_MODE", "TN3270_MODE"}
          BY DEF FinalMode
        <4>2. (hAscii' = nAscii') \in BOOLEAN
          OBVIOUS
        <4> QED BY <2>1, <3>1, <4>1, <4>2 DEF Tn3270Done
      <3> QED
        BY <2>1, <2>3, <3>1 DEF ConnectStep, SocketOpened, SetupFails, Resume,
           TelnetDone, TelnetFails, Tn3270Fails, Fail
    <2>4. ASSUME NEW c \in Callers, CloseStep(c)
          PROVE  Stays
      BY <2>4 DEF CloseStep, CloseStart, CloseTornDown, CloseWriterClosed,
         CloseWriterFails, CloseFinish, Suspend, Reap, Finish, Fail, ChangeState
    <2>5. CASE DetectAscii
      BY <2>5 DEF DetectAscii
    <2> QED BY <2>2, <2>3, <2>4, <2>5 DEF Next
  <1> QED BY <1>1, Invariance, PTL DEF Spec, ErrorNeedsClose

-----------------------------------------------------------------------------
(***************************************************************************)
(* Handler implements the safety part of HandlerPromise, for any set of    *)
(* callers and any bounds.                                                 *)
(*                                                                         *)
(* The hard steps are a socket that opens late and the end of a close()    *)
(* in the middle of which another task failed: neither may change whether  *)
(* the session's transport is up behind the session's back.  LinkInv says  *)
(* which transports can still be opened and which one a close() tears      *)
(* down.                                                                   *)
(***************************************************************************)
\* A transport whose socket is being opened has none yet, and one task opens it.
SetupIsFresh ==
  \A c \in Callers : pc[c] = "setup" =>
    /\ tsock[own[c]] = None
    /\ \A d \in Callers : pc[d] = "setup" /\ own[d] = own[c] => d = c

\* The transport that close() tears down is the current one, its socket closed.
TeardownIsDown ==
  \A c \in Callers : pc[c] = "teardown" =>
    /\ own[c] = transport /\ transport # None
    /\ tsock[transport] = transport /\ transport \notin open

\* In CLOSING a transport is left only as long as it is torn down.
ClosingTearsDown ==
  state = "CLOSING" /\ transport # None => \E c \in Callers : pc[c] = "teardown"

LinkInv == SetupIsFresh /\ TeardownIsDown /\ ClosingTearsDown

-----------------------------------------------------------------------------
\* A new handler has no transport and no call under way.
LEMMA InitLinkInv == Init => LinkInv
  BY DEF Init, LinkInv, SetupIsFresh, TeardownIsDown, ClosingTearsDown

\* connect() makes a new transport, or fails.
LEMMA ConnectLinkInv ==
  ASSUME Inv, LinkInv, NEW c \in Callers, Connect(c)
  PROVE  LinkInv'
  <1> USE HandlerAssumption DEF HandlerAssumption, None, Transports
  <1>1. TypeOK /\ TransportSockets /\ DisconnectedHasNoTransport /\ ClosingIsExclusive
    BY DEF Inv
  <1>2. CASE Allowed(state, "CONNECTING", TRUE)
    <2>1. state = "DISCONNECTED" /\ transport = None /\ state' = "CONNECTING"
      BY <1>1, <1>2, ConnectTransitions
      DEF Connect, ChangeState, DisconnectedHasNoTransport, TypeOK
    <2>2. /\ transport' = created + 1
          /\ created + 1 \in Transports
          /\ own' = [own EXCEPT ![c] = created + 1]
          /\ pc' = [pc EXCEPT ![c] = "setup"]
          /\ UNCHANGED <<tsock, open>>
      BY <1>2, <2>1 DEF Connect, Goto
    <2>3. \A d \in Callers : own[d] # created + 1 /\ pc[d] # "teardown"
      BY <1>1, <2>1 DEF TypeOK, TransportSockets, ClosingIsExclusive, Closing
    <2>4. tsock[created + 1] = None
      BY <1>1, <2>2 DEF TransportSockets, TypeOK
    <2> QED
      BY <1>1, <2>1, <2>2, <2>3, <2>4
      DEF LinkInv, SetupIsFresh, TeardownIsDown, ClosingTearsDown, TypeOK
  <1>3. CASE ~Allowed(state, "CONNECTING", TRUE)
    <2>1. /\ pc[c] = "idle" /\ state' = "ERROR"
          /\ pc' = [pc EXCEPT ![c] = "idle"]
          /\ own' = [own EXCEPT ![c] = None]
          /\ UNCHANGED <<transport, tsock, open>>
      BY <1>3 DEF Connect, Return, Goto, ChangeState, streams
    <2> QED
      BY <1>1, <2>1
      DEF LinkInv, SetupIsFresh, TeardownIsDown, ClosingTearsDown, TypeOK
  <1> QED
    BY <1>2, <1>3

\* The socket that opens is that of no other transport.
LEMMA SocketOpenedLinkInv ==
  ASSUME Inv, LinkInv, NEW c \in Callers, SocketOpened(c)
  PROVE  LinkInv'
  <1> USE DEF None
  <1>1. TypeOK /\ TransportSockets
    BY DEF Inv
  <1>2. own[c] \in Transports /\ tsock[own[c]] = None
    BY <1>1 DEF SocketOpened, TypeOK, TransportSockets, LinkInv, SetupIsFresh
  <1>3. SetupIsFresh'
    BY <1>1, <1>2
    DEF SocketOpened, Goto, LinkInv, SetupIsFresh, TypeOK, TransportSockets
  <1>4. TeardownIsDown'
    BY <1>1, <1>2
    DEF SocketOpened, Goto, LinkInv, TeardownIsDown, TypeOK, Transports
  <1>5. ClosingTearsDown'
    BY <1>1 DEF SocketOpened, Goto, LinkInv, ClosingTearsDown, TypeOK
  <1> QED
    BY <1>3, <1>4, <1>5 DEF LinkInv

\* The other steps of connect() touch neither sockets nor a teardown.
LEMMA ConnectStepLinkInv ==
  ASSUME Inv, LinkInv, NEW c \in Callers,
         \/ SetupFails(c) \/ Resume(c) \/ TelnetDone(c) \/ TelnetFails(c)
         \/ Tn3270Done(c) \/ Tn3270Fails(c)
  PROVE  LinkInv'
  <1>1. TypeOK
    BY DEF Inv
  <1>2. /\ pc[c] \in {"setup", "opened", "telnet", "tn3270"}
        /\ UNCHANGED <<transport, tsock, open>>
        /\ \E label \in {"idle", "telnet", "tn3270"}, t \in Transports \cup {None} :
             pc' = [pc EXCEPT ![c] = label] /\ own' = [own EXCEPT ![c] = t]
        /\ state' = "CLOSING" => state = "CLOSING"
    BY <1>1, ErrorAlways
    DEF SetupFails, Resume, TelnetDone, TelnetFails, Tn3270Done, Tn3270Fails,
        Fail, Return, Goto, streams, ChangeState, FinalMode, HasStreams, TypeOK
  <1> QED
    BY <1>1, <1>2
    DEF LinkInv, SetupIsFresh, TeardownIsDown, ClosingTearsDown, TypeOK

\* close() starts only when no other close() is under way.
LEMMA CloseStartLinkInv ==
  ASSUME Inv, LinkInv, NEW c \in Callers, CloseStart(c)
  PROVE  LinkInv'
  <1> USE NoCallerAssumption DEF None
  <1>1. TypeOK /\ TransportSockets /\ ClosingIsExclusive
    BY DEF Inv
  <1>2. \A d \in Callers : pc[d] # "teardown"
    BY <1>1 DEF CloseStart, ClosingIsExclusive, Closing
  <1>3. CASE HasStreams /\ open' = open \ {tsock[transport]}
             /\ Suspend(c, "teardown") /\ UNCHANGED <<transport, tsock>>
    <2>1. tsock[transport] = transport /\ transport \in Transports
      BY <1>1, <1>3 DEF HasStreams, TypeOK, TransportSockets
    <2> QED
      BY <1>1, <1>2, <1>3, <2>1
      DEF Suspend, Goto, HasStreams, LinkInv, SetupIsFresh, TeardownIsDown,
          ClosingTearsDown, TypeOK
  <1>4. CASE transport' = None /\ Reap(c, "CLOSING") /\ UNCHANGED tsock
    <2>1. Waits(c, "CLOSING") \/ Ends(c)
      BY <1>4, ReapOutcome
    <2> QED
      BY <1>1, <1>2, <1>4, <2>1
      DEF Waits, Ends, LinkInv, SetupIsFresh, TeardownIsDown, ClosingTearsDown,
          TypeOK
  <1>5. CASE transport' = None /\ Suspend(c, "wait_closed") /\ UNCHANGED tsock
    BY <1>1, <1>2, <1>5
    DEF Suspend, Goto, LinkInv, SetupIsFresh, TeardownIsDown, ClosingTearsDown,
        TypeOK
  <1> QED
    BY <1>3, <1>4, <1>5 DEF CloseStart

\* After its first suspension close() leaves no transport.
LEMMA CloseStepLinkInv ==
  ASSUME Inv, LinkInv, NEW c \in Callers,
         CloseTornDown(c) \/ CloseWriterClosed(c) \/ CloseWriterFails(c)
           \/ CloseFinish(c)
  PROVE  LinkInv'
  <1> USE DEF None
  <1>1. TypeOK /\ TornDown /\ ClosingIsExclusive /\ TransportSockets
    BY DEF Inv
  <1>2. lock = c /\ state \in {"CLOSING", "ERROR"}
    BY <1>1
    DEF CloseTornDown, CloseWriterClosed, CloseWriterFails, CloseFinish,
        ClosingIsExclusive, Closing
  <1>3. \A d \in Callers : pc[d] = "teardown" => d = c
    BY <1>1, <1>2 DEF ClosingIsExclusive, Closing
  <1>4. \E label \in {"idle", "reap"}, t \in Transports \cup {None} :
          pc' = [pc EXCEPT ![c] = label] /\ own' = [own EXCEPT ![c] = t]
    <2>1. CASE Reap(c, state)
      <3>1. Waits(c, state) \/ Ends(c)
        BY <1>2, <2>1, ReapOutcome
      <3>2. own = [own EXCEPT ![c] = own[c]] /\ own[c] \in Transports \cup {None}
        BY <1>1 DEF TypeOK
      <3> QED
        BY <3>1, <3>2 DEF Waits, Ends
    <2>2. CASE Return(c, "closed") \/ Return(c, "failed")
      BY <2>2 DEF Return, Goto
    <2> QED
      BY <2>1, <2>2
      DEF CloseTornDown, CloseWriterClosed, CloseWriterFails, CloseFinish,
          Finish, Fail
  <1>5. transport' = None
    BY <1>1
    DEF CloseTornDown, CloseWriterClosed, CloseWriterFails, CloseFinish,
        TornDown, streams
  <1>6. tsock' = tsock \/ (own[c] \in Transports /\ tsock' = [tsock EXCEPT ![own[c]] = None])
    BY <1>1
    DEF CloseTornDown, CloseWriterClosed, CloseWriterFails, CloseFinish,
        streams, LinkInv, TeardownIsDown, TypeOK
  <1>7. SetupIsFresh'
    <2> SUFFICES ASSUME NEW d \in Callers, pc'[d] = "setup"
                 PROVE  /\ tsock'[own'[d]] = None
                        /\ \A e \in Callers : pc'[e] = "setup" /\ own'[e] = own'[d] => e = d
      BY DEF SetupIsFresh
    <2>1. \A e \in Callers : pc'[e] = "setup" => pc[e] = "setup" /\ own'[e] = own[e]
      BY <1>1, <1>4 DEF TypeOK
    <2>2. tsock[own[d]] = None /\ own[d] \in Transports
      BY <1>1, <2>1 DEF LinkInv, SetupIsFresh, TransportSockets, TypeOK
    <2> QED
      BY <1>1, <1>6, <2>1, <2>2 DEF LinkInv, SetupIsFresh, TypeOK
  <1>8. TeardownIsDown'
    BY <1>1, <1>3, <1>4 DEF TeardownIsDown, TypeOK
  <1> QED
    BY <1>5, <1>7, <1>8 DEF LinkInv, ClosingTearsDown

\* Any step of Next, or none, keeps LinkInv.
LEMMA NextLinkInv == Inv /\ LinkInv /\ [Next]_vars => LinkInv'
  <1> SUFFICES ASSUME Inv, LinkInv, [Next]_vars PROVE LinkInv'
    OBVIOUS
  <1>1. TypeOK
    BY DEF Inv
  <1>2. ASSUME NEW c \in Callers, CloseCall(c) \/ SetAsciiMode(c)
        PROVE  LinkInv'
    BY <1>1, <1>2
    DEF CloseCall, SetAsciiMode, Goto, streams, LinkInv, SetupIsFresh,
        TeardownIsDown, ClosingTearsDown, TypeOK
  <1>3. CASE DetectAscii
    BY <1>3
    DEF DetectAscii, streams, LinkInv, SetupIsFresh, TeardownIsDown,
        ClosingTearsDown
  <1>4. CASE UNCHANGED vars
    BY <1>4
    DEF vars, LinkInv, SetupIsFresh, TeardownIsDown, ClosingTearsDown
  <1> QED
    BY <1>2, <1>3, <1>4, ConnectLinkInv, SocketOpenedLinkInv, ConnectStepLinkInv,
       CloseStartLinkInv, CloseStepLinkInv
    DEF Next, ConnectStep, CloseStep

-----------------------------------------------------------------------------
(***************************************************************************)
(* Every step of the handler is a step of the promise, or none.            *)
(***************************************************************************)
\* The phases of Link, for the states that occur.
LEMMA LinkOf ==
  ASSUME UsedStates
  PROVE  /\ state = "DISCONNECTED" => Link = "down"
         /\ state \in {"CONNECTING", "NEGOTIATING"} => Link = "attempt"
         /\ state = "ERROR" => Link = "failed"
         /\ state = "CLOSING" => Link = "closing"
         /\ state \in {"ASCII_MODE", "TN3270_MODE"} => Link = "live"
  BY DEF Link, UsedStates, HandlerState

\* The phases of Link after a step, for the states that occur.
LEMMA NextLinkOf ==
  ASSUME UsedStates'
  PROVE  /\ state' = "DISCONNECTED" => Link' = "down"
         /\ state' \in {"CONNECTING", "NEGOTIATING"} => Link' = "attempt"
         /\ state' = "ERROR" => Link' = "failed"
         /\ state' = "CLOSING" => Link' = "closing"
         /\ state' \in {"ASCII_MODE", "TN3270_MODE"} => Link' = "live"
  BY DEF Link, UsedStates, HandlerState

\* What a session sees of a step.
Stutters == UNCHANGED <<Link, Up>>
Seen == Stutters \/ Promise!Next

\* A step that leaves the sockets alone and ends in ERROR, or changes nothing.
LEMMA QuietSteps ==
  ASSUME Inv', UNCHANGED <<transport, tsock, open>>
  PROVE  /\ state' = "ERROR" => Promise!Break
         /\ state' = state => Stutters
  <1>1. UNCHANGED Up
    BY DEF Up
  <1> QED
    BY <1>1, NextLinkOf DEF Inv, Promise!Break, Stutters, Link

\* A call of connect() starts an attempt, breaks the session or shows nothing.
LEMMA ConnectSeen ==
  ASSUME Inv, Inv', NEW c \in Callers, Connect(c)
  PROVE  Seen
  <1> USE DEF None
  <1>1. TypeOK /\ TransportSockets /\ DisconnectedHasNoTransport /\ UsedStates /\ UsedStates'
    BY DEF Inv
  <1>2. CASE Allowed(state, "CONNECTING", TRUE)
    <2>1. state = "DISCONNECTED" /\ transport = None /\ state' = "CONNECTING"
      BY <1>1, <1>2, ConnectTransitions
      DEF Connect, ChangeState, DisconnectedHasNoTransport, TypeOK
    <2>2. transport' = created + 1 /\ created + 1 \in Transports /\ UNCHANGED <<tsock, open>>
      BY <1>2, <2>1 DEF Connect
    <2>3. tsock[created + 1] = None /\ None \notin open
      BY <1>1, <2>2 DEF TransportSockets, TypeOK, Sockets
    <2>4. ~Up /\ ~Up'
      BY <2>1, <2>2, <2>3 DEF Up
    <2> QED
      BY <1>1, <2>1, <2>4, LinkOf, NextLinkOf DEF Seen, Promise!Next, Promise!Dial, Up
  <1>3. CASE ~Allowed(state, "CONNECTING", TRUE)
    BY <1>3, QuietSteps DEF Connect, ChangeState, streams, Seen, Promise!Next
  <1> QED
    BY <1>2, <1>3

\* The current transport's socket opening is the attempt's only; a stale one
\* shows nothing.
LEMMA SocketOpenedSeen ==
  ASSUME Inv, Inv', LinkInv, NEW c \in Callers, SocketOpened(c)
  PROVE  Seen
  <1> USE DEF None
  <1>1. TypeOK /\ TransportSockets /\ DisconnectedHasNoTransport /\ UsedStates
        /\ OperationalHasSocket
    BY DEF Inv
  <1>2. own[c] \in Transports /\ tsock[own[c]] = None /\ UNCHANGED Link
    BY <1>1
    DEF SocketOpened, TypeOK, TransportSockets, LinkInv, SetupIsFresh, Link
  <1>3. CASE own[c] # transport
    <2>1. Up' = Up
      BY <1>1, <1>2, <1>3
      DEF SocketOpened, Up, TypeOK, TransportSockets, Transports
    <2> QED
      BY <1>2, <2>1 DEF Seen, Stutters
  <1>4. CASE own[c] = transport
    <2>1. Up' = TRUE
      BY <1>1, <1>2, <1>4 DEF SocketOpened, Up, TypeOK, Transports
    <2>2. state \notin {"DISCONNECTED", "CLOSING", "ASCII_MODE", "TN3270_MODE", "NEGOTIATING"}
      <3>1. None \notin open
        BY <1>1 DEF TypeOK, Sockets
      <3> QED
        BY <1>1, <1>2, <1>4, <3>1
        DEF DisconnectedHasNoTransport, OperationalHasSocket, Operational,
            LinkInv, ClosingTearsDown, TeardownIsDown, Transports
    <2>3. Link \in {"attempt", "failed"}
      BY <1>1, <2>2, LinkOf DEF UsedStates, HandlerState
    <2> QED
      BY <1>2, <2>1, <2>3 DEF Seen, Promise!Next, Promise!Reach
  <1> QED
    BY <1>3, <1>4

\* The other steps of connect() before the last show nothing or end in ERROR.
LEMMA ConnectStepSeen ==
  ASSUME Inv, Inv', NEW c \in Callers,
         \/ SetupFails(c) \/ Resume(c) \/ TelnetDone(c) \/ TelnetFails(c)
         \/ Tn3270Fails(c)
  PROVE  Seen
  <1>1. TypeOK /\ UsedStates /\ UsedStates'
    BY DEF Inv
  <1>2. UNCHANGED <<transport, tsock, open>>
    BY DEF SetupFails, Resume, TelnetDone, TelnetFails, Tn3270Fails, streams
  <1>3. \/ state' = "ERROR" \/ state' = state
        \/ state = "CONNECTING" /\ state' = "NEGOTIATING"
    BY <1>1, ErrorAlways, ConnectTransitions
    DEF SetupFails, Resume, TelnetDone, TelnetFails, Tn3270Fails, Fail,
        ChangeState, TypeOK
  <1>4. CASE state = "CONNECTING" /\ state' = "NEGOTIATING"
    <2>1. UNCHANGED Up
      BY <1>2 DEF Up
    <2> QED
      BY <1>1, <1>4, <2>1, LinkOf, NextLinkOf DEF Seen, Stutters
  <1> QED
    BY <1>2, <1>3, <1>4, QuietSteps DEF Seen, Promise!Next

\* The end of connect() brings the session up, from NEGOTIATING only.
LEMMA Tn3270DoneSeen ==
  ASSUME Inv, Inv', NEW c \in Callers, Tn3270Done(c)
  PROVE  Seen
  <1>1. TypeOK /\ UsedStates /\ UsedStates' /\ OperationalHasSocket'
    BY DEF Inv
  <1>2. UNCHANGED <<transport, tsock, open>>
    BY DEF Tn3270Done, streams
  <1>3. nAscii' \in BOOLEAN /\ hAscii' \in BOOLEAN
    BY DEF Inv, TypeOK
  <1>4. \/ state' = "ERROR"
        \/ state = "NEGOTIATING" /\ state' \in {"ASCII_MODE", "TN3270_MODE"}
    BY <1>1, <1>3, ConnectTransitions
    DEF Tn3270Done, FinalMode, ChangeState, UsedStates, TypeOK
  <1>5. CASE state = "NEGOTIATING" /\ state' \in {"ASCII_MODE", "TN3270_MODE"}
    <2>1. Up' /\ UNCHANGED Up
      BY <1>1, <1>2, <1>5 DEF Up, OperationalHasSocket, Operational
    <2> QED
      BY <1>1, <1>5, <2>1, LinkOf, NextLinkOf DEF Seen, Promise!Next, Promise!Settle
  <1> QED
    BY <1>2, <1>4, <1>5, QuietSteps DEF Seen, Promise!Next

\* The start of close() takes the session down.
LEMMA CloseStartSeen ==
  ASSUME Inv, Inv', NEW c \in Callers, CloseStart(c)
  PROVE  Seen
  <1>1. TypeOK /\ UsedStates' /\ TransportSockets
    BY DEF Inv
  <1>2. state' \in {"CLOSING", "DISCONNECTED"}
    BY ReapOutcome DEF CloseStart, Suspend, Waits, Ends
  <1>3. ~Up'
    BY DEF CloseStart, Suspend, Up
  <1> QED
    BY <1>1, <1>2, <1>3, NextLinkOf DEF Seen, Promise!Next, Promise!Close, Up

\* The transport that is dropped was down already, also when another task's
\* failed connect() has put the handler in ERROR meanwhile.
LEMMA CloseStepSeen ==
  ASSUME Inv, Inv', LinkInv, NEW c \in Callers,
         CloseTornDown(c) \/ CloseWriterClosed(c) \/ CloseFinish(c)
  PROVE  Seen
  <1> USE DEF None
  <1>1. TypeOK /\ UsedStates /\ UsedStates' /\ TornDown /\ ClosingIsExclusive
    BY DEF Inv
  <1>2. state \in {"CLOSING", "ERROR"}
    BY <1>1
    DEF CloseTornDown, CloseWriterClosed, CloseFinish, ClosingIsExclusive, Closing
  <1>3. state' = state \/ state' = "DISCONNECTED"
    BY <1>2, ReapOutcome, CloseTransition
    DEF CloseTornDown, CloseWriterClosed, CloseFinish, Finish, ChangeState,
        Waits, Ends
  <1>4. ~Up /\ ~Up'
    BY <1>1
    DEF CloseTornDown, CloseWriterClosed, CloseFinish, streams, TornDown,
        LinkInv, TeardownIsDown, Up
  <1>5. CASE state' = state
    BY <1>4, <1>5 DEF Seen, Stutters, Link, Up
  <1>6. CASE state' = "DISCONNECTED"
    BY <1>1, <1>4, <1>6, NextLinkOf DEF Seen, Promise!Next, Promise!Close, Up
  <1> QED
    BY <1>3, <1>5, <1>6

\* A failing writer inside close() ends in ERROR.
LEMMA CloseWriterFailsSeen ==
  ASSUME Inv', NEW c \in Callers, CloseWriterFails(c)
  PROVE  Seen
  BY ErrorAlways, QuietSteps DEF CloseWriterFails, Fail, streams, Seen, Promise!Next

\* Every step of the handler is a step of the promise, or a stutter.
LEMMA NextSeen == Inv /\ Inv' /\ LinkInv /\ [Next]_vars => Seen
  <1> SUFFICES ASSUME Inv, Inv', LinkInv, [Next]_vars PROVE Seen
    OBVIOUS
  <1>1. ASSUME NEW c \in Callers, CloseCall(c) \/ SetAsciiMode(c)
        PROVE  Seen
    BY <1>1, QuietSteps DEF CloseCall, SetAsciiMode, streams, Seen, Promise!Next
  <1>2. CASE DetectAscii
    BY <1>2, QuietSteps DEF DetectAscii, streams, Seen, Promise!Next
  <1>3. CASE UNCHANGED vars
    BY <1>3, QuietSteps DEF vars, Seen, Promise!Next
  <1> QED
    BY <1>1, <1>2, <1>3, ConnectSeen, SocketOpenedSeen, ConnectStepSeen,
       Tn3270DoneSeen, CloseStartSeen, CloseStepSeen, CloseWriterFailsSeen
    DEF Next, ConnectStep, CloseStep

-----------------------------------------------------------------------------
\* LinkInv holds in every reachable state: at most one task opens a transport's
\* socket, and a close() tears down the transport that is current.
THEOREM LinkInvariance == Spec => []LinkInv
  BY InitLinkInv, NextLinkInv, Invariance, PTL DEF Spec

\* The handler implements the safety part of its promise to the session:
\* however the connect() and close() calls of any number of tasks interleave,
\* attempts start only on a handler that is down, a session becomes live only
\* from an attempt whose socket is open, and only close() leaves "failed".
THEOREM Refines == Spec => Promise!Spec
  <1>1. Init => Promise!Init
    BY DEF Init, Promise!Init, Link, Up, None
  <1>2. Inv /\ Inv' /\ LinkInv /\ [Next]_vars => [Promise!Next]_(Promise!promiseVars)
    BY NextSeen DEF Seen, Stutters, Promise!promiseVars
  <1> QED
    BY <1>1, <1>2, Invariance, LinkInvariance, PTL DEF Spec, Promise!Spec
=============================================================================
