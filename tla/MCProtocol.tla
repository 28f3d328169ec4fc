----------------------------- MODULE MCProtocol -----------------------------
(***************************************************************************)
(* The parts of the protocol layer that the handler's life cycle and its   *)
(* negotiation leave aside, side by side: the Telnet scanner and the data  *)
(* path, Telnet options, the SNA session, addressing modes and the         *)
(* announcement of state changes.  A behaviour exercises one of them       *)
(* (part), so their states add up and do not multiply.                     *)
(***************************************************************************)
EXTENDS TelnetStream, TelnetOptions, SnaSession, Addressing, StateChanges

VARIABLE part

vars == <<part, streamVars, optionVars, snaVars, addressVars, changeVars>>

\* The parts that a behaviour leaves alone start in one way only.
DefaultStream == CHOOSE s \in Streams : TRUE
MinRows == Min(RowCounts)

Init ==
  /\ part \in {"stream", "options", "sna", "addressing", "changes"}
  /\ StreamInit
  /\ part # "stream" => wire = DefaultStream /\ ~tn3270e /\ ~sysreq
  /\ OptionsInit
  /\ part # "options" => option = "TN3270E" /\ lu.name = ""
  /\ SnaInit
  /\ part # "sna" => ~bind
  /\ AddressingInit
  /\ part # "addressing" => owner = "handler" /\ rowCount = MinRows /\ ebuf.mode = "12-bit"
  /\ ChangesInit
  /\ part # "changes" => hstate = "DISCONNECTED" /\ callback = "none" /\ ~autoRecover

StreamStep == StreamNext /\ UNCHANGED <<optionVars, snaVars, addressVars, changeVars>>
OptionsStep == OptionsNext /\ UNCHANGED <<streamVars, snaVars, addressVars, changeVars>>
SnaStepAlone == SnaNext /\ UNCHANGED <<streamVars, optionVars, addressVars, changeVars>>
AddressingStep == AddressingNext /\ UNCHANGED <<streamVars, optionVars, snaVars, changeVars>>
ChangesStep == ChangesNext /\ UNCHANGED <<streamVars, optionVars, snaVars, addressVars>>

Next ==
  /\ UNCHANGED part
  /\ \/ part = "stream" /\ StreamStep
     \/ part = "options" /\ OptionsStep
     \/ part = "sna" /\ SnaStepAlone
     \/ part = "addressing" /\ AddressingStep
     \/ part = "changes" /\ ChangesStep

Spec == Init /\ [][Next]_vars /\ OptionsFairness /\ SnaFairness /\ ChangesFairness

-----------------------------------------------------------------------------
(***************************************************************************)
(* Everything the protocol layer starts comes to an end: the exchange of   *)
(* options settles, SNA recoveries end, and a change of state gets         *)
(* through its lock (negotiator.py:2104, 3658; tn3270_handler.py:1838).    *)
(***************************************************************************)
ProtocolSettles == OptionsSettle /\ SnaRecoveriesEnd /\ ChangesEnd

-----------------------------------------------------------------------------
\* What a host may send: every form of Telnet command, headers, escaped IACs
\* and VT100 text.
MCStreams ==
  { <<"T3270", "x", "a", "IAC", "DO", "BINARY", "b">>,
    <<"a", "IAC", "IAC", "b", "IAC", "EOR-command">>,
    <<"IAC", "SB", "TTYPE", "IAC", "IAC", "SE", "a", "IAC", "SE">>,
    <<"IAC", "SB", "TTYPE", "send", "IAC", "SE", "SCS", "x", "a">>,
    <<"esc", "a", "EOR", "IAC", "AO", "T3270", "x">>,
    <<"EW", "a", "EOR", "IAC", "AO", "b", "EOR">>,
    <<"EOR", "IAC", "DO", "IAC", "IAC", "NOP", "STATUS", "x", "a">> }
=============================================================================
