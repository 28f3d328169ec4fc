--------------------------- MODULE TelnetOptions ---------------------------
(***************************************************************************)
(* The negotiator's answers to Telnet option commands and subnegotiations  *)
(* (negotiator.py), and a host that keeps the rules of RFC 854: it asks    *)
(* for a change only when no answer is outstanding.  The client keeps no   *)
(* state per option: every command is answered, also one that answers.     *)
(* A behaviour is about one option.                                        *)
(***************************************************************************)
EXTENDS Integers, Sequences

CONSTANTS
  Options,      \* the options a host may talk about
  MaxRequests   \* commands and questions the host starts

\* What the client lets the host do, and what it does when asked.
AcceptedFromHost == {"BINARY", "EOR", "TTYPE", "TN3270E", "TERMINAL-LOCATION",
                     "BIND-UNIT", "ECHO", "SGA", "TM"}
Offered == AcceptedFromHost \cup {"NAWS", "NEW-ENVIRON"}

\* Subnegotiations that ask, and the others, by option.  DEVICE-TYPE
\* ASSOCIATE has the code of IS, and FUNCTIONS REQUEST is only recognised
\* with an IS behind it.
Questions ==
  {"TTYPE SEND", "NEW-ENVIRON SEND", "RESPONSE-MODE SEND", "USABLE-AREA SEND",
   "QUERY SEND", "DEVICE-TYPE SEND", "SEND DEVICE-TYPE", "SEND FUNCTIONS",
   "FUNCTIONS SEND", "FUNCTIONS REQUEST IS"}
Statements ==
  {"TTYPE IS", "NEW-ENVIRON IS", "LU IS", "LU IS empty", "LU REJECT",
   "RESPONSE-MODE IS", "QUERY IS", "DEVICE-TYPE IS", "DEVICE-TYPE IS dynamic",
   "DEVICE-TYPE CONNECT", "DEVICE-TYPE REJECT", "FUNCTIONS IS", "REQUEST",
   "IS name", "IS characteristics", "USABLE-AREA IS", "SYSREQ"}
OptionOf(m) ==
  CASE m \in {"TTYPE SEND", "TTYPE IS"} -> "TTYPE"
    [] m \in {"NEW-ENVIRON SEND", "NEW-ENVIRON IS"} -> "NEW-ENVIRON"
    [] m \in {"LU IS", "LU IS empty", "LU REJECT"} -> "TERMINAL-LOCATION"
    [] OTHER -> "TN3270E"

VARIABLES
  option,     \* the option this behaviour is about
  toClient, toHost,
  hostSide,   \* the host's view of what it does itself
  clientSide, \* the host's view of what the client does
  requests,   \* commands and questions started
  asked, answered,  \* history: questions sent, answers received
  said,       \* history: the client's last word on either side
  lu,         \* name, complete and error of the LU selection
  device      \* what the host said of the device: type, LU, rejection, ...

optionVars == <<option, toClient, toHost, hostSide, clientSide, requests, asked,
                answered, said, lu, device>>

OptionsInit ==
  /\ option \in Options
  /\ toClient = <<>> /\ toHost = <<>>
  /\ hostSide = "no" /\ clientSide = "no"
  /\ requests = 0
  /\ asked = <<>> /\ answered = <<>>
  /\ said = [host |-> "no", client |-> "no"]
  /\ lu \in [name : {"", "LU1"}, complete : {FALSE}, error : {FALSE}]
  /\ device = [type |-> "none", connected |-> FALSE, rejected |-> FALSE,
               functions |-> FALSE, tn3270e |-> FALSE, responseMode |-> FALSE]

-----------------------------------------------------------------------------
\* The host.
HostAsks(side, on) ==
  LET command == IF side = "host" THEN (IF on THEN "WILL" ELSE "WONT")
                                  ELSE (IF on THEN "DO" ELSE "DONT")
      want == IF on THEN "want_yes" ELSE "want_no"
      view == IF side = "host" THEN hostSide ELSE clientSide
  IN  /\ requests < MaxRequests
      /\ view = (IF on THEN "no" ELSE "yes")
      /\ requests' = requests + 1
      /\ toClient' = Append(toClient, command)
      /\ IF side = "host" THEN hostSide' = want /\ UNCHANGED clientSide
                          ELSE clientSide' = want /\ UNCHANGED hostSide
      /\ UNCHANGED <<option, toHost, asked, answered, said, lu, device>>

HostSubnegotiates(m) ==
  /\ requests < MaxRequests
  /\ option = OptionOf(m)
  /\ requests' = requests + 1
  /\ asked' = IF m \in Questions THEN Append(asked, m) ELSE asked
  /\ toClient' = Append(toClient, m)
  /\ UNCHANGED <<option, toHost, hostSide, clientSide, answered, said, lu, device>>

HostReceives ==
  /\ toHost # <<>>
  /\ toHost' = Tail(toHost)
  /\ LET m == Head(toHost) IN
     /\ hostSide' = CASE m = "DO" -> "yes" [] m = "DONT" -> "no" [] OTHER -> hostSide
     /\ clientSide' = CASE m = "WILL" -> "yes" [] m = "WONT" -> "no" [] OTHER -> clientSide
     /\ answered' = IF m \in Questions THEN Append(answered, m) ELSE answered
  /\ UNCHANGED <<option, toClient, requests, asked, said, lu, device>>

-----------------------------------------------------------------------------
\* The client.
Say(ms, word) ==
  /\ toHost' = toHost \o ms
  /\ said' = word

HandleWill ==
  IF option \in AcceptedFromHost THEN Say(<<"DO">>, [said EXCEPT !.host = "yes"])
                                 ELSE Say(<<"DONT">>, [said EXCEPT !.host = "no"])

HandleWont == Say(<<"DONT">>, [said EXCEPT !.host = "no"])

\* What the client sends of its own accord: the size of its window, the LU
\* name, even an empty one, the functions it asks for.
WindowSize == <<"client's NAWS">>
LuNameIs == <<"client's LU IS">>
FunctionsRequest == <<"client's FUNCTIONS REQUEST">>

\* NAWS is followed by the size, TERMINAL-LOCATION by the LU name.
HandleDo ==
  IF option \in Offered
    THEN Say(<<"WILL">> \o (CASE option = "NAWS" -> WindowSize
                              [] option = "TERMINAL-LOCATION" -> LuNameIs
                              [] OTHER -> <<>>),
             [said EXCEPT !.client = "yes"])
    ELSE Say(<<"WONT">>, [said EXCEPT !.client = "no"])

HandleDont == Say(<<"WONT">>, [said EXCEPT !.client = "no"])

\* _handle_terminal_location_subnegotiation()
SelectLu(verdict) ==
  CASE verdict = "LU IS" -> [lu EXCEPT !.name = "LU2", !.complete = TRUE]
    [] verdict = "LU IS empty" -> [lu EXCEPT !.complete = TRUE]
    [] verdict = "LU REJECT" -> [lu EXCEPT !.error = TRUE]
    [] OTHER -> lu

\* The answer to TTYPE, to NEW-ENVIRON, and to each of the questions of
\* TN3270E; an answer is named for its question.
AnswerTerminalType(m) == IF m = "TTYPE SEND" THEN <<m>> ELSE <<>>
AnswerNewEnviron(m) == IF m = "NEW-ENVIRON SEND" THEN <<m>> ELSE <<>>
AnswerResponseMode(m) == IF m = "RESPONSE-MODE SEND" THEN <<m>> ELSE <<>>
AnswerUsableArea(m) == IF m = "USABLE-AREA SEND" THEN <<m>> ELSE <<>>
AnswerQuery(m) == IF m = "QUERY SEND" THEN <<m>> ELSE <<>>
AnswerSend(m) == IF m \in {"SEND DEVICE-TYPE", "SEND FUNCTIONS"} THEN <<m>> ELSE <<>>

\* DEVICE-TYPE: a dynamic device is asked for its characteristics.
AnswerDeviceType(m) ==
  CASE m = "DEVICE-TYPE SEND" -> <<m>>
    [] m = "DEVICE-TYPE IS dynamic" -> <<"client's QUERY">>
    [] OTHER -> <<>>

\* FUNCTIONS: SEND is answered and followed by a request.
AnswerFunctionsOption(m) ==
  CASE m = "FUNCTIONS REQUEST IS" -> <<m>>
    [] m = "FUNCTIONS SEND" -> <<m>> \o FunctionsRequest
    [] OTHER -> <<>>

\* A bare IS with a name is followed by a request for functions.
AnswerIs(m) == IF m = "IS name" THEN FunctionsRequest ELSE <<>>

Answers(m) ==
  AnswerTerminalType(m) \o AnswerNewEnviron(m) \o AnswerResponseMode(m)
    \o AnswerUsableArea(m) \o AnswerQuery(m) \o AnswerSend(m)
    \o AnswerDeviceType(m) \o AnswerFunctionsOption(m) \o AnswerIs(m)

\* The characteristics of a query reply name a device, or are added to it.
ParseQueryReply == IF device.type = "none" THEN "queried" ELSE device.type

\* What the negotiator keeps of a TN3270E subnegotiation.
Learn(m) ==
  CASE m \in {"DEVICE-TYPE IS", "IS name"} -> [device EXCEPT !.type = "named"]
    [] m = "DEVICE-TYPE IS dynamic" -> [device EXCEPT !.type = "dynamic"]
    [] m = "QUERY IS" -> [device EXCEPT !.type = ParseQueryReply]
    [] m = "IS characteristics" -> [device EXCEPT !.type = "queried"]
    [] m = "DEVICE-TYPE CONNECT" -> [device EXCEPT !.connected = TRUE]
    [] m = "DEVICE-TYPE REJECT" -> [device EXCEPT !.rejected = TRUE]
    [] m = "FUNCTIONS IS" -> [device EXCEPT !.functions = TRUE]
    [] m \in {"FUNCTIONS SEND", "FUNCTIONS REQUEST IS", "REQUEST"} ->
         [device EXCEPT !.functions = TRUE, !.tn3270e = TRUE]
    [] m = "RESPONSE-MODE IS" -> [device EXCEPT !.responseMode = TRUE]
    [] OTHER -> device

HandleSubnegotiation(m) ==
  /\ Say(Answers(m), said)
  /\ lu' = SelectLu(m)
  /\ device' = Learn(m)

\* handle_iac_command() and handle_subnegotiation()
ClientReceives ==
  /\ toClient # <<>>
  /\ toClient' = Tail(toClient)
  /\ LET m == Head(toClient) IN
     \/ m = "WILL" /\ HandleWill /\ UNCHANGED <<lu, device>>
     \/ m = "WONT" /\ HandleWont /\ UNCHANGED <<lu, device>>
     \/ m = "DO" /\ HandleDo /\ UNCHANGED <<lu, device>>
     \/ m = "DONT" /\ HandleDont /\ UNCHANGED <<lu, device>>
     \/ m \notin {"WILL", "WONT", "DO", "DONT"} /\ HandleSubnegotiation(m)
  /\ UNCHANGED <<option, hostSide, clientSide, requests, asked, answered>>

\* A failed negotiation forgets the LU name, configured or selected, and not
\* the outcome of the selection (_reset_negotiation_state()).
ResetLu ==
  /\ lu' = [lu EXCEPT !.name = ""]
  /\ UNCHANGED <<option, toClient, toHost, hostSide, clientSide, requests, asked,
                 answered, said, device>>

HostSpeaks ==
  \/ \E side \in {"host", "client"}, on \in BOOLEAN : HostAsks(side, on)
  \/ \E m \in Questions \cup Statements : HostSubnegotiates(m)

OptionsNext == HostSpeaks \/ HostReceives \/ ClientReceives \/ ResetLu

\* Both sides read what arrives.
OptionsFairness == WF_optionVars(HostReceives) /\ WF_optionVars(ClientReceives)

-----------------------------------------------------------------------------
Settled ==
  /\ hostSide = said.host /\ clientSide = said.client
  /\ asked = answered

(***************************************************************************)
(* With a host that keeps the rules, an exchange of option commands ends,  *)
(* although the client answers every command: no command is left           *)
(* unanswered, both ends have the same view of either side of the option,  *)
(* and every question of the host got its answer, in order                 *)
(* (negotiator.py:1982-2252, 2563-2621).                                   *)
(***************************************************************************)
OptionsSettle == <>[](toClient = <<>> /\ toHost = <<>> /\ Settled)
=============================================================================
