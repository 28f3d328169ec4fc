---------------------------- MODULE TelnetStream ----------------------------
(***************************************************************************)
(* How TN3270Handler turns what it reads into Telnet commands and data     *)
(* (tn3270_handler.py): _process_telnet_stream() with its buffer for       *)
(* unfinished commands, the negotiation's reader loop that stashes         *)
(* payload, receive_data(), the choice between ASCII and 3270 handling and *)
(* the suspended mode.  Reads cut the host's stream anywhere.              *)
(*                                                                         *)
(* A byte is named by its meaning: IAC, SE, SB, DO (for the four option    *)
(* commands), other Telnet commands, the data types a TN3270E header may   *)
(* begin with, EW (0xF5), EOR (0x19), "esc" for a VT100 sequence, and      *)
(* anything else.  A header is two bytes long instead of five.             *)
(***************************************************************************)
EXTENDS Integers, Sequences, SequencesExt, FiniteSetsExt

CONSTANTS
  Streams,       \* what the host may send
  Sysreq         \* values of TN3270E_SYSREQ in negotiated_functions

DataTypes == {"T3270", "SCS", "STATUS"}
StreamBytes ==
  {"IAC", "SE", "SB", "DO", "AO", "NOP", "EOR-command", "BINARY", "TTYPE", "send",
   "EW", "EOR", "esc", "x", "a", "b"} \cup DataTypes

ASSUME StreamsAssumption == Streams \subseteq Seq(StreamBytes) /\ Sysreq \subseteq BOOLEAN

VARIABLES
  wire,        \* what the host has sent and nobody has read
  got,         \* history: what has been read
  buffer,      \* _telnet_buffer
  stash,       \* _pending_payload
  phase,       \* the reader loop reads, or receive_data()
  commands,    \* history: Telnet commands handled
  out,         \* history: data found by the scans of what was read
  parsed,      \* history: <<parser, data>> of the calls of the parsers
  ascii,       \* negotiator._ascii_mode
  tn3270e,     \* TN3270E has been negotiated
  sysreq,      \* the SYSREQ function has been negotiated
  suspended,   \* _in_suspended_mode
  replayed     \* history: how the stash was replayed: no, clean or mixed

streamVars == <<wire, got, buffer, stash, phase, commands, out, parsed, ascii,
                tn3270e, sysreq, suspended, replayed>>

StreamInit ==
  /\ wire \in Streams
  /\ got = <<>> /\ buffer = <<>> /\ stash = <<>>
  /\ phase = "negotiating"
  /\ commands = <<>> /\ out = <<>> /\ parsed = <<>>
  /\ ascii = FALSE
  /\ tn3270e \in BOOLEAN
  /\ sysreq \in Sysreq
  /\ suspended = FALSE
  /\ replayed = "no"

-----------------------------------------------------------------------------
(***************************************************************************)
(* _process_telnet_stream().  SubnegotiationEnds: where IAC SE may end the *)
(* subnegotiation that begins at i.                                        *)
(***************************************************************************)
SubnegotiationEnds(data, i) ==
  {j \in (i + 2)..(Len(data) - 1) : data[j] = "IAC" /\ data[j + 1] = "SE"}

Incomplete(data, i) ==
  /\ data[i] = "IAC"
  /\ \/ i = Len(data)
     \/ data[i + 1] = "DO" /\ i + 2 > Len(data)
     \/ data[i + 1] = "SB" /\ SubnegotiationEnds(data, i) = {}

\* The byte or command at i: where the next one is, and what it gives.
Item(data, i) ==
  CASE data[i] # "IAC" ->
         [next |-> i + 1, out |-> <<data[i]>>, cmd |-> <<>>]
    [] data[i] = "IAC" /\ data[i + 1] = "IAC" ->
         [next |-> i + 2, out |-> <<"IAC">>, cmd |-> <<>>]
    [] data[i] = "IAC" /\ data[i + 1] = "DO" ->
         [next |-> i + 3, out |-> <<>>, cmd |-> << <<"DO", data[i + 2]>> >>]
    [] data[i] = "IAC" /\ data[i + 1] = "SB" ->
         LET se == Min(SubnegotiationEnds(data, i)) IN
         [next |-> se + 2, out |-> <<>>,
          cmd |-> << <<"SB", data[i + 2]>> \o SubSeq(data, i + 3, se - 1) >>]
    [] OTHER ->
         [next |-> i + 2, out |-> <<>>, cmd |-> << <<data[i + 1]>> >>]

Stuck(data, s) == s.at > Len(data) \/ Incomplete(data, s.at)

\* An iteration of the loop; the buffer gets what begins where it breaks off.
ScanStep(data, s) ==
  IF Stuck(data, s) THEN s
  ELSE LET item == Item(data, s.at) IN
       [at |-> item.next, out |-> s.out \o item.out, cmds |-> s.cmds \o item.cmd]

ScanStart == [at |-> 1, out |-> <<>>, cmds |-> <<>>]

Scan(data) ==
  LET after[i \in 0..Len(data)] ==
        IF i = 0 THEN ScanStart ELSE ScanStep(data, after[i - 1])
      end == after[Len(data)]
  IN  [out |-> end.out, cmds |-> end.cmds, rest |-> SubSeq(data, end.at, Len(data))]

\* Mutant: only the last byte of an unfinished command is kept.
RestOneByte(s) == IF s.rest = <<>> THEN <<>> ELSE <<Last(s.rest)>>

Rest(s) == s.rest

\* _handle_telnet_command(): AO suspends if SYSREQ was negotiated.
AfterCommands(s) == suspended \/ (sysreq /\ Contains(s.cmds, <<"AO">>))

-----------------------------------------------------------------------------
(***************************************************************************)
(* _handle_ascii_mode() and _handle_tn3270_mode(): the calls of the        *)
(* parsers and what is returned.                                           *)
(***************************************************************************)
RStripEOR(data) ==
  LET keep == {i \in 1..Len(data) : data[i] # "EOR"} IN
  SubSeq(data, 1, IF keep = {} THEN 0 ELSE Max(keep))

LStripEW(data) ==
  IF data # <<>> /\ Head(data) = "EW" THEN Tail(data) ELSE data

HasHeader(data) == Len(data) >= 2 /\ data[1] \in DataTypes

AsciiVt100(data) == [calls |-> << <<"vt100", data>> >>, ret |-> RStripEOR(data)]

\* The header is recognised, and left where it is.
AsciiRecord(data) ==
  [calls |-> << <<data[1], LStripEW(data)>> >>, ret |-> LStripEW(RStripEOR(data))]

\* Neither: the text goes to both parsers.
AsciiFallback(data) ==
  [calls |-> << <<"vt100", RStripEOR(data)>>, <<"T3270", data>> >>, ret |-> RStripEOR(data)]

AsciiMode(data) ==
  IF Contains(data, "esc") THEN AsciiVt100(data)
  ELSE IF HasHeader(data) /\ tn3270e THEN AsciiRecord(data)
  ELSE AsciiFallback(data)

\* In 3270 mode a header is looked for whether or not TN3270E is active.
HeaderLength(data) == IF HasHeader(data) THEN 2 ELSE 0
RecordType(data) == IF HasHeader(data) THEN data[1] ELSE "T3270"
RecordBody(data) ==
  LStripEW(SubSeq(RStripEOR(data), HeaderLength(data) + 1, Len(RStripEOR(data))))

Tn3270Mode(data) ==
  IF RStripEOR(data) = <<>> THEN [calls |-> <<>>, ret |-> data]
  ELSE [calls |-> << <<RecordType(data), RecordBody(data)>> >>, ret |-> RecordBody(data)]

\* _detect_vt100_sequences(); text that is dense enough, which counts too, is
\* longer than a record here.
DetectVt100(data) == Contains(data, "esc")

Dispatch(data) == IF ascii' \/ DetectVt100(data) THEN AsciiMode(data) ELSE Tn3270Mode(data)

-----------------------------------------------------------------------------
\* A read of n bytes is scanned behind what is left of the one before.
Read(n) ==
  LET piece == SubSeq(wire, 1, n)
      s == Scan(buffer \o piece)
  IN  /\ n \in 1..Len(wire)
      /\ got' = got \o piece
      /\ wire' = SubSeq(wire, n + 1, Len(wire))
      /\ buffer' = Rest(s)
      /\ commands' = commands \o s.cmds
      /\ suspended' = AfterCommands(s)
      /\ out' = out \o s.out

\* What the last scan found: the new end of out.
Found == SubSeq(out', Len(out) + 1, Len(out'))

\* The negotiation's reader loop parses payload and stashes it.
ReaderLoop(n) ==
  /\ phase = "negotiating"
  /\ Read(n)
  /\ UNCHANGED ascii
  /\ \/ Found = <<>> /\ UNCHANGED <<parsed, stash>>
     \/ /\ Found # <<>>
        /\ parsed' = parsed \o Dispatch(Found).calls
        /\ stash' = stash \o Dispatch(Found).ret
  /\ UNCHANGED <<phase, tn3270e, sysreq, replayed>>

NegotiationEnds ==
  /\ phase = "negotiating"
  /\ phase' = "data"
  /\ UNCHANGED <<wire, got, buffer, stash, commands, out, parsed, ascii, tn3270e,
                 sysreq, suspended, replayed>>

\* VT100 data selects ASCII mode unless TN3270E was negotiated.
Detect(data) == ascii' = (ascii \/ (DetectVt100(data) /\ ~tn3270e))

\* An iteration of receive_data() with a read of its own.
ReceiveData(n) ==
  /\ phase = "data" /\ stash = <<>>
  /\ Read(n)
  /\ \/ Found = <<>> /\ UNCHANGED <<parsed, ascii>>
     \/ Found # <<>> /\ Detect(Found) /\ parsed' = parsed \o Dispatch(Found).calls
  /\ UNCHANGED <<stash, phase, tn3270e, sysreq, replayed>>

\* An iteration that takes the stash: it is scanned a second time, behind the
\* unfinished command that followed it in the stream.
ReceivePending ==
  LET s == Scan(buffer \o stash) IN
  /\ phase = "data" /\ stash # <<>>
  /\ stash' = <<>>
  /\ buffer' = Rest(s)
  /\ commands' = commands \o s.cmds
  /\ suspended' = AfterCommands(s)
  /\ replayed' = IF buffer = <<>> /\ ~Contains(stash, "IAC") THEN "clean" ELSE "mixed"
  /\ \/ s.out = <<>> /\ UNCHANGED <<parsed, ascii>>
     \/ s.out # <<>> /\ Detect(s.out) /\ parsed' = parsed \o Dispatch(s.out).calls
  /\ UNCHANGED <<wire, got, phase, out, tn3270e, sysreq>>

\* send_sysreq_command() leaves the suspended mode.
SendSysreq ==
  /\ phase = "data" /\ suspended
  /\ suspended' = FALSE
  /\ UNCHANGED <<wire, got, buffer, stash, phase, commands, out, parsed, ascii,
                 tn3270e, sysreq, replayed>>

StreamNext ==
  \/ \E n \in 1..Len(wire) : ReaderLoop(n) \/ ReceiveData(n)
  \/ NegotiationEnds \/ ReceivePending \/ SendSysreq

StreamSpec == StreamInit /\ [][StreamNext]_streamVars

-----------------------------------------------------------------------------
(***************************************************************************)
(* Where the reads cut the stream does not matter: the commands handled,   *)
(* the data and the unfinished command are those of one scan of all that   *)
(* was read, also across the change from the reader loop to receive_data() *)
(* as long as the stash is replayed without an unfinished command or an    *)
(* escaped IAC (tn3270_handler.py:962-1035, 2116-2154, 2598-2606).         *)
(***************************************************************************)
CutsDoNotMatter ==
  replayed # "mixed" =>
    /\ commands = Scan(got).cmds
    /\ out = Scan(got).out
    /\ buffer = Scan(got).rest

=============================================================================
