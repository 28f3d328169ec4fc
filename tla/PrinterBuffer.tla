--------------------------- MODULE PrinterBuffer ---------------------------
(***************************************************************************)
(* PrinterBuffer (printer_buffer.py) as the data stream parser drives it:  *)
(* SCS records become lines.  A record is a sequence of codes: letters,    *)
(* the controls, "order" for a byte that is a screen order, "ctl" for      *)
(* another one that cannot be shown, "T" and "R" for the halves of a word  *)
(* of a trace, "1" for a digit, which with "H" begins a record's header,   *)
(* "U" and "S" for the two bytes of a marker fragment, which together have *)
(* the record printed in bulk, and "pka" for the marker that is looked for *)
(* once more at the end.  Columns, the blanks for bytes that cannot be     *)
(* shown next to the marker and the characters of a code page are left     *)
(* out.                                                                    *)
(***************************************************************************)
EXTENDS Integers, Sequences, FiniteSets, SequencesExt

CONSTANTS
  Records,        \* the SCS records the host may send
  MaxLines,       \* max_lines
  TailLength,     \* tail_len, the bytes kept of a record: 32 in the code
  MaxRecords      \* bound: records of one behaviour

Controls == {"LF", "CR", "FF", "HT", "SOH"}
Alphabetic == {"a", "b", "T", "R", "H", "U", "S", "pka"}
Letters == Alphabetic \cup {"1"}
Codes == Controls \cup Letters \cup {"order", "ctl"}

ASSUME BufferAssumption ==
  /\ MaxLines \in Nat \ {0} /\ TailLength \in Nat \ {0} /\ MaxRecords \in Nat
  /\ \A r \in Records : r \in Seq(Codes)

VARIABLES
  buf,       \* _buffer, the finished lines
  line,      \* _current_line
  pending,   \* _pending_bytes
  routed,    \* _last_parser_pos has been set
  printed,   \* history: the records so far
  lost       \* history: text was left out when the last one was written

bufferVars == <<buf, line, pending, routed, printed, lost>>

BufferInit ==
  /\ buf = <<>> /\ line = <<>> /\ pending = <<>>
  /\ routed = FALSE
  /\ printed = <<>>
  /\ lost = FALSE

\* One of the marker fragments is in the bytes.
Marked(s) == \E i \in 1..(Len(s) - 1) : s[i] = "U" /\ s[i + 1] = "S"

\* Bytes decoded in bulk: a blank for each that cannot be shown.
Relaxed(s) == [i \in 1..Len(s) |-> IF s[i] \in Letters THEN s[i] ELSE "blank"]

\* Where a number and "H" end that stand before a word; in bulk up to a number
\* of blanks may stand before them.
HeaderEnds(text, blanks) ==
  {k \in 2..(Len(text) - 1) :
     /\ text[k] = "H" /\ text[k + 1] \in Alphabetic
     /\ \E b \in 0..blanks :
          b < k - 1 /\ \A i \in 1..(k - 1) : text[i] = IF i <= b THEN "blank" ELSE "1"}

\* Such a header is taken for carriage control and stripped.
WithoutHeader(text, blanks) ==
  IF HeaderEnds(text, blanks) = {} THEN text
  ELSE SubSeq(text, (CHOOSE k \in HeaderEnds(text, blanks) : TRUE) + 1, Len(text))

-----------------------------------------------------------------------------
(***************************************************************************)
(* The loop of write_scs_data() over the codes of a record.  w is the      *)
(* state of the writer: its lines, the current line, the run of bytes not  *)
(* yet written, what of it can be shown, whether the next byte is SOH's    *)
(* status, and whether text has been left out.                             *)
(***************************************************************************)
Writer(lines, cur) ==
  [lines |-> lines, cur |-> cur, run |-> <<>>, text |-> <<>>, soh |-> FALSE, lost |-> FALSE]

Count(run, codes) == Cardinality({i \in 1..Len(run) : run[i] \in codes})

\* A run looks like screen content: a screen order in it, a word of a trace, or
\* too many bytes that cannot be shown.
ShouldSuppress(run) ==
  \/ Contains(run, "order")
  \/ \E i \in 1..(Len(run) - 1) : run[i] = "T" /\ run[i + 1] = "R"
  \/ Count(run, Letters) > 0 /\ 2 * Count(run, {"ctl"}) > Count(run, Letters)

\* Whichever decoding is chosen, the text of the run is shown but its header.
AppendText(w) == [w EXCEPT !.cur = @ \o WithoutHeader(w.text, 0),
                           !.lost = @ \/ WithoutHeader(w.text, 0) # w.text]

EndRun(w) ==
  [(IF ShouldSuppress(w.run) THEN [w EXCEPT !.lost = TRUE] ELSE AppendText(w))
     EXCEPT !.run = <<>>, !.text = <<>>]

Flush(w) == [w EXCEPT !.lines = Append(@, w.cur), !.cur = <<>>]

\* A line feed flushes, and _new_line() flushes once more.
Control(w, code) ==
  CASE code = "LF"  -> Flush(Flush(w))
    [] code = "FF"  -> [Flush(w) EXCEPT !.lines = Append(@, <<"FF">>)]
    [] code = "HT"  -> [w EXCEPT !.cur = Append(@, "HT")]
    [] code = "CR"  -> w
    [] code = "SOH" -> [w EXCEPT !.soh = TRUE]

Code(w, code) ==
  IF w.soh THEN [w EXCEPT !.soh = FALSE]
  ELSE IF code \in Controls THEN Control(EndRun(w), code)
  ELSE [w EXCEPT !.run = Append(@, code),
                 !.text = IF code = "ctl" THEN @ ELSE Append(@, code)]

\* The writer behind the last of the codes.
WriteCodes(w, data) ==
  LET after[i \in 0..Len(data)] == IF i = 0 THEN w ELSE Code(after[i - 1], data[i])
  IN  after[Len(data)]

\* The marker is appended if the current line does not show it.
Recheck(w, data) ==
  IF Contains(data, "pka") /\ ~Contains(w.cur, "pka")
    THEN [w EXCEPT !.cur = Append(@, "pka")] ELSE w

Written(data) ==
  Flush(Recheck(EndRun(WriteCodes(Writer(buf, line), data)), data))

\* Mutant: the oldest lines are kept.
TrimmedToOldest(lines) == IF Len(lines) > MaxLines THEN SubSeq(lines, 1, MaxLines) ELSE lines

Trimmed(lines) ==
  IF Len(lines) > MaxLines
    THEN SubSeq(lines, Len(lines) - MaxLines + 1, Len(lines)) ELSE lines

TailOf(data) ==
  IF Len(data) >= TailLength
    THEN SubSeq(data, Len(data) - TailLength + 1, Len(data)) ELSE data

\* write_scs_data() with or without a parser position.
WriteScsData(record, based) ==
  LET data == IF based THEN pending \o record ELSE record
      kept == IF based THEN <<>> ELSE pending
  IN  IF Marked(kept \o data)
        THEN LET bytes  == IF Marked(data) THEN data ELSE kept \o data
                 blanks == IF Marked(data) THEN Len(data) ELSE 0
                 text   == WithoutHeader(Relaxed(bytes), blanks)
             IN  /\ line' = line \o text
                 /\ lost' = (text # Relaxed(bytes))
                 /\ pending' = IF Marked(data) THEN kept ELSE <<>>
                 /\ UNCHANGED buf
        ELSE /\ buf' = Trimmed(Written(data).lines)
             /\ lost' = Written(data).lost
             /\ line' = <<>>
             /\ pending' = IF based /\ data # <<>> THEN TailOf(data) ELSE kept

-----------------------------------------------------------------------------
\* An SCS_DATA record: _handle_scs_data() notes the parser's position first.
RouteScsData(record) ==
  /\ Len(printed) < MaxRecords
  /\ WriteScsData(record, TRUE)
  /\ routed' = TRUE
  /\ printed' = Append(printed, record)

\* A control code inside a 3270 data stream: no position of its own.
ScsOrder(code) ==
  /\ Len(printed) < MaxRecords
  /\ WriteScsData(<<code>>, routed)
  /\ printed' = Append(printed, <<code>>)
  /\ UNCHANGED routed

\* A PRINT-EOJ record: end_job().
EndJob ==
  /\ Len(printed) < MaxRecords
  /\ buf' = Append(Append(buf, line), <<"EOJ">>)
  /\ line' = <<>>
  /\ printed' = Append(printed, <<>>)
  /\ lost' = FALSE
  /\ UNCHANGED <<pending, routed>>

BufferNext ==
  \/ \E r \in Records : RouteScsData(r)
  \/ \E c \in Controls \ {"SOH"} : ScsOrder(c)
  \/ EndJob

BufferSpec == BufferInit /\ [][BufferNext]_bufferVars

-----------------------------------------------------------------------------
\* The record does not swallow the start of the next one.
Clean(record) == record # <<>> => Last(record) # "SOH"

\* What a code does to the lines of a printer that leaves nothing out.
Stepped(o, c) ==
  CASE c \in Letters \cup {"HT", "order"} -> [o EXCEPT ![Len(o)] = Append(@, c)]
    [] c = "LF"  -> Append(Append(o, <<>>), <<>>)
    [] c = "FF"  -> Append(Append(o, <<"FF">>), <<>>)
    [] OTHER     -> o

Plain(p, c) ==
  IF p.soh THEN [out |-> p.out, soh |-> FALSE]
           ELSE [out |-> Stepped(p.out, c), soh |-> (c = "SOH")]

\* The lines that such a printer makes of a record.
Own(record) ==
  LET after[i \in 0..Len(record)] ==
        IF i = 0 THEN [out |-> <<<<>>>>, soh |-> FALSE] ELSE Plain(after[i - 1], record[i])
  IN  after[Len(record)].out

\* The codes that have a part in each of the rules by which text is left out.
Tells == {"order", "ctl", "T", "1"}

\* The marker is printed once more.
MarkedAgain(lines) == [lines EXCEPT ![Len(lines)] = Append(@, "pka")]

\* The lines end with those of a record, of which the first may go on with a
\* line that was begun before.
EndWith(lines, own) ==
  LET k == Len(lines) - Len(own)
  IN  /\ k >= 0
      /\ IsSuffix(own[1], lines[k + 1])
      /\ \A j \in 2..Len(own) : lines[k + j] = own[j]

(***************************************************************************)
(* Unless text was left out, the record just written is printed, complete  *)
(* and line by line, whatever was kept of earlier records: in bulk it ends *)
(* the current line, and otherwise its own lines end the buffer, as far as *)
(* the buffer keeps so many.  Text is only left out if a record so far had *)
(* a code that the rules react to; two records may complete what neither   *)
(* holds, since the rules see the bytes kept with the record               *)
(* (printer_buffer.py:130-182, 226-240, 261-296, 353-388, 396-789, 883).   *)
(***************************************************************************)
LastRecordIsPrinted ==
  /\ lost => \E i \in 1..Len(printed) : \E j \in 1..Len(printed[i]) : printed[i][j] \in Tells
  /\ (~lost /\ printed # <<>> /\ \A i \in 1..Len(printed) : Clean(printed[i])) =>
       LET record == Last(printed)
           own == Own(record)
       IN  IF line # <<>> THEN IsSuffix(Relaxed(record), line)
           ELSE Len(own) <= MaxLines => EndWith(buf, own) \/ EndWith(buf, MarkedAgain(own))
=============================================================================
