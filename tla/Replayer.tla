------------------------------ MODULE Replayer ------------------------------
(***************************************************************************)
(* Offline replay of traces (trace/replayer.py): the lines of a file are   *)
(* put together to records, the records parsed onto a screen of the size   *)
(* the file names, or fed to the handler of a session.                     *)
(***************************************************************************)
EXTENDS Integers, Sequences

CONSTANT TraceFiles   \* [size, lines]; the size of the header comments, if any

\* A data line: direction, offset, number of bytes and what its first byte
\* starts; a blank line; or any other one.
Heads == {"accept", "refuse", "telnet", "envelope", "write"}
OtherLine == [dir |-> "none", off |-> 0, len |-> 0, head |-> "write"]
BlankLine == [dir |-> "blank", off |-> 0, len |-> 0, head |-> "write"]
Lines ==
  [dir : {"<", ">"}, off : Nat, len : Nat \ {0}, head : Heads] \cup {OtherLine, BlankLine}
IsData(text, i) == text[i].dir \in {"<", ">"}
ASSUME FilesAssumption == \A f \in TraceFiles : f.lines \in Seq(Lines)

EnvelopeLength == 5
DefaultSize == 24

VARIABLES
  replayer,   \* what the Replayer does: idle, parsing or feeding
  lines,      \* the lines of the file it reads
  size,       \* rows of its screen buffer
  queue,      \* records still to be played
  envelopes,  \* tn3270e_active
  played      \* what the parser was given: number of bytes, or "skipped"

replayerVars == <<replayer, lines, size, queue, envelopes, played>>

ReplayerInit ==
  /\ replayer = "idle" /\ lines = <<>> /\ size = DefaultSize /\ queue = <<>>
  /\ envelopes = FALSE /\ played = <<>>

-----------------------------------------------------------------------------
\* A record: its first and its last line, and the bytes collected from them.
EmptyRecord == [from |-> 0, to |-> 0, len |-> 0]

\* Mutant: a line is expected right behind the first line of the record.
ContinuesFirst(text, record, i) ==
  /\ record # EmptyRecord
  /\ text[i].dir = text[record.from].dir
  /\ text[i].off = text[record.from].off + text[record.from].len

\* A line that goes on where the record, as far as it has come, ends.
Continues(text, record, i) ==
  /\ record # EmptyRecord
  /\ text[i].dir = text[record.from].dir
  /\ text[i].off = text[record.from].off + record.len

\* _flush(): an empty buffer is no record.
Flushed(acc) ==
  IF acc.current = EmptyRecord THEN acc.records ELSE Append(acc.records, acc.current)

\* One line: a blank one is passed over; any other line, and one that starts a
\* record, end the current one.
ParseLine(text, acc, i) ==
  IF text[i].dir = "blank" THEN acc
  ELSE IF text[i].dir = "none" THEN [records |-> Flushed(acc), current |-> EmptyRecord]
  ELSE IF Continues(text, acc.current, i)
    THEN [records |-> acc.records,
          current |-> [from |-> acc.current.from, to |-> i,
                      len |-> acc.current.len + text[i].len]]
    ELSE [records |-> Flushed(acc),
          current |-> [from |-> i, to |-> i, len |-> text[i].len]]

\* _parse_trace(): line by line, and a flush at the end.
ParseTrace(text) ==
  LET after[i \in 0..Len(text)] ==
        IF i = 0 THEN [records |-> <<>>, current |-> EmptyRecord]
                 ELSE ParseLine(text, after[i - 1], i)
  IN Flushed(after[Len(text)])

\* _detect_screen_size(): the comments of the file, or the default.
DetectScreenSize(file) == IF file.size = 0 THEN DefaultSize ELSE file.size

\* replay() up to its loop: a new screen only for a size that is not the default.
Replay(file) ==
  /\ size' = IF DetectScreenSize(file) = DefaultSize THEN size ELSE DetectScreenSize(file)
  /\ queue' = ParseTrace(file.lines) /\ lines' = file.lines
  /\ replayer' = "parsing" /\ envelopes' = FALSE /\ played' = <<>>

\* One record: an offer or refusal of TN3270E switches the headers on or off,
\* Telnet commands are left out, a header is taken off.
PlayRecord ==
  LET record == Head(queue)
      head == lines[record.from].head
      active == IF head = "accept" THEN TRUE ELSE IF head = "refuse" THEN FALSE ELSE envelopes
      envelope == active /\ head = "envelope" /\ record.len >= EnvelopeLength
  IN
  /\ replayer = "parsing" /\ queue # <<>>
  /\ envelopes' = active
  /\ played' = Append(played, IF head \in {"accept", "refuse", "telnet"} THEN -1
                              ELSE IF envelope THEN record.len - EnvelopeLength
                              ELSE record.len)
  /\ queue' = Tail(queue)
  /\ UNCHANGED <<replayer, lines, size>>

\* replay_to_session(): every record as it is; at the end TN3270E counts as
\* negotiated if option 40 was in any of them.
ReplayToSession(file) ==
  /\ queue' = ParseTrace(file.lines) /\ lines' = file.lines
  /\ queue' # <<>>
  /\ envelopes' = \E i \in DOMAIN file.lines : file.lines[i].head \in {"accept", "refuse"}
  /\ replayer' = "feeding" /\ played' = <<>>
  /\ UNCHANGED size

FeedRecord ==
  /\ replayer = "feeding" /\ queue # <<>>
  /\ played' = Append(played, Head(queue).len)
  /\ queue' = Tail(queue)
  /\ UNCHANGED <<replayer, lines, size, envelopes>>

ReplayReturns ==
  /\ replayer # "idle" /\ queue = <<>>
  /\ replayer' = "idle" /\ lines' = <<>> /\ envelopes' = FALSE /\ played' = <<>>
  /\ UNCHANGED <<size, queue>>

ReplayerNext ==
  \/ replayer = "idle" /\ \E file \in TraceFiles : Replay(file) \/ ReplayToSession(file)
  \/ PlayRecord \/ FeedRecord \/ ReplayReturns

ReplayerSpec == ReplayerInit /\ [][ReplayerNext]_replayerVars

-----------------------------------------------------------------------------
\* Reference: a data line goes on where the data line before it ended, blank
\* lines between the two or not; else it starts a record.
GoesOn(text, i) ==
  \E j \in 1..(i - 1) :
    /\ text[j].dir = text[i].dir /\ text[j].off + text[j].len = text[i].off
    /\ \A k \in (j + 1)..(i - 1) : text[k].dir = "blank"

StartsRecord(text, i) == IsData(text, i) /\ ~GoesOn(text, i)

\* One direction, one start, and the bytes from the first offset to the last.
IsRecord(text, r, n) ==
  /\ r.from \in 1..n /\ r.to \in r.from..n
  /\ IsData(text, r.to)
  /\ \A i \in r.from..r.to :
       /\ text[i].dir \in {text[r.from].dir, "blank"}
       /\ StartsRecord(text, i) <=> i = r.from
  /\ r.len = text[r.to].off + text[r.to].len - text[r.from].off

InOrder(records) ==
  \A j, k \in 1..Len(records) : j < k => records[j].to < records[k].from

Covered(text, records, n) ==
  \A i \in 1..n : IsData(text, i) =>
    \E k \in 1..Len(records) : i \in records[k].from..records[k].to

(***************************************************************************)
(* The records of a trace are its data lines, none lost and none twice, in *)
(* their order, and a record ends exactly where the next line, blank lines *)
(* aside, does not go on at the offset the data line before it reached:    *)
(* the bookkeeping over many lines agrees with the rule for two.  While    *)
(* they are played none of the remaining ones is changed                   *)
(* (replayer.py:386-399, 404-471).                                         *)
(***************************************************************************)
RecordsAreWhole ==
  replayer # "idle" =>
    /\ \A k \in 1..Len(queue) : IsRecord(lines, queue[k], Len(lines))
    /\ InOrder(queue)
    /\ played = <<>> => Covered(lines, queue, Len(lines))
=============================================================================
