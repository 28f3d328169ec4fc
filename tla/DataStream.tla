----------------------------- MODULE DataStream -----------------------------
(***************************************************************************)
(* DataStreamParser.parse on one 3270 record: the write command with its   *)
(* snapshot, the WCC, the orders, and the three ways an incomplete order   *)
(* ends (raise, roll back and stop, skip a byte and go on).                *)
(*                                                                         *)
(* A record is its length; the bytes are chosen as the parser reads them.  *)
(* rec.left counts the unread ones, so every truncation happens.  parse()  *)
(* never suspends, so nothing else runs until rec.phase is "idle" again.   *)
(*                                                                         *)
(* The handler's own position lags behind the parser's by the null bytes   *)
(* since the last other byte (rec.nulls).  When the last order of a record *)
(* has no operand, the parser is set to the byte behind the lagging        *)
(* position, so it reads nulls and that order again (rec.again).           *)
(***************************************************************************)
EXTENDS ScreenBuffer, Sequences

CONSTANTS
  HostAttrs,   \* bound: the attribute bytes the host sends
  RecordSizes, \* bound: the lengths of records
  MaxBytes,    \* bound: bytes of all records
  BulkLimit    \* records longer than this are parsed in bulk mode (4096)

ASSUME RecordAssumption ==
  /\ HostAttrs \subseteq AttrBytes
  /\ RecordSizes \subseteq Nat /\ MaxBytes \in Nat /\ BulkLimit \in Nat

VARIABLES
  scr,
  rec,     \* the record being parsed
  last,    \* _last_field_start_pos
  before,  \* history: the screen when the record arrived
  budget   \* bytes the host may still send

parserVars == <<scr, rec, last, before, budget>>

SnapshotOf(s) ==
  [buf |-> s.buf, attr |-> s.attr, starts |-> s.starts,
   ext |-> [p \in Pos |-> IF "raw" \in s.ext[p] THEN {} ELSE s.ext[p]],
   cursor |-> s.cursor, ascii |-> s.ascii, pen |-> s.pen]

NoRecord ==
  [phase |-> "idle", cmd |-> "none", left |-> 0, nulls |-> 0, again |-> FALSE,
   bulk |-> FALSE, snap |-> SnapshotOf(InitScreen)]

ParserInit ==
  /\ scr = InitScreen
  /\ rec = NoRecord
  /\ last = NoPos
  /\ before = InitScreen
  /\ budget = MaxBytes

\* What _restore_screen puts back; the lock and the last field start stay.
RestoreScreen(s, snap) ==
  DetectFields(
    [s EXCEPT !.buf = snap.buf, !.attr = snap.attr, !.starts = snap.starts,
              !.ext = snap.ext, !.cursor = snap.cursor, !.ascii = snap.ascii,
              !.pen = snap.pen])

Parse(n) ==
  LET fresh == [scr EXCEPT !.ascii = FALSE, !.cursor = 0]
  IN /\ rec.phase = "idle"
     /\ n <= budget
     /\ budget' = budget - n
     /\ before' = scr
     /\ scr' = IF n > BulkLimit THEN BeginBulk(fresh) ELSE fresh
     /\ rec' = [rec EXCEPT !.phase = IF n = 0 THEN "done" ELSE "first",
                           !.cmd = "none", !.left = n, !.bulk = n > BulkLimit]
     /\ UNCHANGED last

\* Mutant: the snapshot is taken after the screen is cleared.
WriteSnapshotsLate(cmd) ==
  /\ rec.phase = "first"
  /\ scr' = Clear(scr)
  /\ rec' = [rec EXCEPT !.phase = "wcc", !.cmd = cmd, !.left = @ - 1,
                        !.snap = SnapshotOf(Clear(scr))]
  /\ UNCHANGED <<last, before, budget>>

\* A Write clears the screen like an Erase/Write.
HandleWrite(cmd) ==
  /\ rec.phase = "first"
  /\ scr' = Clear(scr)
  /\ rec' = [rec EXCEPT !.phase = "wcc", !.cmd = cmd, !.left = @ - 1,
                        !.snap = SnapshotOf(scr)]
  /\ UNCHANGED <<last, before, budget>>

\* reset_mdt_flags and terminal_reset change nothing; only the restore bit does.
HandleWcc(restore) ==
  /\ rec.left > 0
  /\ rec.phase = "wcc" \/ rec.phase = "first"
  /\ scr' = [scr EXCEPT !.locked = @ /\ ~restore, !.cursor = 0]
  /\ rec' = [rec EXCEPT !.phase = "orders", !.left = @ - 1]
  /\ UNCHANGED <<last, before, budget>>

\* An order at the head of the record with at least n bytes after it; what is
\* read again is known and no new order.
OrderWith(n) == rec.phase = "orders" /\ rec.left > n /\ ~rec.again

\* It consumes its own byte and n more, and the positions agree.
Consume(n) == rec' = [rec EXCEPT !.left = @ - 1 - n, !.nulls = 0]

Stop(phase) == rec' = [rec EXCEPT !.phase = phase, !.left = 0, !.nulls = 0]

\* An Incomplete error that leaves the loop: roll back, stop, raise.
RaiseIncomplete ==
  /\ scr' = RestoreScreen(scr, rec.snap)
  /\ Stop("aborted")

\* Only an Erase/Write needs its WCC.
MissingWcc ==
  /\ rec.phase = "wcc" /\ rec.left = 0
  /\ IF rec.cmd = "EW" THEN RaiseIncomplete ELSE Stop("done") /\ UNCHANGED scr
  /\ UNCHANGED <<last, before, budget>>

\* SA, SBA and EUA without their operands: roll back, stop, do not raise.
AbortWrite ==
  /\ OrderWith(0) /\ rec.left <= 2
  /\ scr' = IF rec.cmd = "none" THEN scr ELSE RestoreScreen(scr, rec.snap)
  /\ Stop(IF rec.cmd = "none" THEN "done" ELSE "aborted")
  /\ UNCHANGED <<last, before, budget>>

\* The last byte is an order without any of its operands.
OrderAlone == rec.phase = "orders" /\ rec.left = 1

\* Mutant: the lagging position is not advanced before the parser goes back
\* to it.
SkipWithoutAdvance ==
  /\ OrderAlone
  /\ rec' = [rec EXCEPT !.left = rec.nulls + 1, !.nulls = 0, !.again = TRUE]
  /\ UNCHANGED <<scr, last, before, budget>>

\* Any other order without its operands, RA needing three.  If some of them
\* are there one is skipped; if not, the parser goes on behind the last byte
\* that was not a null.
SkipIncomplete ==
  /\ \/ /\ OrderWith(1) /\ rec.left <= 3
        /\ rec' = [rec EXCEPT !.left = @ - 2, !.nulls = 0]
     \/ /\ OrderAlone
        /\ rec' = [rec EXCEPT !.left = rec.nulls, !.nulls = 0, !.again = rec.nulls > 0]
  /\ UNCHANGED <<scr, last, before, budget>>

Moved(p) == [scr EXCEPT !.cursor = p]

\* _insert_data: below the last row the cursor stays on it.
Insert(s, byte) ==
  [s EXCEPT !.buf[s.cursor] = byte,
            !.cursor = IF s.cursor + 1 < Size THEN s.cursor + 1
                       ELSE At(Rows - 1, 0)]

InsertData(byte) ==
  /\ OrderWith(0)
  /\ scr' = Insert(scr, byte)
  /\ Consume(0)
  /\ UNCHANGED <<last, before, budget>>

\* A null byte.  What is read again are nulls before the order.
SkipNull ==
  /\ rec.phase = "orders" /\ rec.left > IF rec.again THEN 1 ELSE 0
  /\ rec' = [rec EXCEPT !.left = @ - 1, !.nulls = @ + 1]
  /\ UNCHANGED <<scr, last, before, budget>>

\* 0x40 is a space, except before 0x01, where both are a control code that
\* only logs.
HandleDataStreamCtl ==
  /\ OrderWith(1)
  /\ Consume(1)
  /\ UNCHANGED <<scr, last, before, budget>>

\* The address is clamped to the screen row by row and column by column, so
\* every position can be the target.
HandleSba(p) ==
  /\ OrderWith(2)
  /\ scr' = Moved(p)
  /\ Consume(2)
  /\ UNCHANGED <<last, before, budget>>

\* The cursor moves right of the attribute byte but not to the next row.
HandleSf(a) ==
  /\ OrderWith(1)
  /\ scr' = [SetAttribute(scr, a) EXCEPT
               !.cursor = Clamp(RowOf(scr.cursor), ColOf(scr.cursor) + 1)]
  /\ last' = scr.cursor
  /\ Consume(1)
  /\ UNCHANGED <<before, budget>>

ResolveFieldStart == IF last = NoPos THEN scr.cursor ELSE last

\* MF takes pairs up to the end of the record; an odd byte is left over.
HandleMf(kinds) ==
  /\ OrderWith(2)
  /\ scr' = [scr EXCEPT !.ext[ResolveFieldStart] = @ \cup kinds]
  /\ rec' = [rec EXCEPT !.left = (@ - 1) % 2, !.nulls = 0]
  /\ UNCHANGED <<last, before, budget>>

HandleSa(kind) ==
  /\ OrderWith(2)
  /\ scr' = SetExtendedAttribute(scr, ResolveFieldStart, kind)
  /\ Consume(2)
  /\ UNCHANGED <<last, before, budget>>

Distance(from, to) == IF to >= from THEN to - from ELSE Size - from + to

Repeated(s, n) == Loop(LAMBDA t, i : Insert(t, "host"), s, n)

\* RA repeats with _insert_data, which does not wrap to the first row.
HandleRa(p) ==
  /\ OrderWith(3)
  /\ scr' = [Repeated(scr, Distance(scr.cursor, p)) EXCEPT !.cursor = p]
  /\ Consume(3)
  /\ UNCHANGED <<last, before, budget>>

EraseUnprotected(s, p) ==
  IF FieldAt(s, p) # NoPos /\ s.fields[FieldAt(s, p)].prot THEN s
  ELSE WriteChar(s, "sp", p, TRUE)

Erased(s, n) == Loop(LAMBDA t, i : EraseUnprotected(t, (s.cursor + i - 1) % Size), s, n)

HandleEua(p) ==
  /\ OrderWith(2)
  /\ scr' = [Erased(scr, Distance(scr.cursor, p)) EXCEPT !.cursor = p]
  /\ Consume(2)
  /\ UNCHANGED <<last, before, budget>>

HandleGe ==
  /\ OrderWith(1)
  /\ scr' = Insert(scr, "host")
  /\ Consume(1)
  /\ UNCHANGED <<last, before, budget>>

\* IC moves to the first input field, PT to the next.
HandleIc ==
  /\ OrderWith(0)
  /\ scr' = Moved(FirstInput(scr))
  /\ Consume(0)
  /\ UNCHANGED <<last, before, budget>>

HandlePt ==
  /\ OrderWith(0)
  /\ scr' = Moved(NextInput(scr))
  /\ Consume(0)
  /\ UNCHANGED <<last, before, budget>>

\* One attribute pair of a Start Field Extended, at the cursor.
SfePair(s, pair) ==
  IF pair \in AttrBytes THEN SetAttribute(s, pair)
  ELSE IF pair = "ignored" THEN s
  ELSE SetExtendedAttribute(s, s.cursor, pair)

Paired(s, pairs) == Loop(LAMBDA t, i : SfePair(t, pairs[i]), s, Len(pairs))

SfePairs == HostAttrs \cup ExtendedKinds \cup {"ignored"}

\* The SFE order: n pairs, fewer when the record ends; a base attribute moves
\* the cursor once.  It does not set _last_field_start_pos.
HandleSfe(pairs) ==
  /\ OrderWith(1 + 2 * Len(pairs))
  /\ LET set == Paired(scr, pairs)
     IN scr' = IF \E i \in DOMAIN pairs : pairs[i] \in AttrBytes
               THEN [set EXCEPT !.cursor = Clamp(RowOf(scr.cursor),
                                                 ColOf(scr.cursor) + 1)]
               ELSE set
  /\ Consume(1 + 2 * Len(pairs))
  /\ UNCHANGED <<last, before, budget>>

\* A structured field of n bytes after its length and type.  Only the SFE type
\* touches the screen, and leaves the cursor alone.
HandleStructuredField(pairs, n) ==
  /\ OrderWith(3 + n)
  /\ scr' = Paired(scr, pairs)
  /\ Consume(3 + n)
  /\ UNCHANGED <<last, before, budget>>

\* A structured field with no room for its header takes the rest; an SFE that
\* is the last byte has no effect either.
SkipStructuredField ==
  /\ OrderWith(0) /\ rec.left <= 3
  /\ Stop("orders")
  /\ UNCHANGED <<scr, last, before, budget>>

\* SCS control codes go to the printer buffer.
HandleScs ==
  /\ OrderWith(1)
  /\ Consume(1)
  /\ UNCHANGED <<scr, last, before, budget>>

\* The finally clause of parse().
EndParse ==
  /\ \/ rec.phase = "done" \/ rec.phase = "aborted"
     \/ rec.phase = "orders" /\ rec.left = 0
  /\ scr' = IF rec.bulk THEN EndBulk(scr) ELSE scr
  /\ rec' = NoRecord
  /\ before' = InitScreen
  /\ UNCHANGED <<last, budget>>

Orders ==
  \/ \E b \in {"host", "sp"} : InsertData(b)
  \/ SkipNull \/ HandleDataStreamCtl \/ HandleGe \/ HandleIc \/ HandlePt
  \/ \E p \in Pos : HandleSba(p) \/ HandleRa(p) \/ HandleEua(p)
  \/ \E a \in HostAttrs : HandleSf(a)
  \/ \E kinds \in SUBSET ExtendedKinds : HandleMf(kinds)
  \/ \E k \in ExtendedKinds : HandleSa(k)
  \/ AbortWrite \/ SkipIncomplete
  \/ \E n \in 0..2 : \E pairs \in [1..n -> SfePairs] : HandleSfe(pairs)
  \/ \E n \in 0..rec.left : \E pairs \in [1..(n \div 2) -> SfePairs] :
       HandleStructuredField(pairs, n)
  \/ SkipStructuredField \/ HandleScs

ParserStep ==
  \/ \E cmd \in {"W", "EW"} : HandleWrite(cmd)
  \/ \E restore \in BOOLEAN : HandleWcc(restore)
  \/ MissingWcc \/ Orders \/ EndParse
=============================================================================
