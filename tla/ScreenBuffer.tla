---------------------------- MODULE ScreenBuffer ----------------------------
(***************************************************************************)
(* ScreenBuffer as operators on a record scr: the character buffer, the    *)
(* attribute bytes, the extended attributes, the set of field starts and   *)
(* the field list detected from them.  Positions are linear addresses.     *)
(*                                                                         *)
(* Bytes are the few the operations tell apart: blanks, host and typed     *)
(* characters, and attribute bytes by the bits that matter (protected,     *)
(* modified, light-pen detectable).  An extended attribute is "typed" when *)
(* ExtendedAttributeSet wraps it in its class and "raw" when it keeps an   *)
(* int.  The cursor moves of write_char are left out: every caller sets    *)
(* the cursor itself right after.                                          *)
(***************************************************************************)
EXTENDS Integers, FiniteSetsExt

CONSTANTS Rows, Cols

ASSUME ScreenAssumption == Rows \in Nat \ {0} /\ Cols \in Nat \ {0}

Size == Rows * Cols
Pos == 0..(Size - 1)
NoPos == -1

AttrBytes == {"unprot", "prot", "mdt", "pen"}
Bytes == {"sp", "asciiSp", "host", "typed"} \cup AttrBytes
Protected(a) == a = "prot"
Detectable(a) == a = "pen"
ExtendedKinds == {"typed", "raw"}

RowOf(p) == p \div Cols
ColOf(p) == p % Cols
At(r, c) == r * Cols + c
AtMost(a, b) == IF a <= b THEN a ELSE b
AtLeast(a, b) == IF a >= b THEN a ELSE b

\* The clamping (default) mode of set_position.
Clamp(r, c) ==
  At(AtLeast(0, AtMost(Rows - 1, r)), AtLeast(0, AtMost(Cols - 1, c)))

\* A loop over 1..n that changes s step by step.
Loop(Body(_, _), s, n) ==
  LET after[i \in 0..n] == IF i = 0 THEN s ELSE Body(after[i - 1], i)
  IN after[n]

InitScreen ==
  [buf |-> [p \in Pos |-> "sp"], attr |-> [p \in Pos |-> "none"],
   ext |-> [p \in Pos |-> {}], starts |-> {}, fields |-> <<>>,
   nav |-> FALSE, stale |-> {}, cursor |-> 0, ascii |-> FALSE,
   locked |-> FALSE, pen |-> NoPos, suspend |-> 0]

FieldEnd(starts, s) ==
  IF \E t \in starts : t > s THEN Min({t \in starts : t > s}) - 1 ELSE Size - 1

\* Extended attributes at the start always leave light_pen 0: the code reads
\* .value of a value.
CreateField(scr, s) ==
  LET end == FieldEnd(scr.starts, s)
  IN [end |-> end, prot |-> Protected(scr.attr[s]),
      mod |-> scr.attr[s] = "mdt", sel |-> FALSE,
      pen |-> Detectable(scr.attr[s]) /\ scr.ext[s] = {},
      content |-> [p \in s..end |-> scr.buf[p]]]

\* Without field starts the method returns before it sets the cache flag.
DetectFields(scr) ==
  [scr EXCEPT !.fields = [s \in scr.starts |-> CreateField(scr, s)],
              !.nav = @ \/ scr.starts # {},
              !.stale = {}]

DetectUnlessSuspended(scr) ==
  IF scr.suspend = 0 THEN DetectFields(scr) ELSE scr

\* Mutant: the field list is left for the next detection.
SetAttributeOnly(scr, a) ==
  [scr EXCEPT !.buf[scr.cursor] = a, !.attr[scr.cursor] = a,
              !.starts = @ \cup {scr.cursor}, !.nav = FALSE]

SetAttribute(scr, a) ==
  DetectUnlessSuspended(
    [scr EXCEPT !.buf[scr.cursor] = a, !.attr[scr.cursor] = a,
                !.starts = @ \cup {scr.cursor}, !.nav = FALSE])

\* Unknown types leave no entry and are not enumerated here.
SetExtendedAttribute(scr, p, kind) == [scr EXCEPT !.ext[p] = @ \cup {kind}]

\* The field _update_field_content finds: the first whose rows include the
\* row; columns count only when the field lies on one row.
Credited(scr, p) ==
  {s \in DOMAIN scr.fields :
     /\ RowOf(s) <= RowOf(p) /\ RowOf(p) <= RowOf(scr.fields[s].end)
     /\ \/ RowOf(s) # RowOf(scr.fields[s].end)
        \/ s <= p /\ p <= scr.fields[s].end}

CreditFirst(scr, hits) ==
  LET s == Min(hits)
  IN [scr EXCEPT !.fields[s].mod = TRUE,
                 !.fields[s].content =
                    [p \in s..scr.fields[s].end |-> scr.buf[p]],
                 !.nav = FALSE]

UpdateFieldContent(scr, p) == CreditFirst(scr, Credited(scr, p))

WriteChar(scr, byte, p, circumvent) ==
  LET written == [scr EXCEPT !.buf[p] = byte]
  IN IF Protected(scr.attr[p]) /\ ~circumvent THEN scr
     ELSE IF Credited(written, p) # {} THEN UpdateFieldContent(written, p)
     ELSE IF ColOf(p) = 0 \/ DOMAIN scr.fields = {}
          THEN DetectUnlessSuspended(written)
     ELSE written

Clear(scr) ==
  DetectFields(
    [scr EXCEPT !.buf = [p \in Pos |-> IF scr.ascii THEN "asciiSp" ELSE "sp"],
                !.attr = [p \in Pos |-> "none"],
                !.ext = [p \in Pos |-> {}],
                !.starts = {}, !.pen = NoPos, !.cursor = 0])

BeginBulk(scr) == [scr EXCEPT !.suspend = @ + 1]

EndBulk(scr) == DetectUnlessSuspended([scr EXCEPT !.suspend = AtLeast(0, @ - 1)])

\* The start of the field a position is in, or NoPos.  A valid cache answers
\* like the list: it was filled from it.
FieldAt(scr, p) ==
  IF \E s \in DOMAIN scr.fields : s <= p /\ p <= scr.fields[s].end
  THEN CHOOSE s \in DOMAIN scr.fields : s <= p /\ p <= scr.fields[s].end
  ELSE NoPos

InputFields(scr) == {s \in DOMAIN scr.fields : ~scr.fields[s].prot}

FirstInput(scr) ==
  IF InputFields(scr) = {} THEN scr.cursor ELSE Min(InputFields(scr))

\* Mutant: after the last input field the cursor stays.
NextInputNoWrap(scr) ==
  LET after == {s \in InputFields(scr) : s > scr.cursor}
  IN IF after # {} THEN Min(after) ELSE scr.cursor

\* move_cursor_to_next_input_field; nothing in the package adds ASCII fields.
NextInput(scr) ==
  LET after == {s \in InputFields(scr) : s > scr.cursor}
  IN IF after # {} THEN Min(after) ELSE FirstInput(scr)

\* The field object in the list is replaced, the one in the cache is not.
SelectLightPen(scr, p) ==
  LET now == DetectFields(scr)
      s == FieldAt(now, p)
  IN IF s # NoPos /\ now.fields[s].pen
     THEN [now EXCEPT !.fields[s].sel = TRUE, !.stale = {s}, !.pen = p]
     ELSE now

=============================================================================
