------------------------------- MODULE Vt100 -------------------------------
(***************************************************************************)
(* The VT100 parser (vt100_parser.py) as the handler uses it: a new parser *)
(* for every read (tn3270_handler.py:2690, 2824), which interprets the     *)
(* text of the read and writes to the screen buffer.  A step is one        *)
(* character or one complete sequence; a sequence that the end of the read *)
(* cuts is dropped, and its tail is text of the next read.                 *)
(***************************************************************************)
EXTENDS Integers

CONSTANTS
  VRows, VCols,   \* the screen buffer's size
  VParams         \* parameters of control sequences

ASSUME VSize == VRows \in Nat \ {0} /\ VCols \in Nat \ {0} /\ VParams \subseteq Nat

TabWidth == 8

VARIABLES
  cur,       \* <<current_row, current_col>>
  savedCur,  \* <<saved_row, saved_col>>
  charset,   \* charset and is_alt_charset
  vcells     \* which cells hold text; the others are blank

vt100Vars == <<cur, savedCur, charset, vcells>>

Home == <<0, 0>>
Standard == [set |-> "B", alt |-> FALSE]
Cells == (0..(VRows - 1)) \X (0..(VCols - 1))

Smaller(a, b) == IF a < b THEN a ELSE b
Larger(a, b) == IF a > b THEN a ELSE b

Vt100Init ==
  /\ cur = Home /\ savedCur = Home
  /\ charset = Standard
  /\ vcells = {}

-----------------------------------------------------------------------------
\* A read begins: VT100Parser() on the same screen buffer.
NewParser ==
  /\ cur' = Home /\ savedCur' = Home
  /\ charset' = Standard
  /\ UNCHANGED vcells

\* _write_char() of a control character.
LineFeed ==
  /\ cur' = <<Smaller(VRows - 1, cur[1] + 1), 0>>
  /\ UNCHANGED <<savedCur, charset, vcells>>

CarriageReturn ==
  /\ cur' = <<cur[1], 0>>
  /\ UNCHANGED <<savedCur, charset, vcells>>

Tab ==
  /\ cur' = <<cur[1], Smaller(VCols - 1, (cur[2] \div TabWidth + 1) * TabWidth)>>
  /\ UNCHANGED <<savedCur, charset, vcells>>

BackSpace ==
  /\ cur[2] > 0
  /\ cur' = <<cur[1], cur[2] - 1>>
  /\ UNCHANGED <<savedCur, charset, vcells>>

\* _write_char() of text: the cursor wraps, and the last line is written over.
\* Mutant: the cursor leaves the last line.
TextScrollsOff ==
  /\ vcells' = vcells \cup ({cur} \cap Cells)
  /\ cur' = IF cur[2] + 1 >= VCols THEN <<cur[1] + 1, 0>> ELSE <<cur[1], cur[2] + 1>>
  /\ UNCHANGED <<savedCur, charset>>

Text ==
  /\ vcells' = vcells \cup ({cur} \cap Cells)
  /\ cur' = IF cur[2] + 1 >= VCols THEN <<Smaller(VRows - 1, cur[1] + 1), 0>>
                                   ELSE <<cur[1], cur[2] + 1>>
  /\ UNCHANGED <<savedCur, charset>>

\* SO, SI and ESC ( select character sets; nothing is written in them.
ShiftCharset(alt) ==
  /\ charset' = [charset EXCEPT !.alt = alt]
  /\ UNCHANGED <<cur, savedCur, vcells>>

SelectCharset(s) ==
  /\ charset' = [charset EXCEPT !.set = s]
  /\ UNCHANGED <<cur, savedCur, vcells>>

-----------------------------------------------------------------------------
\* ESC 7, ESC 8 and CSI s, CSI u.
SaveCursor ==
  /\ savedCur' = cur
  /\ UNCHANGED <<cur, charset, vcells>>

RestoreCursor ==
  /\ cur' = savedCur
  /\ UNCHANGED <<savedCur, charset, vcells>>

Index ==
  /\ cur[1] < VRows - 1
  /\ cur' = <<cur[1] + 1, cur[2]>>
  /\ UNCHANGED <<savedCur, charset, vcells>>

ReverseIndex ==
  /\ cur[1] > 0
  /\ cur' = <<cur[1] - 1, cur[2]>>
  /\ UNCHANGED <<savedCur, charset, vcells>>

\* ESC c
ResetTerminal ==
  /\ cur' = Home /\ savedCur' = Home
  /\ charset' = Standard
  /\ vcells' = {}

-----------------------------------------------------------------------------
\* _move_cursor()
MoveCursor(row, col) ==
  /\ cur' = <<Larger(0, Smaller(VRows - 1, row)), Larger(0, Smaller(VCols - 1, col))>>
  /\ UNCHANGED <<savedCur, charset, vcells>>

\* A parameter that is missing or zero counts as one.
Param(n) == IF n > 0 THEN n ELSE 1

CursorPosition(r, c) == MoveCursor(Param(r) - 1, Param(c) - 1)

CursorMoves(command, n) ==
  CASE command = "A" -> MoveCursor(Larger(0, cur[1] - Param(n)), cur[2])
    [] command = "B" -> MoveCursor(Smaller(VRows - 1, cur[1] + Param(n)), cur[2])
    [] command = "C" -> MoveCursor(cur[1], Smaller(VCols - 1, cur[2] + Param(n)))
    [] command = "D" -> MoveCursor(cur[1], Larger(0, cur[2] - Param(n)))

Offset(pos) == pos[1] * VCols + pos[2]

\* 0: from the cursor, 1: to the cursor, 2: everything.
Erased(n, pos) ==
  \/ n = 0 /\ Offset(pos) >= Offset(cur)
  \/ n = 1 /\ Offset(pos) <= Offset(cur)
  \/ n = 2

EraseDisplay(n) ==
  /\ vcells' = {pos \in vcells : ~Erased(n, pos)}
  /\ UNCHANGED <<cur, savedCur, charset>>

EraseLine(n) ==
  /\ vcells' = {pos \in vcells : ~(pos[1] = cur[1] /\ Erased(n, pos))}
  /\ UNCHANGED <<cur, savedCur, charset>>

ControlSequence ==
  \/ \E r, c \in VParams : CursorPosition(r, c)
  \/ \E n \in VParams, command \in {"A", "B", "C", "D"} : CursorMoves(command, n)
  \/ \E n \in VParams : EraseDisplay(n) \/ EraseLine(n)

Vt100Next ==
  \/ NewParser
  \/ LineFeed \/ CarriageReturn \/ Tab \/ BackSpace \/ Text
  \/ \E alt \in BOOLEAN : ShiftCharset(alt)
  \/ \E s \in {"B", "0"} : SelectCharset(s)
  \/ SaveCursor \/ RestoreCursor \/ Index \/ ReverseIndex \/ ResetTerminal
  \/ ControlSequence

Vt100Spec == Vt100Init /\ [][Vt100Next]_vt100Vars

-----------------------------------------------------------------------------
(***************************************************************************)
(* The cursor is on the screen after any sequence of text, wraps, moves    *)
(* with any parameters, saves and restores, and only cells of the screen   *)
(* are written: _safe_buffer_access() never has to drop a character        *)
(* (vt100_parser.py:106-120, 373-479, 585-606).                            *)
(***************************************************************************)
CursorOnScreen == cur \in Cells /\ savedCur \in Cells /\ vcells \subseteq Cells
=============================================================================
