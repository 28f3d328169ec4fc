------------------------------- MODULE Screen -------------------------------
(***************************************************************************)
(* The screen between the host and the user: DataStreamParser writes it    *)
(* record by record, AsyncSession's keys read and edit it in between.      *)
(***************************************************************************)
EXTENDS DataStream

CONSTANTS
  MaxKeys,  \* bound: user operations
  NvtLen    \* bound: the length of NVT data

ASSUME KeysAssumption == MaxKeys \in Nat /\ NvtLen \in Nat

VARIABLES
  insert,      \* insert_mode
  circumvent,  \* circumvent_protection
  keys,        \* user operations left
  typedAt      \* history: the position the last key typed into, or NoPos

userVars == <<insert, circumvent, keys, typedAt>>
vars == <<parserVars, userVars>>

Init ==
  /\ ParserInit
  /\ insert = FALSE /\ circumvent = FALSE
  /\ keys = MaxKeys /\ typedAt = NoPos

Cur == scr.cursor

\* A user operation between two records that leaves the screen as next.
Key(next) ==
  /\ rec.phase = "idle" /\ keys > 0
  /\ keys' = keys - 1
  /\ scr' = next
  /\ UNCHANGED <<rec, last, before, budget>>

\* One that changes neither mode and does not type.
Plain(next) ==
  /\ Key(next)
  /\ typedAt' = NoPos
  /\ UNCHANGED <<insert, circumvent>>

\* right(): down to the next row, and on the last row back to its start.
RightOf(p) == IF ColOf(p) + 1 < Cols THEN p + 1
              ELSE At(AtMost(Rows - 1, RowOf(p) + 1), 0)

LeftOf(p) == IF p > 0 THEN p - 1 ELSE 0

\* In insert mode the rest of the row moves right first, protected or not.
Shifted(s, p) ==
  [s EXCEPT !.buf = [q \in Pos |-> IF RowOf(q) = RowOf(p) /\ q > p
                                   THEN s.buf[q - 1] ELSE s.buf[q]]]

InsertText ==
  LET room == IF insert THEN Shifted(scr, Cur) ELSE scr
      done == WriteChar(room, "typed", Cur, circumvent)
  IN /\ Key([done EXCEPT !.cursor = RightOf(Cur)])
     /\ typedAt' = IF circumvent \/ ~Protected(scr.attr[Cur]) THEN Cur ELSE NoPos
     /\ UNCHANGED <<insert, circumvent>>

ToggleInsert ==
  /\ Key(scr)
  /\ insert' = ~insert
  /\ typedAt' = NoPos
  /\ UNCHANGED circumvent

CircumNot ==
  /\ Key(scr)
  /\ circumvent' = ~circumvent
  /\ typedAt' = NoPos
  /\ UNCHANGED insert

Tab == Plain(Moved(NextInput(scr)))

Home == Plain(IF FieldAt(scr, Cur) = NoPos THEN scr ELSE Moved(FieldAt(scr, Cur)))

\* list.index looks for the cached object, which select_light_pen has replaced
\* in the list: then ValueError, and the cursor stays.
BackTab ==
  LET s == FieldAt(scr, Cur)
      earlier == {t \in DOMAIN scr.fields : t < s}
      lost == scr.nav /\ s \in scr.stale
  IN /\ Key(IF s = NoPos \/ lost \/ earlier = {} THEN scr ELSE Moved(Max(earlier)))
     /\ typedAt' = NoPos
     /\ UNCHANGED <<insert, circumvent>>

Newline == Plain(Moved(Clamp(RowOf(Cur) + 1, 0)))
Up == Plain(Moved(Clamp(RowOf(Cur) - 1, ColOf(Cur))))
Down == Plain(Moved(Clamp(RowOf(Cur) + 1, ColOf(Cur))))
Left == Plain(Moved(LeftOf(Cur)))
Right == Plain(Moved(RightOf(Cur)))
PageUp == Plain(Moved(ColOf(Cur)))
End == Plain(Moved(At(RowOf(Cur), Cols - 1)))
MoveCursor(r, c) == Plain(Moved(Clamp(r, c)))

\* BackSpace, erase_eof, delete and delete_field write the buffer directly:
\* neither protection nor the field list is consulted.
BackSpace == Plain([Moved(LeftOf(Cur)) EXCEPT !.buf[LeftOf(Cur)] = "sp"])

EraseEof ==
  Plain([scr EXCEPT !.buf = [p \in Pos |-> IF RowOf(p) = RowOf(Cur) /\ p >= Cur
                                           THEN "sp" ELSE scr.buf[p]]])

Delete ==
  Plain([scr EXCEPT !.buf =
           [p \in Pos |-> IF RowOf(p) # RowOf(Cur) \/ p < Cur THEN scr.buf[p]
                          ELSE IF ColOf(p) = Cols - 1 THEN "sp"
                          ELSE scr.buf[p + 1]]])

DeleteField ==
  LET s == FieldAt(scr, Cur)
  IN /\ s # NoPos
     /\ Plain([scr EXCEPT !.buf = [p \in Pos |->
                 IF s <= p /\ p <= scr.fields[s].end THEN "sp" ELSE scr.buf[p]]])

\* The field objects are blanked, the buffer is not.
EraseInput ==
  Plain([scr EXCEPT !.fields = [s \in DOMAIN scr.fields |->
           IF scr.fields[s].prot THEN [scr.fields[s] EXCEPT !.mod = FALSE]
           ELSE [scr.fields[s] EXCEPT !.mod = TRUE,
                   !.content = [p \in s..scr.fields[s].end |-> "sp"]]]])

Erase == Plain(Clear(scr))

CursorSelect ==
  LET s == FieldAt(scr, Cur)
  IN Plain(IF s = NoPos \/ (scr.nav /\ s \in scr.stale) THEN scr
           ELSE [scr EXCEPT !.fields[s].sel = TRUE])

\* submit() locks the keyboard before the AID goes out.
Locked(s) == [s EXCEPT !.locked = TRUE]
Submit == Plain(Locked(scr))

SelectPen(p) ==
  LET picked == SelectLightPen(scr, p)
  IN Plain(IF picked.pen = p /\ picked.stale # {} THEN Locked(picked) ELSE picked)

\* Enter sends the modified fields and locks nothing.
Enter == Plain(scr)

\* One byte of NVT data; rows below the last are clamped.
NvtByte(s, ch) ==
  CASE ch = "char" -> [WriteChar(s, "host", s.cursor, TRUE) EXCEPT
                         !.cursor = RightOf(s.cursor)]
    [] ch = "CR" -> [s EXCEPT !.cursor = At(RowOf(@), 0)]
    [] ch = "LF" -> [s EXCEPT !.cursor = Clamp(RowOf(@) + 1, ColOf(@))]

NvtWritten(s, data) == Loop(LAMBDA t, i : NvtByte(t, data[i]), s, Len(data))

\* NVT data: ASCII mode and bulk writes past protection.
HandleNvtData(data) ==
  LET on == BeginBulk([scr EXCEPT !.ascii = TRUE])
  IN /\ rec.phase = "idle" /\ budget >= Len(data)
     /\ budget' = budget - Len(data)
     /\ scr' = EndBulk(NvtWritten(on, data))
     /\ UNCHANGED <<rec, last, before>>

UserStep ==
  \/ InsertText \/ ToggleInsert \/ CircumNot \/ Tab \/ Home \/ BackTab
  \/ Newline \/ Up \/ Down \/ Left \/ Right \/ PageUp \/ End
  \/ BackSpace \/ EraseEof \/ Delete \/ DeleteField \/ EraseInput \/ Erase
  \/ CursorSelect \/ Submit \/ Enter
  \/ \E r \in 0..Rows, c \in 0..Cols : MoveCursor(r, c)
  \/ \E p \in Pos : SelectPen(p)

HostStep ==
  /\ \/ \E n \in RecordSizes : Parse(n)
     \/ \E data \in [1..NvtLen -> {"char", "CR", "LF"}] : HandleNvtData(data)
  /\ typedAt' = NoPos
  /\ UNCHANGED <<insert, circumvent, keys>>

Next == UserStep \/ HostStep \/ (ParserStep /\ UNCHANGED userVars)

Spec == Init /\ [][Next]_vars

\* parse() runs to its end without suspending.
FairSpec == Spec /\ WF_vars(ParserStep /\ UNCHANGED userVars)
-----------------------------------------------------------------------------

\* FieldListAgrees: outside bulk mode the field list is the one the field
\* starts and attribute bytes describe, so Tab, EUA and Enter act on the
\* fields the host defined (_detect_fields after every change of format).
FieldListAgrees ==
  scr.suspend = 0 =>
    /\ DOMAIN scr.fields = scr.starts
    /\ \A s \in scr.starts :
         /\ scr.fields[s].end = FieldEnd(scr.starts, s)
         /\ scr.fields[s].prot = Protected(scr.attr[s])

\* RollbackRestoresScreen: when an incomplete order aborts a write, the screen
\* shows again what it showed before the record, with its fields and those
\* extended attributes that are not raw (_snapshot_screen, _restore_screen).
RollbackRestoresScreen ==
  rec.phase = "aborted" =>
    /\ scr.buf = before.buf /\ scr.attr = before.attr
    /\ scr.starts = before.starts /\ scr.pen = before.pen
    /\ \A p \in Pos : "raw" \notin before.ext[p] => scr.ext[p] = before.ext[p]

TabFrom(k) == [scr EXCEPT !.cursor = k]
\* Where the cursor is after n presses of Tab.
AfterTabs[n \in 0..Size] ==
  IF n = 0 THEN Cur ELSE NextInput(TabFrom(AfterTabs[n - 1]))

\* TabReachesEveryInput: from wherever the cursor is, repeated Tab visits every
\* unprotected field of the format (move_cursor_to_next_input_field).
TabReachesEveryInput ==
  scr.suspend = 0 =>
    \A s \in scr.starts :
      Protected(scr.attr[s]) \/ \E n \in 1..Size : AfterTabs[n] = s

\* ParserTerminates: every record is parsed to its end, whatever its bytes.
ParserTerminates == rec.phase # "idle" ~> rec.phase = "idle"

=============================================================================
