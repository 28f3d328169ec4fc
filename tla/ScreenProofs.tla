---------------------------- MODULE ScreenProofs ----------------------------
(***************************************************************************)
(* The screen, the parser that writes it and the keys that edit it, for    *)
(* any size of the screen, any records and any number of keys.             *)
(*                                                                         *)
(* RA, EUA, SFE and NVT data change the screen in loops.  That a loop      *)
(* keeps the screen in order is an induction over its steps, which rests   *)
(* on the least-number principle for sets (Least): a recursive function is *)
(* what its definition says because iterating a function along 0..n is     *)
(* possible (Iteration).  The same lemmas serve the loops over the lines   *)
(* of a trace (Replayer, ReplayServer) and the Telnet scanner              *)
(* (TelnetStream), whose theorems are at the end.                          *)
(***************************************************************************)
EXTENDS Screen, TelnetStream, ReplayServer, Replayer, WellFoundedInduction,
        FiniteSetTheorems, SequenceTheorems, TLAPS

\* A set of naturals that is not empty has a least member.
LEMMA Least ==
  ASSUME NEW T, T \subseteq Nat, T # {}
  PROVE  \E x \in T : \A y \in T : x <= y
  <1> DEFINE R == OpToRel(<, Nat)
  <1>1. IsWellFoundedOn(R, Nat)
    BY NatLessThanWellFounded
  <1> HIDE DEF R
  <1>2. PICK x \in T : \A y \in T : ~(<<y, x>> \in R)
    BY <1>1, WFMin
  <1>3. \A y \in T : ~(y < x)
    BY <1>2 DEF R, OpToRel
  <1> QED
    BY <1>3

\* Induction over an interval; the set stands for the predicate.
LEMMA UpTo ==
  ASSUME NEW n \in Nat, NEW S, 0 \in S, \A i \in 1..n : i - 1 \in S => i \in S
  PROVE  0..n \subseteq S
  <1> SUFFICES ASSUME (0..n) \ S # {} PROVE FALSE
    OBVIOUS
  <1>1. PICK x \in (0..n) \ S : \A y \in (0..n) \ S : x <= y
    <2>1. (0..n) \ S \subseteq Nat
      OBVIOUS
    <2> QED
      BY <2>1, Least
  <1>2. x \in 1..n /\ x - 1 \in 0..n
    BY <1>1
  <1>3. x - 1 \in S
    BY <1>1, <1>2
  <1> QED
    BY <1>1, <1>2, <1>3

\* f lists what s becomes when g is applied again and again.
Iterates(f, g, s, n) == f[0] = s /\ \A i \in 1..n : f[i] = g[<<f[i - 1], i>>]

\* A function can be iterated along an interval.
LEMMA Iteration ==
  ASSUME NEW S, NEW n \in Nat, NEW g \in [S \X (1..n) -> S], NEW s \in S
  PROVE  \E f \in [0..n -> S] : Iterates(f, g, s, n)
  <1> DEFINE Good(m) == \E f \in [0..m -> S] :
                          f[0] = s /\ \A i \in 1..m : f[i] = g[<<f[i - 1], i>>]
  <1> DEFINE G == {m \in 0..n : Good(m)}
  <1>1. 0 \in G
    <2> DEFINE f == [i \in 0..0 |-> s]
    <2>1. f \in [0..0 -> S] /\ f[0] = s /\ 1..0 = {}
      OBVIOUS
    <2> HIDE DEF f
    <2>2. Good(0)
      BY <2>1
    <2> QED
      BY <2>2
  <1>2. ASSUME NEW m \in 1..n, m - 1 \in G PROVE m \in G
    <2>1. PICK f \in [0..(m - 1) -> S] :
                 f[0] = s /\ \A i \in 1..(m - 1) : f[i] = g[<<f[i - 1], i>>]
      BY <1>2
    <2> DEFINE h == [i \in 0..m |-> IF i = m THEN g[<<f[m - 1], m>>] ELSE f[i]]
    <2>2. m - 1 \in 0..(m - 1) /\ f[m - 1] \in S /\ <<f[m - 1], m>> \in S \X (1..n)
      BY <2>1
    <2>3. g[<<f[m - 1], m>>] \in S
      BY <2>2
    <2>4. \A i \in 0..m : i # m => i \in 0..(m - 1)
      OBVIOUS
    <2>5. h \in [0..m -> S]
      BY <2>3, <2>4
    <2>6. h[0] = s
      BY <2>1
    <2>7. ASSUME NEW i \in 1..m PROVE h[i] = g[<<h[i - 1], i>>]
      <3>1. i - 1 \in 0..m /\ i - 1 # m /\ h[i - 1] = f[i - 1] /\ i \in 0..m
        OBVIOUS
      <3>2. CASE i = m
        BY <3>1, <3>2
      <3>3. CASE i # m
        <4>1. i \in 1..(m - 1) /\ h[i] = f[i]
          BY <3>3
        <4> QED
          BY <3>1, <4>1, <2>1
      <3> QED
        BY <3>2, <3>3
    <2> HIDE DEF h
    <2>8. Good(m)
      BY <2>5, <2>6, <2>7
    <2> QED
      BY <2>8
  <1> HIDE DEF G
  <1>3. 0..n \subseteq G
    BY <1>1, <1>2, UpTo
  <1>4. n \in G
    BY <1>3
  <1> QED
    BY <1>4 DEF G, Iterates

-----------------------------------------------------------------------------
(***************************************************************************)
(* Positions.                                                              *)
(***************************************************************************)
\* The least of some positions is one of them.
LEMMA MinIsLeast ==
  ASSUME NEW T, T \subseteq Pos, T # {}
  PROVE  Min(T) \in T /\ Min(T) \in Pos /\ \A y \in T : Min(T) <= y
  <1>1. T \subseteq Nat
    BY DEF Pos
  <1>2. PICK x \in T : \A y \in T : x <= y
    BY <1>1, Least
  <1> QED
    BY <1>2 DEF Min

\* And so is the greatest.
LEMMA MaxIsGreatest ==
  ASSUME NEW T, T \subseteq Pos, T # {}
  PROVE  Max(T) \in T /\ Max(T) \in Pos
  <1> DEFINE U == {Size - x : x \in T}
  <1>1. Size \in Nat /\ \A x \in T : x \in Int /\ x < Size /\ 0 <= x
    BY ScreenAssumption DEF Pos, Size
  <1>2. U \subseteq Nat /\ U # {}
    BY <1>1
  <1>3. PICK u \in U : \A y \in U : u <= y
    BY <1>2, Least
  <1>4. PICK m \in T : u = Size - m
    BY <1>3
  <1>5. ASSUME NEW y \in T PROVE m >= y
    <2>1. Size - y \in U
      OBVIOUS
    <2>2. Size - m <= Size - y
      BY <1>3, <1>4, <2>1
    <2> QED
      BY <1>1, <2>2
  <1> QED
    BY <1>4, <1>5 DEF Max

\* A row and a column of the screen are a position of it.
LEMMA AtIsPos ==
  ASSUME NEW r \in 0..(Rows - 1), NEW c \in 0..(Cols - 1)
  PROVE  At(r, c) \in Pos
  <1>1. Rows \in Nat /\ Cols \in Nat /\ r \in Nat /\ c \in Nat /\ r <= Rows - 1 /\ c <= Cols - 1
    BY ScreenAssumption
  <1>2. r * Cols <= (Rows - 1) * Cols /\ r * Cols >= 0 /\ r * Cols \in Int
    BY <1>1
  <1>3. (Rows - 1) * Cols = Rows * Cols - Cols /\ Rows * Cols \in Int
    BY <1>1
  <1> QED
    BY <1>1, <1>2, <1>3 DEF At, Pos, Size

\* Row and column of a position.
LEMMA RowAndCol ==
  ASSUME NEW p \in Pos
  PROVE  RowOf(p) \in 0..(Rows - 1) /\ ColOf(p) \in 0..(Cols - 1) /\ p = At(RowOf(p), ColOf(p))
  <1>1. Rows \in Nat \ {0} /\ Cols \in Nat \ {0} /\ p \in Nat /\ p < Rows * Cols
    BY ScreenAssumption DEF Pos, Size
  <1> DEFINE q == p \div Cols
  <1> DEFINE m == p % Cols
  <1>2. q \in Int /\ m \in 0..(Cols - 1) /\ p = Cols * q + m
    BY <1>1
  <1> HIDE DEF q, m
  <1>3. q >= 0
    <2> SUFFICES ASSUME q <= -1 PROVE FALSE
      BY <1>2
    <2>1. Cols * q <= Cols * (-1)
      BY <1>1, <1>2
    <2> QED
      BY <1>1, <1>2, <2>1
  <1>4. q <= Rows - 1
    <2> SUFFICES ASSUME q >= Rows PROVE FALSE
      BY <1>1, <1>2
    <2>1. Cols * q >= Cols * Rows /\ Cols * Rows = Rows * Cols
      BY <1>1, <1>2
    <2> QED
      BY <1>1, <1>2, <2>1
  <1>5. p = q * Cols + m
    BY <1>1, <1>2
  <1> QED
    BY <1>1, <1>2, <1>3, <1>4, <1>5 DEF RowOf, ColOf, At, q, m

\* set_position clamps to the screen.
LEMMA ClampIsPos ==
  ASSUME NEW r \in Int, NEW c \in Int
  PROVE  Clamp(r, c) \in Pos
  <1>1. AtLeast(0, AtMost(Rows - 1, r)) \in 0..(Rows - 1)
    BY ScreenAssumption DEF AtLeast, AtMost
  <1>2. AtLeast(0, AtMost(Cols - 1, c)) \in 0..(Cols - 1)
    BY ScreenAssumption DEF AtLeast, AtMost
  <1> QED
    BY <1>1, <1>2, AtIsPos DEF Clamp

\* Where right() and left() move.
LEMMA RightIsPos ==
  ASSUME NEW p \in Pos
  PROVE  RightOf(p) \in Pos /\ LeftOf(p) \in Pos
  <1>1. Size \in Nat /\ p \in Nat /\ p < Size
    BY ScreenAssumption DEF Pos, Size
  <1>2. LeftOf(p) \in Pos
    <2> HIDE DEF Size
    <2> QED
      BY <1>1 DEF LeftOf, Pos
  <1>3. /\ RowOf(p) \in 0..(Rows - 1) /\ ColOf(p) \in 0..(Cols - 1)
        /\ p = At(RowOf(p), ColOf(p))
    BY RowAndCol
  <1>4. CASE ColOf(p) + 1 < Cols
    <2>1. ColOf(p) + 1 \in 0..(Cols - 1)
      BY <1>3, <1>4, ScreenAssumption
    <2>2. At(RowOf(p), ColOf(p) + 1) \in Pos
      BY <1>3, <2>1, AtIsPos
    <2>3. At(RowOf(p), ColOf(p) + 1) = p + 1
      <3> HIDE DEF RowOf, ColOf
      <3>1. RowOf(p) * Cols \in Int
        BY <1>3, ScreenAssumption
      <3> QED
        BY <1>3, <3>1 DEF At
    <2> QED
      BY <1>2, <1>4, <2>2, <2>3 DEF RightOf
  <1>5. CASE ~(ColOf(p) + 1 < Cols)
    <2>1. AtMost(Rows - 1, RowOf(p) + 1) \in 0..(Rows - 1) /\ 0 \in 0..(Cols - 1)
      BY <1>3, ScreenAssumption DEF AtMost
    <2> QED
      BY <1>2, <1>5, <2>1, AtIsPos DEF RightOf
  <1> QED
    BY <1>4, <1>5

-----------------------------------------------------------------------------
(***************************************************************************)
(* Screens, and what the operations of ScreenBuffer make of them.          *)
(***************************************************************************)
Contents == UNION {[D -> Bytes] : D \in SUBSET Pos}
FieldRecords ==
  [end : Pos, prot : BOOLEAN, mod : BOOLEAN, sel : BOOLEAN, pen : BOOLEAN,
   content : Contents]
FieldLists == UNION {[D -> FieldRecords] : D \in SUBSET Pos}
Attributes == [Pos -> AttrBytes \cup {"none"}]
Extensions == [Pos -> SUBSET ExtendedKinds]

Screens ==
  [buf : [Pos -> Bytes], attr : Attributes, ext : Extensions,
   starts : SUBSET Pos, fields : FieldLists, nav : BOOLEAN, stale : SUBSET Pos,
   cursor : Pos, ascii : BOOLEAN, locked : BOOLEAN, pen : Pos \cup {NoPos},
   suspend : Nat]

\* FieldListAgrees, of any screen.
Agrees(s) ==
  s.suspend = 0 =>
    /\ DOMAIN s.fields = s.starts
    /\ \A f \in s.starts :
         /\ s.fields[f].end = FieldEnd(s.starts, f)
         /\ s.fields[f].prot = Protected(s.attr[f])

GoodScreens == {s \in Screens : Agrees(s)}

\* The parts of a screen.
LEMMA ScreenParts ==
  ASSUME NEW s \in Screens
  PROVE  /\ s.buf \in [Pos -> Bytes] /\ s.attr \in Attributes /\ s.ext \in Extensions
         /\ s.starts \in SUBSET Pos /\ s.fields \in FieldLists /\ s.nav \in BOOLEAN
         /\ s.stale \in SUBSET Pos /\ s.cursor \in Pos /\ s.ascii \in BOOLEAN
         /\ s.locked \in BOOLEAN /\ s.pen \in Pos \cup {NoPos} /\ s.suspend \in Nat
         /\ DOMAIN s.fields \in SUBSET Pos
         /\ \A f \in DOMAIN s.fields : s.fields[f] \in FieldRecords
  <1>1. s.fields \in FieldLists
    BY DEF Screens
  <1>2. PICK D \in SUBSET Pos : s.fields \in [D -> FieldRecords]
    BY <1>1 DEF FieldLists
  <1> QED
    BY <1>1, <1>2 DEF Screens

\* A function from positions to field records is a field list.
LEMMA FieldListOf ==
  ASSUME NEW D \in SUBSET Pos, NEW f \in [D -> FieldRecords]
  PROVE  f \in FieldLists
  BY DEF FieldLists

\* Screens with the same format agree alike.
LEMMA SameFormat ==
  ASSUME NEW s \in GoodScreens, NEW t \in Screens, t.suspend = s.suspend,
         t.starts = s.starts, t.attr = s.attr, DOMAIN t.fields = DOMAIN s.fields,
         \A f \in DOMAIN s.fields : /\ t.fields[f].end = s.fields[f].end
                                    /\ t.fields[f].prot = s.fields[f].prot
  PROVE  t \in GoodScreens
  BY DEF GoodScreens, Agrees

\* The cursor is moved.
LEMMA CursorMoves ==
  ASSUME NEW s \in GoodScreens, NEW p \in Pos
  PROVE  [s EXCEPT !.cursor = p] \in GoodScreens
  <1> DEFINE t == [s EXCEPT !.cursor = p]
  <1>1. s \in Screens
    BY DEF GoodScreens
  <1>2. /\ t \in Screens /\ t.suspend = s.suspend /\ t.starts = s.starts
        /\ t.attr = s.attr /\ t.fields = s.fields
    BY <1>1 DEF Screens
  <1> QED
    BY <1>2, SameFormat

\* The buffer is written.
LEMMA BufferIsWritten ==
  ASSUME NEW s \in GoodScreens, NEW b \in [Pos -> Bytes]
  PROVE  [s EXCEPT !.buf = b] \in GoodScreens
  <1> DEFINE t == [s EXCEPT !.buf = b]
  <1>1. s \in Screens
    BY DEF GoodScreens
  <1>2. /\ t \in Screens /\ t.suspend = s.suspend /\ t.starts = s.starts
        /\ t.attr = s.attr /\ t.fields = s.fields
    BY <1>1 DEF Screens
  <1> QED
    BY <1>2, SameFormat

\* A field ends on the screen.
LEMMA FieldEndIsPos ==
  ASSUME NEW starts \in SUBSET Pos, NEW f \in starts
  PROVE  FieldEnd(starts, f) \in Pos /\ f..FieldEnd(starts, f) \in SUBSET Pos
  <1> DEFINE later == {t \in starts : t > f}
  <1>0. f \in Pos /\ Size \in Nat
    BY ScreenAssumption DEF Size
  <1>1. CASE later = {}
    <2>1. FieldEnd(starts, f) = Size - 1
      BY <1>1 DEF FieldEnd
    <2> QED
      BY <2>1, <1>0 DEF Pos
  <1>2. CASE later # {}
    <2>1. FieldEnd(starts, f) = Min(later) - 1
      BY <1>2 DEF FieldEnd
    <2>2. Min(later) \in later /\ Min(later) \in Pos
      BY <1>2, MinIsLeast
    <2> HIDE DEF later
    <2>3. Min(later) > f
      BY <2>2 DEF later
    <2> QED
      BY <2>1, <2>2, <2>3, <1>0 DEF Pos
  <1> QED
    BY <1>1, <1>2

\* _create_field_from_range makes a field of the buffer.
LEMMA FieldIsCreated ==
  ASSUME NEW s \in Screens, NEW f \in s.starts
  PROVE  /\ CreateField(s, f) \in FieldRecords
         /\ CreateField(s, f).end = FieldEnd(s.starts, f)
         /\ CreateField(s, f).prot = Protected(s.attr[f])
  <1> DEFINE end == FieldEnd(s.starts, f)
  <1>1. end \in Pos /\ f..end \in SUBSET Pos
    BY FieldEndIsPos, ScreenParts
  <1>2. [p \in f..end |-> s.buf[p]] \in [f..end -> Bytes]
    BY <1>1, ScreenParts
  <1> HIDE DEF end
  <1>3. [p \in f..end |-> s.buf[p]] \in Contents
    BY <1>1, <1>2 DEF Contents
  <1> QED
    BY <1>1, <1>3 DEF CreateField, FieldRecords, Protected, Detectable, end

\* _detect_fields brings the list in line with the format.
LEMMA Detected ==
  ASSUME NEW s \in Screens
  PROVE  /\ DetectFields(s) \in GoodScreens
         /\ DetectFields(s).buf = s.buf /\ DetectFields(s).attr = s.attr
         /\ DetectFields(s).ext = s.ext /\ DetectFields(s).starts = s.starts
         /\ DetectFields(s).pen = s.pen /\ DetectFields(s).cursor = s.cursor
         /\ DetectFields(s).suspend = s.suspend
  <1> DEFINE list == [f \in s.starts |-> CreateField(s, f)]
  <1> DEFINE t == DetectFields(s)
  <1>1. s.starts \in SUBSET Pos /\ s.nav \in BOOLEAN
    BY ScreenParts
  <1>2. list \in [s.starts -> FieldRecords]
    BY FieldIsCreated
  <1>3. list \in FieldLists
    BY <1>1, <1>2, FieldListOf
  <1> HIDE DEF list
  <1>4. t \in Screens /\ t.fields = list
        /\ t.buf = s.buf /\ t.attr = s.attr /\ t.ext = s.ext /\ t.starts = s.starts
        /\ t.pen = s.pen /\ t.cursor = s.cursor /\ t.suspend = s.suspend
    BY <1>1, <1>3 DEF DetectFields, Screens, list
  <1> HIDE DEF t
  <1>5. Agrees(t)
    BY <1>4, FieldIsCreated DEF Agrees, list
  <1> QED
    BY <1>4, <1>5 DEF GoodScreens, t

\* Detection is only put off while updates are suspended.
LEMMA DetectedUnlessSuspended ==
  ASSUME NEW s \in Screens
  PROVE  /\ DetectUnlessSuspended(s) \in GoodScreens
         /\ DetectUnlessSuspended(s).cursor = s.cursor
  <1>1. CASE s.suspend = 0
    BY <1>1, Detected DEF DetectUnlessSuspended
  <1>2. CASE s.suspend # 0
    BY <1>2 DEF DetectUnlessSuspended, GoodScreens, Agrees
  <1> QED
    BY <1>1, <1>2

\* set_attribute at the cursor.
LEMMA AttributeIsSet ==
  ASSUME NEW s \in Screens, NEW a \in AttrBytes
  PROVE  SetAttribute(s, a) \in GoodScreens /\ SetAttribute(s, a).cursor = s.cursor
  <1> DEFINE t == [s EXCEPT !.buf[s.cursor] = a, !.attr[s.cursor] = a,
                            !.starts = @ \cup {s.cursor}, !.nav = FALSE]
  <1>1. /\ s.buf \in [Pos -> Bytes] /\ s.attr \in Attributes /\ s.cursor \in Pos
        /\ s.starts \in SUBSET Pos
    BY ScreenParts
  <1>2. /\ [s.buf EXCEPT ![s.cursor] = a] \in [Pos -> Bytes]
        /\ [s.attr EXCEPT ![s.cursor] = a] \in Attributes
        /\ s.starts \cup {s.cursor} \in SUBSET Pos
    BY <1>1 DEF Attributes, Bytes
  <1>3. t \in Screens /\ t.cursor = s.cursor
    BY <1>2 DEF Screens
  <1> QED
    BY <1>3, DetectedUnlessSuspended DEF SetAttribute

\* Extended attributes are no part of the format.
LEMMA ExtensionsChange ==
  ASSUME NEW s \in GoodScreens, NEW p \in Pos, NEW kinds \in SUBSET ExtendedKinds
  PROVE  [s EXCEPT !.ext[p] = @ \cup kinds] \in GoodScreens
  <1> DEFINE t == [s EXCEPT !.ext[p] = @ \cup kinds]
  <1>1. s \in Screens /\ s.ext \in Extensions
    BY ScreenParts DEF GoodScreens
  <1>2. [s.ext EXCEPT ![p] = @ \cup kinds] \in Extensions
    BY <1>1 DEF Extensions
  <1>3. /\ t \in Screens /\ t.suspend = s.suspend /\ t.starts = s.starts
        /\ t.attr = s.attr /\ t.fields = s.fields
    BY <1>1, <1>2 DEF Screens
  <1> QED
    BY <1>3, SameFormat

\* A field object is changed, but for its extent and protection.
LEMMA FieldChanges ==
  ASSUME NEW s \in GoodScreens, NEW list \in [DOMAIN s.fields -> FieldRecords],
         \A f \in DOMAIN s.fields : /\ list[f].end = s.fields[f].end
                                    /\ list[f].prot = s.fields[f].prot,
         NEW nav \in BOOLEAN
  PROVE  /\ [s EXCEPT !.fields = list] \in GoodScreens
         /\ [s EXCEPT !.fields = list, !.nav = nav] \in GoodScreens
  <1> DEFINE t == [s EXCEPT !.fields = list]
  <1> DEFINE u == [s EXCEPT !.fields = list, !.nav = nav]
  <1>1. s \in Screens /\ DOMAIN s.fields \in SUBSET Pos
    BY ScreenParts DEF GoodScreens
  <1>2. list \in FieldLists
    BY <1>1, FieldListOf
  <1>3. /\ t \in Screens /\ t.suspend = s.suspend /\ t.starts = s.starts
        /\ t.attr = s.attr /\ t.fields = list
    BY <1>1, <1>2 DEF Screens
  <1>4. /\ u \in Screens /\ u.suspend = s.suspend /\ u.starts = s.starts
        /\ u.attr = s.attr /\ u.fields = list
    BY <1>1, <1>2 DEF Screens
  <1> HIDE DEF t, u
  <1>5. DOMAIN list = DOMAIN s.fields
    OBVIOUS
  <1>6. t \in GoodScreens
    BY <1>3, <1>5, SameFormat
  <1>7. u \in GoodScreens
    BY <1>4, <1>5, SameFormat
  <1> QED
    BY <1>6, <1>7 DEF t, u

\* Positions between two positions of the screen are on the screen.
LEMMA IntervalOfPos ==
  ASSUME NEW a \in Pos, NEW e \in Pos
  PROVE  a..e \in SUBSET Pos
  <1>1. Size \in Nat
    BY ScreenAssumption DEF Size
  <1> QED
    BY <1>1 DEF Pos

\* What a field shows of the buffer.
LEMMA FieldContent ==
  ASSUME NEW s \in Screens, NEW f \in DOMAIN s.fields, NEW b \in [Pos -> Bytes]
  PROVE  [p \in f..s.fields[f].end |-> b[p]] \in Contents
  <1>1. f \in Pos /\ s.fields[f].end \in Pos
    BY ScreenParts DEF FieldRecords
  <1>2. f..s.fields[f].end \in SUBSET Pos
    BY <1>1, IntervalOfPos
  <1> DEFINE D == f..s.fields[f].end
  <1>3. [p \in D |-> b[p]] \in [D -> Bytes]
    BY <1>2
  <1> HIDE DEF D
  <1> QED
    BY <1>2, <1>3 DEF D, Contents

\* The field that is credited with a written character.
LEMMA FieldIsCredited ==
  ASSUME NEW s \in GoodScreens, NEW hits, hits \subseteq DOMAIN s.fields, hits # {}
  PROVE  CreditFirst(s, hits) \in GoodScreens
  <1> DEFINE f == Min(hits)
  <1>1. s \in Screens /\ DOMAIN s.fields \in SUBSET Pos
    BY ScreenParts DEF GoodScreens
  <1>2. f \in DOMAIN s.fields
    BY <1>1, MinIsLeast
  <1> HIDE DEF f
  <1> DEFINE content == [p \in f..s.fields[f].end |-> s.buf[p]]
  <1>3. s.fields[f] \in FieldRecords /\ content \in Contents
    BY <1>1, <1>2, ScreenParts, FieldContent
  <1> HIDE DEF content
  <1> DEFINE list == [s.fields EXCEPT ![f] = [@ EXCEPT !.mod = TRUE, !.content = content]]
  <1>4. /\ [s.fields[f] EXCEPT !.mod = TRUE, !.content = content] \in FieldRecords
        /\ [s.fields[f] EXCEPT !.mod = TRUE, !.content = content].end = s.fields[f].end
        /\ [s.fields[f] EXCEPT !.mod = TRUE, !.content = content].prot = s.fields[f].prot
    BY <1>3 DEF FieldRecords
  <1>5. /\ list \in [DOMAIN s.fields -> FieldRecords]
        /\ \A g \in DOMAIN s.fields : /\ list[g].end = s.fields[g].end
                                      /\ list[g].prot = s.fields[g].prot
    BY <1>1, <1>2, <1>4, ScreenParts
  <1>6. CreditFirst(s, hits) = [s EXCEPT !.fields = list, !.nav = FALSE]
    BY <1>1, <1>2, ScreenParts DEF CreditFirst, f, content, Screens
  <1> HIDE DEF list
  <1> QED
    BY <1>5, <1>6, FieldChanges

\* write_char, at any position.
LEMMA CharIsWritten ==
  ASSUME NEW s \in GoodScreens, NEW byte \in Bytes, NEW p \in Pos, NEW free \in BOOLEAN
  PROVE  WriteChar(s, byte, p, free) \in GoodScreens
  <1> DEFINE written == [s EXCEPT !.buf[p] = byte]
  <1>1. s \in Screens /\ s.buf \in [Pos -> Bytes]
    BY ScreenParts DEF GoodScreens
  <1>2. [s.buf EXCEPT ![p] = byte] \in [Pos -> Bytes]
    BY <1>1
  <1>3. written \in GoodScreens
    BY <1>2, BufferIsWritten
  <1>4. written \in Screens
    BY <1>3 DEF GoodScreens
  <1> HIDE DEF written
  <1>5. UpdateFieldContent(written, p) \in GoodScreens \/ Credited(written, p) = {}
    BY <1>3, FieldIsCredited DEF UpdateFieldContent, Credited
  <1>6. DetectUnlessSuspended(written) \in GoodScreens
    BY <1>4, DetectedUnlessSuspended
  <1> QED
    BY <1>3, <1>5, <1>6 DEF WriteChar, written

\* clear empties the screen and its format.
LEMMA Cleared ==
  ASSUME NEW s \in Screens
  PROVE  Clear(s) \in GoodScreens
  <1> DEFINE t == [s EXCEPT !.buf = [p \in Pos |-> IF s.ascii THEN "asciiSp" ELSE "sp"],
                            !.attr = [p \in Pos |-> "none"],
                            !.ext = [p \in Pos |-> {}],
                            !.starts = {}, !.pen = NoPos, !.cursor = 0]
  <1>1. 0 \in Pos
    BY ScreenAssumption DEF Pos, Size
  <1>2. t \in Screens
    BY <1>1 DEF Screens, Bytes, Attributes, Extensions
  <1> QED
    BY <1>2, Detected DEF Clear

\* Bulk mode suspends detection, and its end detects.
LEMMA BulkMode ==
  ASSUME NEW s \in Screens
  PROVE  /\ BeginBulk(s) \in GoodScreens
         /\ BeginBulk(s).buf = s.buf /\ BeginBulk(s).attr = s.attr
         /\ BeginBulk(s).ext = s.ext /\ BeginBulk(s).starts = s.starts
         /\ BeginBulk(s).pen = s.pen
         /\ EndBulk(s) \in GoodScreens
  <1>1. s.suspend \in Nat
    BY ScreenParts
  <1>2. /\ BeginBulk(s) \in Screens /\ BeginBulk(s).suspend = s.suspend + 1
        /\ BeginBulk(s).buf = s.buf /\ BeginBulk(s).attr = s.attr
        /\ BeginBulk(s).ext = s.ext /\ BeginBulk(s).starts = s.starts
        /\ BeginBulk(s).pen = s.pen
    BY <1>1 DEF BeginBulk, Screens
  <1>3. BeginBulk(s) \in GoodScreens
    BY <1>1, <1>2 DEF GoodScreens, Agrees
  <1> DEFINE less == AtLeast(0, s.suspend - 1)
  <1>4. less \in Nat
    BY <1>1 DEF AtLeast
  <1> HIDE DEF less
  <1>5. [s EXCEPT !.suspend = less] \in Screens
    BY <1>4 DEF Screens
  <1>6. EndBulk(s) \in GoodScreens
    BY <1>5, DetectedUnlessSuspended DEF EndBulk, less
  <1> QED
    BY <1>2, <1>3, <1>6

\* Where a field begins that a position is in.
LEMMA FieldAtIsPos ==
  ASSUME NEW s \in Screens, NEW p \in Pos
  PROVE  FieldAt(s, p) = NoPos \/ FieldAt(s, p) \in DOMAIN s.fields
  BY DEF FieldAt

\* Where Tab and the orders IC and PT go.
LEMMA InputIsPos ==
  ASSUME NEW s \in Screens
  PROVE  FirstInput(s) \in Pos /\ NextInput(s) \in Pos
  <1>1. InputFields(s) \subseteq Pos /\ s.cursor \in Pos
    BY ScreenParts DEF InputFields
  <1>2. FirstInput(s) \in Pos
    BY <1>1, MinIsLeast DEF FirstInput
  <1> DEFINE after == {f \in InputFields(s) : f > s.cursor}
  <1>3. after # {} => Min(after) \in Pos
    BY <1>1, MinIsLeast
  <1> QED
    BY <1>2, <1>3 DEF NextInput

\* The light pen detects anew and selects.
LEMMA PenSelects ==
  ASSUME NEW s \in Screens, NEW p \in Pos
  PROVE  SelectLightPen(s, p) \in GoodScreens
  <1> DEFINE now == DetectFields(s)
  <1> DEFINE f == FieldAt(now, p)
  <1>1. now \in GoodScreens
    BY Detected
  <1>2. now \in Screens
    BY <1>1 DEF GoodScreens
  <1> HIDE DEF now
  <1>3. CASE f # NoPos /\ now.fields[f].pen
    <2>1. f \in DOMAIN now.fields
      BY <1>2, <1>3, FieldAtIsPos
    <2> HIDE DEF f
    <2>2. f \in Pos /\ now.fields[f] \in FieldRecords /\ DOMAIN now.fields \in SUBSET Pos
      BY <1>2, <2>1, ScreenParts
    <2> DEFINE list == [now.fields EXCEPT ![f] = [@ EXCEPT !.sel = TRUE]]
    <2>3. /\ [now.fields[f] EXCEPT !.sel = TRUE] \in FieldRecords
          /\ [now.fields[f] EXCEPT !.sel = TRUE].end = now.fields[f].end
          /\ [now.fields[f] EXCEPT !.sel = TRUE].prot = now.fields[f].prot
      BY <2>2 DEF FieldRecords
    <2>4. /\ list \in [DOMAIN now.fields -> FieldRecords]
          /\ \A g \in DOMAIN now.fields : /\ list[g].end = now.fields[g].end
                                          /\ list[g].prot = now.fields[g].prot
      BY <1>2, <2>1, <2>3, ScreenParts
    <2> DEFINE t == [now EXCEPT !.fields = list, !.stale = {f}, !.pen = p]
    <2>5. SelectLightPen(s, p) = t
      BY <1>2, <1>3 DEF SelectLightPen, now, f, Screens
    <2>6. list \in FieldLists /\ DOMAIN list = DOMAIN now.fields
      BY <2>2, <2>4, FieldListOf
    <2> HIDE DEF list
    <2>7. /\ t \in Screens /\ t.suspend = now.suspend /\ t.starts = now.starts
          /\ t.attr = now.attr /\ t.fields = list
      BY <1>2, <2>2, <2>6 DEF Screens
    <2> HIDE DEF t
    <2> QED
      BY <1>1, <2>4, <2>5, <2>6, <2>7, SameFormat
  <1>4. CASE ~(f # NoPos /\ now.fields[f].pen)
    BY <1>1, <1>4 DEF SelectLightPen, now
  <1> QED
    BY <1>3, <1>4

-----------------------------------------------------------------------------
(***************************************************************************)
(* What the parser's steps make of a screen.                               *)
(***************************************************************************)
Snapshots ==
  [buf : [Pos -> Bytes], attr : Attributes, starts : SUBSET Pos, ext : Extensions,
   cursor : Pos, ascii : BOOLEAN, pen : Pos \cup {NoPos}]

\* _snapshot_screen, with the extended attributes that are not raw.
LEMMA SnapshotTaken ==
  ASSUME NEW s \in Screens
  PROVE  /\ SnapshotOf(s) \in Snapshots
         /\ SnapshotOf(s).buf = s.buf /\ SnapshotOf(s).attr = s.attr
         /\ SnapshotOf(s).starts = s.starts /\ SnapshotOf(s).pen = s.pen
         /\ \A p \in Pos : "raw" \notin s.ext[p] => SnapshotOf(s).ext[p] = s.ext[p]
  <1> DEFINE kept == [p \in Pos |-> IF "raw" \in s.ext[p] THEN {} ELSE s.ext[p]]
  <1>1. kept \in Extensions
    BY ScreenParts DEF Extensions
  <1>2. \A p \in Pos : "raw" \notin s.ext[p] => kept[p] = s.ext[p]
    OBVIOUS
  <1>3. SnapshotOf(s).ext = kept
    BY DEF SnapshotOf
  <1> HIDE DEF kept
  <1> QED
    BY <1>1, <1>2, <1>3, ScreenParts DEF SnapshotOf, Snapshots

\* _restore_screen puts the snapshot back.
LEMMA Restored ==
  ASSUME NEW s \in Screens, NEW snap \in Snapshots
  PROVE  LET t == RestoreScreen(s, snap) IN
         /\ t \in GoodScreens
         /\ t.buf = snap.buf /\ t.attr = snap.attr /\ t.starts = snap.starts
         /\ t.pen = snap.pen /\ t.ext = snap.ext
  <1> DEFINE u == [s EXCEPT !.buf = snap.buf, !.attr = snap.attr, !.starts = snap.starts,
                            !.ext = snap.ext, !.cursor = snap.cursor,
                            !.ascii = snap.ascii, !.pen = snap.pen]
  <1>1. /\ u \in Screens /\ u.buf = snap.buf /\ u.attr = snap.attr
        /\ u.starts = snap.starts /\ u.pen = snap.pen /\ u.ext = snap.ext
    BY DEF Screens, Snapshots
  <1> QED
    BY <1>1, Detected DEF RestoreScreen

\* _insert_data writes at the cursor and moves it.
LEMMA DataIsInserted ==
  ASSUME NEW s \in GoodScreens, NEW byte \in Bytes
  PROVE  Insert(s, byte) \in GoodScreens
  <1> DEFINE b == [s.buf EXCEPT ![s.cursor] = byte]
  <1> DEFINE c == IF s.cursor + 1 < Size THEN s.cursor + 1 ELSE At(Rows - 1, 0)
  <1>1. s \in Screens /\ s.cursor \in Pos /\ s.buf \in [Pos -> Bytes]
    BY ScreenParts DEF GoodScreens
  <1>2. b \in [Pos -> Bytes]
    BY <1>1
  <1>3. At(Rows - 1, 0) \in Pos
    BY AtIsPos, ScreenAssumption
  <1>4. c \in Pos
    <2>1. Size \in Nat
      BY ScreenAssumption DEF Size
    <2> HIDE DEF Size
    <2>2. s.cursor + 1 < Size => s.cursor + 1 \in Pos
      BY <1>1, <2>1 DEF Pos
    <2> QED
      BY <2>2, <1>3
  <1> HIDE DEF b, c
  <1>5. [s EXCEPT !.buf = b] \in GoodScreens
    BY <1>2, BufferIsWritten
  <1>6. [[s EXCEPT !.buf = b] EXCEPT !.cursor = c] \in GoodScreens
    BY <1>4, <1>5, CursorMoves
  <1>7. Insert(s, byte) = [[s EXCEPT !.buf = b] EXCEPT !.cursor = c]
    BY <1>1 DEF Insert, b, c, Screens
  <1> QED
    BY <1>6, <1>7

\* The loop of Repeat to Address.
LEMMA RepeatLoop ==
  ASSUME NEW s \in GoodScreens, NEW n \in Nat
  PROVE  Repeated(s, n) \in GoodScreens
  <1> DEFINE next == [x \in GoodScreens \X (1..n) |-> Insert(x[1], "host")]
  <1>0. n \in Nat
    OBVIOUS
  <1>1. \A t \in GoodScreens : Insert(t, "host") \in GoodScreens
    BY DataIsInserted DEF Bytes
  <1>2. next \in [GoodScreens \X (1..n) -> GoodScreens]
    BY <1>1
  <1>3. PICK f \in [0..n -> GoodScreens] : Iterates(f, next, s, n)
    <2> HIDE DEF next
    <2> QED
      BY <1>0, <1>2, Iteration
  <1>4. f = [i \in 0..n |-> IF i = 0 THEN s ELSE Insert(f[i - 1], "host")]
    <2> SUFFICES ASSUME NEW i \in 0..n, i # 0 PROVE f[i] = Insert(f[i - 1], "host")
      BY <1>3 DEF Iterates
    <2>1. i \in 1..n /\ i - 1 \in 0..n
      BY <1>0
    <2> QED
      BY <1>3, <2>1 DEF Iterates
  <1> DEFINE after == CHOOSE h : h = [i \in 0..n |->
                        IF i = 0 THEN s ELSE Insert(h[i - 1], "host")]
  <1>5. after = [i \in 0..n |-> IF i = 0 THEN s ELSE Insert(after[i - 1], "host")]
    BY <1>4
  <1>6. Repeated(s, n) = after[n]
    BY DEF Repeated, Loop
  <1> HIDE DEF after
  <1> DEFINE G == {i \in 0..n : after[i] \in GoodScreens}
  <1>7. 0 \in G
    BY <1>0, <1>5
  <1>8. \A i \in 1..n : i - 1 \in G => i \in G
    BY <1>0, <1>1, <1>5
  <1>9. 0..n \subseteq G
    <2> HIDE DEF G
    <2> QED
      BY <1>0, <1>7, <1>8, UpTo
  <1>10. after[n] \in GoodScreens
    <2>1. n \in 0..n
      BY <1>0
    <2> QED
      BY <2>1, <1>9
  <1> QED
    BY <1>6, <1>10

\* EUA erases a position that is not protected.
LEMMA PositionErased ==
  ASSUME NEW s \in GoodScreens, NEW p \in Pos
  PROVE  EraseUnprotected(s, p) \in GoodScreens
  <1>1. WriteChar(s, "sp", p, TRUE) \in GoodScreens
    BY CharIsWritten DEF Bytes
  <1> QED
    BY <1>1 DEF EraseUnprotected

\* The loop of Erase Unprotected to Address.
LEMMA EraseLoop ==
  ASSUME NEW s \in GoodScreens, NEW n \in Nat
  PROVE  Erased(s, n) \in GoodScreens
  <1> DEFINE next == [x \in GoodScreens \X (1..n) |-> EraseUnprotected(x[1], (s.cursor + x[2] - 1) % Size)]
  <1>0. n \in Nat /\ Size \in Nat \ {0} /\ s.cursor \in Int
    BY ScreenParts, ScreenAssumption DEF GoodScreens, Size, Pos
  <1>1. \A t \in GoodScreens, i \in 1..n :
          EraseUnprotected(t, (s.cursor + i - 1) % Size) \in GoodScreens
    <2>1. \A i \in 1..n : (s.cursor + i - 1) % Size \in Pos
      <3> HIDE DEF Size
      <3> QED
        BY <1>0 DEF Pos
    <2> QED
      BY <2>1, PositionErased
  <1>2. next \in [GoodScreens \X (1..n) -> GoodScreens]
    BY <1>1
  <1>3. PICK f \in [0..n -> GoodScreens] : Iterates(f, next, s, n)
    <2> HIDE DEF next
    <2> QED
      BY <1>0, <1>2, Iteration
  <1>4. f = [i \in 0..n |-> IF i = 0 THEN s ELSE EraseUnprotected(f[i - 1], (s.cursor + i - 1) % Size)]
    <2> SUFFICES ASSUME NEW i \in 0..n, i # 0 PROVE f[i] = EraseUnprotected(f[i - 1], (s.cursor + i - 1) % Size)
      BY <1>3 DEF Iterates
    <2>1. i \in 1..n /\ i - 1 \in 0..n
      BY <1>0
    <2> QED
      BY <1>3, <2>1 DEF Iterates
  <1> DEFINE after == CHOOSE h : h = [i \in 0..n |->
                        IF i = 0 THEN s ELSE EraseUnprotected(h[i - 1], (s.cursor + i - 1) % Size)]
  <1>5. after = [i \in 0..n |-> IF i = 0 THEN s ELSE EraseUnprotected(after[i - 1], (s.cursor + i - 1) % Size)]
    BY <1>4
  <1>6. Erased(s, n) = after[n]
    BY DEF Erased, Loop
  <1> HIDE DEF after
  <1> DEFINE G == {i \in 0..n : after[i] \in GoodScreens}
  <1>7. 0 \in G
    BY <1>0, <1>5
  <1>8. \A i \in 1..n : i - 1 \in G => i \in G
    BY <1>0, <1>1, <1>5
  <1>9. 0..n \subseteq G
    <2> HIDE DEF G
    <2> QED
      BY <1>0, <1>7, <1>8, UpTo
  <1>10. after[n] \in GoodScreens
    <2>1. n \in 0..n
      BY <1>0
    <2> QED
      BY <2>1, <1>9
  <1> QED
    BY <1>6, <1>10

\* One pair of a Start Field Extended.
LEMMA PairIsSet ==
  ASSUME NEW s \in GoodScreens, NEW pair \in SfePairs
  PROVE  SfePair(s, pair) \in GoodScreens
  <1>1. s \in Screens /\ s.cursor \in Pos
    BY ScreenParts DEF GoodScreens
  <1>2. CASE pair \in AttrBytes
    BY <1>1, <1>2, AttributeIsSet DEF SfePair
  <1>3. CASE pair \notin AttrBytes /\ pair # "ignored"
    <2>1. pair \in ExtendedKinds
      BY <1>3, RecordAssumption DEF SfePairs
    <2> QED
      BY <1>1, <1>3, <2>1, ExtensionsChange DEF SfePair, SetExtendedAttribute
  <1>4. CASE pair \notin AttrBytes /\ pair = "ignored"
    BY <1>4 DEF SfePair
  <1> QED
    BY <1>2, <1>3, <1>4

\* The pairs of a Start Field Extended, one after the other.
LEMMA PairsLoop ==
  ASSUME NEW s \in GoodScreens, NEW n \in Nat, NEW pairs \in [1..n -> SfePairs]
  PROVE  Paired(s, pairs) \in GoodScreens
  <1> DEFINE next == [x \in GoodScreens \X (1..n) |-> SfePair(x[1], pairs[x[2]])]
  <1>0. n \in Nat /\ Len(pairs) = n
    OBVIOUS
  <1>1. \A t \in GoodScreens, i \in 1..n : SfePair(t, pairs[i]) \in GoodScreens
    BY PairIsSet
  <1>2. next \in [GoodScreens \X (1..n) -> GoodScreens]
    BY <1>1
  <1>3. PICK f \in [0..n -> GoodScreens] : Iterates(f, next, s, n)
    <2> HIDE DEF next
    <2> QED
      BY <1>0, <1>2, Iteration
  <1>4. f = [i \in 0..n |-> IF i = 0 THEN s ELSE SfePair(f[i - 1], pairs[i])]
    <2> SUFFICES ASSUME NEW i \in 0..n, i # 0 PROVE f[i] = SfePair(f[i - 1], pairs[i])
      BY <1>3 DEF Iterates
    <2>1. i \in 1..n /\ i - 1 \in 0..n
      BY <1>0
    <2> QED
      BY <1>3, <2>1 DEF Iterates
  <1> DEFINE after == CHOOSE h : h = [i \in 0..n |->
                        IF i = 0 THEN s ELSE SfePair(h[i - 1], pairs[i])]
  <1>5. after = [i \in 0..n |-> IF i = 0 THEN s ELSE SfePair(after[i - 1], pairs[i])]
    BY <1>4
  <1>6. Paired(s, pairs) = after[n]
    BY <1>0 DEF Paired, Loop
  <1> HIDE DEF after
  <1> DEFINE G == {i \in 0..n : after[i] \in GoodScreens}
  <1>7. 0 \in G
    BY <1>0, <1>5
  <1>8. \A i \in 1..n : i - 1 \in G => i \in G
    BY <1>0, <1>1, <1>5
  <1>9. 0..n \subseteq G
    <2> HIDE DEF G
    <2> QED
      BY <1>0, <1>7, <1>8, UpTo
  <1>10. after[n] \in GoodScreens
    <2>1. n \in 0..n
      BY <1>0
    <2> QED
      BY <2>1, <1>9
  <1> QED
    BY <1>6, <1>10

\* One byte of NVT data.
LEMMA NvtByteWritten ==
  ASSUME NEW s \in GoodScreens, NEW ch \in {"char", "CR", "LF"}
  PROVE  NvtByte(s, ch) \in GoodScreens
  <1>1. s \in Screens /\ s.cursor \in Pos
    BY ScreenParts DEF GoodScreens
  <1>2. CASE ch = "char"
    <2>1. WriteChar(s, "host", s.cursor, TRUE) \in GoodScreens
      BY <1>1, CharIsWritten DEF Bytes
    <2> QED
      BY <1>1, <1>2, <2>1, CursorMoves, RightIsPos DEF NvtByte
  <1>3. CASE ch = "CR"
    <2>1. At(RowOf(s.cursor), 0) \in Pos
      BY <1>1, RowAndCol, AtIsPos, ScreenAssumption
    <2>2. NvtByte(s, ch) = [s EXCEPT !.cursor = At(RowOf(s.cursor), 0)]
      BY <1>3 DEF NvtByte
    <2> QED
      BY <2>1, <2>2, CursorMoves
  <1>4. CASE ch = "LF"
    <2>1. Clamp(RowOf(s.cursor) + 1, ColOf(s.cursor)) \in Pos
      <3>1. RowOf(s.cursor) + 1 \in Int /\ ColOf(s.cursor) \in Int
        BY <1>1, RowAndCol
      <3> QED
        BY <3>1, ClampIsPos
    <2>2. NvtByte(s, ch) = [s EXCEPT !.cursor = Clamp(RowOf(s.cursor) + 1, ColOf(s.cursor))]
      BY <1>4 DEF NvtByte
    <2> QED
      BY <2>1, <2>2, CursorMoves
  <1> QED
    BY <1>2, <1>3, <1>4

\* NVT data, byte by byte.
LEMMA NvtLoop ==
  ASSUME NEW s \in GoodScreens, NEW n \in Nat, NEW data \in [1..n -> {"char", "CR", "LF"}]
  PROVE  NvtWritten(s, data) \in GoodScreens
  <1> DEFINE next == [x \in GoodScreens \X (1..n) |-> NvtByte(x[1], data[x[2]])]
  <1>0. n \in Nat /\ Len(data) = n
    OBVIOUS
  <1>1. \A t \in GoodScreens, i \in 1..n : NvtByte(t, data[i]) \in GoodScreens
    BY NvtByteWritten
  <1>2. next \in [GoodScreens \X (1..n) -> GoodScreens]
    BY <1>1
  <1>3. PICK f \in [0..n -> GoodScreens] : Iterates(f, next, s, n)
    <2> HIDE DEF next
    <2> QED
      BY <1>0, <1>2, Iteration
  <1>4. f = [i \in 0..n |-> IF i = 0 THEN s ELSE NvtByte(f[i - 1], data[i])]
    <2> SUFFICES ASSUME NEW i \in 0..n, i # 0 PROVE f[i] = NvtByte(f[i - 1], data[i])
      BY <1>3 DEF Iterates
    <2>1. i \in 1..n /\ i - 1 \in 0..n
      BY <1>0
    <2> QED
      BY <1>3, <2>1 DEF Iterates
  <1> DEFINE after == CHOOSE h : h = [i \in 0..n |->
                        IF i = 0 THEN s ELSE NvtByte(h[i - 1], data[i])]
  <1>5. after = [i \in 0..n |-> IF i = 0 THEN s ELSE NvtByte(after[i - 1], data[i])]
    BY <1>4
  <1>6. NvtWritten(s, data) = after[n]
    BY <1>0 DEF NvtWritten, Loop
  <1> HIDE DEF after
  <1> DEFINE G == {i \in 0..n : after[i] \in GoodScreens}
  <1>7. 0 \in G
    BY <1>0, <1>5
  <1>8. \A i \in 1..n : i - 1 \in G => i \in G
    BY <1>0, <1>1, <1>5
  <1>9. 0..n \subseteq G
    <2> HIDE DEF G
    <2> QED
      BY <1>0, <1>7, <1>8, UpTo
  <1>10. after[n] \in GoodScreens
    <2>1. n \in 0..n
      BY <1>0
    <2> QED
      BY <2>1, <1>9
  <1> QED
    BY <1>6, <1>10

-----------------------------------------------------------------------------
(***************************************************************************)
(* The invariant: the field list agrees with the format, and the snapshot  *)
(* of a write shows the screen as it was when the record arrived.          *)
(***************************************************************************)
Records ==
  [phase : {"idle", "first", "wcc", "orders", "done", "aborted"},
   cmd : {"none", "W", "EW"}, left : Int, nulls : Int, again : BOOLEAN,
   bulk : BOOLEAN, snap : Snapshots]

ScreenTypeOK ==
  /\ scr \in Screens
  /\ rec \in Records
  /\ last \in Pos \cup {NoPos}
  /\ before \in Screens
  /\ budget \in Nat /\ keys \in Nat
  /\ insert \in BOOLEAN /\ circumvent \in BOOLEAN
  /\ typedAt \in Pos \cup {NoPos}

\* s, a screen or a snapshot, shows what b showed.
Shows(s, b) ==
  /\ s.buf = b.buf /\ s.attr = b.attr /\ s.starts = b.starts /\ s.pen = b.pen
  /\ \A p \in Pos : "raw" \notin b.ext[p] => s.ext[p] = b.ext[p]

\* Before the command is looked at the screen is as it was.
FirstIsBefore ==
  rec.phase = "first" => Shows(scr, before) /\ scr.ext = before.ext

\* A command has taken its snapshot then.
SnapshotIsBefore == rec.cmd # "none" => Shows(rec.snap, before)

ScreenInv ==
  ScreenTypeOK /\ FieldListAgrees /\ FirstIsBefore /\ SnapshotIsBefore /\ RollbackRestoresScreen

\* What the invariant says of the screen.
LEMMA ScreenIsGood ==
  ASSUME ScreenInv
  PROVE  scr \in GoodScreens /\ scr \in Screens /\ scr.cursor \in Pos
  BY ScreenParts DEF ScreenInv, ScreenTypeOK, FieldListAgrees, GoodScreens, Agrees

\* A good screen agrees with its format after the step, too.
LEMMA GoodAgrees ==
  ASSUME scr' \in GoodScreens
  PROVE  scr' \in Screens /\ FieldListAgrees'
  BY DEF GoodScreens, Agrees, FieldListAgrees

\* A step of the parser that goes on or ends without an abort.
LEMMA ParserGoesOn ==
  ASSUME ScreenInv, scr' \in GoodScreens, rec' \in Records,
         rec'.phase \in {"orders", "done", "wcc"}, rec'.cmd = rec.cmd, rec'.snap = rec.snap,
         last' \in Pos \cup {NoPos}, UNCHANGED <<before, budget, userVars>>
  PROVE  ScreenInv'
  <1>1. scr' \in Screens /\ FieldListAgrees'
    BY GoodAgrees
  <1>2. ScreenTypeOK'
    BY <1>1 DEF ScreenInv, ScreenTypeOK, userVars
  <1>3. FirstIsBefore' /\ RollbackRestoresScreen'
    BY DEF FirstIsBefore, RollbackRestoresScreen
  <1>4. SnapshotIsBefore'
    BY DEF ScreenInv, SnapshotIsBefore, Shows
  <1> QED
    BY <1>1, <1>2, <1>3, <1>4 DEF ScreenInv

\* An order or a byte of data that is taken off the record.
LEMMA OrderTaken ==
  ASSUME ScreenInv, scr' \in GoodScreens, NEW k \in Int, NEW j \in Int,
         rec.phase = "orders", rec' = [rec EXCEPT !.left = k, !.nulls = j],
         last' \in Pos \cup {NoPos}, UNCHANGED <<before, budget, userVars>>
  PROVE  ScreenInv'
  <1>1. rec \in Records /\ rec.phase = "orders"
    BY DEF ScreenInv, ScreenTypeOK
  <1>2. rec' = [phase |-> rec.phase, cmd |-> rec.cmd, left |-> k, nulls |-> j,
                again |-> rec.again, bulk |-> rec.bulk, snap |-> rec.snap]
    BY ONLY <1>1, rec' = [rec EXCEPT !.left = k, !.nulls = j] DEF Records
  <1>3. rec' \in Records /\ rec'.phase = "orders" /\ rec'.cmd = rec.cmd /\ rec'.snap = rec.snap
    BY ONLY <1>1, <1>2, k \in Int, j \in Int DEF Records
  <1> QED
    BY <1>3, ParserGoesOn

\* The same for one that is no null.
LEMMA OrderLeaves ==
  ASSUME ScreenInv, scr' \in GoodScreens, NEW k \in Int,
         rec.phase = "orders", rec' = [rec EXCEPT !.left = k, !.nulls = 0],
         last' \in Pos \cup {NoPos}, UNCHANGED <<before, budget, userVars>>
  PROVE  ScreenInv'
  <1> DEFINE none == 0
  <1>1. none \in Int /\ rec' = [rec EXCEPT !.left = k, !.nulls = none]
    OBVIOUS
  <1> HIDE DEF none
  <1> QED
    BY <1>1, OrderTaken

\* The same for one that consumes its operands.
LEMMA OrderConsumed ==
  ASSUME ScreenInv, scr' \in GoodScreens, NEW n \in Nat, OrderWith(n), Consume(n),
         last' \in Pos \cup {NoPos}, UNCHANGED <<before, budget, userVars>>
  PROVE  ScreenInv'
  <1>1. rec.left - 1 - n \in Int
    BY DEF ScreenInv, ScreenTypeOK, Records
  <1>2. rec.phase = "orders" /\ rec' = [rec EXCEPT !.left = rec.left - 1 - n, !.nulls = 0]
    BY DEF Consume, OrderWith
  <1> QED
    BY <1>1, <1>2, OrderLeaves

\* A write that is rolled back.
LEMMA WriteAborts ==
  ASSUME ScreenInv, rec.cmd # "none", scr' = RestoreScreen(scr, rec.snap), Stop("aborted"),
         UNCHANGED <<last, before, budget, userVars>>
  PROVE  ScreenInv'
  <1>1. rec \in Records /\ rec.snap \in Snapshots /\ scr \in Screens
    BY DEF ScreenInv, ScreenTypeOK, Records
  <1>2. /\ scr' \in GoodScreens
        /\ scr'.buf = rec.snap.buf /\ scr'.attr = rec.snap.attr
        /\ scr'.starts = rec.snap.starts /\ scr'.pen = rec.snap.pen
        /\ scr'.ext = rec.snap.ext
    BY <1>1, Restored
  <1>3. /\ rec' \in Records /\ rec'.phase = "aborted" /\ rec'.cmd = rec.cmd
        /\ rec'.snap = rec.snap
    <2>1. rec' = [rec EXCEPT !.phase = "aborted", !.left = 0, !.nulls = 0]
      BY DEF Stop
    <2>2. /\ rec'.phase = "aborted" /\ rec'.left = 0 /\ rec'.cmd = rec.cmd
          /\ rec'.nulls = 0 /\ rec'.again = rec.again
          /\ rec'.bulk = rec.bulk /\ rec'.snap = rec.snap
      BY ONLY <1>1, <2>1 DEF Records
    <2>3. rec' = [phase |-> "aborted", cmd |-> rec.cmd, left |-> 0, nulls |-> 0,
                  again |-> rec.again, bulk |-> rec.bulk, snap |-> rec.snap]
      BY ONLY <1>1, <2>1 DEF Records
    <2> QED
      BY ONLY <1>1, <2>2, <2>3 DEF Records
  <1>4. scr' \in Screens /\ FieldListAgrees'
    BY <1>2, GoodAgrees
  <1>5. ScreenTypeOK'
    BY <1>3, <1>4 DEF ScreenInv, ScreenTypeOK, userVars
  <1>6. Shows(rec.snap, before)
    BY DEF ScreenInv, SnapshotIsBefore
  <1>7. SnapshotIsBefore' /\ FirstIsBefore'
    BY <1>3, <1>6 DEF SnapshotIsBefore, FirstIsBefore, Shows
  <1>8. RollbackRestoresScreen'
    BY <1>2, <1>6 DEF RollbackRestoresScreen, Shows
  <1> QED
    BY <1>4, <1>5, <1>7, <1>8 DEF ScreenInv

\* A key of the user, between two records.
LEMMA KeyPressed ==
  ASSUME ScreenInv, NEW next \in GoodScreens, Key(next),
         insert' \in BOOLEAN, circumvent' \in BOOLEAN, typedAt' \in Pos \cup {NoPos}
  PROVE  ScreenInv'
  <1>1. scr' \in Screens /\ FieldListAgrees'
    BY GoodAgrees DEF Key
  <1>2. ScreenTypeOK'
    BY <1>1 DEF ScreenInv, ScreenTypeOK, Key
  <1>3. FirstIsBefore' /\ RollbackRestoresScreen' /\ SnapshotIsBefore'
    BY DEF ScreenInv, Key, FirstIsBefore, RollbackRestoresScreen, SnapshotIsBefore, Shows
  <1> QED
    BY <1>1, <1>2, <1>3 DEF ScreenInv

\* A key that leaves the modes alone.
LEMMA PlainPressed ==
  ASSUME ScreenInv, NEW next \in GoodScreens, Plain(next)
  PROVE  ScreenInv'
  BY KeyPressed DEF Plain, ScreenInv, ScreenTypeOK

-----------------------------------------------------------------------------
(***************************************************************************)
(* The steps.                                                              *)
(***************************************************************************)
\* A new screen, and no record.
LEMMA NothingYet ==
  /\ InitScreen \in GoodScreens /\ InitScreen \in Screens
  /\ NoRecord \in Records /\ NoRecord.phase = "idle" /\ NoRecord.cmd = "none"
  <1>1. 0 \in Pos
    BY ScreenAssumption DEF Pos, Size
  <1>2. InitScreen.fields \in [{} -> FieldRecords] /\ DOMAIN InitScreen.fields = {}
    BY DEF InitScreen
  <1>3. InitScreen.fields \in FieldLists
    BY <1>2, FieldListOf
  <1>4. InitScreen \in Screens
    BY <1>1, <1>3 DEF InitScreen, Screens, Bytes, Attributes, Extensions
  <1>5. Agrees(InitScreen)
    BY <1>2 DEF Agrees, InitScreen
  <1>6. SnapshotOf(InitScreen) \in Snapshots
    BY <1>4, SnapshotTaken
  <1> QED
    BY <1>4, <1>5, <1>6 DEF GoodScreens, NoRecord, Records

\* A record arrives: ASCII mode ends and the cursor goes home.
LEMMA ParseInv ==
  ASSUME ScreenInv, NEW n \in RecordSizes, Parse(n),
         typedAt' = NoPos, UNCHANGED <<insert, circumvent, keys>>
  PROVE  ScreenInv'
  <1> DEFINE fresh == [scr EXCEPT !.ascii = FALSE, !.cursor = 0]
  <1>1. scr \in GoodScreens /\ scr \in Screens
    BY ScreenIsGood
  <1>2. 0 \in Pos
    BY ScreenAssumption DEF Pos, Size
  <1>3. /\ fresh \in Screens /\ fresh.buf = scr.buf /\ fresh.attr = scr.attr
        /\ fresh.ext = scr.ext /\ fresh.starts = scr.starts /\ fresh.pen = scr.pen
        /\ fresh.fields = scr.fields /\ fresh.suspend = scr.suspend
    BY <1>1, <1>2 DEF Screens
  <1>4. scr' = IF n > BulkLimit THEN BeginBulk(fresh) ELSE fresh
    BY DEF Parse
  <1> HIDE DEF fresh
  <1>5. fresh \in GoodScreens
    BY <1>1, <1>3, SameFormat
  <1>6. /\ scr' \in GoodScreens /\ scr'.buf = scr.buf /\ scr'.attr = scr.attr
        /\ scr'.ext = scr.ext /\ scr'.starts = scr.starts /\ scr'.pen = scr.pen
    BY <1>3, <1>4, <1>5, BulkMode
  <1>7. /\ rec' \in Records /\ rec'.phase \in {"done", "first"} /\ rec'.cmd = "none"
        /\ before' = scr
    <2> DEFINE begin == IF n = 0 THEN "done" ELSE "first"
    <2> DEFINE bulk == n > BulkLimit
    <2>1. begin \in {"done", "first"} /\ bulk \in BOOLEAN /\ n \in Int
      BY RecordAssumption
    <2>2. rec' = [rec EXCEPT !.phase = begin, !.cmd = "none", !.left = n, !.bulk = bulk]
      BY DEF Parse
    <2>3. rec \in Records
      BY DEF ScreenInv, ScreenTypeOK
    <2> HIDE DEF begin, bulk
    <2>4. rec' = [phase |-> begin, cmd |-> "none", left |-> n, nulls |-> rec.nulls,
                  again |-> rec.again, bulk |-> bulk, snap |-> rec.snap]
      BY <2>2, <2>3 DEF Records
    <2> QED
      BY <2>1, <2>3, <2>4 DEF Records, Parse
  <1>8. scr' \in Screens /\ FieldListAgrees'
    BY <1>6, GoodAgrees
  <1>9. budget' \in Nat
    BY RecordAssumption DEF Parse, ScreenInv, ScreenTypeOK
  <1>10. ScreenTypeOK'
    BY <1>1, <1>7, <1>8, <1>9 DEF ScreenInv, ScreenTypeOK, Parse
  <1>11. FirstIsBefore' /\ SnapshotIsBefore' /\ RollbackRestoresScreen'
    BY <1>6, <1>7 DEF FirstIsBefore, SnapshotIsBefore, RollbackRestoresScreen, Shows
  <1> QED
    BY <1>8, <1>10, <1>11 DEF ScreenInv

\* A write takes its snapshot and clears the screen.
LEMMA WriteInv ==
  ASSUME ScreenInv, NEW cmd \in {"W", "EW"}, HandleWrite(cmd), UNCHANGED userVars
  PROVE  ScreenInv'
  <1>1. scr \in Screens /\ rec \in Records /\ rec.phase = "first"
    BY ScreenIsGood DEF ScreenInv, ScreenTypeOK, HandleWrite
  <1>2. scr' \in GoodScreens
    BY <1>1, Cleared DEF HandleWrite
  <1>3. scr' \in Screens /\ FieldListAgrees'
    BY <1>2, GoodAgrees
  <1> DEFINE taken == SnapshotOf(scr)
  <1>4. /\ taken \in Snapshots
        /\ taken.buf = scr.buf /\ taken.attr = scr.attr
        /\ taken.starts = scr.starts /\ taken.pen = scr.pen
        /\ \A p \in Pos : "raw" \notin scr.ext[p] => taken.ext[p] = scr.ext[p]
    BY <1>1, SnapshotTaken
  <1>5. rec' = [rec EXCEPT !.phase = "wcc", !.cmd = cmd, !.left = @ - 1, !.snap = taken]
    BY DEF HandleWrite
  <1> HIDE DEF taken
  <1>6. rec' = [phase |-> "wcc", cmd |-> cmd, left |-> rec.left - 1, nulls |-> rec.nulls,
                again |-> rec.again, bulk |-> rec.bulk, snap |-> taken]
    BY ONLY <1>1, <1>5 DEF Records
  <1>7. rec' \in Records
    BY ONLY <1>1, <1>4, <1>6, cmd \in {"W", "EW"} DEF Records
  <1>8. ScreenTypeOK'
    BY <1>3, <1>7 DEF ScreenInv, ScreenTypeOK, HandleWrite, userVars
  <1>9. Shows(scr, before) /\ scr.ext = before.ext
    BY <1>1 DEF ScreenInv, FirstIsBefore
  <1>10. Shows(taken, before)
    BY <1>4, <1>9 DEF Shows
  <1>11. before' = before
    BY DEF HandleWrite
  <1>12. FirstIsBefore' /\ SnapshotIsBefore' /\ RollbackRestoresScreen'
    BY <1>6, <1>10, <1>11 DEF FirstIsBefore, SnapshotIsBefore, RollbackRestoresScreen, Shows
  <1> QED
    BY <1>3, <1>8, <1>12 DEF ScreenInv

\* The write control character.
LEMMA WccInv ==
  ASSUME ScreenInv, NEW restore \in BOOLEAN, HandleWcc(restore), UNCHANGED userVars
  PROVE  ScreenInv'
  <1>1. scr \in GoodScreens /\ scr \in Screens /\ rec \in Records
    BY ScreenIsGood DEF ScreenInv, ScreenTypeOK
  <1>2. 0 \in Pos
    BY ScreenAssumption DEF Pos, Size
  <1>3. /\ scr' \in Screens /\ scr'.attr = scr.attr /\ scr'.starts = scr.starts
        /\ scr'.fields = scr.fields /\ scr'.suspend = scr.suspend
    BY <1>1, <1>2 DEF HandleWcc, Screens
  <1>4. scr' \in GoodScreens
    BY <1>1, <1>3, SameFormat
  <1>5. rec' = [phase |-> "orders", cmd |-> rec.cmd, left |-> rec.left - 1,
                nulls |-> rec.nulls, again |-> rec.again, bulk |-> rec.bulk, snap |-> rec.snap]
    BY <1>1 DEF HandleWcc, Records
  <1>6. rec' \in Records /\ rec'.phase = "orders" /\ rec'.cmd = rec.cmd /\ rec'.snap = rec.snap
    BY ONLY <1>1, <1>5 DEF Records
  <1> QED
    BY <1>4, <1>6, ParserGoesOn DEF HandleWcc, ScreenInv, ScreenTypeOK

\* The end of a record that stops without an abort.
LEMMA ParserStops ==
  ASSUME ScreenInv, UNCHANGED <<scr, last, before, budget, userVars>>,
         NEW next \in {"done", "orders"}, Stop(next)
  PROVE  ScreenInv'
  <1>1. scr' \in GoodScreens /\ rec \in Records
    BY ScreenIsGood DEF ScreenInv, ScreenTypeOK
  <1>2. rec' = [phase |-> next, cmd |-> rec.cmd, left |-> 0, nulls |-> 0,
                again |-> rec.again, bulk |-> rec.bulk, snap |-> rec.snap]
    BY <1>1 DEF Stop, Records
  <1>3. /\ rec' \in Records /\ rec'.phase \in {"done", "orders"}
        /\ rec'.cmd = rec.cmd /\ rec'.snap = rec.snap
    BY ONLY <1>1, <1>2, next \in {"done", "orders"} DEF Records
  <1> QED
    BY <1>1, <1>3, ParserGoesOn DEF ScreenInv, ScreenTypeOK

\* A write without its WCC.
LEMMA MissingWccInv ==
  ASSUME ScreenInv, MissingWcc, UNCHANGED userVars
  PROVE  ScreenInv'
  <1>1. CASE rec.cmd = "EW"
    BY <1>1, WriteAborts DEF MissingWcc, RaiseIncomplete
  <1>2. CASE rec.cmd # "EW"
    BY <1>2, ParserStops DEF MissingWcc
  <1> QED
    BY <1>1, <1>2

\* SA, SBA and EUA without their operands.
LEMMA AbortInv ==
  ASSUME ScreenInv, AbortWrite, UNCHANGED userVars
  PROVE  ScreenInv'
  <1>1. CASE rec.cmd = "none"
    BY <1>1, ParserStops DEF AbortWrite
  <1>2. CASE rec.cmd # "none"
    BY <1>2, WriteAborts DEF AbortWrite
  <1> QED
    BY <1>1, <1>2

\* The finally clause of parse().
LEMMA EndInv ==
  ASSUME ScreenInv, EndParse, UNCHANGED userVars
  PROVE  ScreenInv'
  <1>1. scr \in GoodScreens /\ scr \in Screens
    BY ScreenIsGood
  <1>2. scr' \in GoodScreens
    BY <1>1, BulkMode DEF EndParse
  <1>3. scr' \in Screens /\ FieldListAgrees'
    BY <1>2, GoodAgrees
  <1>4. rec' \in Records /\ rec'.phase = "idle" /\ rec'.cmd = "none" /\ before' \in Screens
    BY NothingYet DEF EndParse
  <1>5. ScreenTypeOK'
    BY <1>3, <1>4 DEF ScreenInv, ScreenTypeOK, EndParse, userVars
  <1>6. FirstIsBefore' /\ SnapshotIsBefore' /\ RollbackRestoresScreen'
    BY <1>4 DEF FirstIsBefore, SnapshotIsBefore, RollbackRestoresScreen
  <1> QED
    BY <1>3, <1>5, <1>6 DEF ScreenInv

\* The last order of a record has no operand: the parser goes back.
LEMMA GoesBack ==
  ASSUME ScreenInv, OrderAlone, UNCHANGED <<scr, last, before, budget, userVars>>,
         rec' = [rec EXCEPT !.left = rec.nulls, !.nulls = 0, !.again = rec.nulls > 0]
  PROVE  ScreenInv'
  <1> DEFINE back == rec.nulls > 0
  <1>1. /\ rec \in Records /\ rec.phase = "orders" /\ scr' \in GoodScreens
        /\ back \in BOOLEAN /\ rec' = [rec EXCEPT !.left = rec.nulls, !.nulls = 0, !.again = back]
    BY ScreenIsGood DEF ScreenInv, ScreenTypeOK, OrderAlone
  <1> HIDE DEF back
  <1>2. rec' = [phase |-> rec.phase, cmd |-> rec.cmd, left |-> rec.nulls, nulls |-> 0,
                again |-> back, bulk |-> rec.bulk, snap |-> rec.snap]
    BY ONLY <1>1 DEF Records
  <1>3. rec' \in Records /\ rec'.phase = "orders" /\ rec'.cmd = rec.cmd /\ rec'.snap = rec.snap
    BY ONLY <1>1, <1>2 DEF Records
  <1> QED
    BY <1>1, <1>3, ParserGoesOn DEF ScreenInv, ScreenTypeOK

\* Orders that leave the screen alone.
LEMMA SkippedInv ==
  ASSUME ScreenInv, UNCHANGED userVars,
         \/ SkipNull \/ HandleDataStreamCtl \/ HandleScs \/ SkipIncomplete
         \/ SkipStructuredField
  PROVE  ScreenInv'
  <1>1. /\ scr \in GoodScreens /\ last \in Pos \cup {NoPos}
        /\ rec.left \in Int /\ rec.nulls \in Int
    BY ScreenIsGood DEF ScreenInv, ScreenTypeOK, Records
  <1>2. CASE SkipNull
    <2>1. rec.phase = "orders" /\ rec' = [rec EXCEPT !.left = rec.left - 1, !.nulls = rec.nulls + 1]
      BY <1>2 DEF SkipNull
    <2>2. rec.left - 1 \in Int /\ rec.nulls + 1 \in Int
      BY <1>1
    <2> QED
      BY <1>1, <1>2, <2>1, <2>2, OrderTaken DEF SkipNull
  <1>3. CASE HandleDataStreamCtl \/ HandleScs
    BY <1>1, <1>3, OrderConsumed DEF HandleDataStreamCtl, HandleScs
  <1>4. CASE SkipIncomplete
    <2> USE <1>4 DEF SkipIncomplete
    <2>1. CASE OrderWith(1) /\ rec' = [rec EXCEPT !.left = @ - 2, !.nulls = 0]
      <3>1. rec.phase = "orders" /\ rec' = [rec EXCEPT !.left = rec.left - 2, !.nulls = 0]
        BY <2>1 DEF OrderWith
      <3>2. rec.left - 2 \in Int
        BY <1>1
      <3> QED
        BY <1>1, <3>1, <3>2, OrderLeaves
    <2>2. CASE /\ OrderAlone
               /\ rec' = [rec EXCEPT !.left = rec.nulls, !.nulls = 0, !.again = rec.nulls > 0]
      BY <1>1, <2>2, GoesBack
    <2> QED
      BY <2>1, <2>2
  <1>5. CASE SkipStructuredField
    BY <1>5, ParserStops DEF SkipStructuredField
  <1> QED
    BY <1>2, <1>3, <1>4, <1>5

\* Orders that move the cursor or write at it.
LEMMA CursorOrdersInv ==
  ASSUME ScreenInv, UNCHANGED userVars,
         \/ \E b \in {"host", "sp"} : InsertData(b)
         \/ HandleGe \/ HandleIc \/ HandlePt
         \/ \E p \in Pos : HandleSba(p) \/ HandleRa(p) \/ HandleEua(p)
  PROVE  ScreenInv'
  <1>1. /\ scr \in GoodScreens /\ scr \in Screens /\ scr.cursor \in Pos
        /\ last \in Pos \cup {NoPos}
    BY ScreenIsGood DEF ScreenInv, ScreenTypeOK
  <1>2. CASE \E b \in {"host", "sp"} : InsertData(b)
    BY <1>1, <1>2, DataIsInserted, OrderConsumed DEF InsertData, Bytes
  <1>3. CASE HandleGe
    BY <1>1, <1>3, DataIsInserted, OrderConsumed DEF HandleGe, Bytes
  <1>4. CASE HandleIc
    BY <1>1, <1>4, InputIsPos, CursorMoves, OrderConsumed DEF HandleIc, Moved
  <1>5. CASE HandlePt
    BY <1>1, <1>5, InputIsPos, CursorMoves, OrderConsumed DEF HandlePt, Moved
  <1>6. ASSUME NEW p \in Pos, HandleSba(p) PROVE ScreenInv'
    BY <1>1, <1>6, CursorMoves, OrderConsumed DEF HandleSba, Moved
  <1>7. \A p \in Pos : Distance(scr.cursor, p) \in Nat
    <2>1. Size \in Nat
      BY ScreenAssumption DEF Size
    <2> HIDE DEF Size
    <2> QED
      BY <1>1, <2>1 DEF Distance, Pos
  <1>8. ASSUME NEW p \in Pos, HandleRa(p) PROVE ScreenInv'
    <2>1. Repeated(scr, Distance(scr.cursor, p)) \in GoodScreens
      BY <1>1, <1>7, RepeatLoop
    <2>2. scr' \in GoodScreens
      BY <1>8, <2>1, CursorMoves DEF HandleRa
    <2> QED
      BY <1>1, <1>8, <2>2, OrderConsumed DEF HandleRa
  <1>9. ASSUME NEW p \in Pos, HandleEua(p) PROVE ScreenInv'
    <2>1. Erased(scr, Distance(scr.cursor, p)) \in GoodScreens
      BY <1>1, <1>7, EraseLoop
    <2>2. scr' \in GoodScreens
      BY <1>9, <2>1, CursorMoves DEF HandleEua
    <2> QED
      BY <1>1, <1>9, <2>2, OrderConsumed DEF HandleEua
  <1> QED
    BY <1>2, <1>3, <1>4, <1>5, <1>6, <1>8, <1>9

\* Orders that set attributes.
LEMMA AttributeOrdersInv ==
  ASSUME ScreenInv, UNCHANGED userVars,
         \/ \E a \in HostAttrs : HandleSf(a)
         \/ \E kinds \in SUBSET ExtendedKinds : HandleMf(kinds)
         \/ \E k \in ExtendedKinds : HandleSa(k)
         \/ \E n \in 0..2 : \E pairs \in [1..n -> SfePairs] : HandleSfe(pairs)
         \/ \E n \in 0..rec.left : \E pairs \in [1..(n \div 2) -> SfePairs] :
              HandleStructuredField(pairs, n)
  PROVE  ScreenInv'
  <1>1. /\ scr \in GoodScreens /\ scr \in Screens /\ scr.cursor \in Pos
        /\ last \in Pos \cup {NoPos} /\ rec.left \in Int
    BY ScreenIsGood DEF ScreenInv, ScreenTypeOK, Records
  <1>2. Clamp(RowOf(scr.cursor), ColOf(scr.cursor) + 1) \in Pos
    <2>1. RowOf(scr.cursor) \in Int /\ ColOf(scr.cursor) + 1 \in Int
      BY <1>1, RowAndCol
    <2> QED
      BY <2>1, ClampIsPos
  <1>3. ResolveFieldStart \in Pos
    BY <1>1 DEF ResolveFieldStart
  <1>4. ASSUME NEW a \in HostAttrs, HandleSf(a) PROVE ScreenInv'
    <2>1. SetAttribute(scr, a) \in GoodScreens
      BY <1>1, AttributeIsSet, RecordAssumption
    <2>2. scr' \in GoodScreens
      BY <1>2, <1>4, <2>1, CursorMoves DEF HandleSf
    <2> QED
      BY <1>1, <1>4, <2>2, OrderConsumed DEF HandleSf
  <1>5. ASSUME NEW kinds \in SUBSET ExtendedKinds, HandleMf(kinds) PROVE ScreenInv'
    <2>1. scr' \in GoodScreens
      BY <1>1, <1>3, <1>5, ExtensionsChange DEF HandleMf
    <2>2. (rec.left - 1) % 2 \in Int
      BY <1>1
    <2>3. rec.phase = "orders" /\ rec' = [rec EXCEPT !.left = (rec.left - 1) % 2, !.nulls = 0]
      BY <1>5 DEF HandleMf, OrderWith
    <2> QED
      BY <1>1, <1>5, <2>1, <2>2, <2>3, OrderLeaves DEF HandleMf
  <1>6. ASSUME NEW k \in ExtendedKinds, HandleSa(k) PROVE ScreenInv'
    <2>1. scr' \in GoodScreens
      BY <1>1, <1>3, <1>6, ExtensionsChange DEF HandleSa, SetExtendedAttribute
    <2> QED
      BY <1>1, <1>6, <2>1, OrderConsumed DEF HandleSa
  <1>7. ASSUME NEW n \in 0..2, NEW pairs \in [1..n -> SfePairs], HandleSfe(pairs)
        PROVE  ScreenInv'
    <2>1. n \in Nat /\ Len(pairs) = n /\ 1 + 2 * n \in Nat
      OBVIOUS
    <2>2. Paired(scr, pairs) \in GoodScreens
      BY <1>1, <2>1, PairsLoop
    <2>3. scr' \in GoodScreens
      BY <1>2, <1>7, <2>2, CursorMoves DEF HandleSfe
    <2> QED
      BY <1>1, <1>7, <2>1, <2>3, OrderConsumed DEF HandleSfe
  <1>8. ASSUME NEW n \in 0..rec.left, NEW pairs \in [1..(n \div 2) -> SfePairs],
               HandleStructuredField(pairs, n)
        PROVE  ScreenInv'
    <2>1. n \div 2 \in Nat /\ 3 + n \in Nat
      BY <1>1
    <2>2. scr' \in GoodScreens
      BY <1>1, <1>8, <2>1, PairsLoop DEF HandleStructuredField
    <2> QED
      BY <1>1, <1>8, <2>1, <2>2, OrderConsumed DEF HandleStructuredField
  <1> QED
    BY <1>4, <1>5, <1>6, <1>7, <1>8

\* Every step of parse().
LEMMA ParserStepInv ==
  ASSUME ScreenInv, ParserStep, UNCHANGED userVars
  PROVE  ScreenInv'
  <1>1. CASE Orders
    BY <1>1, SkippedInv, CursorOrdersInv, AttributeOrdersInv, AbortInv DEF Orders
  <1> QED
    BY <1>1, WriteInv, WccInv, MissingWccInv, EndInv DEF ParserStep

\* NVT data is written in bulk mode.
LEMMA NvtInv ==
  ASSUME ScreenInv, NEW data \in [1..NvtLen -> {"char", "CR", "LF"}], HandleNvtData(data),
         typedAt' = NoPos, UNCHANGED <<insert, circumvent, keys>>
  PROVE  ScreenInv'
  <1> DEFINE nvt == [scr EXCEPT !.ascii = TRUE]
  <1>1. scr \in Screens
    BY ScreenIsGood
  <1>2. nvt \in Screens
    BY <1>1 DEF Screens
  <1>3. NvtWritten(BeginBulk(nvt), data) \in GoodScreens
    BY <1>2, BulkMode, NvtLoop, KeysAssumption
  <1>4. scr' \in GoodScreens
    BY <1>3, BulkMode DEF HandleNvtData, GoodScreens
  <1>5. scr' \in Screens /\ FieldListAgrees'
    BY <1>4, GoodAgrees
  <1>6. Len(data) \in Nat
    BY KeysAssumption
  <1>7. budget' \in Nat
    BY <1>6 DEF HandleNvtData, ScreenInv, ScreenTypeOK
  <1>8. ScreenTypeOK'
    BY <1>5, <1>7 DEF HandleNvtData, ScreenInv, ScreenTypeOK
  <1>9. FirstIsBefore' /\ SnapshotIsBefore' /\ RollbackRestoresScreen'
    BY DEF HandleNvtData, ScreenInv, FirstIsBefore, SnapshotIsBefore, RollbackRestoresScreen,
           Shows
  <1> QED
    BY <1>5, <1>8, <1>9 DEF ScreenInv

\* Keys that move the cursor.
LEMMA MovesInv ==
  ASSUME ScreenInv,
         \/ Tab \/ Home \/ BackTab \/ Newline \/ Up \/ Down \/ Left \/ Right \/ PageUp \/ End
         \/ \E r \in 0..Rows, c \in 0..Cols : MoveCursor(r, c)
  PROVE  ScreenInv'
  <1>1. scr \in GoodScreens /\ scr \in Screens /\ Cur \in Pos
    BY ScreenIsGood DEF Cur
  <1>2. ASSUME NEW p \in Pos, Plain(Moved(p)) PROVE ScreenInv'
    BY <1>1, <1>2, CursorMoves, PlainPressed DEF Moved
  <1>3. RowOf(Cur) \in 0..(Rows - 1) /\ ColOf(Cur) \in 0..(Cols - 1)
    BY <1>1, RowAndCol
  <1>4. RowOf(Cur) \in Int /\ ColOf(Cur) \in Int /\ Rows \in Nat /\ Cols \in Nat
    BY <1>3, ScreenAssumption
  <1>5. CASE Tab
    BY <1>1, <1>2, <1>5, InputIsPos DEF Tab
  <1>6. CASE Home
    <2>1. FieldAt(scr, Cur) = NoPos \/ FieldAt(scr, Cur) \in Pos
      BY <1>1, FieldAtIsPos, ScreenParts
    <2> QED
      BY <1>1, <1>2, <1>6, <2>1, PlainPressed DEF Home
  <1>7. CASE BackTab
    <2> DEFINE earlier == {t \in DOMAIN scr.fields : t < FieldAt(scr, Cur)}
    <2>1. earlier \subseteq Pos
      BY <1>1, ScreenParts
    <2>2. earlier # {} => Moved(Max(earlier)) \in GoodScreens
      BY <1>1, <2>1, MaxIsGreatest, CursorMoves DEF Moved
    <2>3. PICK next \in GoodScreens : Key(next)
      BY <1>1, <1>7, <2>2 DEF BackTab
    <2> QED
      BY <1>7, <2>3, KeyPressed DEF BackTab, ScreenInv, ScreenTypeOK
  <1>8. CASE Newline \/ Up \/ Down
    <2>1. /\ Clamp(RowOf(Cur) + 1, 0) \in Pos
          /\ Clamp(RowOf(Cur) - 1, ColOf(Cur)) \in Pos
          /\ Clamp(RowOf(Cur) + 1, ColOf(Cur)) \in Pos
      <3>1. RowOf(Cur) + 1 \in Int /\ RowOf(Cur) - 1 \in Int
        BY <1>4
      <3> QED
        BY <1>4, <3>1, ClampIsPos
    <2> QED
      BY <1>2, <1>8, <2>1 DEF Newline, Up, Down
  <1>9. CASE Left \/ Right
    BY <1>1, <1>2, <1>9, RightIsPos DEF Left, Right
  <1>10. CASE PageUp
    <2>1. At(0, ColOf(Cur)) \in Pos /\ At(0, ColOf(Cur)) = ColOf(Cur)
      <3>1. 0 \in 0..(Rows - 1)
        BY ScreenAssumption
      <3>2. At(0, ColOf(Cur)) \in Pos
        BY <1>3, <3>1, AtIsPos
      <3>3. At(0, ColOf(Cur)) = ColOf(Cur)
        BY <1>4 DEF At
      <3> QED
        BY <3>2, <3>3
    <2> QED
      BY <1>2, <1>10, <2>1 DEF PageUp
  <1>11. CASE End
    <2>1. Cols - 1 \in 0..(Cols - 1)
      BY ScreenAssumption
    <2>2. At(RowOf(Cur), Cols - 1) \in Pos
      BY <1>3, <2>1, AtIsPos
    <2> QED
      BY <1>2, <1>11, <2>2 DEF End
  <1>12. ASSUME NEW r \in 0..Rows, NEW c \in 0..Cols, MoveCursor(r, c) PROVE ScreenInv'
    <2>1. Clamp(r, c) \in Pos
      BY <1>4, ClampIsPos
    <2> QED
      BY <1>2, <1>12, <2>1 DEF MoveCursor
  <1> QED
    BY <1>5, <1>6, <1>7, <1>8, <1>9, <1>10, <1>11, <1>12

\* Typing, in either mode.
LEMMA InsertTextInv ==
  ASSUME ScreenInv, InsertText
  PROVE  ScreenInv'
  <1> DEFINE room == IF insert THEN Shifted(scr, Cur) ELSE scr
  <1> DEFINE done == WriteChar(room, "typed", Cur, circumvent)
  <1>1. /\ scr \in GoodScreens /\ scr \in Screens /\ Cur \in Pos
        /\ insert \in BOOLEAN /\ circumvent \in BOOLEAN
    BY ScreenIsGood DEF Cur, ScreenInv, ScreenTypeOK
  <1>2. Shifted(scr, Cur) \in GoodScreens
    <2> DEFINE b == [q \in Pos |-> IF RowOf(q) = RowOf(Cur) /\ q > Cur
                                   THEN scr.buf[q - 1] ELSE scr.buf[q]]
    <2>1. \A q \in Pos : q > Cur => q - 1 \in Pos
      <3>1. Size \in Nat
        BY ScreenAssumption DEF Size
      <3> HIDE DEF Size
      <3> QED
        BY <1>1, <3>1 DEF Pos
    <2>2. b \in [Pos -> Bytes]
      BY <1>1, <2>1, ScreenParts
    <2>3. Shifted(scr, Cur) = [scr EXCEPT !.buf = b]
      BY DEF Shifted
    <2> HIDE DEF b
    <2> QED
      BY <1>1, <2>2, <2>3, BufferIsWritten
  <1>3. done \in GoodScreens
    BY <1>1, <1>2, CharIsWritten DEF Bytes
  <1>4. RightOf(Cur) \in Pos
    BY <1>1, RightIsPos
  <1> HIDE DEF room, done
  <1>5. [done EXCEPT !.cursor = RightOf(Cur)] \in GoodScreens
    BY <1>3, <1>4, CursorMoves
  <1>6. Key([done EXCEPT !.cursor = RightOf(Cur)])
    BY DEF InsertText, room, done
  <1> QED
    BY <1>1, <1>5, <1>6, KeyPressed DEF InsertText

\* Keys that write the buffer directly.
LEMMA EditsInv ==
  ASSUME ScreenInv, BackSpace \/ EraseEof \/ Delete \/ DeleteField \/ Erase
  PROVE  ScreenInv'
  <1>1. scr \in GoodScreens /\ scr \in Screens /\ Cur \in Pos /\ scr.buf \in [Pos -> Bytes]
    BY ScreenIsGood, ScreenParts DEF Cur
  <1>2. ASSUME NEW b \in [Pos -> Bytes], Plain([scr EXCEPT !.buf = b]) PROVE ScreenInv'
    BY <1>1, <1>2, BufferIsWritten, PlainPressed
  <1>3. CASE BackSpace
    <2> DEFINE c == LeftOf(Cur)
    <2> DEFINE t == [scr EXCEPT !.cursor = c]
    <2> DEFINE b == [scr.buf EXCEPT ![c] = "sp"]
    <2>1. c \in Pos
      BY <1>1, RightIsPos
    <2> HIDE DEF c
    <2>2. t \in GoodScreens /\ t.buf = scr.buf
      BY <1>1, <2>1, CursorMoves DEF Screens
    <2>3. b \in [Pos -> Bytes]
      BY <1>1 DEF Bytes
    <2>4. [t EXCEPT !.buf = b] \in GoodScreens
      <3> HIDE DEF t, b
      <3> QED
        BY <2>2, <2>3, BufferIsWritten
    <2>5. Plain([t EXCEPT !.buf[c] = "sp"])
      BY <1>3 DEF BackSpace, Moved, c
    <2>6. [t EXCEPT !.buf[c] = "sp"] = [t EXCEPT !.buf = b]
      BY <2>2
    <2> QED
      BY <2>4, <2>5, <2>6, PlainPressed
  <1>4. CASE EraseEof
    <2> DEFINE b == [p \in Pos |-> IF RowOf(p) = RowOf(Cur) /\ p >= Cur THEN "sp"
                                   ELSE scr.buf[p]]
    <2>1. b \in [Pos -> Bytes]
      BY <1>1 DEF Bytes
    <2>2. Plain([scr EXCEPT !.buf = b])
      BY <1>4 DEF EraseEof
    <2> HIDE DEF b
    <2> QED
      BY <1>2, <2>1, <2>2
  <1>5. CASE Delete
    <2> DEFINE b == [p \in Pos |-> IF RowOf(p) # RowOf(Cur) \/ p < Cur THEN scr.buf[p]
                                   ELSE IF ColOf(p) = Cols - 1 THEN "sp"
                                   ELSE scr.buf[p + 1]]
    <2>1. ASSUME NEW p \in Pos, ColOf(p) # Cols - 1 PROVE p + 1 \in Pos
      <3>1. RightOf(p) = p + 1
        BY <2>1, RowAndCol, ScreenAssumption DEF RightOf
      <3> QED
        BY <3>1, RightIsPos
    <2>2. b \in [Pos -> Bytes]
      BY <1>1, <2>1 DEF Bytes
    <2>3. Plain([scr EXCEPT !.buf = b])
      BY <1>5 DEF Delete
    <2> HIDE DEF b
    <2> QED
      BY <1>2, <2>2, <2>3
  <1>6. CASE DeleteField
    <2> DEFINE f == FieldAt(scr, Cur)
    <2> DEFINE b == [p \in Pos |-> IF f <= p /\ p <= scr.fields[f].end THEN "sp"
                                   ELSE scr.buf[p]]
    <2>1. b \in [Pos -> Bytes]
      BY <1>1 DEF Bytes
    <2>2. Plain([scr EXCEPT !.buf = b])
      BY <1>6 DEF DeleteField
    <2> HIDE DEF b
    <2> QED
      BY <1>2, <2>1, <2>2
  <1>7. CASE Erase
    BY <1>1, <1>7, Cleared, PlainPressed DEF Erase
  <1> QED
    BY <1>3, <1>4, <1>5, <1>6, <1>7

\* Keys that change field objects or locks.
LEMMA FieldKeysInv ==
  ASSUME ScreenInv,
         \/ EraseInput \/ CursorSelect \/ Submit \/ Enter \/ ToggleInsert \/ CircumNot
         \/ \E p \in Pos : SelectPen(p)
  PROVE  ScreenInv'
  <1>1. scr \in GoodScreens /\ scr \in Screens /\ Cur \in Pos
        /\ insert \in BOOLEAN /\ circumvent \in BOOLEAN
    BY ScreenIsGood DEF Cur, ScreenInv, ScreenTypeOK
  <1>2. ASSUME NEW t \in GoodScreens PROVE Locked(t) \in GoodScreens
    <2>1. t \in Screens
      BY DEF GoodScreens
    <2>2. /\ Locked(t) \in Screens /\ Locked(t).suspend = t.suspend
          /\ Locked(t).starts = t.starts /\ Locked(t).attr = t.attr
          /\ Locked(t).fields = t.fields
      BY <2>1 DEF Locked, Screens
    <2> QED
      BY <2>2, SameFormat
  <1>3. CASE EraseInput
    <2> DEFINE Blank(f) == [p \in f..scr.fields[f].end |-> "sp"]
    <2> DEFINE New(f) == IF scr.fields[f].prot THEN [scr.fields[f] EXCEPT !.mod = FALSE]
                         ELSE [scr.fields[f] EXCEPT !.mod = TRUE, !.content = Blank(f)]
    <2> DEFINE list == [f \in DOMAIN scr.fields |-> New(f)]
    <2>1. ASSUME NEW f \in DOMAIN scr.fields
          PROVE  /\ New(f) \in FieldRecords
                 /\ New(f).end = scr.fields[f].end /\ New(f).prot = scr.fields[f].prot
      <3>1. scr.fields[f] \in FieldRecords
        BY <1>1, ScreenParts
      <3>2. Blank(f) \in Contents
        <4> DEFINE sps == [p \in Pos |-> "sp"]
        <4>1. sps \in [Pos -> Bytes]
          BY DEF Bytes
        <4>2. f \in Pos /\ scr.fields[f].end \in Pos
          BY <1>1, <3>1, ScreenParts DEF FieldRecords
        <4>3. f..scr.fields[f].end \in SUBSET Pos
          BY <4>2, IntervalOfPos
        <4>4. Blank(f) = [p \in f..scr.fields[f].end |-> sps[p]]
          BY <4>3
        <4> HIDE DEF sps
        <4> QED
          BY <1>1, <4>1, <4>4, FieldContent
      <3> HIDE DEF Blank
      <3> QED
        BY <3>1, <3>2 DEF FieldRecords
    <2>2. list \in [DOMAIN scr.fields -> FieldRecords]
      BY <2>1
    <2>3. \A f \in DOMAIN scr.fields : /\ list[f].end = scr.fields[f].end
                                       /\ list[f].prot = scr.fields[f].prot
      BY <2>1
    <2>4. Plain([scr EXCEPT !.fields = list])
      BY <1>3 DEF EraseInput
    <2> HIDE DEF list
    <2>5. [scr EXCEPT !.fields = list] \in GoodScreens
      BY <1>1, <2>2, <2>3, FieldChanges
    <2> QED
      BY <2>4, <2>5, PlainPressed
  <1>4. CASE CursorSelect
    <2> DEFINE f == FieldAt(scr, Cur)
    <2>1. CASE f = NoPos \/ (scr.nav /\ f \in scr.stale)
      BY <1>1, <1>4, <2>1, PlainPressed DEF CursorSelect
    <2>2. CASE ~(f = NoPos \/ (scr.nav /\ f \in scr.stale))
      <3>1. f \in DOMAIN scr.fields
        BY <1>1, <2>2, FieldAtIsPos
      <3>2. Plain([scr EXCEPT !.fields[f].sel = TRUE])
        BY <1>4, <2>2 DEF CursorSelect
      <3> HIDE DEF f
      <3>3. scr.fields[f] \in FieldRecords
        BY <1>1, <3>1, ScreenParts
      <3> DEFINE list == [scr.fields EXCEPT ![f] = [@ EXCEPT !.sel = TRUE]]
      <3>4. /\ [scr.fields[f] EXCEPT !.sel = TRUE] \in FieldRecords
            /\ [scr.fields[f] EXCEPT !.sel = TRUE].end = scr.fields[f].end
            /\ [scr.fields[f] EXCEPT !.sel = TRUE].prot = scr.fields[f].prot
        BY <3>3 DEF FieldRecords
      <3>5. /\ list \in [DOMAIN scr.fields -> FieldRecords]
            /\ \A g \in DOMAIN scr.fields : /\ list[g].end = scr.fields[g].end
                                            /\ list[g].prot = scr.fields[g].prot
        BY <1>1, <3>1, <3>4, ScreenParts
      <3>6. [scr EXCEPT !.fields[f].sel = TRUE] = [scr EXCEPT !.fields = list]
        BY <1>1 DEF Screens
      <3> HIDE DEF list
      <3>7. [scr EXCEPT !.fields = list] \in GoodScreens
        BY <1>1, <3>5, FieldChanges
      <3> QED
        BY <3>2, <3>6, <3>7, PlainPressed
    <2> QED
      BY <2>1, <2>2
  <1>5. CASE Submit \/ Enter
    BY <1>1, <1>2, <1>5, PlainPressed DEF Submit, Enter
  <1>6. CASE ToggleInsert \/ CircumNot
    BY <1>1, <1>6, KeyPressed DEF ToggleInsert, CircumNot
  <1>7. ASSUME NEW p \in Pos, SelectPen(p) PROVE ScreenInv'
    <2> DEFINE picked == SelectLightPen(scr, p)
    <2>1. picked \in GoodScreens
      BY <1>1, PenSelects
    <2>2. Locked(picked) \in GoodScreens
      BY <1>2, <2>1
    <2> QED
      BY <1>7, <2>1, <2>2, PlainPressed DEF SelectPen
  <1> QED
    BY <1>3, <1>4, <1>5, <1>6, <1>7

\* Every step keeps the invariant.
LEMMA ScreenNextInv == ScreenInv /\ [Next]_vars => ScreenInv'
  <1> SUFFICES ASSUME ScreenInv, [Next]_vars PROVE ScreenInv'
    OBVIOUS
  <1>1. CASE UserStep
    BY <1>1, MovesInv, InsertTextInv, EditsInv, FieldKeysInv DEF UserStep
  <1>2. CASE HostStep
    BY <1>2, ParseInv, NvtInv DEF HostStep
  <1>3. CASE ParserStep /\ UNCHANGED userVars
    BY <1>3, ParserStepInv
  <1>4. CASE UNCHANGED vars
    BY <1>4 DEF vars, parserVars, userVars, ScreenInv, ScreenTypeOK, FieldListAgrees,
       FirstIsBefore, SnapshotIsBefore, RollbackRestoresScreen, Shows
  <1> QED
    BY <1>1, <1>2, <1>3, <1>4 DEF Next

\* An empty screen and no record.
LEMMA ScreenInitInv == Init => ScreenInv
  <1> SUFFICES ASSUME Init PROVE ScreenInv
    OBVIOUS
  <1>1. ScreenTypeOK
    BY NothingYet, RecordAssumption, KeysAssumption DEF Init, ParserInit, ScreenTypeOK
  <1>2. FieldListAgrees
    BY NothingYet DEF Init, ParserInit, FieldListAgrees, GoodScreens, Agrees
  <1>3. FirstIsBefore /\ SnapshotIsBefore /\ RollbackRestoresScreen
    BY NothingYet DEF Init, ParserInit, FirstIsBefore, SnapshotIsBefore, RollbackRestoresScreen
  <1> QED
    BY <1>1, <1>2, <1>3 DEF ScreenInv

-----------------------------------------------------------------------------
\* Whatever the host sends and the user types, cursor, attributes, fields and
\* snapshots stay on the screen and in their ranges.
THEOREM ScreenTypes == Spec => []ScreenTypeOK
  <1>1. ScreenInv => ScreenTypeOK
    BY DEF ScreenInv
  <1> QED
    BY <1>1, ScreenInitInv, ScreenNextInv, PTL DEF Spec

\* On a screen of any size, after any records and keys, the field list outside
\* bulk mode is the one that the host's attributes describe.
THEOREM FieldsAgree == Spec => []FieldListAgrees
  <1>1. ScreenInv => FieldListAgrees
    BY DEF ScreenInv
  <1> QED
    BY <1>1, ScreenInitInv, ScreenNextInv, PTL DEF Spec

\* A write that an incomplete order aborts leaves the screen as the record
\* found it, wherever in the record that happens.
THEOREM RollbackRestores == Spec => []RollbackRestoresScreen
  <1>1. ScreenInv => RollbackRestoresScreen
    BY DEF ScreenInv
  <1> QED
    BY <1>1, ScreenInitInv, ScreenNextInv, PTL DEF Spec

-----------------------------------------------------------------------------
(***************************************************************************)
(* Tab.  Every press brings the cursor closer to a given input field, on   *)
(* the way forward that wraps at the end of the screen, until it is there. *)
(***************************************************************************)
Ahead(f, c) == IF c < f THEN f - c ELSE f - c + Size

\* One press of Tab.
LEMMA TabComesCloser ==
  ASSUME scr \in GoodScreens, NEW f \in InputFields(scr), NEW c \in Pos
  PROVE  LET t == NextInput(TabFrom(c))
         IN  t \in Pos /\ (t = f \/ Ahead(f, t) < Ahead(f, c))
  <1> DEFINE I == InputFields(scr)
             after == {i \in I : i > c}
             t == NextInput(TabFrom(c))
  <1>1. scr \in Screens /\ I \subseteq Pos
    BY ScreenParts DEF GoodScreens, InputFields
  <1>2. TabFrom(c).cursor = c /\ TabFrom(c).fields = scr.fields
    BY <1>1 DEF TabFrom, Screens
  <1>3. InputFields(TabFrom(c)) = I
    BY <1>2 DEF InputFields
  <1>4. t = IF after # {} THEN Min(after) ELSE Min(I)
    BY <1>2, <1>3 DEF NextInput, FirstInput
  <1>5. Size \in Nat /\ \A p \in Pos : p \in Nat /\ p < Size
    BY ScreenAssumption DEF Pos, Size
  <1>6. f \in Pos /\ f \in I /\ c \in Pos
    BY <1>1
  <1> HIDE DEF I, t, Size, Pos
  <1>7. CASE after # {}
    <2>1. Min(after) \in after /\ \A y \in after : Min(after) <= y
      BY <1>1, <1>7, MinIsLeast
    <2>2. t \in Pos /\ t > c /\ (f > c => t <= f)
      BY <1>1, <1>4, <1>6, <1>7, <2>1
    <2> QED
      BY <1>5, <1>6, <2>2 DEF Ahead, t
  <1>8. CASE after = {}
    <2>1. Min(I) \in I /\ \A y \in I : Min(I) <= y
      BY <1>1, <1>6, MinIsLeast
    <2>2. t \in Pos /\ t <= f
      BY <1>1, <1>4, <1>6, <1>8, <2>1
    <2>3. ~(f > c)
      BY <1>6, <1>8
    <2> QED
      BY <1>5, <1>6, <2>2, <2>3 DEF Ahead, t
  <1> QED
    BY <1>7, <1>8

\* Where repeated presses of Tab lead.
LEMMA TabsIterate ==
  ASSUME scr \in GoodScreens
  PROVE  /\ AfterTabs[0] = Cur
         /\ \A i \in 1..Size : AfterTabs[i] = NextInput(TabFrom(AfterTabs[i - 1]))
         /\ \A i \in 0..Size : AfterTabs[i] \in Pos
  <1> DEFINE n == Size
             next == [x \in Pos \X (1..n) |-> NextInput(TabFrom(x[1]))]
  <1>0. n \in Nat
    BY ScreenAssumption DEF Size
  <1>1. \A c \in Pos : NextInput(TabFrom(c)) \in Pos
    <2> SUFFICES ASSUME NEW c \in Pos PROVE NextInput(TabFrom(c)) \in Pos
      OBVIOUS
    <2>1. TabFrom(c) \in GoodScreens
      BY CursorMoves DEF TabFrom
    <2> QED
      BY <2>1, InputIsPos DEF GoodScreens
  <1>2. next \in [Pos \X (1..n) -> Pos] /\ Cur \in Pos
    BY <1>1, ScreenParts DEF GoodScreens, Cur
  <1>3. PICK f \in [0..n -> Pos] : Iterates(f, next, Cur, n)
    <2> HIDE DEF next, n
    <2> QED
      BY <1>0, <1>2, Iteration
  <1> HIDE DEF n
  <1>4. f = [i \in 0..n |-> IF i = 0 THEN Cur ELSE NextInput(TabFrom(f[i - 1]))]
    <2> SUFFICES ASSUME NEW i \in 0..n, i # 0 PROVE f[i] = NextInput(TabFrom(f[i - 1]))
      BY <1>3 DEF Iterates
    <2>1. i \in 1..n /\ i - 1 \in 0..n
      BY <1>0
    <2> QED
      BY <1>3, <2>1 DEF Iterates
  <1> DEFINE after == CHOOSE h : h = [i \in 0..n |->
                        IF i = 0 THEN Cur ELSE NextInput(TabFrom(h[i - 1]))]
  <1>5. after = [i \in 0..n |-> IF i = 0 THEN Cur ELSE NextInput(TabFrom(after[i - 1]))]
    BY <1>4
  <1>6. AfterTabs = after
    BY DEF AfterTabs, n
  <1> HIDE DEF after
  <1> DEFINE G == {i \in 0..n : after[i] \in Pos}
  <1>7. 0 \in G
    BY <1>0, <1>2, <1>5
  <1>8. \A i \in 1..n : i - 1 \in G => i \in G
    BY <1>0, <1>1, <1>5
  <1>9. 0..n \subseteq G
    <2> HIDE DEF G
    <2> QED
      BY <1>0, <1>7, <1>8, UpTo
  <1>10. \A i \in 1..n : after[i] = NextInput(TabFrom(after[i - 1]))
    BY <1>0, <1>5
  <1>11. after[0] = Cur
    BY <1>0, <1>5
  <1> QED
    BY <1>6, <1>9, <1>10, <1>11 DEF n

\* On a screen whose field list agrees, Tab reaches every input field in at
\* most as many presses as there are positions.
LEMMA TabArrives ==
  ASSUME scr \in GoodScreens, NEW f \in InputFields(scr)
  PROVE  \E n \in 1..Size : AfterTabs[n] = f
  <1> SUFFICES ASSUME \A n \in 1..Size : AfterTabs[n] # f PROVE FALSE
    OBVIOUS
  <1> DEFINE D == {d \in Nat : \E n \in 0..Size : d = Ahead(f, AfterTabs[n]) /\ n + d <= Size}
  <1>1. /\ AfterTabs[0] = Cur
        /\ \A i \in 1..Size : AfterTabs[i] = NextInput(TabFrom(AfterTabs[i - 1]))
        /\ \A i \in 0..Size : AfterTabs[i] \in Pos
    BY TabsIterate
  <1>2. Size \in Nat /\ \A p \in Pos : p \in Nat /\ p < Size
    BY ScreenAssumption DEF Pos, Size
  <1>3. f \in Pos
    BY ScreenParts DEF GoodScreens, InputFields
  <1> HIDE DEF Size, Pos
  <1>4. \A c \in Pos : Ahead(f, c) \in 1..Size
    BY <1>2, <1>3 DEF Ahead
  <1>5. 0 \in 0..Size
    BY <1>2
  <1>6. D # {}
    <2>1. Ahead(f, AfterTabs[0]) \in 1..Size
      BY <1>1, <1>4, <1>5
    <2>2. Ahead(f, AfterTabs[0]) \in D
      BY <1>2, <1>5, <2>1
    <2> QED
      BY <2>2
  <1>7. PICK d \in D : \A e \in D : d <= e
    BY <1>6, Least
  <1>8. PICK n \in 0..Size : d = Ahead(f, AfterTabs[n]) /\ n + d <= Size
    BY <1>7
  <1>9. d \in 1..Size
    BY <1>1, <1>4, <1>8
  <1>10. n + 1 \in 1..Size /\ (n + 1) - 1 = n
    BY <1>2, <1>8, <1>9
  <1>11. AfterTabs[n + 1] = NextInput(TabFrom(AfterTabs[n])) /\ AfterTabs[n + 1] \in Pos
    BY <1>1, <1>2, <1>10
  <1>12. Ahead(f, AfterTabs[n + 1]) < d
    <2>1. AfterTabs[n] \in Pos
      BY <1>1
    <2> QED
      BY <1>8, <1>10, <1>11, <2>1, TabComesCloser
  <1>13. Ahead(f, AfterTabs[n + 1]) \in D
    <2> DEFINE e == Ahead(f, AfterTabs[n + 1])
    <2>1. e \in 1..Size
      BY <1>4, <1>11
    <2> HIDE DEF e
    <2>2. e < d
      BY <1>12 DEF e
    <2>3. (n + 1) + e <= Size /\ e \in Nat /\ n + 1 \in 0..Size
      BY <1>2, <1>8, <1>9, <1>10, <2>1, <2>2
    <2> QED
      BY <2>3 DEF e
  <1>14. Ahead(f, AfterTabs[n + 1]) \in Nat
    BY <1>13
  <1> HIDE DEF D
  <1> QED
    BY <1>7, <1>9, <1>12, <1>13, <1>14

\* From wherever the cursor is, repeated Tab visits every unprotected field
\* that the host has defined, on a screen of any size and after any records
\* and keys.
THEOREM TabReaches == Spec => []TabReachesEveryInput
  <1>1. ScreenInv => TabReachesEveryInput
    <2> SUFFICES ASSUME ScreenInv, scr.suspend = 0, NEW s \in scr.starts,
                        ~Protected(scr.attr[s])
                 PROVE  \E n \in 1..Size : AfterTabs[n] = s
      BY DEF TabReachesEveryInput
    <2>1. scr \in GoodScreens
      BY ScreenIsGood
    <2>2. s \in InputFields(scr)
      BY <2>1 DEF GoodScreens, Agrees, InputFields
    <2> QED
      BY <2>1, <2>2, TabArrives
  <1> QED
    BY <1>1, ScreenInitInv, ScreenNextInv, PTL DEF Spec

-----------------------------------------------------------------------------
(***************************************************************************)
(* The records of a trace file (Replayer), for any files.                  *)
(***************************************************************************)
LineRecords == [from : Nat, to : Nat, len : Nat]
Parsed == [records : Seq(LineRecords), current : LineRecords]

\* What _parse_trace() has after n lines.
ParsedUpTo(text, acc, n) ==
  /\ \A k \in 1..Len(Flushed(acc)) : IsRecord(text, Flushed(acc)[k], n)
  /\ InOrder(Flushed(acc))
  /\ Covered(text, Flushed(acc), n)
  /\ acc.current # EmptyRecord => \A k \in (acc.current.to + 1)..n : text[k].dir = "blank"
  /\ acc.current = EmptyRecord =>
       \A j \in 1..n : IsData(text, j) => \E k \in (j + 1)..n : text[k].dir # "blank"

\* What the last data line before a line is decides whether that line goes on.
LEMMA GoesOnFromLast ==
  ASSUME NEW text, NEW n \in Nat, NEW m \in 1..n, IsData(text, m), IsData(text, n + 1),
         \A k \in (m + 1)..n : text[k].dir = "blank"
  PROVE  GoesOn(text, n + 1) <=>
           text[m].dir = text[n + 1].dir /\ text[m].off + text[m].len = text[n + 1].off
  <1>1. (n + 1) - 1 = n
    OBVIOUS
  <1>2. ASSUME NEW j \in 1..n, text[j].dir = text[n + 1].dir,
               \A k \in (j + 1)..n : text[k].dir = "blank"
        PROVE  j = m
    <2>1. text[j].dir # "blank" /\ text[m].dir # "blank"
      BY <1>2 DEF IsData
    <2>2. ~(j \in (m + 1)..n) /\ ~(m \in (j + 1)..n)
      BY <1>2, <2>1
    <2> QED
      BY <2>2
  <1> QED
    BY <1>1, <1>2 DEF GoesOn

\* A record of n lines is one of more lines.
LEMMA RecordOfMore ==
  ASSUME NEW text, NEW r \in LineRecords, NEW n \in Nat, IsRecord(text, r, n)
  PROVE  IsRecord(text, r, n + 1) /\ r.to <= n /\ r.from >= 1 /\ r.from <= r.to
  <1> USE DEF IsRecord, LineRecords
  <1>1. r.from \in 1..n /\ r.to \in r.from..n /\ r.from \in Nat /\ r.to \in Nat
    OBVIOUS
  <1>2. r.from \in 1..(n + 1) /\ r.to \in r.from..(n + 1)
    BY <1>1
  <1> QED
    BY <1>1, <1>2

\* So are all records of a list.
LEMMA RecordsOfMore ==
  ASSUME NEW text, NEW recs \in Seq(LineRecords), NEW n \in Nat,
         \A k \in 1..Len(recs) : IsRecord(text, recs[k], n)
  PROVE  \A k \in 1..Len(recs) : IsRecord(text, recs[k], n + 1)
  <1> TAKE k \in 1..Len(recs)
  <1>1. recs[k] \in LineRecords
    OBVIOUS
  <1>2. IsRecord(text, recs[k], n)
    OBVIOUS
  <1> QED
    BY ONLY <1>1, <1>2, n \in Nat, RecordOfMore

\* One more record behind the others.
LEMMA RecordBehind ==
  ASSUME NEW text, NEW recs \in Seq(LineRecords), NEW n \in Nat, NEW r \in LineRecords,
         \A k \in 1..Len(recs) : IsRecord(text, recs[k], n),
         InOrder(recs), IsRecord(text, r, n),
         \A k \in 1..Len(recs) : recs[k].to < r.from
  PROVE  /\ Append(recs, r) \in Seq(LineRecords)
         /\ Len(Append(recs, r)) = Len(recs) + 1
         /\ \A k \in 1..Len(Append(recs, r)) : IsRecord(text, Append(recs, r)[k], n)
         /\ InOrder(Append(recs, r))
  <1> DEFINE all == Append(recs, r)
  <1>1. /\ Len(recs) \in Nat /\ all \in Seq(LineRecords) /\ Len(all) = Len(recs) + 1
        /\ all[Len(recs) + 1] = r /\ \A k \in 1..Len(recs) : all[k] = recs[k]
    OBVIOUS
  <1> HIDE DEF all
  <1>2. \A k \in 1..Len(all) : k = Len(recs) + 1 \/ k \in 1..Len(recs)
    BY <1>1
  <1>3. ASSUME NEW j \in 1..Len(all), NEW k \in 1..Len(all), j < k
        PROVE  all[j].to < all[k].from
    <2>1. j \in 1..Len(recs)
      BY <1>1, <1>3
    <2>2. CASE k \in 1..Len(recs)
      BY <1>1, <1>3, <2>1, <2>2 DEF InOrder
    <2>3. CASE k = Len(recs) + 1
      BY <1>1, <2>1, <2>3
    <2> QED
      BY <1>2, <2>2, <2>3
  <1>4. InOrder(all)
    BY <1>3 DEF InOrder
  <1>5. \A k \in 1..Len(all) : IsRecord(text, all[k], n)
    BY <1>1, <1>2
  <1> QED
    BY <1>1, <1>4, <1>5 DEF all

\* The parts of a flushed accumulator.
LEMMA FlushedParts ==
  ASSUME NEW acc \in Parsed
  PROVE  /\ Flushed(acc) \in Seq(LineRecords)
         /\ Len(acc.records) \in Nat
         /\ acc.current = EmptyRecord => Flushed(acc) = acc.records
         /\ acc.current # EmptyRecord =>
              /\ Len(Flushed(acc)) = Len(acc.records) + 1
              /\ Flushed(acc)[Len(acc.records) + 1] = acc.current
              /\ \A k \in 1..Len(acc.records) : Flushed(acc)[k] = acc.records[k]
  BY DEF Flushed, Parsed, EmptyRecord

\* A line keeps the types.
LEMMA LineTypes ==
  ASSUME NEW text \in Seq(Lines), NEW acc \in Parsed, NEW i \in 1..Len(text)
  PROVE  ParseLine(text, acc, i) \in Parsed
  <1>1. text[i] \in Lines /\ text[i].len \in Nat /\ i \in Nat
    BY DEF Lines, OtherLine, BlankLine
  <1>2. Flushed(acc) \in Seq(LineRecords)
    BY FlushedParts
  <1>3. acc.records \in Seq(LineRecords) /\ acc.current \in LineRecords
    BY DEF Parsed
  <1>4. [from |-> acc.current.from, to |-> i, len |-> acc.current.len + text[i].len] \in LineRecords
    BY <1>1, <1>3 DEF LineRecords
  <1>5. [from |-> i, to |-> i, len |-> text[i].len] \in LineRecords /\ EmptyRecord \in LineRecords
    BY <1>1 DEF LineRecords, EmptyRecord
  <1> QED
    BY <1>2, <1>3, <1>4, <1>5 DEF ParseLine, Parsed

\* A blank line is in no record, or inside of one.
LEMMA BlankLineParsed ==
  ASSUME NEW text \in Seq(Lines), NEW acc \in Parsed, NEW n \in Nat, n + 1 \in 1..Len(text),
         ParsedUpTo(text, acc, n), text[n + 1].dir = "blank"
  PROVE  ParsedUpTo(text, ParseLine(text, acc, n + 1), n + 1)
  <1>1. ParseLine(text, acc, n + 1) = acc
    BY DEF ParseLine
  <1>2. Flushed(acc) \in Seq(LineRecords)
    BY FlushedParts
  <1>3. \A k \in 1..Len(Flushed(acc)) : IsRecord(text, Flushed(acc)[k], n + 1)
    BY <1>2, RecordsOfMore DEF ParsedUpTo
  <1>4. Covered(text, Flushed(acc), n + 1)
    BY DEF ParsedUpTo, Covered, IsData
  <1>5. acc.current # EmptyRecord =>
          \A k \in (acc.current.to + 1)..(n + 1) : text[k].dir = "blank"
    <2>1. acc.current.to \in Nat
      BY DEF Parsed, LineRecords
    <2> QED
      BY <2>1 DEF ParsedUpTo
  <1>6. acc.current = EmptyRecord =>
          \A j \in 1..(n + 1) : IsData(text, j) =>
            \E k \in (j + 1)..(n + 1) : text[k].dir # "blank"
    <2> SUFFICES ASSUME acc.current = EmptyRecord, NEW j \in 1..(n + 1), IsData(text, j)
                 PROVE  \E k \in (j + 1)..(n + 1) : text[k].dir # "blank"
      OBVIOUS
    <2>1. j \in 1..n
      BY DEF IsData
    <2>2. PICK k \in (j + 1)..n : text[k].dir # "blank"
      BY <2>1 DEF ParsedUpTo
    <2>3. k \in (j + 1)..(n + 1)
      BY <2>1
    <2> QED
      BY <2>2, <2>3
  <1>7. ParsedUpTo(text, acc, n + 1)
    BY <1>3, <1>4, <1>5, <1>6 DEF ParsedUpTo
  <1> QED
    BY <1>1, <1>7

\* Any other line ends a record and is in none.
LEMMA OtherLineParsed ==
  ASSUME NEW text \in Seq(Lines), NEW acc \in Parsed, NEW n \in Nat, n + 1 \in 1..Len(text),
         ParsedUpTo(text, acc, n), text[n + 1].dir = "none"
  PROVE  ParsedUpTo(text, ParseLine(text, acc, n + 1), n + 1)
  <1> DEFINE new == ParseLine(text, acc, n + 1)
  <1>1. new = [records |-> Flushed(acc), current |-> EmptyRecord]
    BY DEF ParseLine
  <1> HIDE DEF new
  <1>2. Flushed(new) = Flushed(acc) /\ new.current = EmptyRecord
    <2>1. new.records = Flushed(acc) /\ new.current = EmptyRecord
      BY <1>1
    <2>2. Flushed(new) = new.records
      BY <2>1 DEF Flushed
    <2> QED
      BY <2>1, <2>2
  <1>3. Flushed(acc) \in Seq(LineRecords)
    BY FlushedParts
  <1>4. \A k \in 1..Len(Flushed(acc)) : IsRecord(text, Flushed(acc)[k], n + 1)
    BY <1>3, RecordsOfMore DEF ParsedUpTo
  <1>5. Covered(text, Flushed(acc), n + 1)
    BY DEF ParsedUpTo, Covered, IsData
  <1>7. \A j \in 1..(n + 1) : IsData(text, j) =>
          \E k \in (j + 1)..(n + 1) : text[k].dir # "blank"
    <2> SUFFICES ASSUME NEW j \in 1..(n + 1), IsData(text, j)
                 PROVE  n + 1 \in (j + 1)..(n + 1)
      OBVIOUS
    <2> QED
      BY DEF IsData
  <1>6. ParsedUpTo(text, new, n + 1)
    BY <1>2, <1>4, <1>5, <1>7 DEF ParsedUpTo
  <1> QED
    BY <1>6 DEF new

\* A line that goes on is no start, and the record ends with it.
LEMMA NextLineParsed ==
  ASSUME NEW text \in Seq(Lines), NEW acc \in Parsed, NEW n \in Nat, n + 1 \in 1..Len(text),
         ParsedUpTo(text, acc, n), IsData(text, n + 1),
         Continues(text, acc.current, n + 1)
  PROVE  ParsedUpTo(text, ParseLine(text, acc, n + 1), n + 1)
  <1> DEFINE new == ParseLine(text, acc, n + 1)
  <1> DEFINE c == acc.current
  <1> DEFINE r == [from |-> c.from, to |-> n + 1, len |-> c.len + text[n + 1].len]
  <1>1. /\ c # EmptyRecord /\ c \in LineRecords
        /\ acc.records \in Seq(LineRecords) /\ Len(acc.records) \in Nat
    BY FlushedParts DEF Continues, ParsedUpTo, Parsed
  <1>2. IsRecord(text, c, n)
    BY <1>1, FlushedParts DEF ParsedUpTo
  <1> DEFINE m == c.to
  <1>3. /\ c.from \in Nat /\ c.from \in 1..n /\ m \in c.from..n /\ m \in 1..n
        /\ IsData(text, m) /\ text[m].dir = text[c.from].dir
        /\ c.len = text[m].off + text[m].len - text[c.from].off
    <2>1. c.from \in Nat /\ c.from \in 1..n /\ m \in c.from..n
      BY <1>1, <1>2 DEF IsRecord, LineRecords
    <2>2. m \in c.from..c.to /\ m \in 1..n
      BY <2>1
    <2>3. IsData(text, m) /\ text[m].dir \in {text[c.from].dir, "blank"}
      BY <1>2, <2>2 DEF IsRecord
    <2>4. text[m].dir = text[c.from].dir
      BY <2>3 DEF IsData
    <2> QED
      BY <1>2, <2>1, <2>2, <2>3, <2>4 DEF IsRecord
  <1>a. \A k \in (m + 1)..n : text[k].dir = "blank"
    BY <1>1 DEF ParsedUpTo
  <1>4. \A i \in 1..(n + 1) : text[i].off \in Nat /\ text[i].len \in Nat
    BY DEF Lines, OtherLine, BlankLine
  <1>5. text[n + 1].dir = text[m].dir /\ text[n + 1].off = text[m].off + text[m].len
    <2>1. text[n + 1].dir = text[c.from].dir /\ text[n + 1].off = text[c.from].off + c.len
      BY DEF Continues
    <2>2. m \in 1..(n + 1) /\ c.from \in 1..(n + 1)
      BY <1>3
    <2> HIDE DEF c, m
    <2>3. text[m].off \in Nat /\ text[m].len \in Nat /\ text[c.from].off \in Nat
      BY <1>4, <2>2
    <2> QED
      BY <1>3, <2>1, <2>3
  <1>6. ~StartsRecord(text, n + 1)
    <2> HIDE DEF c, m
    <2>1. GoesOn(text, n + 1)
      BY <1>3, <1>5, <1>a, GoesOnFromLast
    <2> QED
      BY <2>1 DEF StartsRecord
  <1>7. IsRecord(text, r, n + 1)
    <2>1. r.from \in 1..(n + 1) /\ r.to \in r.from..(n + 1)
      BY <1>3
    <2>2. ASSUME NEW i \in r.from..r.to
          PROVE  /\ text[i].dir \in {text[r.from].dir, "blank"}
                 /\ StartsRecord(text, i) <=> i = r.from
      <3>1. CASE i = n + 1
        BY <1>3, <1>5, <1>6, <3>1
      <3>2. CASE i # n + 1 /\ i <= m
        <4>1. i \in c.from..c.to
          BY <1>1, <1>3, <3>2
        <4> QED
          BY <1>2, <4>1 DEF IsRecord
      <3>3. CASE i # n + 1 /\ ~(i <= m)
        <4>1. i \in (m + 1)..n /\ i # c.from
          BY <1>3, <3>3
        <4>2. text[i].dir = "blank"
          BY <1>a, <4>1
        <4>3. ~StartsRecord(text, i)
          BY <4>2 DEF StartsRecord, IsData
        <4> QED
          BY <4>1, <4>2, <4>3
      <3> QED
        BY <3>1, <3>2, <3>3
    <2>3. r.len = text[r.to].off + text[r.to].len - text[r.from].off
      <3>1. m \in 1..(n + 1) /\ c.from \in 1..(n + 1) /\ n + 1 \in 1..(n + 1)
        BY <1>3
      <3>2. /\ text[m].off \in Nat /\ text[m].len \in Nat /\ text[c.from].off \in Nat
            /\ text[n + 1].len \in Nat
        <4> HIDE DEF c, m
        <4> QED
          BY <1>4, <3>1
      <3>3. c.len + text[n + 1].len = text[n + 1].off + text[n + 1].len - text[c.from].off
        <4> HIDE DEF c, m
        <4> QED
          BY <1>3, <1>5, <3>2
      <3> QED
        BY <3>3
    <2> QED
      BY <2>1, <2>2, <2>3 DEF IsRecord, IsData
  <1>8. new = [records |-> acc.records, current |-> r]
    BY DEF ParseLine, IsData
  <1>9. r # EmptyRecord /\ r \in LineRecords
    <2>1. r.from # 0 /\ EmptyRecord.from = 0
      BY <1>3 DEF EmptyRecord
    <2>2. c.from \in Nat /\ n + 1 \in Nat /\ c.len + text[n + 1].len \in Nat
      BY <1>1, <1>4 DEF LineRecords
    <2>3. r \in LineRecords
      BY <2>2 DEF LineRecords
    <2> HIDE DEF r
    <2> QED
      BY <2>1, <2>3
  <1>10. Flushed(new) = Append(acc.records, r) /\ new.current = r
    BY <1>8, <1>9 DEF Flushed
  <1>11. /\ \A k \in 1..Len(acc.records) : IsRecord(text, acc.records[k], n + 1)
         /\ InOrder(acc.records)
         /\ \A k \in 1..Len(acc.records) : acc.records[k].to < c.from
    <2> DEFINE L == Len(acc.records)
    <2>1. /\ Len(Flushed(acc)) = L + 1 /\ L \in Nat
          /\ Flushed(acc)[L + 1] = c
          /\ \A k \in 1..L : Flushed(acc)[k] = acc.records[k]
      BY <1>1, FlushedParts
    <2>2. \A k \in 1..L : acc.records[k] \in LineRecords
      BY <1>1
    <2> HIDE DEF L
    <2>3. \A k \in 1..L : IsRecord(text, acc.records[k], n)
      BY <2>1 DEF ParsedUpTo
    <2>4. \A k \in 1..L : IsRecord(text, acc.records[k], n + 1)
      <3> TAKE k \in 1..L
      <3>1. acc.records[k] \in LineRecords /\ IsRecord(text, acc.records[k], n)
        BY ONLY <2>2, <2>3, k \in 1..L
      <3> QED
        BY ONLY <3>1, n \in Nat, RecordOfMore
    <2>5. \A j, k \in 1..L : j < k => acc.records[j].to < acc.records[k].from
      BY <2>1 DEF ParsedUpTo, InOrder
    <2>6. \A k \in 1..L : acc.records[k].to < c.from
      BY <2>1 DEF ParsedUpTo, InOrder
    <2> QED
      BY <2>4, <2>5, <2>6 DEF InOrder, L
  <1>12. /\ Len(Flushed(new)) = Len(acc.records) + 1
         /\ \A k \in 1..Len(Flushed(new)) : IsRecord(text, Flushed(new)[k], n + 1)
         /\ InOrder(Flushed(new))
    <2> HIDE DEF r, new, c
    <2>1. \A k \in 1..Len(acc.records) : acc.records[k].to < r.from
      BY <1>11 DEF r
    <2>2. n + 1 \in Nat
      OBVIOUS
    <2>3. /\ Len(Append(acc.records, r)) = Len(acc.records) + 1
          /\ \A k \in 1..Len(Append(acc.records, r)) : IsRecord(text, Append(acc.records, r)[k], n + 1)
          /\ InOrder(Append(acc.records, r))
      BY <1>1, <1>7, <1>9, <1>11, <2>1, <2>2, RecordBehind
    <2> QED
      BY <1>10, <2>3
  <1>13. Covered(text, Flushed(new), n + 1)
    <2> SUFFICES ASSUME NEW i \in 1..(n + 1), IsData(text, i)
                 PROVE  \E k \in 1..Len(Flushed(new)) :
                          i \in Flushed(new)[k].from..Flushed(new)[k].to
      BY DEF Covered
    <2> HIDE DEF new
    <2> DEFINE L == Len(acc.records)
    <2>0. /\ L + 1 \in 1..Len(Flushed(new)) /\ Flushed(new)[L + 1] = r
          /\ \A k \in 1..L : k \in 1..Len(Flushed(new)) /\ Flushed(new)[k] = acc.records[k]
      <3> HIDE DEF r
      <3> QED
        BY <1>1, <1>9, <1>10, <1>12
    <2>1. CASE i = n + 1
      <3>1. i \in r.from..r.to
        BY <1>3, <2>1
      <3> HIDE DEF r
      <3> QED
        BY <2>0, <3>1
    <2>2. CASE i # n + 1
      <3>1. i \in 1..n
        BY <2>2
      <3>2. PICK k \in 1..Len(Flushed(acc)) : i \in Flushed(acc)[k].from..Flushed(acc)[k].to
        BY <3>1 DEF ParsedUpTo, Covered
      <3>3. CASE k = L + 1
        <4>1. i \in c.from..m
          BY <1>1, <3>2, <3>3, FlushedParts
        <4>2. i \in r.from..r.to
          BY <1>3, <4>1
        <4> HIDE DEF r
        <4> QED
          BY <2>0, <4>2
      <3>4. CASE k \in 1..L
        <4>1. Flushed(acc)[k] = acc.records[k]
          BY <1>1, <3>4, FlushedParts
        <4> HIDE DEF r, L
        <4> QED
          BY <2>0, <3>2, <3>4, <4>1
      <3>5. Len(Flushed(acc)) = L + 1 /\ L \in Nat
        BY <1>1, FlushedParts
      <3> HIDE DEF L
      <3> QED
        BY <3>3, <3>4, <3>5
    <2> QED
      BY <2>1, <2>2
  <1> HIDE DEF new
  <1>14. new.current # EmptyRecord /\ (new.current.to + 1)..(n + 1) = {}
    BY <1>9, <1>10
  <1>15. ParsedUpTo(text, new, n + 1)
    BY <1>12, <1>13, <1>14 DEF ParsedUpTo
  <1> QED
    BY <1>15 DEF new

\* A line that does not go on starts a record of its own.
LEMMA FirstLineParsed ==
  ASSUME NEW text \in Seq(Lines), NEW acc \in Parsed, NEW n \in Nat, n + 1 \in 1..Len(text),
         ParsedUpTo(text, acc, n), IsData(text, n + 1),
         ~Continues(text, acc.current, n + 1)
  PROVE  ParsedUpTo(text, ParseLine(text, acc, n + 1), n + 1)
  <1> DEFINE new == ParseLine(text, acc, n + 1)
  <1> DEFINE c == acc.current
  <1> DEFINE all == Flushed(acc)
  <1> DEFINE r == [from |-> n + 1, to |-> n + 1, len |-> text[n + 1].len]
  <1>1. all \in Seq(LineRecords) /\ Len(all) \in Nat /\ \A k \in 1..Len(all) : all[k] \in LineRecords
    BY FlushedParts
  <1>2. \A i \in 1..(n + 1) : text[i].off \in Nat /\ text[i].len \in Nat
    BY DEF Lines, OtherLine, BlankLine
  <1>3. StartsRecord(text, n + 1)
    <2>1. CASE c = EmptyRecord
      <3> SUFFICES ASSUME NEW j \in 1..n, text[j].dir = text[n + 1].dir,
                          \A k \in (j + 1)..n : text[k].dir = "blank"
                   PROVE  FALSE
        BY DEF StartsRecord, GoesOn
      <3>1. IsData(text, j)
        BY DEF IsData
      <3> QED
        BY <2>1, <3>1 DEF ParsedUpTo
    <2>2. CASE c # EmptyRecord
      <3> DEFINE m == c.to
      <3>1. c \in LineRecords /\ IsRecord(text, c, n)
        BY <2>2, FlushedParts DEF ParsedUpTo, Parsed
      <3>a. c.from \in 1..n /\ m \in c.from..n /\ m \in 1..n
        BY <3>1 DEF IsRecord, LineRecords
      <3>2. /\ IsData(text, m) /\ text[m].dir = text[c.from].dir
            /\ c.len = text[m].off + text[m].len - text[c.from].off
        <4>1. m \in c.from..c.to
          BY <3>a
        <4>2. IsData(text, m) /\ text[m].dir \in {text[c.from].dir, "blank"}
          BY <3>1, <4>1 DEF IsRecord
        <4> QED
          BY <3>1, <4>2 DEF IsRecord, IsData
      <3>3. \/ text[n + 1].dir # text[c.from].dir
            \/ text[n + 1].off # text[c.from].off + c.len
        BY <2>2 DEF Continues
      <3>4. /\ text[m].off \in Nat /\ text[m].len \in Nat /\ text[c.from].off \in Nat
            /\ text[n + 1].off \in Nat
        <4>1. m \in 1..(n + 1) /\ c.from \in 1..(n + 1) /\ n + 1 \in 1..(n + 1)
          BY <3>a
        <4> HIDE DEF c, m
        <4> QED
          BY <1>2, <4>1
      <3>5. text[m].dir # text[n + 1].dir \/ text[m].off + text[m].len # text[n + 1].off
        <4> HIDE DEF c, m
        <4> QED
          BY <3>2, <3>3, <3>4
      <3>6. \A k \in (m + 1)..n : text[k].dir = "blank"
        BY <2>2 DEF ParsedUpTo
      <3> HIDE DEF m
      <3>7. ~GoesOn(text, n + 1)
        BY <3>a, <3>2, <3>5, <3>6, GoesOnFromLast
      <3> QED
        BY <3>7 DEF StartsRecord
    <2> QED
      BY <2>1, <2>2
  <1>4. IsRecord(text, r, n + 1)
    <2>1. text[n + 1].off \in Nat /\ text[n + 1].len \in Nat
      BY <1>2
    <2>2. text[n + 1].len = text[n + 1].off + text[n + 1].len - text[n + 1].off
      BY <2>1
    <2>3. \A i \in (n + 1)..(n + 1) : i = n + 1
      OBVIOUS
    <2> QED
      BY <1>3, <2>2, <2>3 DEF IsRecord
  <1>5. new = [records |-> all, current |-> r]
    BY DEF ParseLine, IsData
  <1>6. r # EmptyRecord /\ r \in LineRecords
    <2>1. r.from # 0 /\ EmptyRecord.from = 0
      BY DEF EmptyRecord
    <2>2. r \in LineRecords
      BY <1>2 DEF LineRecords
    <2> HIDE DEF r
    <2> QED
      BY <2>1, <2>2
  <1>7. Flushed(new) = Append(all, r) /\ new.current = r
    <2> HIDE DEF all, r
    <2>1. new.records = all /\ new.current = r
      BY <1>5
    <2> HIDE DEF new
    <2> QED
      BY <2>1, <1>6 DEF Flushed
  <1>8. /\ \A k \in 1..Len(all) : IsRecord(text, all[k], n + 1)
        /\ InOrder(all)
        /\ \A k \in 1..Len(all) : all[k].to < r.from
    <2>1. \A k \in 1..Len(all) : IsRecord(text, all[k], n)
      BY DEF ParsedUpTo
    <2>2. \A k \in 1..Len(all) : IsRecord(text, all[k], n + 1) /\ all[k].to <= n
      <3> TAKE k \in 1..Len(all)
      <3>1. all[k] \in LineRecords /\ IsRecord(text, all[k], n)
        BY <1>1, <2>1
      <3> QED
        BY ONLY <3>1, n \in Nat, RecordOfMore
    <2>3. InOrder(all)
      BY DEF ParsedUpTo
    <2>4. \A k \in 1..Len(all) : all[k].to \in Nat
      BY <1>1 DEF LineRecords
    <2> HIDE DEF all
    <2> QED
      BY <2>2, <2>3, <2>4
  <1>9. Covered(text, all, n)
    BY DEF ParsedUpTo
  <1> HIDE DEF all, new
  <1>10. /\ Len(Append(all, r)) = Len(all) + 1
         /\ \A k \in 1..Len(Append(all, r)) : IsRecord(text, Append(all, r)[k], n + 1)
         /\ InOrder(Append(all, r))
    <2> HIDE DEF r
    <2>1. n + 1 \in Nat
      OBVIOUS
    <2> QED
      BY <1>1, <1>4, <1>6, <1>8, <2>1, RecordBehind
  <1>11. Covered(text, Append(all, r), n + 1)
    <2> SUFFICES ASSUME NEW i \in 1..(n + 1), IsData(text, i)
                 PROVE  \E k \in 1..Len(Append(all, r)) :
                          i \in Append(all, r)[k].from..Append(all, r)[k].to
      BY DEF Covered
    <2>1. CASE i = n + 1
      <3>1. i \in r.from..r.to
        BY <2>1
      <3> HIDE DEF r
      <3>2. Append(all, r)[Len(all) + 1] = r /\ Len(all) + 1 \in 1..Len(Append(all, r))
        BY <1>1, <1>6, <1>10
      <3> QED
        BY <3>1, <3>2
    <2>2. CASE i # n + 1
      <3>1. i \in 1..n
        BY <2>2
      <3>2. PICK k \in 1..Len(all) : i \in all[k].from..all[k].to
        BY <3>1, <1>9 DEF Covered
      <3> HIDE DEF r
      <3>3. Append(all, r)[k] = all[k] /\ k \in 1..Len(Append(all, r))
        BY <1>1, <1>6, <1>10
      <3> QED
        BY <3>2, <3>3
    <2> QED
      BY <2>1, <2>2
  <1>12. new.current # EmptyRecord /\ (new.current.to + 1)..(n + 1) = {}
    BY <1>6, <1>7
  <1>13. ParsedUpTo(text, new, n + 1)
    <2> HIDE DEF r
    <2> QED
      BY <1>7, <1>10, <1>11, <1>12 DEF ParsedUpTo
  <1> QED
    BY <1>13 DEF new

\* The whole file: its records are whole, in order, and leave no line out.
LEMMA TraceParsed ==
  ASSUME NEW text \in Seq(Lines)
  PROVE  /\ ParseTrace(text) \in Seq(LineRecords)
         /\ \A k \in 1..Len(ParseTrace(text)) : IsRecord(text, ParseTrace(text)[k], Len(text))
         /\ InOrder(ParseTrace(text))
         /\ Covered(text, ParseTrace(text), Len(text))
  <1> DEFINE n == Len(text)
  <1> DEFINE none == [records |-> << >>, current |-> EmptyRecord]
  <1> DEFINE next == [x \in Parsed \X (1..n) |-> ParseLine(text, x[1], x[2])]
  <1>0. n \in Nat
    OBVIOUS
  <1>1. \A a \in Parsed : \A i \in 1..n : ParseLine(text, a, i) \in Parsed
    BY LineTypes
  <1>2. next \in [Parsed \X (1..n) -> Parsed] /\ none \in Parsed
    <2>1. next \in [Parsed \X (1..n) -> Parsed]
      BY <1>1
    <2>2. EmptyRecord \in LineRecords
      BY DEF LineRecords, EmptyRecord
    <2> QED
      BY <2>1, <2>2 DEF Parsed
  <1>3. PICK f \in [0..n -> Parsed] : Iterates(f, next, none, n)
    <2> HIDE DEF next, n, none
    <2> QED
      BY <1>0, <1>2, Iteration
  <1>4. f = [i \in 0..n |-> IF i = 0 THEN none ELSE ParseLine(text, f[i - 1], i)]
    <2> SUFFICES ASSUME NEW i \in 0..n, i # 0 PROVE f[i] = ParseLine(text, f[i - 1], i)
      BY <1>3 DEF Iterates
    <2>1. i \in 1..n /\ i - 1 \in 0..n
      BY <1>0
    <2> QED
      BY <1>3, <2>1 DEF Iterates
  <1> DEFINE after == CHOOSE h : h = [i \in 0..n |->
                        IF i = 0 THEN none ELSE ParseLine(text, h[i - 1], i)]
  <1>5. after = [i \in 0..n |-> IF i = 0 THEN none ELSE ParseLine(text, after[i - 1], i)]
    BY <1>4
  <1>6. ParseTrace(text) = Flushed(after[n])
    BY DEF ParseTrace
  <1> HIDE DEF after, next
  <1> DEFINE G == {i \in 0..n : after[i] \in Parsed /\ ParsedUpTo(text, after[i], i)}
  <1>7. 0 \in G
    <2>1. after[0] = none
      BY <1>0, <1>5
    <2>2. Flushed(none) = << >> /\ none.current = EmptyRecord
      BY DEF Flushed
    <2>3. ParsedUpTo(text, none, 0)
      BY <2>2 DEF ParsedUpTo, InOrder, Covered
    <2> HIDE DEF none
    <2> QED
      BY <1>0, <1>2, <2>1, <2>3
  <1>8. ASSUME NEW i \in 1..n, i - 1 \in G PROVE i \in G
    <2>1. i - 1 \in 0..n /\ after[i - 1] \in Parsed /\ ParsedUpTo(text, after[i - 1], i - 1)
      BY <1>8
    <2>2. after[i] = ParseLine(text, after[i - 1], i) /\ i \in 0..n
      BY <1>0, <1>5
    <2>3. ParseLine(text, after[i - 1], i) \in Parsed
      BY <1>1, <2>1
    <2> DEFINE m == i - 1
    <2>4. m \in Nat /\ i = m + 1 /\ m + 1 \in 1..Len(text)
      OBVIOUS
    <2> HIDE DEF m, n
    <2>5. after[m] \in Parsed /\ ParsedUpTo(text, after[m], m)
      BY <2>1 DEF m
    <2>6. ParsedUpTo(text, ParseLine(text, after[m], m + 1), m + 1)
      <3>1. text[m + 1].dir \in {"none", "blank"} \/ IsData(text, m + 1)
        BY <2>4 DEF Lines, OtherLine, BlankLine, IsData
      <3> QED
        BY <2>4, <2>5, <3>1, OtherLineParsed, BlankLineParsed, NextLineParsed, FirstLineParsed
    <2> QED
      BY <2>2, <2>3, <2>4, <2>6 DEF m
  <1>9. 0..n \subseteq G
    <2> HIDE DEF G, n
    <2> QED
      BY <1>0, <1>7, <1>8, UpTo
  <1>10. n \in G
    BY <1>0, <1>9
  <1>11. Flushed(after[n]) \in Seq(LineRecords)
    BY <1>10, FlushedParts
  <1> QED
    BY <1>6, <1>10, <1>11 DEF ParsedUpTo

ReplayerInv ==
  /\ replayer \in {"idle", "parsing", "feeding"}
  /\ lines \in Seq(Lines) /\ queue \in Seq(LineRecords) /\ played \in Seq(Int)
  /\ RecordsAreWhole

\* A file that is opened.
LEMMA FileOpened ==
  ASSUME NEW file \in TraceFiles, lines' = file.lines, queue' = ParseTrace(file.lines),
         replayer' \in {"parsing", "feeding"}, played' = << >>
  PROVE  ReplayerInv'
  <1>1. file.lines \in Seq(Lines)
    BY FilesAssumption
  <1> QED
    BY <1>1, TraceParsed DEF ReplayerInv, RecordsAreWhole

\* A record that is played leaves the others as they are.
LEMMA RecordPlayed ==
  ASSUME ReplayerInv, queue # << >>, queue' = Tail(queue), UNCHANGED <<replayer, lines>>,
         NEW x \in Int, played' = Append(played, x)
  PROVE  ReplayerInv'
  <1>1. /\ queue' \in Seq(LineRecords) /\ Len(queue) \in Nat /\ Len(queue) >= 1
        /\ Len(queue') = Len(queue) - 1
        /\ \A k \in 1..Len(queue') : k + 1 \in 1..Len(queue) /\ queue'[k] = queue[k + 1]
    BY DEF ReplayerInv
  <1>2. played' \in Seq(Int) /\ played' # << >>
    BY DEF ReplayerInv
  <1>3. CASE replayer = "idle"
    BY <1>1, <1>2, <1>3 DEF ReplayerInv, RecordsAreWhole
  <1>4. CASE replayer # "idle"
    <2>1. \A k \in 1..Len(queue') : IsRecord(lines, queue'[k], Len(lines))
      BY <1>1, <1>4 DEF ReplayerInv, RecordsAreWhole
    <2>2. InOrder(queue')
      <3> SUFFICES ASSUME NEW j \in 1..Len(queue'), NEW k \in 1..Len(queue'), j < k
                   PROVE  queue'[j].to < queue'[k].from
        BY DEF InOrder
      <3>1. j + 1 < k + 1
        OBVIOUS
      <3> QED
        BY <1>1, <1>4, <3>1 DEF ReplayerInv, RecordsAreWhole, InOrder
    <2> QED
      BY <1>1, <1>2, <2>1, <2>2 DEF ReplayerInv, RecordsAreWhole
  <1> QED
    BY <1>3, <1>4

\* Every step of the replayer keeps the records whole.
LEMMA ReplayerSteps ==
  ASSUME ReplayerInv, [ReplayerNext]_replayerVars
  PROVE  ReplayerInv'
  <1>1. CASE UNCHANGED replayerVars
    BY <1>1 DEF replayerVars, ReplayerInv, RecordsAreWhole
  <1>2. ASSUME NEW file \in TraceFiles, Replay(file) \/ ReplayToSession(file) PROVE ReplayerInv'
    BY <1>2, FileOpened DEF Replay, ReplayToSession
  <1>3. ASSUME queue # << >> PROVE Head(queue) \in LineRecords /\ Head(queue).len \in Int
    <2>1. Head(queue) \in LineRecords
      BY <1>3 DEF ReplayerInv
    <2> QED
      BY <2>1 DEF LineRecords
  <1>4. CASE PlayRecord
    <2>1. PICK x \in Int : played' = Append(played, x)
      BY <1>3, <1>4 DEF PlayRecord, EnvelopeLength
    <2> QED
      BY <1>4, <2>1, RecordPlayed DEF PlayRecord
  <1>5. CASE FeedRecord
    BY <1>3, <1>5, RecordPlayed DEF FeedRecord
  <1>6. CASE ReplayReturns
    BY <1>6 DEF ReplayReturns, ReplayerInv, RecordsAreWhole
  <1> QED
    BY <1>1, <1>2, <1>4, <1>5, <1>6 DEF ReplayerNext

\* The records of every trace file are its data lines, whole and in order
\* (_parse_trace, replayer.py:404-471).
THEOREM RecordsWhole == ReplayerSpec => []RecordsAreWhole
  <1>1. ReplayerInit => ReplayerInv
    BY DEF ReplayerInit, ReplayerInv, RecordsAreWhole
  <1>2. ReplayerInv /\ [ReplayerNext]_replayerVars => ReplayerInv'
    BY ReplayerSteps
  <1>3. ReplayerInv => RecordsAreWhole
    BY DEF ReplayerInv
  <1> QED
    BY <1>1, <1>2, <1>3, PTL DEF ReplayerSpec

-----------------------------------------------------------------------------
(***************************************************************************)
(* The replay server, for any connections, traces and messages.  A task    *)
(* that ended because its trace is over never sends again, and the tasks   *)
(* that count are finitely many, whatever the number of connections.       *)
(***************************************************************************)
EventKinds == {"data", "option"}
Loaded == [recv : Seq(EventKinds), send : Nat, joins : BOOLEAN, open : BOOLEAN]
InTask == {"handshake", "loop", "read", "finally"}
Connections ==
  [pc : InTask \cup {"none", "closed"}, sent : Nat, matched : Nat, ready : BOOLEAN,
   said : Nat, why : {"none", "played", "gone", "cancelled"}]

\* A line adds an event or is joined to the last.
LEMMA LineLoaded ==
  ASSUME NEW acc \in Loaded, NEW kind \in LineKinds
  PROVE  LoadLine(acc, kind) \in Loaded
  <1>1. /\ acc.recv \in Seq(EventKinds) /\ acc.send \in Nat
        /\ acc.joins \in BOOLEAN /\ acc.open \in BOOLEAN
    BY DEF Loaded
  <1>2. ASSUME NEW what \in EventKinds
        PROVE  Append(acc.recv, what) \in Seq(EventKinds)
    BY <1>1
  <1>3. ASSUME NEW what \in EventKinds
        PROVE  [acc.recv EXCEPT ![Len(acc.recv)] = IF what = "data" THEN "data" ELSE @]
                 \in Seq(EventKinds)
    <2> DEFINE n == Len(acc.recv)
    <2> DEFINE h == [acc.recv EXCEPT ![n] = IF what = "data" THEN "data" ELSE @]
    <2>1. n \in Nat /\ acc.recv \in [1..n -> EventKinds]
      BY <1>1
    <2>2. h \in [1..n -> EventKinds]
      <3> HIDE DEF n
      <3> QED
        BY <2>1 DEF EventKinds
    <2> HIDE DEF h, n
    <2>3. h \in Seq(EventKinds)
      BY <2>1, <2>2
    <2> QED
      BY <2>3 DEF h, n
  <1> USE DEF LoadLine, LineEvent, EventKinds, Loaded
  <1>4. CASE kind = "read"
    BY <1>4
  <1>5. CASE kind = "other"
    BY <1>5
  <1>6. CASE kind = "client"
    <2>1. LoadLine(acc, kind) = [acc EXCEPT !.send = acc.send + 1, !.joins = FALSE, !.open = FALSE]
      BY <1>6
    <2>2. acc.send + 1 \in Nat
      BY <1>1
    <2> HIDE DEF LoadLine
    <2> QED
      BY <2>1, <2>2
  <1>7. CASE kind = "host"
    BY <1>1, <1>2, <1>3, <1>7
  <1>8. CASE kind = "option"
    BY <1>1, <1>2, <1>3, <1>8
  <1> QED
    BY <1>4, <1>5, <1>6, <1>7, <1>8 DEF LineKinds

\* A trace is loaded as a list of the host's events and a number of the client's.
LEMMA TraceLoaded ==
  ASSUME NEW text \in Seq(LineKinds)
  PROVE  LoadTrace(text) \in Loaded
  <1> DEFINE n == Len(text)
  <1> DEFINE next == [x \in Loaded \X (1..n) |-> LoadLine(x[1], text[x[2]])]
  <1>0. n \in Nat
    OBVIOUS
  <1>1. \A a \in Loaded : \A i \in 1..n : LoadLine(a, text[i]) \in Loaded
    BY LineLoaded
  <1>2. next \in [Loaded \X (1..n) -> Loaded] /\ NoEvents \in Loaded
    BY <1>1 DEF Loaded, NoEvents
  <1>3. PICK f \in [0..n -> Loaded] : Iterates(f, next, NoEvents, n)
    <2> HIDE DEF next, n
    <2> QED
      BY <1>0, <1>2, Iteration
  <1>4. f = [i \in 0..n |-> IF i = 0 THEN NoEvents ELSE LoadLine(f[i - 1], text[i])]
    <2> SUFFICES ASSUME NEW i \in 0..n, i # 0 PROVE f[i] = LoadLine(f[i - 1], text[i])
      BY <1>3 DEF Iterates
    <2>1. i \in 1..n /\ i - 1 \in 0..n
      BY <1>0
    <2> QED
      BY <1>3, <2>1 DEF Iterates
  <1> DEFINE after == CHOOSE h : h = [i \in 0..n |->
                        IF i = 0 THEN NoEvents ELSE LoadLine(h[i - 1], text[i])]
  <1>5. after = [i \in 0..n |-> IF i = 0 THEN NoEvents ELSE LoadLine(after[i - 1], text[i])]
    BY <1>4
  <1>6. LoadTrace(text) = after[n]
    BY DEF LoadTrace
  <1> HIDE DEF after, next
  <1> DEFINE G == {i \in 0..n : after[i] \in Loaded}
  <1>7. 0 \in G
    BY <1>0, <1>2, <1>5
  <1>8. ASSUME NEW i \in 1..n, i - 1 \in G PROVE i \in G
    <2>1. i \in 0..n /\ i # 0 /\ after[i - 1] \in Loaded
      BY <1>0, <1>8
    <2>2. after[i] = LoadLine(after[i - 1], text[i])
      <3> HIDE DEF n
      <3> QED
        BY <1>5, <2>1
    <2> QED
      BY <1>1, <2>1, <2>2
  <1>9. 0..n \subseteq G
    <2> HIDE DEF G, n
    <2> QED
      BY <1>0, <1>7, <1>8, UpTo
  <1> QED
    BY <1>0, <1>6, <1>9

Running == {c \in Conns : conn[c].pc \in InTask}

ReplayTypeOK ==
  /\ trace \in Seq(EventKinds) /\ toClient \in Nat
  /\ compat \in BOOLEAN /\ looping \in BOOLEAN
  /\ server \in {"serving", "stopping", "closed"}
  /\ conn \in [Conns -> Connections]

\* Progress of one connection in a trace of n events.
Played(r, n) ==
  /\ r.sent <= n
  /\ r.why = "played" => r.sent = n /\ r.pc \in {"finally", "closed"}

ReplayInv ==
  /\ ReplayTypeOK
  /\ IsFiniteSet(Running) /\ active = Cardinality(Running)
  /\ \A c \in Conns : Played(conn[c], Len(trace))

\* The next event sent is one of the trace.
LEMMA NextEvent ==
  ASSUME ReplayInv, NEW n \in Nat, n <= Len(trace)
  PROVE  SentNext(n) \in Nat /\ SentNext(n) <= Len(trace)
  <1> DEFINE Unsent == {i \in (n + 1)..Len(trace) : ~(compat /\ trace[i] = "option")}
  <1>1. Len(trace) \in Nat
    BY DEF ReplayInv, ReplayTypeOK
  <1>2. CASE Unsent = {}
    BY <1>1, <1>2 DEF SentNext
  <1>3. CASE Unsent # {}
    <2>1. Unsent \subseteq Nat
      BY <1>1
    <2>2. \E i \in Unsent : \A j \in Unsent : i <= j
      <3> HIDE DEF Unsent
      <3> QED
        BY <1>3, <2>1, Least
    <2> DEFINE least == CHOOSE i \in Unsent : \A j \in Unsent : i <= j
    <2>3. least \in Unsent
      BY <2>2
    <2>4. SentNext(n) = least
      BY <1>3 DEF SentNext
    <2> QED
      BY <1>1, <2>3, <2>4
  <1> QED
    BY <1>2, <1>3

\* A step of one connection that neither starts nor ends its task.
LEMMA TaskGoesOn ==
  ASSUME ReplayInv, NEW c \in Conns, NEW r \in Connections,
         conn' = [conn EXCEPT ![c] = r], Played(r, Len(trace)),
         conn[c].pc \in InTask, r.pc \in InTask,
         UNCHANGED <<trace, toClient, compat, looping, server, active>>
  PROVE  ReplayInv'
  <1>1. conn' \in [Conns -> Connections] /\ conn'[c] = r
    BY DEF ReplayInv, ReplayTypeOK
  <1>2. \A d \in Conns : d # c => conn'[d] = conn[d]
    BY DEF ReplayInv, ReplayTypeOK
  <1>3. Running' = Running
    BY <1>1, <1>2 DEF Running
  <1> QED
    BY <1>1, <1>2, <1>3 DEF ReplayInv, ReplayTypeOK

\* Accepted: one task more.
LEMMA TaskStarts ==
  ASSUME ReplayInv, NEW c \in Conns, Accept(c)
  PROVE  ReplayInv'
  <1> DEFINE p == IF compat THEN "handshake" ELSE "loop"
  <1>1. conn[c] \in Connections /\ conn[c].pc = "none" /\ c \notin Running
    BY DEF ReplayInv, ReplayTypeOK, Accept, Running, InTask
  <1>2. conn' = [conn EXCEPT ![c].pc = p] /\ p \in InTask
    BY DEF Accept, Goes, InTask
  <1> DEFINE r == [conn[c] EXCEPT !.pc = p]
  <1>3. r \in Connections /\ r.pc = p /\ r.sent = conn[c].sent /\ r.why = conn[c].why
    BY <1>1, <1>2 DEF Connections
  <1>4. conn' = [conn EXCEPT ![c] = r]
    BY <1>2
  <1> HIDE DEF p, r
  <1>5. /\ conn' \in [Conns -> Connections] /\ conn'[c] = r
        /\ \A d \in Conns : d # c => conn'[d] = conn[d]
    BY <1>3, <1>4 DEF ReplayInv, ReplayTypeOK
  <1>6. Running' = Running \cup {c}
    BY <1>2, <1>3, <1>5 DEF Running
  <1>7. IsFiniteSet(Running') /\ Cardinality(Running') = Cardinality(Running) + 1
    BY <1>1, <1>6, FS_AddElement DEF ReplayInv
  <1>8. Played(r, Len(trace))
    BY <1>1, <1>3 DEF ReplayInv, Played
  <1>9. \A d \in Conns : Played(conn'[d], Len(trace))
    BY <1>5, <1>8 DEF ReplayInv
  <1> QED
    BY <1>5, <1>7, <1>9 DEF ReplayInv, ReplayTypeOK, Accept

\* The finally clause: one task less.
LEMMA TaskEnds ==
  ASSUME ReplayInv, NEW c \in Conns, Finally(c)
  PROVE  ReplayInv'
  <1>1. conn[c] \in Connections /\ conn[c].pc = "finally" /\ c \in Running
    BY DEF ReplayInv, ReplayTypeOK, Finally, Running, InTask
  <1> DEFINE r == [conn[c] EXCEPT !.pc = "closed"]
  <1>3. r \in Connections /\ r.pc = "closed" /\ r.sent = conn[c].sent /\ r.why = conn[c].why
    BY <1>1 DEF Connections
  <1>4. conn' = [conn EXCEPT ![c] = r]
    BY DEF Finally, Goes
  <1> HIDE DEF r
  <1>5. /\ conn' \in [Conns -> Connections] /\ conn'[c] = r
        /\ \A d \in Conns : d # c => conn'[d] = conn[d]
    BY <1>3, <1>4 DEF ReplayInv, ReplayTypeOK
  <1>6. Running' = Running \ {c}
    BY <1>3, <1>5 DEF Running, InTask
  <1>7. IsFiniteSet(Running') /\ Cardinality(Running') = Cardinality(Running) - 1
    BY <1>1, <1>6, FS_RemoveElement DEF ReplayInv
  <1>8. Played(r, Len(trace))
    BY <1>1, <1>3 DEF ReplayInv, Played
  <1>9. \A d \in Conns : Played(conn'[d], Len(trace))
    BY <1>5, <1>8 DEF ReplayInv
  <1> QED
    BY <1>5, <1>7, <1>9 DEF ReplayInv, ReplayTypeOK, Finally

\* The steps of a connection between the two.
LEMMA TaskSteps ==
  ASSUME ReplayInv, NEW c \in Conns, NEW answers \in BOOLEAN,
         SendHandshake(c) \/ SendEvent(c) \/ ReadTimeout(c) \/ ClientGone(c)
           \/ ClientData(c, answers)
  PROVE  ReplayInv'
  <1>1. /\ conn \in [Conns -> Connections] /\ conn[c] \in Connections
        /\ Played(conn[c], Len(trace)) /\ Len(trace) \in Nat /\ toClient \in Nat
        /\ compat \in BOOLEAN
    BY DEF ReplayInv, ReplayTypeOK
  <1>2. conn[c].sent \in Nat /\ conn[c].said \in Nat /\ conn[c].matched \in Nat /\ conn[c].ready \in BOOLEAN
    BY <1>1 DEF Connections
  <1>3. CASE SendHandshake(c)
    <2> DEFINE r == [conn[c] EXCEPT !.pc = "loop"]
    <2>1. conn' = [conn EXCEPT ![c] = r] /\ r \in Connections
      BY <1>1, <1>3 DEF SendHandshake, Goes, Connections, InTask
    <2>2. /\ r.pc = "loop" /\ r.sent = conn[c].sent /\ r.why = conn[c].why
          /\ conn[c].pc = "handshake"
      BY <1>1, <1>3 DEF SendHandshake, Connections
    <2> HIDE DEF r
    <2> QED
      BY <1>1, <1>3, <2>1, <2>2, TaskGoesOn DEF SendHandshake, Played, InTask
  <1>4. CASE SendEvent(c)
    <2> DEFINE r == [conn[c] EXCEPT !.sent = SentNext(conn[c].sent), !.pc = "read"]
    <2>1. SentNext(conn[c].sent) \in Nat /\ SentNext(conn[c].sent) <= Len(trace)
      BY <1>1, <1>2, NextEvent DEF Played
    <2>2. conn' = [conn EXCEPT ![c] = r]
      BY <1>4 DEF SendEvent
    <2>3. /\ r \in Connections /\ r.pc = "read" /\ r.sent <= Len(trace) /\ r.why = conn[c].why
          /\ conn[c].pc = "loop"
      BY <1>1, <1>4, <2>1 DEF SendEvent, Connections, InTask
    <2> HIDE DEF r
    <2> QED
      BY <1>1, <1>4, <2>2, <2>3, TaskGoesOn DEF SendEvent, Played, InTask
  <1>5. CASE ReadTimeout(c)
    <2>0. conn[c].pc = "read" /\ conn[c].why # "played"
      BY <1>1, <1>5 DEF ReadTimeout, Played
    <2>1. CASE conn[c].sent < Len(trace) \/ (compat /\ ~conn[c].ready)
      <3> DEFINE r == [conn[c] EXCEPT !.pc = "loop"]
      <3>1. conn' = [conn EXCEPT ![c] = r] /\ r \in Connections
        BY <1>1, <1>5, <2>1 DEF ReadTimeout, Connections, InTask
      <3>2. r.pc = "loop" /\ r.sent = conn[c].sent /\ r.why = conn[c].why
        BY <1>1 DEF Connections
      <3> HIDE DEF r
      <3> QED
        BY <1>1, <1>5, <2>0, <3>1, <3>2, TaskGoesOn DEF ReadTimeout, Played, InTask
    <2>2. CASE ~(conn[c].sent < Len(trace) \/ (compat /\ ~conn[c].ready)) /\ looping
      <3> DEFINE r == [conn[c] EXCEPT !.pc = "loop", !.sent = 0, !.matched = 0]
      <3>1. conn' = [conn EXCEPT ![c] = r]
        BY <1>5, <2>2 DEF ReadTimeout
      <3>2. r \in Connections /\ r.pc = "loop" /\ r.sent = 0 /\ r.why = conn[c].why
        BY <1>1 DEF Connections, InTask
      <3> HIDE DEF r
      <3>3. Played(r, Len(trace)) /\ conn[c].pc \in InTask /\ r.pc \in InTask
        BY <1>1, <2>0, <3>2 DEF Played, InTask
      <3>4. UNCHANGED <<trace, toClient, compat, looping, server, active>>
        BY <1>5 DEF ReadTimeout
      <3> QED
        BY <3>1, <3>2, <3>3, <3>4, TaskGoesOn
    <2>3. CASE ~(conn[c].sent < Len(trace) \/ (compat /\ ~conn[c].ready)) /\ ~looping
      <3> DEFINE r == [conn[c] EXCEPT !.pc = "finally", !.why = "played"]
      <3>1. conn' = [conn EXCEPT ![c] = r]
        BY <1>5, <2>3 DEF ReadTimeout
      <3>2. r \in Connections /\ r.pc = "finally" /\ r.sent = conn[c].sent
        BY <1>1 DEF Connections, InTask
      <3>3. conn[c].sent = Len(trace)
        BY <1>1, <1>2, <2>3 DEF Played
      <3> HIDE DEF r
      <3> QED
        BY <1>1, <1>5, <2>0, <3>1, <3>2, <3>3, TaskGoesOn DEF ReadTimeout, Played, InTask
    <2> QED
      BY <2>1, <2>2, <2>3
  <1>6. CASE ClientGone(c)
    <2> DEFINE r == [conn[c] EXCEPT !.pc = "finally", !.why = "gone"]
    <2>1. conn' = [conn EXCEPT ![c] = r] /\ conn[c].pc \in InTask
      BY <1>6 DEF ClientGone, InTask
    <2>2. r \in Connections /\ r.pc = "finally" /\ r.sent = conn[c].sent /\ r.why = "gone"
      BY <1>1 DEF Connections, InTask
    <2> HIDE DEF r
    <2> QED
      BY <1>1, <1>6, <2>1, <2>2, TaskGoesOn DEF ClientGone, Played, InTask
  <1>7. CASE ClientData(c, answers)
    <2> DEFINE ready == HandleCompat(c, answers)
    <2> DEFINE matched == IF conn[c].matched < toClient /\ compat = conn[c].ready
                            THEN conn[c].matched + 1 ELSE conn[c].matched
    <2> DEFINE r == [conn[c] EXCEPT !.pc = "loop", !.said = conn[c].said + 1,
                                    !.ready = ready, !.matched = matched]
    <2>1. conn' = [conn EXCEPT ![c] = r] /\ conn[c].pc = "read"
      BY <1>7 DEF ClientData
    <2>2. ready \in BOOLEAN /\ matched \in Nat /\ conn[c].said + 1 \in Nat
      BY <1>1, <1>2 DEF HandleCompat
    <2> HIDE DEF ready, matched
    <2>3. r \in Connections /\ r.pc = "loop" /\ r.sent = conn[c].sent /\ r.why = conn[c].why
      BY <1>1, <2>2 DEF Connections, InTask
    <2> HIDE DEF r
    <2> QED
      BY <1>1, <1>7, <2>1, <2>3, TaskGoesOn DEF ClientData, Played, InTask
  <1> QED
    BY <1>3, <1>4, <1>5, <1>6, <1>7

\* The shutdown cancels the tasks; each still has its finally clause to run.
LEMMA TasksCancelled ==
  ASSUME ReplayInv, ServerStops
  PROVE  ReplayInv'
  <1> DEFINE live == {"handshake", "loop", "read"}
  <1> DEFINE new == [c \in Conns |->
               IF conn[c].pc \in live
               THEN [conn[c] EXCEPT !.pc = "finally", !.why = "cancelled"] ELSE conn[c]]
  <1>1. conn' = new
    BY DEF ServerStops
  <1>2. ASSUME NEW c \in Conns
        PROVE  /\ new[c] \in Connections /\ Played(new[c], Len(trace))
               /\ new[c].pc \in InTask <=> conn[c].pc \in InTask
    <2>1. conn[c] \in Connections /\ Played(conn[c], Len(trace))
      BY DEF ReplayInv, ReplayTypeOK
    <2>2. CASE conn[c].pc \in live
      <3> DEFINE r == [conn[c] EXCEPT !.pc = "finally", !.why = "cancelled"]
      <3>1. r \in Connections /\ r.pc = "finally" /\ r.sent = conn[c].sent /\ r.why = "cancelled"
        BY <2>1 DEF Connections, InTask
      <3>2. new[c] = r
        BY <2>2
      <3> HIDE DEF r, new
      <3> QED
        BY <2>1, <2>2, <3>1, <3>2 DEF Played, InTask
    <2>3. CASE conn[c].pc \notin live
      BY <2>1, <2>3
    <2> QED
      BY <2>2, <2>3
  <1>3. new \in [Conns -> Connections]
    BY <1>2
  <1> HIDE DEF new
  <1>4. Running' = Running
    BY <1>1, <1>2 DEF Running
  <1>5. UNCHANGED <<trace, toClient, compat, looping, active>> /\ server' = "stopping"
    BY DEF ServerStops
  <1> QED
    BY <1>1, <1>2, <1>3, <1>4, <1>5 DEF ReplayInv, ReplayTypeOK

\* Nothing runs before the first connection.
LEMMA ReplayStarts ==
  ASSUME ReplayInit
  PROVE  ReplayInv
  <1>1. PICK text \in Traces : trace = LoadTrace(text).recv /\ toClient = LoadTrace(text).send
    BY DEF ReplayInit
  <1>2. LoadTrace(text) \in Loaded
    BY TraceLoaded, TracesAssumption
  <1>3. trace \in Seq(EventKinds) /\ toClient \in Nat /\ Len(trace) \in Nat
    BY <1>1, <1>2 DEF Loaded
  <1>4. NoConnection \in Connections /\ Played(NoConnection, Len(trace))
    BY <1>3 DEF NoConnection, Connections, InTask, Played
  <1>5. conn = [c \in Conns |-> NoConnection]
    BY DEF ReplayInit
  <1>6. Running = {}
    BY <1>5 DEF Running, NoConnection, InTask
  <1>7. IsFiniteSet(Running) /\ Cardinality(Running) = 0
    BY <1>6, FS_EmptySet
  <1>8. conn \in [Conns -> Connections] /\ \A c \in Conns : Played(conn[c], Len(trace))
    BY <1>4, <1>5
  <1> QED
    BY <1>3, <1>7, <1>8 DEF ReplayInit, ReplayInv, ReplayTypeOK

\* Connections are counted however they end, and a trace that is over was sent
\* completely (TraceReplayServer.handle_connection, trace_replay_server.py:234).
THEOREM TracesPlayed == ReplaySpec => []TracesArePlayed
  <1>1. ReplayInit => ReplayInv
    BY ReplayStarts
  <1>2. ReplayInv /\ [ReplayNext]_replayVars => ReplayInv'
    <2> SUFFICES ASSUME ReplayInv, [ReplayNext]_replayVars PROVE ReplayInv'
      OBVIOUS
    <2>1. CASE UNCHANGED replayVars
      BY <2>1 DEF replayVars, ReplayInv, ReplayTypeOK, Running
    <2>2. ASSUME NEW c \in Conns, Accept(c) \/ SendHandshake(c) \/ Yield(c) \/ ReplayStep(c) \/ ClientGone(c)
          PROVE  ReplayInv'
      BY <2>1, <2>2, TaskStarts, TaskSteps, TaskEnds DEF Yield, ReplayStep
    <2>3. ASSUME NEW c \in Conns, NEW answers \in BOOLEAN, ClientData(c, answers)
          PROVE  ReplayInv'
      BY <2>3, TaskSteps
    <2>4. CASE StopEnds
      BY <2>4 DEF StopEnds, ReplayInv, ReplayTypeOK, Running
    <2> QED
      BY <2>1, <2>2, <2>3, <2>4, TasksCancelled DEF ReplayNext
  <1>3. ReplayInv => TracesArePlayed
    BY DEF ReplayInv, TracesArePlayed, Running, InTask, Played
  <1> QED
    BY <1>1, <1>2, <1>3, PTL DEF ReplaySpec

-----------------------------------------------------------------------------
(***************************************************************************)
(* The Telnet scanner, for any streams and any cuts.                       *)
(*                                                                         *)
(* A scan is a run of the loop, which gets stuck at the end of the data or *)
(* at an unfinished command.  Two runs over the same data that are stuck   *)
(* have the same result, so it is enough to put one together for all that  *)
(* was read: from the scan of the earlier reads, and from the scan of what *)
(* they left with the next read behind it.                                 *)
(***************************************************************************)
StreamItems == [next : Nat, out : Seq(StreamBytes), cmd : Seq(Seq(StreamBytes))]
ScanStates(data) ==
  {s \in [at : Nat, out : Seq(StreamBytes), cmds : Seq(Seq(StreamBytes))] :
     1 <= s.at /\ s.at <= Len(data) + 1}

\* v has u at an offset.
Embeds(u, v, o) == Len(u) + o <= Len(v) /\ \A j \in 1..Len(u) : v[j + o] = u[j]

\* The end of a subnegotiation is the first one.
LEMMA EndIsFirst ==
  ASSUME NEW data \in Seq(StreamBytes), NEW i \in 1..Len(data),
         SubnegotiationEnds(data, i) # {}
  PROVE  /\ Min(SubnegotiationEnds(data, i)) \in SubnegotiationEnds(data, i)
         /\ \A j \in SubnegotiationEnds(data, i) : Min(SubnegotiationEnds(data, i)) <= j
  <1> DEFINE E == SubnegotiationEnds(data, i)
  <1>1. E \subseteq Nat
    BY DEF SubnegotiationEnds
  <1> HIDE DEF E
  <1>2. PICK x \in E : \A y \in E : x <= y
    BY <1>1, Least DEF E
  <1>3. Min(E) \in E /\ \A y \in E : Min(E) <= y
    BY <1>2 DEF Min
  <1> QED
    BY <1>3 DEF E

\* And it is the only member that is not above another.
LEMMA MinIs ==
  ASSUME NEW E, E \subseteq Nat, NEW m \in E, \A y \in E : m <= y
  PROVE  Min(E) = m
  <1>1. Min(E) \in E /\ \A y \in E : Min(E) <= y
    BY DEF Min
  <1>2. Min(E) <= m /\ m <= Min(E) /\ m \in Nat /\ Min(E) \in Nat
    BY <1>1
  <1> QED
    BY <1>2

\* A part that is embedded is found at its place.
LEMMA PartEmbedded ==
  ASSUME NEW u \in Seq(StreamBytes), NEW v \in Seq(StreamBytes), NEW o \in Nat, Embeds(u, v, o),
         NEW i \in Nat, i >= 1, NEW k \in Int, k <= Len(u)
  PROVE  SubSeq(v, i + o, k + o) = SubSeq(u, i, k) /\ SubSeq(u, i, k) \in Seq(StreamBytes)
  <1>1. \A j \in i..k : j \in 1..Len(u) /\ u[j] \in StreamBytes /\ v[j + o] = u[j]
    BY DEF Embeds
  <1>2. \A j \in (i + o)..(k + o) : v[j] \in StreamBytes
    <2> SUFFICES ASSUME NEW j \in (i + o)..(k + o) PROVE v[j] \in StreamBytes
      OBVIOUS
    <2>1. j - o \in i..k /\ (j - o) + o = j
      OBVIOUS
    <2> QED
      BY <1>1, <2>1
  <1> DEFINE s == SubSeq(u, i, k)
  <1> DEFINE t == SubSeq(v, i + o, k + o)
  <1>3. /\ s \in Seq(StreamBytes) /\ Len(s) = IF i <= k THEN k - i + 1 ELSE 0
        /\ \A j \in 1..(k - i + 1) : s[j] = u[i + j - 1]
    BY <1>1, SubSeqProperties
  <1>4. /\ t \in Seq(StreamBytes)
        /\ Len(t) = IF i + o <= k + o THEN (k + o) - (i + o) + 1 ELSE 0
        /\ \A j \in 1..((k + o) - (i + o) + 1) : t[j] = v[(i + o) + j - 1]
    BY <1>2, SubSeqProperties
  <1> HIDE DEF s, t
  <1>5. Len(s) = Len(t)
    BY <1>3, <1>4
  <1>6. ASSUME NEW j \in 1..Len(s) PROVE t[j] = s[j]
    <2>1. j \in 1..(k - i + 1) /\ j \in 1..((k + o) - (i + o) + 1)
      BY <1>3
    <2>2. i + j - 1 \in i..k /\ (i + o) + j - 1 = (i + j - 1) + o
      BY <2>1
    <2> QED
      BY <1>1, <1>3, <1>4, <2>1, <2>2
  <1>7. s = t
    BY <1>3, <1>4, <1>5, <1>6, SeqEqual
  <1> QED
    BY <1>3, <1>7 DEF s, t

\* What the loop finds at a position, and that it goes on behind it.
LEMMA ItemTypes ==
  ASSUME NEW data \in Seq(StreamBytes), NEW i \in 1..Len(data), ~Incomplete(data, i)
  PROVE  /\ Item(data, i) \in StreamItems
         /\ Item(data, i).next > i /\ Item(data, i).next <= Len(data) + 1
  <1>0. data[i] \in StreamBytes /\ Len(data) \in Nat
    OBVIOUS
  <1>1. CASE data[i] # "IAC"
    <2>1. Item(data, i) = [next |-> i + 1, out |-> <<data[i]>>, cmd |-> << >>]
      BY <1>1 DEF Item
    <2> QED
      BY <1>0, <2>1 DEF StreamItems
  <1>2. CASE data[i] = "IAC"
    <2>1. i + 1 \in 1..Len(data) /\ data[i + 1] \in StreamBytes
      BY <1>2 DEF Incomplete
    <2>2. CASE data[i + 1] = "IAC"
      <3>1. Item(data, i) = [next |-> i + 2, out |-> <<"IAC">>, cmd |-> << >>]
        BY <1>2, <2>2 DEF Item
      <3> QED
        BY <2>1, <3>1 DEF StreamItems, StreamBytes
    <2>3. CASE data[i + 1] = "DO"
      <3>1. i + 2 \in 1..Len(data) /\ data[i + 2] \in StreamBytes
        BY <1>2, <2>3 DEF Incomplete
      <3>2. Item(data, i) = [next |-> i + 3, out |-> << >>, cmd |-> << <<"DO", data[i + 2]>> >>]
        BY <1>2, <2>3 DEF Item
      <3>3. <<"DO", data[i + 2]>> \in Seq(StreamBytes)
        BY <3>1 DEF StreamBytes
      <3> DEFINE c == <<"DO", data[i + 2]>>
      <3> HIDE DEF c
      <3>4. <<c>> \in Seq(Seq(StreamBytes))
        BY <3>3 DEF c
      <3> QED
        BY <3>1, <3>2, <3>4 DEF StreamItems, c
    <2>4. CASE data[i + 1] = "SB"
      <3> DEFINE E == SubnegotiationEnds(data, i)
      <3> DEFINE se == Min(E)
      <3>1. E # {}
        BY <1>2, <2>4 DEF Incomplete
      <3>2. se \in (i + 2)..(Len(data) - 1)
        BY <3>1, EndIsFirst DEF SubnegotiationEnds
      <3> DEFINE c == <<"SB", data[i + 2]>> \o SubSeq(data, i + 3, se - 1)
      <3>3. Item(data, i) = [next |-> se + 2, out |-> << >>, cmd |-> <<c>>]
        BY <1>2, <2>4 DEF Item
      <3>4. c \in Seq(StreamBytes)
        <4> HIDE DEF se
        <4>1. i + 2 \in 1..Len(data) /\ data[i + 2] \in StreamBytes
          BY <3>2
        <4>2. SubSeq(data, i + 3, se - 1) \in Seq(StreamBytes)
          <5>1. \A j \in (i + 3)..(se - 1) : data[j] \in StreamBytes
            BY <3>2
          <5>2. i + 3 \in Int /\ se - 1 \in Int
            BY <3>2
          <5> QED
            BY <5>1, <5>2, SubSeqProperties
        <4>3. <<"SB", data[i + 2]>> \in Seq(StreamBytes)
          BY <4>1 DEF StreamBytes
        <4> QED
          BY <4>2, <4>3, ConcatProperties
      <3> HIDE DEF c, se
      <3>5. <<c>> \in Seq(Seq(StreamBytes))
        BY <3>4
      <3> QED
        BY <3>2, <3>3, <3>5 DEF StreamItems
    <2>5. CASE data[i + 1] \notin {"IAC", "DO", "SB"}
      <3>1. Item(data, i) = [next |-> i + 2, out |-> << >>, cmd |-> << <<data[i + 1]>> >>]
        BY <1>2, <2>5 DEF Item
      <3> DEFINE c == <<data[i + 1]>>
      <3>2. c \in Seq(StreamBytes)
        BY <2>1
      <3> HIDE DEF c
      <3>3. <<c>> \in Seq(Seq(StreamBytes))
        BY <3>2
      <3> QED
        BY <2>1, <3>1, <3>3 DEF StreamItems, c
    <2> QED
      BY <2>2, <2>3, <2>4, <2>5
  <1> QED
    BY <1>1, <1>2

\* A subnegotiation that ends in u ends at the same place of v.
LEMMA SameEnd ==
  ASSUME NEW u \in Seq(StreamBytes), NEW v \in Seq(StreamBytes), NEW o \in Nat, Embeds(u, v, o),
         NEW i \in 1..Len(u), SubnegotiationEnds(u, i) # {}
  PROVE  /\ SubnegotiationEnds(v, i + o) # {}
         /\ Min(SubnegotiationEnds(v, i + o)) = Min(SubnegotiationEnds(u, i)) + o
  <1> DEFINE E == SubnegotiationEnds(u, i)
  <1> DEFINE F == SubnegotiationEnds(v, i + o)
  <1> DEFINE m == Min(E)
  <1>0. Len(u) \in Nat /\ Len(v) \in Nat /\ Len(u) + o <= Len(v) /\ \A j \in 1..Len(u) : v[j + o] = u[j]
    BY DEF Embeds
  <1>1. m \in E /\ \A j \in E : m <= j
    BY EndIsFirst
  <1> HIDE DEF m
  <1>2. m \in (i + 2)..(Len(u) - 1) /\ u[m] = "IAC" /\ u[m + 1] = "SE"
    BY <1>1 DEF SubnegotiationEnds
  <1>3. m \in 1..Len(u) /\ m + 1 \in 1..Len(u) /\ (m + 1) + o = (m + o) + 1
    BY <1>0, <1>2
  <1>4. v[m + o] = "IAC" /\ v[(m + o) + 1] = "SE"
    BY <1>0, <1>2, <1>3
  <1>5. m + o \in ((i + o) + 2)..(Len(v) - 1)
    BY <1>0, <1>2
  <1>6. m + o \in F
    BY <1>4, <1>5 DEF SubnegotiationEnds
  <1>7. ASSUME NEW y \in F PROVE m + o <= y
    <2>1. y \in ((i + o) + 2)..(Len(v) - 1) /\ v[y] = "IAC" /\ v[y + 1] = "SE"
      BY DEF SubnegotiationEnds
    <2> SUFFICES ASSUME y < m + o PROVE FALSE
      BY <1>2, <2>1
    <2> DEFINE x == y - o
    <2>2. /\ x \in (i + 2)..(Len(u) - 1) /\ x \in 1..Len(u) /\ x + 1 \in 1..Len(u)
          /\ x + o = y /\ (x + 1) + o = y + 1 /\ x < m
      BY <1>0, <1>2, <2>1
    <2> HIDE DEF x
    <2>3. u[x] = "IAC" /\ u[x + 1] = "SE"
      BY <1>0, <2>1, <2>2
    <2>4. x \in E
      BY <2>2, <2>3 DEF SubnegotiationEnds
    <2> QED
      BY <1>1, <1>2, <2>2, <2>4
  <1>8. F \subseteq Nat
    BY DEF SubnegotiationEnds
  <1> HIDE DEF E, F
  <1>9. Min(F) = m + o
    BY <1>6, <1>7, <1>8, MinIs
  <1> QED
    BY <1>6, <1>9 DEF E, F, m

\* What is complete in u is complete and the same in v.
LEMMA SameItem ==
  ASSUME NEW u \in Seq(StreamBytes), NEW v \in Seq(StreamBytes), NEW o \in Nat, Embeds(u, v, o),
         NEW i \in 1..Len(u), ~Incomplete(u, i)
  PROVE  /\ ~Incomplete(v, i + o)
         /\ Item(v, i + o) = [next |-> Item(u, i).next + o, out |-> Item(u, i).out, cmd |-> Item(u, i).cmd]
  <1>0. /\ Len(u) \in Nat /\ Len(v) \in Nat /\ Len(u) + o <= Len(v)
        /\ v[i + o] = u[i] /\ i + o \in Nat
    BY DEF Embeds
  <1>a. ASSUME NEW k \in Nat, i + k <= Len(u) PROVE v[(i + o) + k] = u[i + k]
    <2>1. i + k \in 1..Len(u) /\ (i + k) + o = (i + o) + k
      BY <1>a
    <2> QED
      BY <2>1 DEF Embeds
  <1>1. CASE u[i] # "IAC"
    <2>1. Item(u, i) = [next |-> i + 1, out |-> <<u[i]>>, cmd |-> << >>]
      BY <1>1 DEF Item
    <2>2. Item(v, i + o) = [next |-> (i + o) + 1, out |-> <<v[i + o]>>, cmd |-> << >>]
      BY <1>0, <1>1 DEF Item
    <2>3. ~Incomplete(v, i + o)
      BY <1>0, <1>1 DEF Incomplete
    <2>4. (i + o) + 1 = (i + 1) + o
      OBVIOUS
    <2> QED
      BY <1>0, <2>1, <2>2, <2>3, <2>4
  <1>2. CASE u[i] = "IAC"
    <2>1. i + 1 <= Len(u) /\ v[(i + o) + 1] = u[i + 1] /\ v[i + o] = "IAC" /\ i + o # Len(v)
      <3>1. i + 1 <= Len(u)
        BY <1>2 DEF Incomplete
      <3> QED
        BY <1>0, <1>a, <1>2, <3>1
    <2>2. CASE u[i + 1] = "IAC"
      <3>1. Item(u, i) = [next |-> i + 2, out |-> <<"IAC">>, cmd |-> << >>]
        BY <1>2, <2>2 DEF Item
      <3>2. Item(v, i + o) = [next |-> (i + o) + 2, out |-> <<"IAC">>, cmd |-> << >>]
        BY <2>1, <2>2 DEF Item
      <3>3. ~Incomplete(v, i + o)
        BY <2>1, <2>2 DEF Incomplete
      <3>4. (i + o) + 2 = (i + 2) + o
        OBVIOUS
      <3> QED
        BY <3>1, <3>2, <3>3, <3>4
    <2>3. CASE u[i + 1] = "DO"
      <3>1. i + 2 <= Len(u)
        BY <1>0, <1>2, <2>3 DEF Incomplete
      <3>2. Item(u, i) = [next |-> i + 3, out |-> << >>, cmd |-> << <<"DO", u[i + 2]>> >>]
        BY <1>2, <2>3 DEF Item
      <3>3. Item(v, i + o) = [next |-> (i + o) + 3, out |-> << >>, cmd |-> << <<"DO", v[(i + o) + 2]>> >>]
        BY <2>1, <2>3 DEF Item
      <3>4. v[(i + o) + 2] = u[i + 2]
        BY <1>a, <3>1
      <3>5. ~Incomplete(v, i + o)
        <4>1. ~((i + o) + 2 > Len(v))
          BY <1>0, <3>1
        <4> QED
          BY <2>1, <2>3, <4>1 DEF Incomplete
      <3>6. (i + o) + 3 = (i + 3) + o
        OBVIOUS
      <3> DEFINE c == << <<"DO", u[i + 2]>> >>
      <3> DEFINE d == << <<"DO", v[(i + o) + 2]>> >>
      <3>7. d = c
        BY <3>4
      <3> HIDE DEF c, d
      <3>8. Item(u, i) = [next |-> i + 3, out |-> << >>, cmd |-> c]
        BY <3>2 DEF c
      <3>9. Item(v, i + o) = [next |-> (i + o) + 3, out |-> << >>, cmd |-> d]
        BY <3>3 DEF d
      <3> QED
        BY <3>5, <3>6, <3>7, <3>8, <3>9
    <2>4. CASE u[i + 1] = "SB"
      <3> DEFINE se == Min(SubnegotiationEnds(u, i))
      <3> DEFINE te == Min(SubnegotiationEnds(v, i + o))
      <3>1. SubnegotiationEnds(u, i) # {}
        BY <1>2, <2>4 DEF Incomplete
      <3>2. SubnegotiationEnds(v, i + o) # {} /\ te = se + o
        BY <3>1, SameEnd
      <3>3. se \in (i + 2)..(Len(u) - 1)
        BY <3>1, EndIsFirst DEF SubnegotiationEnds
      <3>4. Item(u, i) = [next |-> se + 2, out |-> << >>,
                          cmd |-> << <<"SB", u[i + 2]>> \o SubSeq(u, i + 3, se - 1) >>]
        BY <1>2, <2>4 DEF Item
      <3>5. Item(v, i + o) = [next |-> te + 2, out |-> << >>,
                              cmd |-> << <<"SB", v[(i + o) + 2]>> \o SubSeq(v, (i + o) + 3, te - 1) >>]
        BY <2>1, <2>4 DEF Item
      <3> HIDE DEF se, te
      <3>6. v[(i + o) + 2] = u[i + 2]
        BY <1>0, <1>a, <3>3
      <3>7. SubSeq(v, (i + o) + 3, te - 1) = SubSeq(u, i + 3, se - 1)
        <4>1. i + 3 \in Nat /\ i + 3 >= 1 /\ se - 1 \in Int /\ se - 1 <= Len(u)
          BY <3>3
        <4>2. (i + 3) + o = (i + o) + 3 /\ (se - 1) + o = te - 1
          BY <3>2, <3>3
        <4>3. SubSeq(v, (i + 3) + o, (se - 1) + o) = SubSeq(u, i + 3, se - 1)
          BY <4>1, PartEmbedded
        <4> QED
          BY <4>2, <4>3
      <3>8. ~Incomplete(v, i + o)
        BY <2>1, <2>4, <3>2 DEF Incomplete
      <3>9. te + 2 = (se + 2) + o
        BY <3>2, <3>3
      <3> DEFINE c == << <<"SB", u[i + 2]>> \o SubSeq(u, i + 3, se - 1) >>
      <3> DEFINE d == << <<"SB", v[(i + o) + 2]>> \o SubSeq(v, (i + o) + 3, te - 1) >>
      <3>10. d = c
        BY <3>6, <3>7
      <3> HIDE DEF c, d
      <3>11. Item(u, i) = [next |-> se + 2, out |-> << >>, cmd |-> c]
        BY <3>4 DEF c
      <3>12. Item(v, i + o) = [next |-> te + 2, out |-> << >>, cmd |-> d]
        BY <3>5 DEF d
      <3> QED
        BY <3>8, <3>9, <3>10, <3>11, <3>12
    <2>5. CASE u[i + 1] \notin {"IAC", "DO", "SB"}
      <3>1. Item(u, i) = [next |-> i + 2, out |-> << >>, cmd |-> << <<u[i + 1]>> >>]
        BY <1>2, <2>5 DEF Item
      <3>2. Item(v, i + o) = [next |-> (i + o) + 2, out |-> << >>, cmd |-> << <<v[(i + o) + 1]>> >>]
        BY <2>1, <2>5 DEF Item
      <3>3. ~Incomplete(v, i + o)
        BY <2>1, <2>5 DEF Incomplete
      <3>4. (i + o) + 2 = (i + 2) + o
        OBVIOUS
      <3> QED
        BY <2>1, <3>1, <3>2, <3>3, <3>4
    <2> QED
      BY <2>2, <2>3, <2>4, <2>5
  <1> QED
    BY <1>1, <1>2

\* What is unfinished at the end of u is unfinished if v ends there too.
LEMMA SameRest ==
  ASSUME NEW u \in Seq(StreamBytes), NEW v \in Seq(StreamBytes), NEW o \in Nat, Embeds(u, v, o),
         Len(v) = Len(u) + o, NEW i \in 1..Len(u), Incomplete(u, i)
  PROVE  Incomplete(v, i + o)
  <1>0. Len(u) \in Nat /\ \A j \in 1..Len(u) : v[j + o] = u[j]
    BY DEF Embeds
  <1>1. u[i] = "IAC" /\ v[i + o] = "IAC"
    BY <1>0 DEF Incomplete
  <1>2. CASE i = Len(u)
    BY <1>1, <1>2 DEF Incomplete
  <1>3. CASE i # Len(u)
    <2>1. i + 1 \in 1..Len(u) /\ (i + 1) + o = (i + o) + 1
      BY <1>0, <1>3
    <2>2. v[(i + o) + 1] = u[i + 1]
      BY <1>0, <2>1
    <2>3. CASE u[i + 1] = "DO" /\ i + 2 > Len(u)
      <3>1. (i + o) + 2 > Len(v)
        BY <1>0, <2>3
      <3> QED
        BY <1>1, <2>2, <2>3, <3>1 DEF Incomplete
    <2>4. CASE u[i + 1] = "SB" /\ SubnegotiationEnds(u, i) = {}
      <3>1. ASSUME NEW y \in SubnegotiationEnds(v, i + o) PROVE FALSE
        <4>1. y \in ((i + o) + 2)..(Len(v) - 1) /\ v[y] = "IAC" /\ v[y + 1] = "SE"
          BY <3>1 DEF SubnegotiationEnds
        <4> DEFINE x == y - o
        <4>2. /\ x \in (i + 2)..(Len(u) - 1) /\ x \in 1..Len(u) /\ x + 1 \in 1..Len(u)
              /\ x + o = y /\ (x + 1) + o = y + 1
          BY <1>0, <4>1
        <4> HIDE DEF x
        <4>3. u[x] = "IAC" /\ u[x + 1] = "SE"
          BY <1>0, <4>1, <4>2
        <4>4. x \in SubnegotiationEnds(u, i)
          BY <4>2, <4>3 DEF SubnegotiationEnds
        <4> QED
          BY <2>4, <4>4
      <3> QED
        BY <1>1, <2>2, <2>4, <3>1 DEF Incomplete
    <2> QED
      BY <1>3, <2>3, <2>4 DEF Incomplete
  <1> QED
    BY <1>2, <1>3

\* An iteration goes on, or is stuck and changes nothing.
LEMMA StepTypes ==
  ASSUME NEW data \in Seq(StreamBytes), NEW s \in ScanStates(data)
  PROVE  /\ ScanStep(data, s) \in ScanStates(data)
         /\ Stuck(data, s) => ScanStep(data, s) = s
         /\ ~Stuck(data, s) => s.at \in 1..Len(data) /\ ScanStep(data, s).at > s.at
  <1>0. /\ s.at \in Nat /\ 1 <= s.at /\ s.at <= Len(data) + 1 /\ Len(data) \in Nat
        /\ s.out \in Seq(StreamBytes) /\ s.cmds \in Seq(Seq(StreamBytes))
    BY DEF ScanStates
  <1>1. CASE Stuck(data, s)
    BY <1>1 DEF ScanStep
  <1>2. CASE ~Stuck(data, s)
    <2> DEFINE item == Item(data, s.at)
    <2>1. s.at \in 1..Len(data) /\ ~Incomplete(data, s.at)
      BY <1>0, <1>2 DEF Stuck
    <2>2. item \in StreamItems /\ item.next > s.at /\ item.next <= Len(data) + 1
      BY <2>1, ItemTypes
    <2>3. ScanStep(data, s) = [at |-> item.next, out |-> s.out \o item.out, cmds |-> s.cmds \o item.cmd]
      BY <1>2 DEF ScanStep
    <2> HIDE DEF item
    <2>4. item.next \in Nat /\ item.out \in Seq(StreamBytes) /\ item.cmd \in Seq(Seq(StreamBytes))
      BY <2>2 DEF StreamItems
    <2>5. s.out \o item.out \in Seq(StreamBytes) /\ s.cmds \o item.cmd \in Seq(Seq(StreamBytes))
      BY <1>0, <2>4, ConcatProperties
    <2>6. 1 <= item.next
      BY <1>0, <2>2, <2>4
    <2> QED
      BY <1>2, <2>1, <2>2, <2>3, <2>4, <2>5, <2>6 DEF ScanStates
  <1> QED
    BY <1>1, <1>2

IsRun(f, data, n) ==
  /\ f \in [0..n -> ScanStates(data)]
  /\ f[0] = ScanStart
  /\ \A i \in 1..n : f[i] = ScanStep(data, f[i - 1])

Result(data, s) == [out |-> s.out, cmds |-> s.cmds, rest |-> SubSeq(data, s.at, Len(data))]

\* A scan is a run.
LEMMA ScanIsRun ==
  ASSUME NEW data \in Seq(StreamBytes)
  PROVE  \E f : IsRun(f, data, Len(data)) /\ Scan(data) = Result(data, f[Len(data)])
  <1> DEFINE n == Len(data)
  <1> DEFINE S == ScanStates(data)
  <1> DEFINE next == [x \in S \X (1..n) |-> ScanStep(data, x[1])]
  <1>0. n \in Nat
    OBVIOUS
  <1>1. \A s \in S : ScanStep(data, s) \in S
    BY StepTypes
  <1>2. next \in [S \X (1..n) -> S]
    BY <1>1
  <1>3. ScanStart \in S
    BY DEF ScanStart, ScanStates
  <1>4. PICK f \in [0..n -> S] : Iterates(f, next, ScanStart, n)
    <2> HIDE DEF next, n, S
    <2> QED
      BY <1>0, <1>2, <1>3, Iteration
  <1> HIDE DEF S
  <1>5. f[0] = ScanStart /\ \A i \in 1..n : f[i] = ScanStep(data, f[i - 1])
    <2> SUFFICES ASSUME NEW i \in 1..n PROVE f[i] = ScanStep(data, f[i - 1])
      BY <1>4 DEF Iterates
    <2>1. i - 1 \in 0..n
      BY <1>0
    <2> QED
      BY <1>4, <2>1 DEF Iterates
  <1>6. f = [i \in 0..n |-> IF i = 0 THEN ScanStart ELSE ScanStep(data, f[i - 1])]
    <2> SUFFICES ASSUME NEW i \in 0..n
                 PROVE  f[i] = IF i = 0 THEN ScanStart ELSE ScanStep(data, f[i - 1])
      BY <1>4
    <2>1. i # 0 => i \in 1..n
      BY <1>0
    <2> QED
      BY <1>5, <2>1
  <1> DEFINE after == CHOOSE h : h = [i \in 0..n |->
                        IF i = 0 THEN ScanStart ELSE ScanStep(data, h[i - 1])]
  <1>7. after = [i \in 0..n |-> IF i = 0 THEN ScanStart ELSE ScanStep(data, after[i - 1])]
    BY <1>6
  <1>8. Scan(data) = Result(data, after[n])
    BY DEF Scan, Result
  <1> HIDE DEF after, next
  <1> DEFINE G == {i \in 0..n : after[i] = f[i]}
  <1>9. 0 \in G
    BY <1>0, <1>5, <1>7
  <1>10. ASSUME NEW i \in 1..n, i - 1 \in G PROVE i \in G
    <2>1. i \in 0..n /\ i # 0 /\ after[i - 1] = f[i - 1]
      BY <1>0, <1>10
    <2>2. after[i] = ScanStep(data, after[i - 1])
      <3> HIDE DEF n
      <3> QED
        BY <1>7, <2>1
    <2> QED
      BY <1>5, <2>1, <2>2
  <1>11. 0..n \subseteq G
    <2> HIDE DEF G, n
    <2> QED
      BY <1>0, <1>9, <1>10, UpTo
  <1>12. after[n] = f[n]
    BY <1>0, <1>11
  <1>13. IsRun(f, data, n)
    BY <1>4, <1>5 DEF IsRun, S
  <1> QED
    BY <1>8, <1>12, <1>13

\* A run that is as long as its data is stuck.
LEMMA RunGetsStuck ==
  ASSUME NEW data \in Seq(StreamBytes), NEW n \in Nat, NEW f, IsRun(f, data, n), n >= Len(data)
  PROVE  Stuck(data, f[n])
  <1> DEFINE G == {i \in 0..n : Stuck(data, f[i]) \/ f[i].at > i}
  <1>0. Len(data) \in Nat /\ \A i \in 0..n : f[i] \in ScanStates(data) /\ f[i].at \in Nat
    BY DEF IsRun, ScanStates
  <1>1. 0 \in G
    BY DEF IsRun, ScanStart
  <1>2. ASSUME NEW i \in 1..n, i - 1 \in G PROVE i \in G
    <2>1. i - 1 \in 0..n /\ i \in 0..n /\ f[i] = ScanStep(data, f[i - 1])
      BY DEF IsRun
    <2>2. Stuck(data, f[i - 1]) \/ f[i - 1].at > i - 1
      BY <1>2
    <2>3. CASE Stuck(data, f[i - 1])
      BY <1>0, <2>1, <2>3, StepTypes
    <2>4. CASE ~Stuck(data, f[i - 1])
      <3>1. f[i].at > f[i - 1].at
        BY <1>0, <2>1, <2>4, StepTypes
      <3>2. f[i].at > i
        BY <1>0, <2>1, <2>2, <2>4, <3>1
      <3> QED
        BY <2>1, <3>2
    <2> QED
      BY <2>3, <2>4
  <1>3. 0..n \subseteq G
    <2> HIDE DEF G
    <2> QED
      BY <1>1, <1>2, UpTo
  <1>4. n \in 0..n /\ (Stuck(data, f[n]) \/ f[n].at > n)
    BY <1>3
  <1> QED
    BY <1>0, <1>4 DEF Stuck

\* A run that is stuck stays where it is.
LEMMA StuckStays ==
  ASSUME NEW data \in Seq(StreamBytes), NEW n \in Nat, NEW f, IsRun(f, data, n),
         NEW m \in 0..n, Stuck(data, f[m])
  PROVE  f[n] = f[m]
  <1> DEFINE G == {i \in 0..(n - m) : f[m + i] = f[m]}
  <1>1. 0 \in G /\ n - m \in Nat
    OBVIOUS
  <1>2. ASSUME NEW i \in 1..(n - m), i - 1 \in G PROVE i \in G
    <2>1. /\ m + i \in 1..n /\ (m + i) - 1 = m + (i - 1) /\ i \in 0..(n - m) /\ m + (i - 1) \in 0..n
          /\ f[m + (i - 1)] = f[m]
      BY <1>2
    <2>2. f[m + i] = ScanStep(data, f[m + (i - 1)])
      <3>1. f[m + i] = ScanStep(data, f[(m + i) - 1])
        BY <2>1 DEF IsRun
      <3> QED
        BY <2>1, <3>1
    <2>3. f[m] \in ScanStates(data)
      BY DEF IsRun
    <2>4. ScanStep(data, f[m]) = f[m]
      BY <2>3, StepTypes
    <2> QED
      BY <2>1, <2>2, <2>4
  <1>3. 0..(n - m) \subseteq G
    <2> HIDE DEF G
    <2> QED
      BY <1>1, <1>2, UpTo
  <1>4. n - m \in G /\ m + (n - m) = n
    BY <1>1, <1>3
  <1> QED
    BY <1>4

\* Of two runs over the same data the longer one goes the way of the shorter.
LEMMA RunsAgree ==
  ASSUME NEW data \in Seq(StreamBytes), NEW m \in Nat, NEW n \in Nat, m <= n,
         NEW f, IsRun(f, data, m), NEW g, IsRun(g, data, n), Stuck(data, f[m])
  PROVE  g[n] = f[m]
  <1> DEFINE G == {i \in 0..m : f[i] = g[i]}
  <1>1. 0 \in G
    BY DEF IsRun
  <1>2. ASSUME NEW i \in 1..m, i - 1 \in G PROVE i \in G
    <2>1. i \in 0..m /\ i \in 1..n /\ f[i - 1] = g[i - 1]
      BY <1>2
    <2>2. f[i] = ScanStep(data, f[i - 1]) /\ g[i] = ScanStep(data, g[i - 1])
      BY <2>1 DEF IsRun
    <2> QED
      BY <2>1, <2>2
  <1>3. 0..m \subseteq G
    <2> HIDE DEF G
    <2> QED
      BY <1>1, <1>2, UpTo
  <1>4. g[m] = f[m] /\ m \in 0..n
    BY <1>3
  <1> QED
    BY <1>4, StuckStays

\* What a scan returns.
LEMMA ScanTypes ==
  ASSUME NEW data \in Seq(StreamBytes)
  PROVE  Scan(data) \in [out : Seq(StreamBytes), cmds : Seq(Seq(StreamBytes)), rest : Seq(StreamBytes)]
  <1>1. PICK f : IsRun(f, data, Len(data)) /\ Scan(data) = Result(data, f[Len(data)])
    BY ScanIsRun
  <1> DEFINE s == f[Len(data)]
  <1>2. s \in ScanStates(data)
    BY <1>1 DEF IsRun
  <1> HIDE DEF s
  <1>3. /\ s.at \in Nat /\ 1 <= s.at /\ s.at <= Len(data) + 1
        /\ s.out \in Seq(StreamBytes) /\ s.cmds \in Seq(Seq(StreamBytes))
    BY <1>2 DEF ScanStates
  <1>4. SubSeq(data, s.at, Len(data)) \in Seq(StreamBytes)
    <2>1. \A j \in s.at..Len(data) : data[j] \in StreamBytes
      BY <1>3
    <2>2. s.at \in Int /\ Len(data) \in Int
      BY <1>3
    <2> QED
      BY <2>1, <2>2, SubSeqProperties
  <1>5. Scan(data) = Result(data, s)
    BY <1>1 DEF s
  <1> QED
    BY <1>3, <1>4, <1>5 DEF Result

\* What was found before a piece is put in front of what is found in it.
Lifted(s, x) == [at |-> x.at + (s.at - 1), out |-> s.out \o x.out, cmds |-> s.cmds \o x.cmds]

\* Concatenation is associative, for data and for commands.
LEMMA ConcatThree ==
  \A x, y, z \in Seq(StreamBytes) : (x \o y) \o z = x \o (y \o z)
  BY ConcatAssociative

\* The same for sequences of commands.
LEMMA CommandsThree ==
  \A x, y, z \in Seq(Seq(StreamBytes)) : (x \o y) \o z = x \o (y \o z)
  <1> DEFINE S == Seq(StreamBytes)
  <1> HIDE DEF S
  <1>1. \A x, y, z \in Seq(S) : (x \o y) \o z = x \o (y \o z)
    BY ConcatAssociative
  <1> QED
    BY <1>1 DEF S

\* Iterations over what was left, seen from the whole.
LEMMA StepLifted ==
  ASSUME NEW b \in Seq(StreamBytes), NEW e \in Seq(StreamBytes), NEW s \in ScanStates(e),
         Embeds(b, e, s.at - 1), Len(e) = Len(b) + (s.at - 1), NEW x \in ScanStates(b)
  PROVE  /\ Lifted(s, x) \in ScanStates(e)
         /\ ScanStep(e, Lifted(s, x)) = Lifted(s, ScanStep(b, x))
         /\ Stuck(b, x) => Stuck(e, Lifted(s, x))
  <1> DEFINE o == s.at - 1
  <1> DEFINE y == Lifted(s, x)
  <1>0. /\ x.at \in Nat /\ 1 <= x.at /\ x.at <= Len(b) + 1 /\ Len(b) \in Nat /\ Len(e) \in Nat
        /\ s.at \in Nat /\ 1 <= s.at /\ o \in Nat
        /\ x.out \in Seq(StreamBytes) /\ x.cmds \in Seq(Seq(StreamBytes))
        /\ s.out \in Seq(StreamBytes) /\ s.cmds \in Seq(Seq(StreamBytes))
    BY DEF ScanStates
  <1>1. y.at = x.at + o /\ y.out = s.out \o x.out /\ y.cmds = s.cmds \o x.cmds
    BY DEF Lifted
  <1>2. s.out \o x.out \in Seq(StreamBytes) /\ s.cmds \o x.cmds \in Seq(Seq(StreamBytes))
    BY <1>0, ConcatProperties
  <1>e. Embeds(b, e, o) /\ Len(e) = Len(b) + o
    OBVIOUS
  <1> HIDE DEF o
  <1>3. y.at \in Nat /\ 1 <= y.at /\ y.at <= Len(e) + 1
    BY <1>0, <1>1, <1>e
  <1>4. y \in ScanStates(e)
    <2>1. y = [at |-> x.at + o, out |-> s.out \o x.out, cmds |-> s.cmds \o x.cmds]
      BY DEF Lifted, o
    <2> QED
      BY <1>1, <1>2, <1>3, <2>1 DEF ScanStates
  <1> HIDE DEF y
  <1>5. Stuck(b, x) => Stuck(e, y)
    <2>1. CASE x.at > Len(b)
      BY <1>0, <1>1, <1>e, <2>1 DEF Stuck
    <2>2. CASE x.at \in 1..Len(b) /\ Incomplete(b, x.at)
      BY <1>0, <1>1, <1>e, <2>2, SameRest DEF Stuck
    <2> QED
      BY <1>0, <2>1, <2>2 DEF Stuck
  <1>6. CASE Stuck(b, x)
    <2>1. ScanStep(b, x) = x /\ ScanStep(e, y) = y
      BY <1>5, <1>6 DEF ScanStep
    <2> QED
      BY <1>4, <1>5, <2>1 DEF y
  <1>7. CASE ~Stuck(b, x)
    <2> DEFINE i == Item(b, x.at)
    <2>1. x.at \in 1..Len(b) /\ ~Incomplete(b, x.at)
      BY <1>0, <1>7 DEF Stuck
    <2>2. /\ ~Incomplete(e, y.at)
          /\ Item(e, y.at) = [next |-> i.next + o, out |-> i.out, cmd |-> i.cmd]
      BY <1>0, <1>1, <1>e, <2>1, SameItem
    <2>3. ~Stuck(e, y)
      BY <1>0, <1>1, <1>e, <2>1, <2>2 DEF Stuck
    <2>4. i \in StreamItems
      BY <2>1, ItemTypes
    <2>5. ScanStep(b, x) = [at |-> i.next, out |-> x.out \o i.out, cmds |-> x.cmds \o i.cmd]
      BY <1>7 DEF ScanStep
    <2> HIDE DEF i
    <2>6. i.out \in Seq(StreamBytes) /\ i.cmd \in Seq(Seq(StreamBytes))
      BY <2>4 DEF StreamItems
    <2>7. ScanStep(e, y) = [at |-> i.next + o, out |-> y.out \o i.out, cmds |-> y.cmds \o i.cmd]
      <3> DEFINE j == Item(e, y.at)
      <3>1. ScanStep(e, y) = [at |-> j.next, out |-> y.out \o j.out, cmds |-> y.cmds \o j.cmd]
        BY <2>3 DEF ScanStep
      <3>2. j.next = i.next + o /\ j.out = i.out /\ j.cmd = i.cmd
        BY <2>2
      <3> HIDE DEF j
      <3> QED
        BY <3>1, <3>2
    <2>8. y.out \o i.out = s.out \o (x.out \o i.out)
      <3>1. (s.out \o x.out) \o i.out = s.out \o (x.out \o i.out)
        BY <1>0, <2>6, ConcatThree
      <3> QED
        BY <1>1, <3>1
    <2>9. y.cmds \o i.cmd = s.cmds \o (x.cmds \o i.cmd)
      <3>1. (s.cmds \o x.cmds) \o i.cmd = s.cmds \o (x.cmds \o i.cmd)
        BY <1>0, <2>6, CommandsThree
      <3> QED
        BY <1>1, <3>1
    <2>10. Lifted(s, ScanStep(b, x)) = [at |-> i.next + o, out |-> s.out \o (x.out \o i.out),
                                        cmds |-> s.cmds \o (x.cmds \o i.cmd)]
      BY <2>5 DEF Lifted, o
    <2> QED
      BY <1>4, <1>7, <2>7, <2>8, <2>9, <2>10 DEF y
  <1> QED
    BY <1>6, <1>7

\* Iterations over the earlier part, seen from the whole.
LEMMA StepKept ==
  ASSUME NEW d \in Seq(StreamBytes), NEW e \in Seq(StreamBytes), Embeds(d, e, 0),
         NEW x \in ScanStates(d)
  PROVE  /\ x \in ScanStates(e)
         /\ ~Stuck(d, x) => ScanStep(e, x) = ScanStep(d, x)
  <1>0. x.at \in Nat /\ 1 <= x.at /\ x.at <= Len(d) + 1 /\ Len(d) \in Nat /\ Len(e) \in Nat
    BY DEF ScanStates
  <1>1. Len(d) <= Len(e)
    BY <1>0 DEF Embeds
  <1>2. x \in ScanStates(e)
    BY <1>0, <1>1 DEF ScanStates
  <1>3. ASSUME ~Stuck(d, x) PROVE ScanStep(e, x) = ScanStep(d, x)
    <2> DEFINE i == Item(d, x.at)
    <2>1. x.at \in 1..Len(d) /\ ~Incomplete(d, x.at)
      BY <1>0, <1>3 DEF Stuck
    <2>2. i \in StreamItems
      BY <2>1, ItemTypes
    <2>3. /\ ~Incomplete(e, x.at + 0)
          /\ Item(e, x.at + 0) = [next |-> i.next + 0, out |-> i.out, cmd |-> i.cmd]
      <3>1. 0 \in Nat
        OBVIOUS
      <3> QED
        BY <2>1, <3>1, SameItem
    <2> HIDE DEF i
    <2>4. i.next + 0 = i.next /\ x.at + 0 = x.at
      BY <1>0, <2>2 DEF StreamItems
    <2>5. Item(e, x.at) = i /\ ~Incomplete(e, x.at)
      BY <2>2, <2>3, <2>4 DEF StreamItems
    <2>6. ~Stuck(e, x)
      BY <1>0, <1>1, <2>1, <2>5 DEF Stuck
    <2> QED
      BY <1>3, <2>5, <2>6 DEF ScanStep, i
  <1> QED
    BY <1>2, <1>3

\* A scan of everything is a scan of the earlier part and one of what it left
\* with the piece behind it.
LEMMA ScanInPieces ==
  ASSUME NEW d \in Seq(StreamBytes), NEW p \in Seq(StreamBytes)
  PROVE  LET b == Scan(d).rest \o p IN
         Scan(d \o p) = [out |-> Scan(d).out \o Scan(b).out, cmds |-> Scan(d).cmds \o Scan(b).cmds,
                         rest |-> Scan(b).rest]
  <1> DEFINE e == d \o p
  <1> DEFINE n == Len(d)
  <1>1. PICK f : IsRun(f, d, n) /\ Scan(d) = Result(d, f[n])
    BY ScanIsRun
  <1>2. n \in Nat /\ Len(p) \in Nat /\ e \in Seq(StreamBytes) /\ Len(e) = n + Len(p)
    BY ConcatProperties
  <1>3. Embeds(d, e, 0)
    <2>1. \A j \in 1..n : j + 0 = j /\ j \in 1..(n + Len(p))
      BY <1>2
    <2>2. \A j \in 1..n : e[j] = d[j]
      BY <1>2, <2>1, ConcatProperties
    <2> QED
      BY <1>2, <2>1, <2>2 DEF Embeds
  <1>4. Stuck(d, f[n])
    BY <1>1, <1>2, RunGetsStuck
  <1> DEFINE T == {i \in 0..n : Stuck(d, f[i])}
  <1>5. PICK t \in T : \A i \in T : t <= i
    <2>1. T \subseteq Nat /\ n \in T
      BY <1>2, <1>4
    <2> HIDE DEF T
    <2> QED
      BY <2>1, Least
  <1>6. t \in 0..n /\ Stuck(d, f[t]) /\ \A i \in 0..n : i < t => ~Stuck(d, f[i])
    BY <1>2, <1>5
  <1> HIDE DEF T
  <1>7. f[n] = f[t]
    BY <1>1, <1>2, <1>6, StuckStays
  <1> DEFINE s == f[t]
  <1>8. s \in ScanStates(d)
    BY <1>1, <1>6 DEF IsRun
  <1>9. s \in ScanStates(e)
    BY <1>2, <1>3, <1>8, StepKept
  <1>10. /\ s.at \in Nat /\ 1 <= s.at /\ s.at <= n + 1 /\ s.at - 1 \in Nat
         /\ s.out \in Seq(StreamBytes) /\ s.cmds \in Seq(Seq(StreamBytes))
    BY <1>2, <1>8 DEF ScanStates
  <1> DEFINE r == SubSeq(d, s.at, n)
  <1> DEFINE b == r \o p
  <1>11. Scan(d) = [out |-> s.out, cmds |-> s.cmds, rest |-> r]
    BY <1>1, <1>7 DEF Result
  <1>12. /\ r \in Seq(StreamBytes) /\ Len(r) = n - s.at + 1
         /\ \A j \in 1..Len(r) : r[j] = d[s.at + j - 1]
    <2> HIDE DEF s
    <2>1. s.at \in Int /\ n \in Int /\ \A j \in s.at..n : d[j] \in StreamBytes
      BY <1>2, <1>10
    <2>2. /\ r \in Seq(StreamBytes) /\ Len(r) = IF s.at <= n THEN n - s.at + 1 ELSE 0
          /\ \A j \in 1..(n - s.at + 1) : r[j] = d[s.at + j - 1]
      BY <2>1, SubSeqProperties
    <2> HIDE DEF r, n
    <2> DEFINE k == s.at
    <2>3. /\ k \in Nat /\ 1 <= k /\ k <= n + 1 /\ Len(r) = IF k <= n THEN n - k + 1 ELSE 0
          /\ \A j \in 1..(n - k + 1) : r[j] = d[k + j - 1]
      BY <1>10, <2>2
    <2> HIDE DEF k
    <2>4. Len(r) = n - k + 1
      BY <1>2, <2>3
    <2> QED
      BY <2>2, <2>3, <2>4 DEF k
  <1> HIDE DEF s, r
  <1>13. b \in Seq(StreamBytes) /\ Len(b) = Len(r) + Len(p) /\ Len(b) \in Nat /\ Len(r) \in Nat
    BY <1>2, <1>12, ConcatProperties
  <1>14. Len(e) = Len(b) + (s.at - 1)
    <2> HIDE DEF e, b, n
    <2> DEFINE k == s.at
    <2>1. k \in Nat /\ Len(r) = n - k + 1
      BY <1>10, <1>12
    <2> HIDE DEF k
    <2>2. Len(e) = Len(b) + (k - 1)
      BY <1>2, <1>13, <2>1
    <2> QED
      BY <2>2 DEF k
  <1>15. Embeds(b, e, s.at - 1)
    <2>0. Len(b) + (s.at - 1) <= Len(e)
      <3> HIDE DEF e, b, n
      <3> QED
        BY <1>2, <1>14
    <2> SUFFICES ASSUME NEW j \in 1..Len(b) PROVE e[j + (s.at - 1)] = b[j]
      <3> HIDE DEF e, b, n
      <3> QED
        BY <2>0 DEF Embeds
    <2>1. j \in 1..(Len(r) + Len(p)) /\ j + (s.at - 1) \in 1..(n + Len(p))
      <3> HIDE DEF e, b, n
      <3> DEFINE k == s.at
      <3>1. k \in Nat /\ 1 <= k /\ k <= n + 1 /\ Len(r) = n - k + 1
        BY <1>10, <1>12
      <3> HIDE DEF k
      <3>2. j \in 1..(Len(r) + Len(p)) /\ j + (k - 1) \in 1..(n + Len(p))
        BY <1>2, <1>13, <3>1
      <3> QED
        BY <3>2 DEF k
    <2>2. b[j] = IF j <= Len(r) THEN r[j] ELSE p[j - Len(r)]
      BY <1>12, <2>1, ConcatProperties
    <2>3. e[j + (s.at - 1)] = IF j + (s.at - 1) <= n THEN d[j + (s.at - 1)] ELSE p[(j + (s.at - 1)) - n]
      BY <2>1, ConcatProperties
    <2> HIDE DEF b, e, n
    <2>4. /\ j <= Len(r) <=> j + (s.at - 1) <= n
          /\ s.at + j - 1 = j + (s.at - 1) /\ (j + (s.at - 1)) - n = j - Len(r)
      <3> DEFINE k == s.at
      <3>1. k \in Nat /\ 1 <= k /\ k <= n + 1 /\ Len(r) = n - k + 1
        BY <1>10, <1>12
      <3> HIDE DEF k
      <3>2. /\ j <= Len(r) <=> j + (k - 1) <= n
            /\ k + j - 1 = j + (k - 1) /\ (j + (k - 1)) - n = j - Len(r)
        BY <1>2, <1>13, <2>1, <3>1
      <3> QED
        BY <3>2 DEF k
    <2>6. j <= Len(r) => r[j] = d[j + (s.at - 1)]
      BY <1>12, <1>13, <2>1, <2>4
    <2> QED
      BY <2>2, <2>3, <2>4, <2>6
  <1> DEFINE m == Len(b)
  <1>16. PICK h : IsRun(h, b, m) /\ Scan(b) = Result(b, h[m])
    BY <1>13, ScanIsRun
  <1>17. Stuck(b, h[m]) /\ m \in 0..m
    <2> HIDE DEF b
    <2>1. m \in Nat /\ m >= Len(b)
      BY <1>13
    <2> HIDE DEF m
    <2> QED
      BY <1>13, <1>16, <2>1, RunGetsStuck
  <1>18. \A i \in 0..m : h[i] \in ScanStates(b)
    BY <1>16 DEF IsRun
  <1> HIDE DEF b, e, n, m
  <1>19. m \in Nat /\ n \in Nat
    BY <1>2, <1>13 DEF m
  <1>20. \A x \in ScanStates(b) : /\ Lifted(s, x) \in ScanStates(e)
                                  /\ ScanStep(e, Lifted(s, x)) = Lifted(s, ScanStep(b, x))
                                  /\ Stuck(b, x) => Stuck(e, Lifted(s, x))
    BY <1>2, <1>9, <1>13, <1>14, <1>15, StepLifted
  <1>21. Lifted(s, ScanStart) = s
    <2>1. s.out \o << >> = s.out /\ s.cmds \o << >> = s.cmds
      BY <1>10, ConcatEmptySeq
    <2>2. 1 + (s.at - 1) = s.at
      BY <1>10
    <2>3. s = [at |-> s.at, out |-> s.out, cmds |-> s.cmds]
      BY <1>9 DEF ScanStates
    <2>4. ScanStart.at = 1 /\ ScanStart.out = << >> /\ ScanStart.cmds = << >>
      BY DEF ScanStart
    <2> HIDE DEF ScanStart
    <2>5. Lifted(s, ScanStart) = [at |-> s.at, out |-> s.out, cmds |-> s.cmds]
      BY <2>1, <2>2, <2>4 DEF Lifted
    <2> QED
      BY <2>3, <2>5
  <1> DEFINE g == [i \in 0..(t + m) |-> IF i <= t THEN f[i] ELSE Lifted(s, h[i - t])]
  <1>22. \A i \in 0..(t + m) : (i <= t => g[i] = f[i]) /\ (i > t => g[i] = Lifted(s, h[i - t]))
    BY <1>6, <1>19
  <1>23. \A i \in 0..m : t + i \in 0..(t + m) /\ g[t + i] = Lifted(s, h[i])
    <2> SUFFICES ASSUME NEW i \in 0..m PROVE t + i \in 0..(t + m) /\ g[t + i] = Lifted(s, h[i])
      OBVIOUS
    <2>1. t + i \in 0..(t + m) /\ (t + i) - t = i
      BY <1>6, <1>19
    <2> HIDE DEF g
    <2>2. CASE i = 0
      <3>1. t + i <= t /\ t + i = t /\ h[i] = ScanStart
        BY <1>6, <1>16, <2>2 DEF IsRun
      <3> QED
        BY <1>21, <1>22, <2>1, <3>1 DEF s
    <2>3. CASE i # 0
      <3>1. t + i > t
        BY <1>6, <2>3
      <3> QED
        BY <1>22, <2>1, <3>1
    <2> QED
      BY <2>1, <2>2, <2>3
  <1> HIDE DEF g
  <1>24. ASSUME NEW i \in 0..(t + m) PROVE g[i] \in ScanStates(e)
    <2>1. CASE i <= t
      <3>1. i \in 0..n /\ g[i] = f[i]
        BY <1>6, <1>19, <1>22, <2>1
      <3> QED
        BY <1>1, <1>2, <1>3, <3>1, StepKept DEF IsRun
    <2>2. CASE i > t
      <3>1. i - t \in 0..m /\ g[i] = Lifted(s, h[i - t])
        BY <1>6, <1>19, <1>22, <2>2
      <3> QED
        BY <1>18, <1>20, <3>1
    <2> QED
      BY <1>6, <1>19, <2>1, <2>2
  <1>25. ASSUME NEW i \in 1..(t + m) PROVE g[i] = ScanStep(e, g[i - 1])
    <2>1. CASE i <= t
      <3>1. /\ i \in 1..n /\ i - 1 \in 0..n /\ i - 1 < t /\ g[i] = f[i] /\ g[i - 1] = f[i - 1]
        BY <1>6, <1>19, <1>22, <2>1
      <3>2. f[i] = ScanStep(d, f[i - 1]) /\ ~Stuck(d, f[i - 1]) /\ f[i - 1] \in ScanStates(d)
        BY <1>1, <1>6, <3>1 DEF IsRun
      <3> QED
        BY <1>2, <1>3, <3>1, <3>2, StepKept
    <2>2. CASE i > t
      <3> DEFINE k == i - t
      <3>1. k \in 1..m /\ k \in 0..m /\ k - 1 \in 0..m /\ i = t + k /\ i - 1 = t + (k - 1)
        BY <1>6, <1>19, <2>2
      <3> HIDE DEF k
      <3>2. g[i] = Lifted(s, h[k]) /\ g[i - 1] = Lifted(s, h[k - 1])
        BY <1>23, <3>1
      <3>3. h[k] = ScanStep(b, h[k - 1]) /\ h[k - 1] \in ScanStates(b)
        BY <1>16, <1>18, <3>1 DEF IsRun
      <3> QED
        BY <1>20, <3>2, <3>3
    <2> QED
      BY <1>6, <1>19, <2>1, <2>2
  <1>26. IsRun(g, e, t + m)
    <2>1. g \in [0..(t + m) -> ScanStates(e)]
      BY <1>24 DEF g
    <2>2. 0 \in 0..(t + m) /\ 0 <= t
      BY <1>6, <1>19
    <2>3. g[0] = f[0] /\ f[0] = ScanStart
      BY <1>1, <1>22, <2>2 DEF IsRun
    <2> QED
      BY <1>25, <2>1, <2>3 DEF IsRun
  <1>27. g[t + m] = Lifted(s, h[m]) /\ Stuck(e, g[t + m])
    BY <1>17, <1>18, <1>20, <1>23
  <1>28. PICK w : IsRun(w, e, Len(e)) /\ Scan(e) = Result(e, w[Len(e)])
    BY <1>2, ScanIsRun
  <1>29. w[Len(e)] = g[t + m]
    <2>1. Len(e) \in Nat /\ t + m \in Nat
      BY <1>2, <1>6, <1>19
    <2>2. Stuck(e, w[Len(e)])
      BY <1>2, <1>28, <2>1, RunGetsStuck
    <2>3. CASE Len(e) <= t + m
      BY <1>2, <1>26, <1>28, <2>1, <2>2, <2>3, RunsAgree
    <2>4. CASE t + m <= Len(e)
      BY <1>2, <1>26, <1>27, <1>28, <2>1, <2>4, RunsAgree
    <2> QED
      BY <2>1, <2>3, <2>4
  <1> DEFINE x == h[m]
  <1>30. x \in ScanStates(b)
    BY <1>17, <1>18
  <1> HIDE DEF x
  <1>31. SubSeq(e, x.at + (s.at - 1), Len(e)) = SubSeq(b, x.at, Len(b))
    <2>1. x.at \in Nat /\ x.at >= 1 /\ Len(b) \in Int /\ Len(b) <= Len(b)
      BY <1>13, <1>30 DEF ScanStates
    <2> DEFINE o == s.at - 1
    <2>2. o \in Nat /\ Embeds(b, e, o)
      BY <1>10, <1>15
    <2> HIDE DEF o
    <2>3. SubSeq(e, x.at + o, Len(b) + o) = SubSeq(b, x.at, Len(b))
      <3> DEFINE i == x.at
      <3> DEFINE k == Len(b)
      <3>1. i \in Nat /\ i >= 1 /\ k \in Int /\ k <= Len(b)
        BY <2>1
      <3> HIDE DEF i, k
      <3>2. SubSeq(e, i + o, k + o) = SubSeq(b, i, k)
        <4>1. e \in Seq(StreamBytes) /\ b \in Seq(StreamBytes)
          BY <1>2, <1>13
        <4> QED
          BY <2>2, <3>1, <4>1, PartEmbedded, ZenonT(30)
      <3> QED
        BY <3>2 DEF i, k
    <2> QED
      BY <1>14, <2>3 DEF o
  <1>32. Scan(e) = [out |-> s.out \o x.out, cmds |-> s.cmds \o x.cmds, rest |-> SubSeq(b, x.at, Len(b))]
    <2> DEFINE z == Lifted(s, x)
    <2>1. z.at = x.at + (s.at - 1) /\ z.out = s.out \o x.out /\ z.cmds = s.cmds \o x.cmds
      BY DEF Lifted
    <2>2. Scan(e) = Result(e, z)
      BY <1>27, <1>28, <1>29 DEF x
    <2> HIDE DEF z
    <2> QED
      BY <1>31, <2>1, <2>2 DEF Result
  <1>33. Scan(b) = [out |-> x.out, cmds |-> x.cmds, rest |-> SubSeq(b, x.at, Len(b))]
    BY <1>16 DEF Result, x, m
  <1>34. /\ Scan(d).out = s.out /\ Scan(d).cmds = s.cmds /\ Scan(d).rest \o p = b
         /\ Scan(b).out = x.out /\ Scan(b).cmds = x.cmds /\ Scan(b).rest = SubSeq(b, x.at, Len(b))
    <2>1. Scan(d).out = s.out /\ Scan(d).cmds = s.cmds /\ Scan(d).rest = r
      BY <1>11
    <2> DEFINE q == SubSeq(b, x.at, Len(b))
    <2> HIDE DEF q
    <2>0. Scan(b) = [out |-> x.out, cmds |-> x.cmds, rest |-> q]
      BY <1>33 DEF q
    <2>4. Scan(b).out = x.out /\ Scan(b).cmds = x.cmds /\ Scan(b).rest = q
      BY <2>0
    <2>2. Scan(b).out = x.out /\ Scan(b).cmds = x.cmds /\ Scan(b).rest = SubSeq(b, x.at, Len(b))
      BY <2>4 DEF q
    <2>3. b = r \o p
      BY DEF b
    <2> QED
      BY <2>1, <2>2, <2>3
  <1>35. Scan(e) = [out |-> Scan(d).out \o Scan(b).out, cmds |-> Scan(d).cmds \o Scan(b).cmds,
                    rest |-> Scan(b).rest]
    BY <1>32, <1>34
  <1> QED
    BY <1>34, <1>35 DEF e

\* A scan without an IAC finds no command and leaves nothing.
LEMMA PlainScan ==
  ASSUME NEW data \in Seq(StreamBytes), ~Contains(data, "IAC")
  PROVE  Scan(data).cmds = << >> /\ Scan(data).rest = << >>
  <1> DEFINE n == Len(data)
  <1>1. PICK f : IsRun(f, data, n) /\ Scan(data) = Result(data, f[n])
    BY ScanIsRun
  <1>2. n \in Nat /\ \A i \in 1..n : data[i] # "IAC"
    BY DEF Contains
  <1> HIDE DEF n
  <1> DEFINE G == {i \in 0..n : f[i].cmds = << >>}
  <1>3. 0 \in G
    BY <1>1, <1>2 DEF IsRun, ScanStart
  <1>4. ASSUME NEW i \in 1..n, i - 1 \in G PROVE i \in G
    <2> DEFINE s == f[i - 1]
    <2>1. i \in 0..n /\ i - 1 \in 0..n /\ s.cmds = << >> /\ s \in ScanStates(data) /\ f[i] = ScanStep(data, s)
      BY <1>1, <1>2, <1>4 DEF IsRun
    <2> HIDE DEF s
    <2>2. CASE Stuck(data, s)
      BY <2>1, <2>2, StepTypes
    <2>3. CASE ~Stuck(data, s)
      <3>1. s.at \in 1..n
        BY <2>1, <2>3, StepTypes DEF n
      <3>2. Item(data, s.at).cmd = << >>
        BY <1>2, <3>1 DEF Item
      <3>3. f[i].cmds = << >> \o << >>
        BY <2>1, <2>3, <3>2 DEF ScanStep
      <3>4. << >> \o << >> = << >>
        OBVIOUS
      <3> QED
        BY <2>1, <3>3, <3>4
    <2> QED
      BY <2>2, <2>3
  <1>5. 0..n \subseteq G
    <2> HIDE DEF G
    <2> QED
      BY <1>2, <1>3, <1>4, UpTo
  <1>6. f[n].cmds = << >> /\ n \in 0..n
    BY <1>2, <1>5
  <1>7. f[n] \in ScanStates(data) /\ f[n].at \in Nat
    BY <1>1, <1>6 DEF IsRun, ScanStates
  <1>8. Stuck(data, f[n])
    BY <1>1, <1>2, RunGetsStuck DEF n
  <1>9. f[n].at > n
    <2>1. 1 <= f[n].at /\ f[n].at <= n + 1
      BY <1>7 DEF ScanStates, n
    <2>2. f[n].at \in 1..n => ~Incomplete(data, f[n].at)
      BY <1>2 DEF Incomplete
    <2> QED
      BY <1>2, <1>7, <1>8, <2>1, <2>2 DEF Stuck, n
  <1>10. SubSeq(data, f[n].at, n) = << >>
    BY <1>2, <1>7, <1>9, SubSeqEmpty
  <1> QED
    BY <1>1, <1>6, <1>10 DEF Result, n

\* What is stripped at either end leaves a sequence of bytes.
LEMMA Stripped ==
  ASSUME NEW data \in Seq(StreamBytes)
  PROVE  RStripEOR(data) \in Seq(StreamBytes) /\ LStripEW(data) \in Seq(StreamBytes)
  <1> DEFINE n == Len(data)
  <1> DEFINE keep == {i \in 1..n : data[i] # "EOR"}
  <1> DEFINE k == IF keep = {} THEN 0 ELSE Max(keep)
  <1>1. n \in Nat /\ \A i \in 1..n : data[i] \in StreamBytes
    OBVIOUS
  <1>2. k \in 0..n
    <2>1. CASE keep = {}
      BY <1>1, <2>1
    <2>2. CASE keep # {}
      <3>1. PICK x \in keep : \A y \in keep : x >= y
        <4> DEFINE T == {i \in 0..n : n - i \in keep}
        <4>1. T \subseteq Nat /\ T # {}
          <5>1. PICK y \in keep : TRUE
            BY <2>2
          <5>2. n - y \in 0..n /\ n - (n - y) = y
            BY <1>1
          <5>3. n - y \in T
            BY <5>2
          <5>4. 0..n \subseteq Nat
            BY <1>1
          <5>5. T \subseteq Nat
            BY <5>4
          <5> HIDE DEF T
          <5> QED
            BY <5>3, <5>5
        <4>2. PICK t \in T : \A y \in T : t <= y
          <5> HIDE DEF T
          <5> QED
            BY <4>1, Least
        <4>3. n - t \in keep /\ t \in 0..n
          BY <4>2
        <4>4. ASSUME NEW y \in keep PROVE n - t >= y
          <5>1. n - y \in 0..n /\ n - (n - y) = y
            BY <1>1
          <5>2. n - y \in T
            BY <5>1
          <5>3. t <= n - y
            BY <4>2, <5>2
          <5> QED
            BY <1>1, <4>3, <5>3
        <4> QED
          BY <4>3, <4>4
      <3>2. Max(keep) \in keep
        <4> HIDE DEF keep
        <4> QED
          BY <3>1 DEF Max
      <3>3. Max(keep) \in 0..n
        BY <1>1, <3>2
      <3> QED
        BY <2>2, <3>3
    <2> QED
      BY <2>1, <2>2
  <1>3. RStripEOR(data) = SubSeq(data, 1, k)
    BY DEF RStripEOR
  <1> HIDE DEF n, k
  <1>4. \A i \in 1..k : data[i] \in StreamBytes
    BY <1>1, <1>2
  <1>5. SubSeq(data, 1, k) \in Seq(StreamBytes)
    BY <1>1, <1>2, <1>4, SubSeqProperties
  <1>6. LStripEW(data) \in Seq(StreamBytes)
    BY DEF LStripEW
  <1> QED
    BY <1>3, <1>5, <1>6

\* The handlers return bytes.
LEMMA ReturnsBytes ==
  ASSUME NEW data \in Seq(StreamBytes)
  PROVE  Dispatch(data).ret \in Seq(StreamBytes)
  <1>1. AsciiMode(data).ret \in Seq(StreamBytes)
    <2>1. AsciiVt100(data).ret \in Seq(StreamBytes)
      BY Stripped DEF AsciiVt100
    <2>2. AsciiRecord(data).ret \in Seq(StreamBytes)
      <3>1. LStripEW(RStripEOR(data)) \in Seq(StreamBytes)
        BY Stripped
      <3> QED
        BY <3>1 DEF AsciiRecord
    <2>3. AsciiFallback(data).ret \in Seq(StreamBytes)
      BY Stripped DEF AsciiFallback
    <2> QED
      BY <2>1, <2>2, <2>3 DEF AsciiMode
  <1>2. Tn3270Mode(data).ret \in Seq(StreamBytes)
    <2> DEFINE r == RStripEOR(data)
    <2> DEFINE k == HeaderLength(data) + 1
    <2>1. r \in Seq(StreamBytes) /\ k \in {1, 3}
      BY Stripped DEF HeaderLength
    <2>2. RecordBody(data) = LStripEW(SubSeq(r, k, Len(r)))
      BY DEF RecordBody
    <2> HIDE DEF r, k
    <2>3. SubSeq(r, k, Len(r)) \in Seq(StreamBytes)
      <3>1. Len(r) \in Nat /\ \A i \in k..Len(r) : r[i] \in StreamBytes
        BY <2>1
      <3> QED
        BY <2>1, <3>1, SubSeqProperties
    <2>4. RecordBody(data) \in Seq(StreamBytes)
      BY <2>2, <2>3, Stripped
    <2> QED
      BY <2>4 DEF Tn3270Mode
  <1> QED
    BY <1>1, <1>2 DEF Dispatch

\* A read takes a piece off the wire.
LEMMA PieceTaken ==
  ASSUME NEW w \in Seq(StreamBytes), NEW n \in 1..Len(w)
  PROVE  SubSeq(w, 1, n) \in Seq(StreamBytes) /\ SubSeq(w, n + 1, Len(w)) \in Seq(StreamBytes)
  <1>1. Len(w) \in Nat /\ \A i \in 1..Len(w) : w[i] \in StreamBytes
    OBVIOUS
  <1>2. \A i \in 1..n : w[i] \in StreamBytes
    BY <1>1
  <1>3. \A i \in (n + 1)..Len(w) : w[i] \in StreamBytes
    BY <1>1
  <1> QED
    BY <1>1, <1>2, <1>3, SubSeqProperties

(***************************************************************************)
(* The inductive invariant of the scanner: what it holds are bytes, the    *)
(* stash is replayed at most once, and the cuts do not matter.             *)
(***************************************************************************)
StreamInv ==
  /\ wire \in Seq(StreamBytes) /\ got \in Seq(StreamBytes) /\ buffer \in Seq(StreamBytes)
  /\ stash \in Seq(StreamBytes) /\ out \in Seq(StreamBytes)
  /\ commands \in Seq(Seq(StreamBytes))
  /\ replayed \in {"no", "clean", "mixed"}
  /\ phase = "negotiating" => replayed = "no"
  /\ replayed # "no" => stash = << >>
  /\ CutsDoNotMatter

\* A scan of nothing finds nothing.
LEMMA NothingScanned ==
  Scan(<< >>) = [out |-> << >>, cmds |-> << >>, rest |-> << >>]
  <1> DEFINE e == << >>
  <1>1. e \in Seq(StreamBytes) /\ Len(e) = 0
    OBVIOUS
  <1>2. PICK f : IsRun(f, e, Len(e)) /\ Scan(e) = Result(e, f[Len(e)])
    BY <1>1, ScanIsRun
  <1>3. f[Len(e)] = ScanStart
    BY <1>1, <1>2 DEF IsRun
  <1>4. SubSeq(e, 1, Len(e)) = << >>
    BY <1>1, SubSeqEmpty
  <1> QED
    BY <1>2, <1>3, <1>4 DEF Result, ScanStart

\* A read keeps the account of the stream.
LEMMA ReadAccounted ==
  ASSUME StreamInv, NEW n \in 1..Len(wire), Read(n)
  PROVE  /\ wire' \in Seq(StreamBytes) /\ got' \in Seq(StreamBytes) /\ buffer' \in Seq(StreamBytes)
         /\ out' \in Seq(StreamBytes) /\ commands' \in Seq(Seq(StreamBytes))
         /\ Found \in Seq(StreamBytes)
         /\ replayed' = replayed => CutsDoNotMatter'
  <1> DEFINE piece == SubSeq(wire, 1, n)
  <1> DEFINE s == Scan(buffer \o piece)
  <1>1. piece \in Seq(StreamBytes) /\ wire' \in Seq(StreamBytes)
    BY PieceTaken DEF StreamInv, Read
  <1>2. /\ got' = got \o piece /\ buffer' = s.rest /\ commands' = commands \o s.cmds
        /\ out' = out \o s.out
    BY DEF Read, Rest
  <1> HIDE DEF piece
  <1>3. buffer \o piece \in Seq(StreamBytes)
    BY <1>1, ConcatProperties DEF StreamInv
  <1>4. s \in [out : Seq(StreamBytes), cmds : Seq(Seq(StreamBytes)), rest : Seq(StreamBytes)]
    BY <1>3, ScanTypes
  <1>5. s.out \in Seq(StreamBytes) /\ s.cmds \in Seq(Seq(StreamBytes)) /\ s.rest \in Seq(StreamBytes)
    <2> HIDE DEF s
    <2> QED
      BY <1>4
  <1>6. got' \in Seq(StreamBytes) /\ buffer' \in Seq(StreamBytes)
    BY <1>1, <1>2, <1>5, ConcatProperties DEF StreamInv
  <1>7. out' \in Seq(StreamBytes) /\ commands' \in Seq(Seq(StreamBytes))
    <2> HIDE DEF s
    <2>1. out \o s.out \in Seq(StreamBytes)
      BY <1>5, ConcatProperties DEF StreamInv
    <2>2. commands \o s.cmds \in Seq(Seq(StreamBytes))
      BY <1>5, ConcatProperties DEF StreamInv
    <2> QED
      BY <1>2, <2>1, <2>2
  <1>8. Found \in Seq(StreamBytes)
    <2> DEFINE o == out'
    <2> DEFINE k == Len(out) + 1
    <2>1. o \in Seq(StreamBytes) /\ k \in Nat /\ k >= 1 /\ Len(o) \in Nat
      BY <1>7 DEF StreamInv
    <2>2. Found = SubSeq(o, k, Len(o))
      BY DEF Found
    <2> HIDE DEF o, k
    <2>3. \A i \in k..Len(o) : o[i] \in StreamBytes
      BY <2>1
    <2> QED
      BY <2>1, <2>2, <2>3, SubSeqProperties
  <1>9. ASSUME replayed' = replayed PROVE CutsDoNotMatter'
    <2> SUFFICES ASSUME replayed # "mixed"
                 PROVE  commands' = Scan(got').cmds /\ out' = Scan(got').out /\ buffer' = Scan(got').rest
      BY <1>9 DEF CutsDoNotMatter
    <2>1. commands = Scan(got).cmds /\ out = Scan(got).out /\ buffer = Scan(got).rest
      BY DEF StreamInv, CutsDoNotMatter
    <2>2. Scan(got \o piece) = [out |-> Scan(got).out \o Scan(Scan(got).rest \o piece).out,
                                cmds |-> Scan(got).cmds \o Scan(Scan(got).rest \o piece).cmds,
                                rest |-> Scan(Scan(got).rest \o piece).rest]
      BY <1>1, ScanInPieces DEF StreamInv
    <2>3. Scan(got \o piece) = [out |-> out \o s.out, cmds |-> commands \o s.cmds, rest |-> s.rest]
      BY <2>1, <2>2
    <2> HIDE DEF s
    <2> QED
      BY <1>2, <2>3
  <1> QED
    BY <1>1, <1>6, <1>7, <1>8, <1>9

\* The stash adds nothing to the account unless it is replayed mixed.
LEMMA ReplayAccounted == StreamInv /\ ReceivePending => StreamInv'
  <1> SUFFICES ASSUME StreamInv, ReceivePending PROVE StreamInv'
    OBVIOUS
  <1> DEFINE b == buffer \o stash
  <1>1. b \in Seq(StreamBytes)
    BY ConcatProperties DEF StreamInv
  <1> DEFINE s == Scan(b)
  <1>2. /\ phase = "data" /\ stash' = << >> /\ buffer' = s.rest /\ commands' = commands \o s.cmds
        /\ replayed' = IF buffer = << >> /\ ~Contains(stash, "IAC") THEN "clean" ELSE "mixed"
        /\ wire' = wire /\ got' = got /\ phase' = phase /\ out' = out /\ stash # << >>
    BY DEF ReceivePending, Rest
  <1> HIDE DEF b
  <1>3. s \in [out : Seq(StreamBytes), cmds : Seq(Seq(StreamBytes)), rest : Seq(StreamBytes)]
    BY <1>1, ScanTypes
  <1> HIDE DEF s
  <1>4. s.cmds \in Seq(Seq(StreamBytes)) /\ s.rest \in Seq(StreamBytes)
    BY <1>3
  <1>5. commands \o s.cmds \in Seq(Seq(StreamBytes))
    BY <1>4, ConcatProperties DEF StreamInv
  <1>6. CutsDoNotMatter'
    <2> SUFFICES ASSUME replayed' # "mixed"
                 PROVE  commands' = Scan(got').cmds /\ out' = Scan(got').out /\ buffer' = Scan(got').rest
      BY DEF CutsDoNotMatter
    <2>1. buffer = << >> /\ ~Contains(stash, "IAC")
      BY <1>2
    <2>2. b = stash
      BY <2>1 DEF b, StreamInv
    <2>3. s.cmds = << >> /\ s.rest = << >>
      BY <1>1, <2>1, <2>2, PlainScan DEF s
    <2>4. commands \o << >> = commands
      BY ConcatEmptySeq DEF StreamInv
    <2>5. replayed = "no"
      BY <1>2 DEF StreamInv
    <2>6. commands = Scan(got).cmds /\ out = Scan(got).out /\ buffer = Scan(got).rest
      BY <2>5 DEF StreamInv, CutsDoNotMatter
    <2> QED
      BY <1>2, <2>1, <2>3, <2>4, <2>6
  <1>7. /\ replayed' \in {"no", "clean", "mixed"} /\ phase' # "negotiating" /\ stash' = << >>
        /\ << >> \in Seq(StreamBytes)
    BY <1>2
  <1> QED
    BY <1>2, <1>4, <1>5, <1>6, <1>7 DEF StreamInv

\* The steps keep the scanner's invariant.
LEMMA StreamSteps == StreamInv /\ [StreamNext]_streamVars => StreamInv'
  <1> SUFFICES ASSUME StreamInv, [StreamNext]_streamVars PROVE StreamInv'
    OBVIOUS
  <1>1. ASSUME NEW n \in 1..Len(wire), ReaderLoop(n) PROVE StreamInv'
    <2>1. /\ wire' \in Seq(StreamBytes) /\ got' \in Seq(StreamBytes) /\ buffer' \in Seq(StreamBytes)
          /\ out' \in Seq(StreamBytes) /\ commands' \in Seq(Seq(StreamBytes))
          /\ Found \in Seq(StreamBytes) /\ CutsDoNotMatter'
      BY <1>1, ReadAccounted DEF ReaderLoop
    <2>2. stash' \in Seq(StreamBytes)
      <3>1. stash' = stash \/ stash' = stash \o Dispatch(Found).ret
        BY <1>1 DEF ReaderLoop
      <3>2. Dispatch(Found).ret \in Seq(StreamBytes)
        BY <2>1, ReturnsBytes
      <3>3. stash \o Dispatch(Found).ret \in Seq(StreamBytes)
        BY <3>2, ConcatProperties DEF StreamInv
      <3> QED
        BY <3>1, <3>3 DEF StreamInv
    <2>3. phase = "negotiating" /\ phase' = phase /\ replayed' = replayed
      BY <1>1 DEF ReaderLoop
    <2> QED
      BY <2>1, <2>2, <2>3 DEF StreamInv
  <1>2. ASSUME NEW n \in 1..Len(wire), ReceiveData(n) PROVE StreamInv'
    <2>1. /\ wire' \in Seq(StreamBytes) /\ got' \in Seq(StreamBytes) /\ buffer' \in Seq(StreamBytes)
          /\ out' \in Seq(StreamBytes) /\ commands' \in Seq(Seq(StreamBytes)) /\ CutsDoNotMatter'
      BY <1>2, ReadAccounted DEF ReceiveData
    <2>2. phase = "data" /\ phase' = phase /\ replayed' = replayed /\ stash' = stash
      BY <1>2 DEF ReceiveData
    <2> QED
      BY <2>1, <2>2 DEF StreamInv
  <1>3. CASE NegotiationEnds
    BY <1>3 DEF NegotiationEnds, StreamInv, CutsDoNotMatter
  <1>4. CASE ReceivePending
    BY <1>4, ReplayAccounted
  <1>5. CASE SendSysreq
    BY <1>5 DEF SendSysreq, StreamInv, CutsDoNotMatter
  <1>6. CASE UNCHANGED streamVars
    BY <1>6 DEF streamVars, StreamInv, CutsDoNotMatter
  <1> QED
    BY <1>1, <1>2, <1>3, <1>4, <1>5, <1>6 DEF StreamNext

(***************************************************************************)
(* Whatever the host sends and wherever the reads cut it, the Telnet       *)
(* commands, the data and the unfinished command are those of one scan of  *)
(* all that was read, unless the stash was replayed behind an unfinished   *)
(* command or with an escaped IAC in it.                                   *)
(***************************************************************************)
THEOREM CutsIrrelevant == StreamSpec => []CutsDoNotMatter
  <1>1. StreamInit => StreamInv
    <2> SUFFICES ASSUME StreamInit PROVE StreamInv
      OBVIOUS
    <2>1. wire \in Seq(StreamBytes)
      BY StreamsAssumption DEF StreamInit
    <2>2. CutsDoNotMatter
      BY NothingScanned DEF StreamInit, CutsDoNotMatter
    <2>3. << >> \in Seq(StreamBytes) /\ << >> \in Seq(Seq(StreamBytes))
      OBVIOUS
    <2> QED
      BY <2>1, <2>2, <2>3 DEF StreamInit, StreamInv
  <1>2. StreamInv => CutsDoNotMatter
    BY DEF StreamInv
  <1> QED
    BY <1>1, <1>2, StreamSteps, PTL DEF StreamSpec

=============================================================================
