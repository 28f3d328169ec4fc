----------------------------- MODULE Attributes -----------------------------
(***************************************************************************)
(* Extended field attributes (field_attributes.py), the screen buffer's    *)
(* entry points for them (screen_buffer.py) and snapshots of a screen      *)
(* (snapshot.py).                                                          *)
(*                                                                         *)
(* An attribute of a known type is an object that has validated its value; *)
(* a value that no class accepts, or of a type without a class, is kept    *)
(* raw.  Only an object can be written to a dictionary, so a raw value     *)
(* makes a snapshot fail.  A snapshot records neither the field flags      *)
(* hidden, bypass and light_pen nor the field starts, and the limits of a  *)
(* validation attribute are written but not read back.                     *)
(***************************************************************************)
EXTENDS Integers

CONSTANTS
  Positions,    \* positions of the screen
  Keys,         \* attribute types in use, of those below
  Inputs,       \* values that callers pass: ints, numerals, names
  BaseBytes,    \* base attributes of fields
  MaxSets       \* changes of attributes

ByteMax == 255
Bits == {1, 2}    \* effects, rules and styles are bits

KnownTypes == {"color", "highlight", "validation", "outlining", "light_pen",
               "background", "character_set"}
\* Types that only the order SFE knows have no class.
SfeOnlyTypes == {"default", "transparency", "extended_color", "extended_highlight",
                 "dbcs_charset", "all_attributes"}

IntValue(n) == [kind |-> "int", n |-> n, name |-> ""]
Numeral(n) == [kind |-> "numeral", n |-> n, name |-> ""]
Name(s) == [kind |-> "name", n |-> 0, name |-> s]

ASSUME KeysExist == Keys \subseteq KnownTypes \cup SfeOnlyTypes
ASSUME InputsAreValues ==
  \A v \in Inputs : v.kind \in {"int", "numeral", "name"} /\ v.n \in Int

ASSUME BaseIsBytes == BaseBytes \subseteq Nat

VARIABLES
  ext,        \* [position -> [type -> attribute]]: _extended_attributes
  base,       \* [position -> byte]: attributes
  starts,     \* _field_starts
  fields,     \* [start -> field] as last detected
  sets,       \* changes so far
  refused,    \* history: a value came that no class takes
  snap,       \* a snapshot
  original,   \* history: the attributes and fields it was taken of
  restored    \* the screen made of it

attributeVars == <<ext, base, starts, fields, sets, refused, snap, original, restored>>

Absent == [kind |-> "none", n |-> 0, limited |-> FALSE]
Raw(v) == [kind |-> "raw", n |-> v.n, limited |-> FALSE]
Object(n) == [kind |-> "object", n |-> n, limited |-> FALSE]
NoScreen == [taken |-> FALSE, failed |-> FALSE, refused |-> FALSE,
             ext |-> <<>>, starts |-> {}, fields |-> <<>>]

NoAttributes == [p \in Positions |-> [k \in Keys |-> Absent]]

AttributesInit ==
  /\ ext = NoAttributes
  /\ base = [p \in Positions |-> 0]
  /\ starts = {} /\ fields = <<>>
  /\ sets = 0 /\ refused = FALSE
  /\ snap = NoScreen /\ original = NoScreen /\ restored = NoScreen

-----------------------------------------------------------------------------
(***************************************************************************)
(* What the classes accept: _validate_and_normalize() of each, used by     *)
(* constructor, setter and from_dict() alike.  Each table has more names;  *)
(* one or two stand for them.                                              *)
(***************************************************************************)
ColorNames == [blue |-> 1, white |-> 15]
EffectNames == [normal |-> 0, blink |-> 1]
ValidationNames == [none |-> 0, mandatory |-> 1]
StyleNames == [none |-> 0, box |-> 15]
CharacterSets == [default |-> 0, apl |-> 1]

InByte(n) == IF n \in 0..ByteMax THEN Object(n) ELSE Absent

\* A name, else a numeral, else an int, of a byte.
NameOrByte(names, v) ==
  CASE v.kind = "name" -> IF v.name \in DOMAIN names THEN Object(names[v.name]) ELSE Absent
    [] v.kind \in {"numeral", "int"} -> InByte(v.n)

ColorAttribute(v) == NameOrByte(ColorNames, v)
HighlightAttribute(v) == NameOrByte(EffectNames, v)
ValidationAttribute(v) == NameOrByte(ValidationNames, v)
OutliningAttribute(v) == NameOrByte(StyleNames, v)
BackgroundAttribute(v) == NameOrByte(ColorNames, v)

LightPenAttribute(v) ==
  IF v.kind # "name" /\ v.n \in {0, 1} THEN Object(v.n) ELSE Absent

\* Numerals are not names of a character set.
CharacterSetAttribute(v) ==
  IF v.kind = "numeral" THEN Absent ELSE NameOrByte(CharacterSets, v)

Construct(key, v) ==
  CASE key = "color" -> ColorAttribute(v)
    [] key = "highlight" -> HighlightAttribute(v)
    [] key = "validation" -> ValidationAttribute(v)
    [] key = "outlining" -> OutliningAttribute(v)
    [] key = "light_pen" -> LightPenAttribute(v)
    [] key = "background" -> BackgroundAttribute(v)
    [] key = "character_set" -> CharacterSetAttribute(v)
    [] OTHER -> Absent

\* ExtendedAttributeSet.set_attribute(): what no class takes is stored raw.
Stored(key, v) == IF Construct(key, v) = Absent THEN Raw(v) ELSE Construct(key, v)

\* to_dict() of an attribute, and set_extended_attribute() with what was
\* written: its value, not its limits.
\* Mutant: a value of zero is taken for the default and not written.
ToDictNonZero(a) == IF a.n = 0 THEN Absent ELSE a
ToDict(a) == a
SetBack(key, d) == IF d = Absent THEN Absent ELSE Stored(key, IntValue(d.n))

-----------------------------------------------------------------------------
HasBit(n, b) == (n \div b) % 2 = 1

\* A raw value has no .value and counts as zero.
ValueOf(a) == IF a.kind = "object" THEN a.n ELSE 0
FieldKeys == Keys \cap (KnownTypes \ {"light_pen"})
HasExtended(p) == \E k \in Keys : ext'[p][k] # Absent
Extended(p, key) == IF key \in Keys THEN ValueOf(ext'[p][key]) ELSE 0

\* _create_field_from_range(), of the screen as it is after the change.
CreateField(p) ==
  LET display == (base'[p] \div 4) % 4
  IN [protected |-> HasBit(base'[p], 64),
      modified |-> HasBit(base'[p], 32),    \* numeric is the same bit
      bypass |-> HasBit(base'[p], 1),
      hidden |-> display = 3,
      intensity |-> IF Extended(p, "highlight") # 0 THEN 1 ELSE display,
      light_pen |-> IF HasExtended(p) THEN Extended(p, "light_pen")
                    ELSE IF display \in {1, 2} THEN 1 ELSE 0,
      values |-> [k \in FieldKeys |-> Extended(p, k)]]

DetectFields == fields' = [p \in starts' |-> CreateField(p)]

Counted == sets < MaxSets /\ sets' = sets + 1

Changes(p, key, a) ==
  /\ Counted
  /\ ext' = [ext EXCEPT ![p][key] = a]
  /\ refused' = (refused \/ a.kind = "raw")
  /\ UNCHANGED <<base, snap, original, restored>>

\* set_attribute(): the base attribute begins a field.
SetAttribute(p, b) ==
  /\ Counted
  /\ base' = [base EXCEPT ![p] = b]
  /\ starts' = starts \cup {p}
  /\ UNCHANGED <<ext, refused, snap, original, restored>>
  /\ DetectFields

\* set_extended_attribute_sfe(), from the orders SFE and SA.
SetExtendedAttributeSfe(p, key, v) ==
  /\ v.kind = "int"
  /\ Changes(p, key, Stored(key, v))
  /\ UNCHANGED <<starts, fields>>

\* set_extended_attribute() makes a field of the position and detects anew.
SetExtendedAttribute(p, key, v) ==
  /\ Changes(p, key, Stored(key, v))
  /\ starts' = starts \cup {p}
  /\ DetectFields

\* The setter of an object: a refused value leaves the old one.
SetValue(p, key, v) ==
  /\ ext[p][key].kind = "object"
  /\ Construct(key, v) # Absent
  /\ Changes(p, key, [ext[p][key] EXCEPT !.n = Construct(key, v).n])
  /\ UNCHANGED <<starts, fields>>

\* A validation attribute with limits or a rule of its own.
SetLimits(p, key) ==
  /\ key = "validation"
  /\ ext[p][key].kind = "object"
  /\ Changes(p, key, [ext[p][key] EXCEPT !.limited = TRUE])
  /\ UNCHANGED <<starts, fields>>

\* set_effect(), set_validation() and set_style() do not validate.
WithBit(n, b, on) ==
  IF on = HasBit(n, b) THEN n ELSE IF on THEN n + b ELSE n - b

SetEffect(p, key, b, on) ==
  /\ key \in {"highlight", "validation", "outlining"}
  /\ ext[p][key].kind = "object"
  /\ Changes(p, key, [ext[p][key] EXCEPT !.n = WithBit(@, b, on)])
  /\ UNCHANGED <<starts, fields>>

RemoveAttribute(p, key) ==
  /\ ext[p][key] # Absent
  /\ Changes(p, key, Absent)
  /\ UNCHANGED <<starts, fields>>

\* The end of a write, during which detection was suspended.
ResumeFieldDetection ==
  /\ UNCHANGED <<ext, base, starts, sets, refused, snap, original, restored>>
  /\ DetectFields

\* The screen is cleared.
ClearScreen ==
  /\ ext' = NoAttributes
  /\ base' = [p \in Positions |-> 0]
  /\ starts' = {} /\ fields' = <<>>
  /\ refused' = FALSE
  /\ UNCHANGED <<sets, snap, original, restored>>

-----------------------------------------------------------------------------
HasRaw == \E p \in Positions, k \in Keys : ext[p][k].kind = "raw"

\* What a snapshot records of a field.
FieldDict(f) ==
  [protected |-> f.protected, modified |-> f.modified,
   intensity |-> f.intensity, values |-> f.values]

\* ScreenSnapshot(): a raw value has no to_dict() and raises.
TakeSnapshot ==
  /\ IF HasRaw
     THEN /\ snap' = [NoScreen EXCEPT !.failed = TRUE]
          /\ original' = [NoScreen EXCEPT !.refused = refused]
     ELSE /\ snap' = [NoScreen EXCEPT
                        !.taken = TRUE,
                        !.ext = [p \in Positions |-> [k \in Keys |-> ToDict(ext[p][k])]],
                        !.fields = [p \in DOMAIN fields |-> FieldDict(fields[p])]]
          /\ original' = [NoScreen EXCEPT !.taken = TRUE, !.ext = ext, !.starts = starts,
                                          !.fields = fields]
  /\ restored' = NoScreen
  /\ UNCHANGED <<ext, base, starts, fields, sets, refused>>

\* The flags that were not recorded are those of a new Field.
NewField(d) ==
  [protected |-> d.protected, modified |-> d.modified, bypass |-> FALSE, hidden |-> FALSE,
   intensity |-> d.intensity, light_pen |-> 0, values |-> d.values]

\* to_screen_buffer(): attributes are set one by one, which begins a field at
\* each and detects; the list of fields is then replaced by the snapshot's.
ToScreenBuffer ==
  /\ snap.taken /\ ~restored.taken
  /\ restored' = [NoScreen EXCEPT
                    !.taken = TRUE,
                    !.ext = [p \in Positions |-> [k \in Keys |-> SetBack(k, snap.ext[p][k])]],
                    !.starts = {p \in Positions : \E k \in Keys : snap.ext[p][k] # Absent},
                    !.fields = [p \in DOMAIN snap.fields |-> NewField(snap.fields[p])]]
  /\ UNCHANGED <<ext, base, starts, fields, sets, refused, snap, original>>

AttributesNext ==
  \/ \E p \in Positions, k \in Keys :
       \/ \E v \in Inputs :
            SetExtendedAttributeSfe(p, k, v) \/ SetExtendedAttribute(p, k, v) \/ SetValue(p, k, v)
       \/ \E b \in Bits, on \in BOOLEAN : SetEffect(p, k, b, on)
       \/ SetLimits(p, k) \/ RemoveAttribute(p, k)
  \/ \E p \in Positions, b \in BaseBytes : SetAttribute(p, b)
  \/ ResumeFieldDetection \/ ClearScreen \/ TakeSnapshot \/ ToScreenBuffer

AttributesSpec == AttributesInit /\ [][AttributesNext]_attributeVars

-----------------------------------------------------------------------------
(***************************************************************************)
(* A snapshot fails only on a screen that was given a value no class       *)
(* takes.  A screen made from one has the value of every attribute, as an  *)
(* object of its class, and what the snapshot records of every field:      *)
(* whatever constructors, setters and effect bits did, the value is        *)
(* accepted when it is set again (field_attributes.py:249-257,             *)
(* snapshot.py:35-60, 121-154).  Limits of a validation attribute, field   *)
(* starts and the flags bypass, hidden and light_pen are not promised:     *)
(* the code loses them.                                                    *)
(***************************************************************************)
RestoredAsTaken ==
  /\ snap.failed => original.refused
  /\ restored.taken =>
       /\ \A p \in Positions, k \in Keys :
            restored.ext[p][k] = [original.ext[p][k] EXCEPT !.limited = FALSE]
       /\ DOMAIN restored.fields = DOMAIN original.fields
       /\ \A p \in DOMAIN original.fields :
            FieldDict(restored.fields[p]) = FieldDict(original.fields[p])
=============================================================================
