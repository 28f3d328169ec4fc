------------------------------ MODULE MCCodecs ------------------------------
(***************************************************************************)
(* What the library reads and writes besides the 3270 data stream, side by *)
(* side: VT100 text, TN3270E headers and their sequence numbers, extended  *)
(* attributes with snapshots, structured fields.  A behaviour exercises    *)
(* one of them (part).                                                     *)
(***************************************************************************)
EXTENDS Vt100, Header, SequenceNumbers, Attributes, StructuredFields

VARIABLE part

vars == <<part, vt100Vars, headerVars, seqVars, attributeVars, fieldVars>>

Init ==
  /\ part \in {"vt100", "header", "sequence", "attributes", "fields", "calls"}
  /\ Vt100Init /\ HeaderInit /\ SeqInit /\ AttributesInit /\ FieldsInit

Vt100Step == Vt100Next /\ UNCHANGED <<headerVars, seqVars, attributeVars, fieldVars>>
HeaderStep == HeaderNext /\ UNCHANGED <<vt100Vars, seqVars, attributeVars, fieldVars>>
SequenceStep == SeqNext /\ UNCHANGED <<vt100Vars, headerVars, attributeVars, fieldVars>>
AttributesStep == AttributesNext /\ UNCHANGED <<vt100Vars, headerVars, seqVars, fieldVars>>
FieldsStep == FieldsNext /\ UNCHANGED <<vt100Vars, headerVars, seqVars, attributeVars>>
CallsStep == CallsNext /\ UNCHANGED <<vt100Vars, headerVars, seqVars, attributeVars>>

Next ==
  /\ UNCHANGED part
  /\ \/ part = "vt100" /\ Vt100Step
     \/ part = "header" /\ HeaderStep
     \/ part = "sequence" /\ SequenceStep
     \/ part = "attributes" /\ AttributesStep
     \/ part = "fields" /\ FieldsStep
     \/ part = "calls" /\ CallsStep

Spec == Init /\ [][Next]_vars

-----------------------------------------------------------------------------
\* Values that callers and hosts give to extended attributes.
MCInputs == {IntValue(0), IntValue(1), IntValue(2), IntValue(255), IntValue(256),
             Numeral(1), Name("blue"), Name("none")}
=============================================================================
