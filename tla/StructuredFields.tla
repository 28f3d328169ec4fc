-------------------------- MODULE StructuredFields --------------------------
(***************************************************************************)
(* Structured fields and the other records of a TN3270E stream             *)
(* (data_stream.py): what DataStreamSender and the reply builders write,   *)
(* what the tolerant parser takes off the wire, what the records that are  *)
(* not 3270 data do, and what StructuredFieldValidator accepts.            *)
(*                                                                         *)
(* Bytes are numbers.  wire holds what the parser has still to read.       *)
(***************************************************************************)
EXTENDS Integers, Sequences, SequencesExt, Header

CONSTANTS
  BodyBytes,   \* bound: the bytes of fields given to the validator
  MaxBody,     \* bound: their number
  Addresses    \* bound: the screen addresses that are sent

ASSUME FieldAssumption ==
  BodyBytes \subseteq 0..255 /\ MaxBody \in Nat /\ Addresses \subseteq 0..4095

FieldByte == 136             \* STRUCTURED_FIELD
SnaType == 1
PrinterStatusType == 2
BindType == 3
SfeType == 40
QueryReplyType == 129        \* the type that sf_handlers knows
QueryReplySf == 147          \* the type that the builders write
DeviceType == 132            \* QUERY_REPLY_DEVICE_TYPE
Characteristics == 129       \* QUERY_REPLY_CHARACTERISTICS
PscSubfield == 1             \* BIND_SF_SUBFIELD_PSC

VARIABLES
  wire,      \* bytes before the parser
  built,     \* the builder of the first field on the wire, or "none"
  taken,     \* the fields that the parser has read, in order
  device,    \* what the records have done: the printer's status, whether a job ended,
             \* whether a BIND was announced, the last SNA response
  control,   \* the flags that DATA-STREAM-CTL codes set
  checked,   \* the field last given to the validator, with its verdict
  sba        \* the address last sent, and what the parser makes of it

fieldVars == <<wire, built, taken, device, control, checked, sba>>

\* _parse_sna_response(): what is missing is None.
SnaOf(data) ==
  [type |-> IF data = <<>> THEN 0 ELSE data[1],
   flags |-> IF Len(data) > 1 THEN data[2] ELSE -1,
   sense |-> IF Len(data) > 3 THEN data[3] * 256 + data[4] ELSE -1]

NothingPending == [request |-> FALSE, bid |-> FALSE, cancel |-> FALSE,
                   signal |-> FALSE, ascii |-> FALSE]

NotChecked == [type |-> -1, data |-> <<>>, valid |-> TRUE]
NotRead == -1

FieldsInit ==
  /\ wire = <<>> /\ built = "none" /\ taken = <<>>
  /\ device = [status |-> 0, ended |-> FALSE, printed |-> FALSE, bound |-> FALSE, sna |-> SnaOf(<<>>)]
  /\ control = NothingPending
  /\ checked = NotChecked
  /\ sba = [address |-> NotRead, mode |-> "12-bit", read |-> NotRead]

-----------------------------------------------------------------------------
(***************************************************************************)
(* What is built.  The two length bytes count the type and the data in     *)
(* build_query_reply_sf() and build_query_sf() only.                       *)
(***************************************************************************)
Field(length, type, data) == <<FieldByte, 0, length, type>> \o data

QueryReply(query, data) == Field(2 + Len(data), QueryReplySf, <<query>> \o data)

\* A name of ten letters that is thirteen bytes long, and the model.
DeviceTypeReply ==
  LET reply == <<DeviceType, 1, 10>> \o [i \in 1..13 |-> 73] \o <<2>>
  IN Field(3 + Len(reply), QueryReplySf, reply)

CharacteristicsReply == Field(3 + 2, QueryReplySf, <<Characteristics, 0, 0>>)

PrinterStatusField(status) == Field(2 + 2, PrinterStatusType, <<status>>)

QueryField(query) == Field(1, query, <<>>)

Built(kind) ==
  CASE kind = "query_reply" -> QueryReply(Characteristics, <<7>>)
    [] kind = "device_type" -> DeviceTypeReply
    [] kind = "characteristics" -> CharacteristicsReply
    [] kind = "printer_status" -> PrinterStatusField(64)
    [] kind = "query" -> QueryField(2)

Builders == {"query_reply", "device_type", "characteristics", "printer_status", "query"}

\* The length that the parser goes by: that of the type and the data.
CountsTypeAndData(f) == f[2] * 256 + f[3] = Len(f) - 3

\* send_printer_status_sf() and its like: a field, and another behind it.
Send(kind) ==
  /\ wire = <<>>
  /\ wire' = Built(kind) \o PrinterStatusField(0)
  /\ built' = kind /\ taken' = <<>>
  /\ UNCHANGED <<device, control, checked, sba>>

-----------------------------------------------------------------------------
(***************************************************************************)
(* build_sba() and build_input_stream() against _handle_sba().  Twelve-bit *)
(* addresses are read as two groups of six bits.                           *)
(***************************************************************************)
SbaBytes(a) == <<(a \div 256) % 64, a % 256>>

SbaRead(bytes, mode) ==
  IF mode = "14-bit" THEN bytes[1] * 256 + bytes[2]
  ELSE (bytes[1] % 64) * 64 + (bytes[2] % 64)

\* Both builders write an address the same way.
SendAddress(a, mode) ==
  /\ sba' = [address |-> a, mode |-> mode, read |-> SbaRead(SbaBytes(a), mode)]
  /\ UNCHANGED <<wire, built, taken, device, control, checked>>

-----------------------------------------------------------------------------
(***************************************************************************)
(* _handle_structured_field_tolerant(), behind the field's first byte.     *)
(***************************************************************************)
LengthOf(body) == body[1] * 256 + body[2]

\* The length counts the type too; a field that claims more than there is gets
\* what there is.
DataOf(body) ==
  LET claimed == IF LengthOf(body) = 0 THEN 0 ELSE LengthOf(body) - 1
      n == IF claimed > Len(body) - 3 THEN Len(body) - 3 ELSE claimed
  IN SubSeq(body, 4, 3 + n)

\* handle_bind_image() of the negotiator: an image without dimensions keeps the
\* size of the screen and sets the function bit.
Bound == [device EXCEPT !.bound = TRUE]

\* _handle_bind_sf() finds no _parse_bind_image_sf() and binds with an empty
\* image.
BindHandled == Bound

PrinterStatusHandled(data) ==
  IF data = <<>> THEN device ELSE [device EXCEPT !.status = data[1]]

\* Fields of these types are logged.
LoggedTypes == {64, 65, 66, 67, 68, 69, 70, 71, 72, 73, 74, 75}

Handled(type, data) ==
  CASE type = PrinterStatusType -> PrinterStatusHandled(data)
    [] type = BindType -> BindHandled
    [] type = SnaType -> [device EXCEPT !.sna = SnaOf(data)]
    [] type \in LoggedTypes -> device
    [] OTHER -> device      \* unknown types, and query replies, which are logged

TakeField ==
  /\ wire # <<>> /\ Head(wire) = FieldByte
  /\ LET body == IF Len(wire) > 1 /\ wire[2] = FieldByte THEN SubSeq(wire, 3, Len(wire))
                 ELSE Tail(wire)
     IN IF Len(body) < 3
        THEN wire' = <<>> /\ UNCHANGED <<taken, device>>    \* _skip_structured_field
        ELSE LET data == DataOf(body) IN
             /\ taken' = Append(taken, [type |-> body[3], data |-> data])
             /\ device' = Handled(body[3], data)
             /\ wire' = SubSeq(body, 4 + Len(data), Len(body))
  /\ UNCHANGED <<built, control, checked, sba>>

\* Bytes between fields are orders and text, one after the other.
TakeByte ==
  /\ wire # <<>> /\ Head(wire) # FieldByte
  /\ wire' = Tail(wire)
  /\ UNCHANGED <<built, taken, device, control, checked, sba>>

-----------------------------------------------------------------------------
(***************************************************************************)
(* parse() by the data type of the record.  The parser has a printer.      *)
(* Records of unknown types are parsed as 3270 data; RESPONSE, SSCP-LU     *)
(* data and SCS control codes change nothing.                              *)
(***************************************************************************)
RecordKinds == {"scs", "print_eoj", "bind_image", "request", "ignored", "unknown"}

\* _handle_scs_data(): the bytes go to the printer's buffer.
ScsHandled == [device EXCEPT !.printed = TRUE]

\* _handle_request(): the error condition is cleared.
RequestHandled(data) ==
  IF data # <<>> /\ data[1] % 2 = 1 THEN [device EXCEPT !.status = 0] ELSE device

Record(kind, data) ==
  /\ wire = <<>>
  /\ wire' = IF kind = "unknown" THEN data ELSE <<>>
  /\ built' = "none" /\ taken' = <<>>
  /\ device' = CASE kind = "scs" -> ScsHandled
                 [] kind = "print_eoj" -> [device EXCEPT !.ended = TRUE]
                 [] kind = "bind_image" -> BindHandled
                 [] kind = "request" -> RequestHandled(data)
                 [] OTHER -> device
  /\ UNCHANGED <<control, checked, sba>>

\* _handle_data_stream_ctl(); parse() itself calls it for 0x01 only.
DataStreamCtl(code) ==
  /\ control' = CASE code = 3 -> [control EXCEPT !.ascii = TRUE]
                  [] code = 4 -> [control EXCEPT !.request = TRUE]
                  [] code = 5 -> [control EXCEPT !.bid = TRUE]
                  [] code = 8 -> [control EXCEPT !.cancel = TRUE, !.bid = FALSE,
                                                 !.request = FALSE]
                  [] code = 9 -> [control EXCEPT !.signal = TRUE]
                  [] OTHER -> control
  /\ UNCHANGED <<wire, built, taken, device, checked, sba>>

-----------------------------------------------------------------------------
(***************************************************************************)
(* StructuredFieldValidator: data starts with the field's three bytes.     *)
(***************************************************************************)
\* The loop of _validate_bind_image(); a subfield that ends behind the field is
\* an error of the parser, and an invalid field.
Subfields(b) ==
  LET ok[i \in 1..(Len(b) + 1)] ==
        \/ Len(b) - i + 1 < 2
        \/ /\ b[i] >= 2
           /\ i + b[i] <= Len(b) + 1
           /\ b[i + 1] = PscSubfield => b[i] >= 6
           /\ ok[i + b[i]]
  IN ok[1]

LengthIsValid(data) ==
  Len(data) >= 3 /\ data[2] * 256 + data[3] \in 3..Len(data)

\* An SNA response is read to its fourth byte, so six bytes are not enough.
ValidByType(type, data) ==
  CASE type = BindType -> Len(data) >= 8 /\ Subfields(SubSeq(data, 4, Len(data)))
    [] type = SfeType -> Len(data) >= 6 /\ Len(data) % 2 = 0
    [] type = SnaType -> Len(data) >= 7
    [] type \in {QueryReplyType, PrinterStatusType} -> Len(data) >= 4
    [] OTHER -> TRUE

Validate(type, data) ==
  /\ checked' = [type |-> type, data |-> data,
                 valid |-> LengthIsValid(data) /\ ValidByType(type, data)]
  /\ UNCHANGED <<wire, built, taken, device, control, sba>>

-----------------------------------------------------------------------------
FieldsNext ==
  \/ \E kind \in Builders : Send(kind)
  \/ TakeField \/ TakeByte
  \/ \E kind \in RecordKinds, data \in {<<>>, <<1>>, Field(3, BindType, <<0, 0>>),
                                       Field(5, SnaType, <<1, 4, 8, 10>>)} :
       Record(kind, data)
  \/ \E code \in 1..9 : DataStreamCtl(code)

\* The validator starts afresh at every call and an address needs no state, so
\* one call of each shows all they do.
CallsNext ==
  \/ /\ sba.read = NotRead /\ checked = NotChecked
     /\ \E a \in Addresses, mode \in {"12-bit", "14-bit"} : SendAddress(a, mode)
  \/ /\ sba.read = NotRead /\ checked = NotChecked
     /\ \E type \in {BindType, SfeType, SnaType, PrinterStatusType, 200} :
          \E n \in 0..MaxBody : \E body \in [1..n -> BodyBytes] : \E claimed \in {2, n + 3} :
            Validate(type, <<FieldByte, 0, claimed>> \o body)

FieldsSpec == FieldsInit /\ [][FieldsNext \/ CallsNext]_fieldVars

-----------------------------------------------------------------------------
(***************************************************************************)
(* A field that the library built is read with its own type and, first of  *)
(* all, its own data; and where its length is what the parser goes by, the *)
(* field behind it is read too (data_stream.py:3049-3062).  The builders   *)
(* that count something else are a disagreement inside the code (3165,     *)
(* 3183, 4420): nothing is promised of what follows their fields.          *)
(***************************************************************************)
FieldsKeepToTheirLength ==
  built # "none" /\ wire = <<>> =>
    LET first == Built(built)
        own == SubSeq(first, 5, Len(first))
    IN /\ taken # <<>>
       /\ taken[1].type = first[4]
       /\ IsPrefix(own, taken[1].data)
       /\ CountsTypeAndData(first) =>
            taken = <<[type |-> first[4], data |-> own],
                      [type |-> PrinterStatusType, data |-> <<0>>]>>

(***************************************************************************)
(* A BIND field that the validator accepts can be cut into subfields of at *)
(* least two bytes, each of the length it gives and the screen size in     *)
(* full, with at most one byte left over; and every field that can be cut  *)
(* so is accepted (data_stream.py:396-425).                                *)
(***************************************************************************)
BindSubfieldsTile ==
  checked.type = BindType /\ LengthIsValid(checked.data) /\ Len(checked.data) >= 8 =>
    LET b == SubSeq(checked.data, 4, Len(checked.data))
        Tiles(cuts) ==
          /\ 1 \in cuts
          /\ \E c \in cuts : c >= Len(b) /\ \A d \in cuts : d <= c
          /\ \A c \in cuts : c < Len(b) =>
               /\ b[c] >= 2 /\ c + b[c] \in cuts
               /\ \A d \in cuts : d <= c \/ d >= c + b[c]
               /\ b[c + 1] = PscSubfield => b[c] >= 6
    IN checked.valid <=> \E cuts \in SUBSET (1..(Len(b) + 1)) : Tiles(cuts)

(***************************************************************************)
(* Fourteen-bit addresses are read as they were written                    *)
(* (data_stream.py:4368-4374, 1950-1959).  Twelve-bit addresses are not:   *)
(* build_sba() says that it writes two halves of six bits (4352) and       *)
(* writes a high and a low byte (4381-4382), which only read back below 64.*)
(***************************************************************************)
LongAddressesAreReadBack == sba.mode = "14-bit" => sba.read = sba.address

(***************************************************************************)
(* What a reader accepts is what was written, or begins with it: a header  *)
(* is never taken for another one, a structured field has its own type and *)
(* data, a long address is itself; and the validator accepts the BIND      *)
(* fields that can be cut into subfields (tn3270e_header.py:71-156,        *)
(* data_stream.py:396, 3049).                                              *)
(***************************************************************************)
AcceptedIsWritten ==
  /\ HeadersAreNotMisread /\ FieldsKeepToTheirLength /\ LongAddressesAreReadBack
  /\ BindSubfieldsTile
=============================================================================
