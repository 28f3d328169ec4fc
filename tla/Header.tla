------------------------------- MODULE Header -------------------------------
(***************************************************************************)
(* The five-byte TN3270E header (tn3270e_header.py): how it is written and *)
(* read back, the extended-addressing bits, and the recovery of headers    *)
(* that cannot be read.  A byte has Radix values; its highest bit is the   *)
(* bit for extended addressing.                                            *)
(***************************************************************************)
EXTENDS Integers, Sequences, SequencesExt

CONSTANTS
  Radix,         \* values of a byte: 256 in the code
  LogLimit,      \* malformed headers that are logged: 100 in the code
  MaxWritten     \* headers written

ASSUME RadixIsEven == Radix \in Nat /\ Radix > 4 /\ Radix % 2 = 0
ASSUME LogIsLimited == LogLimit \in Nat

HighBit == Radix \div 2
NoResponse == 0
ResponseFlags == {0, 1, 2}     \* none, error, always
KnownTypes3 == {0, 1, 2}       \* TN3270-DATA, SCS-DATA, RESPONSE

NoHeader == [type |-> -1, request |-> 0, response |-> 0, seq |-> 0]

VARIABLES
  header,     \* a TN3270EHeader
  image,      \* its bytes, as sent
  readBack,   \* what from_bytes() makes of them
  malformed,  \* malformed_data_log
  written     \* headers written

headerVars == <<header, image, readBack, malformed, written>>

HeaderInit ==
  /\ header = [type |-> 0, request |-> 0, response |-> NoResponse, seq |-> 0]
  /\ image = <<>> /\ readBack = NoHeader
  /\ malformed = <<>>
  /\ written = 0

-----------------------------------------------------------------------------
\* Mutant: the sequence number is written in the order of the machine.
ToBytesNative(h) ==
  <<h.type, h.request, h.response, h.seq % Radix, h.seq \div Radix>>

\* to_bytes(): big-endian.
ToBytes(h) ==
  <<h.type, h.request, h.response, h.seq \div Radix, h.seq % Radix>>

AllSame(data, b) == \A i \in 1..5 : data[i] = b

\* from_bytes(): five equal bytes, zeros or ones, are no header, and neither
\* is one with another response flag.
FromBytes(data) ==
  IF Len(data) < 5 \/ AllSame(data, 0) \/ AllSame(data, Radix - 1)
       \/ data[3] \notin ResponseFlags
    THEN NoHeader
    ELSE [type |-> data[1], request |-> data[2], response |-> data[3],
          seq |-> data[4] * Radix + data[5]]

\* A message goes out with the next header, and the peer reads it.
Write(type, response, seq) ==
  LET h == [header EXCEPT !.type = type, !.response = response, !.seq = seq] IN
  /\ written < MaxWritten
  /\ written' = written + 1
  /\ header' = h
  /\ image' = ToBytes(h)
  /\ readBack' = FromBytes(ToBytes(h))
  /\ UNCHANGED malformed

WithHighBit(n, on) ==
  IF on = (n >= HighBit) THEN n ELSE IF on THEN n + HighBit ELSE n - HighBit

\* set_extended_addressing_request() and set_extended_addressing_response()
SetExtendedAddressing(flag, on) ==
  /\ header' = [header EXCEPT ![flag] = WithHighBit(@, on)]
  /\ image' = ToBytes(header')
  /\ readBack' = FromBytes(ToBytes(header'))
  /\ UNCHANGED <<malformed, written>>

-----------------------------------------------------------------------------
(***************************************************************************)
(* MalformedDataHandler: the first strategy takes any three bytes, so the  *)
(* three others, which need five or six, are never tried.                  *)
(***************************************************************************)
TruncatedHeader(data) ==
  [type |-> IF data[1] \in KnownTypes3 THEN data[1] ELSE 0,
   request |-> data[2], response |-> data[3], seq |-> 0]

Logged(data) ==
  LET log == Append(malformed, data) IN IF Len(log) > LogLimit THEN Tail(log) ELSE log

HandleMalformedHeader(data) ==
  /\ data # <<>>
  /\ malformed' = Logged(data)
  /\ header' = IF Len(data) >= 3 THEN TruncatedHeader(data) ELSE header
  /\ image' = <<>> /\ readBack' = NoHeader
  /\ UNCHANGED written

\* Too short for any strategy, with an unknown type, and of zeros.
MalformedSamples == {<<1>>, <<3, 0, 1>>, <<0, 0, 0, 0, 0>>}

HeaderNext ==
  \/ \E type \in {0, 1, Radix - 1}, response \in ResponseFlags,
        seq \in {0, 1, Radix, Radix * Radix - 1} : Write(type, response, seq)
  \/ \E flag \in {"request", "response"}, on \in BOOLEAN : SetExtendedAddressing(flag, on)
  \/ \E data \in MalformedSamples : HandleMalformedHeader(data)

HeaderSpec == HeaderInit /\ [][HeaderNext]_headerVars

-----------------------------------------------------------------------------
(***************************************************************************)
(* A header that is sent is read back as it was written or not at all, for *)
(* every sequence number, and the log of malformed headers keeps to its    *)
(* limit (tn3270e_header.py:72-156, 209-221, 339-350).  Two headers that   *)
(* the library writes are not read back: that of zeros, which a first      *)
(* record has, and one with the extended-addressing bit in the response    *)
(* flag.                                                                   *)
(***************************************************************************)
HeadersAreNotMisread ==
  /\ image # <<>> => readBack \in {NoHeader, header}
  /\ Len(malformed) <= LogLimit
=============================================================================
