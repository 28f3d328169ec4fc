-------------------------- MODULE SequenceNumbers --------------------------
(***************************************************************************)
(* The TN3270E sequence numbers TN3270Handler keeps: the number of the     *)
(* next message it sends, the last number it received, the window in which *)
(* a received number is accepted, and the bounded history of both.         *)
(***************************************************************************)
EXTENDS Integers, Sequences

CONSTANTS
  Modulus,       \* 65536: sequence numbers have 16 bits
  MaxHistory,    \* 100: _max_sequence_history
  DefaultWindow  \* 2048: the initial _sequence_number_window

ASSUME SequenceAssumption ==
  /\ Modulus \in Nat /\ Modulus >= 2
  /\ MaxHistory \in Nat \ {0}
  /\ DefaultWindow \in 1..(Modulus - 1)

SeqNumbers == 0..(Modulus - 1)

VARIABLES
  lastSent,      \* _last_sent_seq_number
  lastReceived,  \* _last_received_seq_number
  window,        \* _sequence_number_window
  syncEnabled,   \* _sequence_sync_enabled
  history        \* _sequence_number_history, without its timestamps

seqVars == <<lastSent, lastReceived, window, syncEnabled, history>>

Entries == SeqNumbers \X {"sent", "received"}

SeqInit ==
  /\ lastSent = 0
  /\ lastReceived = 0
  /\ window = DefaultWindow
  /\ syncEnabled = TRUE
  /\ history = <<>>

-----------------------------------------------------------------------------
Abs(x) == IF x < 0 THEN -x ELSE x
Lesser(x, y) == IF x <= y THEN x ELSE y

\* The history after one more entry; the oldest goes when it is full.
Recorded(h, n, direction) ==
  LET longer == Append(h, <<n, direction>>) IN
  IF Len(longer) > MaxHistory THEN Tail(longer) ELSE longer

DetectWraparound(new, last) ==
  LET around == (Modulus - last) + new IN
  new < last /\ around < last - new /\ around <= window

\* Mutant: the window test of a number before the wraparound was considered.
ValidateDirectOnly(received, expected) ==
  \/ ~syncEnabled
  \/ received = expected
  \/ DetectWraparound(received, expected)
  \/ Abs(received - expected) <= window

ValidateNumber(received, expected) ==
  \/ ~syncEnabled
  \/ received = expected
  \/ DetectWraparound(received, expected)
  \/ Abs(received - expected) <= window
  \/ Lesser(Abs(received - (expected + Modulus)),
            Abs(received - (expected - Modulus))) <= window

NextSent == (lastSent + 1) % Modulus

-----------------------------------------------------------------------------
\* send_data, when DATA-STREAM-CTL is active.
SendData ==
  /\ lastSent' = NextSent
  /\ history' = Recorded(history, NextSent, "sent")
  /\ UNCHANGED <<lastReceived, window, syncEnabled>>

\* The synchronisation records an entry and then clears the history.
Synchronize(n) ==
  /\ lastReceived' = n
  /\ history' = <<>>

\* A TN3270E header arrives in _handle_tn3270_mode or _handle_ascii_mode:
\* an accepted number is noted, but not recorded in the history.
ReceiveHeader(n) ==
  /\ \/ /\ ValidateNumber(n, (lastReceived + 1) % Modulus)
        /\ lastReceived' = n
        /\ UNCHANGED history
     \/ /\ ~ValidateNumber(n, (lastReceived + 1) % Modulus)
        /\ Synchronize(n)
  /\ UNCHANGED <<lastSent, window, syncEnabled>>

\* _update_received_sequence_number, which does not reduce what it expects.
UpdateReceived(n) ==
  /\ \/ /\ ValidateNumber(n, lastReceived + 1)
        /\ lastReceived' = n
        /\ history' = Recorded(history, n, "received")
     \/ /\ ~ValidateNumber(n, lastReceived + 1)
        /\ Synchronize(n)
  /\ UNCHANGED <<lastSent, window, syncEnabled>>

\* set_sequence_window clamps what it is given to 1..65535.
SetWindow(size) ==
  /\ window' = IF size < 1 THEN 1 ELSE Lesser(size, Modulus - 1)
  /\ UNCHANGED <<lastSent, lastReceived, syncEnabled, history>>

EnableSync(b) ==
  /\ syncEnabled' = b
  /\ UNCHANGED <<lastSent, lastReceived, window, history>>

\* reset_sequence_numbers
ResetSequence ==
  /\ lastSent' = 0
  /\ lastReceived' = 0
  /\ history' = <<>>
  /\ UNCHANGED <<window, syncEnabled>>

SeqNext ==
  \/ SendData
  \/ \E n \in SeqNumbers : ReceiveHeader(n) \/ UpdateReceived(n)
  \/ \E size \in 0..Modulus : SetWindow(size)
  \/ \E b \in BOOLEAN : EnableSync(b)
  \/ ResetSequence

SeqSpec == SeqInit /\ [][SeqNext]_seqVars

-----------------------------------------------------------------------------
\* Sequence numbers stay 16-bit numbers across the wraparound, the window is
\* positive and the history bounded, after any sequence of calls.
SeqTypeOK ==
  /\ lastSent \in SeqNumbers
  /\ lastReceived \in SeqNumbers
  /\ window \in 1..(Modulus - 1)
  /\ syncEnabled \in BOOLEAN
  /\ history \in Seq(Entries)
  /\ Len(history) <= MaxHistory

\* The distance of two numbers on the circle of sequence numbers.
Distance(a, b) == Lesser((a - b) % Modulus, (b - a) % Modulus)

\* The three overlapping tests of _validate_sequence_number accept exactly
\* the numbers within the window around the expected one, on the circle, and
\* agree whether or not the caller reduced the expected number.
ValidationIsCircular ==
  syncEnabled =>
    \A n \in SeqNumbers :
      LET near == Distance(n, (lastReceived + 1) % Modulus) <= window IN
      /\ ValidateNumber(n, (lastReceived + 1) % Modulus) <=> near
      /\ ValidateNumber(n, lastReceived + 1) <=> near

=============================================================================
