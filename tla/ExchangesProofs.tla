-------------------------- MODULE ExchangesProofs --------------------------
(***************************************************************************)
(* IND$FILE transfers and an LU-LU session over one connection, for any    *)
(* number of transfers, tasks, blocks, host messages and queued records.   *)
(*                                                                         *)
(* TransferIsOwned needs one more fact to be inductive: a completion event *)
(* is only ever set for a receive() that waits or has ended, so that a     *)
(* transfer that starts cannot find its event set already.                 *)
(***************************************************************************)
EXTENDS Exchanges, SequenceNumbers, Header, Attributes, StructuredFields, Vt100,
        SequenceTheorems, WellFoundedInduction, TLAPS

\* Events are set for calls that wait or have ended.
FiredHaveWaited == \A t \in fired : call[t] \in {"wait"} \cup Over

FileInv == TypeOK /\ TransferIsOwned /\ FiredHaveWaited

\* The records of an LU-LU session and the places of its tasks.
LuTypeOK ==
  /\ is_active \in BOOLEAN
  /\ epoch \in {0, 1}
  /\ queue \in Seq({0, 1})
  /\ user \in [Users -> {"idle", "bind", "unbind", "get"}]

LuInv == LuTypeOK /\ NoRecordOutlivesItsSession

-----------------------------------------------------------------------------
\* The steps of send() and receive() keep the types.
LEMMA FileType ==
  ASSUME TypeOK, FileNext
  PROVE  TypeOK'
  <1> USE TransferAssumption DEF TypeOK, Goto, Clear, Finish, Abort, shared,
          Uploading, Downloading, Over
  <1>1. ASSUME NEW t \in Transfers, SendRefused(t) \/ ReceiveRefused(t)
        PROVE  TypeOK'
    BY <1>1 DEF SendRefused, ReceiveRefused
  <1>2. ASSUME NEW t \in Transfers, SendStart(t)
        PROVE  TypeOK'
    BY <1>2 DEF SendStart
  <1>3. ASSUME NEW t \in Transfers, ReceiveNoFile(t) \/ ReceiveStart(t)
        PROVE  TypeOK'
    BY <1>3 DEF ReceiveNoFile, ReceiveStart
  <1>4. ASSUME NEW t \in Transfers, Progress(t)
        PROVE  TypeOK'
    <2>1. left[t] \in 0..MaxChunks
      OBVIOUS
    <2>2. (IF left[t] > 0 THEN left[t] - 1 ELSE 0) \in 0..MaxChunks
      BY ONLY <2>1, TransferAssumption
    <2>3. left' = [left EXCEPT ![t] = IF left[t] > 0 THEN left[t] - 1 ELSE 0]
      BY <1>4 DEF Progress
    <2> QED
      BY <1>4, <2>2, <2>3 DEF Progress
  <1>5. ASSUME NEW t \in Transfers, SendEnds(t) \/ SendRaises(t)
        PROVE  TypeOK'
    BY <1>5 DEF SendEnds, SendRaises
  <1>6. ASSUME NEW t \in Transfers, SendFails(t)
        PROVE  TypeOK'
    BY <1>6 DEF SendFails
  <1>7. ASSUME NEW t \in Transfers, Requested(t) \/ ReceiveReturns(t)
        PROVE  TypeOK'
    BY <1>7 DEF Requested, ReceiveReturns
  <1>8. ASSUME NEW t \in Transfers, ReceiveFails(t)
        PROVE  TypeOK'
    BY <1>8 DEF ReceiveFails, Leave
  <1>9. CASE Incoming
    <2>1. /\ active' \in Transfers \cup {None}
          /\ handles' \subseteq Transfers
          /\ file' \in [Transfers -> {"absent", "partial", "whole"}]
          /\ fired' \subseteq Transfers
          /\ hostError' \subseteq Transfers
      BY <1>9 DEF Incoming, IncomingEOF, IncomingERROR, IncomingDATA, Signal
    <2>2. /\ incoming < MaxIncoming /\ incoming' = incoming + 1
          /\ UNCHANGED <<up, attr, call, left>>
      BY <1>9 DEF Incoming
    <2>3. incoming \in 0..MaxIncoming
      OBVIOUS
    <2>4. incoming' \in 0..MaxIncoming
      BY ONLY <2>2, <2>3, TransferAssumption
    <2> QED
      BY <2>1, <2>2, <2>4
  <1> QED
    BY <1>1, <1>2, <1>3, <1>4, <1>5, <1>6, <1>7, <1>8, <1>9
    DEF FileNext, Steps

\* They keep what the calls share in the hands of a call that gives it back.
LEMMA FileStep ==
  ASSUME FileInv, FileNext
  PROVE  FileInv'
  <1>1. TypeOK /\ TypeOK'
    BY FileType DEF FileInv
  <1> USE NoneAssumption DEF FileInv, TransferIsOwned, FiredHaveWaited,
          InProgress, Goto, Clear, Finish, Abort, shared,
          Uploading, Downloading, Over
  <1>2. ASSUME NEW t \in Transfers, SendRefused(t) \/ ReceiveRefused(t)
        PROVE  FileInv'
    BY <1>1, <1>2 DEF SendRefused, ReceiveRefused, TypeOK
  <1>3. ASSUME NEW t \in Transfers, SendStart(t)
        PROVE  FileInv'
    <2>1. /\ call[t] = "idle" /\ call'[t] = "request up"
          /\ \A s \in Transfers : s # t => call'[s] = call[s]
      BY <1>1, <1>3 DEF SendStart, TypeOK
    <2>2. active = None /\ active' = t /\ UNCHANGED <<attr, fired, handles>>
      BY <1>3 DEF SendStart
    <2> QED
      BY <1>1, <2>1, <2>2 DEF TypeOK
  <1>4. ASSUME NEW t \in Transfers, ReceiveNoFile(t) \/ ReceiveStart(t)
        PROVE  FileInv'
    <2> PICK label \in {"raised", "request down"} :
          call[t] = "idle" /\ call' = [call EXCEPT ![t] = label]
      BY <1>4 DEF ReceiveNoFile, ReceiveStart
    <2>1. /\ call'[t] = label
          /\ \A s \in Transfers : s # t => call'[s] = call[s]
      BY <1>1 DEF TypeOK
    <2>2. CASE ReceiveNoFile(t)
      BY <1>1, <2>1, <2>2 DEF ReceiveNoFile, TypeOK
    <2>3. CASE ReceiveStart(t)
      <3>1. /\ active = None /\ active' = t /\ handles' = handles \cup {t}
            /\ UNCHANGED <<attr, fired>>
        BY <2>3 DEF ReceiveStart
      <3>2. call' = [call EXCEPT ![t] = "request down"] /\ t \in DOMAIN call
        BY <1>1, <2>3 DEF ReceiveStart, TypeOK
      <3>3. call'[t] = "request down"
        BY ONLY <3>2
      <3>4. handles \subseteq Transfers /\ handles \subseteq {active}
        BY <1>1 DEF TypeOK
      <3>5. handles = {}
        BY ONLY <3>1, <3>4, NoneAssumption
      <3> QED
        BY <1>1, <2>1, <3>1, <3>3, <3>5 DEF TypeOK
    <2> QED
      BY <1>4, <2>2, <2>3
  <1>5. ASSUME NEW t \in Transfers, Progress(t)
        PROVE  FileInv'
    BY <1>1, <1>5 DEF Progress, TypeOK
  <1>6. ASSUME NEW t \in Transfers, SendEnds(t) \/ SendFails(t) \/ SendRaises(t)
        PROVE  FileInv'
    <2> PICK label \in {"returned up", "report", "raised"} :
          call[t] \in Uploading /\ call' = [call EXCEPT ![t] = label]
      BY <1>6 DEF SendEnds, SendFails, SendRaises
    <2>1. /\ call'[t] = label
          /\ \A s \in Transfers : s # t => call'[s] = call[s]
      BY <1>1 DEF TypeOK
    <2>2. active' = None /\ handles' = handles \ {active} /\ UNCHANGED <<attr, fired>>
      BY <1>6 DEF SendEnds, SendFails, SendRaises
    <2> QED
      BY <1>1, <2>1, <2>2 DEF TypeOK
  <1>7. ASSUME NEW t \in Transfers, Requested(t) \/ ReceiveReturns(t)
        PROVE  FileInv'
    <2>1. \A s \in Transfers : s # t => call'[s] = call[s]
      BY <1>1, <1>7 DEF Requested, ReceiveReturns, TypeOK
    <2>2. UNCHANGED <<active, fired, handles>>
      BY <1>7 DEF Requested, ReceiveReturns
    <2>3. CASE Requested(t)
      <3>1. call[t] = "request down" /\ call'[t] = "wait" /\ attr' = t
        BY <1>1, <2>3 DEF Requested, TypeOK
      <3> QED
        BY <1>1, <2>1, <2>2, <3>1 DEF TypeOK
    <2>4. CASE ReceiveReturns(t)
      <3>1. t \in fired /\ call'[t] = "returned down" /\ attr' = None
        BY <1>1, <2>4 DEF ReceiveReturns, TypeOK
      <3> QED
        BY <1>1, <2>1, <2>2, <3>1 DEF TypeOK
    <2> QED
      BY <1>7, <2>3, <2>4
  <1>8. ASSUME NEW t \in Transfers, ReceiveFails(t)
        PROVE  FileInv'
    BY <1>1, <1>8 DEF ReceiveFails, Leave, TypeOK
  <1>9. CASE Incoming
    <2>1. CASE IncomingEOF
      BY <1>1, <1>9, <2>1 DEF Incoming, IncomingEOF, Signal, TypeOK
    <2>2. CASE IncomingERROR
      BY <1>1, <1>9, <2>2 DEF Incoming, IncomingERROR, Signal, TypeOK
    <2>3. CASE IncomingDATA
      BY <1>1, <1>9, <2>3 DEF Incoming, IncomingDATA, TypeOK
    <2> QED
      BY <1>9, <2>1, <2>2, <2>3 DEF Incoming
  <1> QED
    BY <1>2, <1>3, <1>4, <1>5, <1>6, <1>7, <1>8, <1>9 DEF FileNext, Steps

-----------------------------------------------------------------------------
\* The steps of the LU-LU session keep its types and its records.
LEMMA LuStep ==
  ASSUME LuInv, LU!LuNext
  PROVE  LuInv'
  <1> USE DEF LuInv, LuTypeOK, NoRecordOutlivesItsSession,
              LU!NoRecordOutlivesItsSession, LU!Move, LU!At
  <1>1. ASSUME NEW u \in Users,
               LU!Start(u) \/ LU!End(u) \/ LU!SendOrReceive(u)
               \/ LU!LuSendFails(u) \/ LU!NothingReceived(u)
        PROVE  LuInv'
    BY <1>1 DEF LU!Start, LU!End, LU!SendOrReceive, LU!LuSendFails,
                LU!NothingReceived
  <1>2. ASSUME NEW u \in Users, LU!Started(u)
        PROVE  LuInv'
    BY <1>2 DEF LU!Started
  <1>3. ASSUME NEW u \in Users, LU!Ended(u)
        PROVE  LuInv'
    <2>1. queue' \in Seq({0, 1}) /\ Len(queue') = 0
      BY <1>3 DEF LU!Ended
    <2>2. 1..Len(queue') = {}
      BY <2>1
    <2>3. 1 - epoch \in {0, 1}
      OBVIOUS
    <2>4. user' \in [Users -> {"idle", "bind", "unbind", "get"}]
      BY <1>3 DEF LU!Ended
    <2>5. LuTypeOK'
      BY <1>3, <2>1, <2>3, <2>4 DEF LU!Ended
    <2> QED
      BY <2>2, <2>5
  <1>4. ASSUME NEW u \in Users, LU!Received(u)
        PROVE  LuInv'
    <2>1. /\ queue' \in Seq({0, 1})
          /\ Len(queue') = Len(queue) - 1
          /\ \A i \in 1..Len(queue') : queue'[i] = queue[i + 1]
      BY <1>4, HeadTailProperties DEF LU!Received
    <2>2. Len(queue) \in Nat
      BY LenProperties
    <2>3. \A i \in 1..Len(queue') : i + 1 \in 1..Len(queue)
      BY <2>1, <2>2
    <2> QED
      BY <1>4, <2>1, <2>3 DEF LU!Received
  <1>5. CASE LU!Inbound
    <2>1. /\ queue' \in Seq({0, 1})
          /\ Len(queue') = Len(queue) + 1
          /\ \A i \in 1..Len(queue) : queue'[i] = queue[i]
          /\ queue'[Len(queue) + 1] = epoch
      BY <1>5, AppendProperties DEF LU!Inbound
    <2>2. Len(queue) \in Nat
      BY LenProperties
    <2>3. \A i \in 1..Len(queue') : i \in 1..Len(queue) \/ i = Len(queue) + 1
      BY <2>1, <2>2
    <2> QED
      BY <1>5, <2>1, <2>3 DEF LU!Inbound
  <1> QED
    BY <1>1, <1>2, <1>3, <1>4, <1>5 DEF LU!LuNext, LU!LuSteps

-----------------------------------------------------------------------------
\* Either exchange leaves the other alone but for the broken connection.
LEMMA NextFile == FileInv /\ [Next]_exchangeVars => FileInv'
  <1> SUFFICES ASSUME FileInv, [Next]_exchangeVars PROVE FileInv'
    OBVIOUS
  <1>1. CASE FileNext
    BY <1>1, FileStep
  <1>2. ASSUME UNCHANGED fileVars, up' \in BOOLEAN
        PROVE  FileInv'
    BY <1>2 DEF FileInv, TypeOK, TransferIsOwned, FiredHaveWaited, InProgress,
                fileVars, shared
  <1>3. LU!LuNext => UNCHANGED up
    BY DEF LU!LuNext, LU!LuSteps, LU!Start, LU!End, LU!SendOrReceive,
           LU!Started, LU!Ended, LU!LuSendFails, LU!Received,
           LU!NothingReceived, LU!Inbound
  <1>4. CASE LU!LuNext /\ UNCHANGED fileVars
    BY <1>2, <1>3, <1>4 DEF FileInv, TypeOK
  <1>5. CASE Break \/ UNCHANGED exchangeVars
    BY <1>2, <1>5 DEF Break, exchangeVars, FileInv, TypeOK
  <1> QED
    BY <1>1, <1>4, <1>5 DEF Next

\* The same for the LU-LU session.
LEMMA NextLu == LuInv /\ [Next]_exchangeVars => LuInv'
  <1> SUFFICES ASSUME LuInv, [Next]_exchangeVars PROVE LuInv'
    OBVIOUS
  <1>1. CASE LU!LuNext
    BY <1>1, LuStep
  <1>2. CASE UNCHANGED <<is_active, epoch, queue, user>>
    BY <1>2 DEF LuInv, LuTypeOK, NoRecordOutlivesItsSession,
                LU!NoRecordOutlivesItsSession
  <1> QED
    BY <1>1, <1>2 DEF Next, Break, exchangeVars

\* No transfer and no LU-LU session at first.
LEMMA InitBoth == Init => FileInv /\ LuInv
  <1> SUFFICES ASSUME Init PROVE FileInv /\ LuInv
    OBVIOUS
  <1>1. TypeOK
    BY TransferAssumption
    DEF Init, FileInit, TypeOK, Uploading, Downloading, Over
  <1>2. TransferIsOwned /\ FiredHaveWaited
    BY DEF Init, FileInit, TransferIsOwned, FiredHaveWaited
  <1>3. LuInv
    <2>1. queue \in Seq({0, 1}) /\ Len(queue) = 0
      BY DEF Init, LU!LuInit
    <2>2. 1..Len(queue) = {}
      BY <2>1
    <2>3. LuTypeOK
      BY <2>1 DEF Init, LU!LuInit, LuTypeOK
    <2> QED
      BY <2>2, <2>3 DEF LuInv, NoRecordOutlivesItsSession,
                        LU!NoRecordOutlivesItsSession
  <1> QED
    BY <1>1, <1>2, <1>3 DEF FileInv

\* IndFile's fields and its calls keep their types.
THEOREM TypeCorrect == Spec => []TypeOK
  <1>1. FileInv => TypeOK
    BY DEF FileInv
  <1> QED
    BY <1>1, InitBoth, NextFile, PTL DEF Spec

\* What the calls of one IndFile share belongs to a call that still gives it
\* back, also when calls overlap because a host message has cleared
\* active_transfer under a running one.
THEOREM TransfersOwned == Spec => []TransferIsOwned
  <1>1. FileInv => TransferIsOwned
    BY DEF FileInv
  <1> QED
    BY <1>1, InitBoth, NextFile, PTL DEF Spec

\* Records queued in one LU-LU session are gone when the next begins, for any
\* overlap of start(), end() and receive_data().
THEOREM RecordsStayInSession == Spec => []NoRecordOutlivesItsSession
  <1>1. LuInv => NoRecordOutlivesItsSession
    BY DEF LuInv
  <1> QED
    BY <1>1, InitBoth, NextLu, PTL DEF Spec

-----------------------------------------------------------------------------
(***************************************************************************)
(* The sequence numbers of TN3270E records, for every modulus, window and  *)
(* history length (65536, 2048 and 100 in the code).                       *)
(***************************************************************************)
\* A number below twice the modulus is reduced by one subtraction ...
LEMMA ReduceAbove ==
  ASSUME NEW x \in Int, 0 <= x, x < 2 * Modulus
  PROVE  x % Modulus = IF x < Modulus THEN x ELSE x - Modulus
  BY SequenceAssumption DEF SequenceAssumption

\* ... and a negative one above minus the modulus by one addition.
LEMMA ReduceBelow ==
  ASSUME NEW x \in Int, -Modulus < x, x < Modulus
  PROVE  x % Modulus = IF x < 0 THEN x + Modulus ELSE x
  BY SequenceAssumption DEF SequenceAssumption

-----------------------------------------------------------------------------
\* Recording an entry keeps the history bounded.
LEMMA RecordedBounded ==
  ASSUME NEW h \in Seq(Entries), Len(h) <= MaxHistory,
         NEW n \in SeqNumbers, NEW direction \in {"sent", "received"}
  PROVE  /\ Recorded(h, n, direction) \in Seq(Entries)
         /\ Len(Recorded(h, n, direction)) <= MaxHistory
  <1> DEFINE e == <<n, direction>>
             longer == Append(h, e)
  <1>1. e \in Entries
    BY DEF Entries
  <1>2. longer \in Seq(Entries) /\ Len(longer) = Len(h) + 1
    BY <1>1
  <1>3. CASE Len(longer) > MaxHistory
    <2>1. longer # <<>>
      BY <1>2
    <2>2. Tail(longer) \in Seq(Entries) /\ Len(Tail(longer)) = Len(longer) - 1
      BY <1>2, <2>1
    <2> QED BY <1>2, <1>3, <2>2, SequenceAssumption DEF Recorded, SequenceAssumption
  <1>4. CASE ~(Len(longer) > MaxHistory)
    BY <1>2, <1>4, SequenceAssumption DEF Recorded, SequenceAssumption
  <1> QED BY <1>3, <1>4

\* The fields of the sequence tracking keep their ranges: no call sequence
\* gets a number past 16 bits, a window of zero or a longer history.
THEOREM SequenceTypes == SeqSpec => []SeqTypeOK
  <1> USE SequenceAssumption DEF SequenceAssumption, SeqNumbers
  <1>1. SeqInit => SeqTypeOK
    BY DEF SeqInit, SeqTypeOK
  <1>2. SeqTypeOK /\ [SeqNext]_seqVars => SeqTypeOK'
    <2> SUFFICES ASSUME SeqTypeOK, [SeqNext]_seqVars PROVE SeqTypeOK'
      OBVIOUS
    <2>0. NextSent \in SeqNumbers
      BY DEF SeqTypeOK, NextSent
    <2>1. CASE SendData
      BY <2>0, <2>1, RecordedBounded DEF SendData, SeqTypeOK
    <2>2. ASSUME NEW n \in SeqNumbers, ReceiveHeader(n)
          PROVE  SeqTypeOK'
      <3>1. history' \in {history, <<>>} /\ lastReceived' = n
        BY <2>2 DEF ReceiveHeader, Synchronize
      <3>2. UNCHANGED <<lastSent, window, syncEnabled>>
        BY <2>2 DEF ReceiveHeader
      <3>3. history' \in Seq(Entries) /\ Len(history') <= MaxHistory
        <4>1. <<>> \in Seq(Entries) /\ Len(<<>>) <= MaxHistory
          OBVIOUS
        <4> QED BY <3>1, <4>1 DEF SeqTypeOK
      <3> QED BY <3>1, <3>2, <3>3 DEF SeqTypeOK
    <2>3. ASSUME NEW n \in SeqNumbers, UpdateReceived(n)
          PROVE  SeqTypeOK'
      <3>1. history' \in {Recorded(history, n, "received"), <<>>} /\ lastReceived' = n
        BY <2>3 DEF UpdateReceived, Synchronize
      <3>2. UNCHANGED <<lastSent, window, syncEnabled>>
        BY <2>3 DEF UpdateReceived
      <3>3. history' \in Seq(Entries) /\ Len(history') <= MaxHistory
        <4>1. <<>> \in Seq(Entries) /\ Len(<<>>) <= MaxHistory
          OBVIOUS
        <4>2. LET h == Recorded(history, n, "received")
              IN  h \in Seq(Entries) /\ Len(h) <= MaxHistory
          BY RecordedBounded DEF SeqTypeOK
        <4> QED BY <3>1, <4>1, <4>2
      <3> QED BY <3>1, <3>2, <3>3 DEF SeqTypeOK
    <2>4. ASSUME NEW size \in 0..Modulus, SetWindow(size)
          PROVE  SeqTypeOK'
      BY <2>4 DEF SetWindow, Lesser, SeqTypeOK
    <2>5. ASSUME NEW b \in BOOLEAN, EnableSync(b)
          PROVE  SeqTypeOK'
      BY <2>5 DEF EnableSync, SeqTypeOK
    <2>6. CASE ResetSequence
      BY <2>6 DEF ResetSequence, SeqTypeOK
    <2>7. CASE UNCHANGED seqVars
      BY <2>7 DEF seqVars, SeqTypeOK
    <2> QED BY <2>1, <2>2, <2>3, <2>4, <2>5, <2>6, <2>7 DEF SeqNext
  <1> QED BY <1>1, <1>2, PTL DEF SeqSpec

-----------------------------------------------------------------------------
\* The distance on the circle, without remainders.
LEMMA DistanceForm ==
  ASSUME NEW a \in SeqNumbers, NEW b \in SeqNumbers
  PROVE  Distance(a, b) = Lesser(Abs(a - b), Modulus - Abs(a - b))
  <1> USE SequenceAssumption DEF SequenceAssumption, SeqNumbers
  <1>1. (a - b) % Modulus = IF a - b < 0 THEN a - b + Modulus ELSE a - b
    BY ReduceBelow
  <1>2. (b - a) % Modulus = IF b - a < 0 THEN b - a + Modulus ELSE b - a
    BY ReduceBelow
  <1> QED BY <1>1, <1>2 DEF Distance, Lesser, Abs

\* What _validate_sequence_number accepts when it expects a reduced number.
LEMMA ValidateReduced ==
  ASSUME SeqTypeOK, syncEnabled, NEW n \in SeqNumbers, NEW e \in SeqNumbers
  PROVE  ValidateNumber(n, e) <=> Distance(n, e) <= window
  <1> USE SequenceAssumption DEF SequenceAssumption, SeqNumbers
  <1>1. Distance(n, e) = Lesser(Abs(n - e), Modulus - Abs(n - e))
    BY DistanceForm
  <1>2. window \in Int /\ window >= 1
    BY DEF SeqTypeOK
  <1> QED BY <1>1, <1>2 DEF ValidateNumber, DetectWraparound, Lesser, Abs

\* After the last number the unreduced Modulus is expected; the wraparound
\* tests accept the same numbers as for the reduced 0.
LEMMA ValidateUnreduced ==
  ASSUME SeqTypeOK, syncEnabled, NEW n \in SeqNumbers
  PROVE  ValidateNumber(n, Modulus) <=> Distance(n, 0) <= window
  <1> USE SequenceAssumption DEF SequenceAssumption, SeqNumbers
  <1>1. Distance(n, 0) = Lesser(Abs(n - 0), Modulus - Abs(n - 0))
    BY DistanceForm
  <1>2. window \in Int /\ window >= 1
    BY DEF SeqTypeOK
  <1> QED BY <1>1, <1>2 DEF ValidateNumber, DetectWraparound, Lesser, Abs

\* For every modulus and window the three tests of _validate_sequence_number
\* are the circular window, at both places that call it.
THEOREM ValidationCircular == SeqSpec => []ValidationIsCircular
  <1>1. SeqTypeOK => ValidationIsCircular
    <2> SUFFICES ASSUME SeqTypeOK, syncEnabled, NEW n \in SeqNumbers
                 PROVE  LET near == Distance(n, (lastReceived + 1) % Modulus) <= window
                        IN  /\ ValidateNumber(n, (lastReceived + 1) % Modulus) <=> near
                            /\ ValidateNumber(n, lastReceived + 1) <=> near
      BY DEF ValidationIsCircular
    <2> DEFINE e == (lastReceived + 1) % Modulus
    <2>1. lastReceived \in SeqNumbers
      BY DEF SeqTypeOK
    <2>2. e = IF lastReceived + 1 < Modulus THEN lastReceived + 1 ELSE 0
      BY <2>1, ReduceAbove, SequenceAssumption DEF SequenceAssumption, SeqNumbers
    <2>3. e \in SeqNumbers
      BY <2>1, <2>2, SequenceAssumption DEF SequenceAssumption, SeqNumbers
    <2> HIDE DEF e
    <2>4. ValidateNumber(n, e) <=> Distance(n, e) <= window
      BY <2>3, ValidateReduced
    <2>5. CASE lastReceived + 1 = e
      BY <2>4, <2>5 DEF e
    <2>6. CASE lastReceived + 1 # e
      <3>1. e = 0 /\ lastReceived + 1 = Modulus
        BY <2>1, <2>2, <2>6, SequenceAssumption DEF SequenceAssumption, SeqNumbers
      <3> QED BY <2>4, <3>1, ValidateUnreduced DEF e
    <2> QED BY <2>5, <2>6
  <1> QED BY <1>1, SequenceTypes, PTL

-----------------------------------------------------------------------------
(***************************************************************************)
(* The VT100 parser's cursor.  CursorOnScreen is inductive as it stands.   *)
(***************************************************************************)
\* A cell by its row and its column.
LEMMA CellForm ==
  ASSUME NEW row, NEW col
  PROVE  <<row, col>> \in Cells <=> row \in 0..(VRows - 1) /\ col \in 0..(VCols - 1)
  BY DEF Cells

\* _move_cursor() clamps whatever it is given.
LEMMA MovesOnScreen ==
  ASSUME CursorOnScreen, NEW row \in Int, NEW col \in Int, MoveCursor(row, col)
  PROVE  CursorOnScreen'
  <1>1. /\ Larger(0, Smaller(VRows - 1, row)) \in 0..(VRows - 1)
        /\ Larger(0, Smaller(VCols - 1, col)) \in 0..(VCols - 1)
    BY VSize DEF Larger, Smaller
  <1> QED
    BY <1>1, CellForm DEF MoveCursor, CursorOnScreen

\* Every step keeps the cursor, the saved cursor and the text on the screen.
LEMMA NextOnScreen == CursorOnScreen /\ [Vt100Next]_vt100Vars => CursorOnScreen'
  <1> SUFFICES ASSUME CursorOnScreen, [Vt100Next]_vt100Vars PROVE CursorOnScreen'
    OBVIOUS
  <1>1. PICK row \in 0..(VRows - 1), col \in 0..(VCols - 1) : cur = <<row, col>>
    BY DEF CursorOnScreen, Cells
  <1>2. cur[1] = row /\ cur[2] = col
    BY <1>1
  <1>3. savedCur \in Cells /\ vcells \subseteq Cells /\ cur \in Cells /\ Home \in Cells
    BY VSize, CellForm DEF CursorOnScreen, Home
  <1> USE VSize
  <1>4. CASE NewParser \/ ResetTerminal
    BY <1>3, <1>4 DEF NewParser, ResetTerminal, CursorOnScreen
  <1>5. CASE LineFeed
    <2>1. Smaller(VRows - 1, row + 1) \in 0..(VRows - 1) /\ 0 \in 0..(VCols - 1)
      BY DEF Smaller
    <2> QED
      BY <1>2, <1>3, <1>5, <2>1, CellForm DEF LineFeed, CursorOnScreen
  <1>6. CASE CarriageReturn
    BY <1>2, <1>3, <1>6, CellForm DEF CarriageReturn, CursorOnScreen
  <1>7. CASE Tab
    <2>1. (col \div TabWidth + 1) * TabWidth \in Nat
      BY DEF TabWidth
    <2>2. Smaller(VCols - 1, (col \div TabWidth + 1) * TabWidth) \in 0..(VCols - 1)
      BY <2>1 DEF Smaller
    <2> QED
      BY <1>2, <1>3, <1>7, <2>2, CellForm DEF Tab, CursorOnScreen
  <1>8. CASE BackSpace
    <2>1. col - 1 \in 0..(VCols - 1)
      BY <1>2, <1>8 DEF BackSpace
    <2> QED
      BY <1>2, <1>3, <1>8, <2>1, CellForm DEF BackSpace, CursorOnScreen
  <1>9. CASE Text
    <2>1. Smaller(VRows - 1, row + 1) \in 0..(VRows - 1) /\ 0 \in 0..(VCols - 1)
      BY DEF Smaller
    <2>2. ~(col + 1 >= VCols) => col + 1 \in 0..(VCols - 1)
      OBVIOUS
    <2>3. cur' \in Cells
      BY <1>2, <1>9, <2>1, <2>2, CellForm DEF Text
    <2> QED
      BY <1>3, <1>9, <2>3 DEF Text, CursorOnScreen
  <1>10. CASE \/ \E alt \in BOOLEAN : ShiftCharset(alt)
              \/ \E s \in {"B", "0"} : SelectCharset(s)
    BY <1>3, <1>10 DEF ShiftCharset, SelectCharset, CursorOnScreen
  <1>11. CASE SaveCursor \/ RestoreCursor
    BY <1>3, <1>11 DEF SaveCursor, RestoreCursor, CursorOnScreen
  <1>12. CASE Index \/ ReverseIndex
    <2>1. cur' \in Cells
      BY <1>2, <1>12, CellForm DEF Index, ReverseIndex
    <2> QED
      BY <1>3, <1>12, <2>1 DEF Index, ReverseIndex, CursorOnScreen
  <1>13. CASE ControlSequence
    <2>1. ASSUME NEW r \in VParams, NEW c \in VParams, CursorPosition(r, c)
          PROVE  CursorOnScreen'
      <3>1. Param(r) - 1 \in Int /\ Param(c) - 1 \in Int
        BY DEF Param
      <3> QED
        BY <2>1, <3>1, MovesOnScreen DEF CursorPosition
    <2>2. ASSUME NEW n \in VParams, NEW command \in {"A", "B", "C", "D"},
                 CursorMoves(command, n)
          PROVE  CursorOnScreen'
      <3>1. Param(n) \in Int /\ row \in Int /\ col \in Int
        BY DEF Param
      <3>2. CASE command = "A"
        <4>1. Larger(0, row - Param(n)) \in Int
          BY <3>1 DEF Larger
        <4>2. MoveCursor(Larger(0, row - Param(n)), col)
          BY <1>2, <2>2, <3>2 DEF CursorMoves
        <4> QED
          BY <3>1, <4>1, <4>2, MovesOnScreen
      <3>3. CASE command = "B"
        <4>1. Smaller(VRows - 1, row + Param(n)) \in Int
          BY <3>1 DEF Smaller
        <4>2. MoveCursor(Smaller(VRows - 1, row + Param(n)), col)
          BY <1>2, <2>2, <3>3 DEF CursorMoves
        <4> QED
          BY <3>1, <4>1, <4>2, MovesOnScreen
      <3>4. CASE command = "C"
        <4>1. Smaller(VCols - 1, col + Param(n)) \in Int
          BY <3>1 DEF Smaller
        <4>2. MoveCursor(row, Smaller(VCols - 1, col + Param(n)))
          BY <1>2, <2>2, <3>4 DEF CursorMoves
        <4> QED
          BY <3>1, <4>1, <4>2, MovesOnScreen
      <3>5. CASE command = "D"
        <4>1. Larger(0, col - Param(n)) \in Int
          BY <3>1 DEF Larger
        <4>2. MoveCursor(row, Larger(0, col - Param(n)))
          BY <1>2, <2>2, <3>5 DEF CursorMoves
        <4> QED
          BY <3>1, <4>1, <4>2, MovesOnScreen
      <3> QED
        BY <3>2, <3>3, <3>4, <3>5
    <2>3. ASSUME NEW n \in VParams, EraseDisplay(n) \/ EraseLine(n)
          PROVE  CursorOnScreen'
      BY <1>3, <2>3 DEF EraseDisplay, EraseLine, CursorOnScreen
    <2> QED
      BY <1>13, <2>1, <2>2, <2>3 DEF ControlSequence
  <1>14. CASE UNCHANGED vt100Vars
    BY <1>3, <1>14 DEF vt100Vars, CursorOnScreen
  <1> QED
    BY <1>4, <1>5, <1>6, <1>7, <1>8, <1>9, <1>10, <1>11, <1>12, <1>13, <1>14
    DEF Vt100Next

\* Whatever text, control characters and control sequences a read brings, the
\* parser writes inside the screen, for every screen size and all parameters.
THEOREM CursorStaysOnScreen == Vt100Spec => []CursorOnScreen
  <1>1. Vt100Init => CursorOnScreen
    BY VSize, CellForm DEF Vt100Init, CursorOnScreen, Home
  <1> QED
    BY <1>1, NextOnScreen, PTL DEF Vt100Spec

-----------------------------------------------------------------------------
(***************************************************************************)
(* Extended attributes and snapshots, for any positions, types and inputs. *)
(* The inductive fact is that an object holds only values that its own     *)
(* class accepts as an integer, which is what is set when a snapshot is    *)
(* restored.                                                               *)
(***************************************************************************)
Readable(k) == {m \in 0..ByteMax : Construct(k, IntValue(m)) = Object(m)}

AttributeValues(k) ==
  {Absent} \cup [kind : {"object"}, n : Readable(k), limited : BOOLEAN]
    \cup [kind : {"raw"}, n : Int, limited : {FALSE}]

\* An attribute table, and one without raw values.
TableOK(e) ==
  /\ e = [p \in Positions |-> [k \in Keys |-> e[p][k]]]
  /\ \A p \in Positions, k \in Keys : e[p][k] \in AttributeValues(k)

Plain(e) == \A p \in Positions, k \in Keys : e[p][k].kind # "raw"

\* What a snapshot holds.
SnapshotOK ==
  snap.taken =>
    /\ TableOK(original.ext) /\ Plain(original.ext)
    /\ snap.ext = original.ext
    /\ snap.fields = [p \in DOMAIN original.fields |-> FieldDict(original.fields[p])]

AttributesInv ==
  /\ TableOK(ext)
  /\ refused \in BOOLEAN /\ (~refused => Plain(ext))
  /\ SnapshotOK
  /\ restored.taken => snap.taken
  /\ RestoredAsTaken

\* The classes that take any byte.
LEMMA ByteClasses ==
  ASSUME NEW k \in {"color", "highlight", "validation", "outlining", "background",
                    "character_set"},
         NEW m \in 0..ByteMax
  PROVE  m \in Readable(k)
  BY DEF Readable, Construct, ColorAttribute, HighlightAttribute, ValidationAttribute,
         OutliningAttribute, BackgroundAttribute, CharacterSetAttribute, NameOrByte,
         InByte, IntValue, ByteMax

\* What a constructor makes of a value it would make of that value's integer.
LEMMA ConstructedIsReadable ==
  ASSUME NEW k \in Keys, NEW v, v.kind \in {"int", "numeral", "name"}, v.n \in Int,
         Construct(k, v) # Absent
  PROVE  \E m \in Readable(k) : Construct(k, v) = Object(m)
  <1>1. ASSUME NEW names \in {ColorNames, EffectNames, ValidationNames, StyleNames,
                              CharacterSets},
               NameOrByte(names, v) # Absent
        PROVE  \E m \in 0..ByteMax : NameOrByte(names, v) = Object(m)
    <2>1. \A s \in DOMAIN names : names[s] \in 0..ByteMax
      BY DEF ColorNames, EffectNames, ValidationNames, StyleNames, CharacterSets, ByteMax
    <2> QED
      BY <1>1, <2>1 DEF NameOrByte, InByte
  <1>2. CASE k = "light_pen"
    <2>1. v.n \in {0, 1} /\ Construct(k, v) = Object(v.n)
      BY <1>2 DEF Construct, LightPenAttribute
    <2>2. v.n \in Readable(k)
      BY <1>2, <2>1 DEF Readable, Construct, LightPenAttribute, IntValue, ByteMax
    <2> QED
      BY <2>1, <2>2
  <1>3. CASE k \in {"color", "highlight", "validation", "outlining", "background",
                    "character_set"}
    <2>1. PICK names \in {ColorNames, EffectNames, ValidationNames, StyleNames,
                          CharacterSets} : Construct(k, v) = NameOrByte(names, v)
      BY <1>3 DEF Construct, ColorAttribute, HighlightAttribute, ValidationAttribute,
                  OutliningAttribute, BackgroundAttribute, CharacterSetAttribute
    <2>2. PICK m \in 0..ByteMax : Construct(k, v) = Object(m)
      BY <1>1, <2>1
    <2> QED
      BY <1>3, <2>2, ByteClasses
  <1>4. CASE k \notin {"color", "highlight", "validation", "outlining", "background",
                       "character_set", "light_pen"}
    BY <1>4 DEF Construct
  <1> QED
    BY <1>2, <1>3, <1>4

\* An object of a class holds its value.
LEMMA ObjectIsValue ==
  ASSUME NEW k \in Keys, NEW m \in Readable(k), NEW a, a = Object(m)
  PROVE  a \in AttributeValues(k)
  BY DEF AttributeValues, Object

\* set_attribute() stores an object that reads back, or a raw value.
LEMMA StoredIsValue ==
  ASSUME NEW k \in Keys, NEW v, v.kind \in {"int", "numeral", "name"}, v.n \in Int
  PROVE  Stored(k, v) \in AttributeValues(k)
  <1>1. CASE Construct(k, v) = Absent
    BY <1>1 DEF Stored, Raw, AttributeValues
  <1>2. CASE Construct(k, v) # Absent
    BY <1>2, ConstructedIsReadable, ObjectIsValue DEF Stored
  <1> QED
    BY <1>1, <1>2

\* Setting and clearing an effect's bit keeps to a byte.
LEMMA BitsStayInByte ==
  ASSUME NEW m \in 0..ByteMax, NEW b \in Bits, NEW on \in BOOLEAN
  PROVE  WithBit(m, b, on) \in 0..ByteMax
  <1>1. CASE b = 1
    BY <1>1 DEF WithBit, HasBit, ByteMax
  <1>2. CASE b = 2
    BY <1>2 DEF WithBit, HasBit, ByteMax
  <1> QED
    BY <1>1, <1>2 DEF Bits

\* An attribute without limits, field by field.
LEMMA WithoutLimits ==
  ASSUME NEW N, NEW kind, NEW m \in N, NEW b \in BOOLEAN,
         NEW a, a = [kind |-> kind, n |-> m, limited |-> b]
  PROVE  [a EXCEPT !.limited = FALSE] = [kind |-> kind, n |-> m, limited |-> FALSE]
  <1> DEFINE off == FALSE
  <1> HIDE DEF off
  <1>1. [a EXCEPT !.limited = off] = [kind |-> kind, n |-> m, limited |-> off]
    OBVIOUS
  <1> QED
    BY <1>1 DEF off

\* What is written to a dictionary reads back, without its limits.
LEMMA DictionaryReadsBack ==
  ASSUME NEW k \in Keys, NEW a \in AttributeValues(k), a.kind # "raw"
  PROVE  SetBack(k, ToDict(a)) = [a EXCEPT !.limited = FALSE]
  <1>1. CASE a = Absent
    <2>1. SetBack(k, ToDict(a)) = Absent
      BY <1>1 DEF SetBack, ToDict
    <2>2. a = [kind |-> "none", n |-> 0, limited |-> FALSE]
      BY <1>1 DEF Absent
    <2>3. [a EXCEPT !.limited = FALSE] = [kind |-> "none", n |-> 0, limited |-> FALSE]
      BY <2>2, WithoutLimits
    <2> QED
      BY <1>1, <2>1, <2>2, <2>3
  <1>2. CASE a \in [kind : {"object"}, n : Readable(k), limited : BOOLEAN]
    <2>1. a # Absent /\ a.n \in Readable(k)
      BY <1>2 DEF Absent
    <2>2. Construct(k, IntValue(a.n)) = Object(a.n) /\ Object(a.n) # Absent
      BY <2>1 DEF Readable, Object, Absent
    <2>3. SetBack(k, ToDict(a)) = Object(a.n)
      BY <2>1, <2>2 DEF SetBack, ToDict, Stored
    <2>4. a = [kind |-> "object", n |-> a.n, limited |-> a.limited]
      BY <1>2
    <2>5. a.n \in Readable(k) /\ a.limited \in BOOLEAN
      BY <1>2
    <2>6. [a EXCEPT !.limited = FALSE] = [kind |-> "object", n |-> a.n, limited |-> FALSE]
      BY <2>4, <2>5, WithoutLimits
    <2> QED
      BY <2>3, <2>6 DEF Object
  <1> QED
    BY <1>1, <1>2 DEF AttributeValues

\* An attribute that is an object, and one with another value of its class.
LEMMA ObjectWith ==
  ASSUME NEW k \in Keys, NEW a \in AttributeValues(k), a.kind = "object"
  PROVE  /\ a.n \in Readable(k)
         /\ \A m \in Readable(k) : [a EXCEPT !.n = m] \in AttributeValues(k)
         /\ [a EXCEPT !.limited = TRUE] \in AttributeValues(k)
  <1>1. a \in [kind : {"object"}, n : Readable(k), limited : BOOLEAN]
    <2>1. a # Absent
      BY DEF Absent
    <2>2. a \notin [kind : {"raw"}, n : Int, limited : {FALSE}]
      OBVIOUS
    <2> QED
      BY <2>1, <2>2 DEF AttributeValues
  <1>2. \A m \in Readable(k) :
          [a EXCEPT !.n = m] \in [kind : {"object"}, n : Readable(k), limited : BOOLEAN]
    BY <1>1
  <1>3. [a EXCEPT !.limited = TRUE] \in [kind : {"object"}, n : Readable(k), limited : BOOLEAN]
    BY <1>1
  <1> QED
    BY <1>1, <1>2, <1>3 DEF AttributeValues

\* A change of one attribute keeps the invariant.
LEMMA ChangesKeep ==
  ASSUME AttributesInv, NEW p \in Positions, NEW k \in Keys,
         NEW a \in AttributeValues(k), Changes(p, k, a)
  PROVE  AttributesInv'
  <1>1. \A q \in Positions, j \in Keys :
          ext'[q][j] = IF q = p /\ j = k THEN a ELSE ext[q][j]
    BY DEF Changes, AttributesInv, TableOK
  <1>2. ext' = [q \in Positions |-> [j \in Keys |-> ext'[q][j]]]
    BY DEF Changes, AttributesInv, TableOK
  <1>3. TableOK(ext')
    BY <1>1, <1>2 DEF AttributesInv, TableOK
  <1>4. UNCHANGED <<snap, original, restored>>
    BY DEF Changes
  <1>5. refused' \in BOOLEAN /\ (~refused' => ~refused /\ a.kind # "raw")
    BY Zenon DEF Changes, AttributesInv
  <1>6. ~refused' => Plain(ext')
    BY <1>1, <1>5 DEF AttributesInv, Plain
  <1> QED
    BY <1>3, <1>4, <1>5, <1>6 DEF AttributesInv, SnapshotOK, RestoredAsTaken

\* A step that changes neither attributes nor snapshots keeps the invariant.
LEMMA NoChangeKeeps ==
  AttributesInv /\ UNCHANGED <<ext, refused, snap, original, restored>> => AttributesInv'
  BY DEF AttributesInv, TableOK, Plain, SnapshotOK, RestoredAsTaken

\* What a snapshot holds of the screen it is taken of.
LEMMA SnapshotHolds ==
  ASSUME AttributesInv, TakeSnapshot
  PROVE  AttributesInv'
  <1>1. UNCHANGED <<ext, refused>> /\ ~restored'.taken
    BY DEF TakeSnapshot, NoScreen
  <1>2. CASE HasRaw
    <2>1. /\ ~snap'.taken /\ snap'.failed
          /\ original'.refused = refused
      BY <1>2 DEF TakeSnapshot, NoScreen
    <2>2. ~Plain(ext)
      BY <1>2 DEF HasRaw, Plain
    <2>3. refused
      BY <2>2 DEF AttributesInv
    <2>4. SnapshotOK' /\ RestoredAsTaken'
      BY <1>1, <2>1, <2>3 DEF SnapshotOK, RestoredAsTaken
    <2> QED
      BY <1>1, <2>4 DEF AttributesInv, TableOK, Plain
  <1>3. CASE ~HasRaw
    <2>1. Plain(ext) /\ TableOK(ext)
      BY <1>3 DEF HasRaw, Plain, AttributesInv
    <2>2. [p \in Positions |-> [k \in Keys |-> ToDict(ext[p][k])]] = ext
      BY <2>1 DEF TableOK, ToDict
    <2>3. /\ snap'.taken /\ ~snap'.failed /\ snap'.ext = ext
          /\ snap'.fields = [p \in DOMAIN fields |-> FieldDict(fields[p])]
          /\ original'.ext = ext /\ original'.fields = fields
      BY <1>3, <2>2 DEF TakeSnapshot, NoScreen
    <2>4. SnapshotOK' /\ RestoredAsTaken'
      BY <1>1, <2>1, <2>3 DEF SnapshotOK, RestoredAsTaken, TableOK, Plain
    <2> QED
      BY <1>1, <2>3, <2>4 DEF AttributesInv, TableOK, Plain
  <1> QED
    BY <1>2, <1>3

\* What is restored of a snapshot.
LEMMA RestoredHolds ==
  ASSUME AttributesInv, ToScreenBuffer
  PROVE  AttributesInv'
  <1>1. /\ TableOK(original.ext) /\ Plain(original.ext) /\ snap.taken
        /\ snap.ext = original.ext
        /\ snap.fields = [p \in DOMAIN original.fields |-> FieldDict(original.fields[p])]
    BY DEF ToScreenBuffer, AttributesInv, SnapshotOK
  <1>2. \A p \in Positions, k \in Keys :
          SetBack(k, snap.ext[p][k]) = [original.ext[p][k] EXCEPT !.limited = FALSE]
    <2> TAKE p \in Positions, k \in Keys
    <2> DEFINE a == original.ext[p][k]
    <2>1. a \in AttributeValues(k) /\ a.kind # "raw" /\ snap.ext[p][k] = a
      BY <1>1 DEF TableOK, Plain
    <2>2. ToDict(a) = a
      BY DEF ToDict
    <2> QED
      BY <2>1, <2>2, DictionaryReadsBack
  <1>3. /\ UNCHANGED <<ext, refused, snap, original>>
        /\ restored'.taken
        /\ restored'.ext = [p \in Positions |-> [k \in Keys |-> SetBack(k, snap.ext[p][k])]]
        /\ restored'.fields = [p \in DOMAIN snap.fields |-> NewField(snap.fields[p])]
    BY DEF ToScreenBuffer, NoScreen
  <1>4. \A p \in Positions, k \in Keys :
          restored'.ext[p][k] = [original.ext[p][k] EXCEPT !.limited = FALSE]
    BY <1>2, <1>3
  <1>5. \A f : FieldDict(NewField(FieldDict(f))) = FieldDict(f)
    BY DEF FieldDict, NewField
  <1>6. DOMAIN snap.fields = DOMAIN original.fields
    BY <1>1
  <1>7. DOMAIN restored'.fields = DOMAIN original.fields
    BY <1>3, <1>6
  <1>8. \A p \in DOMAIN original.fields :
          FieldDict(restored'.fields[p]) = FieldDict(original.fields[p])
    BY <1>1, <1>3, <1>5, <1>6
  <1>9. RestoredAsTaken'
    BY <1>3, <1>4, <1>7, <1>8 DEF RestoredAsTaken, AttributesInv
  <1> QED
    BY <1>1, <1>3, <1>9 DEF AttributesInv, SnapshotOK, TableOK, Plain

\* The steps keep the invariant.
LEMMA AttributesNextInv == AttributesInv /\ [AttributesNext]_attributeVars => AttributesInv'
  <1> SUFFICES ASSUME AttributesInv, [AttributesNext]_attributeVars PROVE AttributesInv'
    OBVIOUS
  <1>1. ASSUME NEW p \in Positions, NEW k \in Keys, NEW v \in Inputs,
               SetExtendedAttributeSfe(p, k, v) \/ SetExtendedAttribute(p, k, v)
        PROVE  AttributesInv'
    <2>1. Stored(k, v) \in AttributeValues(k)
      BY InputsAreValues, StoredIsValue
    <2>2. Changes(p, k, Stored(k, v))
      BY <1>1 DEF SetExtendedAttributeSfe, SetExtendedAttribute
    <2> QED
      BY <2>1, <2>2, ChangesKeep
  <1>2. ASSUME NEW p \in Positions, NEW k \in Keys, NEW v \in Inputs, SetValue(p, k, v)
        PROVE  AttributesInv'
    <2> DEFINE a == [ext[p][k] EXCEPT !.n = Construct(k, v).n]
    <2>1. ext[p][k] \in AttributeValues(k) /\ ext[p][k].kind = "object"
      BY <1>2 DEF SetValue, AttributesInv, TableOK
    <2>2. Construct(k, v).n \in Readable(k)
      BY <1>2, InputsAreValues, ConstructedIsReadable DEF SetValue, Object
    <2>3. a \in AttributeValues(k)
      BY <2>1, <2>2, ObjectWith
    <2>4. Changes(p, k, a)
      BY <1>2 DEF SetValue
    <2> QED
      BY <2>3, <2>4, ChangesKeep
  <1>3. ASSUME NEW p \in Positions, NEW k \in Keys, NEW b \in Bits, NEW on \in BOOLEAN,
               SetEffect(p, k, b, on)
        PROVE  AttributesInv'
    <2> DEFINE m == ext[p][k].n
    <2> DEFINE a == [ext[p][k] EXCEPT !.n = WithBit(m, b, on)]
    <2>1. k \in {"highlight", "validation", "outlining"} /\ ext[p][k].kind = "object"
      BY <1>3 DEF SetEffect
    <2>2. ext[p][k] \in AttributeValues(k)
      BY DEF AttributesInv, TableOK
    <2>3. m \in Readable(k)
      BY <2>1, <2>2, ObjectWith
    <2>4. WithBit(m, b, on) \in 0..ByteMax
      BY <2>3, BitsStayInByte DEF Readable
    <2>5. WithBit(m, b, on) \in Readable(k)
      BY <2>1, <2>4, ByteClasses
    <2>6. a \in AttributeValues(k)
      BY <2>1, <2>2, <2>5, ObjectWith
    <2>7. Changes(p, k, a)
      BY <1>3 DEF SetEffect
    <2> QED
      BY <2>6, <2>7, ChangesKeep
  <1>4. ASSUME NEW p \in Positions, NEW k \in Keys, SetLimits(p, k) PROVE AttributesInv'
    <2> DEFINE a == [ext[p][k] EXCEPT !.limited = TRUE]
    <2>1. ext[p][k] \in AttributeValues(k) /\ ext[p][k].kind = "object"
      BY <1>4 DEF SetLimits, AttributesInv, TableOK
    <2>2. a \in AttributeValues(k)
      BY <2>1, ObjectWith
    <2>3. Changes(p, k, a)
      BY <1>4 DEF SetLimits
    <2> QED
      BY <2>2, <2>3, ChangesKeep
  <1>5. ASSUME NEW p \in Positions, NEW k \in Keys, RemoveAttribute(p, k)
        PROVE  AttributesInv'
    BY <1>5, ChangesKeep DEF RemoveAttribute, AttributeValues
  <1>6. ASSUME NEW p \in Positions, NEW b \in BaseBytes, SetAttribute(p, b)
        PROVE  AttributesInv'
    BY <1>6, NoChangeKeeps DEF SetAttribute
  <1>7. CASE ResumeFieldDetection
    BY <1>7, NoChangeKeeps DEF ResumeFieldDetection
  <1>8. CASE ClearScreen
    <2>1. ext' = NoAttributes /\ refused' = FALSE /\ UNCHANGED <<snap, original, restored>>
      BY <1>8 DEF ClearScreen
    <2>2. TableOK(ext') /\ Plain(ext')
      BY <2>1 DEF NoAttributes, TableOK, Plain, AttributeValues, Absent
    <2> QED
      BY <2>1, <2>2 DEF AttributesInv, SnapshotOK, RestoredAsTaken
  <1>9. CASE UNCHANGED attributeVars
    BY <1>9, NoChangeKeeps DEF attributeVars
  <1> QED
    BY <1>1, <1>2, <1>3, <1>4, <1>5, <1>6, <1>7, <1>8, <1>9, SnapshotHolds, RestoredHolds
    DEF AttributesNext

\* A snapshot fails only after a value that no class takes; a screen made from
\* one has every attribute's value and what is recorded of every field,
\* whatever constructors, setters and effect bits did before
\* (field_attributes.py, snapshot.py).
THEOREM SnapshotsRestore == AttributesSpec => []RestoredAsTaken
  <1>1. AttributesInit => AttributesInv
    <2> SUFFICES ASSUME AttributesInit PROVE AttributesInv
      OBVIOUS
    <2>1. /\ ext = NoAttributes /\ refused = FALSE
          /\ ~snap.taken /\ ~snap.failed /\ ~restored.taken
      BY DEF AttributesInit, NoScreen
    <2>2. TableOK(ext) /\ Plain(ext)
      BY <2>1 DEF NoAttributes, TableOK, Plain, AttributeValues, Absent
    <2> QED
      BY <2>1, <2>2 DEF AttributesInv, SnapshotOK, RestoredAsTaken
  <1>2. AttributesInv => RestoredAsTaken
    BY DEF AttributesInv
  <1> QED
    BY <1>1, <1>2, AttributesNextInv, PTL DEF AttributesSpec

-----------------------------------------------------------------------------
(***************************************************************************)
(* TN3270E headers, for every even number of values of a byte above four   *)
(* and every limit of the log.                                             *)
(***************************************************************************)
Headers == [type : Int, request : Int, response : Int, seq : Nat]

\* Which of the headers that are sent are read back.
HeadersAreReadBack ==
  /\ image # <<>> =>
       readBack = IF AllSame(image, 0) \/ header.response \notin ResponseFlags
                  THEN NoHeader ELSE header
  /\ Len(malformed) <= LogLimit

HeaderInv ==
  /\ header \in Headers
  /\ malformed \in Seq(Seq(Int))
  /\ HeadersAreReadBack

\* A number is its two bytes.
LEMMA BigEndian ==
  ASSUME NEW s \in Nat
  PROVE  s \div Radix \in Int /\ s % Radix \in Int /\ (s \div Radix) * Radix + (s % Radix) = s
  BY RadixIsEven

\* from_bytes() inverts to_bytes(), except for the header of zeros and for
\* flags it does not know.
LEMMA BytesReadBack ==
  ASSUME NEW h \in Headers
  PROVE  FromBytes(ToBytes(h)) =
           IF AllSame(ToBytes(h), 0) \/ h.response \notin ResponseFlags
             THEN NoHeader ELSE h
  <1> DEFINE data == ToBytes(h)
  <1>1. /\ Len(data) = 5 /\ data[1] = h.type /\ data[2] = h.request /\ data[3] = h.response
        /\ data[4] = h.seq \div Radix /\ data[5] = h.seq % Radix
    BY DEF ToBytes, Headers
  <1>2. data[4] * Radix + data[5] = h.seq
    BY <1>1, BigEndian DEF Headers
  <1> HIDE DEF data
  <1>3. AllSame(data, Radix - 1) => h.response \notin ResponseFlags
    BY <1>1, RadixIsEven DEF AllSame, ResponseFlags
  <1>4. h = [type |-> h.type, request |-> h.request, response |-> h.response, seq |-> h.seq]
    BY DEF Headers
  <1> QED
    BY <1>1, <1>2, <1>3, <1>4 DEF FromBytes, data

\* A header that is written, and what the peer makes of it.
LEMMA SentKeeps ==
  ASSUME HeaderInv, header' \in Headers, image' = ToBytes(header'),
         readBack' = FromBytes(ToBytes(header')), UNCHANGED malformed
  PROVE  HeaderInv'
  <1>1. readBack' = IF AllSame(image', 0) \/ header'.response \notin ResponseFlags
                    THEN NoHeader ELSE header'
    BY BytesReadBack
  <1> QED
    BY <1>1 DEF HeaderInv, HeadersAreReadBack

\* The steps keep the invariant.
LEMMA HeaderNextInv == HeaderInv /\ [HeaderNext]_headerVars => HeaderInv'
  <1> SUFFICES ASSUME HeaderInv, [HeaderNext]_headerVars PROVE HeaderInv'
    OBVIOUS
  <1>1. ASSUME NEW type \in {0, 1, Radix - 1}, NEW response \in ResponseFlags,
               NEW seq \in {0, 1, Radix, Radix * Radix - 1}, Write(type, response, seq)
        PROVE  HeaderInv'
    <2>1. seq \in Nat
      <3>1. Radix * Radix \in Nat /\ Radix * Radix > 0
        BY RadixIsEven
      <3> QED
        BY <3>1, RadixIsEven
    <2>2. type \in Int /\ response \in Int
      BY RadixIsEven DEF ResponseFlags
    <2>3. header' = [header EXCEPT !.type = type, !.response = response, !.seq = seq]
      BY <1>1 DEF Write
    <2>4. header' \in Headers
      BY <2>1, <2>2, <2>3 DEF HeaderInv, Headers
    <2> QED
      BY <1>1, <2>4, SentKeeps DEF Write
  <1>2. ASSUME NEW flag \in {"request", "response"}, NEW on \in BOOLEAN,
               SetExtendedAddressing(flag, on)
        PROVE  HeaderInv'
    <2>1. \A m \in Int : WithHighBit(m, on) \in Int
      BY RadixIsEven DEF WithHighBit, HighBit
    <2>2. header' = [header EXCEPT ![flag] = WithHighBit(header[flag], on)]
      BY <1>2 DEF SetExtendedAddressing
    <2>3. header[flag] \in Int
      BY DEF HeaderInv, Headers
    <2>4. header' \in Headers
      BY <2>1, <2>2, <2>3 DEF HeaderInv, Headers
    <2> QED
      BY <1>2, <2>4, SentKeeps DEF SetExtendedAddressing
  <1>3. ASSUME NEW data \in MalformedSamples, HandleMalformedHeader(data)
        PROVE  HeaderInv'
    <2> DEFINE log == Append(malformed, data)
    <2>1. data \in Seq(Int)
      <3>1. <<1>> \in Seq(Int) /\ <<3, 0, 1>> \in Seq(Int) /\ <<0, 0, 0, 0, 0>> \in Seq(Int)
        OBVIOUS
      <3> QED
        BY <3>1 DEF MalformedSamples
    <2>2. log \in Seq(Seq(Int)) /\ Len(log) = Len(malformed) + 1 /\ log # <<>>
      <3>1. malformed \in Seq(Seq(Int))
        BY DEF HeaderInv
      <3> QED
        BY <2>1, <3>1, AppendProperties, EmptySeq, LenProperties
    <2>3. Len(malformed) <= LogLimit
      BY DEF HeaderInv, HeadersAreReadBack
    <2>4. Tail(log) \in Seq(Seq(Int)) /\ Len(Tail(log)) = Len(log) - 1
      BY <2>2
    <2>5. malformed' = IF Len(log) > LogLimit THEN Tail(log) ELSE log
      BY <1>3 DEF HandleMalformedHeader, Logged
    <2> HIDE DEF log
    <2>6. malformed' \in Seq(Seq(Int)) /\ Len(malformed') <= LogLimit
      <3>1. Len(malformed) \in Nat
        BY DEF HeaderInv
      <3> QED
        BY <2>2, <2>3, <2>4, <2>5, <3>1, LogIsLimited
    <2>7. header' \in Headers
      <3>1. CASE Len(data) >= 3
        <4>1. data[1] \in Int /\ data[2] \in Int /\ data[3] \in Int
          BY <2>1, <3>1
        <4> QED
          BY <1>3, <3>1, <4>1 DEF HandleMalformedHeader, TruncatedHeader, Headers
      <3>2. CASE ~(Len(data) >= 3)
        BY <1>3, <3>2 DEF HandleMalformedHeader, HeaderInv
      <3> QED
        BY <3>1, <3>2
    <2> QED
      BY <1>3, <2>6, <2>7 DEF HandleMalformedHeader, HeaderInv, HeadersAreReadBack
  <1>4. CASE UNCHANGED headerVars
    BY <1>4 DEF headerVars, HeaderInv, HeadersAreReadBack
  <1> QED
    BY <1>1, <1>2, <1>3, <1>4 DEF HeaderNext

\* A header that is sent is read back as it was written, unless it is the
\* header of zeros or has the extended-addressing bit in the response flag;
\* those two the library's own reader rejects.  The log of malformed headers
\* keeps to its limit (tn3270e_header.py).
THEOREM HeadersReadBack == HeaderSpec => []HeadersAreReadBack
  <1>1. HeaderInit => HeaderInv
    BY LogIsLimited DEF HeaderInit, HeaderInv, Headers, HeadersAreReadBack, NoResponse
  <1>2. HeaderInv => HeadersAreReadBack
    BY DEF HeaderInv
  <1> QED
    BY <1>1, <1>2, HeaderNextInv, PTL DEF HeaderSpec

\* An address that is sent in fourteen bits is read as it was written
\* (data_stream.py, build_sba() and _handle_sba()).
THEOREM AddressesReadBack == FieldsSpec => []LongAddressesAreReadBack
  <1>1. FieldsInit => LongAddressesAreReadBack
    BY DEF FieldsInit, LongAddressesAreReadBack
  <1>2. ASSUME LongAddressesAreReadBack, [FieldsNext \/ CallsNext]_fieldVars
        PROVE  LongAddressesAreReadBack'
    <2>1. ASSUME NEW a \in Addresses, NEW mode \in {"12-bit", "14-bit"},
                 SendAddress(a, mode)
          PROVE  LongAddressesAreReadBack'
      <3>1. a \in 0..4095
        BY FieldAssumption
      <3>2. sba' = [address |-> a, mode |-> mode, read |-> SbaRead(SbaBytes(a), mode)]
        BY <2>1 DEF SendAddress
      <3>3. mode = "14-bit" => SbaRead(SbaBytes(a), mode) = a
        BY <3>1 DEF SbaRead, SbaBytes
      <3> QED
        BY <3>2, <3>3 DEF LongAddressesAreReadBack
    <2>2. (\E a \in Addresses, mode \in {"12-bit", "14-bit"} : SendAddress(a, mode))
            \/ UNCHANGED sba
      BY <1>2 DEF FieldsNext, CallsNext, Send, TakeField, TakeByte, Record, DataStreamCtl,
                  Validate, fieldVars
    <2> QED
      BY <1>2, <2>1, <2>2 DEF LongAddressesAreReadBack
  <1> QED
    BY <1>1, <1>2, PTL DEF FieldsSpec

-----------------------------------------------------------------------------
(***************************************************************************)
(* Structured fields.  A BIND field is cut where its subfields begin, by   *)
(* induction on what is left of it; a field is built with its length, its  *)
(* type and its own data, and the parser takes off as many bytes as the    *)
(* length says.                                                            *)
(***************************************************************************)

\* A set of naturals that is not empty has a least member.
LEMMA Least ==
  ASSUME NEW T, T \subseteq Nat, T # {}
  PROVE  \E x \in T : \A y \in T : x <= y
  <1> DEFINE R == OpToRel(<, Nat)
  <1>1. IsWellFoundedOn(R, Nat)
    BY NatLessThanWellFounded
  <1> HIDE DEF R
  <1>2. PICK x \in T : \A y \in T : ~(<<y, x>> \in R)
    BY <1>1, WFMin
  <1>3. \A y \in T : ~(y < x)
    BY <1>2 DEF R, OpToRel
  <1> QED
    BY <1>3

(***************************************************************************)
(* The subfields of a BIND.  What the property asks of the whole field is  *)
(* asked of its end from i on; the loop of the validator asks for it from  *)
(* one subfield to the next.                                               *)
(***************************************************************************)
Tiling(b, i, cuts) ==
  /\ i \in cuts
  /\ \E c \in cuts : c >= Len(b) /\ \A d \in cuts : d <= c
  /\ \A c \in cuts : c < Len(b) =>
       /\ b[c] >= 2 /\ c + b[c] \in cuts
       /\ \A d \in cuts : d <= c \/ d >= c + b[c]
       /\ b[c + 1] = PscSubfield => b[c] >= 6

HasTiling(b, i) == \E cuts \in SUBSET (i..(Len(b) + 1)) : Tiling(b, i, cuts)

\* One iteration, when t says what holds behind it.
SubfieldFits(b, i, t) ==
  \/ Len(b) - i + 1 < 2
  \/ /\ b[i] >= 2
     /\ i + b[i] <= Len(b) + 1
     /\ b[i + 1] = PscSubfield => b[i] >= 6
     /\ t

\* The end of a field can be cut if its first subfield fits and its rest can.
LEMMA TilingStep ==
  ASSUME NEW b \in Seq(Nat), NEW i \in 1..(Len(b) + 1)
  PROVE  HasTiling(b, i) <=> SubfieldFits(b, i, HasTiling(b, i + b[i]))
  <1> DEFINE n == Len(b)
  <1>1. n \in Nat /\ \A c \in 1..n : b[c] \in Nat
    OBVIOUS
  <1>2. CASE i >= n
    <2> DEFINE cuts == {i}
    <2>1. cuts \in SUBSET (i..(n + 1)) /\ Tiling(b, i, cuts)
      BY <1>1, <1>2 DEF Tiling
    <2>2. HasTiling(b, i)
      BY <2>1 DEF HasTiling
    <2>3. n - i + 1 < 2
      BY <1>1, <1>2
    <2> QED
      BY <2>2, <2>3 DEF SubfieldFits
  <1>3. CASE i < n
    <2> DEFINE k == i + b[i]
    <2>1. i \in 1..n /\ b[i] \in Nat /\ k \in Nat /\ ~(n - i + 1 < 2)
      BY <1>1, <1>3
    <2>2. ASSUME HasTiling(b, i) PROVE SubfieldFits(b, i, HasTiling(b, k))
      <3>1. PICK cuts \in SUBSET (i..(n + 1)) : Tiling(b, i, cuts)
        BY <2>2 DEF HasTiling
      <3>2. i \in cuts /\ b[i] >= 2 /\ k \in cuts /\ (b[i + 1] = PscSubfield => b[i] >= 6)
        BY <1>3, <3>1 DEF Tiling
      <3>3. k <= n + 1 /\ k > i
        BY <1>1, <2>1, <3>1, <3>2
      <3> DEFINE later == {c \in cuts : c >= k}
      <3>4. later \in SUBSET (k..(n + 1))
        <4> SUFFICES ASSUME NEW c \in later PROVE c \in k..(n + 1)
          OBVIOUS
        <4>1. c \in i..(n + 1) /\ c >= k /\ k \in Nat
          BY <2>1, <3>1
        <4> HIDE DEF k
        <4> QED
          BY <1>1, <4>1
      <3>5. Tiling(b, k, later)
        <4>1. k \in later
          BY <2>1, <3>2
        <4>2. PICK c \in cuts : c >= n /\ \A d \in cuts : d <= c
          BY <3>1 DEF Tiling
        <4>3. c \in later /\ \A d \in later : d <= c
          BY <3>2, <4>2
        <4>4. ASSUME NEW x \in later, x < n
              PROVE  /\ b[x] >= 2 /\ x + b[x] \in later
                     /\ \A d \in later : d <= x \/ d >= x + b[x]
                     /\ b[x + 1] = PscSubfield => b[x] >= 6
          <5>1. /\ b[x] >= 2 /\ x + b[x] \in cuts
                /\ \A d \in cuts : d <= x \/ d >= x + b[x]
                /\ b[x + 1] = PscSubfield => b[x] >= 6
            BY <3>1, <4>4 DEF Tiling
          <5>2. x \in 1..n /\ b[x] \in Nat /\ x >= k
            BY <1>1, <2>1, <3>1, <4>4
          <5>3. x + b[x] >= k
            <6> DEFINE y == b[x]
            <6>1. y \in Nat /\ x \in Nat /\ k \in Nat /\ x >= k
              BY <2>1, <5>2
            <6> HIDE DEF k, y
            <6>2. x + y >= k
              BY <6>1
            <6> QED
              BY <6>2 DEF y
          <5> QED
            BY <5>1, <5>3
        <4> QED
          BY <4>1, <4>2, <4>3, <4>4 DEF Tiling
      <3> HIDE DEF later
      <3>6. HasTiling(b, k)
        BY <3>4, <3>5 DEF HasTiling
      <3> QED
        BY <3>2, <3>3, <3>6 DEF SubfieldFits
    <2>3. ASSUME SubfieldFits(b, i, HasTiling(b, k)) PROVE HasTiling(b, i)
      <3>1. b[i] >= 2 /\ k <= n + 1 /\ (b[i + 1] = PscSubfield => b[i] >= 6) /\ HasTiling(b, k)
        BY <2>1, <2>3 DEF SubfieldFits
      <3>2. PICK later \in SUBSET (k..(n + 1)) : Tiling(b, k, later)
        BY <3>1 DEF HasTiling
      <3> DEFINE cuts == later \cup {i}
      <3>3. k > i
        BY <2>1, <3>1
      <3>4. cuts \in SUBSET (i..(n + 1))
        BY <1>1, <2>1, <3>2, <3>3
      <3>5. Tiling(b, i, cuts)
        <4>1. k \in later
          BY <3>2 DEF Tiling
        <4>2. PICK c \in later : c >= n /\ \A d \in later : d <= c
          BY <3>2 DEF Tiling
        <4>3. c \in cuts /\ \A d \in cuts : d <= c
          BY <1>1, <1>3, <2>1, <3>2, <4>2
        <4>4. ASSUME NEW x \in cuts, x < n
              PROVE  /\ b[x] >= 2 /\ x + b[x] \in cuts
                     /\ \A d \in cuts : d <= x \/ d >= x + b[x]
                     /\ b[x + 1] = PscSubfield => b[x] >= 6
          <5>1. CASE x = i
            <6>1. \A d \in cuts : d <= x \/ d >= x + b[x]
              BY <2>1, <3>2, <5>1
            <6> QED
              BY <3>1, <4>1, <5>1, <6>1
          <5>2. CASE x \in later
            <6>1. /\ b[x] >= 2 /\ x + b[x] \in later
                  /\ \A d \in later : d <= x \/ d >= x + b[x]
                  /\ b[x + 1] = PscSubfield => b[x] >= 6
              BY <3>2, <4>4, <5>2 DEF Tiling
            <6>2. i <= x
              BY <2>1, <3>2, <3>3, <5>2
            <6> QED
              BY <6>1, <6>2
          <5> QED
            BY <5>1, <5>2
        <4>5. i \in cuts
          OBVIOUS
        <4> HIDE DEF cuts
        <4> QED
          BY <4>2, <4>3, <4>4, <4>5 DEF Tiling
      <3> HIDE DEF cuts
      <3> QED
        BY <3>4, <3>5 DEF HasTiling
    <2> QED
      BY <2>2, <2>3
  <1> QED
    BY <1>1, <1>2, <1>3

\* What the loop of _validate_bind_image() computes.
LEMMA SubfieldsTile ==
  ASSUME NEW b \in Seq(Nat)
  PROVE  Subfields(b) <=> HasTiling(b, 1)
  <1> DEFINE n == Len(b)
  <1> DEFINE Solves(f) == f = [i \in 1..(n + 1) |-> SubfieldFits(b, i, f[i + b[i]])]
  <1>1. n \in Nat /\ \A i \in 1..n : b[i] \in Nat
    OBVIOUS
  <1>2. ASSUME NEW i \in 1..(n + 1), NEW t, NEW u,
               b[i] >= 2 /\ i + b[i] <= n + 1 => (t <=> u)
        PROVE  SubfieldFits(b, i, t) <=> SubfieldFits(b, i, u)
    BY <1>2 DEF SubfieldFits
  <1> DEFINE g == [i \in 1..(n + 1) |-> HasTiling(b, i)]
  <1> DEFINE ok == CHOOSE f : Solves(f)
  <1>3. ASSUME NEW i \in 1..(n + 1), b[i] >= 2, i + b[i] <= n + 1, ~(n - i + 1 < 2)
        PROVE  i + b[i] \in 1..(n + 1) /\ i + b[i] > i
    BY <1>1, <1>3
  <1>4. Solves(g)
    <2> SUFFICES ASSUME NEW i \in 1..(n + 1)
                 PROVE  HasTiling(b, i) = SubfieldFits(b, i, g[i + b[i]])
      OBVIOUS
    <2>1. HasTiling(b, i) <=> SubfieldFits(b, i, HasTiling(b, i + b[i]))
      BY TilingStep
    <2>2. CASE n - i + 1 < 2
      BY <2>1, <2>2 DEF SubfieldFits, HasTiling
    <2>3. CASE ~(n - i + 1 < 2)
      <3>1. b[i] >= 2 /\ i + b[i] <= n + 1 => g[i + b[i]] = HasTiling(b, i + b[i])
        BY <1>3, <2>3
      <3> QED
        BY <2>1, <2>3, <3>1 DEF SubfieldFits, HasTiling
    <2> QED
      BY <2>2, <2>3
  <1>5. Solves(ok)
    <2> HIDE DEF g, Solves
    <2> QED
      BY <1>4
  <1>6. Subfields(b) = ok[1]
    BY DEF Subfields, SubfieldFits
  <1> HIDE DEF ok, g
  <1> DEFINE T == {j \in 0..n : ~(ok[n + 1 - j] <=> HasTiling(b, n + 1 - j))}
  <1>7. T = {}
    <2> SUFFICES ASSUME T # {} PROVE FALSE
      OBVIOUS
    <2>1. PICK j \in T : \A y \in T : j <= y
      <3>1. T \subseteq Nat
        BY <1>1
      <3> HIDE DEF T
      <3> QED
        BY <3>1, Least
    <2> DEFINE i == n + 1 - j
    <2>2. j \in 0..n /\ i \in 1..(n + 1) /\ ~(ok[i] <=> HasTiling(b, i))
      BY <1>1, <2>1
    <2>3. ok[i] <=> SubfieldFits(b, i, ok[i + b[i]])
      BY <1>5, <2>2
    <2>4. HasTiling(b, i) <=> SubfieldFits(b, i, HasTiling(b, i + b[i]))
      BY <2>2, TilingStep
    <2>5. ~(n - i + 1 < 2) /\ b[i] >= 2 /\ i + b[i] <= n + 1
      BY <2>2, <2>3, <2>4 DEF SubfieldFits
    <2>6. i + b[i] \in 1..(n + 1) /\ i + b[i] > i
      BY <1>3, <2>2, <2>5
    <2> DEFINE k == i + b[i]
    <2>7. k \in 1..(n + 1) /\ k > i
      BY <2>6
    <2> HIDE DEF k
    <2>8. n + 1 - k \in 0..n /\ n + 1 - (n + 1 - k) = k /\ n + 1 - k < j
      BY <1>1, <2>2, <2>7
    <2>9. n + 1 - k \notin T
      BY <1>1, <2>1, <2>2, <2>8
    <2>10. ok[k] <=> HasTiling(b, k)
      BY <2>8, <2>9
    <2> QED
      BY <2>2, <2>3, <2>4, <2>10 DEF SubfieldFits, k
  <1>8. n \in 0..n /\ n + 1 - n = 1
    BY <1>1
  <1>9. n \notin T
    BY <1>7
  <1>10. ok[1] <=> HasTiling(b, 1)
    BY <1>8, <1>9
  <1> QED
    BY <1>6, <1>10


\* The validator accepts the BIND fields that can be cut into subfields.
LEMMA ValidatedTiles ==
  ASSUME NEW type, NEW data \in Seq(Nat), Validate(type, data)
  PROVE  BindSubfieldsTile'
  <1>3. checked' = [type |-> type, data |-> data, valid |-> LengthIsValid(data) /\ ValidByType(type, data)]
    BY DEF Validate
  <1>4. checked'.type = type /\ checked'.data = data
        /\ checked'.valid = (LengthIsValid(data) /\ ValidByType(type, data))
    BY <1>3
  <1> DEFINE b == SubSeq(data, 4, Len(data))
  <1>5. b \in Seq(Nat)
    <2>1. \A i \in 4..Len(data) : data[i] \in Nat
      OBVIOUS
    <2>2. Len(data) \in Int
      OBVIOUS
    <2> QED
      BY <2>1, <2>2, SubSeqProperties
  <1>6. ASSUME type = BindType, LengthIsValid(data), Len(data) >= 8
        PROVE  checked'.valid <=> HasTiling(b, 1)
    <2>1. ValidByType(type, data) = (Len(data) >= 8 /\ Subfields(b))
      BY <1>6 DEF ValidByType, BindType, SfeType, SnaType, QueryReplyType, PrinterStatusType
    <2> HIDE DEF b
    <2>2. checked'.valid <=> Subfields(b)
      BY <1>4, <1>6, <2>1, Zenon
    <2> QED
      BY <1>5, <2>2, SubfieldsTile
  <1>7. ASSUME type = BindType, LengthIsValid(data), Len(data) >= 8
        PROVE  checked'.valid <=> \E cuts \in SUBSET (1..(Len(b) + 1)) : Tiling(b, 1, cuts)
    BY <1>6, <1>7 DEF HasTiling
  <1> QED
    BY <1>4, <1>7 DEF BindSubfieldsTile, Tiling

\* v is u with o bytes before it.
EndsWith(v, u, o) == Len(v) = Len(u) + o /\ \A j \in 1..Len(u) : v[j + o] = u[j]

SamePart(v, p, q, u, i, k) == SubSeq(v, p, q) = SubSeq(u, i, k) /\ SubSeq(u, i, k) \in Seq(Nat)

\* A part of a sequence is found again in a longer one that ends like it.
LEMMA PartShifted ==
  ASSUME NEW u \in Seq(Nat), NEW v \in Seq(Nat), NEW o \in Nat, EndsWith(v, u, o),
         NEW i \in Nat \ {0}, NEW k \in 0..Len(u),
         NEW p \in Int, p = i + o, NEW q \in Int, q = k + o
  PROVE  SamePart(v, p, q, u, i, k)
  <1>0. Len(u) \in Nat /\ k \in Nat /\ k <= Len(u) /\ i \in Int /\ k \in Int
    OBVIOUS
  <1>1. Len(u) \in Nat /\ \A j \in i..k : j \in 1..Len(u) /\ u[j] \in Nat /\ v[j + o] = u[j]
    <2>1. \A j \in i..k : j \in 1..Len(u)
      BY <1>0
    <2>2. \A j \in 1..Len(u) : u[j] \in Nat /\ v[j + o] = u[j]
      BY DEF EndsWith
    <2> QED
      BY <1>0, <2>1, <2>2, Zenon
  <1>2. \A j \in (i + o)..(k + o) : v[j] \in Nat
    <2> SUFFICES ASSUME NEW j \in (i + o)..(k + o) PROVE v[j] \in Nat
      OBVIOUS
    <2>1. j \in 1..Len(v)
      BY <1>0, <1>1 DEF EndsWith
    <2> QED
      BY <2>1
  <1> DEFINE x == SubSeq(v, i + o, k + o)
  <1> DEFINE y == SubSeq(u, i, k)
  <1>3. /\ x \in Seq(Nat) /\ Len(x) = IF i + o <= k + o THEN (k + o) - (i + o) + 1 ELSE 0
        /\ \A j \in 1..((k + o) - (i + o) + 1) : x[j] = v[(i + o) + j - 1]
    BY <1>1, <1>2, SubSeqProperties
  <1>4. /\ y \in Seq(Nat) /\ Len(y) = IF i <= k THEN k - i + 1 ELSE 0
        /\ \A j \in 1..(k - i + 1) : y[j] = u[i + j - 1]
    <2>1. \A j \in i..k : u[j] \in Nat
      BY <1>1
    <2> HIDE DEF y
    <2> QED
      BY <1>0, <2>1, SubSeqProperties DEF y
  <1> HIDE DEF x, y
  <1>5. Len(x) = Len(y)
    BY <1>1, <1>3, <1>4
  <1>6. ASSUME NEW j \in 1..Len(x) PROVE x[j] = y[j]
    <2>1. /\ j \in 1..((k + o) - (i + o) + 1) /\ j \in 1..(k - i + 1)
          /\ i + j - 1 \in i..k /\ (i + j - 1) + o = (i + o) + j - 1
      BY <1>1, <1>3
    <2>2. x[j] = v[(i + o) + j - 1] /\ y[j] = u[i + j - 1]
      BY <1>3, <1>4, <2>1
    <2>3. v[(i + j - 1) + o] = u[i + j - 1]
      BY <1>1, <2>1
    <2> QED
      BY <2>1, <2>2, <2>3
  <1>7. x = y
    BY <1>3, <1>4, <1>5, <1>6, SeqEqual
  <1> QED
    BY <1>4, <1>7 DEF x, y, SamePart

IsField(f, length, type, z) ==
  /\ f \in Seq(Nat) /\ f # << >> /\ EndsWith(f, z, 4)
  /\ f[1] = FieldByte /\ f[2] = 0 /\ f[3] = length /\ f[4] = type

\* The bytes of a field, and what is behind its head.
LEMMA FieldBytes ==
  ASSUME NEW length \in Nat, NEW type \in Nat, NEW z \in Seq(Nat)
  PROVE  IsField(Field(length, type, z), length, type, z)
  <1> DEFINE h == <<FieldByte, 0, length, type>>
  <1>1. /\ h \in Seq(Nat) /\ Len(h) = 4
        /\ h[1] = FieldByte /\ h[2] = 0 /\ h[3] = length /\ h[4] = type
    BY DEF FieldByte
  <1> HIDE DEF h
  <1> DEFINE g == h \o z
  <1>2. /\ g \in Seq(Nat) /\ Len(g) = 4 + Len(z)
        /\ \A i \in 1..(4 + Len(z)) : g[i] = IF i <= 4 THEN h[i] ELSE z[i - 4]
    <2>1. /\ g \in Seq(Nat) /\ Len(g) = Len(h) + Len(z)
          /\ \A i \in 1..(Len(h) + Len(z)) : g[i] = IF i <= Len(h) THEN h[i] ELSE z[i - Len(h)]
      BY <1>1, ConcatProperties
    <2> HIDE DEF g
    <2> QED
      BY <1>1, <2>1
  <1> HIDE DEF g
  <1>3. Len(z) \in Nat
    OBVIOUS
  <1>4. g[1] = h[1] /\ g[2] = h[2] /\ g[3] = h[3] /\ g[4] = h[4]
    BY <1>2, <1>3
  <1>5. ASSUME NEW j \in 1..Len(z) PROVE g[j + 4] = z[j]
    <2>1. j + 4 \in 1..(4 + Len(z)) /\ ~(j + 4 <= 4) /\ (j + 4) - 4 = j
      BY <1>3
    <2> QED
      BY <1>2, <2>1
  <1>6. g # << >>
    BY <1>2, <1>3
  <1>7. Field(length, type, z) = g
    BY DEF Field, g, h
  <1>8. EndsWith(g, z, 4)
    BY <1>2, <1>3, <1>5 DEF EndsWith
  <1> QED
    BY <1>1, <1>2, <1>4, <1>6, <1>7, <1>8 DEF IsField

\* What the parser takes of what is behind the head of a field.
TakenOf(length, z) == IF length = 0 THEN 0 ELSE IF length - 1 > Len(z) THEN Len(z) ELSE length - 1

\* A step of the parser at a field.
LEMMA FieldTaken ==
  ASSUME NEW length \in Nat, NEW type \in Nat, NEW z \in Seq(Nat),
         wire = Field(length, type, z), TakeField
  PROVE  LET n == TakenOf(length, z) IN
         /\ taken' = Append(taken, [type |-> type, data |-> SubSeq(z, 1, n)])
         /\ wire' = SubSeq(z, n + 1, Len(z))
  <1>1. /\ wire \in Seq(Nat) /\ Len(wire) = Len(z) + 4 /\ wire # << >>
        /\ wire[1] = FieldByte /\ wire[2] = 0 /\ wire[3] = length /\ wire[4] = type
        /\ \A j \in 1..Len(z) : wire[j + 4] = z[j]
    <2>1. IsField(wire, length, type, z)
      BY FieldBytes
    <2> QED
      BY <2>1 DEF IsField, EndsWith
  <1>2. Len(z) \in Nat
    OBVIOUS
  <1> DEFINE body == Tail(wire)
  <1>3. /\ body \in Seq(Nat) /\ Len(body) = Len(z) + 3
        /\ \A j \in 1..(Len(z) + 3) : body[j] = wire[j + 1]
    BY <1>1, <1>2
  <1>4. IF Len(body) < 3
        THEN wire' = << >> /\ UNCHANGED <<taken, device>>
        ELSE /\ taken' = Append(taken, [type |-> body[3], data |-> DataOf(body)])
             /\ wire' = SubSeq(body, 4 + Len(DataOf(body)), Len(body))
    <2>1. ~(wire[2] = FieldByte)
      BY <1>1 DEF FieldByte
    <2> QED
      BY <2>1 DEF TakeField
  <1> HIDE DEF body
  <1>5. body[1] = 0 /\ body[2] = length /\ body[3] = type /\ \A j \in 1..Len(z) : body[j + 3] = z[j]
    <2>1. body[1] = wire[2] /\ body[2] = wire[3] /\ body[3] = wire[4]
      BY <1>2, <1>3
    <2>2. ASSUME NEW j \in 1..Len(z) PROVE body[j + 3] = z[j]
      <3>1. j + 3 \in 1..(Len(z) + 3) /\ (j + 3) + 1 = j + 4
        BY <1>2
      <3> QED
        BY <1>1, <1>3, <3>1
    <2> QED
      BY <1>1, <2>1, <2>2
  <1> DEFINE n == TakenOf(length, z)
  <1>6. n \in 0..Len(z)
    BY <1>2 DEF TakenOf
  <1>7. DataOf(body) = SubSeq(body, 4, 3 + n)
    <2>1. LengthOf(body) = length
      BY <1>5 DEF LengthOf
    <2>2. Len(body) - 3 = Len(z)
      BY <1>2, <1>3
    <2> QED
      BY <1>2, <2>1, <2>2 DEF DataOf, TakenOf
  <1> HIDE DEF n
  <1> DEFINE o == 3
  <1>13. o \in Nat /\ body \in Seq(Nat) /\ EndsWith(body, z, o) /\ o = 3
    BY <1>3, <1>5 DEF EndsWith
  <1> HIDE DEF o
  <1>8. SubSeq(body, 4, 3 + n) = SubSeq(z, 1, n) /\ SubSeq(z, 1, n) \in Seq(Nat)
    <2>1. 1 \in Nat \ {0} /\ 4 \in Int /\ 4 = 1 + o /\ 3 + n \in Int /\ 3 + n = n + o
      BY <1>2, <1>6, <1>13
    <2>2. SamePart(body, 4, 3 + n, z, 1, n)
      BY <1>6, <1>13, <2>1, PartShifted, Zenon
    <2> QED
      BY <2>2 DEF SamePart
  <1>9. DataOf(body) = SubSeq(z, 1, n)
    BY <1>7, <1>8
  <1>10. Len(DataOf(body)) = n
    <2>1. \A j \in 1..n : z[j] \in Nat
      BY <1>2, <1>6
    <2>2. Len(SubSeq(z, 1, n)) = IF 1 <= n THEN n - 1 + 1 ELSE 0
      BY <1>2, <1>6, <2>1, SubSeqProperties
    <2> QED
      BY <1>2, <1>6, <1>9, <2>2
  <1>11. SubSeq(body, 4 + n, Len(z) + 3) = SubSeq(z, n + 1, Len(z))
    <2>1. /\ n + 1 \in Nat \ {0} /\ Len(z) \in 0..Len(z) /\ 4 + n \in Int /\ 4 + n = (n + 1) + o
          /\ Len(z) + 3 \in Int /\ Len(z) + 3 = Len(z) + o
      BY <1>2, <1>6, <1>13
    <2> DEFINE i == n + 1
    <2> DEFINE k == Len(z)
    <2> DEFINE p == 4 + n
    <2> DEFINE q == Len(z) + 3
    <2>2. i \in Nat \ {0} /\ k \in 0..Len(z) /\ p \in Int /\ p = i + o /\ q \in Int /\ q = k + o
      BY <2>1
    <2> HIDE DEF i, k, p, q
    <2>3. SamePart(body, p, q, z, i, k)
      BY <1>13, <2>2, PartShifted, Zenon
    <2> QED
      BY <2>3 DEF i, k, p, q, SamePart
  <1>12. ~(Len(body) < 3)
    BY <1>2, <1>3, <1>6
  <1> QED
    BY <1>3, <1>4, <1>5, <1>9, <1>10, <1>11, <1>12 DEF n


\* A part of a sequence of bytes is one.
LEMMA PartOfBytes ==
  ASSUME NEW s \in Seq(Nat), NEW i \in Nat \ {0}, NEW k \in Int, k <= Len(s)
  PROVE  /\ SubSeq(s, i, k) \in Seq(Nat)
         /\ Len(SubSeq(s, i, k)) = IF i <= k THEN k - i + 1 ELSE 0
         /\ \A j \in 1..(k - i + 1) : SubSeq(s, i, k)[j] = s[i + j - 1]
  <1>1. \A j \in i..k : j \in 1..Len(s)
    OBVIOUS
  <1>2. \A j \in 1..Len(s) : s[j] \in Nat
    OBVIOUS
  <1>3. \A j \in i..k : s[j] \in Nat
    BY <1>1, <1>2
  <1>4. i \in Int
    OBVIOUS
  <1> QED
    BY <1>3, <1>4, SubSeqProperties

\* Concatenation is associative.
LEMMA BytesThree ==
  ASSUME NEW x \in Seq(Nat), NEW y \in Seq(Nat), NEW z \in Seq(Nat)
  PROVE  (x \o y) \o z = x \o (y \o z)
  <1> DEFINE a == (x \o y) \o z
  <1> DEFINE b == x \o (y \o z)
  <1>1. a \in Seq(Nat) /\ b \in Seq(Nat)
    OBVIOUS
  <1>2. Len(a) = Len(b)
    OBVIOUS
  <1>3. ASSUME NEW i \in 1..Len(a) PROVE a[i] = b[i]
    OBVIOUS
  <1> HIDE DEF a, b
  <1>4. a = b
    BY <1>1, <1>2, <1>3, SeqEqual
  <1> QED
    BY <1>4 DEF a, b

\* The whole sequence, and the parts of two that are put together.
LEMMA PartsOfTwo ==
  ASSUME NEW s \in Seq(Nat), NEW r \in Seq(Nat)
  PROVE  /\ SubSeq(s, 1, Len(s)) = s
         /\ SubSeq(s \o r, 1, Len(s)) = s
         /\ SubSeq(s \o r, Len(s) + 1, Len(s \o r)) = r
  <1> DEFINE z == s \o r
  <1>1. /\ z \in Seq(Nat) /\ Len(z) = Len(s) + Len(r)
        /\ \A j \in 1..(Len(s) + Len(r)) : z[j] = IF j <= Len(s) THEN s[j] ELSE r[j - Len(s)]
    BY ConcatProperties
  <1> HIDE DEF z
  <1> DEFINE m == Len(s)
  <1> DEFINE l == Len(r)
  <1>2. m \in Nat /\ l \in Nat
    OBVIOUS
  <1>3. SubSeq(s, 1, m) = s
    <2> DEFINE x == SubSeq(s, 1, m)
    <2>1. x \in Seq(Nat) /\ Len(x) = (IF 1 <= m THEN m - 1 + 1 ELSE 0)
          /\ \A j \in 1..(m - 1 + 1) : x[j] = s[1 + j - 1]
      BY <1>2, PartOfBytes
    <2> HIDE DEF x
    <2>2. Len(x) = Len(s)
      BY <1>2, <2>1
    <2>3. ASSUME NEW j \in 1..Len(x) PROVE x[j] = s[j]
      <3>1. j \in 1..(m - 1 + 1) /\ 1 + j - 1 = j
        BY <1>2, <2>2
      <3> QED
        BY <2>1, <3>1
    <2>4. x = s
      BY <2>1, <2>2, <2>3, SeqEqual
    <2> QED
      BY <2>4 DEF x
  <1>4. SubSeq(z, 1, m) = s
    <2> DEFINE x == SubSeq(z, 1, m)
    <2>0. m \in Int /\ m <= Len(z)
      BY <1>1, <1>2
    <2>1. x \in Seq(Nat) /\ Len(x) = (IF 1 <= m THEN m - 1 + 1 ELSE 0)
          /\ \A j \in 1..(m - 1 + 1) : x[j] = z[1 + j - 1]
      BY <1>1, <2>0, PartOfBytes
    <2> HIDE DEF x
    <2>2. Len(x) = Len(s)
      BY <1>2, <2>1
    <2>3. ASSUME NEW j \in 1..Len(x) PROVE x[j] = s[j]
      <3>1. j \in 1..(m - 1 + 1) /\ 1 + j - 1 = j /\ j \in 1..(m + l) /\ j <= m
        BY <1>2, <2>2
      <3> QED
        BY <1>1, <2>1, <3>1
    <2>4. x = s
      BY <2>1, <2>2, <2>3, SeqEqual
    <2> QED
      BY <2>4 DEF x
  <1>5. SubSeq(z, m + 1, Len(z)) = r
    <2> DEFINE x == SubSeq(z, m + 1, m + l)
    <2>0. m + 1 \in Nat \ {0} /\ m + l \in Int /\ m + l <= Len(z)
      BY <1>1, <1>2
    <2>1. x \in Seq(Nat) /\ Len(x) = (IF m + 1 <= m + l THEN (m + l) - (m + 1) + 1 ELSE 0)
          /\ \A j \in 1..((m + l) - (m + 1) + 1) : x[j] = z[(m + 1) + j - 1]
      BY <1>1, <2>0, PartOfBytes
    <2> HIDE DEF x
    <2>2. Len(x) = Len(r)
      BY <1>2, <2>1
    <2>3. ASSUME NEW j \in 1..Len(x) PROVE x[j] = r[j]
      <3>1. /\ j \in 1..((m + l) - (m + 1) + 1) /\ (m + 1) + j - 1 \in 1..(m + l)
            /\ ~((m + 1) + j - 1 <= m) /\ ((m + 1) + j - 1) - m = j
        BY <1>2, <2>2
      <3>2. z[(m + 1) + j - 1] = r[((m + 1) + j - 1) - m]
        BY <1>1, <3>1
      <3> QED
        BY <2>1, <3>1, <3>2
    <2>4. x = r
      BY <2>1, <2>2, <2>3, SeqEqual
    <2> QED
      BY <1>1, <2>4 DEF x
  <1> QED
    BY <1>3, <1>4, <1>5 DEF z

\* How a builder writes its field: the length is exact or too large.
ExactLength == {"query_reply", "query"}

BuiltField(kind, length, type, own) ==
  /\ length \in Nat /\ type \in Nat /\ own \in Seq(Nat)
  /\ Built(kind) = Field(length, type, own)
  /\ kind \in ExactLength => length = Len(own) + 1
  /\ kind \notin ExactLength => length > Len(own) + 1

\* What each of the builders writes.
LEMMA BuildersWrite ==
  ASSUME NEW kind \in Builders
  PROVE  \E length, type, own : BuiltField(kind, length, type, own)
  <1>1. CASE kind = "query_reply"
    <2> DEFINE own == <<Characteristics>> \o << 7 >>
    <2>1. own \in Seq(Nat) /\ Len(own) = 2
      <3>1. <<Characteristics>> \in Seq(Nat) /\ Len(<<Characteristics>>) = 1 /\ << 7 >> \in Seq(Nat) /\ Len(<< 7 >>) = 1
        BY DEF Characteristics
      <3> QED
        BY <3>1, ConcatProperties
    <2>2. Built(kind) = Field(3, QueryReplySf, own)
      BY <1>1 DEF Built, QueryReply
    <2> HIDE DEF own
    <2>3. BuiltField(kind, 3, QueryReplySf, own)
      BY <1>1, <2>1, <2>2 DEF BuiltField, ExactLength, QueryReplySf
    <2> QED
      BY <2>3
  <1>2. CASE kind = "device_type"
    <2> DEFINE name == [i \in 1..13 |-> 73]
    <2> DEFINE head == <<DeviceType, 1, 10>>
    <2> DEFINE own == head \o name \o << 2 >>
    <2>1. name \in Seq(Nat) /\ head \in Seq(Nat) /\ << 2 >> \in Seq(Nat)
      BY DEF DeviceType
    <2>2. Built(kind) = Field(3 + Len(own), QueryReplySf, own)
      BY <1>2 DEF Built, DeviceTypeReply
    <2>3. own \in Seq(Nat)
      <3> HIDE DEF name, head
      <3>1. head \o name \in Seq(Nat)
        BY <2>1, ConcatProperties
      <3> QED
        BY <2>1, <3>1, ConcatProperties
    <2> HIDE DEF own
    <2>4. Len(own) \in Nat
      BY <2>3
    <2>5. BuiltField(kind, 3 + Len(own), QueryReplySf, own)
      BY <1>2, <2>2, <2>3, <2>4 DEF BuiltField, ExactLength, QueryReplySf
    <2> QED
      BY <2>5
  <1>3. CASE kind = "characteristics"
    <2> DEFINE own == <<Characteristics, 0, 0>>
    <2>1. own \in Seq(Nat) /\ Len(own) = 3
      BY DEF Characteristics
    <2>2. Built(kind) = Field(5, QueryReplySf, own)
      BY <1>3 DEF Built, CharacteristicsReply
    <2> HIDE DEF own
    <2>3. BuiltField(kind, 5, QueryReplySf, own)
      BY <1>3, <2>1, <2>2 DEF BuiltField, ExactLength, QueryReplySf
    <2> QED
      BY <2>3
  <1>4. CASE kind = "printer_status"
    <2> DEFINE own == << 64 >>
    <2>1. own \in Seq(Nat) /\ Len(own) = 1
      OBVIOUS
    <2>2. Built(kind) = Field(4, PrinterStatusType, own)
      BY <1>4 DEF Built, PrinterStatusField
    <2> HIDE DEF own
    <2>3. BuiltField(kind, 4, PrinterStatusType, own)
      BY <1>4, <2>1, <2>2 DEF BuiltField, ExactLength, PrinterStatusType
    <2> QED
      BY <2>3
  <1>5. CASE kind = "query"
    <2> DEFINE own == << >>
    <2>1. own \in Seq(Nat) /\ Len(own) = 0
      OBVIOUS
    <2>2. Built(kind) = Field(1, 2, own)
      BY <1>5 DEF Built, QueryField
    <2> HIDE DEF own
    <2>3. BuiltField(kind, 1, 2, own)
      BY <1>5, <2>1, <2>2 DEF BuiltField, ExactLength
    <2> QED
      BY <2>3
  <1> QED
    BY <1>1, <1>2, <1>3, <1>4, <1>5 DEF Builders

\* The builders whose length is that of type and data are those two.
LEMMA ExactCount ==
  ASSUME NEW kind \in Builders, CountsTypeAndData(Built(kind))
  PROVE  kind \in ExactLength
  <1>1. PICK length, type, own : BuiltField(kind, length, type, own)
    BY BuildersWrite
  <1> DEFINE f == Built(kind)
  <1>2. IsField(f, length, type, own) /\ length \in Nat /\ own \in Seq(Nat)
    BY <1>1, FieldBytes DEF BuiltField
  <1>3. f[2] = 0 /\ f[3] = length /\ Len(f) = Len(own) + 4 /\ Len(own) \in Nat
    BY <1>2 DEF IsField, EndsWith
  <1>4. length = Len(own) + 1
    BY <1>2, <1>3 DEF CountsTypeAndData
  <1> QED
    BY <1>1, <1>3, <1>4 DEF BuiltField

HasParts(kind, length, type, own, rest) ==
  /\ Built(kind)[4] = type /\ SubSeq(Built(kind), 5, Len(Built(kind))) = own
  /\ Built(kind) \o rest = Field(length, type, own \o rest)
  /\ Built(kind) \o rest # << >> /\ Built(kind) \o rest \in Seq(Nat)

\* The type and the data of a field that was built are its fourth byte and what
\* is behind it, and what follows the field follows the data.
LEMMA BuiltParts ==
  ASSUME NEW kind, NEW length, NEW type, NEW own, BuiltField(kind, length, type, own),
         NEW rest \in Seq(Nat)
  PROVE  HasParts(kind, length, type, own, rest)
  <1>1. length \in Nat /\ type \in Nat /\ own \in Seq(Nat) /\ Built(kind) = Field(length, type, own)
    BY DEF BuiltField
  <1> DEFINE f == Built(kind)
  <1>2. IsField(f, length, type, own)
    BY <1>1, FieldBytes
  <1>3. f[4] = type /\ f \in Seq(Nat) /\ EndsWith(f, own, 4)
    BY <1>2 DEF IsField
  <1> DEFINE k == Len(own)
  <1>4. Len(f) = k + 4 /\ k \in Nat
    BY <1>1, <1>3 DEF EndsWith
  <1>5. SubSeq(f, 5, Len(f)) = SubSeq(own, 1, k)
    <2> HIDE DEF f
    <2>1. /\ 1 \in Nat \ {0} /\ k \in 0..Len(own) /\ 5 \in Int /\ 5 = 1 + 4 /\ Len(f) \in Int
          /\ Len(f) = k + 4 /\ 4 \in Nat
      BY <1>4
    <2>2. SamePart(f, 5, Len(f), own, 1, k)
      <3> HIDE DEF k
      <3> QED
        BY <1>1, <1>3, <2>1, PartShifted, Zenon
    <2> QED
      BY <2>2 DEF SamePart
  <1>6. SubSeq(own, 1, k) = own
    BY <1>1, PartsOfTwo
  <1>7. f \o rest = Field(length, type, own \o rest)
    <2> DEFINE h == <<FieldByte, 0, length, type>>
    <2>1. h \in Seq(Nat)
      BY <1>1 DEF FieldByte
    <2>2. f = h \o own /\ Field(length, type, own \o rest) = h \o (own \o rest)
      BY <1>1 DEF Field
    <2> HIDE DEF h, f
    <2>3. (h \o own) \o rest = h \o (own \o rest)
      BY <1>1, <2>1, BytesThree, Zenon
    <2> QED
      BY <2>2, <2>3
  <1>8. own \o rest \in Seq(Nat)
    BY <1>1, ConcatProperties
  <1>9. f \o rest # << >> /\ f \o rest \in Seq(Nat)
    <2> DEFINE z == own \o rest
    <2> HIDE DEF z
    <2>1. IsField(Field(length, type, z), length, type, z)
      BY <1>1, <1>8, FieldBytes DEF z
    <2> QED
      BY <1>7, <2>1 DEF IsField, z
  <1> QED
    BY <1>3, <1>5, <1>6, <1>7, <1>9 DEF HasParts


(***************************************************************************)
(* The inductive invariant of the parser: between a field that was built   *)
(* and the end of the wire, it has not begun, or has read the first field  *)
(* rightly; where the length is exact, the field behind it is next.        *)
(***************************************************************************)
OwnOf(kind) == SubSeq(Built(kind), 5, Len(Built(kind)))
FirstOf(kind) == [type |-> Built(kind)[4], data |-> OwnOf(kind)]
SecondField == [type |-> PrinterStatusType, data |-> <<0>>]

FirstIsRead ==
  /\ taken # << >>
  /\ taken[1].type = Built(built)[4]
  /\ IsPrefix(OwnOf(built), taken[1].data)
  /\ built \notin ExactLength => Len(taken[1].data) > Len(OwnOf(built))

ExactIsNext ==
  \/ wire = PrinterStatusField(0) /\ taken = <<FirstOf(built)>>
  \/ wire = << >> /\ taken = <<FirstOf(built), SecondField>>

FieldsAreRead ==
  built # "none" =>
    \/ taken = << >> /\ wire = Built(built) \o PrinterStatusField(0)
    \/ FirstIsRead /\ (built \in ExactLength => ExactIsNext)

FieldRecords == [type : Nat, data : Seq(Nat)]

FieldsInv ==
  /\ wire \in Seq(Nat) /\ taken \in Seq(FieldRecords)
  /\ built \in Builders \cup {"none"}
  /\ FieldsAreRead /\ BindSubfieldsTile

\* The field that follows the one that was built.
LEMMA StatusField ==
  /\ << 0 >> \in Seq(Nat) /\ Len(<< 0 >>) = 1
  /\ PrinterStatusField(0) = Field(4, PrinterStatusType, << 0 >>)
  /\ PrinterStatusField(0) \in Seq(Nat) /\ Len(PrinterStatusField(0)) = 5
  /\ PrinterStatusField(0) # << >> /\ PrinterStatusField(0)[1] = FieldByte
  <1> DEFINE z == << 0 >>
  <1>1. z \in Seq(Nat) /\ Len(z) = 1 /\ PrinterStatusField(0) = Field(4, PrinterStatusType, z)
    BY DEF PrinterStatusField
  <1> HIDE DEF z
  <1>2. IsField(Field(4, PrinterStatusType, z), 4, PrinterStatusType, z)
    BY <1>1, FieldBytes DEF PrinterStatusType
  <1> QED
    BY <1>1, <1>2 DEF IsField, EndsWith, z

\* What a step of the parser may do to what it has read.
LEMMA TakeFieldTypes ==
  ASSUME FieldsInv, TakeField
  PROVE  /\ wire' \in Seq(Nat)
         /\ \/ taken' = taken
            \/ \E r \in FieldRecords : taken' = Append(taken, r)
  <1> DEFINE body == IF Len(wire) > 1 /\ wire[2] = FieldByte THEN SubSeq(wire, 3, Len(wire)) ELSE Tail(wire)
  <1>1. wire \in Seq(Nat) /\ wire # << >> /\ Len(wire) \in Nat
    BY DEF FieldsInv, TakeField
  <1>2. body \in Seq(Nat)
    <2>1. SubSeq(wire, 3, Len(wire)) \in Seq(Nat)
      BY <1>1, PartOfBytes
    <2>2. Tail(wire) \in Seq(Nat)
      BY <1>1
    <2> QED
      BY <2>1, <2>2
  <1>3. IF Len(body) < 3
        THEN wire' = << >> /\ UNCHANGED <<taken, device>>
        ELSE /\ taken' = Append(taken, [type |-> body[3], data |-> DataOf(body)])
             /\ wire' = SubSeq(body, 4 + Len(DataOf(body)), Len(body))
    BY DEF TakeField
  <1> HIDE DEF body
  <1>4. CASE Len(body) < 3
    BY <1>3, <1>4
  <1>5. CASE ~(Len(body) < 3)
    <2>1. Len(body) \in Nat /\ Len(body) >= 3 /\ body[1] \in Nat /\ body[2] \in Nat /\ body[3] \in Nat
      BY <1>2, <1>5
    <2> DEFINE claimed == IF LengthOf(body) = 0 THEN 0 ELSE LengthOf(body) - 1
    <2> DEFINE n == IF claimed > Len(body) - 3 THEN Len(body) - 3 ELSE claimed
    <2>2. LengthOf(body) \in Nat
      BY <2>1 DEF LengthOf
    <2>3. n \in Nat /\ 3 + n <= Len(body)
      BY <2>1, <2>2
    <2>4. DataOf(body) = SubSeq(body, 4, 3 + n)
      BY DEF DataOf
    <2> HIDE DEF n
    <2>5. DataOf(body) \in Seq(Nat)
      <3> DEFINE q == 3 + n
      <3>1. 4 \in Nat \ {0} /\ q \in Int /\ q <= Len(body)
        BY <2>1, <2>3
      <3> HIDE DEF q
      <3>2. SubSeq(body, 4, q) \in Seq(Nat)
        BY <1>2, <3>1, PartOfBytes
      <3> QED
        BY <2>4, <3>2 DEF q
    <2> DEFINE k == 4 + Len(DataOf(body))
    <2>6. k \in Nat \ {0} /\ wire' = SubSeq(body, k, Len(body))
      BY <1>3, <1>5, <2>5
    <2> HIDE DEF k
    <2>7. wire' \in Seq(Nat)
      BY <1>2, <2>1, <2>6, PartOfBytes
    <2> DEFINE r == [type |-> body[3], data |-> DataOf(body)]
    <2>8. r \in FieldRecords
      BY <2>1, <2>5 DEF FieldRecords
    <2>9. taken' = Append(taken, r)
      BY <1>3, <1>5
    <2> QED
      BY <2>7, <2>8, <2>9
  <1> QED
    BY <1>4, <1>5

\* The first step behind a builder.
LEMMA FirstTaken ==
  ASSUME FieldsInv, TakeField, built \in Builders, taken = << >>,
         wire = Built(built) \o PrinterStatusField(0), built' = built
  PROVE  FieldsAreRead'
  <1> DEFINE rest == PrinterStatusField(0)
  <1>1. PICK length, type, own : BuiltField(built, length, type, own)
    BY BuildersWrite
  <1>2. /\ length \in Nat /\ type \in Nat /\ own \in Seq(Nat)
        /\ built \in ExactLength => length = Len(own) + 1
        /\ built \notin ExactLength => length > Len(own) + 1
    BY <1>1 DEF BuiltField
  <1>3. rest \in Seq(Nat) /\ Len(rest) = 5
    BY StatusField
  <1> HIDE DEF rest
  <1>4. /\ Built(built)[4] = type /\ OwnOf(built) = own
        /\ Built(built) \o rest = Field(length, type, own \o rest)
    <2>1. HasParts(built, length, type, own, rest)
      BY <1>1, <1>3, BuiltParts, Zenon
    <2> QED
      BY <2>1 DEF OwnOf, HasParts
  <1> DEFINE z == own \o rest
  <1>5. z \in Seq(Nat) /\ Len(z) = Len(own) + 5 /\ Len(own) \in Nat
    <2>1. z \in Seq(Nat) /\ Len(z) = Len(own) + Len(rest)
      BY <1>2, <1>3, ConcatProperties
    <2> HIDE DEF z
    <2> QED
      BY <1>2, <1>3, <2>1
  <1>6. SubSeq(own, 1, Len(own)) = own /\ SubSeq(z, 1, Len(own)) = own /\ SubSeq(z, Len(own) + 1, Len(z)) = rest
    BY <1>2, <1>3, PartsOfTwo
  <1>7. wire = Field(length, type, z)
    BY <1>4 DEF rest
  <1> HIDE DEF z
  <1> DEFINE n == TakenOf(length, z)
  <1>8. /\ taken' = Append(taken, [type |-> type, data |-> SubSeq(z, 1, n)])
        /\ wire' = SubSeq(z, n + 1, Len(z))
    BY <1>2, <1>5, <1>7, FieldTaken
  <1>9. /\ n \in Nat /\ n <= Len(z) /\ n >= Len(own)
        /\ built \in ExactLength => n = Len(own)
        /\ built \notin ExactLength => n > Len(own)
    BY <1>2, <1>5 DEF TakenOf
  <1> HIDE DEF n
  <1> DEFINE data == SubSeq(z, 1, n)
  <1>10. /\ data \in Seq(Nat) /\ Len(data) = n
         /\ \A j \in 1..n : data[j] = z[j]
    <2>1. 1 \in Nat \ {0} /\ n \in Int
      BY <1>9
    <2>2. /\ data \in Seq(Nat) /\ Len(data) = IF 1 <= n THEN n - 1 + 1 ELSE 0
          /\ \A j \in 1..(n - 1 + 1) : data[j] = z[1 + j - 1]
      BY <1>5, <1>9, <2>1, PartOfBytes
    <2> HIDE DEF data
    <2> QED
      BY <1>9, <2>2
  <1>11. IsPrefix(own, data)
    <2> DEFINE k == Len(own)
    <2> DEFINE x == SubSeq(data, 1, k)
    <2>1. k \in Nat /\ k \in Int /\ k <= Len(data)
      BY <1>5, <1>9, <1>10
    <2> HIDE DEF data, k
    <2>2. /\ x \in Seq(Nat) /\ Len(x) = IF 1 <= k THEN k - 1 + 1 ELSE 0
          /\ \A j \in 1..(k - 1 + 1) : x[j] = data[1 + j - 1]
      BY <1>10, <2>1, PartOfBytes
    <2> HIDE DEF x
    <2>3. Len(x) = k
      BY <2>1, <2>2
    <2> DEFINE y == SubSeq(z, 1, k)
    <2>4. /\ y \in Seq(Nat) /\ Len(y) = IF 1 <= k THEN k - 1 + 1 ELSE 0
          /\ \A j \in 1..(k - 1 + 1) : y[j] = z[1 + j - 1]
      <3>1. k <= Len(z)
        BY <1>5, <1>9, <1>10, <2>1
      <3> QED
        BY <1>5, <2>1, <3>1, PartOfBytes
    <2> HIDE DEF y
    <2>5. ASSUME NEW j \in 1..Len(x) PROVE x[j] = y[j]
      <3>1. j \in 1..(k - 1 + 1) /\ 1 + j - 1 = j /\ j \in 1..n
        BY <1>9, <1>10, <2>1, <2>3
      <3> QED
        BY <1>10, <2>2, <2>4, <3>1
    <2>6. Len(x) = Len(y)
      BY <2>2, <2>4
    <2>7. x = y
      BY <2>2, <2>4, <2>5, <2>6, SeqEqual
    <2>8. SubSeq(data, 1, Len(own)) = SubSeq(own, 1, Len(own))
      BY <1>6, <2>7 DEF x, y, k
    <2> QED
      BY <2>1, <2>8 DEF IsPrefix, k
  <1> DEFINE r == [type |-> type, data |-> data]
  <1>12. r.type = type /\ r.data = data
    OBVIOUS
  <1>13. taken' = <<r>>
    BY <1>8
  <1> HIDE DEF r, data
  <1>14. taken' # << >> /\ taken'[1] = r
    BY <1>13
  <1>15. FirstIsRead'
    <2>1. built \notin ExactLength => Len(data) > Len(own)
      BY <1>9, <1>10
    <2> QED
      BY <1>4, <1>11, <1>12, <1>14, <2>1 DEF FirstIsRead
  <1>16. built \in ExactLength => ExactIsNext'
    <2> SUFFICES ASSUME built \in ExactLength PROVE ExactIsNext'
      OBVIOUS
    <2>1. n = Len(own)
      BY <1>9
    <2>2. data = own /\ wire' = rest
      BY <1>6, <1>8, <2>1 DEF data
    <2>3. r = FirstOf(built)
      BY <1>4, <2>2 DEF r, FirstOf
    <2> QED
      BY <1>13, <2>2, <2>3 DEF ExactIsNext, rest
  <1> QED
    BY <1>15, <1>16 DEF FieldsAreRead

\* The second step behind a builder whose length is exact.
LEMMA SecondTaken ==
  ASSUME FieldsInv, TakeField, wire = PrinterStatusField(0), taken = <<FirstOf(built)>>
  PROVE  wire' = << >> /\ taken' = <<FirstOf(built), SecondField>>
  <1> DEFINE z == << 0 >>
  <1>1. z \in Seq(Nat) /\ Len(z) = 1 /\ wire = Field(4, PrinterStatusType, z)
    BY StatusField
  <1>2. TakenOf(4, z) = 1
    BY <1>1 DEF TakenOf
  <1> HIDE DEF z
  <1>3. PrinterStatusType \in Nat
    BY DEF PrinterStatusType
  <1>4. /\ taken' = Append(taken, [type |-> PrinterStatusType, data |-> SubSeq(z, 1, 1)])
        /\ wire' = SubSeq(z, 2, 1)
    <2>1. /\ taken' = Append(taken, [type |-> PrinterStatusType, data |-> SubSeq(z, 1, TakenOf(4, z))])
          /\ wire' = SubSeq(z, TakenOf(4, z) + 1, Len(z))
      <3> DEFINE l == 4
      <3> DEFINE t == PrinterStatusType
      <3>1. l \in Nat /\ t \in Nat /\ wire = Field(l, t, z)
        BY <1>1, <1>3
      <3> HIDE DEF l, t
      <3>2. /\ taken' = Append(taken, [type |-> t, data |-> SubSeq(z, 1, TakenOf(l, z))])
            /\ wire' = SubSeq(z, TakenOf(l, z) + 1, Len(z))
        BY <1>1, <3>1, FieldTaken
      <3> QED
        BY <3>2 DEF l, t
    <2>2. TakenOf(4, z) = 1 /\ TakenOf(4, z) + 1 = 2 /\ Len(z) = 1
      BY <1>1, <1>2
    <2> QED
      BY <2>1, <2>2, Zenon
  <1>5. SubSeq(z, 1, 1) = z
    BY <1>1, PartsOfTwo
  <1>6. SubSeq(z, 2, 1) = << >>
    BY SubSeqEmpty
  <1>7. [type |-> PrinterStatusType, data |-> SubSeq(z, 1, 1)] = SecondField
    BY <1>5 DEF SecondField, z
  <1> DEFINE a == FirstOf(built)
  <1> DEFINE b == SecondField
  <1>8. taken' = Append(<<a>>, b)
    BY <1>4, <1>7
  <1> HIDE DEF a, b
  <1>9. Append(<<a>>, b) = <<a, b>>
    <2> DEFINE S == {a, b}
    <2> DEFINE u == <<a>>
    <2> DEFINE v == <<a, b>>
    <2>1. u \in Seq(S) /\ Len(u) = 1 /\ u[1] = a /\ b \in S
      OBVIOUS
    <2>2. v \in Seq(S) /\ Len(v) = 2 /\ v[1] = a /\ v[2] = b
      OBVIOUS
    <2> HIDE DEF S, u, v
    <2> DEFINE w == Append(u, b)
    <2>3. w \in Seq(S) /\ Len(w) = 2 /\ w[1] = a /\ w[2] = b
      <3>1. /\ w \in Seq(S)
            /\ Len(w) = Len(u) + 1
            /\ \A i \in 1..Len(u) : w[i] = u[i]
            /\ w[Len(u) + 1] = b
        BY <2>1, AppendProperties, ZenonT(20)
      <3> HIDE DEF w
      <3>2. Len(u) + 1 = 2 /\ 1 \in 1..Len(u)
        BY <2>1
      <3> QED
        BY <2>1, <3>1, <3>2
    <2> HIDE DEF w
    <2>4. \A i \in 1..Len(w) : w[i] = v[i]
      BY <2>2, <2>3
    <2>5. w = v
      BY <2>2, <2>3, <2>4, SeqEqual
    <2> QED
      BY <2>5 DEF u, v, w
  <1> QED
    BY <1>4, <1>6, <1>8, <1>9 DEF a, b

\* Appending to what has been read keeps the first of it.
LEMMA FirstStays ==
  ASSUME FieldsInv, FirstIsRead, built' = built,
         \/ taken' = taken
         \/ \E r \in FieldRecords : taken' = Append(taken, r)
  PROVE  FirstIsRead'
  <1>1. taken' # << >> /\ taken'[1] = taken[1]
    <2>1. taken \in Seq(FieldRecords) /\ taken # << >>
      BY DEF FieldsInv, FirstIsRead
    <2>2. CASE taken' = taken
      BY <2>1, <2>2
    <2>3. CASE \E r \in FieldRecords : taken' = Append(taken, r)
      <3>1. PICK r \in FieldRecords : taken' = Append(taken, r)
        BY <2>3
      <3>2. Len(taken) >= 1 /\ Len(taken) \in Nat
        BY <2>1
      <3> QED
        BY <2>1, <3>1, <3>2
    <2> QED
      BY <2>2, <2>3
  <1> QED
    BY <1>1 DEF FirstIsRead

\* The parser's steps.
LEMMA TakeFieldInv == FieldsInv /\ TakeField => FieldsInv'
  <1> SUFFICES ASSUME FieldsInv, TakeField PROVE FieldsInv'
    OBVIOUS
  <1>1. built' = built /\ checked' = checked
    BY DEF TakeField
  <1>2. /\ wire' \in Seq(Nat)
        /\ \/ taken' = taken
           \/ \E r \in FieldRecords : taken' = Append(taken, r)
    BY TakeFieldTypes
  <1>3. taken' \in Seq(FieldRecords)
    <2>1. taken \in Seq(FieldRecords)
      BY DEF FieldsInv
    <2>2. \A r \in FieldRecords : Append(taken, r) \in Seq(FieldRecords)
      BY <2>1
    <2> QED
      BY <1>2, <2>1, <2>2, Zenon
  <1>4. FieldsAreRead'
    <2> SUFFICES ASSUME built # "none" PROVE FieldsAreRead'
      BY <1>1 DEF FieldsAreRead
    <2>1. built \in Builders
      BY DEF FieldsInv
    <2>2. CASE taken = << >> /\ wire = Built(built) \o PrinterStatusField(0)
      BY <1>1, <2>1, <2>2, FirstTaken
    <2>3. CASE FirstIsRead /\ (built \in ExactLength => ExactIsNext)
      <3>1. FirstIsRead'
        BY <1>1, <1>2, <2>3, FirstStays
      <3>2. built \in ExactLength => ExactIsNext'
        <4> SUFFICES ASSUME built \in ExactLength PROVE ExactIsNext'
          OBVIOUS
        <4>1. wire # << >>
          BY DEF TakeField
        <4>2. wire = PrinterStatusField(0) /\ taken = <<FirstOf(built)>>
          BY <2>3, <4>1 DEF ExactIsNext
        <4>3. wire' = << >> /\ taken' = <<FirstOf(built), SecondField>>
          BY <4>2, SecondTaken
        <4> QED
          BY <1>1, <4>3 DEF ExactIsNext
      <3> QED
        BY <1>1, <3>1, <3>2 DEF FieldsAreRead
    <2> QED
      BY <2>2, <2>3 DEF FieldsInv, FieldsAreRead
  <1> QED
    BY <1>1, <1>2, <1>3, <1>4 DEF FieldsInv, BindSubfieldsTile

\* A byte between fields is never taken before the field that was built.
LEMMA TakeByteInv == FieldsInv /\ TakeByte => FieldsInv'
  <1> SUFFICES ASSUME FieldsInv, TakeByte PROVE FieldsInv'
    OBVIOUS
  <1>1. built' = built /\ checked' = checked /\ taken' = taken
    BY DEF TakeByte
  <1>2. wire # << >> /\ wire \in Seq(Nat) /\ wire[1] # FieldByte /\ wire' = Tail(wire)
    BY DEF TakeByte, FieldsInv
  <1>3. wire' \in Seq(Nat)
    BY <1>2
  <1>4. FieldsAreRead'
    <2> SUFFICES ASSUME built # "none" PROVE FieldsAreRead'
      BY <1>1 DEF FieldsAreRead
    <2>1. built \in Builders
      BY DEF FieldsInv
    <2>2. wire # Built(built) \o PrinterStatusField(0)
      <3> DEFINE rest == PrinterStatusField(0)
      <3>1. rest \in Seq(Nat)
        BY StatusField
      <3> HIDE DEF rest
      <3>2. PICK length, type, own : BuiltField(built, length, type, own)
        BY <2>1, BuildersWrite
      <3>3. length \in Nat /\ type \in Nat /\ own \in Seq(Nat)
        BY <3>2 DEF BuiltField
      <3>4. Built(built) \o rest = Field(length, type, own \o rest)
        BY <3>1, <3>2, BuiltParts DEF HasParts
      <3> DEFINE z == own \o rest
      <3>5. z \in Seq(Nat)
        BY <3>1, <3>3, ConcatProperties
      <3> HIDE DEF z
      <3>6. IsField(Field(length, type, z), length, type, z)
        BY <3>3, <3>5, FieldBytes
      <3> QED
        BY <1>2, <3>4, <3>6 DEF IsField, z, rest
    <2>3. FirstIsRead /\ (built \in ExactLength => ExactIsNext)
      BY <2>2 DEF FieldsInv, FieldsAreRead
    <2>4. built \notin ExactLength
      BY <1>2, <2>3, StatusField DEF ExactIsNext
    <2>5. FirstIsRead'
      BY <1>1, <2>3, FirstStays
    <2> QED
      BY <1>1, <2>4, <2>5 DEF FieldsAreRead
  <1> QED
    BY <1>1, <1>3, <1>4 DEF FieldsInv, BindSubfieldsTile

\* A field is built on an empty wire.
LEMMA SendInv ==
  ASSUME FieldsInv, NEW kind \in Builders, Send(kind)
  PROVE  FieldsInv'
  <1>1. /\ wire' = Built(kind) \o PrinterStatusField(0) /\ built' = kind /\ taken' = << >>
        /\ checked' = checked
    BY DEF Send
  <1>2. PICK length, type, own : BuiltField(kind, length, type, own)
    BY BuildersWrite
  <1>3. wire' \in Seq(Nat)
    BY <1>1, <1>2, StatusField, BuiltParts DEF HasParts
  <1>4. << >> \in Seq(FieldRecords)
    OBVIOUS
  <1> QED
    BY <1>1, <1>3, <1>4 DEF FieldsInv, FieldsAreRead, BindSubfieldsTile

\* A body whose bytes are numbers is a sequence of numbers.
LEMMA BytesAreSeq ==
  ASSUME NEW n \in Nat, NEW S, S \subseteq Nat, NEW f \in [1..n -> S]
  PROVE  f \in Seq(Nat)
  <1>1. f \in [1..n -> Nat]
    OBVIOUS
  <1> QED
    BY <1>1

\* The other records, and the calls of the validator.
LEMMA FieldsNextInv == FieldsInv /\ [FieldsNext \/ CallsNext]_fieldVars => FieldsInv'
  <1> SUFFICES ASSUME FieldsInv, [FieldsNext \/ CallsNext]_fieldVars PROVE FieldsInv'
    OBVIOUS
  <1>1. ASSUME NEW kind \in Builders, Send(kind) PROVE FieldsInv'
    BY <1>1, SendInv
  <1>2. CASE TakeField \/ TakeByte
    BY <1>2, TakeFieldInv, TakeByteInv
  <1>3. ASSUME NEW kind \in RecordKinds,
               NEW data \in {<< >>, << 1 >>, Field(3, BindType, <<0, 0>>),
                             Field(5, SnaType, <<1, 4, 8, 10>>)},
               Record(kind, data)
        PROVE  FieldsInv'
    <2>1. data \in Seq(Nat)
      <3> DEFINE x == <<0, 0>>
      <3> DEFINE y == <<1, 4, 8, 10>>
      <3>1. /\ x \in Seq(Nat) /\ y \in Seq(Nat) /\ << >> \in Seq(Nat) /\ << 1 >> \in Seq(Nat)
            /\ 3 \in Nat /\ 5 \in Nat /\ BindType \in Nat /\ SnaType \in Nat
        BY DEF BindType, SnaType
      <3> HIDE DEF x, y
      <3>2. IsField(Field(3, BindType, x), 3, BindType, x)
        BY <3>1, FieldBytes
      <3>3. IsField(Field(5, SnaType, y), 5, SnaType, y)
        BY <3>1, FieldBytes
      <3>4. Field(3, BindType, x) \in Seq(Nat) /\ Field(5, SnaType, y) \in Seq(Nat)
        BY <3>2, <3>3 DEF IsField
      <3>5. data \in {<< >>, << 1 >>, Field(3, BindType, x), Field(5, SnaType, y)}
        BY DEF x, y
      <3> QED
        BY <3>1, <3>4, <3>5
    <2>2. wire' \in Seq(Nat) /\ built' = "none" /\ taken' = << >> /\ checked' = checked
      BY <1>3, <2>1 DEF Record
    <2>3. << >> \in Seq(FieldRecords)
      OBVIOUS
    <2> QED
      BY <2>2, <2>3 DEF FieldsInv, FieldsAreRead, BindSubfieldsTile
  <1>4. ASSUME UNCHANGED <<wire, built, taken>>, BindSubfieldsTile' PROVE FieldsInv'
    BY <1>4 DEF FieldsInv, FieldsAreRead, FirstIsRead, ExactIsNext
  <1>5. ASSUME NEW code \in 1..9, DataStreamCtl(code) PROVE FieldsInv'
    <2>1. UNCHANGED <<wire, built, taken>> /\ checked' = checked
      BY <1>5 DEF DataStreamCtl
    <2> QED
      BY <1>4, <2>1 DEF FieldsInv, BindSubfieldsTile
  <1>6. ASSUME NEW a, NEW mode, SendAddress(a, mode) PROVE FieldsInv'
    <2>1. UNCHANGED <<wire, built, taken>> /\ checked' = checked
      BY <1>6 DEF SendAddress
    <2> QED
      BY <1>4, <2>1 DEF FieldsInv, BindSubfieldsTile
  <1>8. CASE UNCHANGED fieldVars
    <2>1. UNCHANGED <<wire, built, taken>> /\ checked' = checked
      BY <1>8 DEF fieldVars
    <2> QED
      BY <1>4, <2>1 DEF FieldsInv, BindSubfieldsTile
  <1>9. CASE FieldsNext
    BY <1>1, <1>2, <1>3, <1>5, <1>9 DEF FieldsNext
  <1>10. CASE CallsNext
    <2>1. CASE \E a \in Addresses, mode \in {"12-bit", "14-bit"} : SendAddress(a, mode)
      BY <1>6, <2>1
    <2>2. CASE \E type \in {BindType, SfeType, SnaType, PrinterStatusType, 200} :
                 \E n \in 0..MaxBody : \E body \in [1..n -> BodyBytes] : \E claimed \in {2, n + 3} :
                   Validate(type, <<FieldByte, 0, claimed>> \o body)
      <3>1. PICK type \in {BindType, SfeType, SnaType, PrinterStatusType, 200}, n \in 0..MaxBody :
                   \E body \in [1..n -> BodyBytes] : \E claimed \in {2, n + 3} :
                     Validate(type, <<FieldByte, 0, claimed>> \o body)
        BY <2>2
      <3>2. PICK body \in [1..n -> BodyBytes], claimed \in {2, n + 3} :
                   Validate(type, <<FieldByte, 0, claimed>> \o body)
        BY <3>1
      <3> DEFINE data == <<FieldByte, 0, claimed>> \o body
      <3>3. Validate(type, data)
        BY <3>2
      <3>4. data \in Seq(Nat)
        <4>1. n \in Nat /\ claimed \in Nat /\ BodyBytes \subseteq Nat
          BY FieldAssumption
        <4>2. body \in Seq(Nat)
          BY <3>2, <4>1, BytesAreSeq
        <4>3. <<FieldByte, 0, claimed>> \in Seq(Nat)
          BY <4>1 DEF FieldByte
        <4> QED
          BY <4>2, <4>3, ConcatProperties
      <3> HIDE DEF data
      <3>5. UNCHANGED <<wire, built, taken>>
        BY <3>3 DEF Validate
      <3>6. BindSubfieldsTile'
        BY <3>3, <3>4, ValidatedTiles
      <3> QED
        BY <1>4, <3>5, <3>6
    <2> QED
      BY <1>10, <2>1, <2>2, Zenon DEF CallsNext
  <1> QED
    BY <1>8, <1>9, <1>10

\* When the wire is empty the field that was built has been read.
LEMMA FieldsKept == FieldsInv => FieldsKeepToTheirLength
  <1> SUFFICES ASSUME FieldsInv, built # "none", wire = << >>
               PROVE  /\ FirstIsRead
                      /\ built \in ExactLength => taken = <<FirstOf(built), SecondField>>
    BY ExactCount DEF FieldsInv, FieldsKeepToTheirLength, FirstIsRead, FirstOf, SecondField, OwnOf
  <1>1. built \in Builders
    BY DEF FieldsInv
  <1>2. Built(built) \o PrinterStatusField(0) # << >>
    <2>1. PICK length, type, own : BuiltField(built, length, type, own)
      BY <1>1, BuildersWrite
    <2> QED
      BY <2>1, StatusField, BuiltParts DEF HasParts
  <1>3. FirstIsRead /\ (built \in ExactLength => ExactIsNext)
    BY <1>2 DEF FieldsInv, FieldsAreRead
  <1> QED
    BY <1>3, StatusField DEF ExactIsNext

\* A field that the library built is read with its own type and data, and what
\* follows it too where the length is exact (data_stream.py,
\* _handle_structured_field_tolerant()); and the validator accepts exactly the
\* BIND fields that can be cut into subfields (_validate_bind_image()).
THEOREM FieldsRead == FieldsSpec => [](FieldsKeepToTheirLength /\ BindSubfieldsTile)
  <1>1. FieldsInit => FieldsInv
    <2> SUFFICES ASSUME FieldsInit PROVE FieldsInv
      OBVIOUS
    <2>1. checked.type = -1 /\ -1 # BindType
      BY DEF FieldsInit, NotChecked, BindType
    <2>2. << >> \in Seq(Nat) /\ << >> \in Seq(FieldRecords)
      OBVIOUS
    <2> QED
      BY <2>1, <2>2 DEF FieldsInit, FieldsInv, FieldsAreRead, BindSubfieldsTile
  <1>2. FieldsInv => FieldsKeepToTheirLength /\ BindSubfieldsTile
    BY FieldsKept DEF FieldsInv
  <1> QED
    BY <1>1, <1>2, FieldsNextInv, PTL DEF FieldsSpec

\* What a reader accepts is what was written, or begins with it: headers,
\* structured fields and fourteen-bit addresses; and the validator accepts the
\* BIND fields that can be cut into subfields (tn3270e_header.py, from_bytes();
\* data_stream.py, _handle_structured_field_tolerant(), _validate_bind_image()).
THEOREM AcceptedWritten == HeaderSpec /\ FieldsSpec => []AcceptedIsWritten
  <1>1. HeadersAreReadBack => HeadersAreNotMisread
    BY DEF HeadersAreReadBack, HeadersAreNotMisread
  <1>2. HeadersAreReadBack /\ LongAddressesAreReadBack /\ FieldsKeepToTheirLength
          /\ BindSubfieldsTile => AcceptedIsWritten
    BY <1>1 DEF AcceptedIsWritten
  <1> QED
    BY <1>2, HeadersReadBack, AddressesReadBack, FieldsRead, PTL
=============================================================================
