---------------------------- MODULE TcLink_proofs ---------------------------
(***************************************************************************)
(* The two properties of the telecommand link, for every alphabet, every   *)
(* delimiter length and every buffer size.                                 *)
(***************************************************************************)
EXTENDS TcLink, SequenceTheorems, TLAPS

USE BytesAssumption, RepeatAssumption, SizeAssumption, NoCommandAssumption
DEF BytesAssumption, RepeatAssumption, SizeAssumption, NoCommandAssumption

(* The marker for "no frame" is not a payload.                             *)
LEMMA NoFrameIsNoPayload == NoFrame \notin Seq(Data)
<1>1. SUFFICES ASSUME NoFrame \in Seq(Data) PROVE FALSE
    OBVIOUS
<1>2. Len(NoFrame) = 1 /\ NoFrame[1] = NoCommand
    BY DEF NoFrame
<1>3. 1 \in 1 .. Len(NoFrame)
    BY <1>2
<1>4. NoFrame[1] \in Data
    BY <1>1, <1>3, ElementOfSeq, Zenon
<1>. QED
    BY <1>2, <1>4

(* The receive counter does not wrap inside the buffer.                    *)
LEMMA NextIndex ==
    ASSUME NEW n \in Nat, n < BufferSize
    PROVE  (n + 1) % CounterMod = n + 1
OBVIOUS

(* Receiver and strict reading start in agreement.                         *)
LEMMA InitInv == LinkInit => LinkInv
<1>. SUFFICES ASSUME LinkInit PROVE LinkInv
    OBVIOUS
<1>. USE DEF LinkInit, RxInit
<1>1. LinkTypeOK
  <2>1. rxBuffer \in [Index -> Data]
    OBVIOUS
  <2>2. readyForDatas \in BOOLEAN /\ overrun \in BOOLEAN
    OBVIOUS
  <2>3. rxCounter \in 0 .. CounterMod - 1 /\ footerCount \in 0 .. RepeatHeader - 1
    OBVIOUS
  <2>4. RxTypeOK
    BY <2>1, <2>2, <2>3 DEF RxTypeOK
  <2>. QED
    BY <2>4 DEF LinkTypeOK
<1>2. RxInv
    BY DEF RxInv
<1>3. Tracking
    BY DEF Tracking
<1>4. Framing
    BY DEF Framing, Heard, Closed
<1>5. CleanFrameExecuted /\ ExecutionIsFramed
    BY DEF CleanFrameExecuted, ExecutionIsFramed
<1>. QED
    BY <1>1, <1>2, <1>3, <1>4, <1>5 DEF LinkInv

(* A header byte.                                                          *)
LEMMA HeaderStep ==
    ASSUME LinkInv, NEW b \in Byte, b = Header, HeaderByte, ReadHeader, CountDelimiters(b)
    PROVE  LinkInv'
<1>. USE DEF LinkInv, LinkTypeOK, RxTypeOK, UpTo, HeaderByte, ReadHeader
<1>1. RxTypeOK'
    BY DEF Index
<1>2. LinkTypeOK'
    BY <1>1, NoFrameIsNoPayload DEF CountDelimiters, Tracking
<1>3. RxInv'
  <2>1. headerCount' \in 0 .. RepeatHeader /\ footerCount' = 0
    OBVIOUS
  <2>2. readyForDatas' <=> headerCount' = RepeatHeader
    OBVIOUS
  <2>3. rxCounter' = 0
    BY DEF RxInv
  <2>. QED
    BY <2>1, <2>2, <2>3 DEF RxInv
<1>4. Tracking'
  <2>1. run' <= headerCount'
    BY DEF Tracking
  <2>2. payload' # NoFrame => payload' = <<>> /\ run' = RepeatHeader
    OBVIOUS
  <2>3. payload' = NoFrame => run' < RepeatHeader
    <3>1. <<>> # NoFrame
      <4>1. Len(<<>>) # Len(<<NoCommand>>)
        OBVIOUS
      <4>. QED
        BY <4>1 DEF NoFrame
    <3>2. run' \in 0 .. RepeatHeader
      OBVIOUS
    <3>. QED
      BY <3>1, <3>2
  <2>4. rxCounter' = 0
    BY DEF RxInv
  <2>5. payload' # NoFrame => headerCount' = RepeatHeader
    BY <2>1, <2>2
  <2>6. payload' # NoFrame => readyForDatas'
    BY <2>5
  <2>7. footerCount' = 0 /\ closing' = 0
    OBVIOUS
  <2>8. Len(<<>>) = 0
    OBVIOUS
  <2>. QED
    BY ONLY <2>1, <2>2, <2>3, <2>4, <2>5, <2>6, <2>7, <2>8, SizeAssumption DEF Tracking, SizeAssumption
<1>5. Framing'
    BY DEF RxInv, Framing, Heard, Closed, CountDelimiters, Byte
<1>6. CleanFrameExecuted'
    BY NoFrameIsNoPayload DEF CleanFrameExecuted, Tracking
<1>7. ExecutionIsFramed'
    BY DEF ExecutionIsFramed, Framing, Heard, Closed, CountDelimiters, Byte
<1>. QED
    BY <1>2, <1>3, <1>4, <1>5, <1>6, <1>7

(* A footer byte inside the footer.                                        *)
LEMMA EarlyFooterStep ==
    ASSUME LinkInv, NEW b \in Byte, b = Footer, EarlyFooter, ReadFooter, CountDelimiters(b)
    PROVE  LinkInv'
<1>. USE DEF LinkInv, LinkTypeOK, RxTypeOK, UpTo, EarlyFooter, ReadFooter
<1>1. RxTypeOK'
    BY DEF Index
<1>2. LinkTypeOK'
    BY <1>1, NoFrameIsNoPayload DEF CountDelimiters, Tracking
<1>3. RxInv'
    BY DEF RxInv
<1>4. Tracking'
    BY NoFrameIsNoPayload DEF RxInv, Tracking
<1>5. Framing'
    BY DEF RxInv, Framing, Heard, Closed, CountDelimiters, Byte
<1>6. CleanFrameExecuted'
    BY NoFrameIsNoPayload DEF CleanFrameExecuted, Tracking
<1>7. ExecutionIsFramed'
    BY DEF ExecutionIsFramed, Framing, Heard, Closed, CountDelimiters, Byte
<1>. QED
    BY <1>2, <1>3, <1>4, <1>5, <1>6, <1>7

(* The footer byte that completes a frame.                                 *)
LEMMA LastFooterStep ==
    ASSUME LinkInv, NEW b \in Byte, b = Footer, LastFooter, ReadFooter, CountDelimiters(b)
    PROVE  LinkInv'
<1>. USE DEF LinkInv, LinkTypeOK, RxTypeOK, UpTo, LastFooter, ReadFooter
<1>1. RxTypeOK'
  <2>1. readyForDatas' \in BOOLEAN /\ overrun' \in BOOLEAN
    OBVIOUS
  <2>2. rxCounter' \in 0 .. CounterMod - 1 /\ footerCount' \in 0 .. RepeatHeader - 1
    OBVIOUS
  <2>. QED
    BY <2>1, <2>2
<1>2. LinkTypeOK'
    BY <1>1, NoFrameIsNoPayload DEF CountDelimiters, Tracking
<1>3. RxInv'
    BY DEF RxInv
<1>4. Tracking'
    BY NoFrameIsNoPayload DEF RxInv, Tracking
<1>5. Framing'
    BY DEF RxInv, Framing, Heard, Closed, CountDelimiters, Byte
<1>6. CleanFrameExecuted'
    BY NoFrameIsNoPayload DEF CleanFrameExecuted, Tracking
<1>7. ExecutionIsFramed'
    BY DEF ExecutionIsFramed, Framing, Heard, Closed, CountDelimiters, Byte
<1>. QED
    BY <1>2, <1>3, <1>4, <1>5, <1>6, <1>7

(* A payload byte.                                                         *)
LEMMA PayloadStep ==
    ASSUME LinkInv, NEW b \in Byte, b \in Data, PayloadByte(b), ReadData(b), CountDelimiters(b)
    PROVE  LinkInv'
<1>. USE DEF LinkInv, LinkTypeOK, RxTypeOK, UpTo, PayloadByte, Store, ReadData
<1>1. RxTypeOK'
    BY DEF Index
<1>2. LinkTypeOK'
    BY <1>1, NoFrameIsNoPayload DEF CountDelimiters, Tracking
<1>3. RxInv'
    BY DEF RxInv
<1>4. Tracking'
  <2>1. CASE payload' = NoFrame
    BY <2>1 DEF Tracking
  <2>2. CASE payload' # NoFrame
    <3>1. /\ payload # NoFrame /\ closing = 0
          /\ Len(payload) < BufferSize
          /\ payload' = Append(payload, b)
      BY <2>2 DEF Tracking
    <3>2. payload \in Seq(Data) /\ rxCounter = Len(payload)
      BY <3>1 DEF Tracking
    <3>3. rxCounter' = Len(payload')
      BY <3>1, <3>2, NextIndex
    <3>4. rxBuffer' = [rxBuffer EXCEPT ![Len(payload)] = b]
      BY <3>1, <3>2 DEF Index
    <3>5. \A i \in 1 .. Len(payload') : rxBuffer'[i - 1] = payload'[i]
      BY <3>1, <3>2, <3>4 DEF Tracking, Index
    <3>. QED
      BY <2>2, <3>1, <3>2, <3>3, <3>5 DEF Tracking
  <2>. QED
    BY <2>1, <2>2
<1>5. Framing'
    BY DEF RxInv, Framing, Heard, Closed, CountDelimiters, Byte
<1>6. CleanFrameExecuted'
    BY NoFrameIsNoPayload DEF CleanFrameExecuted, Tracking
<1>7. ExecutionIsFramed'
    BY DEF ExecutionIsFramed, Framing, Heard, Closed, CountDelimiters, Byte
<1>. QED
    BY <1>2, <1>3, <1>4, <1>5, <1>6, <1>7

(* A footer byte outside a frame.                                          *)
LEMMA SkippedFooterStep ==
    ASSUME LinkInv, NEW b \in Byte, b = Footer, SkippedByte, ReadFooter, CountDelimiters(b)
    PROVE  LinkInv'
<1>. USE DEF LinkInv, LinkTypeOK, RxTypeOK, UpTo, SkippedByte, ReadFooter
<1>1. RxTypeOK'
    BY DEF Index
<1>2. LinkTypeOK'
    BY <1>1, NoFrameIsNoPayload DEF CountDelimiters, Tracking
<1>3. RxInv'
    BY DEF RxInv
<1>4. Tracking'
    BY NoFrameIsNoPayload DEF RxInv, Tracking
<1>5. Framing'
    BY DEF RxInv, Framing, Heard, Closed, CountDelimiters, Byte
<1>6. CleanFrameExecuted'
    BY NoFrameIsNoPayload DEF CleanFrameExecuted, Tracking
<1>7. ExecutionIsFramed'
    BY DEF ExecutionIsFramed, Framing, Heard, Closed, CountDelimiters, Byte
<1>. QED
    BY <1>2, <1>3, <1>4, <1>5, <1>6, <1>7

(* Another byte outside a frame.                                           *)
LEMMA SkippedDataStep ==
    ASSUME LinkInv, NEW b \in Byte, b \in Data, SkippedByte, ReadData(b), CountDelimiters(b)
    PROVE  LinkInv'
<1>. USE DEF LinkInv, LinkTypeOK, RxTypeOK, UpTo, SkippedByte, ReadData
<1>1. RxTypeOK'
    BY DEF Index
<1>2. LinkTypeOK'
    BY <1>1, NoFrameIsNoPayload DEF CountDelimiters, Tracking
<1>3. RxInv'
    BY DEF RxInv
<1>4. Tracking'
    BY NoFrameIsNoPayload DEF RxInv, Tracking
<1>5. Framing'
    BY DEF RxInv, Framing, Heard, Closed, CountDelimiters, Byte
<1>6. CleanFrameExecuted'
    BY NoFrameIsNoPayload DEF CleanFrameExecuted, Tracking
<1>7. ExecutionIsFramed'
    BY DEF ExecutionIsFramed, Framing, Heard, Closed, CountDelimiters, Byte
<1>. QED
    BY <1>2, <1>3, <1>4, <1>5, <1>6, <1>7

(* Each kind of byte, in each mode of the receiver, keeps them so.         *)
LEMMA StepInv == LinkInv /\ [Next]_vars => LinkInv'
<1>. SUFFICES ASSUME LinkInv, [Next]_vars PROVE LinkInv'
    OBVIOUS
<1>1. CASE UNCHANGED vars
    BY <1>1 DEF vars, rxVars, history, LinkInv, LinkTypeOK, RxTypeOK, RxInv, Tracking,
                Framing, Heard, Closed, CleanFrameExecuted, ExecutionIsFramed
<1>2. ASSUME NEW b \in Byte, LinkByte(b)
      PROVE  LinkInv'
  <2>. USE <1>2 DEF LinkByte
  <2>1. CASE b = Header
    BY <2>1, HeaderStep DEF Receive, Read
  <2>2. CASE b = Footer
    BY <2>2, EarlyFooterStep, LastFooterStep, SkippedFooterStep DEF Receive, Read
  <2>3. CASE b \in Data
    BY <2>3, PayloadStep, SkippedDataStep DEF Receive, Read
  <2>. QED
    BY <2>1, <2>2, <2>3 DEF Byte
<1>. QED
    BY <1>1, <1>2 DEF Next

(* The receiver's counters and the bytes received stay related as LinkInv  *)
(* says, in every reachable state.                                         *)
THEOREM LinkInvariant == Spec => []LinkInv
BY InitInv, StepInv, PTL DEF Spec

(* Every frame laid out as sendTM does it is executed with its own bytes,  *)
(* whatever garbage preceded it.                                           *)
THEOREM CleanFramesAreExecuted == Spec => []CleanFrameExecuted
<1>1. LinkInv => CleanFrameExecuted
    BY DEF LinkInv
<1>. QED
    BY <1>1, LinkInvariant, PTL

(* Nothing is executed without a header and a footer of its own.           *)
THEOREM ExecutionsAreFramed == Spec => []ExecutionIsFramed
<1>1. LinkInv => ExecutionIsFramed
    BY DEF LinkInv
<1>. QED
    BY <1>1, LinkInvariant, PTL

(* Counters, buffer and history keep their types: the counters never pass  *)
(* the number of delimiters.                                               *)
THEOREM LinkTypes == Spec => []LinkTypeOK
<1>1. LinkInv => LinkTypeOK
    BY DEF LinkInv
<1>. QED
    BY <1>1, LinkInvariant, PTL
=============================================================================
