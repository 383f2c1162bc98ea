------------------------------- MODULE TcLink -------------------------------
(***************************************************************************)
(* The receiver at the end of an arbitrary byte stream, with a strict      *)
(* reading of that stream beside it.                                       *)
(*                                                                         *)
(* The frame layout of the protocol is the one sendTM builds: RepeatHeader *)
(* header bytes, the payload, RepeatHeader footer bytes, nothing between.  *)
(* The history variables follow the stream with exactly that layout, from  *)
(* the bytes alone, without looking at the receiver.                       *)
(***************************************************************************)
EXTENDS TcReceiver

VARIABLES
    run,      \* header bytes received in a row, up to RepeatHeader
    payload,  \* the bytes between a whole header and now, or NoFrame
    closing,  \* footer bytes received in a row after that payload
    frame,    \* the payload of the frame this very byte completed, or NoFrame
    headers,  \* header bytes since the last delivery, up to RepeatHeader
    footers   \* footer bytes since the last delivery, up to RepeatHeader

history == <<run, payload, closing, frame, headers, footers>>
vars == <<rxVars, history>>

NoFrame == <<NoCommand>>

LinkTypeOK ==
    /\ RxTypeOK
    /\ run \in 0 .. RepeatHeader
    /\ payload \in Seq(Data) \cup {NoFrame}
    /\ closing \in 0 .. RepeatHeader - 1
    /\ frame \in Seq(Data) \cup {NoFrame}
    /\ headers \in 0 .. RepeatHeader
    /\ footers \in 0 .. RepeatHeader

LinkInit ==
    /\ RxInit
    /\ run = 0
    /\ payload = NoFrame
    /\ closing = 0
    /\ frame = NoFrame
    /\ headers = 0
    /\ footers = 0

UpTo(n) == IF n < RepeatHeader THEN n + 1 ELSE n

(* The strict reading of one more byte.                                    *)
ReadHeader ==
    /\ run' = UpTo(run)
    /\ payload' = IF run' = RepeatHeader THEN <<>> ELSE NoFrame
    /\ closing' = 0
    /\ frame' = NoFrame

ReadFooter ==
    /\ run' = 0
    /\ closing' = IF payload = NoFrame \/ closing + 1 = RepeatHeader THEN 0 ELSE closing + 1
    /\ payload' = IF closing + 1 = RepeatHeader THEN NoFrame ELSE payload
    /\ frame' = IF closing + 1 = RepeatHeader THEN payload ELSE NoFrame

ReadData(b) ==
    /\ run' = 0
    /\ closing' = 0
    /\ payload' = IF payload = NoFrame \/ closing > 0 \/ Len(payload) = BufferSize
                    THEN NoFrame ELSE Append(payload, b)
    /\ frame' = NoFrame

Read(b) ==
    \/ b = Header /\ ReadHeader
    \/ b = Footer /\ ReadFooter
    \/ b \in Data /\ ReadData(b)

(* Delimiters since the last delivery; this byte belongs to the frame it   *)
(* completes.                                                              *)
CountDelimiters(b) ==
    LET fresh == command # NoCommand
        heard == IF fresh THEN 0 ELSE headers
        closed == IF fresh THEN 0 ELSE footers
    IN  /\ headers' = IF b = Header THEN UpTo(heard) ELSE heard
        /\ footers' = IF b = Footer THEN UpTo(closed) ELSE closed

LinkByte(b) == Receive(b) /\ Read(b) /\ CountDelimiters(b)

Next == \E b \in Byte : LinkByte(b)

Spec == LinkInit /\ [][Next]_vars

-----------------------------------------------------------------------------
(* Whatever came before it on the stream (noise, broken frames, a frame    *)
(* cut by a reconnection, an overrun), a frame with the layout of sendTM   *)
(* whose payload fits the buffer and holds no delimiter is executed when   *)
(* its last byte arrives, with exactly the bytes that were sent.           *)
CleanFrameExecuted ==
    frame # NoFrame => /\ command = Len(frame)
                       /\ \A i \in 1 .. Len(frame) : rxBuffer[i - 1] = frame[i]

(* A telecommand is executed only if a whole header and a whole footer     *)
(* arrived since the previous one: no noise, and no repeated footer, makes *)
(* the firmware execute the previous command again.                        *)
ExecutionIsFramed ==
    command # NoCommand => headers = RepeatHeader /\ footers = RepeatHeader

-----------------------------------------------------------------------------
(* The inductive invariant behind both properties.                         *)

(* What the receiver's counters mean in its two modes.                     *)
RxInv ==
    /\ ~readyForDatas => rxCounter = 0 /\ footerCount = 0 /\ headerCount < RepeatHeader
    /\ readyForDatas => \/ headerCount = RepeatHeader /\ footerCount = 0
                        \/ headerCount = 0 /\ footerCount > 0

(* What the bytes read so far say about the receiver.                      *)
Tracking ==
    /\ run <= headerCount
    /\ payload # NoFrame =>
         /\ readyForDatas
         /\ footerCount = closing
         /\ headerCount = (IF closing = 0 THEN RepeatHeader ELSE 0)
         /\ rxCounter = Len(payload)
         /\ Len(payload) <= BufferSize
         /\ \A i \in 1 .. Len(payload) : rxBuffer[i - 1] = payload[i]
    /\ payload = NoFrame => closing = 0 /\ run < RepeatHeader

(* How many delimiter bytes have been heard since the last delivery.       *)
Heard == IF command # NoCommand THEN 0 ELSE headers
Closed == IF command # NoCommand THEN 0 ELSE footers

Framing ==
    /\ headerCount <= Heard
    /\ footerCount <= Closed
    /\ readyForDatas => Heard = RepeatHeader

LinkInv ==
    /\ LinkTypeOK
    /\ RxInv
    /\ Tracking
    /\ Framing
    /\ CleanFrameExecuted
    /\ ExecutionIsFramed
=============================================================================
