----------------------------- MODULE TcReceiver -----------------------------
(***************************************************************************)
(* The telecommand receiver of the camper firmware: the byte automaton in  *)
(* freakyCampManagerLoop that finds frames in the stream of bytes coming   *)
(* from the tablet and hands each one to processReceivedCommand.           *)
(*                                                                         *)
(* A step is one pass of the loop that received exactly one byte.  A pass  *)
(* that received nothing, or a packet of several bytes, changes none of    *)
(* these variables (a stuttering step).                                    *)
(***************************************************************************)
EXTENDS Integers, Sequences

CONSTANTS
    Header,         \* PROT_HEADER, 0xAA
    Footer,         \* PROT_FOOTER, 0x55
    Data,           \* the other byte values
    Zero,           \* the byte value rxBuffer is initialised with
    RepeatHeader,   \* PROT_REPEAT_HEADER, 4: delimiter bytes at each end
    BufferSize,     \* TELEMETRY_BUFFER_MAX_SIZE, 32
    CounterMod,     \* number of values of the byte rxCounter, 256
    NoCommand       \* "processReceivedCommand was not called"

ASSUME BytesAssumption == Header # Footer /\ {Header, Footer} \cap Data = {} /\ Zero \in Data
ASSUME RepeatAssumption == RepeatHeader \in Nat \ {0}
ASSUME SizeAssumption == BufferSize \in Nat \ {0} /\ CounterMod \in Nat /\ CounterMod > BufferSize
ASSUME NoCommandAssumption == NoCommand \notin Nat \cup Data

VARIABLES
    rxCounter,      \* where the next payload byte goes
    headerCount,    \* header bytes seen, saturates at RepeatHeader
    footerCount,    \* footer bytes seen since the last header
    readyForDatas,  \* a whole header was seen: acquiring a payload
    rxBuffer,       \* the payload bytes; never cleared
    command,        \* the length given to processReceivedCommand in this step
    overrun         \* a payload byte was stored behind the end of rxBuffer

rxVars == <<rxCounter, headerCount, footerCount, readyForDatas, rxBuffer, command, overrun>>

Byte == {Header, Footer} \cup Data
Index == 0 .. BufferSize - 1

RxTypeOK ==
    /\ rxCounter \in 0 .. CounterMod - 1
    /\ headerCount \in 0 .. RepeatHeader
    /\ footerCount \in 0 .. RepeatHeader - 1
    /\ readyForDatas \in BOOLEAN
    /\ rxBuffer \in [Index -> Data]
    /\ command \in (0 .. CounterMod - 1) \cup {NoCommand}
    /\ overrun \in BOOLEAN

RxInit ==
    /\ rxCounter = 0
    /\ headerCount = 0
    /\ footerCount = 0
    /\ readyForDatas = FALSE
    /\ rxBuffer = [i \in Index |-> Zero]
    /\ command = NoCommand
    /\ overrun = FALSE

-----------------------------------------------------------------------------
(* Mutant of HeaderByte: an acquisition in progress is not started over.   *)
HeaderKeepsPayload ==
    /\ footerCount' = 0
    /\ headerCount' = IF headerCount < RepeatHeader THEN headerCount + 1 ELSE headerCount
    /\ readyForDatas' = (headerCount' = RepeatHeader)
    /\ command' = NoCommand
    /\ UNCHANGED <<rxCounter, rxBuffer, overrun>>

(* A header byte starts the frame over, whatever the receiver was doing.   *)
HeaderByte ==
    /\ footerCount' = 0
    /\ headerCount' = IF headerCount < RepeatHeader THEN headerCount + 1 ELSE headerCount
    /\ rxCounter' = IF readyForDatas THEN 0 ELSE rxCounter
    /\ readyForDatas' = (headerCount' = RepeatHeader)
    /\ command' = NoCommand
    /\ UNCHANGED <<rxBuffer, overrun>>

(* Mutant of EarlyFooter: the counter is not compared with the constant.   *)
EarlyFooterUnbounded ==
    /\ readyForDatas
    /\ footerCount' = footerCount + 1
    /\ headerCount' = 0
    /\ command' = NoCommand
    /\ UNCHANGED <<rxCounter, readyForDatas, rxBuffer, overrun>>

(* A footer byte that does not complete the footer.                        *)
EarlyFooter ==
    /\ readyForDatas
    /\ footerCount + 1 # RepeatHeader
    /\ footerCount' = footerCount + 1
    /\ headerCount' = 0
    /\ command' = NoCommand
    /\ UNCHANGED <<rxCounter, readyForDatas, rxBuffer, overrun>>

(* Mutant of LastFooter: the receiver does not go back to waiting.         *)
LastFooterStaysReady ==
    /\ readyForDatas
    /\ footerCount + 1 = RepeatHeader
    /\ command' = rxCounter
    /\ headerCount' = 0
    /\ footerCount' = 0
    /\ rxCounter' = 0
    /\ UNCHANGED <<readyForDatas, rxBuffer, overrun>>

(* The footer byte that completes the frame: the payload is executed and   *)
(* the receiver waits for the next header.                                 *)
LastFooter ==
    /\ readyForDatas
    /\ footerCount + 1 = RepeatHeader
    /\ command' = rxCounter
    /\ headerCount' = 0
    /\ footerCount' = 0
    /\ readyForDatas' = FALSE
    /\ rxCounter' = 0
    /\ UNCHANGED <<rxBuffer, overrun>>

(* rxBuffer[rxCounter++] = b, with no test of the index: a byte behind the *)
(* end of the array goes to other memory.                                  *)
Store(b) ==
    /\ rxBuffer' = IF rxCounter \in Index THEN [rxBuffer EXCEPT ![rxCounter] = b] ELSE rxBuffer
    /\ overrun' = (overrun \/ rxCounter \notin Index)
    /\ rxCounter' = (rxCounter + 1) % CounterMod

PayloadByte(b) ==
    /\ readyForDatas
    /\ Store(b)
    /\ command' = NoCommand
    /\ UNCHANGED <<headerCount, footerCount, readyForDatas>>

(* Anything but a header, outside a frame.                                 *)
SkippedByte ==
    /\ ~readyForDatas
    /\ command' = NoCommand
    /\ UNCHANGED <<rxCounter, headerCount, footerCount, readyForDatas, rxBuffer, overrun>>

Receive(b) ==
    \/ b = Header /\ HeaderByte
    \/ b = Footer /\ EarlyFooter
    \/ b = Footer /\ LastFooter
    \/ b \in Data /\ PayloadByte(b)
    \/ b # Header /\ SkippedByte

RxNext == \E b \in Byte : Receive(b)

RxSpec == RxInit /\ [][RxNext]_rxVars
=============================================================================
