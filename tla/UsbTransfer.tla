---------------------------- MODULE UsbTransfer ----------------------------
(***************************************************************************)
(* Data transfers over the pair of bulk endpoints, as USB::OutTransfer,    *)
(* USB::InTransfer and USB::dispatchPkt (Usb.cpp) make them: packets with  *)
(* data toggles over a bus that loses packets and handshakes, NAK and      *)
(* timeout limits, and the toggle an endpoint record keeps from one        *)
(* transfer to the next.                                                   *)
(*                                                                         *)
(* The chip flips a toggle when a transaction succeeds; it acknowledges    *)
(* received data of the wrong toggle, discards it and reports hrTOGERR.    *)
(* It reports hrTOGERR for no OUT: ToggleAfter has the code's answer all   *)
(* the same.  A packet is its number in the transfer.                      *)
(***************************************************************************)
EXTENDS Naturals, Sequences

CONSTANTS
    NakLimits,      \* NAKs after which a transfer is given up; 0: not counted
    NakCounts,      \* values of the NAK counter: 65536
    RetryLimit,     \* USB_RETRY_LIMIT
    MaxPackets      \* packets of the longest transfer

ASSUME TransferAssumption ==
    /\ NakCounts \in Nat \ {0} /\ NakLimits \subseteq 0 .. NakCounts - 1
    /\ RetryLimit \in Nat \ {0} /\ MaxPackets \in Nat \ {0}

VARIABLES
    nak_limit,              \* of the endpoint (SetAddress)
    bmSndToggle, bmRcvToggle,       \* kept in the endpoint record
    SNDTOG, RCVTOG,         \* in the chip: of the next OUT, expected of the next IN
    expects, offers,        \* in the tablet: of the next OUT it takes, of its packet for IN
    at,                     \* "idle", or the transfer in progress, "out" or "in"
    size,                   \* its packets
    done,                   \* of those, the ones the host has dealt with
    nak_count, retry_count,
    late,                   \* USB_XFER_TIMEOUT is over
    rcode,                  \* of the last transaction; of the transfer when idle
    taken,                  \* OUT packets the tablet has taken of this transfer, in order
    fresh,                  \* the packet the tablet offers was not yet received
    history                 \* what the properties need to know of the past

host == <<bmSndToggle, bmRcvToggle, SNDTOG, RCVTOG>>
tablet == <<expects, offers, taken, fresh>>
counts == <<nak_count, retry_count, late>>
vars == <<nak_limit, host, tablet, counts, at, size, done, rcode, history>>

Toggle == {0, 1}
Results == {"SUCCESS", "NAK", "TIMEOUT", "TOGERR", "error"}
History == [outInStep : BOOLEAN,    \* OUT toggles agreed when this transfer began
            unheard : BOOLEAN,      \* a handshake of this OUT transfer was lost
            inInStep : BOOLEAN,     \* IN toggles agreed at the start of every transfer so far
            flipped : BOOLEAN,      \* hrTOGERR changed the expected toggle
            inOrder : BOOLEAN]      \* every packet offered was received once, in order

TypeOK ==
    /\ nak_limit \in NakLimits
    /\ bmSndToggle \in Toggle /\ bmRcvToggle \in Toggle
    /\ SNDTOG \in Toggle /\ RCVTOG \in Toggle
    /\ expects \in Toggle /\ offers \in Toggle
    /\ at \in {"idle", "out", "in"}
    /\ size \in 1 .. MaxPackets
    /\ done \in 0 .. MaxPackets
    /\ nak_count \in 0 .. NakCounts - 1 /\ (nak_limit # 0 => nak_count <= nak_limit)
    /\ retry_count \in 0 .. RetryLimit
    /\ late \in BOOLEAN
    /\ rcode \in Results
    /\ taken \in Seq(1 .. MaxPackets)
    /\ fresh \in BOOLEAN
    /\ history \in History

Init ==
    /\ nak_limit \in NakLimits
    /\ bmSndToggle = 0 /\ bmRcvToggle = 0 /\ SNDTOG = 0 /\ RCVTOG = 0
    /\ expects = 0 /\ offers = 0
    /\ at = "idle" /\ size = 1 /\ done = 0
    /\ nak_count = 0 /\ retry_count = 0 /\ late = FALSE
    /\ rcode = "SUCCESS"
    /\ taken = <<>>
    /\ fresh = TRUE
    /\ history = [outInStep |-> TRUE, unheard |-> FALSE, inInStep |-> TRUE,
                  flipped |-> FALSE, inOrder |-> TRUE]

-----------------------------------------------------------------------------
(* Counting failed transactions.                                           *)

ResetCounts == nak_count' = 0 /\ retry_count' = 0

(* At nak_limit 0 the count of NAKs goes round without an effect.          *)
OneMoreNak == IF nak_count + 1 = NakCounts THEN 0 ELSE nak_count + 1

Count(r) ==
    /\ nak_count' = IF r = "NAK" THEN OneMoreNak ELSE nak_count
    /\ retry_count' = IF r = "TIMEOUT" THEN retry_count + 1 ELSE retry_count

(* Mutant of GivesUp: NAKs are not compared with their limit.              *)
GivesUpNotOnNaks(r) ==
    \/ r = "TIMEOUT" /\ retry_count + 1 = RetryLimit
    \/ r = "error"

GivesUp(r) ==
    \/ r = "NAK" /\ nak_limit # 0 /\ nak_count + 1 = nak_limit
    \/ r = "TIMEOUT" /\ retry_count + 1 = RetryLimit
    \/ r = "error"

(* Mutant of ToggleAfter: the chip's send toggle as it is.                 *)
ToggleAfterSame(r, toggle) == IF r = "TOGERR" THEN SNDTOG ELSE toggle

(* "yes, we flip it wrong here": the toggle after hrTOGERR, for either     *)
(* direction taken from the chip's send toggle.                            *)
ToggleAfter(r, toggle) == IF r = "TOGERR" THEN 1 - SNDTOG ELSE toggle

-----------------------------------------------------------------------------
(* OutTransfer.                                                            *)

StartOut ==
    /\ at = "idle"
    /\ at' = "out"
    /\ size' \in 1 .. MaxPackets
    /\ done' = 0
    /\ SNDTOG' = bmSndToggle
    /\ ResetCounts /\ late' = FALSE
    /\ taken' = <<>>
    /\ history' = [history EXCEPT !.outInStep = (bmSndToggle = expects), !.unheard = FALSE]
    /\ UNCHANGED <<nak_limit, bmSndToggle, bmRcvToggle, RCVTOG, expects, offers, fresh, rcode>>

(* Mutant of NextOut: the next packet has the toggle of this one.          *)
NextOutSameToggle(r, toggle) ==
    /\ done' = done + 1
    /\ rcode' = r
    /\ UNCHANGED SNDTOG
    /\ ResetCounts
    /\ IF done + 1 = size
       THEN at' = "idle" /\ bmSndToggle' = toggle
       ELSE UNCHANGED <<at, bmSndToggle>>

(* The host is done with a packet, delivered or not.                       *)
NextOut(r, toggle) ==
    /\ done' = done + 1
    /\ rcode' = r
    /\ SNDTOG' = toggle
    /\ ResetCounts
    /\ IF done + 1 = size
       THEN at' = "idle" /\ bmSndToggle' = toggle
       ELSE UNCHANGED <<at, bmSndToggle>>

(* Mutant of BreakOut: the toggle is not saved.                            *)
BreakOutForgets(r) ==
    /\ at' = "idle"
    /\ rcode' = r
    /\ UNCHANGED <<done, SNDTOG, bmSndToggle, nak_count, retry_count>>

(* breakout                                                                *)
BreakOut(r) ==
    /\ at' = "idle"
    /\ bmSndToggle' = SNDTOG
    /\ rcode' = r
    /\ UNCHANGED <<done, SNDTOG, nak_count, retry_count>>

SendAgain(r) ==
    /\ Count(r)
    /\ rcode' = r
    /\ SNDTOG' = ToggleAfter(r, SNDTOG)
    /\ bmSndToggle' = ToggleAfter(r, bmSndToggle)
    /\ UNCHANGED <<at, done>>

(* Mutant of HostAfterOut: the time of a transfer is not limited.          *)
HostAfterOutUntimed(r) ==
    \/ r = "SUCCESS" /\ NextOut(r, 1 - SNDTOG)
    \/ r # "SUCCESS" /\ GivesUp(r) /\ BreakOut(r)
    \/ r # "SUCCESS" /\ ~GivesUp(r) /\ SendAgain(r)

(* The two loops of OutTransfer on the result of a transaction: the inner  *)
(* one ends on success and when time is up.                                *)
HostAfterOut(r) ==
    \/ r = "SUCCESS" /\ NextOut(r, 1 - SNDTOG)
    \/ r # "SUCCESS" /\ late /\ NextOut(r, SNDTOG)
    \/ r # "SUCCESS" /\ ~late /\ GivesUp(r) /\ BreakOut(r)
    \/ r # "SUCCESS" /\ ~late /\ ~GivesUp(r) /\ SendAgain(r)

(* The tablet takes a packet of the toggle it expects, drops another, and  *)
(* acknowledges both.                                                      *)
TabletTakes ==
    IF SNDTOG = expects
    THEN taken' = Append(taken, done + 1) /\ expects' = 1 - expects
    ELSE UNCHANGED <<taken, expects>>

OutTransaction ==
    /\ at = "out"
    /\ \/ TabletTakes /\ HostAfterOut("SUCCESS") /\ UNCHANGED history
       \/ TabletTakes /\ HostAfterOut("TIMEOUT") /\ history' = [history EXCEPT !.unheard = TRUE]
       \/ /\ \E r \in {"NAK", "TIMEOUT", "error"} : HostAfterOut(r)
          /\ UNCHANGED <<taken, expects, history>>
    /\ UNCHANGED <<nak_limit, bmRcvToggle, RCVTOG, offers, fresh, size, late>>

-----------------------------------------------------------------------------
(* InTransfer, one dispatchPkt(tokIN) after the other.                     *)

InAgrees == (bmRcvToggle = offers) <=> fresh

StartIn ==
    /\ at = "idle"
    /\ at' = "in"
    /\ size' \in 1 .. MaxPackets
    /\ done' = 0
    /\ RCVTOG' = bmRcvToggle
    /\ ResetCounts /\ late' = FALSE
    /\ history' = [history EXCEPT !.inInStep = @ /\ InAgrees]
    /\ UNCHANGED <<nak_limit, bmSndToggle, bmRcvToggle, SNDTOG, tablet, rcode>>

(* The tablet has heard the acknowledgement: it offers its next packet.    *)
TabletMovesOn(heard) ==
    IF heard THEN offers' = 1 - offers /\ fresh' = TRUE
    ELSE offers' = offers /\ fresh' = (fresh /\ RCVTOG # offers)

(* Mutant of Received: the toggle is saved as it was before the packet.    *)
ReceivedSavesOld ==
    /\ RCVTOG = offers
    /\ RCVTOG' = 1 - RCVTOG
    /\ done' = done + 1
    /\ rcode' = "SUCCESS"
    /\ ResetCounts /\ late' = FALSE
    /\ \/ at' = "idle" /\ bmRcvToggle' = RCVTOG
       \/ done + 1 < size /\ UNCHANGED <<at, bmRcvToggle>>
    /\ history' = [history EXCEPT !.inOrder = @ /\ fresh]

(* Mutant of Received: a packet is taken whatever its toggle.              *)
ReceivedUnchecked ==
    /\ RCVTOG' = 1 - offers
    /\ done' = done + 1
    /\ rcode' = "SUCCESS"
    /\ ResetCounts /\ late' = FALSE
    /\ \/ at' = "idle" /\ bmRcvToggle' = 1 - offers
       \/ done + 1 < size /\ UNCHANGED <<at, bmRcvToggle>>
    /\ history' = [history EXCEPT !.inOrder = @ /\ fresh]

(* The transfer ends with a short packet or with the last one; only then   *)
(* is the toggle saved.                                                    *)
Received ==
    /\ RCVTOG = offers
    /\ RCVTOG' = 1 - RCVTOG
    /\ done' = done + 1
    /\ rcode' = "SUCCESS"
    /\ ResetCounts /\ late' = FALSE
    /\ \/ at' = "idle" /\ bmRcvToggle' = 1 - RCVTOG
       \/ done + 1 < size /\ UNCHANGED <<at, bmRcvToggle>>
    /\ history' = [history EXCEPT !.inOrder = @ /\ fresh]

WrongToggle ==
    /\ RCVTOG # offers
    /\ RCVTOG' = ToggleAfter("TOGERR", RCVTOG)
    /\ bmRcvToggle' = ToggleAfter("TOGERR", bmRcvToggle)
    /\ rcode' = "TOGERR"
    /\ ResetCounts /\ late' = FALSE
    /\ UNCHANGED <<at, done>>

InTransaction ==
    /\ at = "in"
    /\ \/ \E heard \in BOOLEAN : Received /\ TabletMovesOn(heard)
       \/ \E heard \in BOOLEAN :
            /\ WrongToggle /\ TabletMovesOn(heard)
            /\ history' = [history EXCEPT !.flipped = @ \/ RCVTOG' # RCVTOG,
                                          !.inOrder = @ /\ ~(heard /\ fresh)]
       \/ /\ \E r \in {"NAK", "TIMEOUT", "error"} :
                /\ rcode' = r
                /\ Count(r)
                /\ at' = IF late \/ GivesUp(r) THEN "idle" ELSE "in"
          /\ UNCHANGED <<RCVTOG, bmRcvToggle, offers, fresh, done, late, history>>
    /\ UNCHANGED <<nak_limit, bmSndToggle, SNDTOG, expects, taken, size>>

-----------------------------------------------------------------------------
(* Time, and a tablet that is attached anew: SET_CONFIGURATION resets its  *)
(* toggles; ADK::Release and ADK::Init leave the endpoint record's alone.  *)

TimeIsUp ==
    /\ at # "idle" /\ ~late
    /\ late' = TRUE
    /\ UNCHANGED <<nak_limit, host, tablet, nak_count, retry_count, at, size, done, rcode, history>>

Reattach ==
    /\ at = "idle"
    /\ expects' = 0 /\ offers' = 0 /\ fresh' = TRUE
    /\ UNCHANGED <<nak_limit, host, taken, counts, at, size, done, rcode, history>>

Next == StartOut \/ OutTransaction \/ StartIn \/ InTransaction \/ TimeIsUp \/ Reattach

Spec == Init /\ [][Next]_vars

(* The processor makes the next transaction, and time goes on.  A          *)
(* transaction includes OutTransfer's wait for the chip's HXFRDNIRQ, which *)
(* has no limit: it ends as long as nothing but the transfer itself clears *)
(* that flag.  A transfer of the timer routine within one of the main      *)
(* program could clear it; the two sharing the SPI bus are not modelled.   *)
FairSpec == Spec /\ WF_vars(OutTransaction) /\ WF_vars(InTransaction) /\ WF_vars(TimeIsUp)

-----------------------------------------------------------------------------
(* Properties.                                                             *)

FirstPackets(k) == [i \in 1 .. k |-> i]

(* What the tablet takes of a transfer is its packets in order, none twice *)
(* and none left out, however often transactions are repeated, and all of  *)
(* them when the transfer succeeds.  That needs toggles that agreed when   *)
(* the transfer began, and a transfer within its time: OutTransfer goes on *)
(* to the next packet when time is up.                                     *)
OutDelivers ==
    [][at = "out" /\ history.outInStep /\ ~late =>
        /\ taken' = FirstPackets(Len(taken'))
        /\ at' = "idle" /\ rcode' = "SUCCESS" => Len(taken') = size]_vars

(* An OUT transfer leaves the toggle of the endpoint record and the one    *)
(* the tablet expects in step, whatever its result, if every handshake was *)
(* heard.                                                                  *)
OutStaysInStep ==
    [][at = "out" /\ at' = "idle" /\ history'.outInStep /\ ~history'.unheard =>
        bmSndToggle' = expects']_vars

(* The packets the tablet offers are received once each, in order, as long *)
(* as transfers begin in step and no hrTOGERR, which a packet repeated     *)
(* after a lost acknowledgement leads to, has changed the receive toggle   *)
(* (Usb.cpp:237 sets it from the other direction's).                       *)
ReceivedOnce == history.inInStep /\ ~history.flipped => history.inOrder

(* The first hrTOGERR that changes the receive toggle has met a copy of a  *)
(* packet received, with the chip's two toggles equal, and leaves the ends *)
(* out of step: the next copy is taken, or the next packet is lost.  As    *)
(* long as the two differ at each hrTOGERR none does.                      *)
FlipPutsOutOfStep ==
    [][history.inInStep /\ ~history.flipped /\ history'.flipped =>
        /\ ~fresh /\ SNDTOG = RCVTOG
        /\ RCVTOG' = offers' <=> ~fresh']_vars

(* An IN transfer that succeeds, or fails before its first packet, leaves  *)
(* the toggles in step, if it began in step and so did those before it,    *)
(* and no hrTOGERR has changed the receive toggle; the code saves the      *)
(* toggle on success only.                                                 *)
InStaysInStep ==
    [][at = "in" /\ at' = "idle" /\ history'.inInStep /\ ~history'.flipped
            /\ (rcode' = "SUCCESS" \/ done' = 0) => InAgrees']_vars

(* Transfers return: OUT by its limits and its time, IN by the limits of   *)
(* dispatchPkt unless hrTOGERR is reported for ever.                       *)
TransfersReturn ==
    /\ at = "out" ~> at = "idle"
    /\ <>[](rcode # "TOGERR") => (at = "in" ~> at = "idle")

(* Of hrTOGERR: "we flip it wrong here so that next time it is actually    *)
(* correct!" (Usb.cpp:236): the packets that follow are received.          *)
CorrectNextTime == history.inInStep => history.inOrder
=============================================================================
