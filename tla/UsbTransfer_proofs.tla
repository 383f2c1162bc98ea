------------------------- MODULE UsbTransfer_proofs -------------------------
(***************************************************************************)
(* What the data toggles guarantee, for any limits and transfers of any    *)
(* length.  The reason is in OutInStep: within a transfer that began in    *)
(* step, the chip's toggle says whether the tablet has dealt with the      *)
(* packet in flight, also when the host has not heard of it.               *)
(***************************************************************************)
EXTENDS UsbTransfer, Integers, TLAPS

USE TransferAssumption DEF TransferAssumption

(* A transfer in progress has a packet to go and has not used up its       *)
(* limits.                                                                 *)
InProgress ==
    at # "idle" =>
        /\ done < size
        /\ nak_limit # 0 => nak_count < nak_limit
        /\ retry_count < RetryLimit

OutInStep ==
    at = "out" /\ history.outInStep =>
        /\ ~history.unheard => SNDTOG = expects
        /\ ~late => taken = FirstPackets(IF SNDTOG = expects THEN done ELSE done + 1)

InInStep ==
    /\ at = "in" /\ done = 0 => bmRcvToggle = RCVTOG
    /\ history.inInStep /\ ~history.flipped =>
        history.inOrder /\ (at = "in" => ((RCVTOG = offers) <=> fresh))

(* The packets taken so far, and one more.                                 *)
LEMMA Packets ==
    ASSUME NEW k \in Nat
    PROVE  /\ FirstPackets(k) \in Seq(1 .. k)
           /\ Len(FirstPackets(k)) = k
           /\ Append(FirstPackets(k), k + 1) = FirstPackets(k + 1)
BY DEF FirstPackets

LEMMA NoPackets == FirstPackets(0) = <<>>
BY DEF FirstPackets

-----------------------------------------------------------------------------
(* Types, and the progress of a transfer.                                  *)

(* The updates of the history stay histories.                              *)
LEMMA HistoryUpdates ==
    ASSUME NEW h \in History, NEW b \in BOOLEAN, NEW c \in BOOLEAN
    PROVE  /\ [h EXCEPT !.outInStep = b, !.unheard = c] \in History
           /\ [h EXCEPT !.unheard = b] \in History
           /\ [h EXCEPT !.inInStep = b] \in History
           /\ [h EXCEPT !.inOrder = b] \in History
           /\ [h EXCEPT !.flipped = b, !.inOrder = c] \in History
BY DEF History

LEMMA TypeInit == Init => TypeOK /\ InProgress
<1>. SUFFICES ASSUME Init PROVE TypeOK /\ InProgress
    OBVIOUS
<1>1. history \in History
    BY DEF Init, History
<1>2. taken \in Seq(1 .. MaxPackets)
    BY DEF Init
<1>3. nak_limit \in NakLimits /\ nak_limit \in Nat
    BY DEF Init
<1>4. /\ bmSndToggle = 0 /\ bmRcvToggle = 0 /\ SNDTOG = 0 /\ RCVTOG = 0
      /\ expects = 0 /\ offers = 0
      /\ at = "idle" /\ size = 1 /\ done = 0 /\ nak_count = 0 /\ retry_count = 0
      /\ late = FALSE /\ rcode = "SUCCESS" /\ fresh = TRUE
    BY DEF Init
<1>5. late \in BOOLEAN /\ fresh \in BOOLEAN
    BY <1>4
<1>6. TypeOK
    BY <1>1, <1>2, <1>3, <1>4, <1>5 DEF TypeOK, Toggle, Results
<1>. QED
    BY <1>4, <1>6 DEF InProgress

LEMMA OutTypes ==
    ASSUME TypeOK, InProgress, OutTransaction
    PROVE  TypeOK' /\ InProgress'
<1>1. \E r \in Results : HostAfterOut(r)
    BY DEF OutTransaction, Results
<1>2. PICK r \in Results : HostAfterOut(r)
    BY <1>1
<1>3. at = "out" /\ done < size /\ done + 1 \in 1 .. MaxPackets
    BY DEF OutTransaction, InProgress, TypeOK
<1>4. /\ UNCHANGED <<nak_limit, bmRcvToggle, RCVTOG, offers, fresh, size, late>>
      /\ expects' \in Toggle /\ taken' \in Seq(1 .. MaxPackets) /\ history' \in History
  <2>1. UNCHANGED <<nak_limit, bmRcvToggle, RCVTOG, offers, fresh, size, late>>
    BY DEF OutTransaction
  <2>2. TabletTakes \/ UNCHANGED <<taken, expects>>
    BY DEF OutTransaction
  <2>3. taken' \in Seq(1 .. MaxPackets)
    <3>1. taken \in Seq(1 .. MaxPackets) /\ done + 1 \in 1 .. MaxPackets
        BY <1>3 DEF TypeOK
    <3>2. taken' = Append(taken, done + 1) \/ taken' = taken
        BY <2>2 DEF TabletTakes
    <3>. QED
        BY <3>1, <3>2
  <2>6. expects' \in Toggle
    BY <2>2 DEF TabletTakes, TypeOK, Toggle
  <2>4. history' = history \/ history' = [history EXCEPT !.unheard = TRUE]
    BY DEF OutTransaction
  <2>5. history' \in History
    BY <2>4, HistoryUpdates DEF TypeOK
  <2>. QED
    BY <2>1, <2>3, <2>5, <2>6
<1>5. \A t \in Toggle : 1 - t \in Toggle
    BY DEF Toggle
<1>6. CASE \E t \in Toggle : NextOut(r, t)
    BY <1>3, <1>4, <1>6 DEF NextOut, ResetCounts, TypeOK, InProgress
<1>7. CASE BreakOut(r)
    BY <1>3, <1>4, <1>7 DEF BreakOut, TypeOK, InProgress
<1>8. CASE ~GivesUp(r) /\ SendAgain(r)
  <2>1. SNDTOG' \in Toggle /\ bmSndToggle' \in Toggle
    BY <1>5, <1>8 DEF SendAgain, ToggleAfter, TypeOK
  <2>2. /\ nak_count' \in 0 .. NakCounts - 1 /\ (nak_limit # 0 => nak_count' < nak_limit)
        /\ retry_count' \in Nat /\ retry_count' < RetryLimit
    BY <1>3, <1>8 DEF SendAgain, Count, OneMoreNak, GivesUp, TypeOK, InProgress
  <2>. QED
    BY <1>3, <1>4, <1>8, <2>1, <2>2 DEF SendAgain, TypeOK, InProgress
<1>. QED
    BY <1>2, <1>5, <1>6, <1>7, <1>8 DEF HostAfterOut, TypeOK

LEMMA InTypes ==
    ASSUME TypeOK, InProgress, InTransaction
    PROVE  TypeOK' /\ InProgress'
<1>0. at = "in"
    BY DEF InTransaction
<1>1. at = "in" /\ done < size /\ done + 1 \in 1 .. MaxPackets
    BY <1>0 DEF InProgress, TypeOK
<1>2. \A t \in Toggle : 1 - t \in Toggle
    BY DEF Toggle
<1>3. UNCHANGED <<nak_limit, bmSndToggle, SNDTOG, expects, taken, size>>
    BY DEF InTransaction
<1>4. CASE \E heard \in BOOLEAN : Received /\ TabletMovesOn(heard)
  <2>1. RCVTOG' \in Toggle /\ bmRcvToggle' \in Toggle /\ offers' \in Toggle /\ fresh' \in BOOLEAN
    BY <1>2, <1>4 DEF Received, TabletMovesOn, TypeOK
  <2>2. history' \in History
    <3>1. history' = [history EXCEPT !.inOrder = history.inOrder /\ fresh]
        BY <1>4 DEF Received
    <3>2. history \in History /\ (history.inOrder /\ fresh) \in BOOLEAN
        BY DEF TypeOK
    <3>. QED
        BY <3>1, <3>2, HistoryUpdates, Zenon
  <2>3. /\ nak_count' = 0 /\ retry_count' = 0 /\ late' = FALSE /\ rcode' = "SUCCESS"
        /\ done' = done + 1
        /\ at' = "idle" \/ (at' = at /\ done + 1 < size)
    BY <1>4 DEF Received, ResetCounts
  <2>4. late' \in BOOLEAN
    BY <2>3
  <2>. QED
    BY <1>1, <1>3, <2>1, <2>2, <2>3, <2>4 DEF TypeOK, InProgress, Results
<1>5. CASE \E heard \in BOOLEAN :
            /\ WrongToggle /\ TabletMovesOn(heard)
            /\ history' = [history EXCEPT !.flipped = @ \/ RCVTOG' # RCVTOG,
                                          !.inOrder = @ /\ ~(heard /\ fresh)]
  <2>1. RCVTOG' \in Toggle /\ bmRcvToggle' \in Toggle /\ offers' \in Toggle /\ fresh' \in BOOLEAN
    BY <1>2, <1>5 DEF WrongToggle, ToggleAfter, TabletMovesOn, TypeOK
  <2>2. history' \in History
    <3>1. PICK heard \in BOOLEAN :
            history' = [history EXCEPT !.flipped = history.flipped \/ RCVTOG' # RCVTOG,
                                       !.inOrder = history.inOrder /\ ~(heard /\ fresh)]
        BY <1>5
    <3>2. /\ history \in History
          /\ (history.flipped \/ RCVTOG' # RCVTOG) \in BOOLEAN
          /\ (history.inOrder /\ ~(heard /\ fresh)) \in BOOLEAN
        BY DEF TypeOK
    <3>. QED
        BY <3>1, <3>2, HistoryUpdates, Zenon
  <2>3. /\ nak_count' = 0 /\ retry_count' = 0 /\ late' = FALSE /\ rcode' = "TOGERR"
        /\ done' = done /\ at' = at
    BY <1>5 DEF WrongToggle, ResetCounts
  <2>4. late' \in BOOLEAN
    BY <2>3
  <2>. QED
    BY <1>1, <1>3, <2>1, <2>2, <2>3, <2>4 DEF TypeOK, InProgress, Results
<1>6. CASE /\ \E r \in {"NAK", "TIMEOUT", "error"} :
                /\ rcode' = r
                /\ Count(r)
                /\ at' = IF late \/ GivesUp(r) THEN "idle" ELSE "in"
           /\ UNCHANGED <<RCVTOG, bmRcvToggle, offers, fresh, done, late, history>>
  <2>1. PICK r \in {"NAK", "TIMEOUT", "error"} :
            rcode' = r /\ Count(r) /\ at' = IF late \/ GivesUp(r) THEN "idle" ELSE "in"
    BY <1>6
  <2>2. /\ nak_count' \in 0 .. NakCounts - 1 /\ (nak_limit # 0 => nak_count' <= nak_limit)
        /\ retry_count' \in 0 .. RetryLimit
    BY <1>1, <2>1 DEF Count, OneMoreNak, TypeOK, InProgress
  <2>3. at' = "in" => (nak_limit # 0 => nak_count' < nak_limit) /\ retry_count' < RetryLimit
    BY <1>1, <2>1 DEF Count, OneMoreNak, GivesUp, TypeOK, InProgress
  <2>. QED
    BY <1>1, <1>3, <1>6, <2>1, <2>2, <2>3 DEF TypeOK, InProgress, Results
<1>. QED
    BY <1>4, <1>5, <1>6 DEF InTransaction

LEMMA TypeNext == TypeOK /\ InProgress /\ [Next]_vars => TypeOK' /\ InProgress'
<1>. SUFFICES ASSUME TypeOK, InProgress, [Next]_vars PROVE TypeOK' /\ InProgress'
    OBVIOUS
<1>1. CASE StartOut
  <2>1. history' \in History
    <3>1. history' = [history EXCEPT !.outInStep = (bmSndToggle = expects), !.unheard = FALSE]
        BY <1>1 DEF StartOut
    <3>. QED
        BY <3>1, HistoryUpdates, Zenon DEF TypeOK
  <2>2. late' = FALSE /\ taken' = <<>> /\ done' = 0 /\ at' = "out" /\ size' \in 1 .. MaxPackets
        /\ SNDTOG' = bmSndToggle /\ nak_count' = 0 /\ retry_count' = 0
        /\ UNCHANGED <<nak_limit, bmSndToggle, bmRcvToggle, RCVTOG, expects, offers, fresh, rcode>>
    BY <1>1 DEF StartOut, ResetCounts
  <2>3. late' \in BOOLEAN
    BY <2>2 DEF TypeOK
  <2>4. taken' \in Seq(1 .. MaxPackets)
    BY <2>2
  <2>. QED
    BY <2>1, <2>2, <2>3, <2>4 DEF TypeOK, InProgress
<1>2. CASE StartIn
  <2>1. history' \in History
    <3>1. history' = [history EXCEPT !.inInStep = history.inInStep /\ InAgrees]
        BY <1>2 DEF StartIn
    <3>2. (history.inInStep /\ InAgrees) \in BOOLEAN
        OBVIOUS
    <3>. QED
        BY <3>1, <3>2, HistoryUpdates, Zenon DEF TypeOK
  <2>2. late' = FALSE /\ done' = 0 /\ at' = "in" /\ size' \in 1 .. MaxPackets
        /\ RCVTOG' = bmRcvToggle /\ nak_count' = 0 /\ retry_count' = 0
        /\ UNCHANGED <<nak_limit, bmSndToggle, bmRcvToggle, SNDTOG, expects, offers, taken, fresh, rcode>>
    BY <1>2 DEF StartIn, ResetCounts, tablet
  <2>3. late' \in BOOLEAN
    BY <2>2 DEF TypeOK
  <2>. QED
    BY <2>1, <2>2, <2>3 DEF TypeOK, InProgress
<1>3. CASE TimeIsUp
    BY <1>3 DEF TimeIsUp, TypeOK, InProgress, host, tablet
<1>4. CASE Reattach
    BY <1>4 DEF Reattach, TypeOK, InProgress, Toggle, host, counts
<1>5. CASE UNCHANGED vars
    BY <1>5 DEF vars, TypeOK, InProgress, host, tablet, counts
<1>. QED
    BY <1>1, <1>2, <1>3, <1>4, <1>5, OutTypes, InTypes DEF Next

(* The transfer in progress is within its limits and its types.            *)
THEOREM TransferTypes == Spec => []TypeOK
<1>1. Spec => [](TypeOK /\ InProgress)
    BY TypeInit, TypeNext, PTL DEF Spec
<1>. QED
    BY <1>1, PTL

-----------------------------------------------------------------------------
(* OUT: the toggles stay in step.                                          *)

(* What the host does with the result of a transaction.                    *)
LEMMA HostOut ==
    ASSUME TypeOK, NEW r, r # "TOGERR", HostAfterOut(r), at = "out"
    PROVE  /\ rcode' = r
           /\ at' = "idle" => bmSndToggle' = SNDTOG'
           /\ r = "SUCCESS" =>
                SNDTOG' = 1 - SNDTOG /\ done' = done + 1 /\ (at' = "idle" => done' = size)
           /\ r # "SUCCESS" => SNDTOG' = SNDTOG
           /\ r # "SUCCESS" /\ ~late => done' = done
<1>1. CASE NextOut(r, 1 - SNDTOG) /\ r = "SUCCESS"
    BY <1>1 DEF NextOut
<1>2. CASE NextOut(r, SNDTOG) /\ r # "SUCCESS" /\ late
    BY <1>2 DEF NextOut
<1>3. CASE BreakOut(r) /\ r # "SUCCESS"
    BY <1>3 DEF BreakOut
<1>4. CASE SendAgain(r) /\ r # "SUCCESS"
    BY <1>4 DEF SendAgain, ToggleAfter
<1>. QED
    BY <1>1, <1>2, <1>3, <1>4 DEF HostAfterOut

(* What the tablet and the bus make of a packet.                           *)
LEMMA BusOut ==
    ASSUME OutTransaction, TypeOK
    PROVE  /\ at = "out" /\ UNCHANGED <<size, late>>
           /\ history'.outInStep = history.outInStep
           /\ \E r \in Results \ {"TOGERR"} :
                /\ HostAfterOut(r)
                /\ \/ TabletTakes /\ (r = "SUCCESS" \/ history'.unheard)
                   \/ r # "SUCCESS" /\ UNCHANGED <<taken, expects, history>>
<1>1. at = "out" /\ UNCHANGED <<size, late>>
    BY DEF OutTransaction
<1>2. history \in History
    BY DEF TypeOK
<1>3. CASE TabletTakes /\ HostAfterOut("SUCCESS") /\ UNCHANGED history
    BY <1>1, <1>3 DEF Results
<1>4. CASE /\ TabletTakes /\ HostAfterOut("TIMEOUT")
           /\ history' = [history EXCEPT !.unheard = TRUE]
    BY <1>1, <1>2, <1>4 DEF Results, History
<1>5. CASE /\ \E r \in {"NAK", "TIMEOUT", "error"} : HostAfterOut(r)
           /\ UNCHANGED <<taken, expects, history>>
    BY <1>1, <1>5 DEF Results
<1>. QED
    BY <1>3, <1>4, <1>5 DEF OutTransaction

LEMMA OutStep ==
    ASSUME TypeOK, InProgress, OutInStep, OutTransaction
    PROVE  /\ OutInStep'
           /\ history.outInStep /\ ~late =>
                /\ taken' = FirstPackets(Len(taken'))
                /\ at' = "idle" /\ rcode' = "SUCCESS" => Len(taken') = size
           /\ at' = "idle" /\ history'.outInStep /\ ~history'.unheard => bmSndToggle' = expects'
<1>1. at = "out" /\ UNCHANGED <<size, late>> /\ history'.outInStep = history.outInStep
    BY BusOut
<1>2. PICK r \in Results \ {"TOGERR"} :
            /\ HostAfterOut(r)
            /\ \/ TabletTakes /\ (r = "SUCCESS" \/ history'.unheard)
               \/ r # "SUCCESS" /\ UNCHANGED <<taken, expects, history>>
    BY BusOut
<1>3. /\ rcode' = r
      /\ at' = "idle" => bmSndToggle' = SNDTOG'
      /\ r = "SUCCESS" =>
            SNDTOG' = 1 - SNDTOG /\ done' = done + 1 /\ (at' = "idle" => done' = size)
      /\ r # "SUCCESS" => SNDTOG' = SNDTOG
      /\ r # "SUCCESS" /\ ~late => done' = done
    BY <1>1, <1>2, HostOut
<1>4. SNDTOG \in {0, 1} /\ expects \in {0, 1} /\ done \in Nat
    BY DEF TypeOK, Toggle
<1>. SUFFICES ASSUME history.outInStep
              PROVE  /\ ~history'.unheard => SNDTOG' = expects'
                     /\ ~late => /\ taken' = FirstPackets(IF SNDTOG' = expects' THEN done' ELSE done' + 1)
                                 /\ taken' = FirstPackets(Len(taken'))
                                 /\ rcode' = "SUCCESS" /\ at' = "idle" => Len(taken') = size
    BY <1>1, <1>3 DEF OutInStep
<1>5. /\ ~history.unheard => SNDTOG = expects
      /\ ~late => taken = FirstPackets(IF SNDTOG = expects THEN done ELSE done + 1)
    BY <1>1 DEF OutInStep
<1>6. CASE TabletTakes /\ (r = "SUCCESS" \/ history'.unheard)
  <2>3. ASSUME SNDTOG = expects
        PROVE  expects' \in {0, 1} /\ SNDTOG # expects' /\ (~late => taken' = FirstPackets(done + 1))
    <3>1. taken' = Append(taken, done + 1) /\ expects' = 1 - expects
        BY <1>6, <2>3 DEF TabletTakes
    <3>2. Append(FirstPackets(done), done + 1) = FirstPackets(done + 1)
        BY <1>4, Packets
    <3>3. ~late => taken = FirstPackets(done)
        BY <1>5, <2>3
    <3>4. ~late => taken' = FirstPackets(done + 1)
        BY <3>1, <3>2, <3>3, Zenon
    <3>. QED
        BY <1>4, <2>3, <3>1, <3>4
  <2>4. ASSUME SNDTOG # expects
        PROVE  expects' \in {0, 1} /\ SNDTOG # expects' /\ (~late => taken' = FirstPackets(done + 1))
    <3>1. taken' = taken /\ expects' = expects
        BY <1>6, <2>4 DEF TabletTakes
    <3>. QED
        BY <1>4, <1>5, <2>4, <3>1
  <2>1. /\ expects' \in {0, 1} /\ SNDTOG # expects'
        /\ ~late => taken' = FirstPackets(done + 1)
    BY <2>3, <2>4
  <2>2. ~late => Len(taken') = done + 1
    BY <1>4, <2>1, Packets
  <2>. QED
    BY <1>3, <1>4, <1>6, <2>1, <2>2
<1>7. CASE r # "SUCCESS" /\ UNCHANGED <<taken, expects, history>>
  <2>2. ~late => \E k \in Nat : taken' = FirstPackets(k)
    BY <1>4, <1>5, <1>7
  <2>1. ~late => taken' = FirstPackets(Len(taken'))
    BY <2>2, Packets, Zenon
  <2>. QED
    BY <1>3, <1>4, <1>5, <1>7, <2>1
<1>. QED
    BY <1>2, <1>6, <1>7

LEMMA OutInit == Init => OutInStep
BY DEF Init, OutInStep

LEMMA OutNext ==
    ASSUME TypeOK, InProgress, OutInStep, [Next]_vars
    PROVE  OutInStep'
<1>1. CASE StartOut
  <2>1. at' = "out" /\ done' = 0 /\ SNDTOG' = bmSndToggle /\ expects' = expects /\ taken' = <<>>
    BY <1>1 DEF StartOut
  <2>2. history'.outInStep = (bmSndToggle = expects)
    BY <1>1 DEF StartOut, TypeOK, History
  <2>. QED
    BY <2>1, <2>2, NoPackets DEF OutInStep
<1>2. CASE StartIn
    BY <1>2 DEF StartIn, OutInStep
<1>3. CASE InTransaction
  <2>1. at = "in"
    BY <1>3 DEF InTransaction
  <2>2. at' # "out"
    <3>1. CASE \E heard \in BOOLEAN : Received /\ TabletMovesOn(heard)
        BY <2>1, <3>1 DEF Received
    <3>2. CASE WrongToggle
        BY <2>1, <3>2 DEF WrongToggle
    <3>3. CASE \E r \in {"NAK", "TIMEOUT", "error"} : at' = IF late \/ GivesUp(r) THEN "idle" ELSE "in"
        BY <3>3
    <3>. QED
        BY <1>3, <3>1, <3>2, <3>3 DEF InTransaction
  <2>. QED
    BY <2>2 DEF OutInStep
<1>4. CASE TimeIsUp
    BY <1>4 DEF TimeIsUp, OutInStep, host, tablet
<1>5. CASE Reattach
    BY <1>5 DEF Reattach, OutInStep
<1>6. CASE UNCHANGED vars
    BY <1>6 DEF vars, OutInStep, host, tablet, counts
<1>. QED
    BY <1>1, <1>2, <1>3, <1>4, <1>5, <1>6, OutStep DEF Next

LEMMA OutInvariant == Spec => [](TypeOK /\ InProgress /\ OutInStep)
<1>1. Init => TypeOK /\ InProgress /\ OutInStep
    BY TypeInit, OutInit
<1>2. TypeOK /\ InProgress /\ OutInStep /\ [Next]_vars => (TypeOK /\ InProgress /\ OutInStep)'
    BY TypeNext, OutNext
<1>. QED
    BY <1>1, <1>2, PTL DEF Spec

(* Only OutTransaction ends an OUT transfer.                               *)
LEMMA OutEnds ==
    ASSUME [Next]_vars, at = "out"
    PROVE  OutTransaction \/ (UNCHANGED <<at, taken>>)
BY DEF Next, StartOut, StartIn, InTransaction, TimeIsUp, Reattach, vars, host, tablet, counts

(* A transfer that begins in step and in time is delivered as far as it    *)
(* goes, whatever is lost on the bus, and whole when it succeeds.          *)
THEOREM OutIsDelivered == Spec => OutDelivers
<1>1. TypeOK /\ InProgress /\ OutInStep /\ [Next]_vars =>
        [at = "out" /\ history.outInStep /\ ~late =>
            /\ taken' = FirstPackets(Len(taken'))
            /\ at' = "idle" /\ rcode' = "SUCCESS" => Len(taken') = size]_vars
  <2>. SUFFICES ASSUME TypeOK, InProgress, OutInStep, Next,
                       at = "out", history.outInStep, ~late
                PROVE  /\ taken' = FirstPackets(Len(taken'))
                       /\ at' = "idle" /\ rcode' = "SUCCESS" => Len(taken') = size
    OBVIOUS
  <2>1. CASE OutTransaction
    BY <2>1, OutStep
  <2>2. CASE UNCHANGED <<at, taken>>
    <3>2. done \in Nat /\ done + 1 \in Nat
        BY DEF TypeOK
    <3>3. taken = FirstPackets(IF SNDTOG = expects THEN done ELSE done + 1)
        BY DEF OutInStep
    <3>4. \E k \in Nat : taken = FirstPackets(k)
        BY <3>2, <3>3
    <3>1. taken = FirstPackets(Len(taken))
        BY <3>4, Packets, Zenon
    <3>. QED
        BY <2>2, <3>1
  <2>. QED
    BY <2>1, <2>2, OutEnds
<1>. QED
    BY <1>1, OutInvariant, PTL DEF Spec, OutDelivers

(* Without a lost handshake both ends agree on the toggle of the next      *)
(* transfer, also after one that was given up.                             *)
THEOREM OutTogglesKept == Spec => OutStaysInStep
<1>1. TypeOK /\ InProgress /\ OutInStep /\ [Next]_vars =>
        [at = "out" /\ at' = "idle" /\ history'.outInStep /\ ~history'.unheard =>
            bmSndToggle' = expects']_vars
    BY OutStep, OutEnds
<1>. QED
    BY <1>1, OutInvariant, PTL DEF Spec, OutStaysInStep

-----------------------------------------------------------------------------
(* IN: nothing is received twice or lost, unless a toggle was flipped.     *)

LEMMA InInit == Init => InInStep
BY DEF Init, InInStep

LEMMA InStep ==
    ASSUME TypeOK, InInStep, InTransaction
    PROVE  /\ InInStep'
           /\ at' = "idle" /\ history'.inInStep /\ ~history'.flipped
                    /\ (rcode' = "SUCCESS" \/ done' = 0) => InAgrees'
<1>0. at = "in"
    BY DEF InTransaction
<1>1. history \in History /\ done \in Nat
    BY DEF TypeOK
<1>2. RCVTOG \in {0, 1} /\ offers \in {0, 1} /\ bmRcvToggle \in {0, 1}
    BY DEF TypeOK, Toggle
<1>3. CASE \E heard \in BOOLEAN : Received /\ TabletMovesOn(heard)
  <2>1. PICK heard \in BOOLEAN : Received /\ TabletMovesOn(heard)
    BY <1>3
  <2>2. /\ history'.inInStep = history.inInStep /\ history'.flipped = history.flipped
        /\ history'.inOrder = (history.inOrder /\ fresh)
    BY <1>1, <2>1 DEF Received, History
  <2>3. /\ RCVTOG = offers /\ RCVTOG' = 1 - RCVTOG /\ done' = done + 1
        /\ at' = "idle" => bmRcvToggle' = 1 - RCVTOG
        /\ heard => offers' = 1 - offers /\ fresh' = TRUE
        /\ ~heard => offers' = offers /\ fresh' = (fresh /\ RCVTOG # offers)
    BY <1>0, <2>1 DEF Received, TabletMovesOn
  <2>4. ((RCVTOG' = offers') <=> fresh') /\ (at' = "idle" => bmRcvToggle' = RCVTOG') /\ done' # 0
    BY <1>1, <1>2, <2>3
  <2>5. history.inInStep /\ ~history.flipped => history.inOrder /\ fresh
    BY <1>0, <2>3 DEF InInStep
  <2>. QED
    BY <2>2, <2>4, <2>5 DEF InInStep, InAgrees
<1>4. CASE \E heard \in BOOLEAN :
            /\ WrongToggle /\ TabletMovesOn(heard)
            /\ history' = [history EXCEPT !.flipped = @ \/ RCVTOG' # RCVTOG,
                                          !.inOrder = @ /\ ~(heard /\ fresh)]
  <2>1. PICK heard \in BOOLEAN :
            /\ WrongToggle /\ TabletMovesOn(heard)
            /\ history' = [history EXCEPT !.flipped = @ \/ RCVTOG' # RCVTOG,
                                          !.inOrder = @ /\ ~(heard /\ fresh)]
    BY <1>4
  <2>2. /\ history'.inInStep = history.inInStep
        /\ history'.flipped = (history.flipped \/ RCVTOG' # RCVTOG)
        /\ history'.inOrder = (history.inOrder /\ ~(heard /\ fresh))
    BY <1>1, <2>1 DEF History
  <2>3. /\ RCVTOG # offers /\ at' = "in" /\ done' = done
        /\ RCVTOG' = 1 - SNDTOG /\ bmRcvToggle' = 1 - SNDTOG
        /\ heard => offers' = 1 - offers /\ fresh' = TRUE
        /\ ~heard => offers' = offers /\ fresh' = (fresh /\ RCVTOG # offers)
    BY <1>0, <2>1 DEF WrongToggle, ToggleAfter, TabletMovesOn
  <2>4. ASSUME history'.inInStep, ~history'.flipped
        PROVE  history'.inOrder /\ ((RCVTOG' = offers') <=> fresh')
    <3>1. history.inInStep /\ ~history.flipped /\ RCVTOG' = RCVTOG
        BY <2>2, <2>4
    <3>2. history.inOrder /\ ~fresh
        BY <1>0, <2>3, <3>1 DEF InInStep
    <3>3. history'.inOrder
        BY <2>2, <3>2, Zenon
    <3>4. heard => RCVTOG' = offers' /\ fresh'
        BY <1>2, <2>3, <3>1
    <3>5. ~heard => RCVTOG' # offers' /\ ~fresh'
        BY <2>3, <3>1, <3>2
    <3>. QED
        BY <3>3, <3>4, <3>5, Zenon
  <2>. QED
    BY <2>3, <2>4 DEF InInStep
<1>5. CASE /\ \E r \in {"NAK", "TIMEOUT", "error"} :
                /\ rcode' = r
                /\ Count(r)
                /\ at' = IF late \/ GivesUp(r) THEN "idle" ELSE "in"
           /\ UNCHANGED <<RCVTOG, bmRcvToggle, offers, fresh, done, late, history>>
  <2>1. rcode' # "SUCCESS"
    BY <1>5
  <2>. QED
    BY <1>0, <1>5, <2>1 DEF InInStep, InAgrees
<1>. QED
    BY <1>3, <1>4, <1>5 DEF InTransaction

LEMMA InNext ==
    ASSUME TypeOK, InInStep, [Next]_vars
    PROVE  InInStep'
<1>1. CASE StartIn
  <2>1. /\ at' = "in" /\ RCVTOG' = bmRcvToggle /\ bmRcvToggle' = bmRcvToggle
        /\ offers' = offers /\ fresh' = fresh
    BY <1>1 DEF StartIn, tablet
  <2>2. /\ history'.inInStep = (history.inInStep /\ InAgrees)
        /\ history'.flipped = history.flipped /\ history'.inOrder = history.inOrder
    BY <1>1 DEF StartIn, TypeOK, History
  <2>. QED
    BY <2>1, <2>2 DEF InInStep, InAgrees
<1>2. CASE StartOut
  <2>1. at' = "out"
    BY <1>2 DEF StartOut
  <2>2. /\ history'.inInStep = history.inInStep
        /\ history'.flipped = history.flipped /\ history'.inOrder = history.inOrder
    BY <1>2 DEF StartOut, TypeOK, History
  <2>. QED
    BY <2>1, <2>2 DEF InInStep
<1>3. CASE OutTransaction
  <2>1. at' # "in"
    <3>1. PICK r \in Results : HostAfterOut(r) /\ at = "out"
        BY <1>3 DEF OutTransaction, Results
    <3>. QED
        BY <3>1 DEF HostAfterOut, NextOut, BreakOut, SendAgain
  <2>2. history' = history \/ history' = [history EXCEPT !.unheard = TRUE]
    BY <1>3 DEF OutTransaction
  <2>3. /\ history'.inInStep = history.inInStep
        /\ history'.flipped = history.flipped /\ history'.inOrder = history.inOrder
    BY <2>2 DEF TypeOK, History
  <2>. QED
    BY <2>1, <2>3 DEF InInStep
<1>4. CASE TimeIsUp
    BY <1>4 DEF TimeIsUp, InInStep, host, tablet
<1>5. CASE Reattach
    BY <1>5 DEF Reattach, InInStep
<1>6. CASE UNCHANGED vars
    BY <1>6 DEF vars, InInStep, host, tablet, counts
<1>. QED
    BY <1>1, <1>2, <1>3, <1>4, <1>5, <1>6, InStep DEF Next

LEMMA InInvariant == Spec => [](TypeOK /\ InProgress /\ InInStep)
<1>1. Init => TypeOK /\ InProgress /\ InInStep
    BY TypeInit, InInit
<1>2. TypeOK /\ InProgress /\ InInStep /\ [Next]_vars => (TypeOK /\ InProgress /\ InInStep)'
    BY TypeNext, InNext
<1>. QED
    BY <1>1, <1>2, PTL DEF Spec

(* The host neither takes a packet twice nor misses one, through any       *)
(* number of transfers and lost acknowledgements, as long as no hrTOGERR   *)
(* has set the receive toggle from the other direction's to another value. *)
THEOREM InIsReceivedOnce == Spec => []ReceivedOnce
<1>1. InInStep => ReceivedOnce
    BY DEF InInStep, ReceivedOnce
<1>. QED
    BY <1>1, InInvariant, PTL

(* When such an hrTOGERR comes, and that it is what puts the ends out of   *)
(* step: the exception of InIsReceivedOnce, for every number of packets.   *)
THEOREM FlipIsTheLoss == Spec => FlipPutsOutOfStep
<1>1. ASSUME TypeOK, InInStep, [Next]_vars,
             history.inInStep, ~history.flipped, history'.flipped
      PROVE  ~fresh /\ SNDTOG = RCVTOG /\ (RCVTOG' = offers' <=> ~fresh')
  <2>1. history \in History /\ fresh \in BOOLEAN
    BY <1>1 DEF TypeOK
  <2>2. InTransaction
    <3>1. CASE StartIn \/ StartOut
        BY <1>1, <2>1, <3>1 DEF StartIn, StartOut, History
    <3>2. CASE OutTransaction
        BY <1>1, <2>1, <3>2 DEF OutTransaction, History
    <3>3. CASE TimeIsUp \/ Reattach \/ UNCHANGED vars
        BY <1>1, <3>3 DEF TimeIsUp, Reattach, vars
    <3>. QED
        BY <1>1, <3>1, <3>2, <3>3 DEF Next
  <2>3. PICK heard \in BOOLEAN :
            /\ WrongToggle /\ TabletMovesOn(heard)
            /\ history'.flipped = (history.flipped \/ RCVTOG' # RCVTOG)
    BY <1>1, <2>1, <2>2 DEF InTransaction, Received, History
  <2>4. /\ RCVTOG # offers /\ RCVTOG' = 1 - SNDTOG /\ RCVTOG' # RCVTOG
        /\ heard => offers' = 1 - offers /\ fresh' = TRUE
        /\ ~heard => offers' = offers /\ fresh' = (fresh /\ RCVTOG # offers)
    BY <1>1, <2>3 DEF WrongToggle, ToggleAfter, TabletMovesOn
  <2>5. ~fresh
    BY <1>1, <2>2, <2>4 DEF InInStep, InTransaction
  <2>6. RCVTOG \in {0, 1} /\ offers \in {0, 1} /\ SNDTOG \in {0, 1}
    BY <1>1 DEF TypeOK, Toggle
  <2>7. SNDTOG = RCVTOG /\ RCVTOG' = offers
    BY <2>4, <2>6
  <2>8. CASE heard
    BY <2>4, <2>5, <2>6, <2>7, <2>8
  <2>9. CASE ~heard
    BY <2>4, <2>5, <2>7, <2>9
  <2>. QED
    BY <2>5, <2>7, <2>8, <2>9
<1>2. TypeOK /\ InProgress /\ InInStep /\ [Next]_vars =>
        [history.inInStep /\ ~history.flipped /\ history'.flipped =>
            /\ ~fresh /\ SNDTOG = RCVTOG
            /\ RCVTOG' = offers' <=> ~fresh']_vars
    BY <1>1
<1>. QED
    BY <1>2, InInvariant, PTL DEF Spec, FlipPutsOutOfStep

(* Only InTransaction ends an IN transfer.                                 *)
LEMMA InEnds ==
    ASSUME [Next]_vars, at = "in"
    PROVE  InTransaction \/ UNCHANGED at
BY DEF Next, StartOut, StartIn, OutTransaction, TimeIsUp, Reattach, vars, host, tablet, counts

(* A successful IN transfer leaves both ends in step for the next one, and *)
(* so does one that failed before it had received anything.                *)
THEOREM InTogglesKept == Spec => InStaysInStep
<1>1. TypeOK /\ InProgress /\ InInStep /\ [Next]_vars =>
        [at = "in" /\ at' = "idle" /\ history'.inInStep /\ ~history'.flipped
            /\ (rcode' = "SUCCESS" \/ done' = 0) => InAgrees']_vars
    BY InStep, InEnds
<1>. QED
    BY <1>1, InInvariant, PTL DEF Spec, InStaysInStep

-----------------------------------------------------------------------------
(* A transfer has a bounded number of transactions.                        *)

(* The transactions a transfer can still make: for each packet not dealt   *)
(* with, as many as its two limits allow.                                  *)
Pending ==
    IF at = "idle" THEN 0
    ELSE (size - done) * (nak_limit + RetryLimit) - nak_count - retry_count

(* Two products of the limits of a packet.                                 *)
LEMMA OnePacketLess ==
    ASSUME NEW n \in Nat \ {0}, NEW k \in Nat
    PROVE  /\ (n - 1) * k = n * k - k
           /\ n * k >= k
<1>1. (n - 1) * k = n * k - k
    OBVIOUS
<1>2. (n - 1) * k \in Nat
    OBVIOUS
<1>. QED
    BY <1>1, <1>2

LEMMA FewerPackets ==
    ASSUME NEW m \in Nat, NEW n \in Nat, m <= n, NEW k \in Nat
    PROVE  m * k <= n * k
<1>1. n * k = m * k + (n - m) * k
    OBVIOUS
<1>2. (n - m) * k \in Nat /\ m * k \in Nat
    OBVIOUS
<1>. QED
    BY <1>1, <1>2

(* In a transfer at least one is left, and dealing with the packet in      *)
(* flight gives up those that are left for it.                             *)
LEMMA PendingInTransfer ==
    ASSUME TypeOK, InProgress, at # "idle", nak_limit # 0
    PROVE  /\ Pending \in Nat /\ Pending > 0
           /\ (size - done - 1) * (nak_limit + RetryLimit) < Pending
           /\ Pending <= MaxPackets * (nak_limit + RetryLimit)
<1>. DEFINE n == size - done
            k == nak_limit + RetryLimit
<1>1. /\ n \in Nat \ {0} /\ k \in Nat /\ n <= MaxPackets
      /\ nak_count \in Nat /\ retry_count \in Nat /\ nak_count + retry_count < k
    BY DEF TypeOK, InProgress
<1>2. Pending = n * k - nak_count - retry_count
    BY DEF Pending
<1>. HIDE DEF n, k
<1>3. (n - 1) * k = n * k - k /\ n * k >= k /\ n * k \in Nat
    BY <1>1, OnePacketLess
<1>4. n * k <= MaxPackets * k /\ MaxPackets * k \in Nat
    BY <1>1, FewerPackets
<1>5. Pending \in Nat /\ Pending > 0 /\ (n - 1) * k < Pending /\ Pending <= MaxPackets * k
    BY <1>1, <1>2, <1>3, <1>4
<1>. QED
    BY <1>5 DEF n, k

LEMMA PendingRange ==
    TypeOK /\ InProgress =>
        (nak_limit # 0 => Pending \in 0 .. MaxPackets * (nak_limit + RetryLimit))
<1>. SUFFICES ASSUME TypeOK, InProgress, nak_limit # 0
              PROVE  Pending \in 0 .. MaxPackets * (nak_limit + RetryLimit)
    OBVIOUS
<1>1. nak_limit + RetryLimit \in Nat
    BY DEF TypeOK
<1>2. MaxPackets * (nak_limit + RetryLimit) \in Nat
    BY <1>1
<1>3. CASE at = "idle"
    BY <1>2, <1>3 DEF Pending
<1>4. CASE at # "idle"
    BY <1>2, <1>4, PendingInTransfer
<1>. QED
    BY <1>3, <1>4

(* The host has dealt with a packet, or a failure was counted against its  *)
(* limit, or the transfer is over.                                         *)
LEMMA PacketDone ==
    ASSUME TypeOK, InProgress, at # "idle", nak_limit # 0,
           done' = done + 1, ResetCounts, UNCHANGED <<size, nak_limit>>
    PROVE  Pending' < Pending
<1>1. Pending' = 0 \/ Pending' = (size - (done + 1)) * (nak_limit + RetryLimit) - 0 - 0
    BY DEF Pending, ResetCounts
<1>2. /\ size - (done + 1) = size - done - 1 /\ size - done - 1 \in Nat
      /\ nak_limit + RetryLimit \in Nat
    BY DEF TypeOK, InProgress
<1>. QED
    BY <1>1, <1>2, PendingInTransfer

LEMMA FailureCounted ==
    ASSUME TypeOK, InProgress, at # "idle", nak_limit # 0,
           NEW r \in {"NAK", "TIMEOUT", "error"}, ~GivesUp(r), Count(r),
           UNCHANGED <<size, done, nak_limit>>
    PROVE  Pending' < Pending
<1>. DEFINE p == (size - done) * (nak_limit + RetryLimit)
<1>1. /\ nak_count \in Nat /\ retry_count \in Nat /\ nak_count + 1 # NakCounts
      /\ size - done \in Nat /\ nak_limit + RetryLimit \in Nat
    BY DEF TypeOK, InProgress
<1>2. \/ nak_count' = nak_count + 1 /\ retry_count' = retry_count
      \/ nak_count' = nak_count /\ retry_count' = retry_count + 1
    BY <1>1 DEF GivesUp, Count, OneMoreNak
<1>3. Pending = p - nak_count - retry_count
    BY DEF Pending
<1>4. Pending' = 0 \/ Pending' = p - nak_count' - retry_count'
    BY DEF Pending
<1>5. p \in Nat /\ Pending > 0
    BY <1>1, PendingInTransfer
<1>. HIDE DEF p
<1>. QED
    BY <1>1, <1>2, <1>3, <1>4, <1>5

LEMMA PendingOut ==
    ASSUME TypeOK, InProgress, nak_limit # 0, OutTransaction
    PROVE  Pending' < Pending
<1>1. at # "idle" /\ UNCHANGED <<size, nak_limit>>
    BY DEF OutTransaction
<1>2. PICK r \in {"SUCCESS", "NAK", "TIMEOUT", "error"} : HostAfterOut(r)
    BY DEF OutTransaction
<1>3. CASE \E toggle : NextOut(r, toggle)
    BY <1>1, <1>3, PacketDone DEF NextOut
<1>4. CASE BreakOut(r)
  <2>1. Pending' = 0
    BY <1>4 DEF BreakOut, Pending
  <2>. QED
    BY <1>1, <2>1, PendingInTransfer
<1>5. CASE r # "SUCCESS" /\ ~GivesUp(r) /\ SendAgain(r)
    BY <1>1, <1>5, FailureCounted DEF SendAgain
<1>. QED
    BY <1>2, <1>3, <1>4, <1>5 DEF HostAfterOut

LEMMA PendingIn ==
    ASSUME TypeOK, InProgress, nak_limit # 0, InTransaction
    PROVE  Pending' < Pending \/ rcode' = "TOGERR"
<1>1. at # "idle" /\ UNCHANGED <<size, nak_limit>>
    BY DEF InTransaction
<1>2. CASE Received
    BY <1>1, <1>2, PacketDone DEF Received
<1>3. CASE WrongToggle
    BY <1>3 DEF WrongToggle
<1>4. ASSUME NEW r \in {"NAK", "TIMEOUT", "error"}, Count(r), UNCHANGED done,
             at' = IF late \/ GivesUp(r) THEN "idle" ELSE "in"
      PROVE  Pending' < Pending
  <2>1. CASE at' = "idle"
    <3>1. Pending' = 0
        BY <2>1 DEF Pending
    <3>. QED
        BY <1>1, <3>1, PendingInTransfer
  <2>2. CASE ~GivesUp(r)
    BY <1>1, <1>4, <2>2, FailureCounted
  <2>. QED
    BY <1>4, <2>1, <2>2
<1>. QED
    BY <1>2, <1>3, <1>4 DEF InTransaction

LEMMA PendingElsewhere ==
    ASSUME [Next]_vars, at # "idle", ~OutTransaction, ~InTransaction
    PROVE  Pending' = Pending
<1>1. UNCHANGED <<at, size, done, nak_limit, nak_count, retry_count>>
    BY DEF Next, StartOut, StartIn, TimeIsUp, Reattach, vars, counts
<1>. QED
    BY <1>1 DEF Pending

(* On an endpoint that counts its NAKs a transfer of n packets makes at    *)
(* most n * (nak_limit + RetryLimit) transactions, whatever the bus loses  *)
(* and in whatever order, without the time limit: only hrTOGERR, which     *)
(* resets the counts, can make an IN transfer longer (TransfersReturn      *)
(* needs the same exception).                                              *)
THEOREM TransfersBounded ==
    Spec => /\ [](nak_limit # 0 => Pending \in 0 .. MaxPackets * (nak_limit + RetryLimit))
            /\ [][ nak_limit # 0 =>
                    /\ OutTransaction => Pending' < Pending
                    /\ InTransaction => Pending' < Pending \/ rcode' = "TOGERR"
                    /\ at # "idle" /\ ~InTransaction => Pending' <= Pending ]_vars
<1>0. Spec => [](TypeOK /\ InProgress)
    BY OutInvariant, PTL
<1>1. TypeOK /\ InProgress =>
        (nak_limit # 0 => Pending \in 0 .. MaxPackets * (nak_limit + RetryLimit))
    BY PendingRange
<1>2. (TypeOK /\ InProgress =>
        (nak_limit # 0 => Pending \in 0 .. MaxPackets * (nak_limit + RetryLimit)))'
    BY <1>1, PTL
<1>3. ASSUME TypeOK /\ InProgress, (TypeOK /\ InProgress)', [Next]_vars
      PROVE  [ nak_limit # 0 =>
                /\ OutTransaction => Pending' < Pending
                /\ InTransaction => Pending' < Pending \/ rcode' = "TOGERR"
                /\ at # "idle" /\ ~InTransaction => Pending' <= Pending ]_vars
  <2>. SUFFICES ASSUME nak_limit # 0
                PROVE  /\ OutTransaction => Pending' < Pending
                       /\ InTransaction => Pending' < Pending \/ rcode' = "TOGERR"
                       /\ at # "idle" /\ ~InTransaction => Pending' <= Pending
    OBVIOUS
  <2>1. UNCHANGED nak_limit
    BY <1>3 DEF Next, StartOut, StartIn, OutTransaction, InTransaction, TimeIsUp, Reattach, vars
  <2>2. Pending \in Int /\ Pending' \in Int
    BY <1>1, <1>2, <1>3, <2>1
  <2>3. OutTransaction => Pending' < Pending
    BY <1>3, PendingOut
  <2>4. InTransaction => Pending' < Pending \/ rcode' = "TOGERR"
    BY <1>3, PendingIn
  <2>5. ~OutTransaction /\ ~InTransaction /\ at # "idle" => Pending' = Pending
    BY <1>3, PendingElsewhere
  <2>. QED
    BY <2>2, <2>3, <2>4, <2>5
<1>. QED
    BY <1>0, <1>1, <1>3, PTL DEF Spec
=============================================================================
