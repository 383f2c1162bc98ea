--------------------------- MODULE CampLoop_proofs --------------------------
(***************************************************************************)
(* Preemption and the shared telemetry buffer, for every cool-down, every  *)
(* stack depth and every watchdog limit.                                   *)
(***************************************************************************)
EXTENDS CampLoop, SequenceTheorems, TLAPS

USE LoopAssumption DEF LoopAssumption

Inv == TypeOK /\ LoopInv

(* The messages are sent in three steps each.                              *)
LEMMA Messages == Len(Message) = 3 /\ \A n \in 1 .. 3 : Message[n] \in Kinds
BY DEF Message, Kinds

(* What is left when the running routine returns.                          *)
LEMMA LeaveSeq ==
    ASSUME timers \in Seq(Routine), timers # <<>>, Leave
    PROVE  /\ timers' \in Seq(Routine)
           /\ Len(timers') = Len(timers) - 1
           /\ \A i \in 1 .. Len(timers') : timers'[i] = timers[i]
           /\ timers' # <<>> => Len(timers') \in 1 .. Len(timers) - 1
<1>1. Len(timers) \in Nat \ {0}
    BY EmptySeq
<1>2. \A i \in 1 .. Len(timers) - 1 : timers[i] \in Routine
    BY <1>1, ElementOfSeq
<1>. QED
    BY <1>1, <1>2 DEF Leave

(* What changes when the running routine moves on.                         *)
LEMMA ReplaceSeq ==
    ASSUME timers \in Seq(Routine), timers # <<>>, NEW r \in Routine, Replace(r)
    PROVE  /\ timers' \in Seq(Routine)
           /\ timers' # <<>>
           /\ Len(timers') = Len(timers)
           /\ Top' = r
           /\ \A i \in 1 .. Len(timers) - 1 : timers'[i] = timers[i]
BY DEF Replace, Top

(* A period that passes leaves every routine in place; waits get shorter.  *)
LEMMA WaitShortens ==
    ASSUME NEW r \in Routine, r.left > 0
    PROVE  LET q == [r EXCEPT !.left = @ - 1]
           IN  q \in Routine /\ q.at = r.at /\ q.msg = r.msg
BY DEF Routine

(* The updates of a routine's record stay records of a routine.            *)
LEMMA RoutineUpdates ==
    ASSUME NEW r \in Routine, NEW c \in Nat
    PROVE  /\ \A place \in {"build", "frame", "send", "heater"} :
                [r EXCEPT !.at = place] \in Routine
           /\ r.msg < Len(Message) => [r EXCEPT !.at = "build", !.msg = @ + 1] \in Routine
           /\ [r EXCEPT !.at = "cooldown", !.left = c] \in Routine
<1>1. /\ r = [at |-> r.at, msg |-> r.msg, left |-> r.left]
      /\ r.msg \in 1 .. 3 /\ r.left \in Nat
    BY Messages DEF Routine
<1>2. \A place \in {"build", "frame", "send", "heater"} : [r EXCEPT !.at = place] \in Routine
    BY <1>1 DEF Routine
<1>3. r.msg < Len(Message) => [r EXCEPT !.at = "build", !.msg = @ + 1] \in Routine
  <2>1. r.msg < Len(Message) => r.msg + 1 \in 1 .. Len(Message)
    BY <1>1, Messages
  <2>. QED
    BY <1>1, <2>1 DEF Routine
<1>4. [r EXCEPT !.at = "cooldown", !.left = c] \in Routine
    BY <1>1 DEF Routine
<1>. QED
    BY <1>2, <1>3, <1>4

(* The running routine is one of the recorded ones.                        *)
LEMMA TopIsRoutine ==
    ASSUME timers \in Seq(Routine), timers # <<>>
    PROVE  Len(timers) \in Nat \ {0} /\ Top \in Routine
BY DEF Top

-----------------------------------------------------------------------------

(* After the start no routine runs and nothing was sent.                   *)
LEMMA InitInv == Init => Inv
<1>. SUFFICES ASSUME Init PROVE Inv
    OBVIOUS
<1>. USE DEF Init
<1>1. TypeOK
  <2>1. /\ enabled \in BOOLEAN /\ pending \in BOOLEAN
        /\ needHeaterOn \in BOOLEAN /\ crashed \in BOOLEAN
    OBVIOUS
  <2>2. timers \in Seq(Routine) /\ Len(timers) <= MaxDepth
    BY EmptySeq
  <2>. QED
    BY <2>1, <2>2 DEF TypeOK, Contents
<1>2. LoopInv
    BY DEF LoopInv, NestedOnlyInCooldown, TimerTelemetryIntact
<1>. QED
    BY <1>1, <1>2 DEF Inv

(* A pass of the main loop changes no timer routine.                       *)
LEMMA MainStep == Inv /\ Main => Inv'
<1>. SUFFICES ASSUME Inv, Main PROVE Inv'
    OBVIOUS
<1>. USE DEF Inv, TypeOK, MainRuns, Unchanged
<1>1. timers = <<>> /\ timers' = <<>>
    BY DEF Main, StartPass, NoCommand, KeepAlive, FrameReply, SendReply, OtherCommand, EndPass
<1>2. TypeOK'
  <2>1. CASE StartPass \/ NoCommand \/ EndPass
    BY <2>1 DEF StartPass, NoCommand, EndPass
  <2>2. CASE KeepAlive
    BY <2>2 DEF KeepAlive, Contents, Kinds
  <2>3. CASE FrameReply
    BY <2>3 DEF FrameReply, Framed, Contents, Kinds
  <2>4. CASE SendReply
    BY <2>4 DEF SendReply, Transmit, Kinds
  <2>5. CASE OtherCommand
    BY <2>5 DEF OtherCommand
  <2>. QED
    BY <2>1, <2>2, <2>3, <2>4, <2>5 DEF Main
<1>3. TimerTelemetryIntact'
    BY DEF Main, StartPass, NoCommand, KeepAlive, FrameReply, SendReply, OtherCommand, EndPass,
           LoopInv, TimerTelemetryIntact, Intact, Transmit, Nothing
<1>4. Len(timers') = 0
    BY <1>1
<1>. QED
    BY <1>1, <1>2, <1>3, <1>4 DEF LoopInv, NestedOnlyInCooldown

-----------------------------------------------------------------------------

(* A period passes only in the main loop or in a wait.                     *)
LEMMA PeriodStep == Inv /\ PeriodPasses => Inv'
<1>. SUFFICES ASSUME Inv, PeriodPasses PROVE Inv'
    OBVIOUS
<1>. USE DEF Inv, TypeOK, PeriodPasses, Elapse
<1>. DEFINE next(i) == IF enabled /\ timers[i].at = "cooldown" /\ timers[i].left > 0
                         THEN [timers[i] EXCEPT !.left = @ - 1] ELSE timers[i]
<1>1. Len(timers) \in Nat /\ DOMAIN timers = 1 .. Len(timers)
    BY LenProperties
<1>2. \A i \in 1 .. Len(timers) :
         next(i) \in Routine /\ next(i).at = timers[i].at /\ next(i).msg = timers[i].msg
    BY <1>1, ElementOfSeq, WaitShortens
<1>3. timers' = [i \in 1 .. Len(timers) |-> next(i)]
    BY <1>1
<1>4. timers' \in Seq(Routine) /\ Len(timers') = Len(timers)
    BY <1>1, <1>2, <1>3
<1>5. TypeOK'
    BY <1>4
<1>6. \A i \in 1 .. Len(timers) :
         timers'[i].at = timers[i].at /\ timers'[i].msg = timers[i].msg
    BY <1>2, <1>3
<1>7. NestedOnlyInCooldown'
    BY <1>1, <1>4, <1>6 DEF LoopInv, NestedOnlyInCooldown
<1>8. TimerTelemetryIntact'
    BY DEF LoopInv, TimerTelemetryIntact, Intact
<1>9. timers' # <<>> => timers # <<>>
    BY <1>1, <1>4, EmptySeq
<1>10. timers' # <<>> => Len(timers) \in 1 .. Len(timers)
    BY <1>9, EmptySeq
<1>11. timers' # <<>> => Top'.at = Top.at /\ Top'.msg = Top.msg
    BY <1>4, <1>6, <1>10 DEF Top
<1>12. timers # <<>> => Top.at = "cooldown"
    BY DEF Running
<1>. QED
    BY <1>4, <1>5, <1>6, <1>7, <1>8, <1>9, <1>11, <1>12 DEF LoopInv

(* The interrupt is taken in the main loop or in a wait.                   *)
LEMMA InterruptStep == Inv /\ Interrupt => Inv'
<1>. SUFFICES ASSUME Inv, Interrupt PROVE Inv'
    OBVIOUS
<1>. USE DEF Inv, TypeOK, Interrupt, Interrupted
<1>1. CASE Len(timers) = MaxDepth
    BY <1>1 DEF LoopInv, NestedOnlyInCooldown, TimerTelemetryIntact, Intact, Top
<1>2. CASE Len(timers) # MaxDepth
  <2>. DEFINE r == [at |-> "sensors", msg |-> 1, left |-> 0]
  <2>a. 1 \in 1 .. Len(Message)
    BY Messages
  <2>b. r \in Routine
    BY <2>a DEF Routine
  <2>1. r \in Routine /\ timers' = Append(timers, r)
    BY <1>2, <2>b
  <2>2. /\ Len(timers) \in Nat
        /\ timers' \in Seq(Routine) /\ Len(timers') = Len(timers) + 1
        /\ Top' = r
        /\ \A i \in 1 .. Len(timers) : timers'[i] = timers[i]
    BY <2>1, LenProperties DEF Top
  <2>3. TypeOK'
    <3>1. timers' \in Seq(Routine) /\ Len(timers') <= MaxDepth
      BY <1>2, <2>2
    <3>2. enabled' = FALSE /\ pending' = FALSE /\ crashed' = crashed
      BY <1>2
    <3>3. enabled' \in BOOLEAN /\ pending' \in BOOLEAN /\ crashed' \in BOOLEAN
      BY <3>2
    <3>. QED
      BY <3>1, <3>3
  <2>4. \A i \in 1 .. Len(timers) : timers[i].at = "cooldown"
    BY <2>2 DEF LoopInv, NestedOnlyInCooldown, Top
  <2>5. NestedOnlyInCooldown'
    BY <2>2, <2>4 DEF NestedOnlyInCooldown
  <2>6. TimerTelemetryIntact'
    BY <1>2 DEF LoopInv, TimerTelemetryIntact, Intact
  <2>7. ~pending' /\ ~enabled' /\ Top'.at = "sensors"
    BY <1>2, <2>2
  <2>8. \A i \in 1 .. Len(timers') : timers'[i].at = "cooldown" => ~needHeaterOn'
    <3>1. timers'[Len(timers')].at = "sensors"
      BY <2>7 DEF Top
    <3>. QED
      BY <2>2, <3>1 DEF LoopInv
  <2>. QED
    BY <2>3, <2>5, <2>6, <2>7, <2>8 DEF LoopInv
<1>. QED
    BY <1>1, <1>2

(* The running routine moves on to another place than the wait.            *)
LEMMA AdvanceStep ==
    ASSUME Inv, timers # <<>>, Top.at # "cooldown",
           NEW r \in Routine, Replace(r), r.at \in {"build", "frame", "send", "heater"},
           r.at = "frame" => txBuffer' = Payload(Message[r.msg]),
           r.at = "send" => txBuffer' = Frame(Message[r.msg]),
           enabled' = TRUE,
           txBuffer' \in Contents,
           sent' \in {Nothing} \cup [by : {"main", "timer"}, kind : Kinds, bytes : Contents],
           TimerTelemetryIntact',
           UNCHANGED <<main, pending, needHeaterOn, watchdog, coolDown, crashed>>
    PROVE  Inv'
<1>. USE DEF Inv
<1>1. timers \in Seq(Routine) /\ Len(timers) \in Nat \ {0}
    BY TopIsRoutine DEF TypeOK
<1>2. /\ timers' \in Seq(Routine) /\ timers' # <<>> /\ Len(timers') = Len(timers)
      /\ Top' = r
      /\ \A i \in 1 .. Len(timers) - 1 : timers'[i] = timers[i]
    BY <1>1, ReplaceSeq
<1>3. TypeOK'
  <2>1. enabled' \in BOOLEAN
    OBVIOUS
  <2>. QED
    BY <1>2, <2>1 DEF TypeOK
<1>4. NestedOnlyInCooldown'
    BY <1>1, <1>2 DEF LoopInv, NestedOnlyInCooldown
<1>5. ~pending' /\ enabled'
    BY DEF LoopInv, TypeOK
<1>6. \A i \in 1 .. Len(timers') : timers'[i].at = "cooldown" => ~needHeaterOn'
  <2>1. timers'[Len(timers')].at # "cooldown"
    BY <1>2 DEF Top
  <2>. QED
    BY <1>1, <1>2, <2>1 DEF LoopInv
<1>. QED
    BY <1>2, <1>3, <1>4, <1>5, <1>6 DEF LoopInv

(* Sensors and telemetry: the running routine alone uses the buffer.       *)
LEMMA RoutineStep ==
    ASSUME Inv, ReadSensors \/ BuildMessage \/ FrameMessage \/ SendMessage
    PROVE  Inv'
<1>. USE DEF Rest
<1>1. timers # <<>> /\ Top \in Routine /\ TypeOK /\ TimerTelemetryIntact
    BY TopIsRoutine DEF ReadSensors, BuildMessage, FrameMessage, SendMessage, Running,
                        Inv, TypeOK, LoopInv
<1>2. Top.msg \in 1 .. 3 /\ Message[Top.msg] \in Kinds /\ Len(Message) = 3
    BY <1>1, Messages DEF Routine
<1>3. CASE ReadSensors
  <2>. DEFINE r == [Top EXCEPT !.at = "build"]
  <2>1. r \in Routine /\ r.at = "build"
    BY <1>1 DEF Routine
  <2>2. Replace(r) /\ enabled' = TRUE
    BY <1>3 DEF ReadSensors
  <2>3. txBuffer' = txBuffer /\ sent' = sent /\ Top.at # "cooldown"
    BY <1>3 DEF ReadSensors, Running
  <2>4. TimerTelemetryIntact'
    BY <1>1, <2>3 DEF TimerTelemetryIntact, Intact
  <2>5. /\ txBuffer' \in Contents
        /\ sent' \in {Nothing} \cup [by : {"main", "timer"}, kind : Kinds, bytes : Contents]
    BY <1>1, <2>3 DEF TypeOK
  <2>6. UNCHANGED <<main, pending, needHeaterOn, watchdog, coolDown, crashed>>
    BY <1>3 DEF ReadSensors
  <2>. HIDE DEF r
  <2>. QED
    BY <1>1, <2>1, <2>2, <2>3, <2>4, <2>5, <2>6, AdvanceStep
<1>4. CASE BuildMessage
  <2>. DEFINE r == [Top EXCEPT !.at = "frame"]
  <2>1. r \in Routine /\ r.at = "frame" /\ r.msg = Top.msg
    BY <1>1 DEF Routine
  <2>2. enabled' = TRUE
    BY <1>1, <1>4 DEF Inv, LoopInv, BuildMessage, Running, TypeOK
  <2>3. txBuffer' = Payload(Message[r.msg]) /\ txBuffer' \in Contents
    BY <1>2, <1>4, <2>1 DEF BuildMessage, Contents
  <2>. QED
    BY <1>1, <1>4, <2>1, <2>2, <2>3, AdvanceStep
    DEF BuildMessage, Running, TypeOK, TimerTelemetryIntact, Intact
<1>5. CASE FrameMessage
  <2>. DEFINE r == [Top EXCEPT !.at = "send"]
  <2>1. r \in Routine /\ r.at = "send" /\ r.msg = Top.msg
    BY <1>1 DEF Routine
  <2>2. enabled' = TRUE /\ txBuffer = Payload(Message[Top.msg])
    BY <1>1, <1>5 DEF Inv, LoopInv, FrameMessage, Running, TypeOK
  <2>3. txBuffer' = Frame(Message[r.msg]) /\ txBuffer' \in Contents
    BY <1>2, <1>5, <2>1, <2>2 DEF FrameMessage, Framed, Contents
  <2>. QED
    BY <1>1, <1>5, <2>1, <2>2, <2>3, AdvanceStep
    DEF FrameMessage, Running, TypeOK, TimerTelemetryIntact, Intact
<1>6. CASE SendMessage
  <2>. DEFINE r == IF Top.msg < Len(Message)
                     THEN [Top EXCEPT !.at = "build", !.msg = @ + 1]
                     ELSE [Top EXCEPT !.at = "heater"]
  <2>1. r \in Routine /\ r.at \in {"build", "heater"}
    <3>1. CASE Top.msg < Len(Message)
      BY <1>1, <3>1, RoutineUpdates DEF Routine
    <3>2. CASE ~(Top.msg < Len(Message))
      BY <1>1, <3>2, RoutineUpdates DEF Routine
    <3>. QED
      BY <3>1, <3>2
  <2>2. enabled' = TRUE /\ txBuffer = Frame(Message[Top.msg])
    BY <1>1, <1>6 DEF Inv, LoopInv, SendMessage, Running, TypeOK
  <2>3. sent' = [by |-> "timer", kind |-> Message[Top.msg], bytes |-> txBuffer]
    BY <1>6 DEF SendMessage, Transmit
  <2>4. TimerTelemetryIntact'
    BY <2>2, <2>3 DEF TimerTelemetryIntact, Intact
  <2>5. sent' \in [by : {"main", "timer"}, kind : Kinds, bytes : Contents]
    BY <1>1, <1>2, <2>3 DEF TypeOK
  <2>. QED
    BY <1>1, <1>6, <2>1, <2>2, <2>4, <2>5, AdvanceStep
    DEF SendMessage, Running, TypeOK
<1>. QED
    BY <1>3, <1>4, <1>5, <1>6

(* The running routine returns; what it preempted was in the wait.         *)
LEMMA FinishStep ==
    ASSUME Inv, timers # <<>>, Finish, UNCHANGED <<main, pending, txBuffer, sent, needHeaterOn, coolDown, crashed>>
    PROVE  Inv'
<1>. USE DEF Inv, Finish
<1>1. /\ timers' \in Seq(Routine)
      /\ Len(timers') = Len(timers) - 1
      /\ \A i \in 1 .. Len(timers') : timers'[i] = timers[i]
      /\ timers' # <<>> => Len(timers') \in 1 .. Len(timers) - 1
    BY LeaveSeq DEF TypeOK
<1>2. Len(timers) \in Nat \ {0}
    BY TopIsRoutine DEF TypeOK
<1>3. TypeOK'
  <2>1. enabled' \in BOOLEAN /\ watchdog' \in 0 .. WatchdogMax
    BY DEF TypeOK
  <2>. QED
    BY <1>1, <1>2, <2>1 DEF TypeOK
<1>4. \A i \in 1 .. Len(timers') : timers'[i].at = "cooldown"
    BY <1>1, <1>2 DEF LoopInv, NestedOnlyInCooldown
<1>5. NestedOnlyInCooldown'
    BY <1>1, <1>2, <1>4 DEF NestedOnlyInCooldown
<1>6. timers' # <<>> => Top'.at = "cooldown"
    BY <1>1, <1>2, <1>4 DEF Top
<1>7. TimerTelemetryIntact'
    BY DEF LoopInv, TimerTelemetryIntact, Intact
<1>8. \A i \in 1 .. Len(timers') : timers'[i].at = "cooldown" => ~needHeaterOn'
    BY <1>1, <1>2 DEF LoopInv
<1>. QED
    BY <1>3, <1>5, <1>6, <1>7, <1>8 DEF LoopInv

(* handleHeater: the routine returns, or waits if no heat is asked for.    *)
LEMMA HeaterStep ==
    ASSUME Inv, HeaterStarts \/ HeaterStops \/ CooledDown
    PROVE  Inv'
<1>. USE DEF Rest
<1>1. CASE HeaterStarts \/ CooledDown
    BY <1>1, FinishStep DEF HeaterStarts, CooledDown, Running
<1>2. CASE HeaterStops
  <2>. USE DEF Inv
  <2>. DEFINE r == [Top EXCEPT !.at = "cooldown", !.left = coolDown]
  <2>1. timers # <<>> /\ timers \in Seq(Routine) /\ Top \in Routine /\ Len(timers) \in Nat \ {0}
    BY <1>2, TopIsRoutine DEF HeaterStops, Running, TypeOK
  <2>2. r \in Routine /\ r.at = "cooldown"
    <3>1. coolDown \in Nat
      BY LoopAssumption DEF TypeOK, LoopAssumption
    <3>. QED
      BY <2>1, <3>1, RoutineUpdates DEF Routine
  <2>3. /\ timers' \in Seq(Routine) /\ timers' # <<>> /\ Len(timers') = Len(timers)
        /\ Top' = r
        /\ \A i \in 1 .. Len(timers) - 1 : timers'[i] = timers[i]
    BY <1>2, <2>1, <2>2, ReplaceSeq DEF HeaterStops
  <2>4. TypeOK'
    BY <1>2, <2>3 DEF TypeOK, HeaterStops
  <2>5. NestedOnlyInCooldown'
    BY <2>1, <2>3 DEF LoopInv, NestedOnlyInCooldown
  <2>6. enabled' /\ ~needHeaterOn'
    BY <1>2, <2>1 DEF HeaterStops, LoopInv, Running, TypeOK
  <2>7. TimerTelemetryIntact'
    BY <1>2 DEF HeaterStops, LoopInv, TimerTelemetryIntact, Intact
  <2>. QED
    BY <2>2, <2>3, <2>4, <2>5, <2>6, <2>7 DEF LoopInv
<1>. QED
    BY <1>1, <1>2

(* Every step of either activity preserves the invariant.                  *)
LEMMA StepInv == Inv /\ [Next]_vars => Inv'
<1>. SUFFICES ASSUME Inv, [Next]_vars PROVE Inv'
    OBVIOUS
<1>1. CASE UNCHANGED vars
    BY <1>1 DEF vars, Inv, TypeOK, LoopInv, NestedOnlyInCooldown, TimerTelemetryIntact, Intact, Top
<1>2. CASE Main
    BY <1>2, MainStep
<1>3. CASE PeriodPasses \/ Interrupt
    BY <1>3, PeriodStep, InterruptStep
<1>4. CASE Timer
    BY <1>4, RoutineStep, HeaterStep DEF Timer
<1>. QED
    BY <1>1, <1>2, <1>3, <1>4 DEF Next

(* Types, interrupt flags, nesting and buffer stay as described, always.   *)
THEOREM LoopInvariant == Spec => [](TypeOK /\ LoopInv)
<1>1. Spec => []Inv
    BY InitInv, StepInv, PTL DEF Spec
<1>. QED
    BY <1>1 DEF Inv

(* The telemetry of the timer routine is never damaged by a preemption.    *)
THEOREM TimerTelemetry == Spec => []TimerTelemetryIntact
<1>1. Inv => TimerTelemetryIntact
    BY DEF Inv, LoopInv
<1>. QED
    BY <1>1, LoopInvariant, PTL DEF Inv

(* While heat is asked for, the timer routine is never re-entered.         *)
THEOREM HeatingNesting == Spec => []HeatingDoesNotNest
<1>1. Inv => HeatingDoesNotNest
  <2>. SUFFICES ASSUME Inv, needHeaterOn, ~(Len(timers) <= 1) PROVE FALSE
    BY DEF HeatingDoesNotNest
  <2>1. Len(timers) \in Nat
    BY LenProperties DEF Inv, TypeOK
  <2>2. 1 \in 1 .. Len(timers) - 1
    BY <2>1
  <2>. QED
    BY <2>1, <2>2 DEF Inv, LoopInv, NestedOnlyInCooldown
<1>. QED
    BY <1>1, LoopInvariant, PTL DEF Inv

(* The variables of the loop and its routines keep their types: the stack  *)
(* has its bound and the watchdog wraps.                                   *)
THEOREM LoopTypes == Spec => []TypeOK
<1>1. Inv => TypeOK
    BY DEF Inv
<1>. QED
    BY <1>1, LoopInvariant, PTL DEF Inv

-----------------------------------------------------------------------------
(* The wait inside the timer routine never ends.                           *)

(* A routine that waits, on top of the stack, is not over its time unless  *)
(* the interrupt that the last period raised is about to preempt it.       *)
WaitInv ==
    coolDown > 0 /\ timers # <<>> /\ Top.at = "cooldown" => Top.left > 0 \/ pending

(* The first routine on the stack is in the wait of stopWebasto.           *)
Waiting == timers # <<>> /\ timers[1].at = "cooldown"

(* Such a routine cannot be found cooled down.                             *)
LEMMA NeverCooledDown ==
    ASSUME Inv, WaitInv, coolDown > 0
    PROVE  ~CooledDown
<1>. SUFFICES ASSUME CooledDown PROVE FALSE
    OBVIOUS
<1>1. timers # <<>> /\ Top.at = "cooldown" /\ Top.left = 0 /\ ~(pending /\ enabled)
    BY DEF CooledDown, Running, Interrupted
<1>2. enabled
    BY <1>1 DEF Inv, LoopInv
<1>. QED
    BY <1>1, <1>2 DEF WaitInv

(* A stack of more than one routine has one that is not the running one.   *)
LEMMA OneBelow ==
    \A n \in Nat \ {0} : n # 1 => 1 \in 1 .. n - 1 /\ 1 \in 1 .. n
OBVIOUS

(* A routine that goes on to heat has no other below it, nor a wait.       *)
LEMMA HeatingIsAlone ==
    ASSUME Inv, HeaterStarts
    PROVE  Len(timers) = 1 /\ timers' = <<>> /\ ~Waiting
<1>1. timers \in Seq(Routine) /\ timers # <<>> /\ needHeaterOn /\ Leave /\ Top.at = "heater"
    BY DEF Inv, TypeOK, HeaterStarts, Running, Finish
<1>2. Len(timers) \in Nat \ {0}
    BY <1>1, TopIsRoutine
<1>3. Len(timers) = 1
  <2>1. Len(timers) # 1 => 1 \in 1 .. Len(timers) - 1 /\ 1 \in 1 .. Len(timers)
    BY <1>2, OneBelow
  <2>. QED
    BY <1>1, <2>1 DEF Inv, LoopInv, NestedOnlyInCooldown
<1>4. timers' = <<>>
    BY <1>1, <1>3, LeaveSeq, EmptySeq
<1>. QED
    BY <1>1, <1>3, <1>4 DEF Waiting, Top

(* A routine in another place moves on, and those below it stay.           *)
LEMMA AboveTheWait ==
    ASSUME Inv, timers # <<>>, Top.at # "cooldown", NEW r \in Routine, Replace(r)
    PROVE  Len(timers') = Len(timers) /\ Top' = r /\ (Waiting => Waiting')
<1>1. timers \in Seq(Routine) /\ Len(timers) \in Nat \ {0}
    BY TopIsRoutine DEF Inv, TypeOK
<1>2. /\ timers' # <<>> /\ Len(timers') = Len(timers) /\ Top' = r
      /\ \A i \in 1 .. Len(timers) - 1 : timers'[i] = timers[i]
    BY <1>1, ReplaceSeq
<1>3. Waiting => 1 \in 1 .. Len(timers) - 1
    BY <1>1 DEF Waiting, Top
<1>. QED
    BY <1>2, <1>3 DEF Waiting

(* The steps of a routine outside the wait replace it by another place.    *)
LEMMA TimerReplaces ==
    ASSUME Inv, ReadSensors \/ BuildMessage \/ FrameMessage \/ SendMessage \/ HeaterStops
    PROVE  /\ timers # <<>> /\ Top.at # "cooldown"
           /\ UNCHANGED <<main, needHeaterOn, coolDown>>
           /\ \E r \in Routine :
                Replace(r) /\ (r.at = "cooldown" => r.left = coolDown)
<1>1. timers # <<>> /\ Top \in Routine /\ Top.at # "cooldown" /\ coolDown \in Nat
    BY TopIsRoutine DEF ReadSensors, BuildMessage, FrameMessage, SendMessage, HeaterStops,
                        Running, Inv, TypeOK
<1>2. UNCHANGED <<main, needHeaterOn, coolDown>>
    BY DEF ReadSensors, BuildMessage, FrameMessage, SendMessage, HeaterStops, Rest
<1>3. \A p \in {"build", "frame", "send", "heater"} :
        [Top EXCEPT !.at = p] \in Routine /\ [Top EXCEPT !.at = p].at = p
    BY <1>1 DEF Routine
<1>4. CASE ReadSensors \/ BuildMessage \/ FrameMessage
    BY <1>1, <1>2, <1>3, <1>4 DEF ReadSensors, BuildMessage, FrameMessage
<1>5. CASE SendMessage
  <2>. DEFINE r == IF Top.msg < Len(Message)
                     THEN [Top EXCEPT !.at = "build", !.msg = @ + 1]
                     ELSE [Top EXCEPT !.at = "heater"]
  <2>1. r \in Routine /\ r.at \in {"build", "heater"}
    <3>1. CASE Top.msg < Len(Message)
      BY <1>1, <3>1, RoutineUpdates DEF Routine
    <3>2. CASE ~(Top.msg < Len(Message))
      BY <1>1, <3>2, RoutineUpdates DEF Routine
    <3>. QED
      BY <3>1, <3>2
  <2>2. Replace(r)
    BY <1>5 DEF SendMessage
  <2>. HIDE DEF r
  <2>. QED
    BY <1>1, <1>2, <2>1, <2>2
<1>6. CASE HeaterStops
  <2>. DEFINE r == [Top EXCEPT !.at = "cooldown", !.left = coolDown]
  <2>1. r \in Routine /\ r.left = coolDown
    BY <1>1 DEF Routine
  <2>2. Replace(r)
    BY <1>6 DEF HeaterStops
  <2>. HIDE DEF r
  <2>. QED
    BY <1>1, <1>2, <2>1, <2>2
<1>. QED
    BY <1>4, <1>5, <1>6

(* A period that ends raises the interrupt; the interrupt adds a routine.  *)
LEMMA PeriodOrInterrupt ==
    ASSUME Inv, WaitInv, PeriodPasses \/ Interrupt
    PROVE  /\ WaitInv'
           /\ Waiting => /\ Waiting' /\ UNCHANGED <<main, needHeaterOn>>
                         /\ Len(timers') >= Len(timers)
<1>0. timers \in Seq(Routine) /\ Len(timers) \in Nat /\ DOMAIN timers = 1 .. Len(timers)
    BY LenProperties DEF Inv, TypeOK
<1>1. CASE PeriodPasses
  <2>. DEFINE next(i) == IF enabled /\ timers[i].at = "cooldown" /\ timers[i].left > 0
                           THEN [timers[i] EXCEPT !.left = @ - 1] ELSE timers[i]
  <2>1. \A i \in 1 .. Len(timers) : next(i) \in Routine /\ next(i).at = timers[i].at
    BY <1>0, ElementOfSeq, WaitShortens
  <2>2. /\ timers' = [i \in 1 .. Len(timers) |-> next(i)]
        /\ pending' = TRUE /\ UNCHANGED <<main, needHeaterOn>>
    BY <1>0, <1>1 DEF PeriodPasses, Elapse
  <2>. HIDE DEF next
  <2>3. timers' \in Seq(Routine) /\ Len(timers') = Len(timers)
    BY <1>0, <2>1, <2>2
  <2>4. Waiting => 1 \in 1 .. Len(timers) /\ timers' # <<>>
    BY <1>0, <2>3, EmptySeq DEF Waiting
  <2>. QED
    BY <1>0, <2>1, <2>2, <2>3, <2>4 DEF WaitInv, Waiting
<1>2. CASE Interrupt /\ Len(timers) = MaxDepth
  <2>1. UNCHANGED <<timers, pending, coolDown, main, needHeaterOn>>
    BY <1>2 DEF Interrupt
  <2>. QED
    BY <1>0, <2>1 DEF WaitInv, Waiting, Top
<1>3. CASE Interrupt /\ Len(timers) # MaxDepth
  <2>. DEFINE r == [at |-> "sensors", msg |-> 1, left |-> 0]
  <2>1. timers' = Append(timers, r) /\ UNCHANGED <<main, needHeaterOn>>
    BY <1>3 DEF Interrupt
  <2>2. r \in Routine /\ r.at = "sensors"
    BY Messages DEF Routine
  <2>. HIDE DEF r
  <2>3. /\ timers' \in Seq(Routine) /\ Len(timers') = Len(timers) + 1 /\ Top' = r
        /\ \A i \in 1 .. Len(timers) : timers'[i] = timers[i]
    BY <1>0, <2>1, <2>2, LenProperties DEF Top
  <2>4. Waiting => 1 \in 1 .. Len(timers) /\ timers' # <<>>
    BY <1>0, <2>3, EmptySeq DEF Waiting
  <2>. QED
    BY <1>0, <2>1, <2>2, <2>3, <2>4 DEF WaitInv, Waiting
<1>. QED
    BY <1>1, <1>2, <1>3

LEMMA WaitStep ==
    ASSUME Inv, WaitInv, [Next]_vars
    PROVE  /\ WaitInv'
           /\ coolDown > 0 /\ Waiting =>
                /\ Waiting' /\ UNCHANGED <<main, needHeaterOn>>
                /\ Len(timers') >= Len(timers)
<1>0. Len(timers) \in Nat /\ coolDown \in Nat
    BY LenProperties DEF Inv, TypeOK
<1>1. CASE Main
  <2>1. timers = <<>> /\ timers' = <<>>
    BY <1>1 DEF Main, StartPass, NoCommand, KeepAlive, FrameReply, SendReply, OtherCommand,
                EndPass, MainRuns, Unchanged
  <2>. QED
    BY <2>1 DEF WaitInv, Waiting
<1>2. CASE PeriodPasses \/ Interrupt
    BY <1>2, PeriodOrInterrupt
<1>3. CASE ReadSensors \/ BuildMessage \/ FrameMessage \/ SendMessage \/ HeaterStops
  <2>1. PICK r \in Routine : Replace(r) /\ (r.at = "cooldown" => r.left = coolDown)
    BY <1>3, TimerReplaces
  <2>2. /\ timers # <<>> /\ Top.at # "cooldown"
        /\ UNCHANGED <<main, needHeaterOn, coolDown>>
    BY <1>3, TimerReplaces
  <2>3. Len(timers') = Len(timers) /\ Top' = r /\ (Waiting => Waiting')
    BY <2>1, <2>2, AboveTheWait
  <2>. QED
    BY <1>0, <2>1, <2>2, <2>3 DEF WaitInv
<1>4. CASE HeaterStarts
    BY <1>4, HeatingIsAlone DEF WaitInv
<1>5. CASE CooledDown
  <2>1. ~(coolDown > 0) /\ coolDown' = coolDown
    BY <1>5, NeverCooledDown DEF CooledDown, Rest
  <2>. QED
    BY <2>1 DEF WaitInv
<1>6. CASE UNCHANGED vars
    BY <1>0, <1>6 DEF vars, WaitInv, Waiting, Top
<1>. QED
    BY <1>1, <1>2, <1>3, <1>4, <1>5, <1>6 DEF Next, Timer

(* Once stopWebasto waits inside the timer routine, for at least the end   *)
(* of one Timer1 period, that wait never ends: every period adds a routine *)
(* on top of it until the stack is full, none ever returns, and the main   *)
(* loop does not run again, so no telecommand can ask for heat either.     *)
(* This is the counterexample of TimerReturns for every cool-down and      *)
(* every depth of the stack.                                               *)
THEOREM WaitNeverEnds ==
    Spec => [][ coolDown > 0 /\ Waiting =>
                 /\ Waiting' /\ UNCHANGED <<main, needHeaterOn>>
                 /\ Len(timers') >= Len(timers) ]_vars
<1>1. Init => WaitInv
    BY DEF Init, WaitInv
<1>2. Inv /\ WaitInv /\ [Next]_vars =>
        [ coolDown > 0 /\ Waiting =>
            /\ Waiting' /\ UNCHANGED <<main, needHeaterOn>>
            /\ Len(timers') >= Len(timers) ]_vars
    BY WaitStep
<1>3. Spec => [](Inv /\ WaitInv)
    BY <1>1, InitInv, StepInv, WaitStep, PTL DEF Spec
<1>. QED
    BY <1>2, <1>3, PTL DEF Spec

-----------------------------------------------------------------------------
(* With heat asked for, the timer routine comes to its end.                *)

(* The steps a routine still takes: three for each message, the sensors    *)
(* before them and handleHeater behind.                                    *)
RoutineLeft(r) ==
    CASE r.at = "sensors" -> 11
      [] r.at = "build" -> 3 * (3 - r.msg) + 4
      [] r.at = "frame" -> 3 * (3 - r.msg) + 3
      [] r.at = "send" -> 3 * (3 - r.msg) + 2
      [] r.at = "heater" -> 1
      [] OTHER -> 0

LEMMA RoutineLeftRange ==
    ASSUME NEW r \in Routine, r.at # "cooldown"
    PROVE  RoutineLeft(r) \in 1 .. 11
<1>1. r.msg \in 1 .. 3
    BY Messages DEF Routine
<1>2. r.at \in {"sensors", "build", "frame", "send", "heater"}
    BY DEF Routine
<1>. QED
    BY <1>1, <1>2 DEF RoutineLeft

(* Every step of a routine that is not the wait uses one of them up, or    *)
(* more: the sensors do not look at the message they begin with.           *)
LEMMA RoutineMoves ==
    ASSUME NEW r \in Routine
    PROVE  /\ r.at = "sensors" => RoutineLeft([r EXCEPT !.at = "build"]) < RoutineLeft(r)
           /\ r.at = "build" => RoutineLeft([r EXCEPT !.at = "frame"]) < RoutineLeft(r)
           /\ r.at = "frame" => RoutineLeft([r EXCEPT !.at = "send"]) < RoutineLeft(r)
           /\ r.at = "send" /\ r.msg < Len(Message) =>
                RoutineLeft([r EXCEPT !.at = "build", !.msg = @ + 1]) < RoutineLeft(r)
           /\ r.at = "send" => RoutineLeft([r EXCEPT !.at = "heater"]) < RoutineLeft(r)
<1>1. r.msg \in 1 .. 3 /\ Len(Message) = 3
    BY Messages DEF Routine
<1>2. \A p \in {"build", "frame", "send", "heater"} :
        [r EXCEPT !.at = p].at = p /\ [r EXCEPT !.at = p].msg = r.msg
    BY DEF Routine
<1>3. LET q == [r EXCEPT !.at = "build", !.msg = @ + 1]
      IN  q.at = "build" /\ q.msg = r.msg + 1
    BY DEF Routine
<1>. QED
    BY <1>1, <1>2, <1>3 DEF RoutineLeft

(* Nothing but the routine itself runs meanwhile: Timer1 has not raised    *)
(* its interrupt, and no time passes that would.                           *)
LEMMA HeatingRunsAlone ==
    ASSUME Inv, needHeaterOn, timers # <<>>, Next
    PROVE  /\ Top \in Routine /\ Top.at # "cooldown" /\ Len(timers) = 1
           /\ ReadSensors \/ BuildMessage \/ FrameMessage \/ SendMessage \/ HeaterStarts
<1>1. timers \in Seq(Routine) /\ Len(timers) \in Nat \ {0} /\ Top \in Routine
    BY TopIsRoutine DEF Inv, TypeOK
<1>2. Top.at # "cooldown" /\ ~pending
  <2>1. Len(timers) \in 1 .. Len(timers)
    BY <1>1
  <2>. QED
    BY <2>1 DEF Inv, LoopInv, Top
<1>3. Len(timers) = 1
  <2>1. Len(timers) # 1 => 1 \in 1 .. Len(timers) - 1 /\ 1 \in 1 .. Len(timers)
    BY <1>1, OneBelow
  <2>. QED
    BY <2>1 DEF Inv, LoopInv, NestedOnlyInCooldown
<1>4. ~Main
    BY DEF Main, StartPass, NoCommand, KeepAlive, FrameReply, SendReply, OtherCommand, EndPass,
           MainRuns
<1>5. ~PeriodPasses /\ ~Interrupt
    BY <1>2 DEF PeriodPasses, Interrupt, Running, Interrupted
<1>6. ~HeaterStops /\ ~CooledDown
    BY <1>2 DEF HeaterStops, CooledDown, Running
<1>. QED
    BY <1>1, <1>2, <1>3, <1>4, <1>5, <1>6 DEF Next, Timer

(* As long as heat is asked for, every step anything takes while a timer   *)
(* routine is in progress brings that routine nearer to its end, of which  *)
(* it is eleven steps away at most, and cannot take the heat back.  This   *)
(* is what HeatingReturns owes to the code; the rest is fairness.          *)
THEOREM HeatingIsBounded ==
    /\ Spec => [](needHeaterOn /\ timers # <<>> => RoutineLeft(Top) \in 1 .. 11)
    /\ Spec => [][ needHeaterOn /\ timers # <<>> =>
                    /\ needHeaterOn'
                    /\ timers' # <<>> => RoutineLeft(Top') < RoutineLeft(Top) ]_vars
<1>1. Inv => (needHeaterOn /\ timers # <<>> => RoutineLeft(Top) \in 1 .. 11)
  <2>. SUFFICES ASSUME Inv, needHeaterOn, timers # <<>>
                PROVE  RoutineLeft(Top) \in 1 .. 11
    OBVIOUS
  <2>1. timers \in Seq(Routine) /\ Len(timers) \in 1 .. Len(timers) /\ Top \in Routine
    BY TopIsRoutine DEF Inv, TypeOK
  <2>2. Top.at # "cooldown"
    BY <2>1 DEF Inv, LoopInv, Top
  <2>. QED
    BY <2>1, <2>2, RoutineLeftRange
<1>2. ASSUME Inv, Next, needHeaterOn, timers # <<>>
      PROVE  needHeaterOn' /\ (timers' # <<>> => RoutineLeft(Top') < RoutineLeft(Top))
  <2>1. /\ Top \in Routine /\ timers \in Seq(Routine)
        /\ ReadSensors \/ BuildMessage \/ FrameMessage \/ SendMessage \/ HeaterStarts
    BY <1>2, HeatingRunsAlone DEF Inv, TypeOK
  <2>2. needHeaterOn'
    BY <1>2, <2>1 DEF ReadSensors, BuildMessage, FrameMessage, SendMessage, HeaterStarts
  <2>3. \A r \in Routine : Replace(r) => Top' = r
    BY <1>2, <2>1, ReplaceSeq
  <2>4. CASE ReadSensors
    <3>1. Top.at = "sensors" /\ Replace([Top EXCEPT !.at = "build"])
      BY <2>4 DEF ReadSensors, Running
    <3>. QED
      BY <2>1, <2>2, <2>3, <3>1, RoutineUpdates, RoutineMoves, LoopAssumption
  <2>5. CASE BuildMessage
    <3>1. Top.at = "build" /\ Replace([Top EXCEPT !.at = "frame"])
      BY <2>5 DEF BuildMessage, Running
    <3>. QED
      BY <2>1, <2>2, <2>3, <3>1, RoutineUpdates, RoutineMoves
  <2>6. CASE FrameMessage
    <3>1. Top.at = "frame" /\ Replace([Top EXCEPT !.at = "send"])
      BY <2>6 DEF FrameMessage, Running
    <3>. QED
      BY <2>1, <2>2, <2>3, <3>1, RoutineUpdates, RoutineMoves
  <2>7. CASE SendMessage
    <3>1. CASE Top.msg < Len(Message)
      <4>1. Top.at = "send" /\ Replace([Top EXCEPT !.at = "build", !.msg = @ + 1])
        BY <2>7, <3>1 DEF SendMessage, Running
      <4>. QED
        BY <2>1, <2>2, <2>3, <3>1, <4>1, RoutineUpdates, RoutineMoves
    <3>2. CASE ~(Top.msg < Len(Message))
      <4>1. Top.at = "send" /\ Replace([Top EXCEPT !.at = "heater"])
        BY <2>7, <3>2 DEF SendMessage, Running
      <4>. QED
        BY <2>1, <2>2, <2>3, <4>1, RoutineUpdates, RoutineMoves
    <3>. QED
      BY <3>1, <3>2
  <2>8. CASE HeaterStarts
    BY <1>2, <2>2, <2>8, HeatingIsAlone
  <2>. QED
    BY <2>1, <2>4, <2>5, <2>6, <2>7, <2>8
<1>3. Inv /\ [Next]_vars =>
        [ needHeaterOn /\ timers # <<>> =>
            /\ needHeaterOn'
            /\ timers' # <<>> => RoutineLeft(Top') < RoutineLeft(Top) ]_vars
    BY <1>2
<1>4. Spec => []Inv
    BY InitInv, StepInv, PTL DEF Spec
<1>5. Spec => [](needHeaterOn /\ timers # <<>> => RoutineLeft(Top) \in 1 .. 11)
    BY <1>1, <1>4, PTL
<1>6. Spec => [][ needHeaterOn /\ timers # <<>> =>
                    /\ needHeaterOn'
                    /\ timers' # <<>> => RoutineLeft(Top') < RoutineLeft(Top) ]_vars
    BY <1>3, <1>4, PTL DEF Spec
<1>. QED
    BY <1>5, <1>6
=============================================================================
