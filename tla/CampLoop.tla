------------------------------ MODULE CampLoop ------------------------------
(***************************************************************************)
(* The two activities of the firmware and how they share the processor:    *)
(* freakyCampManagerLoop, polled from the main loop, and campManagerPool,  *)
(* called from the interrupt of Timer1 every PROT_TM_CYCLE_SEC seconds.    *)
(*                                                                         *)
(* The interrupt is entered with interrupts disabled, but reading the      *)
(* temperature probes enables them again (OneWire calls interrupts()), so  *)
(* a later timer interrupt can preempt the routine itself.  Both           *)
(* activities build and send telemetry in the one txBuffer.                *)
(*                                                                         *)
(* The unit of time is the period of Timer1.  Without a usable reading of  *)
(* its temperature, startWebasto returns from its first wait at once, so   *)
(* it takes no time here (Webasto models it in full).                      *)
(***************************************************************************)
EXTENDS Naturals, Sequences

CONSTANTS
    CoolDowns,      \* waits of stopWebasto, each the ends of a Timer1 period within
                    \* it: DELAY_60_SEC has 30, one shorter than a period 0
    MaxDepth,       \* timer routines the stack has memory for
    WatchdogMax     \* PROT_WATCHDOG_MAX_SEC / PROT_TM_CYCLE_SEC, 5

ASSUME LoopAssumption ==
    CoolDowns \subseteq Nat /\ MaxDepth \in Nat \ {0} /\ WatchdogMax \in Nat

VARIABLES
    main,           \* where freakyCampManagerLoop is
    timers,         \* the timer routines in progress, the running one last
    enabled,        \* the processor takes interrupts
    pending,        \* Timer1 overflowed, its interrupt is not yet taken
    txBuffer,       \* what the shared buffer holds
    sent,           \* the last telemetry given to the USB stack, and by whom
    needHeaterOn,
    watchdog,
    coolDown,       \* the wait of this firmware, which never changes
    crashed         \* the stack ran out of memory

vars == <<main, timers, enabled, pending, txBuffer, sent, needHeaterOn, watchdog, coolDown, crashed>>

Message == <<"temperature", "switch", "water">>  \* what sendAllTelemetry sends
Kinds == {"alive", "temperature", "switch", "water"}
Nothing == [is |-> "nothing"]
Garbled == [is |-> "garbled"]
Payload(k) == [is |-> "payload", of |-> k]
Frame(k) == [is |-> "frame", of |-> k]
Contents == {Nothing, Garbled} \cup {Payload(k) : k \in Kinds} \cup {Frame(k) : k \in Kinds}

Routine == [at : {"sensors", "build", "frame", "send", "heater", "cooldown"},
            msg : 1 .. Len(Message),
            left : Nat]

TypeOK ==
    /\ main \in {"pass", "receive", "frame", "send", "delay"}
    /\ timers \in Seq(Routine) /\ Len(timers) <= MaxDepth
    /\ enabled \in BOOLEAN
    /\ pending \in BOOLEAN
    /\ txBuffer \in Contents
    /\ sent \in {Nothing} \cup [by : {"main", "timer"}, kind : Kinds, bytes : Contents]
    /\ needHeaterOn \in BOOLEAN
    /\ watchdog \in 0 .. WatchdogMax
    /\ coolDown \in CoolDowns
    /\ crashed \in BOOLEAN

Init ==
    /\ main = "pass"
    /\ timers = <<>>
    /\ enabled = TRUE
    /\ pending = FALSE
    /\ txBuffer = Nothing
    /\ sent = Nothing
    /\ needHeaterOn = FALSE
    /\ watchdog = 0
    /\ coolDown \in CoolDowns
    /\ crashed = FALSE

-----------------------------------------------------------------------------
(* sendTM, in two steps: framing the payload in the buffer, and the USB    *)
(* transfer of whatever the buffer holds then.                             *)

Framed(content, k) == IF content = Payload(k) THEN Frame(k) ELSE Garbled

Transmit(who, k) == sent' = [by |-> who, kind |-> k, bytes |-> txBuffer]

-----------------------------------------------------------------------------
(* One pass of freakyCampManagerLoop; it runs when no timer routine does.  *)

(* The processor takes a pending interrupt before it does anything else.   *)
Interrupted == pending /\ enabled

MainRuns == ~crashed /\ ~Interrupted /\ timers = <<>>

Unchanged == UNCHANGED <<timers, enabled, pending, coolDown, crashed>>

(* Usb.Task, then the test of adk.isReady.                                 *)
StartPass ==
    /\ MainRuns /\ main = "pass"
    /\ main' \in {"pass", "receive"}
    /\ UNCHANGED <<txBuffer, sent, needHeaterOn, watchdog>> /\ Unchanged

(* No byte, or a byte that completes no frame.                             *)
NoCommand ==
    /\ MainRuns /\ main = "receive"
    /\ main' = "delay"
    /\ UNCHANGED <<txBuffer, sent, needHeaterOn, watchdog>> /\ Unchanged

(* PROT_KEEP_ALIVE: tmBuilderIsAlive, then sendTM.                         *)
KeepAlive ==
    /\ MainRuns /\ main = "receive"
    /\ txBuffer' = Payload("alive")
    /\ watchdog' = 0
    /\ main' = "frame"
    /\ UNCHANGED <<sent, needHeaterOn>> /\ Unchanged

FrameReply ==
    /\ MainRuns /\ main = "frame"
    /\ txBuffer' = Framed(txBuffer, "alive")
    /\ main' = "send"
    /\ UNCHANGED <<sent, needHeaterOn, watchdog>> /\ Unchanged

SendReply ==
    /\ MainRuns /\ main = "send"
    /\ Transmit("main", "alive")
    /\ watchdog' = 0
    /\ main' = "delay"
    /\ UNCHANGED <<txBuffer, needHeaterOn>> /\ Unchanged

(* PROT_HEATER sets needHeaterOn; the other telecommands do not.           *)
OtherCommand ==
    /\ MainRuns /\ main = "receive"
    /\ needHeaterOn' \in BOOLEAN
    /\ watchdog' = 0
    /\ main' = "delay"
    /\ UNCHANGED <<txBuffer, sent>> /\ Unchanged

EndPass ==
    /\ MainRuns /\ main = "delay"
    /\ main' = "pass"
    /\ UNCHANGED <<txBuffer, sent, needHeaterOn, watchdog>> /\ Unchanged

Main == StartPass \/ NoCommand \/ KeepAlive \/ FrameReply \/ SendReply \/ OtherCommand \/ EndPass

-----------------------------------------------------------------------------
(* Timer1.                                                                 *)

Top == timers[Len(timers)]
Running(place) == ~crashed /\ ~Interrupted /\ timers # <<>> /\ Top.at = place
Replace(r) == timers' = [timers EXCEPT ![Len(timers)] = r]
Leave == timers' = [i \in 1 .. Len(timers) - 1 |-> timers[i]]

(* millis(), which the wait of stopWebasto compares with, stands still     *)
(* while interrupts are off.                                               *)
Elapse ==
    /\ pending' = TRUE
    /\ timers' = [i \in DOMAIN timers |->
                    IF enabled /\ timers[i].at = "cooldown" /\ timers[i].left > 0
                      THEN [timers[i] EXCEPT !.left = @ - 1] ELSE timers[i]]
    /\ UNCHANGED <<main, enabled, txBuffer, sent, needHeaterOn, watchdog, coolDown, crashed>>

(* Mutant of PeriodPasses: a transfer retries for longer than a period     *)
(* (endpoints that do not give up at the first NAK).                       *)
PeriodPassesWhileSending ==
    /\ ~crashed
    /\ ~pending
    /\ timers = <<>> \/ (Running("cooldown") /\ Top.left > 0) \/ Running("send")
    /\ Elapse

(* A period ends while the main loop runs or a routine waits.  That it     *)
(* does not end elsewhere is an assumption on time, not on the interrupt   *)
(* flag, which is set from the sensors on: a routine begins with a period  *)
(* of 2 s, waits at most 750 ms for the conversions of its probes, and a   *)
(* transfer to the tablet gives up at the first NAK (USB_NAK_NOWAIT) and   *)
(* after three bus timeouts, which are fractions of a millisecond.         *)
PeriodPasses ==
    /\ ~crashed
    /\ ~pending
    /\ timers = <<>> \/ (Running("cooldown") /\ Top.left > 0)
    /\ Elapse

(* The processor enters timerIsr, in whatever it was doing.                *)
Interrupt ==
    /\ ~crashed /\ Interrupted
    /\ IF Len(timers) = MaxDepth
         THEN crashed' = TRUE /\ UNCHANGED <<timers, enabled, pending>>
         ELSE /\ timers' = Append(timers, [at |-> "sensors", msg |-> 1, left |-> 0])
              /\ enabled' = FALSE
              /\ pending' = FALSE
              /\ UNCHANGED crashed
    /\ UNCHANGED <<main, txBuffer, sent, needHeaterOn, watchdog, coolDown>>

-----------------------------------------------------------------------------
(* campManagerPool.                                                        *)

Rest == UNCHANGED <<main, pending, coolDown, crashed>>

(* getWaterInfos .. getInputs.  The OneWire time slots of the temperature  *)
(* probes end with interrupts().                                           *)
ReadSensors ==
    /\ Running("sensors")
    /\ enabled' = TRUE
    /\ Replace([Top EXCEPT !.at = "build"])
    /\ UNCHANGED <<txBuffer, sent, needHeaterOn, watchdog>> /\ Rest

(* sendAllTelemetry; the tension message is built behind the switch one    *)
(* and not sent.                                                           *)
BuildMessage ==
    /\ Running("build")
    /\ txBuffer' = Payload(Message[Top.msg])
    /\ Replace([Top EXCEPT !.at = "frame"])
    /\ UNCHANGED <<enabled, sent, needHeaterOn, watchdog>> /\ Rest

FrameMessage ==
    /\ Running("frame")
    /\ txBuffer' = Framed(txBuffer, Message[Top.msg])
    /\ Replace([Top EXCEPT !.at = "send"])
    /\ UNCHANGED <<enabled, sent, needHeaterOn, watchdog>> /\ Rest

(* sendTM, then the next message or handleHeater; the result of the        *)
(* transfer makes no difference here.                                      *)
SendMessage ==
    /\ Running("send")
    /\ Transmit("timer", Message[Top.msg])
    /\ Replace(IF Top.msg < Len(Message)
                 THEN [Top EXCEPT !.at = "build", !.msg = @ + 1]
                 ELSE [Top EXCEPT !.at = "heater"])
    /\ UNCHANGED <<enabled, txBuffer, needHeaterOn, watchdog>> /\ Rest

(* Mutant of Finish: the watchdog is not wrapped.                          *)
FinishNoWrap ==
    /\ Leave
    /\ enabled' = TRUE
    /\ watchdog' = watchdog + 1

(* The end of campManagerPool, after handleHeater; returning from the      *)
(* interrupt enables interrupts.                                           *)
Finish ==
    /\ Leave
    /\ enabled' = TRUE
    /\ watchdog' = IF watchdog + 1 > WatchdogMax THEN 0 ELSE watchdog + 1

(* handleHeater with needHeaterOn: startWebasto, which returns.            *)
HeaterStarts ==
    /\ Running("heater")
    /\ needHeaterOn
    /\ Finish
    /\ UNCHANGED <<txBuffer, sent, needHeaterOn>> /\ Rest

(* Mutant of HeaterStops: needHeaterOn is not looked at.                   *)
HeaterStopsAlways ==
    /\ Running("heater")
    /\ Replace([Top EXCEPT !.at = "cooldown", !.left = coolDown])
    /\ UNCHANGED <<enabled, txBuffer, sent, needHeaterOn, watchdog>> /\ Rest

(* handleHeater otherwise (useHotWater is never set): stopWebasto waits.   *)
HeaterStops ==
    /\ Running("heater")
    /\ ~needHeaterOn
    /\ Replace([Top EXCEPT !.at = "cooldown", !.left = coolDown])
    /\ UNCHANGED <<enabled, txBuffer, sent, needHeaterOn, watchdog>> /\ Rest

CooledDown ==
    /\ Running("cooldown")
    /\ Top.left = 0
    /\ Finish
    /\ UNCHANGED <<txBuffer, sent, needHeaterOn>> /\ Rest

Timer == ReadSensors \/ BuildMessage \/ FrameMessage \/ SendMessage
         \/ HeaterStarts \/ HeaterStops \/ CooledDown

Next == Main \/ PeriodPasses \/ Interrupt \/ Timer

(* The processor executes what is runnable and Timer1 never stops; the     *)
(* interrupt has priority over the code it preempts.                       *)
Fairness ==
    WF_vars(Main) /\ WF_vars(PeriodPasses) /\ WF_vars(Interrupt) /\ WF_vars(Timer)

Spec == Init /\ [][Next]_vars /\ Fairness

-----------------------------------------------------------------------------
(* The telemetry of the timer routine leaves the processor whole, whatever *)
(* the routine preempted and whatever preempted it.                        *)
Intact == sent # Nothing => sent.bytes = Frame(sent.kind)
TimerTelemetryIntact == sent # Nothing /\ sent.by = "timer" => Intact

(* As long as heat is asked for, the timer routine is never re-entered and *)
(* gives the processor back to the main loop.                              *)
HeatingDoesNotNest == needHeaterOn => Len(timers) <= 1
HeatingReturns == needHeaterOn /\ timers # <<>> ~> timers = <<>>

(* PeriodPasses lets a routine be preempted in the wait of stopWebasto     *)
(* only.                                                                   *)
NestedOnlyInCooldown ==
    \A i \in 1 .. Len(timers) - 1 : timers[i].at = "cooldown"

(* The inductive invariant behind the safety properties: what the running  *)
(* routine and the interrupt flags say about the shared buffer.            *)
LoopInv ==
    /\ NestedOnlyInCooldown
    /\ TimerTelemetryIntact
    /\ \A i \in 1 .. Len(timers) : timers[i].at = "cooldown" => ~needHeaterOn
    /\ timers # <<>> =>
         /\ ~enabled => Top.at = "sensors"
         /\ pending => Top.at = "cooldown"
         /\ Top.at = "frame" => txBuffer = Payload(Message[Top.msg])
         /\ Top.at = "send" => txBuffer = Frame(Message[Top.msg])

-----------------------------------------------------------------------------
(* What a comment says and the code does not do.                           *)

(* freakyCampManagerLoop: "function integrated in main loop, call every    *)
(* time when not in timer 1s called procedure".  Once stopWebasto waits    *)
(* inside the timer routine, that routine never ends.                      *)
TimerReturns == timers # <<>> ~> timers = <<>>
=============================================================================
