------------------------------ MODULE Webasto -------------------------------
(***************************************************************************)
(* The controller of the Webasto fuel burner (webasto.cpp): its starting   *)
(* sequence, its pulsed combustion, its cool-down and its remote switch.   *)
(* A step is the code between two places where the controller waits or     *)
(* reads systemState again.                                                *)
(*                                                                         *)
(* Two callers are modelled, one to a behaviour.  "loop" is the program    *)
(* webasto.cpp is written for: poolWebasto is polled from a loop, and the  *)
(* interrupt of the remote switch changes systemState between any two      *)
(* steps.  "timer" is the program as it is wired: handleHeater, in the     *)
(* interrupt of Timer1, calls startWebasto or stopWebasto every period,    *)
(* and that interrupt preempts a call that waits, so calls pile up.        *)
(***************************************************************************)
EXTENDS Integers, Sequences

CONSTANTS
    Readings,     \* what measureTemp may return, in degrees; 0 is "sensor off"
    MaxTemp,      \* WEBASTO_MAX_TEMPERATURE, 70
    Threshold,    \* WEBASTO_TEMPERATURE_THRESHOLD, 10
    MaxAttempts,  \* WEBASTO_MAX_START_ATTEMPTS, 3
    FanAt,        \* the pulse at which the air fan joins, 15
    GlowOffAt,    \* the pulse at which the glow plug goes off, 20
    TempAt,       \* the first pulse that checks the temperature, 60
    LastPulse,    \* the last pulse of a combustion, 1000
    StartTicks,   \* periods of Timer1 that end within DELAY_15_SEC, 7
    WarmTicks,    \* periods that end within DELAY_5_SEC, 2
    CoolDowns,    \* waits of stopWebasto: DELAY_60_SEC has the ends of 30 periods,
                  \* one shorter than a period none
    MaxDepth      \* preempted calls the stack has memory for

ASSUME TempAssumption ==
    Readings \subseteq Int /\ 0 \in Readings /\ MaxTemp \in Int /\ Threshold \in Nat
ASSUME CountAssumption ==
    /\ MaxAttempts \in Nat /\ FanAt \in Nat /\ GlowOffAt \in Nat /\ TempAt \in Nat /\ LastPulse \in Nat
    /\ FanAt < GlowOffAt /\ GlowOffAt < TempAt /\ TempAt < LastPulse
ASSUME TimerAssumption ==
    /\ StartTicks \in Nat /\ MaxAttempts < StartTicks
    /\ WarmTicks \in Nat /\ CoolDowns \subseteq Nat /\ MaxDepth \in Nat

VARIABLES
    caller,               \* who calls the controller; it never changes
    coolDown,             \* the wait of stopWebasto; it never changes
    needHeaterOn,
    systemState,          \* volatile: also written by interrupts
    startingAttempts,
    initialTemperature,
    previousTemperature,
    on,                   \* the modules whose output pin is high
    at,                   \* where the running call is
    held,                 \* currentSystemState of the wait in progress
    left,                 \* periods that must end before that wait can expire
    pulse,                \* i, the pulse number of the combustion
    below                 \* the calls the running one preempted, the latest first

memory == <<startingAttempts, initialTemperature, previousTemperature>>
call == <<at, held, left, pulse>>
wiring == <<caller, coolDown>>
vars == <<wiring, needHeaterOn, systemState, memory, on, call, below>>

Modules == {"airFan", "fuelPump", "waterPump", "glowPlug", "cabinHeater"}
States == {"OFF", "ON", "REMOTE_STARTING", "REMOTE_STOPPING", "REMOTE_SHUTDOWN",
           "SYSTEM_STOPPING", "SYSTEM_SHUTDOWN"}

(* "idle": outside the controller; "pool": poolWebasto between its reading *)
(* and its decision; "begin": entering startWebasto; "cooldown": the wait  *)
(* of stopWebasto; the others are the phases of startWebasto.              *)
Waits == {"purge", "prime", "warm", "pulse", "settle", "cooldown"}
Places == {"idle", "pool", "begin", "ignite", "burn"} \cup Waits
Combustion == {"pulse", "burn", "settle"}

NotWaiting == "not waiting"

(* The local state of a call.                                              *)
Calls == [at : Places, held : States \cup {NotWaiting}, left : Nat, pulse : 0 .. LastPulse]
Idle == [at |-> "idle", held |-> NotWaiting, left |-> 0, pulse |-> 0]
Running == [at |-> at, held |-> held, left |-> left, pulse |-> pulse]

TypeOK ==
    /\ caller \in {"loop", "timer"}
    /\ coolDown \in CoolDowns
    /\ needHeaterOn \in BOOLEAN
    /\ systemState \in States
    /\ startingAttempts \in 0 .. MaxAttempts
    /\ initialTemperature \in Readings
    /\ previousTemperature \in Readings
    /\ on \subseteq Modules
    /\ Running \in Calls
    /\ below \in Seq(Calls)

Init ==
    /\ caller \in {"loop", "timer"}
    /\ coolDown \in CoolDowns
    /\ needHeaterOn = FALSE
    /\ systemState = "OFF"
    /\ startingAttempts = 0
    /\ initialTemperature = 0
    /\ previousTemperature = 0
    /\ on = {}
    /\ at = "idle"
    /\ held = NotWaiting
    /\ left = 0
    /\ pulse = 0
    /\ below = <<>>

-----------------------------------------------------------------------------
(* Helpers of the sequence.                                                *)

Critical(t) == t = 0 \/ t >= MaxTemp

(* resetAllModules: it has no call for the fuel pump.                      *)
Reset(m) == m \ {"waterPump", "glowPlug", "airFan", "cabinHeater"}

(* The periods of Timer1 within a wait; poolWebasto has nothing to do with *)
(* them.                                                                   *)
WaitTicks(place) ==
    IF caller = "loop" THEN 0
    ELSE CASE place \in {"purge", "prime"} -> StartTicks
           [] place = "warm"               -> WarmTicks
           [] place = "cooldown"           -> coolDown
           [] OTHER                        -> 0

(* wait, on entry: the state it compares with is read now, not when the    *)
(* step before it began.                                                   *)
EnterWait ==
    /\ at \in Waits
    /\ held = NotWaiting
    /\ held' = systemState
    /\ left' = WaitTicks(at)
    /\ UNCHANGED <<wiring, needHeaterOn, systemState, memory, on, at, pulse, below>>

Go(place) ==
    /\ at' = place
    /\ held' = NotWaiting
    /\ UNCHANGED <<left, pulse, below>>

(* The call returns, and the one it preempted goes on where it was.        *)
Return ==
    LET resumed == IF below = <<>> THEN Idle ELSE Head(below)
    IN  /\ at' = resumed.at
        /\ held' = resumed.held
        /\ left' = resumed.left
        /\ pulse' = resumed.pulse
        /\ below' = IF below = <<>> THEN <<>> ELSE Tail(below)

(* What every step of the controller leaves alone.                         *)
Rest == UNCHANGED <<wiring, needHeaterOn>>

Waiting == at \in Waits /\ held # NotWaiting
StateChanged == systemState # held

(* wait returns true: a critical temperature, or another systemState.      *)
Interrupted ==
    /\ Waiting
    /\ (\E t \in Readings : Critical(t)) \/ StateChanged

(* wait returns false: its time is over and the last round of its loop saw *)
(* nothing.  A change of systemState after that round is not noticed.      *)
Expired ==
    /\ Waiting
    /\ left = 0
    /\ \E t \in Readings : ~Critical(t)

-----------------------------------------------------------------------------
(* startWebasto.                                                           *)

(* Mutant of StartAttempt: the attempts are not counted against the limit. *)
StartAttemptUnlimited ==
    /\ at = "begin"
    /\ startingAttempts' = startingAttempts + 1
    /\ on' = Reset(on) \cup {"airFan"}
    /\ Go("purge") /\ Rest
    /\ UNCHANGED <<systemState, initialTemperature, previousTemperature>>

StartAttempt ==
    /\ at = "begin"
    /\ startingAttempts < MaxAttempts
    /\ startingAttempts' = startingAttempts + 1
    /\ on' = Reset(on) \cup {"airFan"}
    /\ Go("purge") /\ Rest
    /\ UNCHANGED <<systemState, initialTemperature, previousTemperature>>

(* Mutant of GiveUp: the calls that still wait are not told.               *)
GiveUpQuietly ==
    /\ at = "begin"
    /\ startingAttempts >= MaxAttempts
    /\ Return /\ Rest
    /\ UNCHANGED <<systemState, memory, on>>

GiveUp ==
    /\ at = "begin"
    /\ startingAttempts >= MaxAttempts
    /\ systemState' = "SYSTEM_STOPPING"
    /\ Return /\ Rest
    /\ UNCHANGED <<memory, on>>

(* Every wait of the sequence but the cool-down can end the sequence; the  *)
(* modules stay as they are, the fuel pump included.                       *)
Abandon ==
    /\ at # "cooldown"
    /\ Interrupted
    /\ Return /\ Rest
    /\ UNCHANGED <<systemState, memory, on>>

Purged ==
    /\ at = "purge"
    /\ Expired
    /\ on' = (on \ {"airFan"}) \cup {"waterPump"}
    /\ Go("prime") /\ Rest
    /\ UNCHANGED <<systemState, memory>>

Primed ==
    /\ at = "prime"
    /\ Expired
    /\ Go("ignite") /\ Rest
    /\ UNCHANGED <<systemState, memory, on>>

(* The assignment does not look at what the switch did to systemState.     *)
Ignite ==
    /\ at = "ignite"
    /\ systemState' = "ON"
    /\ on' = on \cup {"glowPlug"}
    /\ Go("warm") /\ Rest
    /\ UNCHANGED memory

(* pulseFuelPump, up to its wait.                                          *)
StartPulse(i) ==
    /\ on' = on \cup {"fuelPump"}
    /\ at' = "pulse"
    /\ held' = NotWaiting
    /\ pulse' = i
    /\ UNCHANGED <<systemState, memory, left, below>> /\ Rest

Warmed ==
    /\ at = "warm"
    /\ Expired
    /\ StartPulse(0)

(* pulseFuelPump returned false.                                           *)
Pulsed ==
    /\ at = "pulse"
    /\ Expired
    /\ on' = on \ {"fuelPump"}
    /\ Go("burn") /\ Rest
    /\ UNCHANGED <<systemState, memory>>

(* Mutant of EarlyBurn: the two pulse numbers are swapped.                 *)
EarlyBurnSwapped ==
    /\ at = "burn"
    /\ pulse < TempAt
    /\ on' = CASE pulse = GlowOffAt -> on \cup {"airFan"}
               [] pulse = FanAt     -> on \ {"glowPlug"}
               [] OTHER             -> on
    /\ Go("settle") /\ Rest
    /\ UNCHANGED <<systemState, memory>>

(* Before the temperature counts: the fan joins, the glow plug goes off.   *)
EarlyBurn ==
    /\ at = "burn"
    /\ pulse < TempAt
    /\ on' = CASE pulse = FanAt     -> on \cup {"airFan"}
               [] pulse = GlowOffAt -> on \ {"glowPlug"}
               [] OTHER             -> on
    /\ Go("settle") /\ Rest
    /\ UNCHANGED <<systemState, memory>>

SensorLost ==
    /\ at = "burn"
    /\ pulse >= TempAt
    /\ systemState' = "SYSTEM_STOPPING"
    /\ Return /\ Rest
    /\ UNCHANGED <<memory, on>>

(* Mutant of ProveFlame: the threshold is not compared.                    *)
ProveFlameUnchecked(t) ==
    /\ at = "burn"
    /\ pulse = TempAt
    /\ previousTemperature' = t
    /\ on' = on \cup {"cabinHeater"}
    /\ Go("settle") /\ Rest
    /\ UNCHANGED <<systemState, startingAttempts, initialTemperature>>

(* The flame is proved by a rise of the temperature since the start.       *)
ProveFlame(t) ==
    /\ at = "burn"
    /\ pulse = TempAt
    /\ IF initialTemperature + Threshold > t
         THEN Return /\ UNCHANGED <<previousTemperature, on>>
         ELSE /\ previousTemperature' = t
              /\ on' = on \cup {"cabinHeater"}
              /\ Go("settle")
    /\ UNCHANGED <<systemState, startingAttempts, initialTemperature>> /\ Rest

Rising(t) == previousTemperature <= t /\ t <= previousTemperature + 2
Falling(t) == previousTemperature - 2 <= t /\ t < previousTemperature

(* A change of more than 2 degrees between two pulses is neither.          *)
WatchFlame(t) ==
    /\ at = "burn"
    /\ pulse > TempAt
    /\ previousTemperature' = IF Rising(t) THEN t ELSE previousTemperature
    /\ IF Falling(t) THEN Return ELSE Go("settle")
    /\ UNCHANGED <<systemState, startingAttempts, initialTemperature, on>> /\ Rest

(* Mutant of NextPulse: the pulse number does not advance.                 *)
NextPulseSamePulse ==
    /\ at = "settle"
    /\ Expired
    /\ pulse < LastPulse
    /\ StartPulse(pulse)

NextPulse ==
    /\ at = "settle"
    /\ Expired
    /\ pulse < LastPulse
    /\ StartPulse(pulse + 1)

BurnedOut ==
    /\ at = "settle"
    /\ Expired
    /\ pulse = LastPulse
    /\ systemState' = "SYSTEM_STOPPING"
    /\ Return /\ Rest
    /\ UNCHANGED <<memory, on>>

Sequence ==
    \/ EnterWait \/ StartAttempt \/ GiveUp \/ Abandon
    \/ Purged \/ Primed \/ Ignite \/ Warmed \/ Pulsed \/ EarlyBurn \/ SensorLost
    \/ \E t \in Readings \ {0} : ProveFlame(t) \/ WatchFlame(t)
    \/ NextPulse \/ BurnedOut

-----------------------------------------------------------------------------
(* The end of stopWebasto, for whom the state does not matter.             *)
CooledDown ==
    /\ at = "cooldown"
    /\ Waiting
    /\ left = 0
    /\ systemState' = "OFF"
    /\ on' = Reset(on)
    /\ Return /\ Rest
    /\ UNCHANGED memory

-----------------------------------------------------------------------------
(* handleHeater in the interrupt of Timer1.  It finds the controller idle  *)
(* or in a wait: everything else is far shorter than a period, as is the   *)
(* round of a wait in which it notices that systemState changed.           *)

Sooner(c) == [c EXCEPT !.left = IF @ > 0 THEN @ - 1 ELSE 0]

(* A period ends, for the calls that wait too, and a new call begins.      *)
Preempt(place) ==
    /\ caller = "timer"
    /\ at = "idle" \/ (Waiting /\ (at = "cooldown" \/ ~StateChanged))
    /\ Len(below) < MaxDepth
    /\ below' = IF at = "idle" THEN <<>>
                ELSE <<Sooner(Running)>> \o [i \in DOMAIN below |-> Sooner(below[i])]
    /\ at' = place
    /\ held' = NotWaiting
    /\ left' = 0
    /\ pulse' = 0

(* The timer does not read the temperature, as poolWebasto does.           *)
HeaterStarts ==
    /\ needHeaterOn
    /\ Preempt("begin") /\ Rest
    /\ UNCHANGED <<systemState, memory, on>>

(* Its comment says "Stop fuel burning": the fuel pump keeps its level.    *)
StopWebasto ==
    /\ ~needHeaterOn
    /\ on' = (on \ {"glowPlug", "cabinHeater"}) \cup {"waterPump", "airFan"}
    /\ Preempt("cooldown") /\ Rest
    /\ UNCHANGED <<systemState, memory>>

Timer == HeaterStarts \/ StopWebasto

(* A telecommand; the loop that executes it waits for the timer's routine. *)
HeaterCommand ==
    /\ caller = "timer"
    /\ at = "idle"
    /\ needHeaterOn' = ~needHeaterOn
    /\ UNCHANGED <<wiring, systemState, memory, on, call, below>>

-----------------------------------------------------------------------------
(* poolWebasto and the remote switch.                                      *)

PoolMeasures(t) ==
    /\ caller = "loop"
    /\ at = "idle"
    /\ systemState \in {"REMOTE_STARTING", "ON"}
    /\ initialTemperature' = t
    /\ Go("pool") /\ Rest
    /\ UNCHANGED <<systemState, startingAttempts, previousTemperature, on>>

PoolDecides ==
    /\ at = "pool"
    /\ IF Critical(initialTemperature)
         THEN /\ systemState' = IF systemState = "ON" THEN "SYSTEM_STOPPING" ELSE "SYSTEM_SHUTDOWN"
              /\ Return
         ELSE Go("begin") /\ UNCHANGED systemState
    /\ UNCHANGED <<memory, on>> /\ Rest

PoolShutsDown ==
    /\ caller = "loop"
    /\ at = "idle"
    /\ systemState \in {"REMOTE_SHUTDOWN", "SYSTEM_SHUTDOWN"}
    /\ on' = Reset(on)
    /\ systemState' = "OFF"
    /\ UNCHANGED <<memory, call, below>> /\ Rest

(* The interrupt of the remote switch, at any point of the sequence.       *)
TurnOnOffSystem ==
    /\ caller = "loop"
    /\ \/ systemState = "REMOTE_STARTING" /\ systemState' = "REMOTE_SHUTDOWN" /\ UNCHANGED startingAttempts
       \/ systemState = "ON" /\ systemState' = "REMOTE_STOPPING" /\ UNCHANGED startingAttempts
       \/ systemState = "OFF" /\ systemState' = "REMOTE_STARTING" /\ startingAttempts' = 0
    /\ UNCHANGED <<initialTemperature, previousTemperature, on, call, below>> /\ Rest

Controller == Sequence \/ CooledDown \/ PoolDecides
Pool == (\E t \in Readings : PoolMeasures(t)) \/ PoolShutsDown

Next == Controller \/ Pool \/ Timer \/ HeaterCommand \/ TurnOnOffSystem

(* The code between the waits is straight line, and a wait ends once its   *)
(* time is over or its loop notices a change of systemState.  Nothing says *)
(* that a critical temperature ever ends one.                              *)
Due == Waiting => left = 0 \/ StateChanged

(* poolWebasto is written to be polled from a loop for ever, and Timer1    *)
(* never stops.                                                            *)
Spec == Init /\ [][Next]_vars /\ WF_vars(Due /\ Controller) /\ WF_vars(Pool) /\ WF_vars(Timer)

-----------------------------------------------------------------------------
(* From the first pulse of a sequence to its end the fuel pump runs in the *)
(* pulses only; the water pump runs throughout, the glow plug is hot until *)
(* the flame burns by itself, and from then on the air fan feeds it.       *)
(* (After a sequence that was abandoned within a pulse the fuel pump stays *)
(* on outside of any combustion: PumpIsOffAfterReset is about that.)       *)
FuelIsSafe ==
    at \in Combustion =>
        /\ "fuelPump" \in on <=> at = "pulse"
        /\ "waterPump" \in on
        /\ at = "pulse" /\ pulse <= GlowOffAt => "glowPlug" \in on
        /\ at = "pulse" /\ pulse > FanAt => "airFan" \in on

(* The cabin heater is off from the reset of a start until the temperature *)
(* has risen by the threshold above the one poolWebasto read before that   *)
(* start, however often the sequence was restarted.  (An abandoned         *)
(* sequence leaves it on until the next reset.)                            *)
CabinHeatIsProved ==
    "cabinHeater" \in on =>
        /\ "glowPlug" \notin on
        /\ at \notin {"purge", "prime", "ignite", "warm"}
        /\ at \in Combustion => previousTemperature >= initialTemperature + Threshold

(* Called from the timer, the controller never lights the burner, whatever *)
(* its thermocouple reads: before the first wait of a start is over, the   *)
(* starts that preempt it have used up the attempts, and the one that      *)
(* gives up makes all the others return.                                   *)
TimerNeverLights ==
    caller = "timer" => on \cap {"fuelPump", "glowPlug", "cabinHeater"} = {}

(* With no thermocouple reading above zero, which is what measureTemp      *)
(* returns as long as its acquisition is commented out, no start reaches   *)
(* the glow plug or the fuel.                                              *)
NoFuelWithoutSensor ==
    (\A t \in Readings : Critical(t)) => on \cap {"fuelPump", "glowPlug", "cabinHeater"} = {}

(* startWebasto and poolWebasto always return to their caller, the calls   *)
(* that preempt each other in the timer too; of stopWebasto in the timer   *)
(* this is not true (module CampLoop).                                     *)
ControllerReturns == at # "idle" /\ (caller = "loop" \/ needHeaterOn) ~> at = "idle"
-----------------------------------------------------------------------------
(* The inductive invariant behind FuelIsSafe and CabinHeatIsProved: what   *)
(* is on in each phase of the sequence.                                    *)

GlowPhase ==
    \/ at = "warm"
    \/ at \in Combustion /\ (pulse < GlowOffAt \/ (pulse = GlowOffAt /\ at # "settle"))

FanPhase == at \in Combustion /\ (pulse > FanAt \/ (pulse = FanAt /\ at = "settle"))

HotPhase == at \in Combustion /\ (pulse > TempAt \/ (pulse = TempAt /\ at = "settle"))

SequenceInv ==
    /\ at \in {"prime", "ignite", "warm"} \cup Combustion => "waterPump" \in on
    /\ at \in Combustion => ("fuelPump" \in on <=> at = "pulse")
    /\ GlowPhase => "glowPlug" \in on
    /\ FanPhase => "airFan" \in on
    /\ at \in {"purge", "prime", "ignite", "warm"} => "cabinHeater" \notin on
    /\ at \in Combustion /\ ~GlowPhase => "glowPlug" \notin on
    /\ at \in Combustion /\ ~HotPhase => "cabinHeater" \notin on
    /\ HotPhase => previousTemperature >= initialTemperature + Threshold
    /\ "cabinHeater" \in on => "glowPlug" \notin on

(* The loop's calls do not preempt each other.                             *)
LoopInv == caller = "loop" => below = <<>> /\ left = 0

(* The inductive invariant behind TimerNeverLights.  Each period takes one *)
(* from what a purge has left and begins a start, which counts an attempt  *)
(* or gives up: the sum stays above the attempts that there are.           *)
One(p) == IF p THEN 1 ELSE 0
StillDue(c) ==
    /\ c.at \in {"purge", "cooldown"}
    /\ c.at = "purge" <=> needHeaterOn
    /\ c.at = "purge" =>
         /\ c.held = "OFF"
         /\ c.left + startingAttempts + One(at = "begin") + One(systemState = "SYSTEM_STOPPING") > StartTicks

TimerInv ==
    caller = "timer" =>
        /\ TimerNeverLights
        /\ at \in {"idle", "begin", "purge", "cooldown"}
        /\ at \in {"begin", "purge"} => needHeaterOn
        /\ at = "cooldown" => ~needHeaterOn
        /\ at = "idle" => below = <<>>
        /\ systemState \in {"OFF", "SYSTEM_STOPPING"}
        /\ systemState = "SYSTEM_STOPPING" => startingAttempts = MaxAttempts
        /\ at = "purge" /\ ~Waiting => systemState = "OFF" /\ startingAttempts > 0
        /\ at = "begin" /\ below # <<>> => systemState = "OFF"
        /\ Waiting => StillDue(Running)
        /\ \A i \in DOMAIN below : StillDue(below[i])

-----------------------------------------------------------------------------
(* What a comment of webasto.cpp says and the code does not do.            *)

(* resetAllModules: "Turn off all modules".  An interrupted pulse leaves   *)
(* the fuel pump on, no reset turns it off, and the next start runs with   *)
(* it through its purge.                                                   *)
PumpIsOffAfterReset == at = "purge" => "fuelPump" \notin on
=============================================================================
