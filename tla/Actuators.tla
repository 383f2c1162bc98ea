----------------------------- MODULE Actuators -----------------------------
(***************************************************************************)
(* What the firmware does to its output pins: the telecommands executed by *)
(* the main loop (relays, lights, heater mode) and the part of the timer   *)
(* routine that reports the relays and drives the heater.                  *)
(*                                                                         *)
(* Pins are the numbers of masterConf.h and webasto.cpp, because several   *)
(* outputs share one.  Of the burner only what the firmware reaches with   *)
(* its thermocouple commented out is here (Webasto models all of it): a    *)
(* start purges with the air fan and gives up at its first wait, which     *)
(* returns at once.  Telecommands carry any argument: a frame shorter than *)
(* its command leaves the bytes of an earlier one in rxBuffer.             *)
(***************************************************************************)
EXTENDS Integers

CONSTANTS
    Commands,      \* the circuits telecommands are sent for
    Lights,        \* the ids of lightsConf that telecommands name
    Statuses,      \* the status bytes of a light's on/off telecommand
    PwmLevels,     \* what analogWrite(r * dim / 256) leaves on a pin
    HeaterModes,   \* the eHeaterState values sent
    MaxAttempts    \* WEBASTO_MAX_START_ATTEMPTS, 3

VARIABLES
    pin,               \* the output latch of each pin
    statDimm,          \* LIGHT_STAT_DIMM of each light
    needHeaterOn,
    askedState,        \* actualState is never assigned: it stays HEATER_OFF
    startingAttempts,
    moduleOn,          \* the burner modules whose ...State variable is ON
    main,              \* where the main loop is in heaterGotTC
    cooling,           \* a timer routine is in the wait of stopWebasto
    report,            \* the relays as the last TM_SWITCH shows them
    wanted,            \* history: what was last asked of each circuit
    overwritten        \* history: the lights whose pin something else has written
                       \* since their last on/off telecommand

pins == <<pin, moduleOn>>
lights == <<statDimm, overwritten>>
heater == <<needHeaterOn, askedState, startingAttempts, main>>
panel == <<report, wanted>>
vars == <<pins, lights, heater, cooling, panel>>

-----------------------------------------------------------------------------
(* The pin tables.                                                         *)

Circuits == {"water", "fridge", "heating", "aux", "spare", "light"}

electricalLinesPins ==
    [water |-> 33, fridge |-> 34, heating |-> 35, aux |-> 40, spare |-> 41, light |-> 42]

(* The pin a telecommand writes; POUT_RELAY_LIGHT has no telecommand.      *)
CommandPin == [water |-> 33, fridge |-> 34, heating |-> 35, aux |-> 40, spare |-> 41]

(* lightsConf: three lights; the normal ones have 0 for green and blue.    *)
LightPin ==
    [red |-> [l \in 0 .. 2 |-> CASE l = 0 -> 36 [] l = 1 -> 37 [] l = 2 -> 5],
     green |-> [l \in 0 .. 2 |-> IF l = 2 THEN 6 ELSE 0],
     blue |-> [l \in 0 .. 2 |-> IF l = 2 THEN 7 ELSE 0]]

ModulePin == [airFan |-> 3, waterPump |-> 5, glowPlug |-> 6, cabinHeater |-> 8]
FanPins == {2, 3}   \* POUT_WEBASTO_FAN_1, POUT_WEBASTO_FAN_2

Pins == {0} \cup 2 .. 8 \cup 33 .. 37 \cup 40 .. 42
Level == {"low", "dim", "high"}
Modules == {"airFan", "waterPump", "glowPlug", "cabinHeater"}

ASSUME TableAssumption ==
    /\ Commands \subseteq DOMAIN CommandPin
    /\ Lights \subseteq 0 .. 2
    /\ Statuses \subseteq 0 .. 255
    /\ PwmLevels \subseteq Level
    /\ HeaterModes \subseteq {"OFF", "MANUAL", "AUTO", "HOT_MANUAL", "HOT_AUTO"}
    /\ MaxAttempts \in Nat

TypeOK ==
    /\ pin \in [Pins -> Level]
    /\ statDimm \in [0 .. 2 -> 0 .. 255]
    /\ needHeaterOn \in BOOLEAN
    /\ askedState \in {"OFF"} \cup HeaterModes
    /\ startingAttempts \in 0 .. MaxAttempts
    /\ moduleOn \subseteq Modules
    /\ main \in {"idle"} \cup HeaterModes
    /\ cooling \in BOOLEAN
    /\ report \in [Circuits -> BOOLEAN]
    /\ wanted \in [Circuits -> BOOLEAN]
    /\ overwritten \subseteq 0 .. 2

Init ==
    /\ pin = [p \in Pins |-> "low"]
    /\ statDimm = [l \in 0 .. 2 |-> 0]
    /\ needHeaterOn = FALSE
    /\ askedState = "OFF"
    /\ startingAttempts = 0
    /\ moduleOn = {}
    /\ main = "idle"
    /\ cooling = FALSE
    /\ report = [c \in Circuits |-> FALSE]
    /\ wanted = [c \in Circuits |-> FALSE]
    /\ overwritten = {}

-----------------------------------------------------------------------------
(* The telecommands.  The main loop runs while no timer routine does.      *)

Digital(on) == IF on THEN "high" ELSE "low"
Write(p, where, level) == [q \in Pins |-> IF q \in where THEN level ELSE p[q]]

(* Mutant of SwitchRelay: relays 2 and 3 are taken for each other.         *)
SwitchRelayCrossed(c, on) ==
    /\ main = "idle" /\ ~cooling
    /\ pin' = Write(pin, {CommandPin[IF c = "fridge" THEN "aux" ELSE c]}, Digital(on))
    /\ wanted' = [wanted EXCEPT ![c] = on]
    /\ UNCHANGED <<moduleOn, report>> /\ UNCHANGED <<lights, heater, cooling>>

(* PROT_SWITCH_..._MODULE: switchRelay with an argument byte of 1, or not. *)
SwitchRelay(c, on) ==
    /\ main = "idle" /\ ~cooling
    /\ pin' = Write(pin, {CommandPin[c]}, Digital(on))
    /\ wanted' = [wanted EXCEPT ![c] = on]
    /\ UNCHANGED <<moduleOn, report>> /\ UNCHANGED <<lights, heater, cooling>>

(* Mutant of LightOnOff: the new status is not stored.                     *)
LightOnOffForgets(l, status) ==
    /\ main = "idle" /\ ~cooling
    /\ statDimm[l] # status
    /\ pin' = Write(pin, {LightPin.red[l]}, Digital(status > 0))
    /\ overwritten' = overwritten \ {l}
    /\ UNCHANGED <<moduleOn, statDimm>> /\ UNCHANGED <<heater, cooling, panel>>

(* LIGHT_TYPE_NORMAL: written only if the status differs from the one kept.*)
LightOnOff(l, status) ==
    /\ main = "idle" /\ ~cooling
    /\ statDimm[l] # status
    /\ pin' = Write(pin, {LightPin.red[l]}, Digital(status > 0))
    /\ statDimm' = [statDimm EXCEPT ![l] = status]
    /\ overwritten' = overwritten \ {l}
    /\ UNCHANGED moduleOn /\ UNCHANGED <<heater, cooling, panel>>

(* lightCommand: three analogWrite, red first; the type in the telecommand *)
(* is not compared with the one of the light, and nothing is kept.         *)
LightCommand(l, r, g, b) ==
    /\ main = "idle" /\ ~cooling
    /\ pin' = Write(Write(Write(pin, {LightPin.red[l]}, r), {LightPin.green[l]}, g),
                    {LightPin.blue[l]}, b)
    /\ overwritten' = overwritten \cup {l}
    /\ UNCHANGED <<moduleOn, statDimm>> /\ UNCHANGED <<heater, cooling, panel>>

(* heaterGotTC, up to the assignment of needHeaterOn: the timer routine,   *)
(* which reads it, can run before the rest.                                *)
HeaterGotTC(mode) ==
    /\ main = "idle" /\ ~cooling
    /\ needHeaterOn' = (mode \in {"HOT_MANUAL", "HOT_AUTO"})
    /\ main' = mode
    /\ UNCHANGED <<askedState, startingAttempts>> /\ UNCHANGED <<pins, lights, cooling, panel>>

(* The rest: HEATER_OFF stops the fans, the other modes are asked for.     *)
HeaterFans ==
    /\ main = "OFF" /\ ~cooling
    /\ pin' = Write(pin, FanPins, "low")
    /\ main' = "idle"
    /\ UNCHANGED <<moduleOn, needHeaterOn, askedState, startingAttempts>>
    /\ UNCHANGED <<lights, cooling, panel>>

HeaterAsked ==
    /\ main \in HeaterModes \ {"OFF"} /\ ~cooling
    /\ askedState' = main
    /\ main' = "idle"
    /\ UNCHANGED <<needHeaterOn, startingAttempts>> /\ UNCHANGED <<pins, lights, cooling, panel>>

Telecommand ==
    \/ \E c \in Commands, on \in BOOLEAN : SwitchRelay(c, on)
    \/ \E l \in Lights, s \in Statuses : LightOnOff(l, s)
    \/ \E l \in Lights, r, g, b \in PwmLevels : LightCommand(l, r, g, b)
    \/ \E m \in HeaterModes : HeaterGotTC(m)
    \/ HeaterFans \/ HeaterAsked

-----------------------------------------------------------------------------
(* The timer routine, which can preempt the main loop and the wait of an   *)
(* earlier routine: tmBuilderSwitch, then handleHeater.                    *)

Reported(p) == [c \in Circuits |-> p[electricalLinesPins[c]] = "high"]

(* handleHeater with actualState at HEATER_OFF: isWebastoOn is false.      *)
HeaterSwitch(p) == IF askedState # "OFF" THEN Write(p, FanPins, "low") ELSE p

Start(p, m) == Write(p, {ModulePin[m]}, "high")
Reset(p) == Write(p, {ModulePin[m] : m \in Modules}, "low")

BurnerWrites ==
    overwritten' = overwritten \cup {l \in 0 .. 2 : \E m \in Modules : LightPin.red[l] = ModulePin[m]}

Tick == report' = Reported(pin) /\ UNCHANGED <<wanted, statDimm>>

(* Mutant of TickStarts: the attempts are not compared with the limit.     *)
TickStartsUnlimited ==
    /\ needHeaterOn
    /\ startingAttempts' = startingAttempts + 1
    /\ pin' = HeaterSwitch(Start(Reset(pin), "airFan"))
    /\ moduleOn' = {"airFan"}
    /\ UNCHANGED <<needHeaterOn, askedState, main, cooling>>
    /\ Tick /\ BurnerWrites

(* startWebasto: reset all modules, purge, and give up.                    *)
TickStarts ==
    /\ needHeaterOn /\ startingAttempts < MaxAttempts
    /\ startingAttempts' = startingAttempts + 1
    /\ pin' = HeaterSwitch(Start(Reset(pin), "airFan"))
    /\ moduleOn' = {"airFan"}
    /\ UNCHANGED <<needHeaterOn, askedState, main, cooling>>
    /\ Tick /\ BurnerWrites

(* No attempt is left, and turnOnOffSystem, which clears them, is not      *)
(* attached to an interrupt.                                               *)
TickGivesUp ==
    /\ needHeaterOn /\ startingAttempts = MaxAttempts
    /\ pin' = HeaterSwitch(pin)
    /\ UNCHANGED <<moduleOn, needHeaterOn, askedState, startingAttempts, main, cooling>>
    /\ Tick /\ UNCHANGED overwritten

(* Mutant of TickStops: the fans are switched before the wait, not after.  *)
TickStopsFansFirst ==
    /\ ~needHeaterOn
    /\ pin' = HeaterSwitch(Write(Write(pin, {ModulePin.glowPlug, ModulePin.cabinHeater}, "low"),
                                 {ModulePin.waterPump, ModulePin.airFan}, "high"))
    /\ moduleOn' = {"waterPump", "airFan"}
    /\ cooling' = TRUE
    /\ UNCHANGED heater
    /\ Tick /\ BurnerWrites

(* stopWebasto, up to its wait (useHotWater is never set).                 *)
TickStops ==
    /\ ~needHeaterOn
    /\ pin' = Write(Write(pin, {ModulePin.glowPlug, ModulePin.cabinHeater}, "low"),
                    {ModulePin.waterPump, ModulePin.airFan}, "high")
    /\ moduleOn' = {"waterPump", "airFan"}
    /\ cooling' = TRUE
    /\ UNCHANGED heater
    /\ Tick /\ BurnerWrites

(* The wait is over, and with it those of the routines preempted in theirs,*)
(* which only repeat this.  When it ends is the subject of CampLoop.       *)
CooledDown ==
    /\ cooling
    /\ pin' = HeaterSwitch(Reset(pin))
    /\ moduleOn' = {}
    /\ cooling' = FALSE
    /\ BurnerWrites /\ UNCHANGED statDimm
    /\ UNCHANGED <<heater, panel>>

Timer == TickStarts \/ TickGivesUp \/ TickStops \/ CooledDown

Next == Telecommand \/ Timer

Spec == Init /\ [][Next]_vars

-----------------------------------------------------------------------------
(* The relays are driven by three tables written independently: the pins   *)
(* of the telecommands, the pins of the telemetry, the order of the lines. *)
(* Whatever lights, fans and burner do to their pins, the telemetry shows  *)
(* every circuit in the position its last telecommand asked for.           *)
Panel == INSTANCE SwitchPanel
           WITH Circuits <- Circuits, wanted <- wanted, report <- report
PanelSpec == Panel!Spec

(* A light burns exactly when the status kept for it says so, unless a     *)
(* dim/RGB telecommand or the burner (whose water pump has the pin of the  *)
(* RGB light's red) has written its pin since its last effective on/off    *)
(* telecommand: nothing else of the firmware writes the pin of a light.    *)
LightsAsKept ==
    \A l \in (0 .. 2) \ overwritten : pin[LightPin.red[l]] = Digital(statDimm[l] > 0)

(* While the burner cools down nothing stops its water pump or its air fan *)
(* or heats the glow plug, though lights and heater fans share their pins  *)
(* and further timer routines run.                                         *)
CoolingIsKept ==
    cooling => /\ pin[ModulePin.waterPump] = "high" /\ pin[ModulePin.airFan] = "high"
               /\ pin[ModulePin.glowPlug] = "low" /\ pin[ModulePin.cabinHeater] = "low"
=============================================================================
