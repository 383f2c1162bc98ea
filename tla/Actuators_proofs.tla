-------------------------- MODULE Actuators_proofs --------------------------
(***************************************************************************)
(* The separation of the output pins, for every set of commands, lights    *)
(* and heater modes: who shares a pin with whom decides all of it.         *)
(***************************************************************************)
EXTENDS Actuators, TLAPS

USE TableAssumption DEF TableAssumption, Pins, Level, Modules, FanPins

(* Writing some pins leaves the others alone.                              *)
LEMMA WriteOthers ==
    ASSUME NEW p, NEW where, NEW level, NEW q \in Pins, q \notin where
    PROVE  Write(p, where, level)[q] = p[q]
BY DEF Write

(* A write reaches the pins it names.                                      *)
LEMMA WriteThese ==
    ASSUME NEW p, NEW where, NEW level, NEW q \in Pins, q \in where
    PROVE  Write(p, where, level)[q] = level
BY DEF Write

(* The relays stand as they were asked to.                                 *)
RelaysInv ==
    /\ wanted \in [Circuits -> BOOLEAN]
    /\ Reported(pin) = wanted

RelayPins == {33, 34, 35, 40, 41, 42}

(* A step that leaves the relay pins alone keeps what they report.         *)
LEMMA SameReport ==
    ASSUME NEW p, NEW q, \A r \in RelayPins : p[r] = q[r]
    PROVE  Reported(p) = Reported(q)
BY DEF Reported, Circuits, electricalLinesPins, RelayPins

(* No relay is on, asked for or reported at the start.                     *)
LEMMA RelaysInit == Init => RelaysInv
<1>. SUFFICES ASSUME Init PROVE RelaysInv
    OBVIOUS
<1>1. \A r \in RelayPins : pin[r] = "low"
    BY DEF Init, RelayPins
<1>2. \A c \in Circuits : electricalLinesPins[c] \in RelayPins
    BY DEF Circuits, electricalLinesPins, RelayPins
<1>3. Reported(pin) = [c \in Circuits |-> FALSE]
    BY <1>1, <1>2 DEF Reported
<1>. QED
    BY <1>3 DEF RelaysInv, Init

(* No output of a light, a fan or the burner is a relay.                   *)
LEMMA OtherWriters ==
    /\ \A l \in Lights : {LightPin.red[l], LightPin.green[l], LightPin.blue[l]} \cap RelayPins = {}
    /\ {ModulePin[m] : m \in Modules} \cap RelayPins = {}
    /\ FanPins \cap RelayPins = {}
    /\ RelayPins \subseteq Pins
<1>1. \A l \in Lights : {LightPin.red[l], LightPin.green[l], LightPin.blue[l]} \cap RelayPins = {}
    BY DEF LightPin, RelayPins
<1>2. {ModulePin[m] : m \in Modules} \cap RelayPins = {}
    BY DEF ModulePin, RelayPins
<1>. QED
    BY <1>1, <1>2 DEF RelayPins

(* A telecommand for one circuit moves its relay and no other.             *)
LEMMA SwitchStep ==
    ASSUME RelaysInv, NEW c \in Commands, NEW on \in BOOLEAN, SwitchRelay(c, on)
    PROVE  RelaysInv'
<1>1. CommandPin[c] = electricalLinesPins[c] /\ c \in Circuits /\ CommandPin[c] \in Pins
    BY DEF CommandPin, electricalLinesPins, Circuits
<1>2. \A d \in Circuits : electricalLinesPins[d] \in Pins
    BY DEF electricalLinesPins, Circuits
<1>3. \A d \in Circuits \ {c} : electricalLinesPins[d] # electricalLinesPins[c]
    BY <1>1 DEF electricalLinesPins, Circuits
<1>4. \A d \in Circuits : pin'[electricalLinesPins[d]] =
         IF d = c THEN Digital(on) ELSE pin[electricalLinesPins[d]]
    BY <1>1, <1>2, <1>3 DEF SwitchRelay, Write
<1>5. \A d \in Circuits : (pin[electricalLinesPins[d]] = "high") = wanted[d]
    BY DEF RelaysInv, Reported
<1>6. (Digital(on) = "high") = on
    BY DEF Digital
<1>7. \A d \in Circuits : wanted'[d] = IF d = c THEN on ELSE wanted[d]
    BY DEF SwitchRelay, RelaysInv
<1>8. wanted' \in [Circuits -> BOOLEAN]
    BY DEF SwitchRelay, RelaysInv
<1>9. \A d \in Circuits : (pin'[electricalLinesPins[d]] = "high") = wanted'[d]
    BY <1>4, <1>5, <1>6, <1>7
<1>10. Reported(pin)' = wanted'
    BY <1>8, <1>9 DEF Reported
<1>. QED
    BY <1>8, <1>10 DEF RelaysInv

(* Every other step leaves the relay pins alone.                           *)
OtherStep ==
    \/ \E l \in Lights, s \in Statuses : LightOnOff(l, s)
    \/ \E l \in Lights, r, g, b \in PwmLevels : LightCommand(l, r, g, b)
    \/ \E m \in HeaterModes : HeaterGotTC(m)
    \/ HeaterFans \/ HeaterAsked \/ Timer \/ UNCHANGED vars

(* Every step but a relay telecommand leaves the relay pins alone.         *)
LEMMA OtherStepSame ==
    ASSUME OtherStep
    PROVE  \A q \in RelayPins : pin'[q] = pin[q]
<1>. TAKE q \in RelayPins
<1>a. q \in Pins
    BY OtherWriters
<1>1. ASSUME NEW l \in Lights, NEW s \in Statuses, LightOnOff(l, s)
      PROVE  pin'[q] = pin[q]
    BY <1>a, <1>1, OtherWriters DEF LightOnOff, Write
<1>2. ASSUME NEW l \in Lights, NEW r \in PwmLevels, NEW g \in PwmLevels, NEW b \in PwmLevels,
             LightCommand(l, r, g, b)
      PROVE  pin'[q] = pin[q]
  <2>1. q # LightPin.red[l] /\ q # LightPin.green[l] /\ q # LightPin.blue[l]
    BY OtherWriters
  <2>. QED
    BY <1>a, <1>2, <2>1 DEF LightCommand, Write
<1>3. ASSUME NEW m \in HeaterModes, HeaterGotTC(m)
      PROVE  pin'[q] = pin[q]
    BY <1>3 DEF HeaterGotTC, pins
<1>4. CASE HeaterFans
    BY <1>a, <1>4, OtherWriters DEF HeaterFans, Write
<1>5. CASE HeaterAsked \/ UNCHANGED vars
    BY <1>5 DEF HeaterAsked, vars, pins
<1>6. CASE Timer
  <2>1. q \notin FanPins /\ q \notin {ModulePin[m] : m \in Modules}
    BY OtherWriters
  <2>2. \A m \in Modules : q # ModulePin[m]
    BY <2>1
  <2>3. /\ q # ModulePin.airFan /\ q # ModulePin.waterPump
        /\ q # ModulePin.glowPlug /\ q # ModulePin.cabinHeater
    BY DEF ModulePin, RelayPins
  <2>4. \A p : HeaterSwitch(p)[q] = p[q]
    BY <1>a, <2>1 DEF HeaterSwitch, Write
  <2>5. \A p : Reset(p)[q] = p[q]
    BY <1>a, <2>1 DEF Reset, Write
  <2>6. \A p : Start(p, "airFan")[q] = p[q]
    BY <1>a, <2>3 DEF Start, Write
  <2>7. CASE TickStarts
    BY <2>4, <2>5, <2>6, <2>7 DEF TickStarts
  <2>8. CASE TickGivesUp
    BY <2>4, <2>8 DEF TickGivesUp
  <2>9. CASE TickStops
    BY <1>a, <2>3, <2>9 DEF TickStops, Write
  <2>10. CASE CooledDown
    BY <2>4, <2>5, <2>10 DEF CooledDown
  <2>. QED
    BY <1>6, <2>7, <2>8, <2>9, <2>10 DEF Timer
<1>. QED
    BY <1>1, <1>2, <1>3, <1>4, <1>5, <1>6 DEF OtherStep

(* What the panel of the abstract specification sees of such a step.       *)
LEMMA OtherStepPanel ==
    ASSUME OtherStep
    PROVE  wanted' = wanted /\ (report' = report \/ report' = Reported(pin))
BY DEF OtherStep, LightOnOff, LightCommand, HeaterGotTC, HeaterFans, HeaterAsked, Timer,
       TickStarts, TickGivesUp, TickStops, CooledDown, Tick, vars, panel

(* Each step keeps pins, wishes and report together, as the panel does.    *)
LEMMA RelaysStep ==
    ASSUME RelaysInv, [Next]_vars
    PROVE  RelaysInv' /\ [Panel!Next]_(Panel!vars)
<1>1. ASSUME NEW c \in Commands, NEW on \in BOOLEAN, SwitchRelay(c, on)
      PROVE  RelaysInv' /\ [Panel!Next]_(Panel!vars)
  <2>1. RelaysInv'
    BY <1>1, SwitchStep
  <2>2. c \in Circuits
    BY DEF CommandPin, Circuits
  <2>3. Panel!Switch(c, on)
    BY <1>1 DEF SwitchRelay, Panel!Switch
  <2>. QED
    BY <2>1, <2>2, <2>3 DEF Panel!Next
<1>2. CASE OtherStep
  <2>1. Reported(pin') = Reported(pin)
    BY <1>2, OtherStepSame, SameReport
  <2>2. wanted' = wanted /\ (report' = report \/ report' = wanted)
    BY <1>2, OtherStepPanel DEF RelaysInv
  <2>3. RelaysInv'
    BY <2>1, <2>2 DEF RelaysInv, Reported
  <2>4. [Panel!Next]_(Panel!vars)
    BY <2>2 DEF Panel!Next, Panel!Report, Panel!vars
  <2>. QED
    BY <2>3, <2>4
<1>3. OtherStep \/ \E c \in Commands, on \in BOOLEAN : SwitchRelay(c, on)
    BY DEF Next, Telecommand, OtherStep
<1>. QED
    BY <1>1, <1>2, <1>3

(* The firmware's relays and telemetry implement the panel of switches.    *)
THEOREM PanelImplemented == Spec => PanelSpec
<1>1. Init => RelaysInv /\ Panel!Init
    BY RelaysInit DEF Init, Panel!Init, Panel!AllOff
<1>2. RelaysInv /\ [Next]_vars => RelaysInv' /\ [Panel!Next]_(Panel!vars)
    BY RelaysStep
<1>. QED
    BY <1>1, <1>2, PTL DEF Spec, PanelSpec, Panel!Spec

-----------------------------------------------------------------------------
(* The other outputs.                                                      *)

(* Types first: each writer leaves a level on every pin.                   *)
LEMMA WriteType ==
    ASSUME NEW p \in [Pins -> Level], NEW where, NEW level \in Level
    PROVE  Write(p, where, level) \in [Pins -> Level]
BY DEF Write

(* So do the helpers of the timer routine.                                 *)
LEMMA TimerWrites ==
    ASSUME NEW p \in [Pins -> Level]
    PROVE  /\ HeaterSwitch(p) \in [Pins -> Level]
           /\ Reset(p) \in [Pins -> Level]
           /\ \A m \in Modules : Start(p, m) \in [Pins -> Level]
<1>1. "low" \in Level /\ "high" \in Level
    OBVIOUS
<1>. QED
    BY <1>1, WriteType DEF HeaterSwitch, Reset, Start

(* Every step leaves a level on every pin.                                 *)
LEMMA PinStep ==
    ASSUME pin \in [Pins -> Level], [Next]_vars
    PROVE  pin' \in [Pins -> Level]
<1>. USE WriteType, TimerWrites
<1>a. "low" \in Level /\ "high" \in Level /\ \A b \in BOOLEAN : Digital(b) \in Level
    BY DEF Digital
<1>1. ASSUME NEW c \in Commands, NEW on \in BOOLEAN, SwitchRelay(c, on)
      PROVE  pin' \in [Pins -> Level]
    BY <1>1, <1>a DEF SwitchRelay
<1>2. ASSUME NEW l \in Lights, NEW s \in Statuses, LightOnOff(l, s)
      PROVE  pin' \in [Pins -> Level]
  <2>1. Digital(s > 0) \in Level
    BY DEF Digital
  <2>. QED
    BY <1>2, <2>1 DEF LightOnOff
<1>3. ASSUME NEW l \in Lights, NEW r \in PwmLevels, NEW g \in PwmLevels, NEW b \in PwmLevels,
             LightCommand(l, r, g, b)
      PROVE  pin' \in [Pins -> Level]
  <2>1. r \in Level /\ g \in Level /\ b \in Level
    OBVIOUS
  <2>. QED
    BY <1>3, <2>1 DEF LightCommand
<1>4. CASE (\E m \in HeaterModes : HeaterGotTC(m)) \/ HeaterAsked \/ UNCHANGED vars
    BY <1>4 DEF HeaterGotTC, HeaterAsked, vars, pins
<1>5. CASE HeaterFans
    BY <1>5, <1>a DEF HeaterFans
<1>6. CASE TickStarts
  <2>1. "airFan" \in Modules
    OBVIOUS
  <2>. QED
    BY <1>6, <2>1 DEF TickStarts
<1>7. CASE TickGivesUp
    BY <1>7 DEF TickGivesUp
<1>8. CASE TickStops
    BY <1>8, <1>a DEF TickStops
<1>9. CASE CooledDown
    BY <1>9 DEF CooledDown
<1>. QED
    BY <1>1, <1>2, <1>3, <1>4, <1>5, <1>6, <1>7, <1>8, <1>9 DEF Next, Telecommand, Timer

(* Every step preserves the types, the report's from the relay pins.       *)
LEMMA TypeStep ==
    ASSUME TypeOK, RelaysInv, [Next]_vars
    PROVE  TypeOK'
<1>. USE DEF TypeOK
<1>1. pin' \in [Pins -> Level]
    BY PinStep
<1>2. wanted' \in [Circuits -> BOOLEAN]
    BY RelaysStep DEF RelaysInv
<1>3. report' \in [Circuits -> BOOLEAN]
  <2>1. Reported(pin) \in [Circuits -> BOOLEAN]
    BY DEF RelaysInv
  <2>2. report' = report \/ report' = Reported(pin)
    BY OtherStepPanel DEF OtherStep, Next, Telecommand, SwitchRelay
  <2>. QED
    BY <2>1, <2>2
<1>4. statDimm' \in [0 .. 2 -> 0 .. 255] /\ overwritten' \subseteq 0 .. 2
  <2>1. ASSUME NEW l \in Lights, NEW s \in Statuses, LightOnOff(l, s)
        PROVE  statDimm' \in [0 .. 2 -> 0 .. 255] /\ overwritten' \subseteq 0 .. 2
    BY <2>1 DEF LightOnOff
  <2>2. ASSUME NEW l \in Lights, NEW r, NEW g, NEW b, LightCommand(l, r, g, b)
        PROVE  statDimm' \in [0 .. 2 -> 0 .. 255] /\ overwritten' \subseteq 0 .. 2
    BY <2>2 DEF LightCommand
  <2>3. CASE UNCHANGED lights
    BY <2>3 DEF lights
  <2>4. CASE BurnerWrites /\ UNCHANGED statDimm
    BY <2>4 DEF BurnerWrites
  <2>. QED
    BY <2>1, <2>2, <2>3, <2>4
    DEF Next, Telecommand, SwitchRelay, HeaterGotTC, HeaterFans, HeaterAsked, Timer,
        TickStarts, TickGivesUp, TickStops, CooledDown, Tick, lights, vars
<1>5. startingAttempts' \in 0 .. MaxAttempts
  <2>1. CASE TickStarts
    BY <2>1 DEF TickStarts
  <2>2. CASE startingAttempts' = startingAttempts
    BY <2>2
  <2>. QED
    BY <2>1, <2>2
    DEF Next, Telecommand, SwitchRelay, LightOnOff, LightCommand, HeaterGotTC, HeaterFans,
        HeaterAsked, Timer, TickGivesUp, TickStops, CooledDown, vars, heater
<1>5a. needHeaterOn' \in BOOLEAN
  <2>1. ASSUME NEW m \in HeaterModes, HeaterGotTC(m)
        PROVE  needHeaterOn' \in BOOLEAN
    <3>1. (m \in {"HOT_MANUAL", "HOT_AUTO"}) \in BOOLEAN
      OBVIOUS
    <3>. QED
      BY <2>1, <3>1, Zenon DEF HeaterGotTC
  <2>2. CASE needHeaterOn' = needHeaterOn
    BY <2>2
  <2>. QED
    BY <2>1, <2>2
    DEF Next, Telecommand, SwitchRelay, LightOnOff, LightCommand, HeaterFans, HeaterAsked,
        Timer, TickStarts, TickGivesUp, TickStops, CooledDown, vars, heater
<1>5b. cooling' \in BOOLEAN
    BY DEF Next, Telecommand, SwitchRelay, LightOnOff, LightCommand, HeaterGotTC, HeaterFans,
           HeaterAsked, Timer, TickStarts, TickGivesUp, TickStops, CooledDown, vars, heater
<1>6. askedState' \in {"OFF"} \cup HeaterModes /\ main' \in {"idle"} \cup HeaterModes
    BY DEF Next, Telecommand, SwitchRelay, LightOnOff, LightCommand, HeaterGotTC, HeaterFans,
           HeaterAsked, Timer, TickStarts, TickGivesUp, TickStops, CooledDown, vars, heater
<1>7. moduleOn' \subseteq Modules
  <2>1. CASE TickStarts \/ TickStops \/ CooledDown
    <3>1. \/ moduleOn' = {"airFan"}
          \/ moduleOn' = {"waterPump", "airFan"}
          \/ moduleOn' = {}
      BY <2>1, Zenon DEF TickStarts, TickStops, CooledDown
    <3>. QED
      BY <3>1 DEF Modules
  <2>2. CASE moduleOn' = moduleOn
    BY <2>2
  <2>. QED
    BY <2>1, <2>2
    DEF Next, Telecommand, SwitchRelay, LightOnOff, LightCommand, HeaterGotTC,
        HeaterFans, HeaterAsked, Timer, TickGivesUp, vars, pins
<1>. QED
    BY <1>1, <1>2, <1>3, <1>4, <1>5, <1>5a, <1>5b, <1>6, <1>7

(* Who writes the pins of the lights.                                      *)
LEMMA LightsStep ==
    ASSUME TypeOK, LightsAsKept, [Next]_vars
    PROVE  LightsAsKept'
<1>. USE DEF LightsAsKept, TypeOK
<1>. SUFFICES ASSUME NEW k \in 0 .. 2, k \notin overwritten'
              PROVE  pin'[LightPin.red[k]] = Digital(statDimm'[k] > 0)
    OBVIOUS
<1>a. /\ LightPin.red[0] = 36 /\ LightPin.red[1] = 37 /\ LightPin.red[2] = 5
      /\ \A l \in 0 .. 2 : LightPin.green[l] \in {0, 6} /\ LightPin.blue[l] \in {0, 7}
    BY DEF LightPin
<1>b. LightPin.red[k] \in {36, 37, 5} /\ LightPin.red[k] \in Pins
    BY <1>a
<1>c. \A l \in 0 .. 2 : l # k => LightPin.red[l] # LightPin.red[k]
    BY <1>a
<1>e. k \notin overwritten => pin[LightPin.red[k]] = Digital(statDimm[k] > 0)
    OBVIOUS
<1>1. ASSUME NEW c \in Commands, NEW on \in BOOLEAN, SwitchRelay(c, on)
      PROVE  pin'[LightPin.red[k]] = Digital(statDimm'[k] > 0)
  <2>1. CommandPin[c] \in {33, 34, 35, 40, 41}
    BY DEF CommandPin
  <2>. QED
    BY <1>1, <1>b, <1>e, <2>1 DEF SwitchRelay, Write, lights
<1>2. ASSUME NEW l \in Lights, NEW s \in Statuses, LightOnOff(l, s)
      PROVE  pin'[LightPin.red[k]] = Digital(statDimm'[k] > 0)
  <2>1. CASE l = k
    BY <1>2, <1>b, <2>1 DEF LightOnOff, Write
  <2>2. CASE l # k
    BY <1>2, <1>b, <1>c, <1>e, <2>2 DEF LightOnOff, Write
  <2>. QED
    BY <2>1, <2>2
<1>3. ASSUME NEW l \in Lights, NEW r \in PwmLevels, NEW g \in PwmLevels, NEW b \in PwmLevels,
             LightCommand(l, r, g, b)
      PROVE  pin'[LightPin.red[k]] = Digital(statDimm'[k] > 0)
  <2>1. l # k
    BY <1>3 DEF LightCommand
  <2>2. LightPin.red[k] \notin {LightPin.red[l], LightPin.green[l], LightPin.blue[l]}
    BY <1>a, <1>b, <1>c, <2>1
  <2>. QED
    BY <1>3, <1>b, <1>e, <2>2 DEF LightCommand, Write
<1>4. CASE (\E m \in HeaterModes : HeaterGotTC(m)) \/ HeaterAsked \/ UNCHANGED vars
    BY <1>4, <1>e DEF HeaterGotTC, HeaterAsked, vars, pins, lights
<1>5. CASE HeaterFans
    BY <1>5, <1>b, <1>e DEF HeaterFans, Write, lights
<1>6. CASE Timer
  <2>1. statDimm' = statDimm /\ (UNCHANGED overwritten \/ BurnerWrites)
    BY <1>6 DEF Timer, TickStarts, TickGivesUp, TickStops, CooledDown, Tick
  <2>2. \A p : HeaterSwitch(p)[LightPin.red[k]] = p[LightPin.red[k]]
    BY <1>b DEF HeaterSwitch, Write
  <2>3. k \notin overwritten
    BY <2>1 DEF BurnerWrites
  <2>4. BurnerWrites => \A m \in Modules : ModulePin[m] # LightPin.red[k]
    BY DEF BurnerWrites
  <2>5. ASSUME BurnerWrites
        PROVE  \A p : /\ Reset(p)[LightPin.red[k]] = p[LightPin.red[k]]
                      /\ Start(p, "airFan")[LightPin.red[k]] = p[LightPin.red[k]]
    BY <1>b, <2>4, <2>5 DEF Reset, Start, Write
  <2>6. CASE TickStarts
    BY <1>e, <2>1, <2>2, <2>3, <2>5, <2>6 DEF TickStarts
  <2>7. CASE TickGivesUp
    BY <1>e, <2>1, <2>2, <2>3, <2>7 DEF TickGivesUp
  <2>8. CASE TickStops
    BY <1>b, <1>e, <2>1, <2>3, <2>4, <2>8 DEF TickStops, Write, ModulePin
  <2>9. CASE CooledDown
    BY <1>e, <2>1, <2>2, <2>3, <2>5, <2>9 DEF CooledDown
  <2>. QED
    BY <1>6, <2>6, <2>7, <2>8, <2>9 DEF Timer
<1>. QED
    BY <1>1, <1>2, <1>3, <1>4, <1>5, <1>6 DEF Next, Telecommand

(* Who writes the pins of the burner: the lights share two of them, and    *)
(* while a timer routine waits no telecommand is executed.                 *)
BurnerInv ==
    /\ CoolingIsKept
    /\ cooling => ~needHeaterOn

(* Nothing undoes a cool-down.                                             *)
LEMMA BurnerStep ==
    ASSUME TypeOK, BurnerInv, [Next]_vars
    PROVE  BurnerInv'
<1>. USE DEF BurnerInv, CoolingIsKept, ModulePin
<1>1. ASSUME NEW c \in Commands, NEW on \in BOOLEAN, SwitchRelay(c, on)
      PROVE  BurnerInv'
  <2>1. CommandPin[c] \in {33, 34, 35, 40, 41}
    BY DEF CommandPin
  <2>. QED
    BY <1>1, <2>1 DEF SwitchRelay, Write, heater
<1>2. ASSUME NEW l \in Lights, NEW s \in Statuses, LightOnOff(l, s)
      PROVE  BurnerInv'
  <2>1. LightPin.red[l] \in {36, 37, 5}
    BY DEF LightPin
  <2>. QED
    BY <1>2, <2>1 DEF LightOnOff, Write, heater
<1>3. ASSUME NEW l \in Lights, NEW r \in PwmLevels, NEW g \in PwmLevels, NEW b \in PwmLevels,
             LightCommand(l, r, g, b)
      PROVE  BurnerInv'
  <2>1. /\ LightPin.red[l] \in {36, 37, 5} /\ LightPin.green[l] \in {0, 6}
        /\ LightPin.blue[l] \in {0, 7}
    BY DEF LightPin
  <2>. QED
    BY <1>3, <2>1 DEF LightCommand, Write, heater
<1>4. CASE (\E m \in HeaterModes : HeaterGotTC(m)) \/ HeaterAsked \/ UNCHANGED vars
    BY <1>4 DEF HeaterGotTC, HeaterAsked, vars, pins, heater
<1>5. CASE HeaterFans
    BY <1>5 DEF HeaterFans, Write
<1>6. CASE TickStarts \/ TickGivesUp
    BY <1>6 DEF TickStarts, TickGivesUp, HeaterSwitch, Start, Reset, Write
<1>7. CASE TickStops
    BY <1>7 DEF TickStops, Write, heater
<1>8. CASE CooledDown
    BY <1>8 DEF CooledDown, HeaterSwitch, Reset, Write, heater
<1>. QED
    BY <1>1, <1>2, <1>3, <1>4, <1>5, <1>6, <1>7, <1>8 DEF Next, Telecommand, Timer

OutputInv == TypeOK /\ RelaysInv /\ LightsAsKept /\ BurnerInv

(* The parts of the invariant hold when the pins are set up.               *)
LEMMA OutputInit == Init => OutputInv
<1>. SUFFICES ASSUME Init PROVE OutputInv
    OBVIOUS
<1>1. TypeOK
  <2>1. pin \in [Pins -> Level] /\ statDimm \in [0 .. 2 -> 0 .. 255]
    BY DEF Init
  <2>2. report \in [Circuits -> BOOLEAN] /\ wanted \in [Circuits -> BOOLEAN]
    BY DEF Init
  <2>3. needHeaterOn \in BOOLEAN /\ cooling \in BOOLEAN
    BY DEF Init
  <2>4. startingAttempts \in 0 .. MaxAttempts
    BY DEF Init
  <2>5. /\ askedState \in {"OFF"} \cup HeaterModes /\ main \in {"idle"} \cup HeaterModes
        /\ moduleOn \subseteq Modules /\ overwritten \subseteq 0 .. 2
    BY DEF Init
  <2>. QED
    BY <2>1, <2>2, <2>3, <2>4, <2>5 DEF TypeOK
<1>2. LightsAsKept
    BY DEF Init, LightsAsKept, LightPin, Digital
<1>3. BurnerInv
    BY DEF Init, BurnerInv, CoolingIsKept, ModulePin
<1>. QED
    BY <1>1, <1>2, <1>3, RelaysInit DEF OutputInv

(* The invariant, of which the parts below are taken.                      *)
LEMMA OutputInvariant == Spec => []OutputInv
<1>1. OutputInv /\ [Next]_vars => OutputInv'
    BY TypeStep, RelaysStep, LightsStep, BurnerStep DEF OutputInv
<1>. QED
    BY OutputInit, <1>1, PTL DEF Spec

(* Every light that only its on/off telecommands wrote since the last of   *)
(* them burns as its status says.                                          *)
THEOREM LightsKept == Spec => []LightsAsKept
BY OutputInvariant, PTL DEF OutputInv

(* The cool-down is never disturbed.                                       *)
THEOREM BurnerOutputs == Spec => [](TypeOK /\ CoolingIsKept)
BY OutputInvariant, PTL DEF OutputInv, BurnerInv

(* The pins and the records kept beside them keep their types.             *)
THEOREM OutputTypes == Spec => []TypeOK
BY BurnerOutputs, PTL
=============================================================================
