# FreakyCamper: a TLA+ verification of the camper manager

FreakyCamper is the firmware of an Arduino Mega ADK in a camper van. A tablet
on the USB port sends it *telecommands* (relays, lights, heater) and shows its
*telemetry* (temperatures, currents, tank level, relay positions); the firmware
also drives a converted Webasto fuel burner. The firmware itself is
`src/FreakyCampManager/`; the other directories under `src/` are vendored
Arduino libraries, of which it uses the USB host stack with its ADK driver,
DallasTemperature, OneWire and Timer1.

These modules were written from the code. Module comments name the functions
they model; `PROJECT.json` ("map") has the lines of every definition.

## 1. Inventory

| Component | State it keeps | Operations | Model |
|---|---|---|---|
| Telecommand receiver (`freakyCampManager.cpp`) | `rxBuffer`, `rxCounter`, `headerCount`, `footerCount`, `readyForDatas` | one received byte | `TcReceiver`, `TcLink` |
| Main loop and timer routine (`freakyCampManager.cpp`, `protocol.cpp`) | `txBuffer`, `watchdog`, the interrupt flag, the stack | `freakyCampManagerLoop`; `timerIsr` every 2 s: `campManagerPool`, `sendAllTelemetry`, `sendTM` | `CampLoop` |
| Burner controller (`webasto.cpp`) | `systemState`, `startingAttempts`, two temperatures, module pins | `startWebasto`, `stopWebasto`, `poolWebasto`, `turnOnOffSystem`, `wait`, `pulseFuelPump` | `Webasto` |
| Telecommand execution (`protocol.cpp`, `electrical.cpp`, `light.cpp`, `masterConf.*`) | output pins, `lightsConf` | `processReceivedCommand`, `switchRelay`, `lightOnOff`, `lightCommand`, `tmBuilderSwitch` | `Actuators`, abstract: `SwitchPanel` |
| Heater logic (`heater.cpp`) | `needHeaterOn`, `askedState`, `actualState` | `heaterGotTC`, `handleHeater` | `Actuators`, `CampLoop`, `Webasto` (each the part it needs) |
| Encodings (`protocol.cpp`, `water.cpp`, `current.cpp`, `tension.cpp`, `light.cpp`, `DallasTemperature.cpp`) | the last readings | `formatTempData`, `getCleanWaterLevel`, `poolCurrentSensors`, `setLightDimmedRGBValue`, `rawToCelsius` | `Conversions` |
| Timer1 (`TimerOne.cpp`) | prescaler, period register | `initialize`, `setPeriod` | `Conversions`; its interrupt: `CampLoop` |
| USB link (`Usb.cpp`, `adk.cpp`, `address.h`) | task state, address pool, `bAddress`, `ready`, endpoint records | `Task`, `Configuring`, `AttemptConfig`, `DefaultAddressing`, `ADK::ConfigureDevice`, `Init`, `Release`; `handleUsbError` | `UsbLink`, abstract: `LinkSession` |
| USB data transfers (`Usb.cpp`) | toggles of the endpoint record and of the chip | `OutTransfer`, `InTransfer`, `dispatchPkt` | `UsbTransfer` |
| MAX3421E (`usbhost.h`) | latched interrupt, `vbusState` | `busprobe`, `Task`, `IntHandler` | `UsbLink`; SPI itself is not modelled |
| Probes (`temperatureSensors.cpp`, `DallasTemperature.cpp`) | `bitResolution`, the probes' resolutions | `begin`, `setResolution`, `getAddress`, `requestTemperatures` | `Probes` |
| OneWire search (`OneWire.cpp`) | `ROM_NO`, `LastDiscrepancy`, `LastDeviceFlag` | `reset_search`, `search` | `OneWire` |
| Water flow, buttons, other USB drivers, Adb, examples | | not called, or not in the binary | section 7 |

**How they interact.** There are two activities on one processor. The main loop
polls: USB task, `adk.isReady`, at most one byte received, the receiver, and a
telecommand when a frame is complete; then 25 ms of delay. The interrupt of
Timer1, every 2 s, reads all sensors, sends three telemetry messages, and runs
the heater logic, which calls the burner controller. They share `txBuffer`, the
output pins, `needHeaterOn`, `askedState`, `watchdog` and the USB stack, without
a lock. Reading the probes enables interrupts inside the interrupt (OneWire ends
each of its time slots with `interrupts()`), so the timer routine can be
preempted by itself. A telemetry transfer that meets a wrong PID releases the
USB driver, from the interrupt, between any two steps of the main loop's
enumeration. The remote switch of the burner is a third activity
(`turnOnOffSystem`); its `attachInterrupt` is commented out, and so is the
thermocouple. The tablet, the line, the probes and their bus act by themselves.

**What is hard.** Interleavings of the two activities in the shared buffer, on
shared pins and in the USB stack; a 60-second wait inside an interrupt that
comes every 2 s; a byte stream that may be cut, noisy or restarted anywhere; the
order of glow plug, fan, water pump, fuel and cabin heater when every wait can
be interrupted; a tablet that leaves, returns and switches mode at any step of
two interlocked configurations; packets and handshakes lost in either
direction; probes that come, go or are misread inside a search; three unrelated
outputs on one pin; arithmetic in 8, 16 and 32 bits. The hazards, each at its
line, are in `PROJECT.json`.

**What makes each component correct.**
- *Receiver*: a well-formed frame is executed, once, with its own bytes,
  whatever preceded it; nothing is executed that was not framed.
- *Loop*: messages leave whole; routines do not overlap in the sensors or the
  telemetry; the timer routine returns.
- *Burner*: in a combustion no fuel without circulating water and a hot plug or
  the air fan; no cabin heat before the temperature has risen; every start
  returns; no fuel, plug or cabin heat without a temperature reading; no fuel
  outside a combustion (which does not hold).
- *Execution*: each circuit is where its last telecommand put it, and reported
  there; a light nothing else has written is what its record says; nothing undoes a cool-down.
- *Encodings*: a code means what was measured, and keeps its order; the timer
  counts the period asked for.
- *USB link*: it is used in sessions; a ready driver is usable; no address is
  lost; enumeration ends; a departure is noticed.
- *Transfers*: each packet is delivered once and in order, toggles stay in step
  from one transfer to the next, every transfer returns.
- *Probes*: a search finds each device once; a request returns after the
  conversions of the probes whose resolution is known; initialisation ends.

## 2. Modules

### `TcReceiver`, `TcLink` (with `MCTcLink`)
`TcReceiver` is the byte automaton of `freakyCampManagerLoop:79-115`: one action
per branch (`HeaderByte`, `EarlyFooter`, `LastFooter`, `PayloadByte`,
`SkippedByte`), the variables named as in the code, and `command` for the length
given to `processReceivedCommand` by this byte. The receive counter is modular
and the buffer finite, as in the code; what is stored past the buffer is not
modelled. `TcLink` drives it with an arbitrary stream and follows that stream
with a *strict reading* (history variables that look only at the bytes, by the
layout `sendTM` produces).

### `CampLoop`
The program counter of the main loop, a stack of timer routines with a place
each, the interrupt flag, a pending interrupt, and what `txBuffer` holds (a
message's payload, its frame, or a mixture). `PeriodPasses` is time, with an assumption: a tick comes while the main
loop runs or a routine waits in its cool-down, not while a routine reads its
sensors or sends. It is not the interrupt flag that rules the others out. The
flag is set from the first probe on (`freakyCampManager.cpp:198`,
`OneWire.cpp:146`); what rules them out is time. A routine begins with a period,
waits at most 750 ms for the conversions of its probes, and gives up a transfer
at the tablet's first NAK or after three bus timeouts of a fraction of a
millisecond, so it is at its heater long before 2 s are over. The mutant of
`TimerTelemetryIntact` is a transfer that outlasts the period. The last step of
`Timer` clears or counts the watchdog. The length of the wait is a variable that
never changes, so that one run covers several.

### `Webasto`
The controller as one running call with its place (`at`), and under it the calls
it has preempted (`below`). Each action is the code between two places where the
controller waits or looks at `systemState`. A wait begins (`EnterWait`, which
reads the state to compare with), and ends early (`Interrupted`) or expires.
Readings are any member of `Readings`; 0 is "sensor off", and what `measureTemp`
always returns in the build.

It has two callers, one to a behaviour. `"loop"` is the program `webasto.cpp` is
written for: `poolWebasto` is polled, with a working thermocouple, and the remote
switch (`turnOnOffSystem`) presses at any point. Neither is called in this
firmware. `"timer"` is the program as it is wired: `handleHeater` calls
`startWebasto` or `stopWebasto` from the interrupt of Timer1, as `needHeaterOn`
says, every period and also while an earlier call waits. Then waits are counted
in periods (`StartTicks`, `WarmTicks`, `CoolDowns`), each tick shortens those of
all the calls below, and `MaxDepth` is the memory of the stack. A call that
returns takes up the one below it. The timer does not measure
`initialTemperature`; only `poolWebasto` does.

### `SwitchPanel`, `Actuators`
`Actuators` has the pins by number, because outputs share them: pin 3 is burner
air fan and heater fan 2, pins 5 and 6 are burner water pump and glow plug and
red and green of the RGB light, pin 0 is green and blue of the plain lights. Each
telecommand is an action; `heaterGotTC` is two, since the timer routine can run
in between. A timer tick reports the relays and then runs `handleHeater`:
`startWebasto` in its reach without thermocouple (purge, then give up), or
`stopWebasto` up to its wait. `SwitchPanel` is what the firmware promises: a
panel of switches and a report. `Actuators` implements it with
`wanted`, the history of telecommands, and the three pin tables have to agree
for that. `overwritten` is history too: the lights whose output a dim
telecommand, or the burner on pin 5, has written since their own telecommand.

### `Conversions` (with `MCConversions`)
One action per conversion; the state keeps the last input and output, so that
action properties compare two in a row (order, distinctness). Byte and 16-bit
overflow, truncation towards zero and the library's limit for a disconnected
probe are there. The message of tensions is
built and not sent in this build, that of currents not even built; the probes
are all DS18B20, so the branch of `calculateTemperature` for a DS18S20 is not
there. Divisions by 4.19 are integer divisions by 419 of 100 times the
dividend: the float quotient has the same integer part for every sample.
`setPeriod` is the cascade of prescalers of `TimerOne.cpp:58-66`: `Prescalers`
lists what each test has divided by, `Finest` is the first that fits, and the
inputs go up to 268435455 µs, beyond which 8 times the period overflows a long.

### `LinkSession`, `UsbLink`
`UsbLink` has the line and the tablet (attached, detached, disturbed, in its own
mode or as an accessory, with the address and configuration it was given), the
chip's latched interrupt with the last `busprobe`, the task state of `USB::Task`,
and a place (`at`) in `Configuring`, one step per USB request: a request
succeeds or fails with the tablet as it is at that moment, so the tablet can
leave or return between any two. What is done with its result is a step of its
own (`setEpInfoEntry` after the delay of `setAddr`, the endpoint records, the
jump to `FailOnInit`), so the timer can come between; and where the main loop
releases the driver, freeing the entry and clearing `bAddress` are two steps
(`ReleaseBegins`, `ReleaseEnds`). A function of the pool is one step. A release in the
middle of `setEpInfoEntry`, between its look-up and its write, would mark a freed
entry; that is left out. `attempt` says which driver function
`AttemptConfig` is in, from which of the two loops of `Configuring`, and how
often it has jumped back. The address pool is an array with the entry, the
address and the number of endpoints: `EndpointXtract`, `Release` and
`DefaultAddressing` each write part of an entry, and which part is what the
properties hang on. `HandleUsbError` is the error path of `sendTM` in the timer
interrupt. `trouble` is history: what has gone wrong since the driver was last
released.

`LinkSession` is the link as the main loop may rely on it: none, opening, open,
closed. `UsbLink` implements it with the mapping `Session` (open is `ready`; the
rest by the task state).

### `UsbTransfer`
A pair of bulk endpoints: the toggle of the endpoint record, the one in the
chip, the one in the tablet. A transaction has any result; on an OUT whose
handshake is lost the tablet may or may not have taken the packet, and after an
IN the acknowledgement may or may not be heard. `Count` and `GivesUp` are the
NAK and retry limits of `dispatchPkt` and of the loop in `OutTransfer`, the
counter modular as in the code; `late` is the end of `USB_XFER_TIMEOUT`;
`Reattach` resets the tablet's toggles and not the host's, as
`SET_CONFIGURATION` does. `ToggleAfter` is the code's reaction to `hrTOGERR`, and
`history.flipped` tells that it changed the receive toggle.
Packets are their numbers in the transfer.

### `OneWire`, `Probes` (with `MCProbes`)
`OneWire` is the search, a step for each bit: the devices still answering put
the bit and its complement on the wire, the master chooses and they go on or
drop out. What one call leaves for the next is `ROM_NO`, `LastDiscrepancy` and
`LastDeviceFlag`. Devices come and go between any two bits and a pair can be
misread; each is counted as a fault, up to `MaxFaults`. A code's CRC is
membership in `Genuine`. `Probes` is what the firmware does with it: `begin`,
then for each probe `setResolution` and `getAddress` (a search to an index),
then `requestTemperatures` with its wait; times are compared as resolutions,
since a finer one takes longer. `begin` reads each probe twice, because `max` is a
macro (`DallasTemperature.cpp:51`): `FinestRead` has both answers, each of which may
be misread, and `known` is history, the probes whose resolution it has taken in
and not lost since.

### `*_proofs`
One for each component with theorems; see section 5.

## 3. Runs

| Run | Question | Bounds and why they are enough |
|---|---|---|
| `tclink` | Does framing survive every byte stream? | Delimiter count 4 as in `protocol.h`; buffer of 3 with counter modulus 6 for 32 and 256: payloads shorter than, equal to and beyond the buffer, and a wrap, all occur. Two data values tell any two bytes apart. |
| `webasto` | Is the burner sequence safe whenever it is interrupted, and what does the timer make of it? | The pulses 15, 20, 60, 1000 become 1, 2, 3, 5: only their order matters to the code. Readings on both sides of each threshold (0, 15, 25, 26, 30, 70). Waits of 7, 2 and 3 periods (7, 2 and 30 in the code), three attempts as in the code, and memory for 4 preempted calls, more than a start can have below it. Cool-downs that outlast the stack's memory stop there (`CHECK_DEADLOCK FALSE`). |
| `camploop` | Do the loop and nested timer routines respect each other? | Stack for 4 routines and a cool-down of 3 periods (30 in the code): a routine is preempted by as many as fit before its wait could end. The run also takes a cool-down shorter than a period, the only kind whose wait ends. A full stack is the state `crashed`, in which the system stops (`CHECK_DEADLOCK FALSE`). |
| `actuators` | Do telecommands and ticks respect each other's pins? | Two circuits whose lines are neither first nor adjacent, one plain and the RGB light, two brightness values, a mode of each kind, one start attempt. The third light is as the first, and in the theorem. |
| `conversions` | Do codes mean what was measured, does the timer count what was asked? | All probe values in quarters of a degree, all converter readings, pairs of samples around each boundary, periods on both sides of every change of prescaler and the longest. |
| `usblink` | Does the link survive a tablet and a telemetry error at any step? | Two addresses (`PoolSize` 3, entry 0 is the default one): one for the driver, one that can be lost, then a full pool. One repetition (3 in the code): a first and a last one. |
| `usbtransfer` | Are packets delivered once and in order, and do toggles stay in step? | Endpoints that do not count NAKs and that give up at the first, as the ADK's do; a NAK counter that wraps at 3; three repetitions as in the code; transfers of one and two packets: one with and one without a predecessor in the same transfer. |
| `probes` | Does the search find what is there, does a request wait for it? | Codes of 4 bits, two of them family; three devices that fork at the first and at a later bit; one more code with a good CRC by chance; two faults, so that one can follow from, or hide, the other, and both of begin's reads of a probe can go wrong. Resolutions 9, 10 and 12: below, at and above what the firmware sets. |

What they show beyond the names of the properties:
- `ReadyIsUsable`: when the main loop exchanges data with an accessory, the
  tablet is configured at the driver's address and the pool has the driver's
  endpoints, in the absence of what `trouble` lists: each item has a behaviour
  that would break it.
- `NoAddressLost`: all paths give back the address they took, except
  `DefaultAddressing`, whose address nobody holds. One device that no driver
  wants costs an entry of the pool for the life of the firmware.
- `DepartureIsNoticed`: excepted are the way out by the illegal line state (the
  drivers are released only on the way from attached to detached,
  `Usb.cpp:443`), and a change of the line between the reading of `busprobe` and
  the clearing of the interrupt (`usbhost.h:431-436`), which is lost.
- `OutDelivers` is stated within the transfer's time and from toggles in step;
  `OutStaysInStep` with every handshake heard; `ReceivedOnce` and
  `InStaysInStep` as long as `hrTOGERR` left the toggle as it was. Outside
  these the code has no way back (section 6).
- `FlipPutsOutOfStep` is the other side of that exception: the first `hrTOGERR`
  that changes the receive toggle has met a copy while the chip's two toggles
  were equal, and leaves host and tablet out of step.
- `ConversionsComplete`: begin's `bitResolution` is the finest it read, so later
  changes to 10 bits are covered if it waits for at least 10. Excepted are
  probes it has forgotten: a misread second answer makes `bitResolution` 0, and
  the next probe then sets the wait, 94 or 188 ms, for those at 12 bits too.
- `FuelIsSafe` and `CabinHeatIsProved` are about a sequence in progress. What an
  abandoned one leaves on, pump and cabin heater, stays on until a reset, and
  the pump beyond it (`webasto_pump`). The rise is against the temperature
  `poolWebasto` read last, before that start.
- `TimerNeverLights`: as it is wired the burner cannot light, whatever a
  thermocouple would read. The purge takes the ends of seven periods; by then
  the starts that preempt it have used up the three attempts, and the fourth
  sets `SYSTEM_STOPPING`, at which all the waiting ones return.
- `ControllerReturns` is about starts, and about all calls of the polled loop.
  `stopWebasto` in the timer does not return: `camploop_returns`.
- `LightsAsKept` says when record and output agree: until something else writes
  the output. A telecommand that the record then says is done is ignored.

Violations, each a statement of a comment that the code does not satisfy:
- `webasto_pump` (`PumpIsOffAfterReset`): an interrupted fuel pulse leaves the
  pump on, `resetAllModules` ("Turn off all modules", `webasto.cpp:581`) does not
  turn it off, and the next start purges with it running.
- `camploop_returns` (`TimerReturns`): with no heat asked for, each timer
  routine is preempted in its 60 s wait by the next; the main loop is never
  resumed and the stack fills. `HeatingReturns` of `camploop` is the other case; and
  with a wait shorter than a period each routine would return.
- `usblink_accessory` (`SuccessIsNoError`): a tablet that is already an
  accessory is configured by the probe of `AttemptConfig`, refused as in use by
  the second call, and reset: the task ends in its error state with a driver
  that calls itself ready.
- `conversions_probe` (`AnsweringIsConnected`): a probe at -15.875 degrees or
  less is taken for disconnected, and sent as +1 degree.

Every property of a passing run is broken by a mutant of the code's own
definition, kept beside it (operators commented "Mutant of ...").

## 4. Fairness

Safety needs none. For liveness:
- `CampLoop`: a runnable activity proceeds, a pending enabled interrupt is
  taken, and Timer1 keeps counting (weak fairness of each): that is what the
  processor does.
- `Webasto`: the controller's steps when they are due, that is, straight-line
  code runs, and a wait ends once its periods are over or it has seen a change of
  `systemState` (`Due`); that a critical temperature ends a wait is not assumed.
  `poolWebasto` is polled, and Timer1 keeps coming, if there is memory. Nothing
  of the remote switch or of telecommands.
- `UsbLink`: the main loop keeps calling `Task`, which it does only while heat is
  asked for (`camploop_returns`), requests return (they have
  limits, see `TransfersReturn`), and the settle time, the reset and the first
  frame come to an end. Three steps of `Task` have fairness of their own
  because `Task` can always also find nothing new. Nothing of the tablet, the
  line or the timer's error handling.
- `UsbTransfer`: the next transaction is made, and time goes on. A transaction
  has `OutTransfer`'s wait for the chip's `HXFRDNIRQ` in it, which has no limit
  (`Usb.cpp:326`, `:358`): it ends if no other transfer clears that flag, an
  assumption of section 7. `TransfersReturn`
  for IN excepts an endpoint that reports `hrTOGERR` for ever: `dispatchPkt` has
  no limit for it and `InTransfer` asks again at once (`continue`).
- `Probes`: the processor goes on. Faults are bounded, so the bus is left alone
  in the end.

## 5. Proofs

Each `*_proofs` module proves, with TLAPS and for every value of the constants
under the named assumptions of its component, properties the runs check on a
small instance.

- `TcLink_proofs`: `LinkInv` is inductive: `RxInv` (what the counters mean in
  the two modes), `Tracking` (what the strict reading says of them; this is what makes
  a clean frame found after garbage) and `Framing` (delimiters heard since the
  last execution). `CleanFrameExecuted` and `ExecutionIsFramed` are not
  inductive alone, since they say nothing of a half-received frame. Assumption:
  the receive counter does not wrap inside the buffer.
- `CampLoop_proofs`: `LoopInv` relates the running routine's place to the
  interrupt flag, the pending interrupt and the buffer's content. From it:
  `TimerTelemetryIntact` and `HeatingDoesNotNest`, for any
  cool-down and stack; and `LoopTypes`. All under the assumption on time of
  section 2. `WaitNeverEnds` is the counterexample of
  `TimerReturns` as a theorem: a wait is over only when its time is, and then the
  interrupt of the period that ended it is pending (`WaitInv`), so the next routine comes
  first and waits too. `HeatingIsBounded` is the other half: with heat asked
  for, nothing but the routine itself can run, and each of its steps brings it
  nearer to its end.
- `Webasto_proofs`: `SequenceInv`, what is on in each phase; from it
  `FuelIsSafe` and `CabinHeatIsProved` for any readings, pulse numbers in
  order, switch presses and ticks; `BurnerTypes`; `NoFuelWithoutReading` from an
  invariant of its own (no wait of a start expires), for which there is no run.
  `TimerNeverLights` from `TimerInv`, an account of the periods: what a waiting
  start has left, the attempts made and the one about to be made stay above the
  length of the purge (`StillDue`), so none expires before one gives up. It needs
  `MaxAttempts < StartTicks` (3 and 7).
  `OffIsCold`: off means glow plug and cabin heater off; of the fuel pump
  `webasto_pump` shows that it does not.
  `SequenceBounded`: `StepsLeft` decreases at every step of a call from the loop.
- `Actuators_proofs`: the refinement `PanelImplemented`, from `RelaysInv` (the
  pins, the wishes and the report agree, line by line); `LightsKept`
  for all three lights;
  `BurnerOutputs`, which needs that a cool-down in progress
  rules out a start, whose reset would end it: while one waits, the main loop,
  which alone sets `needHeaterOn`, does not run. `OutputTypes`.
- `Conversions_proofs`: each conversion as a lemma over all its arguments, then
  `TemperaturesShown`, `CurrentsShown`, `LightsDimmed`, `CodesFit`, `PeriodsKept`
  and `OrderShown` for every set of inputs. That two currents are never built
  into the same bytes although 100 times the reading overflows rests on the
  converter's 10 bits (100 m = 100 n modulo 65536 only if m = n). `PeriodsKept`
  follows the five shifts one after the other: each divides what the one before
  left, and the remainders stay below a tick. `OrderShown` also has
  `WarmerNeverBelow`, for which there is no run. `ColdIsMissing` says for which
  registers `AnsweringIsConnected` fails: all from -15.875 degrees down, which
  are sent as one degree above zero.
- `UsbLink_proofs`: the types with `StepInv` (a place in `Configuring` exactly in
  the configuring state) are inductive; from them `SessionImplemented`, the
  refinement of `LinkSession`, action by action: only `ADK::Init` makes the
  driver ready, and only within an enumeration. `AddressesHeld` rests on the
  uniqueness of the driver's entry: `FreedOnce` and `AllocatedHolds` say what
  freeing and allocating do to the other entries, and every path of `Init` that
  gives the entry back clears `bAddress` with it. `AddressesReturned` counts the
  entries: freeing the driver's address takes one from `Holding(pool, 1)`,
  allocating adds one, `setEpInfoEntry` none, so outside `DefaultAddressing` the
  difference to the driver's own stays; in the main loop's release, between its
  two steps, the driver's own is already counted out (`Releasing`). `ReadyUsable` needs one invariant more,
  `LinkInv`: at each place of `Configuring`, what driver, pool and tablet have in
  common while `trouble` is empty (`UsableInv`), and that nobody answers at an
  address on an empty line (`AwayInv`). `EnumerationBounded`: `Left`, lexicographic in
  the repetitions, the two calls and the place, decreases at every step, so that
  the `goto again` and the second loop have no cycle.
- `UsbTransfer_proofs`: `InProgress` (the limits are not used up) and
  `OutInStep`: in a transfer that began in step, the chip's toggle says whether
  the tablet has the packet in flight, also when the host has not heard of it,
  so a repetition is discarded exactly if it has. `InInStep` is its counterpart
  for IN: the expected toggle equals the offered one exactly if the packet is
  new, until `hrTOGERR` changes the receive toggle. From them `OutIsDelivered`,
  `OutTogglesKept`, `InIsReceivedOnce`, `FlipIsTheLoss` (what that change does),
  `InTogglesKept`, `TransferTypes`. `TransfersBounded` for endpoints that count
  their NAKs: `Pending` decreases at every transaction, except one of IN that meets
  `hrTOGERR`, which resets the counts.
- `Probes_proofs`: `SearchIsComplete` for codes of any width and any set of
  devices: the searches of a quiet bus return every device exactly once in the
  order of their bits. Its invariant `WalkInv` says that the codes found so far
  are the first of those present, that `LastDiscrepancy` is the last bit of the latest
  where the way of a 1 was not taken, and, inside a search, that the devices answering are those that share its prefix.
  `ConversionsAreWaitedFor` from `ProbeInv`: each probe taken in is no finer than
  `bitResolution`, or has been set to 10 bits since; where a misread second answer
  makes that 0, none is. `ProbesTypes`.

The measures (`StepsLeft`, `RoutineLeft`, `Left`, `Pending`) prove the part of
`ControllerReturns`, `HeatingReturns`, `ConfiguringEnds` and `TransfersReturn` that
lies in the code: no step repeats without limit, whatever the environment does
meanwhile. That the next step comes is fairness.

Only model-checked: these liveness properties themselves, `DepartureIsNoticed`
and `ProbesAreAsked` (the proof system does neither fairness nor `ENABLED`), and
the counterexamples of the four runs that expect a violation; of two of those,
`TimerReturns` and `AnsweringIsConnected`, a theorem says how far they reach. Every
invariant and action property of the passing runs is a theorem.

## 6. Disagreements without a run

Met while modelling; each is read off a few lines, or needs no model checker.

- The answer to a keep-alive is framed in `txBuffer` by the main loop; the timer
  routine can overwrite it before it is sent (`protocol.cpp:44`).
- A module's status variable says ON while another owner of its pin has driven
  it low (`webasto.cpp:404-405`; pins 3, 5 and 6).
- A switch-off between the last check of the second wait and `webasto.cpp:208` is
  overwritten by `systemState = ON`; a switch-off while on sets
  `REMOTE_STOPPING`, to which nothing reacts (`:158`); the falling flame test
  (`:304`) misses a fall of more than 2 degrees.
- `heater.cpp:53` compares where it should assign, so `actualState` never leaves
  `HEATER_OFF` and no heater fan ever runs; `computeFanSpeedsAuto` assigns its own
  parameters; `startingAttempts` is never reset in the build, so the heater
  gives up for good after three starts.
- The watchdog restarts nothing (`freakyCampManager.cpp:208`), and the
  `watchdog = 0` after a successful transfer is under `#ifdef DEBUG`.
- A light that was dimmed, or whose pin the burner has written, ignores the
  on/off telecommand that its record says is done (`light.cpp:42`).
- `r * dim` overflows an int for colours above 128 (`light.cpp:51`): the output is
  another one than asked for.
- Light ids of 3 and more index past `lightsConf`; `isPumpActive` is always false
  (factor 0.0); the tension message is built and not sent.
- "We flip it wrong here so that next time it is actually correct" (`Usb.cpp:236`,
  of `hrTOGERR`): the toggle is taken from the chip's other direction, so a new
  packet can be dropped as a copy. `CorrectNextTime` in `UsbTransfer` states the
  comment; TLC refutes it.
- When `USB_XFER_TIMEOUT` is over, `OutTransfer` goes on to the next packet and
  returns the last one's result (`Usb.cpp:362`): success although one was lost.
- "Function requestTemperature() etc returns when conversion is ready"
  (`DallasTemperature.cpp:284`) fails if all probes had 9 bits when `begin` read
  them, or if one came later or was misread then: the wait is that of `begin`'s
  resolution, 94 ms, the conversion at 10 bits takes twice that. `max` in
  `begin` (`:51`) is a macro that reads a probe twice; a misread second answer
  makes `bitResolution` 0, and the next, coarser probe sets the wait for all.
  `ReturnsWhenReady` in `Probes` states it.
- A probe plugged in during `begin` can make a search return the same device
  twice; a misread bit leads to codes of no device, which `getAddress` counts
  whatever their CRC.
- "Request was out of bounds, set as maximum" (`TimerOne.cpp:66`) does not hold
  from 268435456 µs on, where the product before it overflows.

## 7. Not modelled, and assumptions

- *SPI ownership* (`usbhost.h:120`). Timer routine and main loop talk to the
  MAX3421E without a lock. A transfer torn between two registers does in the
  chip whatever the bits then say, so the model would be a free choice of
  everything; each step of `UsbLink` and `UsbTransfer` is taken to own the bus. That
  covers the wait for `HXFRDNIRQ` in `OutTransfer`: a transfer of the timer
  routine that clears the flag would leave the main loop's wait hanging.
- *USB*: the stages of a control transfer (a request is one step with a result),
  hubs, low speed, descriptor contents beyond vendor, product and endpoints, and
  the trimming of a packet longer than asked for. After a transfer the
  components meet only by its result: `UsbLink` takes any.
- *Water flow, hot water, buttons*: `waterModuleInit`, `onWaterFlowTimer`,
  `setHotWaterMode`, `initInputs` and `checkCampInputs` are never called, so
  their state never changes.
- *Short telecommands* are executed with bytes of an earlier frame left in
  `rxBuffer`; `Actuators` gives every telecommand every argument, so this adds
  no behaviour to the outputs, and is not a property of its own.
- `delay`, `millis` are time as described for `CampLoop`; `millis` stands still
  while interrupts are off. A PWM output at neither 0 nor 255 is the level
  "dim"; one that reads as high or low is not told apart. Pins written by a light id
  outside `lightsConf`, memory past `rxBuffer`, and serial output are left out.
- Alarms, asynchronous mode and parasite power of DallasTemperature,
  `target_search` of OneWire, PWM and `stop` of Timer1: nothing calls them.
- *Vendored code that is not in the binary*. Of the 38000 lines under `src/`,
  some 31000 are Bluetooth, HID, mass storage, hub, serial and game pad drivers,
  their tables, the Adb library and examples. The firmware instantiates only
  `ADK`, so none of them has a state in this system, and nothing in the firmware
  says how they would be used. The lines mapped are therefore a small share of
  the tree (about 6 %), and most of what state the firmware itself has.
- Each component is checked by itself, against what the others can do to it:
  `CampLoop` has the timing of the burner's calls, `Webasto` their inside,
  `Actuators` their pins, `UsbLink` the timer's `Release`.

## 8. What would come next

1. A composition of `TcReceiver` and `Actuators` by frames, for the arguments a
   short frame takes from an earlier one.
2. The stages of a control transfer inside a step of `UsbLink`, with their
   toggles, from `UsbTransfer`.
3. `Button` debounce and the water flow, once the firmware calls them.
