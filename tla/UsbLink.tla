------------------------------ MODULE UsbLink ------------------------------
(***************************************************************************)
(* The USB link to the tablet, from the connection detector to a driver    *)
(* that is ready: USB::Task with Configuring, AttemptConfig and            *)
(* DefaultAddressing (Usb.cpp), the ADK driver (adk.cpp), the address pool *)
(* (address.h), and the error handling of sendTM (protocol.cpp), which     *)
(* runs in the timer interrupt and so between any two steps of the rest.   *)
(*                                                                         *)
(* The firmware registers one driver, the ADK, and uses no hub.  A         *)
(* transfer is one step with its result (UsbTransfer has its inside), what *)
(* the driver does with the result the next one; so is each function of    *)
(* the pool.  The tablet is a full-speed device: lowspeed is left out.     *)
(***************************************************************************)
EXTENDS Naturals, FiniteSets

CONSTANTS
    PoolSize,       \* USB_NUMDEVICES: entries of the address pool, entry 0 included
    Retries         \* repetitions of an initialisation that met hrJERR: 3

ASSUME LinkAssumption == PoolSize \in Nat \ {0, 1} /\ Retries \in Nat

VARIABLES
    line,           \* the bus: "SE0" nothing attached, "FS" a device, "SE1" disturbed
    device,         \* the tablet: its mode, its address, whether it is configured
    condet,         \* the chip's latched interrupt: the line has changed
    vbusState,      \* what busprobe last found on the line
    probing,        \* since then the interrupt has not been cleared
    usb_task_state,
    at,             \* the next step of Configuring, or of Task's cleanup; "idle" outside them
    attempt,        \* AttemptConfig: the driver's function it calls, its repetitions, whether
                    \* from the second loop; Init: the mode in the descriptor, its result
    pool,           \* AddressPoolImpl.thePool
    bAddress, bNumEP, ready,    \* members of the ADK driver
    learned,        \* the driver's epInfo has the accessory's endpoints
    trouble         \* history: what has gone wrong since the driver was last released

chip == <<condet, vbusState, probing>>
driver == <<pool, bAddress, bNumEP, ready, learned>>
vars == <<line, device, chip, usb_task_state, at, attempt, driver, trouble>>

Detached == {"INITIALIZE", "WAIT_FOR_DEVICE", "ILLEGAL"}
Attaching == {"SETTLE", "WAIT_RESET_COMPLETE", "WAIT_SOF", "WAIT_RESET"}
TaskStates == Detached \cup Attaching \cup {"CONFIGURING", "RUNNING", "ERROR"}
Lines == {"SE0", "FS", "SE1"}
Places == {"idle", "descr", "init", "setaddr", "entry", "confdescr", "endpoints", "setconf",
           "success", "proto", "switch", "release", "unset", "default", "cleanup"}
Releasing == {"release", "unset", "cleanup"}    \* freed in the pool, bAddress not yet cleared
Results == {"ok", "hrJERR", "error", "ADDITIONAL_RESET"}
Modes == {"plain", "accessory"}     \* the tablet's own identity, or ADK_VID and ADK_PID
Entries == 0 .. PoolSize - 1
Entry == [address : {0, 1}, epinfo : {"dev0ep", "epInfo"}, epcount : {1, 3}]
NoAttempt == [call |-> "ConfigureDevice", retries |-> 0, blind |-> FALSE, udd |-> "plain",
              rcode |-> "ok"]

TypeOK ==
    /\ line \in Lines
    /\ device \in [mode : Modes, address : {0, 1}, configured : BOOLEAN]
    /\ condet \in BOOLEAN
    /\ vbusState \in Lines
    /\ probing \in BOOLEAN
    /\ usb_task_state \in TaskStates
    /\ at \in Places
    /\ attempt \in [call : {"ConfigureDevice", "Init"}, retries : 0 .. Retries,
                    blind : BOOLEAN, udd : Modes, rcode : Results]
    /\ pool \in [Entries -> Entry]
    /\ bAddress \in {0, 1}
    /\ bNumEP \in {1, 3}
    /\ ready \in BOOLEAN
    /\ learned \in BOOLEAN
    /\ trouble \subseteq {"lost", "illegal", "twice", "dropped", "full"}

FreeEntry == [address |-> 0, epinfo |-> "dev0ep", epcount |-> 1]    \* InitEntry
Fresh(m) == [mode |-> m, address |-> 0, configured |-> FALSE]
AfterBusReset(d) == Fresh(d.mode)

(* Power-up: the constructors, and MAX3421E::Init, which probes the line.  *)
Init ==
    /\ line \in {"SE0", "FS"}
    /\ device \in {Fresh(m) : m \in Modes}
    /\ condet = FALSE
    /\ vbusState = line
    /\ probing = TRUE
    /\ usb_task_state = "INITIALIZE"
    /\ at = "idle"
    /\ attempt = NoAttempt
    /\ pool = [i \in Entries |-> FreeEntry]
    /\ bAddress = 0
    /\ bNumEP = 1
    /\ ready = FALSE
    /\ learned = FALSE
    /\ trouble = {}

-----------------------------------------------------------------------------
(* The address pool.                                                       *)

Holding(p, a) == {i \in Entries \ {0} : p[i].address = a}

FindAddressIndex(p, a) ==
    IF Holding(p, a) = {} THEN 0
    ELSE CHOOSE i \in Holding(p, a) : \A j \in Holding(p, a) : i <= j

(* GetUsbDevicePtr(a) is not null; the entry it points at.                 *)
InPool(a) == a = 0 \/ Holding(pool, a) # {}
EntryOf(a) == IF a = 0 THEN 0 ELSE FindAddressIndex(pool, a)

(* FreeAddress(a)                                                          *)
Freed(p, a) ==
    LET i == FindAddressIndex(p, a) IN IF i = 0 THEN p ELSE [p EXCEPT ![i] = FreeEntry]

(* AllocAddress(0, false, port): a root device always gets address 1.      *)
HasRoom == FindAddressIndex(pool, 0) # 0
Allocated == [pool EXCEPT ![FindAddressIndex(pool, 0)].address = 1]

(* setEpInfoEntry(a, n, epInfo), for an address that is in the pool.       *)
WithEndpoints(a, n) ==
    [pool EXCEPT ![EntryOf(a)] = [address |-> a, epinfo |-> "epInfo", epcount |-> n]]

(* Mutant of Release: the driver keeps its address.                        *)
ReleaseKeepsAddress ==
    /\ pool' = Freed(pool, bAddress)
    /\ bNumEP' = 1
    /\ ready' = FALSE
    /\ UNCHANGED <<bAddress, learned>>

(* Mutant of Release: the address is not given back.                       *)
ReleaseKeepsEntry ==
    /\ bNumEP' = 1
    /\ bAddress' = 0
    /\ ready' = FALSE
    /\ UNCHANGED <<pool, learned>>

(* ADK::Release, as the interrupt runs it.                                 *)
Release ==
    /\ pool' = Freed(pool, bAddress)
    /\ bNumEP' = 1
    /\ bAddress' = 0
    /\ ready' = FALSE
    /\ UNCHANGED learned

(* The same in the main program: the interrupt may come in between.        *)
ReleaseBegins == pool' = Freed(pool, bAddress) /\ UNCHANGED <<bAddress, bNumEP, ready, learned>>

ReleaseEnds ==
    /\ bNumEP' = 1
    /\ bAddress' = 0
    /\ ready' = FALSE
    /\ UNCHANGED <<pool, learned>>

-----------------------------------------------------------------------------
(* How the functions return: Init to AttemptConfig, AttemptConfig to       *)
(* Configuring, Configuring to Task.                                       *)

ConfiguringReturns(rcode) ==
    /\ usb_task_state' = IF rcode = "ok" THEN "RUNNING" ELSE "ERROR"
    /\ at' = "idle"
    /\ attempt' = NoAttempt

(* Mutant of Again: repeated without a limit.                              *)
AgainUnlimited(rcode) == rcode = "hrJERR"

Again(rcode) == rcode = "hrJERR" /\ attempt.retries < Retries

(* Mutant of RetryAttempt: the repetition is not counted.                  *)
RetryAttemptUncounted(rcode) ==
    /\ Again(rcode)
    /\ at' = "init"
    /\ attempt' = [attempt EXCEPT !.call = "ConfigureDevice", !.rcode = "ok"]
    /\ UNCHANGED <<device, usb_task_state>>

(* goto again                                                              *)
RetryAttempt(rcode) ==
    /\ Again(rcode)
    /\ at' = "init"
    /\ attempt' = [attempt EXCEPT !.call = "ConfigureDevice", !.retries = @ + 1, !.rcode = "ok"]
    /\ UNCHANGED <<device, usb_task_state>>

(* ConfigureDevice succeeded, or asks for a bus reset: Init is next.       *)
CallInit(rcode) ==
    /\ attempt.call = "ConfigureDevice" /\ rcode \in {"ok", "ADDITIONAL_RESET"}
    /\ at' = "init"
    /\ attempt' = [attempt EXCEPT !.call = "Init", !.rcode = "ok"]
    /\ device' = IF rcode = "ok" THEN device ELSE AfterBusReset(device)
    /\ UNCHANGED usb_task_state

(* The driver's answer is final; an Init that failed is followed by a bus  *)
(* reset.  The second loop tries the next driver, and there is none, when  *)
(* this one is in use.                                                     *)
AttemptReturns(rcode) ==
    /\ ~Again(rcode)
    /\ ~(attempt.call = "ConfigureDevice" /\ rcode \in {"ok", "ADDITIONAL_RESET"})
    /\ device' = IF attempt.call = "Init" /\ rcode # "ok" THEN AfterBusReset(device) ELSE device
    /\ IF attempt.blind /\ rcode = "ALREADY_IN_USE"
       THEN at' = "default" /\ attempt' = NoAttempt /\ UNCHANGED usb_task_state
       ELSE ConfiguringReturns(rcode)

InitReturns(rcode) == RetryAttempt(rcode) \/ CallInit(rcode) \/ AttemptReturns(rcode)

-----------------------------------------------------------------------------
(* Transfers.  Any may fail; one succeeds only if the address is the       *)
(* tablet's.  A failed request may or may not have reached the tablet.     *)

Answers(a) == line = "FS" /\ device.address = a /\ InPool(a)
Failures(a) == IF InPool(a) THEN {"hrJERR", "error"} ELSE {"error"}

Step(place) == at = place /\ probing' = FALSE /\ UNCHANGED <<line, condet, vbusState>>
GoOn(place) == at' = place /\ UNCHANGED <<usb_task_state, attempt>>

(* Init gives its address back and returns rcode (InitReleases, InitUnsets)*)
Fail(place, rcode) ==
    /\ ReleaseBegins
    /\ at' = place
    /\ attempt' = [attempt EXCEPT !.rcode = rcode]
    /\ UNCHANGED <<usb_task_state, trouble>>

(* Configuring: the device descriptor at address 0, then the two loops     *)
(* over the drivers, which leave out one that has an address.              *)
GetDescriptor ==
    /\ Step("descr")
    /\ \/ /\ Answers(0)
          /\ at' = IF bAddress # 0 THEN "default" ELSE "init"
          /\ attempt' = [NoAttempt EXCEPT !.blind = (bAddress = 0 /\ device.mode = "plain")]
          /\ UNCHANGED usb_task_state
       \/ ConfiguringReturns("error")
    /\ UNCHANGED <<device, driver, trouble>>

(* ADK::Init, called by itself or as ConfigureDevice.                      *)
InitInUse ==
    /\ Step("init") /\ bAddress # 0
    /\ InitReturns("ALREADY_IN_USE")
    /\ trouble' = trouble \cup {"twice"}
    /\ UNCHANGED driver

InitDescriptor ==
    /\ Step("init") /\ bAddress = 0
    /\ \/ /\ Answers(0)
          /\ IF HasRoom THEN pool' = Allocated /\ bAddress' = 1 ELSE UNCHANGED <<pool, bAddress>>
          /\ at' = "setaddr"
          /\ attempt' = [attempt EXCEPT !.udd = device.mode]
          /\ trouble' = IF HasRoom THEN trouble ELSE trouble \cup {"full"}
          /\ UNCHANGED <<usb_task_state, bNumEP, ready, learned>>
       \/ \E e \in Failures(0) : Fail("release", e)
    /\ UNCHANGED device

(* setAddr waits 300 ms after its request.                                 *)
InitSetAddress ==
    /\ Step("setaddr")
    /\ \/ /\ Answers(0)
          /\ device' = [device EXCEPT !.address = bAddress]
          /\ GoOn("entry")
          /\ UNCHANGED <<driver, trouble>>
       \/ \E e \in Failures(0), taken \in {FALSE, Answers(0)} :
            /\ device' = IF taken THEN [device EXCEPT !.address = bAddress] ELSE device
            /\ Fail("unset", e)

(* The entry of the new address, or of 0 if the driver was released during *)
(* the wait.  bAddress is in the pool here (AddressIsHeld): the test for it*)
(* never fails.                                                            *)
InitEntry ==
    /\ Step("entry")
    /\ pool' = WithEndpoints(bAddress, 1)
    /\ GoOn(IF attempt.udd = "accessory" THEN "confdescr" ELSE "proto")
    /\ UNCHANGED <<device, bAddress, bNumEP, ready, learned, trouble>>

(* EndpointXtract finds the two bulk endpoints of an accessory, and may or *)
(* may not find as many in another device.                                 *)
EndpointXtract == IF device.mode = "accessory" THEN {3} ELSE {1, 3}

(* The configuration descriptor.                                           *)
InitConfiguration ==
    /\ Step("confdescr")
    /\ \/ /\ Answers(bAddress)
          /\ bNumEP' \in EndpointXtract
          /\ learned' = (learned \/ bNumEP' = 3)
          /\ GoOn("endpoints")
          /\ UNCHANGED <<pool, bAddress, ready, trouble>>
       \/ \E e \in Failures(bAddress) : Fail("release", e)
    /\ UNCHANGED device

InitEndpoints ==
    /\ Step("endpoints")
    /\ pool' = IF bNumEP = 3 THEN WithEndpoints(bAddress, 3) ELSE pool
    /\ GoOn("setconf")
    /\ UNCHANGED <<device, bAddress, bNumEP, ready, learned, trouble>>

InitSetConfiguration ==
    /\ Step("setconf")
    /\ \/ /\ Answers(bAddress)
          /\ \E c \in {TRUE, bNumEP = 3} : device' = [device EXCEPT !.configured = c]
          /\ GoOn("success")
          /\ UNCHANGED <<driver, trouble>>
       \/ \E e \in Failures(bAddress), c \in {device.configured, Answers(bAddress)} :
            /\ device' = [device EXCEPT !.configured = c]
            /\ Fail("release", e)

InitSuccess ==
    /\ Step("success")
    /\ ready' = TRUE
    /\ InitReturns("ok")
    /\ UNCHANGED <<pool, bAddress, bNumEP, learned, trouble>>

(* getProto; the six strings after it are sent whatever becomes of them.   *)
InitProtocol ==
    /\ Step("proto")
    /\ \/ Answers(bAddress) /\ GoOn("switch") /\ UNCHANGED <<driver, trouble>>
       \/ \E e \in Failures(bAddress) : Fail("release", e)
    /\ UNCHANGED device

(* switchAcc: on success the tablet will leave and come back (Attach).     *)
InitSwitch ==
    /\ Step("switch")
    /\ \/ Answers(bAddress) /\ Fail("release", "ADDITIONAL_RESET")
       \/ \E e \in Failures(bAddress) : Fail("release", e)
    /\ UNCHANGED device

InitReleases ==
    /\ Step("release")
    /\ ReleaseEnds
    /\ InitReturns(attempt.rcode)
    /\ UNCHANGED trouble

(* A setAddr that failed clears the address, and nothing else.             *)
InitUnsets ==
    /\ Step("unset")
    /\ bAddress' = 0
    /\ InitReturns(attempt.rcode)
    /\ UNCHANGED <<pool, bNumEP, ready, learned, trouble>>

DefaultAddressing ==
    /\ Step("default")
    /\ \/ /\ ~HasRoom
          /\ ConfiguringReturns("error")
          /\ UNCHANGED <<device, pool>>
       \/ /\ HasRoom /\ Answers(0)
          /\ pool' = Allocated
          /\ device' = [device EXCEPT !.address = 1]
          /\ ConfiguringReturns("ok")
       \/ /\ HasRoom
          /\ pool' = Freed(Allocated, 1)
          /\ \E taken \in {FALSE, Answers(0)} :
                device' = IF taken THEN [device EXCEPT !.address = 1] ELSE device
          /\ ConfiguringReturns("error")
    /\ UNCHANGED <<bAddress, bNumEP, ready, learned, trouble>>

Configuring ==
    \/ GetDescriptor \/ InitInUse \/ InitDescriptor \/ InitSetAddress \/ InitEntry
    \/ InitConfiguration \/ InitEndpoints \/ InitSetConfiguration \/ InitSuccess
    \/ InitProtocol \/ InitSwitch \/ InitReleases \/ InitUnsets \/ DefaultAddressing

-----------------------------------------------------------------------------
(* USB::Task, outside Configuring: MAX3421E::Task probes the line if it    *)
(* has changed, the state follows what was found, then the step of that    *)
(* state.                                                                  *)

Probed == IF condet THEN line ELSE vbusState

(* Mutant of Followed: a failed enumeration is tried again.                *)
FollowedRetries ==
    CASE Probed = "SE1" -> "ILLEGAL"
      [] Probed = "SE0" -> IF usb_task_state \in Detached THEN usb_task_state ELSE "INITIALIZE"
      [] Probed = "FS" -> IF usb_task_state \in Detached \cup {"ERROR"} THEN "SETTLE" ELSE usb_task_state

(* Mutant of Followed: a device that leaves is waited for at once.         *)
FollowedUnreleased ==
    CASE Probed = "SE1" -> "ILLEGAL"
      [] Probed = "SE0" -> IF usb_task_state \in Detached THEN usb_task_state ELSE "WAIT_FOR_DEVICE"
      [] Probed = "FS" -> IF usb_task_state \in Detached THEN "SETTLE" ELSE usb_task_state

Followed ==
    CASE Probed = "SE1" -> "ILLEGAL"
      [] Probed = "SE0" -> IF usb_task_state \in Detached THEN usb_task_state ELSE "INITIALIZE"
      [] Probed = "FS" -> IF usb_task_state \in Detached THEN "SETTLE" ELSE usb_task_state

TaskIn(s) ==
    /\ at = "idle"
    /\ Followed = s
    /\ vbusState' = Probed
    /\ condet' = FALSE
    /\ probing' = condet
    /\ UNCHANGED line

(* Mutant of Initialize: the drivers are not released.                     *)
InitializeKeepsDriver ==
    /\ TaskIn("INITIALIZE")
    /\ usb_task_state' = "WAIT_FOR_DEVICE"
    /\ trouble' = {}
    /\ UNCHANGED <<device, at, attempt, driver>>

(* init and Release of every driver.                                       *)
Initialize ==
    /\ TaskIn("INITIALIZE")
    /\ usb_task_state' = "INITIALIZE"
    /\ ReleaseBegins
    /\ at' = "cleanup"
    /\ UNCHANGED <<device, attempt, trouble>>

Cleanup ==
    /\ at = "cleanup"
    /\ ReleaseEnds
    /\ usb_task_state' = "WAIT_FOR_DEVICE"
    /\ at' = "idle"
    /\ trouble' = {}
    /\ UNCHANGED <<line, device, chip, attempt>>

(* A pass that finds its state still waiting, or with nothing to do.       *)
Wait ==
    /\ \E s \in TaskStates \ {"INITIALIZE", "CONFIGURING"} : TaskIn(s) /\ usb_task_state' = s
    /\ trouble' = IF Probed = "SE1" THEN trouble \cup {"illegal"} ELSE trouble
    /\ UNCHANGED <<device, at, attempt, driver>>

(* The settle time is over: bus reset.                                     *)
ResetDevice ==
    /\ TaskIn("SETTLE")
    /\ usb_task_state' = "WAIT_RESET_COMPLETE"
    /\ device' = AfterBusReset(device)
    /\ UNCHANGED <<at, attempt, driver, trouble>>

(* The chip has ended the reset; then the first frame was sent.            *)
ResetComplete ==
    /\ \/ TaskIn("WAIT_RESET_COMPLETE") /\ usb_task_state' = "WAIT_SOF"
       \/ TaskIn("WAIT_SOF") /\ usb_task_state' = "WAIT_RESET"
    /\ UNCHANGED <<device, at, attempt, driver, trouble>>

(* 20 ms later: Configuring is called in the same pass.                    *)
Configure ==
    /\ TaskIn("WAIT_RESET")
    /\ usb_task_state' = "CONFIGURING"
    /\ at' = "descr"
    /\ UNCHANGED <<device, attempt, driver, trouble>>

Task == Initialize \/ Cleanup \/ Wait \/ ResetDevice \/ ResetComplete \/ Configure

-----------------------------------------------------------------------------
(* handleUsbError: a telemetry transfer met a wrong or corrupted PID.  The *)
(* packet must have gone out: OutTransfer found the driver's endpoint in   *)
(* the entry of bAddress.  Before epInfo is filled that is endpoint 0.     *)
HandleUsbError ==
    /\ line # "SE0"
    /\ InPool(bAddress)
    /\ learned => pool[EntryOf(bAddress)].epcount = 3
    /\ Release
    /\ trouble' = IF at # "idle" THEN trouble \cup {"dropped"} ELSE trouble
    /\ UNCHANGED <<line, device, chip, usb_task_state, at, attempt>>

(* The chip latches a change of the line; one that comes after busprobe    *)
(* has read the line and before the interrupt is cleared, is cleared with  *)
(* it.                                                                     *)
LineChanges ==
    \/ condet' = TRUE /\ probing' = FALSE
    \/ probing /\ UNCHANGED <<condet, probing>>

(* The tablet and the line.  A tablet told to switch leaves and comes back *)
(* as an accessory, which can be between any two steps.                    *)
Attach ==
    /\ line = "SE0"
    /\ line' = "FS"
    /\ LineChanges
    /\ device' \in {Fresh(m) : m \in Modes}
    /\ UNCHANGED <<vbusState, usb_task_state, at, attempt, driver, trouble>>

Detach ==
    /\ line # "SE0"
    /\ line' = "SE0"
    /\ LineChanges
    /\ device' = Fresh("plain")
    /\ trouble' = IF ready \/ at = "success" THEN trouble \cup {"lost"} ELSE trouble
    /\ UNCHANGED <<vbusState, usb_task_state, at, attempt, driver>>

Disturb ==
    /\ \/ line = "FS" /\ line' = "SE1"
       \/ line = "SE1" /\ line' = "FS"
    /\ LineChanges
    /\ UNCHANGED <<device, vbusState, usb_task_state, at, attempt, driver, trouble>>

Environment == Attach \/ Detach \/ Disturb

Next == Task \/ Configuring \/ HandleUsbError \/ Environment

Spec == Init /\ [][Next]_vars

(* The main loop keeps calling Task, transfers return, and the waits for   *)
(* the settle time, the reset and the first frame end.  That the main loop *)
(* runs on is so while heat is asked for (CampLoop).                       *)
Fairness ==
    /\ WF_vars(Configuring)
    /\ WF_vars(Task)
    /\ WF_vars(ResetDevice) /\ WF_vars(ResetComplete) /\ WF_vars(Configure)

FairSpec == Spec /\ Fairness

-----------------------------------------------------------------------------
(* Properties.                                                             *)

(* The address the driver would transfer to has an entry in the pool,      *)
(* except between the two statements that give it back: every path of      *)
(* ADK::Init that frees the entry also clears bAddress, whichever step the *)
(* timer routine's Release came before.                                    *)
AddressIsHeld == at \notin Releasing /\ bAddress # 0 => InPool(bAddress)

(* An address nobody will give back is lost only by DefaultAddressing:     *)
(* every other path, failed or interrupted, frees what it allocated        *)
(* (the pool has PoolSize - 1 entries for the life of the firmware).       *)
Orphans ==
    Cardinality(Holding(pool, 1)) - (IF at \notin Releasing /\ bAddress # 0 THEN 1 ELSE 0)
NoAddressLost == [][at # "default" => Orphans' <= Orphans]_vars

(* While the main loop exchanges data, which it does when isReady, the     *)
(* tablet is configured at the driver's address and the pool has the       *)
(* driver's three endpoints for it; unless since the driver was last       *)
(* released it was initialised twice, or was released by handleUsbError    *)
(* within its enumeration, or got no address from a full pool, or the line *)
(* was found disturbed, or the tablet has left and Task has not seen it.   *)
ReadyIsUsable ==
    ready /\ usb_task_state = "RUNNING" /\ device.mode = "accessory" /\ trouble = {} =>
        /\ device.configured /\ device.address = bAddress
        /\ pool[EntryOf(bAddress)].epinfo = "epInfo" /\ pool[EntryOf(bAddress)].epcount = 3

(* A driver that has reported "successful configuration" (adk.cpp:209)     *)
(* does not end in a failed enumeration.                                   *)
SuccessIsNoError == usb_task_state = "ERROR" => ~ready

(* A tablet that stays away is noticed, and the driver released for good,  *)
(* if the main loop runs, and unless the line went through the illegal     *)
(* state, or what busprobe read is no longer so and the interrupt that     *)
(* would tell was cleared.                                                 *)
ProbeIsLost == ~condet /\ vbusState # line
DepartureIsNoticed ==
    <>[](line = "SE0" /\ ~ProbeIsLost /\ "illegal" \notin trouble) =>
        <>[](~ready /\ bAddress = 0)

(* The link as the main loop sees it: LinkSession.                         *)
Session ==
    CASE ready -> "open"
      [] ~ready /\ usb_task_state \in Detached -> "none"
      [] ~ready /\ usb_task_state \in Attaching \cup {"CONFIGURING"} -> "opening"
      [] ~ready /\ usb_task_state \in {"RUNNING", "ERROR"} -> "closed"

Link == INSTANCE LinkSession WITH session <- Session

(* The link is used in sessions: it opens only by an enumeration, and a    *)
(* link that was dropped (handleUsbError) does not come back by itself.    *)
LinkIsSession == Link!Spec

(* Configuring returns, whatever the tablet does meanwhile, although       *)
(* AttemptConfig jumps back (goto again) when it meets hrJERR.             *)
ConfiguringEnds == at # "idle" ~> at = "idle"
=============================================================================
