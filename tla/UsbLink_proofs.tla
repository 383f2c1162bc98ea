--------------------------- MODULE UsbLink_proofs ---------------------------
(***************************************************************************)
(* The link's states, the driver's address, and that the link is used in   *)
(* sessions, for every size of the address pool and number of repetitions. *)
(***************************************************************************)
EXTENDS UsbLink, FiniteSetTheorems, TLAPS

USE LinkAssumption DEF LinkAssumption

Devices == [mode : Modes, address : {0, 1}, configured : BOOLEAN]
Attempts == [call : {"ConfigureDevice", "Init"}, retries : 0 .. Retries,
             blind : BOOLEAN, udd : Modes, rcode : Results]

(* Configuring has a next step exactly in its own state, Task's cleanup    *)
(* only where it was begun.                                                *)
StepInv ==
    /\ at \in {"idle", "cleanup"} <=> usb_task_state # "CONFIGURING"
    /\ at = "cleanup" => usb_task_state = "INITIALIZE"

Inv == TypeOK /\ StepInv

-----------------------------------------------------------------------------
(* The address pool.                                                       *)

(* Entries are numbers: a set of them that is not empty has a least one.   *)
LEMMA LeastEntry ==
    ASSUME NEW S \in SUBSET Nat, S # {}
    PROVE  \E i \in S : \A j \in S : i <= j
<1>1. PICK i \in S : \A j \in S : ~ (<<j, i>> \in OpToRel(<, Nat))
    BY NatLessThanWellFounded, WFMin
<1>2. \A j \in S : j \in Nat /\ i \in Nat /\ ~(j < i)
    BY <1>1 DEF OpToRel
<1>. QED
    BY <1>2

LEMMA FoundIndex ==
    ASSUME NEW p, NEW a
    PROVE  /\ Holding(p, a) = {} => FindAddressIndex(p, a) = 0
           /\ Holding(p, a) # {} => FindAddressIndex(p, a) \in Holding(p, a)
<1>1. Holding(p, a) \in SUBSET Nat
    BY DEF Holding, Entries
<1>2. Holding(p, a) # {} => \E i \in Holding(p, a) : \A j \in Holding(p, a) : i <= j
    BY <1>1, LeastEntry
<1>. QED
    BY <1>2 DEF FindAddressIndex

(* A found index is an entry's.                                            *)
LEMMA IndexRange ==
    ASSUME NEW p, NEW a
    PROVE  /\ FindAddressIndex(p, a) \in Entries
           /\ FindAddressIndex(p, a) # 0 => p[FindAddressIndex(p, a)].address = a
<1>1. 0 \in Entries
    BY DEF Entries
<1>2. Holding(p, a) \subseteq Entries \ {0} /\ \A i \in Holding(p, a) : p[i].address = a
    BY DEF Holding
<1>. QED
    BY <1>1, <1>2, FoundIndex

LEMMA PoolTypes ==
    ASSUME NEW p \in [Entries -> Entry], NEW a
    PROVE  Freed(p, a) \in [Entries -> Entry]
BY IndexRange DEF Freed, FreeEntry, Entry

LEMMA AllocatedTypes ==
    ASSUME pool \in [Entries -> Entry]
    PROVE  Allocated \in [Entries -> Entry]
<1>. DEFINE i == FindAddressIndex(pool, 0)
<1>1. i \in Entries /\ pool[i] \in Entry
    BY IndexRange
<1>2. [pool[i] EXCEPT !.address = 1] \in Entry
    BY <1>1 DEF Entry
<1>3. Allocated = [pool EXCEPT ![i] = [pool[i] EXCEPT !.address = 1]]
    BY DEF Allocated
<1>. HIDE DEF i
<1>. QED
    BY <1>1, <1>2, <1>3

LEMMA EndpointTypes ==
    ASSUME pool \in [Entries -> Entry], NEW a \in {0, 1}, NEW n \in {1, 3}
    PROVE  WithEndpoints(a, n) \in [Entries -> Entry]
BY IndexRange DEF WithEndpoints, EntryOf, Entry

-----------------------------------------------------------------------------
(* Types: the updates of the records, then the operators, then the steps.  *)

LEMMA DeviceUpdates ==
    ASSUME NEW d \in Devices, NEW a \in {0, 1}, NEW c \in BOOLEAN
    PROVE  /\ [d EXCEPT !.address = a] \in Devices
           /\ [d EXCEPT !.configured = c] \in Devices
           /\ AfterBusReset(d) \in Devices
BY DEF Devices, AfterBusReset, Fresh

LEMMA FreshDevice == \A m \in Modes : Fresh(m) \in Devices
BY DEF Devices, Fresh

LEMMA AttemptUpdates ==
    ASSUME NEW r \in Attempts
    PROVE  /\ r.retries < Retries =>
                [r EXCEPT !.call = "ConfigureDevice", !.retries = @ + 1, !.rcode = "ok"] \in Attempts
           /\ [r EXCEPT !.call = "Init", !.rcode = "ok"] \in Attempts
           /\ \A e \in Results : [r EXCEPT !.rcode = e] \in Attempts
           /\ \A m \in Modes : [r EXCEPT !.udd = m] \in Attempts
<1>1. r.retries \in 0 .. Retries
    BY DEF Attempts
<1>2. r.retries < Retries => r.retries + 1 \in 0 .. Retries
    BY <1>1
<1>. QED
    BY <1>2 DEF Attempts, Results

LEMMA NewAttempt ==
    NoAttempt \in Attempts /\ \A b \in BOOLEAN : [NoAttempt EXCEPT !.blind = b] \in Attempts
BY DEF NoAttempt, Attempts, Modes, Results

LEMMA ReleaseTypes ==
    ASSUME TypeOK, Release \/ ReleaseBegins \/ ReleaseEnds
    PROVE  /\ pool' \in [Entries -> Entry] /\ bAddress' \in {0, 1} /\ bNumEP' \in {1, 3}
           /\ ready' \in BOOLEAN /\ learned' \in BOOLEAN
<1>1. CASE Release
    BY <1>1, PoolTypes DEF TypeOK, Release
<1>2. CASE ReleaseBegins
    BY <1>2, PoolTypes DEF TypeOK, ReleaseBegins
<1>3. CASE ReleaseEnds
    BY <1>3 DEF TypeOK, ReleaseEnds
<1>. QED
    BY <1>1, <1>2, <1>3

(* However Init returns, Configuring goes on or Task has a new state.      *)
LEMMA InitReturnsTypes ==
    ASSUME Inv, NEW rcode, InitReturns(rcode), at \notin {"idle", "cleanup"}
    PROVE  /\ usb_task_state' \in TaskStates /\ at' \in Places
           /\ attempt' \in Attempts /\ device' \in Devices /\ StepInv'
<1>1. attempt \in Attempts /\ usb_task_state = "CONFIGURING" /\ device \in Devices
    BY DEF Inv, TypeOK, StepInv, Attempts, Devices
<1>2. CASE RetryAttempt(rcode)
  <2>1. /\ attempt' = [attempt EXCEPT !.call = "ConfigureDevice", !.retries = @ + 1, !.rcode = "ok"]
        /\ attempt.retries < Retries
    BY <1>2 DEF RetryAttempt, Again
  <2>2. attempt' \in Attempts
    BY <1>1, <2>1, AttemptUpdates
  <2>. QED
    BY <1>1, <1>2, <2>2 DEF RetryAttempt, TaskStates, Places, StepInv
<1>3. CASE CallInit(rcode)
  <2>1. attempt' \in Attempts
    BY <1>1, <1>3, AttemptUpdates DEF CallInit
  <2>. QED
    BY <1>1, <1>3, <2>1, DeviceUpdates DEF CallInit, TaskStates, Places, StepInv
<1>4. CASE AttemptReturns(rcode)
  <2>1. device' \in Devices
    BY <1>1, <1>4, DeviceUpdates DEF AttemptReturns
  <2>2. attempt' \in Attempts
    BY <1>4, NewAttempt DEF AttemptReturns, ConfiguringReturns
  <2>. QED
    BY <1>1, <1>4, <2>1, <2>2 DEF AttemptReturns, ConfiguringReturns, TaskStates, Places, StepInv
<1>. QED
    BY <1>2, <1>3, <1>4 DEF InitReturns

LEMMA TypeInit == Init => Inv
<1>. SUFFICES ASSUME Init PROVE Inv
    OBVIOUS
<1>1. device \in Devices /\ line \in Lines
    BY FreshDevice DEF Init, Lines
<1>2. pool \in [Entries -> Entry]
    BY DEF Init, FreeEntry, Entry
<1>3. attempt \in Attempts
    BY NewAttempt DEF Init
<1>4. condet \in BOOLEAN /\ probing \in BOOLEAN /\ ready \in BOOLEAN /\ learned \in BOOLEAN
    BY DEF Init
<1>5. usb_task_state \in TaskStates /\ at \in Places /\ StepInv
    BY DEF Init, TaskStates, Detached, Places, StepInv
<1>6. bAddress \in {0, 1} /\ bNumEP \in {1, 3} /\ vbusState = line /\ trouble = {}
    BY DEF Init
<1>. QED
    BY <1>1, <1>2, <1>3, <1>4, <1>5, <1>6 DEF Inv, TypeOK, Devices, Attempts

(* Types from those of the parts.                                          *)
LEMMA TypeParts ==
    ASSUME Inv, line' \in Lines, vbusState' \in Lines, condet' \in BOOLEAN,
           probing' \in BOOLEAN,
           usb_task_state' \in TaskStates, at' \in Places, attempt' \in Attempts,
           device' \in Devices, StepInv',
           pool' \in [Entries -> Entry], bAddress' \in {0, 1}, bNumEP' \in {1, 3},
           ready' \in BOOLEAN, learned' \in BOOLEAN,
           trouble' \subseteq {"lost", "illegal", "twice", "dropped", "full"}
    PROVE  Inv'
BY DEF Inv, TypeOK, Devices, Attempts

LEMMA Parts ==
    ASSUME Inv
    PROVE  /\ usb_task_state \in TaskStates /\ at \in Places /\ attempt \in Attempts
           /\ device \in Devices /\ pool \in [Entries -> Entry] /\ bAddress \in {0, 1}
           /\ bNumEP \in {1, 3} /\ ready \in BOOLEAN /\ learned \in BOOLEAN
           /\ trouble \subseteq {"lost", "illegal", "twice", "dropped", "full"}
           /\ at \notin {"idle", "cleanup"} <=> usb_task_state = "CONFIGURING"
           /\ at = "cleanup" => usb_task_state = "INITIALIZE"
           /\ line \in Lines /\ vbusState \in Lines /\ condet \in BOOLEAN
           /\ probing \in BOOLEAN
BY DEF Inv, TypeOK, Devices, Attempts, StepInv

LEMMA ReturnTypes ==
    ASSUME NEW rcode, ConfiguringReturns(rcode)
    PROVE  /\ usb_task_state' \in TaskStates /\ at' \in Places /\ attempt' \in Attempts
           /\ StepInv' /\ usb_task_state' \in {"RUNNING", "ERROR"}
BY NewAttempt DEF ConfiguringReturns, TaskStates, Places, StepInv

(* A step that goes on inside Configuring.                                 *)
LEMMA GoOnTypes ==
    ASSUME Inv, at \notin {"idle", "cleanup"}, at' \in Places \ {"idle", "cleanup"},
           UNCHANGED usb_task_state
    PROVE  StepInv' /\ usb_task_state' \in TaskStates
BY Parts DEF StepInv

(* A step that fails inside Init.                                          *)
LEMMA FailTypes ==
    ASSUME Inv, at \notin {"idle", "cleanup"}, NEW place \in {"release", "unset"},
           NEW rcode \in Results, Fail(place, rcode), device' \in Devices,
           line' \in Lines, vbusState' \in Lines, condet' \in BOOLEAN, probing' \in BOOLEAN
    PROVE  Inv'
<1>1. attempt' \in Attempts
    BY Parts, AttemptUpdates DEF Fail
<1>2. /\ at' \in Places \ {"idle", "cleanup"} /\ UNCHANGED <<usb_task_state, trouble>>
      /\ ReleaseBegins
    BY DEF Fail, Places
<1>3. StepInv' /\ usb_task_state' \in TaskStates
    BY <1>2, GoOnTypes
<1>. QED
    BY <1>1, <1>2, <1>3, Parts, ReleaseTypes, TypeParts DEF Inv

LEMMA ConfiguringTypes ==
    ASSUME Inv, Configuring
    PROVE  Inv'
<1>. USE Parts
<1>0. /\ at \notin {"idle", "cleanup"}
      /\ line' \in Lines /\ vbusState' \in Lines /\ condet' \in BOOLEAN /\ probing' \in BOOLEAN
    BY DEF Configuring, GetDescriptor, InitInUse, InitDescriptor, InitSetAddress, InitEntry,
           InitConfiguration, InitEndpoints, InitSetConfiguration, InitSuccess, InitProtocol,
           InitSwitch, InitReleases, InitUnsets, DefaultAddressing, Step
<1>f. ASSUME NEW a, NEW place \in {"release", "unset"},
             NEW e \in Failures(a) \cup {"ADDITIONAL_RESET"}, Fail(place, e), device' \in Devices
      PROVE  Inv'
  <2>1. e \in Results
    BY DEF Failures, Results
  <2>. QED
    BY <1>0, <1>f, <2>1, FailTypes
<1>1. CASE GetDescriptor
  <2>1. UNCHANGED <<device, driver, trouble>>
    BY <1>1 DEF GetDescriptor
  <2>2. CASE ConfiguringReturns("error")
    BY <1>0, <2>1, <2>2, ReturnTypes, TypeParts DEF driver
  <2>3. CASE /\ at' = IF bAddress # 0 THEN "default" ELSE "init"
             /\ attempt' = [NoAttempt EXCEPT !.blind = (bAddress = 0 /\ device.mode = "plain")]
             /\ UNCHANGED usb_task_state
    <3>1. attempt' \in Attempts
        BY <2>3, NewAttempt
    <3>2. at' \in Places \ {"idle", "cleanup"}
        BY <2>3 DEF Places
    <3>. QED
        BY <1>0, <2>1, <2>3, <3>1, <3>2, GoOnTypes, TypeParts DEF driver
  <2>. QED
    BY <1>1, <2>2, <2>3 DEF GetDescriptor
<1>2. CASE InitInUse
  <2>1. InitReturns("ALREADY_IN_USE")
    BY <1>2 DEF InitInUse
  <2>2. /\ UNCHANGED driver
        /\ trouble' \subseteq {"lost", "illegal", "twice", "dropped", "full"}
    BY <1>2 DEF InitInUse
  <2>. QED
    BY <1>0, <2>1, <2>2, InitReturnsTypes, TypeParts DEF driver
<1>3. CASE InitDescriptor
  <2>1. CASE /\ IF HasRoom THEN pool' = Allocated /\ bAddress' = 1 ELSE UNCHANGED <<pool, bAddress>>
             /\ at' = "setaddr"
             /\ attempt' = [attempt EXCEPT !.udd = device.mode]
             /\ trouble' = IF HasRoom THEN trouble ELSE trouble \cup {"full"}
             /\ UNCHANGED <<device, usb_task_state, bNumEP, ready, learned>>
    <3>1. attempt' \in Attempts
      <4>1. device.mode \in Modes
        BY DEF Devices
      <4>. QED
        BY <2>1, <4>1, AttemptUpdates
    <3>2. pool' \in [Entries -> Entry] /\ bAddress' \in {0, 1}
        BY <2>1, AllocatedTypes
    <3>3. at' \in Places \ {"idle", "cleanup"}
        BY <2>1 DEF Places
    <3>4. trouble' \subseteq {"lost", "illegal", "twice", "dropped", "full"}
        BY <2>1
    <3>. QED
        BY <1>0, <2>1, <3>1, <3>2, <3>3, <3>4, GoOnTypes, TypeParts
  <2>2. CASE \E e \in Failures(0) : Fail("release", e)
    BY <1>3, <1>f, <2>2 DEF InitDescriptor
  <2>. QED
    BY <1>3, <2>1, <2>2 DEF InitDescriptor
<1>4. CASE InitSetAddress
  <2>1. device' \in Devices
    <3>1. device' = device \/ device' = [device EXCEPT !.address = bAddress]
        BY <1>4 DEF InitSetAddress
    <3>. QED
        BY <3>1, DeviceUpdates
  <2>2. CASE GoOn("entry") /\ UNCHANGED <<driver, trouble>>
    BY <1>0, <2>1, <2>2, GoOnTypes, TypeParts DEF GoOn, Places, driver
  <2>3. CASE \E e \in Failures(0) : Fail("unset", e)
    BY <1>f, <2>1, <2>3
  <2>. QED
    BY <1>4, <2>2, <2>3 DEF InitSetAddress
<1>5. CASE InitEntry \/ InitEndpoints
  <2>1. /\ pool' \in [Entries -> Entry]
        /\ UNCHANGED <<device, bAddress, bNumEP, ready, learned, trouble>>
    BY <1>5, EndpointTypes DEF InitEntry, InitEndpoints
  <2>2. at' \in Places \ {"idle", "cleanup"} /\ UNCHANGED <<usb_task_state, attempt>>
    BY <1>5 DEF InitEntry, InitEndpoints, GoOn, Places
  <2>. QED
    BY <1>0, <2>1, <2>2, GoOnTypes, TypeParts
<1>6. CASE InitConfiguration
  <2>1. CASE /\ bNumEP' \in EndpointXtract
             /\ learned' = (learned \/ bNumEP' = 3)
             /\ GoOn("endpoints")
             /\ UNCHANGED <<device, pool, bAddress, ready, trouble>>
    <3>1. bNumEP' \in {1, 3} /\ learned' \in BOOLEAN
        BY <2>1 DEF EndpointXtract
    <3>2. at' \in Places \ {"idle", "cleanup"} /\ UNCHANGED <<usb_task_state, attempt>>
        BY <2>1 DEF GoOn, Places
    <3>. QED
        BY <1>0, <2>1, <3>1, <3>2, GoOnTypes, TypeParts
  <2>2. CASE \E e \in Failures(bAddress) : Fail("release", e)
    BY <1>6, <1>f, <2>2 DEF InitConfiguration
  <2>. QED
    BY <1>6, <2>1, <2>2 DEF InitConfiguration
<1>7. CASE InitSetConfiguration
  <2>1. device' \in Devices
    <3>1. device.configured \in BOOLEAN /\ Answers(bAddress) \in BOOLEAN
        BY DEF Devices, Answers
    <3>2. \E c \in BOOLEAN : device' = [device EXCEPT !.configured = c]
        BY <1>7, <3>1 DEF InitSetConfiguration
    <3>. QED
        BY <3>1, <3>2, DeviceUpdates
  <2>2. CASE GoOn("success") /\ UNCHANGED <<driver, trouble>>
    BY <1>0, <2>1, <2>2, GoOnTypes, TypeParts DEF GoOn, Places, driver
  <2>3. CASE \E e \in Failures(bAddress) : Fail("release", e)
    BY <1>f, <2>1, <2>3
  <2>. QED
    BY <1>7, <2>2, <2>3 DEF InitSetConfiguration
<1>8. CASE InitSuccess
  <2>1. /\ ready' \in BOOLEAN /\ InitReturns("ok")
        /\ UNCHANGED <<pool, bAddress, bNumEP, learned, trouble>>
    BY <1>8 DEF InitSuccess
  <2>. QED
    BY <1>0, <2>1, InitReturnsTypes, TypeParts
<1>9. CASE InitProtocol
  <2>1. CASE GoOn("switch") /\ UNCHANGED <<device, driver, trouble>>
    BY <1>0, <2>1, GoOnTypes, TypeParts DEF GoOn, Places, driver
  <2>2. CASE \E e \in Failures(bAddress) : Fail("release", e)
    BY <1>9, <1>f, <2>2 DEF InitProtocol
  <2>. QED
    BY <1>9, <2>1, <2>2 DEF InitProtocol
<1>10. CASE InitSwitch
  <2>1. \E e \in Failures(bAddress) \cup {"ADDITIONAL_RESET"} : Fail("release", e)
    BY <1>10 DEF InitSwitch
  <2>. QED
    BY <1>10, <1>f, <2>1 DEF InitSwitch
<1>11. CASE InitReleases
  <2>1. ReleaseEnds /\ UNCHANGED trouble /\ InitReturns(attempt.rcode)
    BY <1>11 DEF InitReleases
  <2>. QED
    BY <1>0, <2>1, InitReturnsTypes, ReleaseTypes, TypeParts DEF Inv
<1>12. CASE InitUnsets
  <2>1. /\ bAddress' = 0 /\ InitReturns(attempt.rcode)
        /\ UNCHANGED <<pool, bNumEP, ready, learned, trouble>>
    BY <1>12 DEF InitUnsets
  <2>. QED
    BY <1>0, <2>1, InitReturnsTypes, TypeParts
<1>13. CASE DefaultAddressing
  <2>0. UNCHANGED <<bAddress, bNumEP, ready, learned, trouble>>
    BY <1>13 DEF DefaultAddressing
  <2>1. \E r : ConfiguringReturns(r)
    BY <1>13 DEF DefaultAddressing
  <2>2. device' \in Devices
    BY <1>13, DeviceUpdates DEF DefaultAddressing
  <2>3. pool' \in [Entries -> Entry]
    BY <1>13, AllocatedTypes, PoolTypes DEF DefaultAddressing
  <2>. QED
    BY <1>0, <2>0, <2>1, <2>2, <2>3, ReturnTypes, TypeParts
<1>. QED
    BY <1>1, <1>2, <1>3, <1>4, <1>5, <1>6, <1>7, <1>8, <1>9, <1>10, <1>11, <1>12, <1>13 DEF Configuring

LEMMA FollowedTypes ==
    ASSUME Inv
    PROVE  Probed \in Lines /\ Followed \in TaskStates
<1>1. Probed \in Lines
    BY DEF Inv, TypeOK, Probed
<1>2. Followed \in TaskStates
    BY <1>1, Parts DEF Followed, Lines, TaskStates, Detached, Attaching
<1>. QED
    BY <1>1, <1>2

LEMMA TaskTypes ==
    ASSUME Inv, Task
    PROVE  Inv'
<1>. USE Parts
<1>1. /\ at \in {"idle", "cleanup"} /\ (Cleanup \/ at = "idle") /\ UNCHANGED attempt
      /\ line' \in Lines /\ vbusState' \in Lines /\ condet' \in BOOLEAN /\ probing' \in BOOLEAN
    BY FollowedTypes
    DEF Task, Initialize, Cleanup, Wait, ResetDevice, ResetComplete, Configure, TaskIn, chip
<1>2. CASE Initialize \/ Cleanup
  <2>1. /\ ReleaseBegins \/ ReleaseEnds
        /\ trouble' \subseteq {"lost", "illegal", "twice", "dropped", "full"}
    BY <1>2 DEF Initialize, Cleanup
  <2>2. StepInv' /\ usb_task_state' \in TaskStates /\ at' \in Places
    BY <1>2 DEF Initialize, Cleanup, StepInv, TaskStates, Detached, Places
  <2>3. UNCHANGED device
    BY <1>2 DEF Initialize, Cleanup
  <2>. QED
    BY <1>1, <2>1, <2>2, <2>3, ReleaseTypes, TypeParts DEF Inv
<1>3. CASE Wait
  <2>1. /\ usb_task_state' \in TaskStates \ {"CONFIGURING"} /\ UNCHANGED <<device, at, driver>>
        /\ trouble' \subseteq {"lost", "illegal", "twice", "dropped", "full"} /\ at = "idle"
    BY <1>3 DEF Wait, TaskIn
  <2>. QED
    BY <1>1, <2>1, TypeParts DEF driver, StepInv
<1>4. CASE ResetDevice \/ ResetComplete \/ Configure
  <2>1. UNCHANGED <<driver, trouble>> /\ device' \in Devices
    BY <1>4, DeviceUpdates DEF ResetDevice, ResetComplete, Configure
  <2>2. StepInv' /\ usb_task_state' \in TaskStates /\ at' \in Places
    BY <1>4 DEF ResetDevice, ResetComplete, Configure, TaskIn, StepInv, TaskStates, Attaching, Places
  <2>. QED
    BY <1>1, <2>1, <2>2, TypeParts DEF driver
<1>. QED
    BY <1>2, <1>3, <1>4 DEF Task

LEMMA OtherTypes ==
    ASSUME Inv, HandleUsbError \/ Environment \/ UNCHANGED vars
    PROVE  Inv'
<1>. USE Parts
<1>1. CASE HandleUsbError
  <2>1. /\ Release /\ UNCHANGED <<line, device, chip, usb_task_state, at, attempt>>
        /\ trouble' \subseteq {"lost", "illegal", "twice", "dropped", "full"}
    BY <1>1 DEF HandleUsbError
  <2>. QED
    BY <2>1, ReleaseTypes, TypeParts DEF Inv, chip, StepInv
<1>2. CASE Environment
  <2>1. /\ UNCHANGED <<vbusState, usb_task_state, at, attempt, driver>>
        /\ line' \in Lines /\ condet' \in BOOLEAN /\ probing' \in BOOLEAN
        /\ trouble' \subseteq {"lost", "illegal", "twice", "dropped", "full"}
    BY <1>2 DEF Environment, Attach, Detach, Disturb, LineChanges, Lines
  <2>2. device' \in Devices
    BY <1>2, FreshDevice DEF Environment, Attach, Detach, Disturb, Modes
  <2>. QED
    BY <2>1, <2>2, TypeParts DEF driver, StepInv
<1>3. CASE UNCHANGED vars
    BY <1>3, TypeParts DEF vars, chip, driver, StepInv
<1>. QED
    BY <1>1, <1>2, <1>3

LEMMA TypeNext == Inv /\ [Next]_vars => Inv'
BY ConfiguringTypes, TaskTypes, OtherTypes DEF Next

LEMMA LinkInvariant == Spec => []Inv
BY TypeInit, TypeNext, PTL DEF Spec

(* Every variable of the link keeps its type, the repetitions of an        *)
(* initialisation their limit.                                             *)
THEOREM LinkTypes == Spec => []TypeOK
<1>1. Inv => TypeOK
    BY DEF Inv
<1>. QED
    BY <1>1, LinkInvariant, PTL

-----------------------------------------------------------------------------
(* The link as a session.                                                  *)

LEMMA ReturnsState ==
    ASSUME NEW rcode, InitReturns(rcode)
    PROVE  UNCHANGED usb_task_state \/ usb_task_state' \in {"RUNNING", "ERROR"}
BY DEF InitReturns, RetryAttempt, CallInit, AttemptReturns, ConfiguringReturns

LEMMA ConfiguringState ==
    ASSUME Inv, Configuring
    PROVE  /\ usb_task_state = "CONFIGURING"
           /\ usb_task_state' \in {"CONFIGURING", "RUNNING", "ERROR"}
<1>1. usb_task_state = "CONFIGURING"
    BY Parts DEF Configuring, GetDescriptor, InitInUse, InitDescriptor, InitSetAddress, InitEntry,
           InitConfiguration, InitEndpoints, InitSetConfiguration, InitSuccess, InitProtocol,
           InitSwitch, InitReleases, InitUnsets, DefaultAddressing, Step
<1>. SUFFICES UNCHANGED usb_task_state \/ usb_task_state' \in {"RUNNING", "ERROR"}
    BY <1>1
<1>2. CASE GetDescriptor \/ DefaultAddressing
    BY <1>2 DEF GetDescriptor, DefaultAddressing, ConfiguringReturns
<1>3. CASE InitInUse \/ InitSuccess \/ InitReleases \/ InitUnsets
    BY <1>3, ReturnsState DEF InitInUse, InitSuccess, InitReleases, InitUnsets
<1>4. CASE InitDescriptor \/ InitSetAddress \/ InitConfiguration \/ InitSetConfiguration
    BY <1>4 DEF InitDescriptor, InitSetAddress, InitConfiguration, InitSetConfiguration, GoOn, Fail
<1>5. CASE InitEntry \/ InitEndpoints \/ InitProtocol \/ InitSwitch
    BY <1>5 DEF InitEntry, InitEndpoints, InitProtocol, InitSwitch, GoOn, Fail
<1>. QED
    BY <1>2, <1>3, <1>4, <1>5 DEF Configuring

(* A step inside Configuring can open the link, give it up, or end it      *)
(* unopened.                                                               *)
LEMMA ConfiguringSession ==
    ASSUME Inv, Inv', Configuring
    PROVE  [Link!Next]_Session
<1>1. /\ usb_task_state = "CONFIGURING"
      /\ usb_task_state' \in {"CONFIGURING", "RUNNING", "ERROR"}
    BY ConfiguringState
<1>2. ready \in BOOLEAN /\ ready' \in BOOLEAN
    BY DEF Inv, TypeOK
<1>3. Session \in {"open", "opening"} /\ (Session = "open" <=> ready)
    BY <1>1, <1>2 DEF Session, Detached, Attaching
<1>4. Session' \in {"open", "opening", "closed"}
    BY <1>1, <1>2 DEF Session, Detached, Attaching
<1>. QED
    BY <1>3, <1>4 DEF Link!Next, Link!Open, Link!Fail, Link!Drop

(* Task attaches a device, or notices that it has left.                    *)
LEMMA TaskSession ==
    ASSUME Inv, Task
    PROVE  [Link!Next]_Session
<1>1. ready \in BOOLEAN /\ usb_task_state \in TaskStates \ {"CONFIGURING"} /\ Probed \in Lines
    BY Parts, FollowedTypes DEF Task, Initialize, Cleanup, Wait, ResetDevice, ResetComplete, Configure, TaskIn
<1>2. \/ Followed = usb_task_state
      \/ Followed \in Detached
      \/ usb_task_state \in Detached /\ Followed = "SETTLE"
    BY <1>1 DEF Followed, Lines, Detached
<1>3. CASE Initialize \/ Cleanup
  <2>1. /\ ready' = FALSE \/ UNCHANGED ready
        /\ usb_task_state' \in {"INITIALIZE", "WAIT_FOR_DEVICE"}
    BY <1>3 DEF Initialize, Cleanup, ReleaseBegins, ReleaseEnds
  <2>2. CASE ready'
    BY <2>1, <2>2 DEF Session
  <2>3. CASE ~ready'
    <3>1. Session' = "none" /\ Session \in {"open", "none", "opening", "closed"}
        BY <1>1, <2>1, <2>3 DEF Session, TaskStates, Detached, Attaching
    <3>. QED
        BY <3>1 DEF Link!Next, Link!Detach
  <2>. QED
    BY <2>2, <2>3
<1>4. CASE Wait \/ ResetDevice \/ ResetComplete \/ Configure
  <2>1. /\ UNCHANGED ready
        /\ \/ usb_task_state' = Followed /\ Followed # "CONFIGURING"
           \/ Followed \in Attaching /\ usb_task_state' \in Attaching \cup {"CONFIGURING"}
    BY <1>4 DEF Wait, ResetDevice, ResetComplete, Configure, TaskIn, Attaching, driver
  <2>2. CASE ready
    BY <2>1, <2>2 DEF Session
  <2>3. CASE ~ready
    <3>1. CASE usb_task_state \in Detached
        BY <1>1, <1>2, <2>1, <2>3, <3>1
        DEF Session, Link!Next, Link!Attach, Detached, Attaching, TaskStates
    <3>2. CASE usb_task_state \in Attaching
        BY <1>1, <1>2, <2>1, <2>3, <3>2
        DEF Session, Link!Next, Link!Detach, Detached, Attaching, TaskStates
    <3>3. CASE usb_task_state \in {"RUNNING", "ERROR"}
        BY <1>1, <1>2, <2>1, <2>3, <3>3
        DEF Session, Link!Next, Link!Detach, Detached, Attaching, TaskStates
    <3>. QED
        BY <1>1, <3>1, <3>2, <3>3 DEF TaskStates
  <2>. QED
    BY <1>1, <2>2, <2>3
<1>. QED
    BY <1>3, <1>4 DEF Task

(* The error handling drops an open link; the tablet itself does nothing   *)
(* to the link before Task looks.                                          *)
LEMMA OtherSession ==
    ASSUME Inv, HandleUsbError \/ Environment \/ UNCHANGED vars
    PROVE  [Link!Next]_Session
<1>1. CASE HandleUsbError
  <2>1. ready' = FALSE /\ UNCHANGED usb_task_state /\ ready \in BOOLEAN /\ usb_task_state \in TaskStates
    BY <1>1, Parts DEF HandleUsbError, Release
  <2>2. CASE ready
    BY <2>1, <2>2 DEF Session, Link!Next, Link!Drop, Link!Detach, TaskStates, Detached, Attaching
  <2>3. CASE ~ready
    BY <2>1, <2>3 DEF Session
  <2>. QED
    BY <2>2, <2>3
<1>2. CASE Environment
  <2>1. ready' = ready /\ usb_task_state' = usb_task_state
    BY <1>2 DEF Environment, Attach, Detach, Disturb, driver
  <2>. QED
    BY <2>1 DEF Session
<1>3. CASE UNCHANGED vars
  <2>1. ready' = ready /\ usb_task_state' = usb_task_state
    BY <1>3 DEF vars, driver
  <2>. QED
    BY <2>1 DEF Session
<1>. QED
    BY <1>1, <1>2, <1>3

(* The link implements LinkSession: the enumeration, the driver and the    *)
(* error handling in the interrupt open and close it only in that order.   *)
THEOREM SessionImplemented == Spec => LinkIsSession
<1>1. Init => Link!Init
  <2>1. Init => ~ready /\ usb_task_state = "INITIALIZE"
    BY DEF Init
  <2>. QED
    BY <2>1 DEF Link!Init, Session, Detached, Attaching
<1>2. Inv /\ Inv' /\ [Next]_vars => [Link!Next]_Session
    BY ConfiguringSession, TaskSession, OtherSession DEF Next
<1>. QED
    BY <1>1, <1>2, LinkInvariant, PTL DEF Spec, LinkIsSession, Link!Spec

-----------------------------------------------------------------------------
(* The driver's address has an entry in the pool.                          *)

Held(p, a) == a # 0 => Holding(p, a) # {}

HeldInv == at \notin Releasing => Held(pool, bAddress)

(* Giving an address back takes one entry of it; a second one stays.       *)
LEMMA FreedOnce ==
    ASSUME NEW p \in [Entries -> Entry], NEW a \in {1}, NEW k \in Holding(p, a),
           k # FindAddressIndex(p, a)
    PROVE  Holding(Freed(p, a), a) # {}
<1>1. FindAddressIndex(p, a) \in Entries
    BY IndexRange
<1>2. k \in Entries \ {0} /\ p[k].address = a
    BY DEF Holding
<1>3. Freed(p, a) \in [Entries -> Entry] /\ Freed(p, a)[k] = p[k]
    BY <1>1, <1>2, PoolTypes DEF Freed
<1>. QED
    BY <1>2, <1>3 DEF Holding

(* Allocating adds an entry to those of address 1.                         *)
LEMMA AllocatedHolds ==
    ASSUME pool \in [Entries -> Entry], HasRoom
    PROVE  /\ FindAddressIndex(pool, 0) \in Holding(Allocated, 1)
           /\ Holding(pool, 1) \subseteq Holding(Allocated, 1)
           /\ FindAddressIndex(pool, 0) \notin Holding(pool, 1)
<1>. DEFINE i == FindAddressIndex(pool, 0)
<1>1. i \in Entries \ {0} /\ pool[i].address = 0 /\ pool[i] \in Entry
    BY IndexRange DEF HasRoom
<1>2. [pool[i] EXCEPT !.address = 1].address = 1
    BY <1>1 DEF Entry
<1>3. /\ Allocated[i].address = 1
      /\ \A j \in Entries \ {i} : Allocated[j] = pool[j]
    BY <1>1, <1>2 DEF Allocated
<1>. HIDE DEF i
<1>4. i \in Holding(Allocated, 1)
    BY <1>1, <1>3 DEF Holding
<1>5. i \notin Holding(pool, 1)
    BY <1>1 DEF Holding
<1>6. Holding(pool, 1) \subseteq Holding(Allocated, 1)
    BY <1>3, <1>5 DEF Holding
<1>. QED
    BY <1>4, <1>5, <1>6 DEF i

(* Filling in the entry of an address leaves it the address.               *)
LEMMA EndpointsHold ==
    ASSUME pool \in [Entries -> Entry], bAddress \in {0, 1}, Held(pool, bAddress),
           NEW n \in {1, 3}
    PROVE  Held(WithEndpoints(bAddress, n), bAddress)
<1>1. CASE bAddress = 0
    BY <1>1 DEF Held
<1>2. CASE bAddress # 0
  <2>1. EntryOf(bAddress) \in Holding(pool, bAddress)
    BY <1>2, FoundIndex DEF EntryOf, Held
  <2>2. EntryOf(bAddress) \in Entries \ {0}
    BY <2>1 DEF Holding
  <2>3. WithEndpoints(bAddress, n)[EntryOf(bAddress)].address = bAddress
    BY <2>2 DEF WithEndpoints
  <2>. QED
    BY <2>2, <2>3 DEF Held, Holding
<1>. QED
    BY <1>1, <1>2

(* A failed DefaultAddressing gives back the address it took, not the      *)
(* driver's.                                                               *)
LEMMA DefaultHolds ==
    ASSUME pool \in [Entries -> Entry], bAddress \in {0, 1}, Held(pool, bAddress), HasRoom
    PROVE  Held(Allocated, bAddress) /\ Held(Freed(Allocated, 1), bAddress)
<1>. SUFFICES ASSUME bAddress = 1
              PROVE  Holding(Allocated, 1) # {} /\ Holding(Freed(Allocated, 1), 1) # {}
    BY DEF Held
<1>1. PICK k \in Holding(pool, 1) : TRUE
    BY DEF Held
<1>2. k \in Holding(Allocated, 1) /\ FindAddressIndex(pool, 0) \in Holding(Allocated, 1)
      /\ k # FindAddressIndex(pool, 0)
    BY <1>1, AllocatedHolds
<1>3. \E j \in Holding(Allocated, 1) : j # FindAddressIndex(Allocated, 1)
    BY <1>2
<1>. QED
    BY <1>2, <1>3, FreedOnce, AllocatedTypes

LEMMA HeldInit == Init => HeldInv
BY DEF Init, HeldInv, Held

LEMMA HeldNext ==
    ASSUME Inv, HeldInv, [Next]_vars
    PROVE  HeldInv'
<1>0. pool \in [Entries -> Entry] /\ bAddress \in {0, 1}
    BY Parts
<1>. SUFFICES ASSUME at' \notin Releasing PROVE Held(pool', bAddress')
    BY DEF HeldInv, Held, Holding
<1>1. CASE bAddress' = 0
    BY <1>1 DEF Held
<1>2. CASE at \notin Releasing /\ UNCHANGED <<pool, bAddress>>
    BY <1>2 DEF HeldInv, Held, Holding
<1>f. ASSUME NEW place \in Releasing, NEW rcode PROVE ~Fail(place, rcode)
    BY <1>f DEF Fail
<1>3. CASE InitDescriptor
  <2>0. at \notin Releasing
    BY <1>3 DEF InitDescriptor, Step, Releasing
  <2>1. CASE HasRoom /\ pool' = Allocated /\ bAddress' = 1
    BY <1>0, <2>1, AllocatedHolds DEF Held
  <2>. QED
    BY <1>2, <1>f, <1>3, <2>0, <2>1 DEF InitDescriptor, Releasing
<1>4. CASE InitEntry \/ InitEndpoints
  <2>0. at \notin Releasing
    BY <1>4 DEF InitEntry, InitEndpoints, Step, Releasing
  <2>1. CASE pool' \in {WithEndpoints(bAddress, 1), WithEndpoints(bAddress, 3)} /\ UNCHANGED bAddress
    BY <1>0, <2>0, <2>1, EndpointsHold DEF HeldInv
  <2>. QED
    BY <1>2, <1>4, <2>0, <2>1 DEF InitEntry, InitEndpoints
<1>5. CASE InitSetAddress \/ InitConfiguration \/ InitSetConfiguration \/ InitProtocol \/ InitSwitch
    BY <1>2, <1>f, <1>5
    DEF InitSetAddress, InitConfiguration, InitSetConfiguration, InitProtocol, InitSwitch, Step,
        driver, Releasing
<1>6. CASE DefaultAddressing
  <2>0. at \notin Releasing
    BY <1>6 DEF DefaultAddressing, Step, Releasing
  <2>1. CASE HasRoom /\ pool' \in {Allocated, Freed(Allocated, 1)} /\ UNCHANGED bAddress
    BY <1>0, <2>0, <2>1, DefaultHolds DEF HeldInv
  <2>. QED
    BY <1>2, <1>6, <2>0, <2>1 DEF DefaultAddressing
<1>7. CASE GetDescriptor \/ InitInUse \/ InitSuccess \/ InitReleases \/ InitUnsets
    BY <1>1, <1>2, <1>7
    DEF GetDescriptor, InitInUse, InitSuccess, InitReleases, InitUnsets, ReleaseEnds, Step, driver,
        Releasing
<1>8. CASE Task
    BY <1>1, <1>2, <1>8
    DEF Task, Initialize, Cleanup, ReleaseEnds, Wait, ResetDevice, ResetComplete, Configure, TaskIn,
        driver, Releasing
<1>9. CASE HandleUsbError
    BY <1>1, <1>9 DEF HandleUsbError, Release
<1>10. CASE Environment
    BY <1>2, <1>10 DEF Environment, Attach, Detach, Disturb, driver
<1>11. CASE UNCHANGED vars
    BY <1>2, <1>11 DEF vars, driver
<1>. QED
    BY <1>3, <1>4, <1>5, <1>6, <1>7, <1>8, <1>9, <1>10, <1>11 DEF Next, Configuring

(* An address the driver would transfer to is in the pool, whichever step  *)
(* of the initialisation the interrupt's Release came between.             *)
THEOREM AddressesHeld == Spec => []AddressIsHeld
<1>1. HeldInv => AddressIsHeld
    BY DEF HeldInv, Held, AddressIsHeld, InPool
<1>2. Spec => [](Inv /\ HeldInv)
    BY TypeInit, TypeNext, HeldInit, HeldNext, PTL DEF Spec
<1>. QED
    BY <1>1, <1>2, PTL

-----------------------------------------------------------------------------
(* The entries of address 1 that no driver will give back.                 *)

OrphansOf(p, a) == Cardinality(Holding(p, 1)) - (IF a # 0 THEN 1 ELSE 0)

(* The address the driver has not begun to give back.                      *)
Kept == IF at \in Releasing THEN 0 ELSE bAddress

(* There are finitely many entries, so one more or less is counted.        *)
LEMMA HoldingFinite ==
    ASSUME NEW p
    PROVE  /\ IsFiniteSet(Holding(p, 1)) /\ Cardinality(Holding(p, 1)) \in Nat
           /\ \A i \in Holding(p, 1) :
                Cardinality(Holding(p, 1) \ {i}) = Cardinality(Holding(p, 1)) - 1
           /\ \A i : i \notin Holding(p, 1) =>
                Cardinality(Holding(p, 1) \cup {i}) = Cardinality(Holding(p, 1)) + 1
<1>1. IsFiniteSet(Entries)
    BY FS_Interval DEF Entries
<1>2. Holding(p, 1) \in SUBSET Entries
    BY DEF Holding
<1>3. IsFiniteSet(Holding(p, 1))
    BY <1>1, <1>2, FS_Subset
<1>. QED
    BY <1>3, FS_CardinalityType, FS_AddElement, FS_RemoveElement

(* Giving back an address takes one of its entries, and none of another's. *)
LEMMA FreedHolding ==
    ASSUME NEW p \in [Entries -> Entry], NEW a \in {0, 1}, Held(p, a)
    PROVE  Holding(Freed(p, a), 1) =
             IF a = 0 THEN Holding(p, 1) ELSE Holding(p, 1) \ {FindAddressIndex(p, 1)}
<1>. DEFINE i == FindAddressIndex(p, a)
<1>1. i \in Entries /\ (i # 0 => p[i].address = a)
    BY IndexRange
<1>2. Freed(p, a) = IF i = 0 THEN p ELSE [p EXCEPT ![i] = FreeEntry]
    BY DEF Freed
<1>3. a = 1 => i # 0
    BY FoundIndex DEF Held, Holding
<1>4. FreeEntry.address = 0
    BY DEF FreeEntry
<1>. HIDE DEF i
<1>5. CASE a = 0
    BY <1>1, <1>2, <1>4, <1>5 DEF Holding
<1>6. CASE a = 1
  <2>1. \A j \in Entries : Freed(p, a)[j] = IF j = i THEN FreeEntry ELSE p[j]
    BY <1>1, <1>2, <1>3, <1>6
  <2>2. Holding(Freed(p, a), 1) = Holding(p, 1) \ {i}
    BY <1>4, <2>1 DEF Holding
  <2>. QED
    BY <1>6, <2>2 DEF i
<1>. QED
    BY <1>5, <1>6

LEMMA AllocatedHolding ==
    ASSUME pool \in [Entries -> Entry], HasRoom
    PROVE  Holding(Allocated, 1) = Holding(pool, 1) \cup {FindAddressIndex(pool, 0)}
<1>1. \A j \in Entries \ {FindAddressIndex(pool, 0)} : Allocated[j] = pool[j]
    BY IndexRange DEF Allocated
<1>. QED
    BY <1>1, AllocatedHolds DEF Holding

LEMMA EndpointsHolding ==
    ASSUME pool \in [Entries -> Entry], bAddress \in {0, 1}, Held(pool, bAddress), NEW n
    PROVE  Holding(WithEndpoints(bAddress, n), 1) = Holding(pool, 1)
<1>. DEFINE i == EntryOf(bAddress)
<1>1. /\ i \in Entries
      /\ bAddress = 0 => i = 0
      /\ bAddress = 1 => i \in Holding(pool, 1)
    BY IndexRange, FoundIndex DEF EntryOf, Held, Entries
<1>2. \A j \in Entries : WithEndpoints(bAddress, n)[j] =
        IF j = i THEN [address |-> bAddress, epinfo |-> "epInfo", epcount |-> n] ELSE pool[j]
    BY <1>1 DEF WithEndpoints
<1>. HIDE DEF i
<1>. QED
    BY <1>1, <1>2 DEF Holding

(* The driver gives its address back.                                      *)
LEMMA ReleasedOrphans ==
    ASSUME NEW p \in [Entries -> Entry], NEW a \in {0, 1}, Held(p, a)
    PROVE  OrphansOf(Freed(p, a), 0) = OrphansOf(p, a)
<1>1. CASE a = 0
    BY <1>1, FreedHolding DEF OrphansOf
<1>2. CASE a = 1
  <2>1. FindAddressIndex(p, 1) \in Holding(p, 1)
    BY <1>2, FoundIndex DEF Held
  <2>2. Holding(Freed(p, a), 1) = Holding(p, 1) \ {FindAddressIndex(p, 1)}
    BY <1>2, FreedHolding
  <2>. QED
    BY <1>2, <2>1, <2>2, HoldingFinite DEF OrphansOf
<1>. QED
    BY <1>1, <1>2

(* Whether or not it has an entry, giving an address back takes one at most*)
(* and adds none.                                                          *)
LEMMA FreedFewer ==
    ASSUME NEW p \in [Entries -> Entry], NEW a \in {0, 1}
    PROVE  OrphansOf(Freed(p, a), 0) <= OrphansOf(p, 0)
<1>1. CASE Held(p, a)
  <2>1. OrphansOf(Freed(p, a), 0) = OrphansOf(p, a) /\ Cardinality(Holding(p, 1)) \in Nat
    BY <1>1, ReleasedOrphans, HoldingFinite
  <2>. QED
    BY <2>1 DEF OrphansOf
<1>2. CASE ~Held(p, a)
  <2>1. Freed(p, a) = p
    BY <1>2, FoundIndex DEF Held, Freed
  <2>. QED
    BY <2>1, HoldingFinite DEF OrphansOf
<1>. QED
    BY <1>1, <1>2

(* It takes one.                                                           *)
LEMMA TakenOrphans ==
    ASSUME pool \in [Entries -> Entry], HasRoom
    PROVE  OrphansOf(Allocated, 1) = OrphansOf(pool, 0)
<1>1. FindAddressIndex(pool, 0) \notin Holding(pool, 1)
    BY AllocatedHolds
<1>. QED
    BY <1>1, AllocatedHolding, HoldingFinite DEF OrphansOf

LEMMA OrphansNext ==
    ASSUME Inv, HeldInv, [Next]_vars, at # "default"
    PROVE  Orphans' <= Orphans
<1>0. /\ pool \in [Entries -> Entry] /\ bAddress \in {0, 1} /\ Kept \in {0, 1}
      /\ Held(pool, Kept)
      /\ OrphansOf(pool, Kept) \in Int /\ OrphansOf(pool, 0) \in Int
    BY Parts, HoldingFinite DEF Kept, HeldInv, Held, OrphansOf
<1>. SUFFICES OrphansOf(pool', Kept') <= OrphansOf(pool, Kept)
    BY DEF Orphans, OrphansOf, Kept, Holding
<1>1. CASE pool' = Freed(pool, bAddress) /\ Kept' = 0
  <2>1. CASE at \notin Releasing
    BY <1>0, <1>1, <2>1, ReleasedOrphans DEF Kept
  <2>2. CASE at \in Releasing
    BY <1>0, <1>1, <2>2, FreedFewer DEF Kept
  <2>. QED
    BY <2>1, <2>2
<1>2. CASE UNCHANGED <<pool, Kept>>
    BY <1>0, <1>2
<1>r. CASE Release \/ (ReleaseBegins /\ at' \in Releasing)
    BY <1>1, <1>r DEF Release, ReleaseBegins, Kept
<1>f. ASSUME NEW place \in {"release", "unset"}, NEW rcode, Fail(place, rcode)
      PROVE  OrphansOf(pool', Kept') <= OrphansOf(pool, Kept)
    BY <1>r, <1>f DEF Fail, Releasing
<1>3. CASE UNCHANGED <<pool, bAddress>> /\ at \notin Releasing /\ at' \notin Releasing
    BY <1>2, <1>3 DEF Kept
<1>4. CASE InitDescriptor
  <2>0. at = "init" /\ Kept = 0
    BY <1>4 DEF InitDescriptor, Step, Kept
  <2>1. CASE at' = "setaddr" /\ HasRoom /\ pool' = Allocated /\ bAddress' = 1
    BY <1>0, <2>0, <2>1, TakenOrphans DEF Kept, Releasing
  <2>2. CASE at' = "setaddr" /\ UNCHANGED <<pool, bAddress>>
    BY <1>3, <2>0, <2>2 DEF Releasing
  <2>. QED
    BY <1>f, <1>4, <2>1, <2>2 DEF InitDescriptor
<1>5. CASE InitEntry \/ InitEndpoints
  <2>0. at \notin Releasing /\ at' \notin Releasing /\ UNCHANGED bAddress
    BY <1>5 DEF InitEntry, InitEndpoints, Step, GoOn, Releasing
  <2>1. CASE pool' \in {WithEndpoints(bAddress, 1), WithEndpoints(bAddress, 3)}
    <3>1. Holding(pool', 1) = Holding(pool, 1) /\ Kept' = Kept
        BY <1>0, <2>0, <2>1, EndpointsHolding DEF Kept
    <3>. QED
        BY <1>0, <3>1 DEF OrphansOf
  <2>. QED
    BY <1>3, <1>5, <2>0, <2>1 DEF InitEntry, InitEndpoints
<1>6. CASE InitSetAddress \/ InitConfiguration \/ InitSetConfiguration
    BY <1>3, <1>f, <1>6
    DEF InitSetAddress, InitConfiguration, InitSetConfiguration, Step, GoOn, driver, Releasing
<1>7. CASE InitProtocol \/ InitSwitch
    BY <1>3, <1>f, <1>7 DEF InitProtocol, InitSwitch, Step, GoOn, driver, Releasing
<1>i. ASSUME NEW rcode, InitReturns(rcode) PROVE at' \notin Releasing
    BY <1>i
    DEF InitReturns, RetryAttempt, CallInit, AttemptReturns, ConfiguringReturns, Releasing
<1>8. CASE InitInUse \/ InitSuccess
    BY <1>3, <1>8, <1>i DEF InitInUse, InitSuccess, Step, driver, Releasing
<1>9. CASE InitReleases \/ InitUnsets \/ Cleanup
  <2>1. at \in Releasing /\ bAddress' = 0 /\ UNCHANGED pool
    BY <1>9 DEF InitReleases, InitUnsets, Cleanup, ReleaseEnds, Step, Releasing
  <2>. QED
    BY <1>2, <2>1 DEF Kept
<1>10. CASE GetDescriptor
    BY <1>3, <1>10 DEF GetDescriptor, ConfiguringReturns, Step, driver, Releasing
<1>11. CASE Initialize
    BY <1>r, <1>11 DEF Initialize, Releasing
<1>12. CASE Wait \/ ResetDevice \/ ResetComplete \/ Configure
    BY <1>3, <1>12
    DEF Wait, ResetDevice, ResetComplete, Configure, TaskIn, driver, Releasing
<1>13. CASE HandleUsbError
    BY <1>r, <1>13 DEF HandleUsbError
<1>14. CASE Environment
    BY <1>2, <1>14 DEF Environment, Attach, Detach, Disturb, driver, Kept
<1>15. CASE UNCHANGED vars
    BY <1>2, <1>15 DEF vars, driver, Kept
<1>16. ~DefaultAddressing
    BY DEF DefaultAddressing, Step
<1>. QED
    BY <1>4, <1>5, <1>6, <1>7, <1>8, <1>9, <1>10, <1>11, <1>12, <1>13, <1>14, <1>15, <1>16
    DEF Next, Configuring, Task

(* Whatever the size of the pool, and whichever step the interrupt's       *)
(* Release comes between, only DefaultAddressing can take an entry that is *)
(* never given back.                                                       *)
THEOREM AddressesReturned == Spec => NoAddressLost
<1>1. Inv /\ HeldInv /\ [Next]_vars => [at # "default" => Orphans' <= Orphans]_vars
    BY OrphansNext
<1>2. Spec => [](Inv /\ HeldInv)
    BY TypeInit, TypeNext, HeldInit, HeldNext, PTL DEF Spec
<1>. QED
    BY <1>1, <1>2, PTL DEF Spec, NoAddressLost

-----------------------------------------------------------------------------
(* A ready link is usable.                                                 *)

(* The pool has three endpoints, those of epInfo, for the driver's address.*)
EquippedIn(p) ==
    /\ p[FindAddressIndex(p, 1)].epinfo = "epInfo"
    /\ p[FindAddressIndex(p, 1)].epcount = 3

(* What holds between the steps of an enumeration that nothing has         *)
(* disturbed: an address taken in InitDescriptor is kept until Release;    *)
(* the endpoints are filled in before the configuration is set; a ready    *)
(* driver is repeated (init) or done (RUNNING).                            *)
UsableInv ==
    trouble = {} =>
        /\ at \in {"setaddr", "entry", "confdescr", "endpoints", "setconf", "success", "proto", "switch"} =>
             bAddress = 1
        /\ device.address = 1 /\ device.mode = "accessory" =>
             /\ at = "endpoints" => bNumEP = 3
             /\ at = "setconf" => bNumEP = 3 /\ EquippedIn(pool)
        /\ at = "success" \/ (ready /\ at # "cleanup") =>
             /\ bAddress = 1 /\ device.address = 1
             /\ device.mode = "accessory" => device.configured /\ EquippedIn(pool)
        /\ ready => at \in {"init", "cleanup"} \/ (at = "idle" /\ usb_task_state = "RUNNING")

(* Nobody answers at an address on a line with nothing attached.           *)
AwayInv == line = "SE0" => device.address = 0

LinkInv == Inv /\ HeldInv /\ AwayInv /\ UsableInv

(* The index of an address depends on who holds it only.                   *)
LEMMA SameIndex ==
    ASSUME NEW p, NEW q, NEW a, Holding(p, a) = Holding(q, a)
    PROVE  FindAddressIndex(p, a) = FindAddressIndex(q, a)
BY DEF FindAddressIndex

LEMMA EndpointsEquip ==
    ASSUME pool \in [Entries -> Entry], bAddress = 1, Held(pool, 1)
    PROVE  EquippedIn(WithEndpoints(bAddress, 3))
<1>1. FindAddressIndex(WithEndpoints(bAddress, 3), 1) = FindAddressIndex(pool, 1)
    BY EndpointsHolding, SameIndex
<1>2. FindAddressIndex(pool, 1) \in Entries /\ EntryOf(bAddress) = FindAddressIndex(pool, 1)
    BY IndexRange DEF EntryOf
<1>. QED
    BY <1>1, <1>2 DEF EquippedIn, WithEndpoints

(* Init returns to a place where no address is needed; it leaves the       *)
(* tablet as it is, or resets it.                                          *)
LEMMA InitReturnsPlace ==
    ASSUME Inv, NEW rcode, InitReturns(rcode)
    PROVE  /\ at' \in {"init", "idle", "default"}
           /\ device' = device \/ device'.address = 0
           /\ rcode = "ok" =>
                device' = device /\ (at' = "init" \/ (at' = "idle" /\ usb_task_state' = "RUNNING"))
<1>1. AfterBusReset(device).address = 0
    BY DEF AfterBusReset, Fresh
<1>. QED
    BY <1>1 DEF InitReturns, RetryAttempt, CallInit, AttemptReturns, ConfiguringReturns, Again

(* Where a driver that is not ready needs neither address nor endpoints.   *)
LEMMA NotReady ==
    ASSUME ready' = FALSE,
           at' \in {"init", "idle", "default", "descr", "release", "unset", "cleanup"}
    PROVE  UsableInv'
BY DEF UsableInv

LEMMA AwayNext ==
    ASSUME Inv, AwayInv, [Next]_vars
    PROVE  AwayInv'
<1>. USE Parts DEF AwayInv
<1>1. \A d \in Devices : AfterBusReset(d).address = 0
    BY DEF AfterBusReset, Fresh
<1>2. \A c : [device EXCEPT !.configured = c].address = device.address
    BY DEF Devices
<1>4. CASE Configuring
  <2>1. UNCHANGED line
    BY <1>4 DEF Configuring, GetDescriptor, InitInUse, InitDescriptor, InitSetAddress, InitEntry,
           InitConfiguration, InitEndpoints, InitSetConfiguration, InitSuccess, InitProtocol,
           InitSwitch, InitReleases, InitUnsets, DefaultAddressing, Step
  <2>. SUFFICES ASSUME line = "SE0" PROVE device'.address = 0
    BY <2>1
  <2>2. ~Answers(0) /\ ~Answers(bAddress)
    BY DEF Answers
  <2>3. CASE UNCHANGED device
    BY <2>3
  <2>4. CASE \E rcode : InitReturns(rcode)
    BY <2>4, InitReturnsPlace
  <2>5. CASE InitSetAddress
    BY <2>2, <2>5 DEF InitSetAddress
  <2>6. CASE InitSetConfiguration
    <3>1. \E c : device' = [device EXCEPT !.configured = c]
        BY <2>6 DEF InitSetConfiguration
    <3>. QED
        BY <1>2, <3>1
  <2>7. CASE DefaultAddressing
    BY <2>2, <2>7 DEF DefaultAddressing
  <2>. QED
    BY <1>4, <2>3, <2>4, <2>5, <2>6, <2>7
    DEF Configuring, GetDescriptor, InitInUse, InitDescriptor, InitEntry, InitConfiguration,
        InitEndpoints, InitSuccess, InitProtocol, InitSwitch, InitReleases, InitUnsets
<1>5. CASE Task
    BY <1>1, <1>5
    DEF Task, Initialize, Cleanup, Wait, ResetDevice, ResetComplete, Configure, TaskIn
<1>6. CASE HandleUsbError
    BY <1>6 DEF HandleUsbError
<1>7. CASE Environment
    BY <1>7 DEF Environment, Attach, Detach, Disturb, Fresh
<1>8. CASE UNCHANGED vars
    BY <1>8 DEF vars
<1>. QED
    BY <1>4, <1>5, <1>6, <1>7, <1>8 DEF Next

LEMMA UsableConfiguring ==
    ASSUME LinkInv, Configuring
    PROVE  UsableInv'
<1>. USE Parts DEF LinkInv
<1>. SUFFICES ASSUME trouble' = {} PROVE UsableInv'
    BY DEF UsableInv
<1>1. trouble = {}
    BY DEF Configuring, GetDescriptor, InitInUse, InitDescriptor, InitSetAddress, InitEntry,
           InitConfiguration, InitEndpoints, InitSetConfiguration, InitSuccess, InitProtocol,
           InitSwitch, InitReleases, InitUnsets, DefaultAddressing, Fail
<1>2. CASE GetDescriptor
    BY <1>1, <1>2, NotReady
    DEF GetDescriptor, ConfiguringReturns, Step, driver, UsableInv
<1>3. CASE InitInUse
    BY <1>3 DEF InitInUse
<1>4. ASSUME NEW place \in {"release", "unset"}, NEW rcode, Fail(place, rcode), ready = FALSE
      PROVE  UsableInv'
    BY <1>4, NotReady DEF Fail, ReleaseBegins
<1>5. CASE InitDescriptor
  <2>0. at = "init" /\ bAddress = 0 /\ ready = FALSE
    BY <1>1, <1>5 DEF InitDescriptor, Step, UsableInv
  <2>1. CASE HasRoom /\ bAddress' = 1 /\ at' = "setaddr" /\ UNCHANGED ready
    BY <1>1, <2>0, <2>1 DEF UsableInv
  <2>. QED
    BY <1>4, <1>5, <2>0, <2>1 DEF InitDescriptor
<1>6. CASE InitSetAddress
  <2>0. at = "setaddr" /\ ready = FALSE /\ bAddress = 1
    BY <1>1, <1>6 DEF InitSetAddress, Step, UsableInv
  <2>1. CASE at' = "entry" /\ UNCHANGED driver
    BY <2>0, <2>1 DEF UsableInv, driver
  <2>. QED
    BY <1>4, <1>6, <2>0, <2>1 DEF InitSetAddress, GoOn
<1>7. CASE InitEntry
  <2>0. at = "entry" /\ ready = FALSE /\ bAddress = 1
    BY <1>1, <1>7 DEF InitEntry, Step, UsableInv
  <2>1. at' \in {"confdescr", "proto"} /\ UNCHANGED <<bAddress, ready>>
    BY <1>7 DEF InitEntry, GoOn
  <2>. QED
    BY <2>0, <2>1 DEF UsableInv
<1>8. CASE InitConfiguration
  <2>0. at = "confdescr" /\ ready = FALSE /\ bAddress = 1
    BY <1>1, <1>8 DEF InitConfiguration, Step, UsableInv
  <2>1. CASE /\ bNumEP' \in EndpointXtract
             /\ GoOn("endpoints")
             /\ UNCHANGED <<device, bAddress, ready>>
    BY <2>0, <2>1 DEF GoOn, EndpointXtract, UsableInv
  <2>. QED
    BY <1>4, <1>8, <2>0, <2>1 DEF InitConfiguration
<1>9. CASE InitEndpoints
  <2>0. /\ at = "endpoints" /\ ready = FALSE /\ bAddress = 1 /\ Held(pool, 1)
        /\ device.address = 1 /\ device.mode = "accessory" => bNumEP = 3
    BY <1>1, <1>9 DEF InitEndpoints, Step, UsableInv, HeldInv, Releasing
  <2>1. /\ pool' = IF bNumEP = 3 THEN WithEndpoints(bAddress, 3) ELSE pool
        /\ at' = "setconf" /\ UNCHANGED <<device, bAddress, bNumEP, ready>>
    BY <1>9 DEF InitEndpoints, GoOn
  <2>2. device.address = 1 /\ device.mode = "accessory" => bNumEP = 3 /\ EquippedIn(pool')
    BY <2>0, <2>1, EndpointsEquip
  <2>. QED
    BY <2>0, <2>1, <2>2 DEF UsableInv, EquippedIn, FindAddressIndex, Holding
<1>10. CASE InitSetConfiguration
  <2>0. /\ at = "setconf" /\ bAddress = 1 /\ ready = FALSE
        /\ device.address = 1 /\ device.mode = "accessory" => bNumEP = 3 /\ EquippedIn(pool)
    BY <1>1, <1>10 DEF InitSetConfiguration, Step, UsableInv
  <2>1. ASSUME Answers(bAddress), GoOn("success"), UNCHANGED <<driver, trouble>>,
               NEW c \in {TRUE, bNumEP = 3}, device' = [device EXCEPT !.configured = c]
        PROVE  UsableInv'
    <3>1. device.address = 1
        BY <2>0, <2>1 DEF Answers
    <3>2. device'.address = 1 /\ device'.mode = device.mode /\ device'.configured = c
        BY <2>1, <3>1 DEF Devices
    <3>3. device.mode = "accessory" => c = TRUE /\ EquippedIn(pool)
        BY <2>0, <2>1, <3>1
    <3>. QED
        BY <2>0, <2>1, <3>2, <3>3 DEF UsableInv, EquippedIn, FindAddressIndex, Holding, GoOn, driver
  <2>. QED
    BY <1>4, <1>10, <2>0, <2>1 DEF InitSetConfiguration
<1>11. CASE InitSuccess
  <2>0. /\ at = "success" /\ bAddress = 1 /\ device.address = 1
        /\ device.mode = "accessory" => device.configured /\ EquippedIn(pool)
    BY <1>1, <1>11 DEF InitSuccess, Step, UsableInv
  <2>1. /\ UNCHANGED <<pool, bAddress, device>>
        /\ at' = "init" \/ (at' = "idle" /\ usb_task_state' = "RUNNING")
    BY <1>11, InitReturnsPlace DEF InitSuccess
  <2>. QED
    BY <2>0, <2>1 DEF UsableInv, EquippedIn, FindAddressIndex, Holding
<1>12. CASE InitProtocol
  <2>0. at = "proto" /\ bAddress = 1 /\ ready = FALSE
    BY <1>1, <1>12 DEF InitProtocol, Step, UsableInv
  <2>1. CASE at' = "switch" /\ UNCHANGED driver
    BY <2>0, <2>1 DEF driver, UsableInv
  <2>. QED
    BY <1>4, <1>12, <2>0, <2>1 DEF InitProtocol, GoOn
<1>13. CASE InitSwitch
  <2>0. ready = FALSE
    BY <1>1, <1>13 DEF InitSwitch, Step, UsableInv
  <2>. QED
    BY <1>4, <1>13, <2>0 DEF InitSwitch
<1>14. CASE InitReleases
  <2>1. ready' = FALSE /\ at' \in {"init", "idle", "default"}
    BY <1>14, InitReturnsPlace DEF InitReleases, ReleaseEnds
  <2>. QED
    BY <2>1, NotReady
<1>15. CASE InitUnsets
  <2>1. ready' = FALSE /\ at' \in {"init", "idle", "default"}
    BY <1>1, <1>15, InitReturnsPlace DEF InitUnsets, Step, UsableInv
  <2>. QED
    BY <2>1, NotReady
<1>16. CASE DefaultAddressing
    BY <1>1, <1>16, NotReady DEF DefaultAddressing, ConfiguringReturns, Step, UsableInv
<1>. QED
    BY <1>2, <1>3, <1>5, <1>6, <1>7, <1>8, <1>9, <1>10, <1>11, <1>12, <1>13, <1>14, <1>15, <1>16
    DEF Configuring

(* Task leaves a ready link alone until it probes the departure.           *)
LEMMA UsableTask ==
    ASSUME LinkInv, Task
    PROVE  UsableInv'
<1>. USE Parts DEF LinkInv
<1>. SUFFICES ASSUME trouble' = {} PROVE UsableInv'
    BY DEF UsableInv
<1>0. (Cleanup \/ at = "idle") /\ Probed \in Lines
    BY FollowedTypes DEF Task, Initialize, Wait, ResetDevice, ResetComplete, Configure, TaskIn
<1>1. CASE Cleanup
    BY <1>1, NotReady DEF Cleanup, ReleaseEnds
<1>2. CASE Initialize
    BY <1>2 DEF Initialize, UsableInv
<1>3. CASE Wait \/ ResetDevice \/ ResetComplete \/ Configure
  <2>0. trouble = {} /\ at = "idle" /\ UNCHANGED driver
    BY <1>3 DEF Wait, ResetDevice, ResetComplete, Configure, TaskIn
  <2>1. CASE ready
    <3>1. usb_task_state = "RUNNING" /\ Followed \in {"ILLEGAL", "INITIALIZE", "RUNNING"}
        BY <1>0, <2>0, <2>1 DEF UsableInv, Followed, Lines, Detached
    <3>2. ~(ResetDevice \/ ResetComplete \/ Configure)
        BY <3>1 DEF ResetDevice, ResetComplete, Configure, TaskIn
    <3>3. Probed # "SE1" /\ usb_task_state' = Followed /\ Followed # "INITIALIZE" /\ UNCHANGED <<device, at>>
        BY <1>3, <3>2 DEF Wait, TaskIn
    <3>4. usb_task_state' = "RUNNING"
        BY <1>0, <3>1, <3>3 DEF Followed, Lines, Detached
    <3>. QED
        BY <2>0, <2>1, <3>3, <3>4 DEF driver, UsableInv, EquippedIn, FindAddressIndex, Holding
  <2>2. CASE ~ready
    <3>1. ready' = FALSE /\ at' \in {"idle", "descr"}
        BY <1>3, <2>0, <2>2 DEF Wait, ResetDevice, ResetComplete, Configure, driver
    <3>. QED
        BY <3>1, NotReady
  <2>. QED
    BY <2>1, <2>2
<1>4. Task => Initialize \/ Cleanup \/ Wait \/ ResetDevice \/ ResetComplete \/ Configure
    BY DEF Task
<1>. QED
    BY <1>1, <1>2, <1>3, <1>4

(* The interrupt's Release between two steps, and a departure, are         *)
(* remembered as trouble.                                                  *)
LEMMA UsableOther ==
    ASSUME LinkInv, HandleUsbError \/ Environment \/ UNCHANGED vars
    PROVE  UsableInv'
<1>. USE Parts DEF LinkInv
<1>. SUFFICES ASSUME trouble' = {} PROVE UsableInv'
    BY DEF UsableInv
<1>1. CASE HandleUsbError
  <2>1. at = "idle" /\ at' = "idle" /\ ready' = FALSE
    BY <1>1 DEF HandleUsbError, Release
  <2>. QED
    BY <2>1, NotReady
<1>2. CASE Disturb \/ UNCHANGED vars
  <2>1. UNCHANGED <<trouble, at, bAddress, bNumEP, ready, device, pool, usb_task_state>>
    BY <1>2 DEF Disturb, vars, driver
  <2>. QED
    BY <2>1 DEF UsableInv, EquippedIn, FindAddressIndex, Holding
<1>3. CASE Attach
    BY <1>3 DEF Attach, driver, Fresh, AwayInv, UsableInv
<1>4. CASE Detach
    BY <1>4 DEF Detach, driver, Fresh, UsableInv
<1>. QED
    BY <1>1, <1>2, <1>3, <1>4 DEF Environment

LEMMA LinkInvInit == Init => LinkInv
<1>1. Init => AwayInv /\ UsableInv
    BY DEF Init, Fresh, AwayInv, UsableInv
<1>. QED
    BY <1>1, TypeInit, HeldInit DEF LinkInv

LEMMA LinkInvNext == LinkInv /\ [Next]_vars => LinkInv'
<1>. SUFFICES ASSUME LinkInv, [Next]_vars PROVE LinkInv'
    OBVIOUS
<1>1. UsableInv'
    BY UsableConfiguring, UsableTask, UsableOther DEF Next
<1>. QED
    BY <1>1, TypeNext, HeldNext, AwayNext DEF LinkInv

(* While the main loop exchanges data the tablet is configured at the      *)
(* driver's address and the pool has the accessory's endpoints for it,     *)
(* for every size of the pool and number of repetitions.                   *)
THEOREM ReadyUsable == Spec => []ReadyIsUsable
<1>1. ASSUME LinkInv PROVE ReadyIsUsable
  <2>1. usb_task_state = "RUNNING" => at # "cleanup"
    BY <1>1 DEF LinkInv, Inv, StepInv
  <2>. QED
    BY <1>1, <2>1 DEF LinkInv, UsableInv, ReadyIsUsable, EntryOf, EquippedIn
<1>. QED
    BY <1>1, LinkInvInit, LinkInvNext, PTL DEF Spec

-----------------------------------------------------------------------------
(* An enumeration has a bounded number of steps.                           *)

(* The steps an initialisation can still take without beginning again.     *)
PlaceLeft == [init |-> 7, setaddr |-> 6, entry |-> 5, confdescr |-> 4, endpoints |-> 3,
              proto |-> 3, setconf |-> 2, switch |-> 2, success |-> 1, release |-> 1, unset |-> 1]

NoAttemptAt == {"idle", "cleanup", "default", "descr"}

(* The steps Configuring can still take: each repetition left is one Init  *)
(* called as ConfigureDevice, and one called as Init.                      *)
Left ==
    CASE at \in {"idle", "cleanup"} -> 0
      [] at = "default" -> 1
      [] at = "descr" -> 14 * Retries + 16
      [] at \notin NoAttemptAt ->
            1 + PlaceLeft[at]
              + 7 * (2 * (Retries - attempt.retries)
                     + (IF attempt.call = "ConfigureDevice" THEN 1 ELSE 0))

(* The number of steps inside an attempt, as arithmetic.                   *)
LEMMA LeftInAttempt ==
    ASSUME Inv, at \notin NoAttemptAt
    PROVE  /\ Retries - attempt.retries \in Nat
           /\ PlaceLeft[at] \in 1 .. 7
           /\ Left = 1 + PlaceLeft[at] + 14 * (Retries - attempt.retries)
                       + (IF attempt.call = "ConfigureDevice" THEN 7 ELSE 0)
<1>1. attempt.retries \in 0 .. Retries
    BY Parts DEF Attempts
<1>2. PlaceLeft[at] \in 1 .. 7
    BY Parts DEF Places, NoAttemptAt, PlaceLeft
<1>. QED
    BY <1>1, <1>2 DEF Left

LEMMA LeftRange ==
    ASSUME Inv
    PROVE  Left \in 0 .. (14 * Retries + 16)
<1>1. CASE at \in NoAttemptAt
    BY <1>1 DEF Left, NoAttemptAt
<1>2. CASE at \notin NoAttemptAt
  <2>1. attempt.retries \in 0 .. Retries
    BY Parts DEF Attempts
  <2>. QED
    BY <1>2, <2>1, LeftInAttempt
<1>. QED
    BY <1>1, <1>2

(* The next Init of an attempt, if there is one, has fewer steps left.     *)
LEMMA LeftReturns ==
    ASSUME Inv, Inv', at \notin NoAttemptAt,
           NEW rcode, InitReturns(rcode)
    PROVE  Left' < Left
<1>0. /\ Retries - attempt.retries \in Nat /\ PlaceLeft[at] \in 1 .. 7
      /\ attempt.retries \in 0 .. Retries /\ attempt \in Attempts
    BY LeftInAttempt, Parts DEF Attempts
<1>1. CASE RetryAttempt(rcode)
  <2>1. /\ at' = "init" /\ attempt'.retries = attempt.retries + 1
        /\ attempt'.call = "ConfigureDevice"
    BY <1>0, <1>1 DEF RetryAttempt, Attempts
  <2>2. Left' = 1 + 7 + 7 * (2 * (Retries - (attempt.retries + 1)) + 1)
    BY <2>1 DEF Left, NoAttemptAt, PlaceLeft
  <2>. QED
    BY <1>0, <2>2, LeftInAttempt
<1>2. CASE CallInit(rcode)
  <2>1. /\ at' = "init" /\ attempt'.retries = attempt.retries
        /\ attempt.call = "ConfigureDevice" /\ attempt'.call = "Init"
    BY <1>0, <1>2 DEF CallInit, Attempts
  <2>2. Left' = 1 + 7 + 7 * (2 * (Retries - attempt.retries) + 0)
    BY <2>1 DEF Left, NoAttemptAt, PlaceLeft
  <2>. QED
    BY <1>0, <2>1, <2>2, LeftInAttempt
<1>3. CASE AttemptReturns(rcode)
  <2>1. Left' \in 0 .. 1
    BY <1>3 DEF AttemptReturns, ConfiguringReturns, Left, NoAttemptAt
  <2>. QED
    BY <1>0, <2>1, LeftInAttempt
<1>. QED
    BY <1>1, <1>2, <1>3 DEF InitReturns

LEMMA LeftConfiguring ==
    ASSUME Inv, Inv', Configuring
    PROVE  Left' < Left
<1>1. CASE GetDescriptor
  <2>1. Left = 14 * Retries + 16
    BY <1>1 DEF GetDescriptor, Step, Left, NoAttemptAt
  <2>2. CASE at' \in {"idle", "default"}
    <3>1. Left' \in 0 .. 1
        BY <2>2 DEF Left, NoAttemptAt
    <3>. QED
        BY <2>1, <3>1, LinkAssumption
  <2>3. CASE at' = "init" /\ attempt' = [NoAttempt EXCEPT !.blind = (bAddress = 0 /\ device.mode = "plain")]
    <3>1. attempt'.retries = 0 /\ attempt'.call = "ConfigureDevice"
        BY <2>3 DEF NoAttempt
    <3>2. Left' = 1 + 7 + 7 * (2 * (Retries - 0) + 1)
        BY <2>3, <3>1 DEF Left, NoAttemptAt, PlaceLeft
    <3>. QED
        BY <2>1, <3>2
  <2>. QED
    BY <1>1, <2>2, <2>3 DEF GetDescriptor, ConfiguringReturns
<1>2. ASSUME at \notin NoAttemptAt, \E rcode : InitReturns(rcode)
      PROVE  Left' < Left
    BY <1>2, LeftReturns
<1>3. ASSUME at \notin NoAttemptAt, at' \notin NoAttemptAt,
             attempt'.retries = attempt.retries, attempt'.call = attempt.call,
             PlaceLeft[at'] < PlaceLeft[at]
      PROVE  Left' < Left
  <2>1. Left' = 1 + PlaceLeft[at'] + 14 * (Retries - attempt.retries)
                    + (IF attempt.call = "ConfigureDevice" THEN 7 ELSE 0)
        /\ PlaceLeft[at'] \in 1 .. 7
    <3>1. Left' = 1 + PlaceLeft[at'] + 7 * (2 * (Retries - attempt.retries)
                        + (IF attempt.call = "ConfigureDevice" THEN 1 ELSE 0))
        BY <1>3 DEF Left
    <3>2. PlaceLeft[at'] \in 1 .. 7
        BY <1>3 DEF Inv, TypeOK, Places, NoAttemptAt, PlaceLeft
    <3>. QED
        BY <1>3, <3>1, <3>2, LeftInAttempt
  <2>. QED
    BY <1>3, <2>1, LeftInAttempt
<1>f. ASSUME at \notin NoAttemptAt \cup {"release", "unset", "success"},
             NEW place \in {"release", "unset"}, NEW rcode, Fail(place, rcode)
      PROVE  Left' < Left
  <2>1. at' = place /\ attempt'.retries = attempt.retries /\ attempt'.call = attempt.call
    BY <1>f, Parts DEF Fail, Attempts
  <2>2. PlaceLeft[at] \in 2 .. 7 /\ PlaceLeft[at'] = 1
    BY <1>f, <2>1, Parts DEF Places, NoAttemptAt, PlaceLeft
  <2>. QED
    BY <1>3, <1>f, <2>1, <2>2 DEF NoAttemptAt
<1>g. ASSUME at \notin NoAttemptAt, NEW place \in Places \ NoAttemptAt, GoOn(place),
             PlaceLeft[place] < PlaceLeft[at]
      PROVE  Left' < Left
    BY <1>3, <1>g DEF GoOn
<1>4. CASE InitInUse \/ InitSuccess \/ InitReleases \/ InitUnsets
    BY <1>2, <1>4 DEF InitInUse, InitSuccess, InitReleases, InitUnsets, Step, NoAttemptAt
<1>5. CASE InitDescriptor
  <2>1. CASE at' = "setaddr" /\ attempt' = [attempt EXCEPT !.udd = device.mode]
    <3>1. attempt'.retries = attempt.retries /\ attempt'.call = attempt.call
        BY <2>1, Parts DEF Attempts
    <3>. QED
        BY <1>3, <1>5, <2>1, <3>1 DEF InitDescriptor, Step, NoAttemptAt, PlaceLeft
  <2>. QED
    BY <1>f, <1>5, <2>1 DEF InitDescriptor, Step, NoAttemptAt
<1>6. CASE InitSetAddress
    BY <1>f, <1>g, <1>6 DEF InitSetAddress, Step, NoAttemptAt, Places, PlaceLeft
<1>7. CASE InitEntry \/ InitEndpoints
    BY <1>g, <1>7 DEF InitEntry, InitEndpoints, Step, NoAttemptAt, Places, PlaceLeft
<1>8. CASE InitConfiguration
    BY <1>f, <1>g, <1>8 DEF InitConfiguration, Step, NoAttemptAt, Places, PlaceLeft
<1>9. CASE InitSetConfiguration
    BY <1>f, <1>g, <1>9 DEF InitSetConfiguration, Step, NoAttemptAt, Places, PlaceLeft
<1>10. CASE InitProtocol \/ InitSwitch
    BY <1>f, <1>g, <1>10 DEF InitProtocol, InitSwitch, Step, NoAttemptAt, Places, PlaceLeft
<1>11. CASE DefaultAddressing
    BY <1>11 DEF DefaultAddressing, Step, ConfiguringReturns, Left, NoAttemptAt
<1>. QED
    BY <1>1, <1>4, <1>5, <1>6, <1>7, <1>8, <1>9, <1>10, <1>11 DEF Configuring

(* Task stands still while Configuring runs; the interrupt and the tablet  *)
(* change neither its place nor its repetitions.                           *)
LEMMA LeftElsewhere ==
    ASSUME [Next]_vars, ~Configuring, at # "idle"
    PROVE  Left' = Left
<1>1. CASE Cleanup
    BY <1>1 DEF Cleanup, Left, NoAttemptAt
<1>2. Task => Cleanup
    BY DEF Task, Initialize, Wait, ResetDevice, ResetComplete, Configure, TaskIn
<1>3. CASE ~Cleanup
  <2>1. UNCHANGED <<at, attempt>>
    BY <1>2, <1>3 DEF Next, HandleUsbError, Environment, Attach, Detach, Disturb, vars
  <2>. QED
    BY <2>1 DEF Left, NoAttemptAt
<1>. QED
    BY <1>1, <1>3

(* Once begun, an enumeration takes at most 14 * Retries + 16 steps,        *)
(* whatever the tablet answers, and however often it leaves, comes back or *)
(* the interrupt releases the driver between them: goto again, the two     *)
(* calls and the second loop together have no cycle (the part of           *)
(* ConfiguringEnds that fairness has no share in).                         *)
THEOREM EnumerationBounded ==
    Spec => /\ [](Left \in 0 .. (14 * Retries + 16))
            /\ [][ /\ Configuring => Left' < Left
                   /\ at # "idle" => Left' <= Left ]_vars
<1>1. Inv => Left \in 0 .. (14 * Retries + 16)
    BY LeftRange
<1>2. (Inv => Left \in 0 .. (14 * Retries + 16))'
    BY <1>1, PTL
<1>3. ASSUME Inv, Inv', [Next]_vars
      PROVE  [ (Configuring => Left' < Left) /\ (at # "idle" => Left' <= Left) ]_vars
  <2>1. Left \in Int /\ Left' \in Int
    BY <1>1, <1>2, <1>3
  <2>2. CASE Configuring
    BY <1>3, <2>1, <2>2, LeftConfiguring
  <2>3. CASE ~Configuring
    BY <1>3, <2>1, <2>3, LeftElsewhere
  <2>. QED
    BY <2>2, <2>3
<1>. QED
    BY <1>1, <1>3, LinkInvariant, PTL DEF Spec
=============================================================================
