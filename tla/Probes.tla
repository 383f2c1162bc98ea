------------------------------- MODULE Probes -------------------------------
(***************************************************************************)
(* The temperature probes: initTempSensors and poolTemperatureSensors      *)
(* (temperatureSensors.cpp) on DallasTemperature, which finds the probes   *)
(* with OneWire's search, sets their resolution and waits for their        *)
(* conversions.                                                            *)
(*                                                                         *)
(* All probes are of the model DS18B20 (the codes in masterConf.cpp), which*)
(* keeps its resolution without power.  Two members are left out: parasite *)
(* decides how the line is powered, not what is done, and nothing reads    *)
(* devices.  A finer resolution takes longer, so times are compared as     *)
(* resolutions.                                                            *)
(***************************************************************************)
EXTENDS OneWire

CONSTANTS
    TempProbes,     \* the ROM codes the firmware asks for
    Resolutions     \* what the probes may be set to when the firmware starts

ASSUME ProbesAssumption ==
    /\ TempProbes \in Seq(Roms) /\ TempProbes # <<>>
    /\ Resolutions \subseteq 9 .. 12

VARIABLES
    resolution,     \* of each probe
    converting,     \* the probes that have not finished their conversion
    step,           \* "begin", then for each probe "set" and "lookup", then "request", "wait", "ready"
    i, depth,       \* initTempSensors: the probe; getAddress: devices seen
    bitResolution,
    known           \* history: probes whose resolution begin has taken in, and not lost since

probeVars == <<resolution, converting, step, i, depth, bitResolution, known>>
vars == <<wireVars, probeVars>>

TypeOK ==
    /\ WireTypeOK
    /\ resolution \in [Roms -> 9 .. 12]
    /\ converting \subseteq Roms
    /\ step \in {"begin", "set", "lookup", "request", "wait", "ready"}
    /\ i \in 1 .. Len(TempProbes) + 1
    /\ depth \in Nat
    /\ bitResolution \in {0} \cup 9 .. 12
    /\ known \subseteq Roms

(* begin has called reset_search.                                          *)
Init ==
    /\ WireInit
    /\ resolution \in [Roms -> Resolutions]
    /\ converting = {}
    /\ step = "begin"
    /\ i = 1 /\ depth = 0
    /\ bitResolution = 9
    /\ known = {}

-----------------------------------------------------------------------------
(* isConnected: the scratchpad of the probe arrives with a good CRC.       *)
Connected(code, ok) ==
    \/ ok = (code \in present) /\ UNCHANGED faults
    \/ ok = FALSE /\ code \in present /\ Misread

(* getResolution of a probe that is not misread: 0 if there is none.       *)
Resolution(code) == IF code \in present THEN resolution[code] ELSE 0

Wrong(code, answer) == IF answer = Resolution(code) THEN 0 ELSE 1

(* Mutant of FinestRead: the last probe's resolution, not the finest.      *)
LatestRead(first, second) == IF second = 0 THEN bitResolution ELSE second

(* max(bitResolution, getResolution(deviceAddress)) is a macro: it calls   *)
(* getResolution a second time for the result if the first answer is not   *)
(* the smaller one, and the second answer may be misread as 0.             *)
FinestRead(first, second) == IF bitResolution > first THEN bitResolution ELSE second

(* begin: the loop over the search.  Where the macro does not read a second*)
(* time the second answer costs a fault at most and changes nothing.       *)
BeginFound ==
    /\ step = "begin" /\ wire = "found"
    /\ IF ROM_NO \in Genuine
       THEN \E first, second \in {0, Resolution(ROM_NO)} :
                /\ faults' = faults + Wrong(ROM_NO, first) + Wrong(ROM_NO, second)
                /\ faults' <= MaxFaults
                /\ bitResolution' = FinestRead(first, second)
                /\ known' = IF bitResolution' = 0 THEN {}
                            ELSE known \cup {p \in {ROM_NO} : first # 0 /\ second # 0}
       ELSE UNCHANGED <<faults, bitResolution, known>>
    /\ Caller("called")
    /\ UNCHANGED <<resolution, converting, step, i, depth>>

BeginDone ==
    /\ step = "begin" /\ wire = "none"
    /\ step' = "set"
    /\ Caller("free")
    /\ UNCHANGED <<faults, resolution, converting, i, depth, bitResolution, known>>

(* setResolution(TempProbes[i], 10), which leaves bitResolution alone,     *)
(* then getAddress(addr, i).                                               *)
SetResolution ==
    /\ step = "set"
    /\ \E ok \in BOOLEAN :
        /\ Connected(TempProbes[i], ok)
        /\ resolution' = IF ok THEN [resolution EXCEPT ![TempProbes[i]] = 10] ELSE resolution
    /\ step' = "lookup"
    /\ depth' = 0
    /\ ResetSearch
    /\ UNCHANGED <<converting, i, bitResolution, known>>

(* getAddress counts every code the search finds, the genuine or not, and  *)
(* ends at its index or with the search; its answer is only printed.       *)
LookupFound ==
    /\ step = "lookup" /\ wire = "found" /\ depth < i - 1
    /\ depth' = depth + 1
    /\ Caller("called")
    /\ UNCHANGED <<faults, resolution, converting, step, i, bitResolution, known>>

(* Mutant of LookupDone: the loop's index is not advanced.                 *)
LookupDoneSame ==
    /\ step = "lookup"
    /\ (wire = "none" \/ (wire = "found" /\ depth = i - 1))
    /\ step' = "set"
    /\ Caller("free")
    /\ UNCHANGED <<faults, resolution, converting, i, depth, bitResolution, known>>

LookupDone ==
    /\ step = "lookup"
    /\ (wire = "none" \/ (wire = "found" /\ depth = i - 1))
    /\ i' = i + 1
    /\ step' = IF i = Len(TempProbes) THEN "request" ELSE "set"
    /\ Caller("free")
    /\ UNCHANGED <<faults, resolution, converting, depth, bitResolution, known>>

(* requestTemperatures: every probe on the bus starts a conversion, and    *)
(* the caller waits as long as one of bitResolution takes; for a 0, as     *)
(* long as the longest.                                                    *)
RequestTemperatures ==
    /\ step \in {"request", "ready"}
    /\ converting' = present
    /\ step' = "wait"
    /\ UNCHANGED <<wireVars, resolution, i, depth, bitResolution, known>>

WaitedFor == IF bitResolution = 0 THEN 12 ELSE bitResolution

WaitIsOver ==
    /\ step = "wait"
    /\ converting' = {p \in converting : resolution[p] > WaitedFor}
    /\ step' = "ready"
    /\ UNCHANGED <<wireVars, resolution, i, depth, bitResolution, known>>

Search == SearchStep /\ UNCHANGED probeVars

BusChange ==
    /\ Change
    /\ converting' = converting \cap present'
    /\ UNCHANGED <<resolution, step, i, depth, bitResolution, known>>

Library ==
    \/ Search \/ BeginFound \/ BeginDone \/ SetResolution \/ LookupFound \/ LookupDone
    \/ RequestTemperatures \/ WaitIsOver

Next == Library \/ BusChange

Spec == Init /\ [][Next]_vars

(* The processor goes on with what it is doing.                            *)
FairSpec == Spec /\ WF_vars(Library)

-----------------------------------------------------------------------------
(* Properties.                                                             *)

(* requestTemperatures returns after the conversion of every probe begin   *)
(* has taken in, also when the firmware has made it finer in between or it *)
(* was off the bus; unless all were coarser than the firmware's 10 bits.   *)
(* What begin took in before it misread a probe's second answer is lost:   *)
(* then the next probe's resolution stands, which may be a coarser one.    *)
ConversionsComplete ==
    step = "ready" /\ WaitedFor >= 10 => converting \cap known = {}

(* "TRUE : function requestTemperature() etc returns when conversion is    *)
(* ready" (DallasTemperature.cpp:284), for the probes the firmware reads.  *)
ReturnsWhenReady ==
    step = "ready" => \A n \in 1 .. Len(TempProbes) : TempProbes[n] \notin converting

(* initTempSensors returns, whatever happened on the bus, once it is left  *)
(* alone: searches that went astray do not go round for ever.              *)
ProbesAreAsked == <>(step = "ready")
=============================================================================
