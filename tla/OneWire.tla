------------------------------ MODULE OneWire ------------------------------
(***************************************************************************)
(* The search for the devices on a 1-Wire bus, bit by bit, as              *)
(* OneWire::search makes it (OneWire.cpp).  Each call walks down the tree  *)
(* of ROM codes: for every bit all devices still answering send the bit    *)
(* and its complement on the wire, which is low if any of them sends 0,    *)
(* and the master says which of them go on.  What a call needs to know of  *)
(* the one before it is in ROM_NO, LastDiscrepancy and LastDeviceFlag.     *)
(*                                                                         *)
(* Devices are plugged in and out at any time, and a pair of bits may be   *)
(* read wrong.  LastFamilyDiscrepancy is left out: nothing reads it.       *)
(***************************************************************************)
EXTENDS Naturals, Sequences, FiniteSets

CONSTANTS
    RomBits,        \* bits of a ROM code: 64
    FamilyBits,     \* of which the first are the family code: 8
    Roms,           \* the devices, each its ROM code
    Genuine,        \* the codes with a right CRC
    MaxFaults       \* bound on changes and disturbances of the bus

Code == [1 .. RomBits -> {0, 1}]

Family(code) == {n \in 1 .. FamilyBits : code[n] = 1}

ASSUME OneWireAssumption ==
    /\ RomBits \in Nat \ {0} /\ FamilyBits \in 1 .. RomBits /\ MaxFaults \in Nat
    /\ Genuine \subseteq Code /\ Roms \subseteq Genuine
    /\ \A r \in Roms : Family(r) # {}

VARIABLES
    present,            \* the devices on the bus
    answering,          \* those that take part in the search at this bit
    ROM_NO, LastDiscrepancy, LastDeviceFlag,
    id_bit_number, last_zero,       \* locals of search
    wire,               \* search: "free", to be "called", "searching", "found", "none"
    faults,             \* how many there were
    quiet, given        \* history: the bus was left alone since reset_search; codes found since

searchState == <<ROM_NO, LastDiscrepancy, LastDeviceFlag>>
locals == <<id_bit_number, last_zero>>
wireVars == <<present, answering, searchState, locals, wire, faults, quiet, given>>

WireTypeOK ==
    /\ present \subseteq Roms
    /\ answering \subseteq present
    /\ ROM_NO \in Code
    /\ LastDiscrepancy \in 0 .. RomBits
    /\ LastDeviceFlag \in BOOLEAN
    /\ id_bit_number \in 1 .. RomBits
    /\ last_zero \in 0 .. RomBits
    /\ wire \in {"free", "called", "searching", "found", "none"}
    /\ faults \in 0 .. MaxFaults
    /\ quiet \in BOOLEAN
    /\ given \in Seq(Code)

NoCode == [n \in 1 .. RomBits |-> 0]

WireInit ==
    /\ present \in SUBSET Roms
    /\ answering = {}
    /\ ROM_NO = NoCode /\ LastDiscrepancy = 0 /\ LastDeviceFlag = FALSE
    /\ id_bit_number = 1 /\ last_zero = 0
    /\ wire = "called"
    /\ faults = 0
    /\ quiet = TRUE /\ given = <<>>

-----------------------------------------------------------------------------
(* Faults: a change of the bus ends the quiet of a search, an answer of    *)
(* one probe that is misread does not.                                     *)
NoFault == UNCHANGED <<faults, quiet>>
Misread == faults < MaxFaults /\ faults' = faults + 1
Fault == Misread /\ quiet' = FALSE

(* reset_search, and the search after it.                                  *)
ResetSearch ==
    /\ ROM_NO' = NoCode /\ LastDiscrepancy' = 0 /\ LastDeviceFlag' = FALSE
    /\ wire' = "called"
    /\ quiet' = TRUE /\ given' = <<>>
    /\ UNCHANGED <<present, answering, locals>>

(* The caller searches again, or has finished.                             *)
Caller(next) ==
    /\ wire' = next
    /\ UNCHANGED <<present, answering, searchState, locals, quiet, given>>

(* No device found: the next search is like a first.                       *)
NotFound ==
    /\ wire' = "none"
    /\ LastDiscrepancy' = 0 /\ LastDeviceFlag' = FALSE
    /\ answering' = {}
    /\ UNCHANGED given

(* reset answers 0 if there is no device, or the line is held low.         *)
SearchBegins ==
    /\ wire = "called"
    /\ \/ /\ LastDeviceFlag \/ present = {}
          /\ NotFound /\ NoFault
          /\ UNCHANGED locals
       \/ /\ ~LastDeviceFlag /\ present # {}
          /\ wire' = "searching"
          /\ answering' = present
          /\ id_bit_number' = 1 /\ last_zero' = 0
          /\ NoFault
          /\ UNCHANGED <<LastDiscrepancy, LastDeviceFlag, given>>
       \/ /\ ~LastDeviceFlag /\ present # {}
          /\ NotFound /\ Fault
          /\ UNCHANGED locals
    /\ UNCHANGED <<present, ROM_NO>>

(* The wire is low if any device pulls it low.                             *)
WiredAnd(bits) == IF 0 \in bits THEN 0 ELSE 1
IdBit == WiredAnd({r[id_bit_number] : r \in answering})
CmpIdBit == WiredAnd({1 - r[id_bit_number] : r \in answering})

(* Mutant of Direction: the last discrepancy is walked as the time before. *)
DirectionAsBefore(id_bit, cmp_id_bit) ==
    CASE id_bit # cmp_id_bit -> id_bit
      [] id_bit = cmp_id_bit /\ id_bit_number <= LastDiscrepancy -> ROM_NO[id_bit_number]
      [] id_bit = cmp_id_bit /\ id_bit_number > LastDiscrepancy -> 0

Direction(id_bit, cmp_id_bit) ==
    CASE id_bit # cmp_id_bit -> id_bit
      [] id_bit = cmp_id_bit /\ id_bit_number < LastDiscrepancy -> ROM_NO[id_bit_number]
      [] id_bit = cmp_id_bit /\ id_bit_number = LastDiscrepancy -> 1
      [] id_bit = cmp_id_bit /\ id_bit_number > LastDiscrepancy -> 0

LastZero(id_bit, cmp_id_bit) ==
    IF id_bit = cmp_id_bit /\ Direction(id_bit, cmp_id_bit) = 0 THEN id_bit_number ELSE last_zero

(* All bits are known; a family code of 0 is no device.                    *)
Finish(code, zero) ==
    IF Family(code) # {}
    THEN /\ wire' = "found"
         /\ LastDiscrepancy' = zero
         /\ LastDeviceFlag' = (zero = 0)
         /\ given' = Append(given, code)
         /\ answering' = {}
    ELSE NotFound

Walk(id_bit, cmp_id_bit) ==
    LET direction == Direction(id_bit, cmp_id_bit)
        zero == LastZero(id_bit, cmp_id_bit)
        code == [ROM_NO EXCEPT ![id_bit_number] = direction]
    IN  /\ ROM_NO' = code
        /\ IF id_bit_number = RomBits
           THEN Finish(code, zero) /\ UNCHANGED locals
           ELSE /\ id_bit_number' = id_bit_number + 1
                /\ last_zero' = zero
                /\ answering' = {r \in answering : r[id_bit_number] = direction}
                /\ UNCHANGED <<wire, LastDiscrepancy, LastDeviceFlag, given>>

(* Mutant of SearchBit: one bit too many is walked.                        *)
SearchBitBeyond(id_bit, cmp_id_bit) ==
    /\ wire = "searching"
    /\ IF id_bit = 1 /\ cmp_id_bit = 1
       THEN NotFound /\ UNCHANGED <<ROM_NO, locals>>
       ELSE IF id_bit_number # RomBits
            THEN Walk(id_bit, cmp_id_bit)
            ELSE /\ id_bit_number' = id_bit_number + 1
                 /\ UNCHANGED <<ROM_NO, last_zero, answering, wire, LastDiscrepancy, LastDeviceFlag, given>>
    /\ UNCHANGED present

(* One turn of the loop in search, with the bits as they are on the wire   *)
(* or as they were misread.                                                *)
SearchBit(id_bit, cmp_id_bit) ==
    /\ wire = "searching"
    /\ IF id_bit = 1 /\ cmp_id_bit = 1
       THEN NotFound /\ UNCHANGED <<ROM_NO, locals>>
       ELSE Walk(id_bit, cmp_id_bit)
    /\ UNCHANGED present

SearchStep ==
    \/ SearchBegins
    \/ SearchBit(IdBit, CmpIdBit) /\ NoFault
    \/ \E id_bit, cmp_id_bit \in {0, 1} :
            /\ <<id_bit, cmp_id_bit>> # <<IdBit, CmpIdBit>>
            /\ SearchBit(id_bit, cmp_id_bit) /\ Fault

(* A device is plugged in, and waits for a reset, or is taken off.         *)
Change ==
    /\ Fault
    /\ \/ \E r \in Roms \ present : present' = present \cup {r} /\ UNCHANGED answering
       \/ \E r \in present : present' = present \ {r} /\ answering' = answering \ {r}
    /\ UNCHANGED <<searchState, locals, wire, given>>

-----------------------------------------------------------------------------
(* Properties.                                                             *)

Before(r, s) == \E n \in 1 .. RomBits : r[n] < s[n] /\ \A m \in 1 .. n - 1 : r[m] = s[m]

Given == {given[i] : i \in 1 .. Len(given)}

(* On a bus that is left alone, the searches after reset_search find every *)
(* device, each once, in the order of their bits, and then report the end  *)
(* (LastDiscrepancy and LastDeviceFlag carry the walk from call to call).  *)
EachDeviceOnce ==
    quiet =>
        /\ Given \subseteq present
        /\ \A i, j \in 1 .. Len(given) : i < j => Before(given[i], given[j])
        /\ \A r \in present, s \in Given : Before(r, s) => r \in Given
        /\ wire = "none" => Given = present
=============================================================================
