---------------------------- MODULE Conversions ----------------------------
(***************************************************************************)
(* The conversions between what the firmware measures or is told and the   *)
(* bytes it builds or the levels it writes: the temperatures, tank level   *)
(* and currents of the telemetry, the dimmed colours of the lights, the    *)
(* period of the timer that paces them all.                                *)
(*                                                                         *)
(* A step is one conversion; the state keeps the last one, what was        *)
(* converted and what came out, so that properties can compare two in a    *)
(* row.  The AVR's int and short have 16 bits, a byte 8.  Temperatures are *)
(* integers: sixteenths of a degree in the register of a probe, 128ths in  *)
(* the library that reads it.                                              *)
(***************************************************************************)
EXTENDS Integers

CONSTANTS
    Registers,      \* the temperature register of the probes, in 1/16 of a degree
    Samples,        \* the analog-to-digital readings of the tank sensor
    Currents,       \* those of a current or tension sensor
    Colours,        \* the red, green or blue byte of a light telecommand
    Dims,           \* its dim byte
    Periods         \* the microseconds asked of Timer1

VARIABLE last       \* the last conversion: what of, of which input, into what

ASSUME RangeAssumption ==
    /\ Registers \subseteq -55 * 16 .. 125 * 16
    /\ Samples \subseteq 0 .. 1023 /\ Currents \subseteq 0 .. 1023
    /\ Colours \subseteq 0 .. 255 /\ Dims \subseteq 0 .. 255

(* Beyond, eight times the period no longer fits a long.                   *)
MostMicroseconds == 268435455
ASSUME PeriodAssumption == Periods \subseteq 1 .. MostMicroseconds

-----------------------------------------------------------------------------
(* The arithmetic of the machine.                                          *)

Byte(n) == n % 256
Short(n) == IF n % 65536 < 32768 THEN n % 65536 ELSE (n % 65536) - 65536

(* Division and conversion of a float to an int, both towards zero.        *)
Toward0(n, d) == IF n >= 0 THEN n \div d ELSE 0 - ((0 - n) \div d)

-----------------------------------------------------------------------------
(* Temperatures, from the register of a probe to a byte in half degrees.   *)

DEVICE_DISCONNECTED_RAW == -2032     \* -15.875 degrees
DEVICE_DISCONNECTED_C == -127 * 128

(* The register, in 1/128 degrees.  The probes of TempProbes are of the    *)
(* model 0x28, for which the branch of the DS18S20 is not taken.           *)
calculateTemperature(register) == 8 * register

(* The same temperature, still in 1/128: the float it becomes is exact.    *)
rawToCelsius(raw) == IF raw <= DEVICE_DISCONNECTED_RAW THEN DEVICE_DISCONNECTED_C ELSE raw

(* Mutant of formatTempData: the doubled temperature is rounded down.      *)
formatTempDataFloor(temp) == Byte(128 + temp \div 64)

(* 128 + (int)(temp*2), stored in a byte.                                  *)
formatTempData(temp) == Byte(128 + Toward0(temp, 64))

(* getTempC of a probe that answers and of one that does not.              *)
TemperatureCode(register) == formatTempData(rawToCelsius(calculateTemperature(register)))
SilentCode == formatTempData(rawToCelsius(DEVICE_DISCONNECTED_RAW))

(* What a code stands for, in sixteenths, by the table in the source.      *)
Meant(code) == 8 * (code - 128)

-----------------------------------------------------------------------------
(* Fresh water: the mean of two samples, from 5 up, in steps of 4.19.      *)

(* Mutant of getCleanWaterLevel: means below the offset are not raised to  *)
(* it; the negative quotient becomes a large byte, and that 100.           *)
getCleanWaterLevelUnclamped(a, b) ==
    LET res == Byte(Toward0(((a + b) \div 2 - 5) * 100, 419))
    IN  IF res > 100 THEN 100 ELSE res

(* Mutant of getCleanWaterLevel: the result is not limited to 100.         *)
getCleanWaterLevelUncapped(a, b) ==
    LET mean == (a + b) \div 2
        meas == IF mean < 5 THEN 5 ELSE mean
    IN  Byte(((meas - 5) * 100) \div 419)

getCleanWaterLevel(a, b) ==
    LET mean == (a + b) \div 2
        meas == IF mean < 5 THEN 5 ELSE mean
        res == Byte(((meas - 5) * 100) \div 419)
    IN  IF res > 100 THEN 100 ELSE res

-----------------------------------------------------------------------------
(* Currents and tensions: 100 times the reading in a short, built into the *)
(* message as its two bytes; the calibration factors are all 1.0.          *)

(* Mutant of CurrentBytes: the reading is scaled in a byte.                *)
CurrentBytesLow(adc) == <<0, Byte(100 * adc)>>

CurrentBytes(adc) ==
    LET short == Short(100 * adc) IN <<Byte(short \div 256), Byte(short)>>

-----------------------------------------------------------------------------
(* Lights: r * dim / 256 in the machine's int.                             *)

(* Mutant of DimmedLevel: the division rounds up.                          *)
DimmedLevelUp(colour, dim) == Toward0(Short(colour * dim + 255), 256)

DimmedLevel(colour, dim) == Toward0(Short(colour * dim), 256)

-----------------------------------------------------------------------------
(* The period of Timer1: its clock divided by one of five prescalers, the  *)
(* 16-bit register it counts up to and back from.                          *)

RESOLUTION == 65536
Coarsest == 1024
Prescalers == {1, 8, 64, 256, Coarsest}
Longest == (Coarsest * RESOLUTION) \div 8 - 1    \* microseconds it can count
Finest(prescalers) == CHOOSE p \in prescalers : \A q \in prescalers : p <= q

(* Mutant of setPeriod: a count of RESOLUTION is taken to fit.             *)
setPeriodAtLimit(microseconds) ==
    LET cycles == 8 * microseconds
        Fitting == {p \in Prescalers : cycles \div p <= RESOLUTION}
    IN  IF Fitting = {} THEN <<Coarsest, RESOLUTION - 1>>
        ELSE <<Finest(Fitting), (cycles \div Finest(Fitting)) % RESOLUTION>>

setPeriod(microseconds) ==
    LET cycles == 8 * microseconds
        Fitting == {p \in Prescalers : cycles \div p < RESOLUTION}
    IN  IF Fitting = {} THEN <<Coarsest, RESOLUTION - 1>>
        ELSE <<Finest(Fitting), (cycles \div Finest(Fitting)) % RESOLUTION>>

-----------------------------------------------------------------------------
Init == last = [what |-> "nothing"]

Converted(what, of, into) == last' = [what |-> what, of |-> of, into |-> into]

SendTemperature ==
    \E r \in Registers : Converted("temperature", r, TemperatureCode(r))
SendSilent == Converted("silent", 0, SilentCode)
SendLevel ==
    \E a, b \in Samples : Converted("level", <<a, b>>, getCleanWaterLevel(a, b))
(* sendAllTelemetry calls tmBuilderTension and does not send what it built:*)
(* that sendTM, and tmBuilderCurrent, are commented out in this build.     *)
BuildTension == \E adc \in Currents : Converted("current", adc, CurrentBytes(adc))
DimLight ==
    \E c \in Colours, d \in Dims : Converted("light", <<c, d>>, DimmedLevel(c, d))

InitializeTimer == \E us \in Periods : Converted("period", us, setPeriod(us))

Next ==
    \/ SendTemperature \/ SendSilent \/ SendLevel \/ BuildTension
    \/ DimLight \/ InitializeTimer

Spec == Init /\ [][Next]_last

-----------------------------------------------------------------------------
(* Every code fits the bytes of its telemetry message, a level is a        *)
(* percentage, a light's level fits the int given to analogWrite, and the  *)
(* count of the timer its register.                                        *)
Fits ==
    CASE last.what = "nothing" -> TRUE
      [] last.what = "temperature" -> last.of \in Registers /\ last.into \in 0 .. 255
      [] last.what = "silent" -> last.into \in 0 .. 255
      [] last.what = "level" -> last.of \in Samples \X Samples /\ last.into \in 0 .. 100
      [] last.what = "current" -> last.of \in Currents /\ last.into \in (0 .. 255) \X (0 .. 255)
      [] last.what = "light" -> last.of \in Colours \X Dims /\ last.into \in -128 .. 255
      [] last.what = "period" -> last.of \in Periods /\ last.into \in Prescalers \X (0 .. RESOLUTION - 1)
      [] OTHER -> FALSE

(* Above -15.875 and below 64 degrees the code a tablet gets stands for a  *)
(* temperature less than half a degree from the probe's, and never farther *)
(* from zero than it.  Outside, the byte or the library's limit fails.     *)
InRange(register) == -254 < register /\ register < 1024
TemperatureMeant ==
    last.what = "temperature" /\ InRange(last.of) =>
        LET error == last.of - Meant(last.into)
        IN  /\ -8 < error /\ error < 8
            /\ last.of >= 0 => error >= 0
            /\ last.of <= 0 => error <= 0

(* A warmer reading never gets a smaller code than the one sent before it, *)
(* across zero and the truncation towards it, within the same range.       *)
WarmerNotBelow ==
    (/\ last.what = "temperature" /\ last'.what = "temperature"
     /\ InRange(last.of) /\ InRange(last'.of)
     /\ last.of <= last'.of) => last.into <= last'.into
WarmerNeverBelow == [][WarmerNotBelow]_last

(* When neither sample of the tank sensor falls, nor does the level: the   *)
(* clamp below the offset, the byte and the cap leave no place where a     *)
(* fuller tank reads as an emptier one.                                    *)
FullerNotBelow ==
    (/\ last.what = "level" /\ last'.what = "level"
     /\ last.of[1] <= last'.of[1] /\ last.of[2] <= last'.of[2]) => last.into <= last'.into
FullerNeverBelow == [][FullerNotBelow]_last

(* Though 100 times a reading above 327 does not fit a short, two readings *)
(* that differ are never built into the same two bytes, and up to 655 the  *)
(* bytes taken as an unsigned number are 100 times the reading.            *)
CurrentTold ==
    last.what = "current" /\ last'.what = "current" /\ last.into = last'.into
        => last.of = last'.of
CurrentsTold == [][CurrentTold]_last
CurrentMeant ==
    last.what = "current" /\ last.of <= 655 =>
        256 * last.into[1] + last.into[2] = 100 * last.of

(* A dimmed colour is never brighter than asked, nor negative, as long as  *)
(* its product with the dim byte fits an int, which it does for every dim  *)
(* byte when the colour is at most 128.                                    *)
DimmedWithin ==
    last.what = "light" /\ last.of[1] <= 128 =>
        /\ 0 <= last.into
        /\ 256 * last.into <= last.of[1] * last.of[2]
        /\ last.of[1] * last.of[2] < 256 * (last.into + 1)

(* Up to 8.388607 seconds the timer counts the period asked for, short of  *)
(* it by less than one tick, and a coarser prescaler than the clock itself *)
(* leaves a tick of at most an 8192nd of the period; longer ones become    *)
(* the longest there is.                                                   *)
PeriodKept ==
    last.what = "period" =>
        LET prescaler == last.into[1]
            top == last.into[2]
        IN  IF last.of > Longest THEN prescaler = Coarsest /\ top = RESOLUTION - 1
            ELSE /\ prescaler * top <= 8 * last.of
                 /\ 8 * last.of < prescaler * (top + 1)
                 /\ prescaler > 1 => RESOLUTION <= 8 * top

(* DallasTemperature.cpp on getTempC: DEVICE_DISCONNECTED_RAW is "outside  *)
(* the operating range of the device", so that a probe which answers is    *)
(* never taken for a disconnected one.                                     *)
AnsweringIsConnected ==
    last.what = "temperature" =>
        rawToCelsius(calculateTemperature(last.of)) # DEVICE_DISCONNECTED_C
=============================================================================
