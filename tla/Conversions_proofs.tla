------------------------ MODULE Conversions_proofs ------------------------
(***************************************************************************)
(* The conversions of Conversions, for every set of inputs the sensors and *)
(* the protocol allow.  Each lemma is about one conversion and all its     *)
(* arguments; the theorems carry them over to the specification.           *)
(***************************************************************************)
EXTENDS Conversions, TLAPS

(* A byte and an int divided towards zero are what they are used as.       *)
LEMMA ByteRange == \A n \in Int : Byte(n) \in 0 .. 255
BY DEF Byte

(* Within the range the code is off by less than half a degree, towards    *)
(* zero.                                                                   *)
LEMMA TemperatureCodeMeant ==
    ASSUME NEW r \in Int, InRange(r)
    PROVE  /\ TemperatureCode(r) \in 0 .. 255
           /\ r - Meant(TemperatureCode(r)) \in -7 .. 7
           /\ r >= 0 => r - Meant(TemperatureCode(r)) >= 0
           /\ r <= 0 => r - Meant(TemperatureCode(r)) <= 0
<1>1. rawToCelsius(calculateTemperature(r)) = 8 * r
  BY DEF rawToCelsius, calculateTemperature, DEVICE_DISCONNECTED_RAW, InRange
<1>2. CASE r >= 0
  <2>1. Toward0(8 * r, 64) = r \div 8
    BY <1>2 DEF Toward0
  <2>2. TemperatureCode(r) = 128 + r \div 8
    BY <1>1, <1>2, <2>1 DEF TemperatureCode, formatTempData, Byte, InRange
  <2> QED BY <1>2, <2>2 DEF Meant, InRange
<1>3. CASE r < 0
  <2>1. Toward0(8 * r, 64) = 0 - ((0 - r) \div 8)
    BY <1>3 DEF Toward0
  <2>2. TemperatureCode(r) = 128 - ((0 - r) \div 8)
    BY <1>1, <1>3, <2>1 DEF TemperatureCode, formatTempData, Byte, InRange
  <2> QED BY <1>3, <2>2 DEF Meant, InRange
<1> QED BY <1>2, <1>3

(* The code rises with the register within the range.                      *)
LEMMA TemperatureCodeRises ==
    ASSUME NEW r \in Int, NEW s \in Int, InRange(r), InRange(s), r <= s
    PROVE  TemperatureCode(r) <= TemperatureCode(s)
<1> DEFINE half(x) == IF x >= 0 THEN x \div 8 ELSE 0 - ((0 - x) \div 8)
<1>1. ASSUME NEW x \in Int, InRange(x)
      PROVE  TemperatureCode(x) = 128 + half(x)
  <2>1. rawToCelsius(calculateTemperature(x)) = 8 * x
    BY <1>1 DEF rawToCelsius, calculateTemperature, DEVICE_DISCONNECTED_RAW, InRange
  <2>2. Toward0(8 * x, 64) = half(x)
    BY DEF Toward0
  <2> QED BY <1>1, <2>1, <2>2 DEF TemperatureCode, formatTempData, Byte, InRange
<1>2. half(r) <= half(s)
  OBVIOUS
<1> QED BY <1>1, <1>2

(* The level is a percentage.                                              *)
LEMMA LevelRange ==
    ASSUME NEW a \in Int, NEW b \in Int
    PROVE  getCleanWaterLevel(a, b) \in 0 .. 100
<1> DEFINE mean == (a + b) \div 2
           meas == IF mean < 5 THEN 5 ELSE mean
           res == Byte(((meas - 5) * 100) \div 419)
<1>1. res \in 0 .. 255
  <2>1. ((meas - 5) * 100) \div 419 \in Int
    OBVIOUS
  <2> QED BY <2>1, ByteRange
<1>2. getCleanWaterLevel(a, b) = IF res > 100 THEN 100 ELSE res
  BY DEF getCleanWaterLevel
<1> HIDE DEF res
<1> QED BY <1>1, <1>2

(* It rises with each of the samples.                                      *)
LEMMA LevelRises ==
    ASSUME NEW a \in Nat, NEW b \in Nat, NEW c \in Nat, NEW d \in Nat,
           a <= c, c <= 1023, b <= d, d <= 1023
    PROVE  getCleanWaterLevel(a, b) <= getCleanWaterLevel(c, d)
<1> DEFINE raised(m) == IF m < 5 THEN 5 ELSE m
           steps(m) == ((raised(m) - 5) * 100) \div 419
           low == steps((a + b) \div 2)
           high == steps((c + d) \div 2)
<1>1. /\ (a + b) \div 2 \in Nat /\ (c + d) \div 2 \in Nat
      /\ (a + b) \div 2 <= (c + d) \div 2 /\ (c + d) \div 2 <= 1023
  OBVIOUS
<1>2. \A m, n \in Nat : m <= n /\ n <= 1023 =>
          /\ steps(m) \in Nat /\ steps(n) \in Nat
          /\ steps(m) <= steps(n) /\ steps(n) <= 255
  OBVIOUS
<1>3. low \in Nat /\ high \in Nat /\ low <= high /\ high <= 255
  <2> HIDE DEF steps
  <2> QED BY <1>1, <1>2
<1>4. /\ getCleanWaterLevel(a, b) = IF Byte(low) > 100 THEN 100 ELSE Byte(low)
      /\ getCleanWaterLevel(c, d) = IF Byte(high) > 100 THEN 100 ELSE Byte(high)
  BY DEF getCleanWaterLevel
<1> HIDE DEF low, high
<1> QED BY <1>3, <1>4 DEF Byte

(* Two bytes are sent for any reading.                                     *)
LEMMA CurrentBytesRange ==
    ASSUME NEW adc \in Int
    PROVE  CurrentBytes(adc) \in (0 .. 255) \X (0 .. 255)
<1>1. Short(100 * adc) \in Int
  BY DEF Short
<1>2. Byte(Short(100 * adc) \div 256) \in 0 .. 255 /\ Byte(Short(100 * adc)) \in 0 .. 255
  <2> DEFINE short == Short(100 * adc)
  <2>1. short \in Int
    BY <1>1
  <2> HIDE DEF short
  <2>2. Byte(short \div 256) \in 0 .. 255 /\ Byte(short) \in 0 .. 255
    BY <2>1, ByteRange
  <2> QED BY <2>2 DEF short
<1> QED BY <1>2 DEF CurrentBytes

(* The two bytes of a reading are those of 100 times it, modulo 2^16.      *)
LEMMA CurrentBytesValue ==
    ASSUME NEW adc \in Nat, adc <= 1023
    PROVE  /\ CurrentBytes(adc) \in (0 .. 255) \X (0 .. 255)
           /\ 256 * CurrentBytes(adc)[1] + CurrentBytes(adc)[2] = (100 * adc) % 65536
<1> DEFINE n == 100 * adc
           short == Short(n)
<1>1. short \in Int /\ (short = n % 65536 \/ short = (n % 65536) - 65536)
  BY DEF Short
<1>2. CurrentBytes(adc) = <<Byte(short \div 256), Byte(short)>>
  BY DEF CurrentBytes
<1>3. 256 * ((short \div 256) % 256) + (short % 256) = n % 65536
  BY <1>1
<1>4. Byte(short \div 256) \in 0 .. 255 /\ Byte(short) \in 0 .. 255
  BY <1>1, ByteRange
<1>5. 256 * Byte(short \div 256) + Byte(short) = n % 65536
  BY <1>3 DEF Byte
<1> HIDE DEF short
<1> QED BY <1>2, <1>4, <1>5

-----------------------------------------------------------------------------
(* Up to 655 it is less than 2^16.                                         *)
LEMMA CurrentBytesMeant ==
    ASSUME NEW adc \in Nat, adc <= 655
    PROVE  256 * CurrentBytes(adc)[1] + CurrentBytes(adc)[2] = 100 * adc
<1>1. (100 * adc) % 65536 = 100 * adc
  OBVIOUS
<1>2. adc <= 1023
  OBVIOUS
<1>3. 256 * CurrentBytes(adc)[1] + CurrentBytes(adc)[2] = (100 * adc) % 65536
  BY <1>2, CurrentBytesValue
<1> QED BY <1>1, <1>3

(* 100 is 4 times an odd number and the readings have 10 bits, so no two   *)
(* multiples of it agree in their last 16.                                 *)
LEMMA CurrentBytesDiffer ==
    ASSUME NEW m \in Nat, NEW n \in Nat, m <= 1023, n <= 1023,
           CurrentBytes(m) = CurrentBytes(n)
    PROVE  m = n
<1>1. (100 * m) % 65536 = IF m <= 655 THEN 100 * m ELSE 100 * m - 65536
  OBVIOUS
<1>2. (100 * n) % 65536 = IF n <= 655 THEN 100 * n ELSE 100 * n - 65536
  OBVIOUS
<1>3. /\ 256 * CurrentBytes(m)[1] + CurrentBytes(m)[2] = (100 * m) % 65536
      /\ 256 * CurrentBytes(n)[1] + CurrentBytes(n)[2] = (100 * n) % 65536
  BY CurrentBytesValue
<1>4. (100 * m) % 65536 = (100 * n) % 65536
  BY <1>3
<1>5. CASE (m <= 655) <=> (n <= 655)
  BY <1>1, <1>2, <1>4, <1>5
<1>6. CASE m <= 655 /\ n > 655
  BY <1>1, <1>2, <1>4, <1>6
<1>7. CASE n <= 655 /\ m > 655
  BY <1>1, <1>2, <1>4, <1>7
<1> QED BY <1>5, <1>6, <1>7

(* What the assumption says of each input, one at a time.                  *)
LEMMA Inputs ==
    /\ \A r \in Registers : r \in Int
    /\ \A a \in Samples : a \in Nat /\ a <= 1023
    /\ \A adc \in Currents : adc \in Nat /\ adc <= 1023
    /\ \A c \in Colours : c \in Int
    /\ \A d \in Dims : d \in Int
<1>1. \A r \in Registers : r \in Int
  BY RangeAssumption DEF RangeAssumption
<1>2. /\ \A a \in Samples : a \in 0 .. 1023
      /\ \A adc \in Currents : adc \in 0 .. 1023
      /\ \A c \in Colours : c \in 0 .. 255
      /\ \A d \in Dims : d \in 0 .. 255
  BY RangeAssumption, Zenon DEF RangeAssumption
<1>3. ASSUME NEW a \in Samples
      PROVE  a \in Nat /\ a <= 1023
  <2>1. a \in 0 .. 1023
    BY RangeAssumption DEF RangeAssumption
  <2> QED BY <2>1
<1>4. ASSUME NEW adc \in Currents
      PROVE  adc \in Nat /\ adc <= 1023
  <2>1. adc \in 0 .. 1023
    BY RangeAssumption DEF RangeAssumption
  <2> QED BY <2>1
<1>5. ASSUME NEW c \in Colours
      PROVE  c \in Int
  <2>1. c \in 0 .. 255
    BY RangeAssumption DEF RangeAssumption
  <2> QED BY <2>1
<1>6. ASSUME NEW d \in Dims
      PROVE  d \in Int
  <2>1. d \in 0 .. 255
    BY RangeAssumption DEF RangeAssumption
  <2> QED BY <2>1
<1> QED BY <1>1, <1>3, <1>4, <1>5, <1>6, Zenon

(* Even where the product overflows, a dimmed level fits an int.           *)
LEMMA DimmedLevelRange ==
    ASSUME NEW c \in Int, NEW d \in Int
    PROVE  DimmedLevel(c, d) \in -128 .. 255
<1>1. c * d \in Int
  OBVIOUS
<1>2. \A n \in Int : Toward0(Short(n), 256) \in -128 .. 255
  BY DEF Toward0, Short
<1> QED BY <1>1, <1>2 DEF DimmedLevel

(* A temperature code is a byte, whatever the probe and the bus say.       *)
LEMMA TemperatureCodeByte ==
    /\ \A r \in Int : TemperatureCode(r) \in 0 .. 255
    /\ SilentCode \in 0 .. 255
<1>1. \A t \in Int : formatTempData(t) \in 0 .. 255
  BY ByteRange DEF formatTempData, Toward0
<1>2. \A raw \in Int : rawToCelsius(raw) \in Int
  BY DEF rawToCelsius, DEVICE_DISCONNECTED_C
<1>3. \A r \in Int : TemperatureCode(r) \in 0 .. 255
  <2> TAKE r \in Int
  <2>1. calculateTemperature(r) \in Int
    BY DEF calculateTemperature
  <2> QED BY <1>1, <1>2, <2>1 DEF TemperatureCode
<1>4. DEVICE_DISCONNECTED_RAW \in Int
  BY DEF DEVICE_DISCONNECTED_RAW
<1> QED BY <1>1, <1>2, <1>3, <1>4 DEF SilentCode

(* One of the five prescalers is the finest of those that fit.             *)
LEMMA FinestFits ==
    ASSUME NEW F \in SUBSET Prescalers, F # {}
    PROVE  Finest(F) \in F /\ \A q \in F : Finest(F) <= q
<1>1. \E p \in F : \A q \in F : p <= q
  <2>1. \A q \in F : q \in {1, 8, 64, 256, 1024}
    BY DEF Prescalers, Coarsest
  <2>2. CASE 1 \in F
    BY <2>1, <2>2
  <2>3. CASE 1 \notin F /\ 8 \in F
    BY <2>1, <2>3
  <2>4. CASE 1 \notin F /\ 8 \notin F /\ 64 \in F
    BY <2>1, <2>4
  <2>5. CASE 1 \notin F /\ 8 \notin F /\ 64 \notin F /\ 256 \in F
    BY <2>1, <2>5
  <2>6. CASE F = {1024}
    BY <2>6
  <2> QED BY <2>1, <2>2, <2>3, <2>4, <2>5, <2>6
<1> QED BY <1>1, Zenon DEF Finest

(* The count the prescaler is chosen for, and how long it is.              *)
Period(us, p) == <<p, ((8 * us) \div p) % RESOLUTION>>
PeriodFits(us, p) == (8 * us) \div p < RESOLUTION

(* The prescaler is the finest whose count has 16 bits.                    *)
LEMMA PeriodChosen ==
    ASSUME NEW us \in Int
    PROVE  \/ /\ \A p \in Prescalers : ~ PeriodFits(us, p)
              /\ setPeriod(us) = <<Coarsest, RESOLUTION - 1>>
           \/ \E p \in Prescalers :
                 /\ PeriodFits(us, p)
                 /\ \A q \in Prescalers : PeriodFits(us, q) => p <= q
                 /\ setPeriod(us) = Period(us, p)
<1> DEFINE Fitting == {p \in Prescalers : PeriodFits(us, p)}
<1>1. setPeriod(us) = IF Fitting = {} THEN <<Coarsest, RESOLUTION - 1>>
                      ELSE Period(us, Finest(Fitting))
  BY Zenon DEF setPeriod, Period, PeriodFits
<1>2. CASE Fitting = {}
  BY <1>1, <1>2, Zenon
<1>3. CASE Fitting # {}
  <2>1. Finest(Fitting) \in Fitting /\ \A q \in Fitting : Finest(Fitting) <= q
    BY <1>3, FinestFits
  <2>2. setPeriod(us) = Period(us, Finest(Fitting))
    BY <1>1, <1>3, Zenon
  <2> QED BY <2>1, <2>2, Zenon
<1> QED BY <1>2, <1>3

(* What PeriodKept and Fits say of the register and the prescaler.         *)
Follows(us, period) ==
    /\ period \in Prescalers \X (0 .. RESOLUTION - 1)
    /\ IF us > Longest THEN period[1] = Coarsest /\ period[2] = RESOLUTION - 1
       ELSE /\ period[1] * period[2] <= 8 * us
            /\ 8 * us < period[1] * (period[2] + 1)
            /\ period[1] > 1 => RESOLUTION <= 8 * period[2]

(* The five prescalers are integers.                                       *)
LEMMA PrescalersAre ==
    ASSUME NEW p \in Prescalers
    PROVE  p \in Int /\ (p = 1 \/ p = 8 \/ p = 64 \/ p = 256 \/ p = 1024)
BY SMT DEF Prescalers, Coarsest

(* A division by one of them loses less than a tick.                       *)
LEMMA Divided ==
    ASSUME NEW n \in Int, 0 <= n, NEW p \in Prescalers
    PROVE  /\ n \div p \in Int /\ 0 <= n \div p
           /\ p * (n \div p) <= n /\ n < p * (n \div p + 1)
<1>1. p = 1 \/ p = 8 \/ p = 64 \/ p = 256 \/ p = 1024
  BY PrescalersAre
<1>2. CASE p = 1
  BY <1>2, SMT
<1>3. CASE p = 8
  BY <1>3, SMT
<1>4. CASE p = 64
  BY <1>4, SMT
<1>5. CASE p = 256
  BY <1>5, SMT
<1>6. CASE p = 1024
  BY <1>6, SMT
<1> QED BY <1>1, <1>2, <1>3, <1>4, <1>5, <1>6, SMT

(* A count that is too long for a prescaler is long enough for the next.   *)
LEMMA LongEnough ==
    ASSUME NEW n \in Int, 0 <= n, NEW p \in Prescalers, p > 1,
           \A q \in Prescalers : q < p => ~ (n \div q < RESOLUTION)
    PROVE  RESOLUTION <= 8 * (n \div p)
<1>1. p = 8 \/ p = 64 \/ p = 256 \/ p = 1024
  BY PrescalersAre, SMT
<1>2. 1 \in Prescalers /\ 8 \in Prescalers /\ 64 \in Prescalers /\ 256 \in Prescalers
  BY SMT DEF Prescalers
<1>3. CASE p = 8
  <2>1. ~ (n \div 1 < RESOLUTION)
    BY <1>2, <1>3, SMT
  <2> QED BY <1>3, <2>1, SMT DEF RESOLUTION
<1>4. CASE p = 64
  <2>1. ~ (n \div 8 < RESOLUTION)
    BY <1>2, <1>4, SMT
  <2> QED BY <1>4, <2>1, SMT DEF RESOLUTION
<1>5. CASE p = 256
  <2>1. ~ (n \div 64 < RESOLUTION)
    BY <1>2, <1>5, SMT
  <2> QED BY <1>5, <2>1, SMT DEF RESOLUTION
<1>6. CASE p = 1024
  <2>1. ~ (n \div 256 < RESOLUTION)
    BY <1>2, <1>6, SMT
  <2> QED BY <1>6, <2>1, SMT DEF RESOLUTION
<1> QED BY <1>1, <1>3, <1>4, <1>5, <1>6, SMT

(* A count that fits the register is what the register holds.              *)
LEMMA Remains ==
    ASSUME NEW n \in Int, 0 <= n, n < RESOLUTION
    PROVE  n % RESOLUTION = n /\ n \in 0 .. RESOLUTION - 1
BY SMT DEF RESOLUTION

(* The period counted is the period asked for, less part of a tick.        *)
LEMMA PeriodFollowed ==
    ASSUME NEW us \in Int, 1 <= us
    PROVE  Follows(us, setPeriod(us))
<1> DEFINE cycles == 8 * us
<1>0. cycles \in Int /\ 0 <= cycles
  BY SMT
<1>1. CASE /\ \A p \in Prescalers : ~ PeriodFits(us, p)
           /\ setPeriod(us) = <<Coarsest, RESOLUTION - 1>>
  <2>1. Coarsest \in Prescalers /\ Coarsest = 1024
    BY SMT DEF Prescalers, Coarsest
  <2>2. ~ (cycles \div 1024 < RESOLUTION)
    BY <1>1, <2>1, SMT DEF PeriodFits
  <2>3. us > Longest
    BY <2>2, SMT DEF Longest, Coarsest, RESOLUTION
  <2>4. RESOLUTION - 1 \in 0 .. RESOLUTION - 1
    BY SMT DEF RESOLUTION
  <2>5. setPeriod(us) \in Prescalers \X (0 .. RESOLUTION - 1)
    BY <1>1, <2>1, <2>4, SMT
  <2>6. setPeriod(us)[1] = Coarsest /\ setPeriod(us)[2] = RESOLUTION - 1
    BY <1>1
  <2> QED BY <2>3, <2>5, <2>6, Zenon DEF Follows
<1>2. ASSUME NEW p \in Prescalers, PeriodFits(us, p),
             \A q \in Prescalers : PeriodFits(us, q) => p <= q,
             setPeriod(us) = Period(us, p)
      PROVE  Follows(us, setPeriod(us))
  <2> DEFINE top == cycles \div p
  <2>1. /\ top \in Int /\ 0 <= top
        /\ p * top <= cycles /\ cycles < p * (top + 1)
    BY <1>0, Divided, Zenon
  <2>2. top < RESOLUTION
    BY <1>2, Zenon DEF PeriodFits
  <2>3. setPeriod(us) = <<p, top % RESOLUTION>>
    BY <1>2, Zenon DEF Period
  <2>4. p > 1 => RESOLUTION <= 8 * top
    <3>1. \A q \in Prescalers : q < p => ~ (cycles \div q < RESOLUTION)
      <4>1. p \in Int /\ \A q \in Prescalers : q \in Int
        BY PrescalersAre
      <4>2. \A q \in Prescalers : q < p => ~ PeriodFits(us, q)
        BY <1>2, <4>1, SMT
      <4> QED BY <4>2, Zenon DEF PeriodFits
    <3> QED BY <1>0, <3>1, LongEnough, Zenon
  <2>5. us <= Longest
    <3>1. p = 1 \/ p = 8 \/ p = 64 \/ p = 256 \/ p = 1024
      BY PrescalersAre
    <3>2. CASE p = 1
      BY <2>2, <3>2, SMT DEF RESOLUTION, Longest, Coarsest
    <3>3. CASE p = 8
      BY <2>2, <3>3, SMT DEF RESOLUTION, Longest, Coarsest
    <3>4. CASE p = 64
      BY <2>2, <3>4, SMT DEF RESOLUTION, Longest, Coarsest
    <3>5. CASE p = 256
      BY <2>2, <3>5, SMT DEF RESOLUTION, Longest, Coarsest
    <3>6. CASE p = 1024
      BY <2>2, <3>6, SMT DEF RESOLUTION, Longest, Coarsest
    <3> QED BY <3>1, <3>2, <3>3, <3>4, <3>5, <3>6, SMT
  <2> HIDE DEF top
  <2>6. top % RESOLUTION = top /\ top \in 0 .. RESOLUTION - 1
    BY <2>1, <2>2, Remains, Zenon
  <2>7. setPeriod(us) = <<p, top>>
    BY <2>3, <2>6, Zenon
  <2>8. setPeriod(us)[1] = p /\ setPeriod(us)[2] = top
    BY <2>7
  <2>9. setPeriod(us) \in Prescalers \X (0 .. RESOLUTION - 1)
    BY <2>6, <2>7, SMT
  <2>10. ~ (us > Longest)
    BY <2>5, SMT DEF Longest, Coarsest, RESOLUTION
  <2> QED BY <2>1, <2>4, <2>8, <2>9, <2>10, Zenon DEF Follows
<1> QED BY <1>1, <1>2, PeriodChosen, Zenon

(* Temperatures: every code fits, and what the telemetry shows is right    *)
(* for all the values of the register in the range.                        *)
THEOREM TemperaturesShown == Spec => [](Fits /\ TemperatureMeant /\ CurrentMeant)
<1> DEFINE Inv == Fits /\ TemperatureMeant /\ CurrentMeant
<1>1. Init => Inv
  BY DEF Init, Fits, TemperatureMeant, CurrentMeant
<1>2. ASSUME Inv, [Next]_last
      PROVE  Inv'
  <2>1. ASSUME NEW r \in Registers, Converted("temperature", r, TemperatureCode(r))
        PROVE  Inv'
    <3>1. r \in Int
      BY Inputs
    <3>2. TemperatureCode(r) \in 0 .. 255
      BY <3>1, TemperatureCodeByte
    <3>3. last'.what = "temperature" /\ last'.of = r /\ last'.into = TemperatureCode(r)
      BY <2>1 DEF Converted
    <3>4. Fits'
      BY <3>2, <3>3 DEF Fits
    <3>5. CurrentMeant'
      BY <3>3 DEF CurrentMeant
    <3>6. InRange(r) => /\ r - Meant(TemperatureCode(r)) \in -7 .. 7
                        /\ r >= 0 => r - Meant(TemperatureCode(r)) >= 0
                        /\ r <= 0 => r - Meant(TemperatureCode(r)) <= 0
      BY <3>1, TemperatureCodeMeant
    <3>7. TemperatureMeant'
      BY <3>3, <3>6 DEF TemperatureMeant
    <3> QED BY <3>4, <3>5, <3>7
  <2>2. CASE SendSilent
    BY <2>2, TemperatureCodeByte
    DEF SendSilent, Converted, Fits, TemperatureMeant, CurrentMeant
  <2>3. ASSUME NEW a \in Samples, NEW b \in Samples,
               Converted("level", <<a, b>>, getCleanWaterLevel(a, b))
        PROVE  Inv'
    <3>1. a \in Int /\ b \in Int
      BY Inputs
    <3>2. getCleanWaterLevel(a, b) \in 0 .. 100
      BY <3>1, LevelRange, Zenon
    <3> QED BY <2>3, <3>2 DEF Converted, Fits, TemperatureMeant, CurrentMeant
  <2>4. ASSUME NEW adc \in Currents, Converted("current", adc, CurrentBytes(adc))
        PROVE  Inv'
    <3>1. last'.what = "current" /\ last'.of = adc /\ last'.into = CurrentBytes(adc)
      BY <2>4 DEF Converted
    <3>2. adc \in Nat /\ adc \in Int
      BY Inputs
    <3>3. CurrentBytes(adc) \in (0 .. 255) \X (0 .. 255)
      BY <3>2, CurrentBytesRange, Zenon
    <3>4. Fits' /\ TemperatureMeant'
      BY <3>1, <3>3 DEF Fits, TemperatureMeant
    <3>5. CurrentMeant'
      <4>1. ASSUME adc <= 655
            PROVE  256 * CurrentBytes(adc)[1] + CurrentBytes(adc)[2] = 100 * adc
        BY <3>2, <4>1, CurrentBytesMeant, Zenon
      <4> QED BY <3>1, <4>1, Zenon DEF CurrentMeant
    <3> QED BY <3>4, <3>5
  <2>5. ASSUME NEW c \in Colours, NEW d \in Dims,
               Converted("light", <<c, d>>, DimmedLevel(c, d))
        PROVE  Inv'
    <3>1. c \in Int /\ d \in Int
      BY Inputs
    <3>2. DimmedLevel(c, d) \in -128 .. 255
      BY <3>1, DimmedLevelRange, Zenon
    <3> QED BY <2>5, <3>2 DEF Converted, Fits, TemperatureMeant, CurrentMeant
  <2>7. ASSUME NEW us \in Periods, Converted("period", us, setPeriod(us))
        PROVE  Inv'
    <3>1. last'.what = "period" /\ last'.of = us /\ last'.into = setPeriod(us)
      BY <2>7 DEF Converted
    <3>2. us \in Int /\ 1 <= us
      BY PeriodAssumption DEF PeriodAssumption
    <3>3. setPeriod(us) \in Prescalers \X (0 .. RESOLUTION - 1)
      BY <3>2, PeriodFollowed, Zenon DEF Follows
    <3>4. Fits'
      BY <3>1, <3>3 DEF Fits
    <3>5. TemperatureMeant' /\ CurrentMeant'
      BY <3>1 DEF TemperatureMeant, CurrentMeant
    <3> QED BY <3>4, <3>5
  <2>6. CASE UNCHANGED last
    <3>1. Fits'
      BY <1>2, <2>6 DEF Fits
    <3>2. TemperatureMeant'
      BY <1>2, <2>6 DEF TemperatureMeant
    <3>3. CurrentMeant'
      BY <1>2, <2>6 DEF CurrentMeant
    <3> QED BY <3>1, <3>2, <3>3
  <2> QED
    BY <1>2, <2>1, <2>2, <2>3, <2>4, <2>5, <2>6, <2>7
    DEF Next, SendTemperature, SendLevel, BuildTension, DimLight, InitializeTimer
<1> QED BY <1>1, <1>2, PTL DEF Spec

-----------------------------------------------------------------------------
(* What was converted last is the conversion of an input: the invariant    *)
(* the two theorems about successive conversions rest on.                  *)
Converting ==
    /\ last.what = "temperature" =>
           last.of \in Registers /\ last.into = TemperatureCode(last.of)
    /\ last.what = "level" =>
           \E a, b \in Samples : last.of = <<a, b>> /\ last.into = getCleanWaterLevel(a, b)
    /\ last.what = "current" =>
           last.of \in Currents /\ last.into = CurrentBytes(last.of)

(* It is inductive by itself.                                              *)
LEMMA ConvertingStep == Converting /\ [Next]_last => Converting'
<1> SUFFICES ASSUME Converting, [Next]_last
             PROVE  Converting'
  OBVIOUS
<1>1. CASE SendTemperature
  BY <1>1 DEF SendTemperature, Converted, Converting
<1>2. CASE SendSilent
  BY <1>2 DEF SendSilent, Converted, Converting
<1>3. CASE SendLevel
  BY <1>3 DEF SendLevel, Converted, Converting
<1>4. CASE BuildTension
  BY <1>4 DEF BuildTension, Converted, Converting
<1>5. CASE DimLight
  BY <1>5 DEF DimLight, Converted, Converting
<1>6. CASE InitializeTimer
  BY <1>6 DEF InitializeTimer, Converted, Converting
<1>7. CASE UNCHANGED last
  BY <1>7 DEF Converting
<1> QED BY <1>1, <1>2, <1>3, <1>4, <1>5, <1>6, <1>7 DEF Next

(* So it holds always.                                                     *)
LEMMA ConvertingInvariant == Spec => []Converting
<1>1. Init => Converting
  BY DEF Init, Converting
<1> QED BY <1>1, ConvertingStep, PTL DEF Spec

(* No warmer temperature gets a smaller code, no fuller tank a lower level.*)
THEOREM OrderShown == Spec => WarmerNeverBelow /\ FullerNeverBelow
<1>1. ASSUME Converting, Converting'
      PROVE  WarmerNotBelow
  <2> SUFFICES ASSUME last.what = "temperature", last'.what = "temperature",
                      InRange(last.of), InRange(last'.of), last.of <= last'.of
               PROVE  last.into <= last'.into
    BY DEF WarmerNotBelow
  <2>1. last.of \in Registers /\ last.into = TemperatureCode(last.of)
    BY <1>1, Zenon DEF Converting
  <2>2. last'.of \in Registers /\ last'.into = TemperatureCode(last'.of)
    BY <1>1, Zenon DEF Converting
  <2>3. last.of \in Int /\ last'.of \in Int
    BY <2>1, <2>2, Inputs
  <2> QED BY <2>3, <2>1, <2>2, TemperatureCodeRises
<1>2. ASSUME Converting, Converting'
      PROVE  FullerNotBelow
  <2> SUFFICES ASSUME last.what = "level", last'.what = "level",
                      last.of[1] <= last'.of[1], last.of[2] <= last'.of[2]
               PROVE  last.into <= last'.into
    BY DEF FullerNotBelow
  <2>1. PICK a, b \in Samples : last.of = <<a, b>> /\ last.into = getCleanWaterLevel(a, b)
    BY <1>2 DEF Converting
  <2>2. PICK c, d \in Samples :
            last'.of = <<c, d>> /\ last'.into = getCleanWaterLevel(c, d)
    BY <1>2 DEF Converting
  <2>3. a <= c /\ b <= d
    BY <2>1, <2>2
  <2>4. /\ a \in Nat /\ b \in Nat /\ c \in Nat /\ d \in Nat
        /\ a <= 1023 /\ b <= 1023 /\ c <= 1023 /\ d <= 1023
    BY Inputs
  <2> QED BY <2>1, <2>2, <2>3, <2>4, LevelRises
<1> QED BY <1>1, <1>2, ConvertingInvariant, PTL DEF Spec, WarmerNeverBelow, FullerNeverBelow

(* Two readings of a current or tension sensor that differ are never built *)
(* into the same bytes.                                                    *)
THEOREM CurrentsShown == Spec => CurrentsTold
<1>1. ASSUME Converting, Converting'
      PROVE  CurrentTold
  <2> SUFFICES ASSUME last.what = "current", last'.what = "current", last.into = last'.into
               PROVE  last.of = last'.of
    BY DEF CurrentTold
  <2>1. last.of \in Currents /\ last.into = CurrentBytes(last.of)
    BY <1>1, Zenon DEF Converting
  <2>2. last'.of \in Currents /\ last'.into = CurrentBytes(last'.of)
    BY <1>1, Zenon DEF Converting
  <2>3. last.of \in Nat /\ last.of <= 1023 /\ last'.of \in Nat /\ last'.of <= 1023
    BY <2>1, <2>2, Inputs
  <2>4. CurrentBytes(last.of) = CurrentBytes(last'.of)
    BY <2>1, <2>2
  <2> QED BY <2>4, <2>3, CurrentBytesDiffer
<1> QED BY <1>1, ConvertingInvariant, PTL DEF Spec, CurrentsTold

(* Every code fits its telemetry message, every level its output.          *)
THEOREM CodesFit == Spec => []Fits
BY TemperaturesShown, PTL

(* What an int holds without a sign.                                       *)
Positive == 0 .. 32767

(* A byte times at most 128 fits an int.                                   *)
LEMMA ProductFits ==
    ASSUME NEW c \in 0 .. 128, NEW d \in 0 .. 255
    PROVE  c * d \in Positive
<1>1. 0 <= c * d
  OBVIOUS
<1>2. c * d <= 128 * d
  <2>1. 0 <= (128 - c) * d
    OBVIOUS
  <2>2. (128 - c) * d = 128 * d - c * d
    OBVIOUS
  <2>3. c * d \in Int /\ 128 * d \in Int
    OBVIOUS
  <2> QED BY <2>1, <2>2, <2>3
<1>3. c * d \in Int
  OBVIOUS
<1> QED BY <1>1, <1>2, <1>3 DEF Positive

(* An int that is not negative is divided with nothing lost but the        *)
(* remainder.                                                              *)
LEMMA DividedBy256 ==
    ASSUME NEW p \in Positive
    PROVE  /\ 0 <= Toward0(Short(p), 256)
           /\ 256 * Toward0(Short(p), 256) <= p
           /\ p < 256 * (Toward0(Short(p), 256) + 1)
<1>1. p \in Int /\ 0 <= p /\ p <= 32767
  BY DEF Positive
<1>2. Short(p) = p
  BY <1>1 DEF Short
<1>3. Toward0(p, 256) = p \div 256
  BY <1>1 DEF Toward0
<1>4. /\ 0 <= p \div 256
      /\ 256 * (p \div 256) <= p
      /\ p < 256 * ((p \div 256) + 1)
  BY <1>1
<1> QED BY <1>2, <1>3, <1>4, Zenon

(* A dimmed colour of at most 128 is the product divided by 256.           *)
LEMMA DimmedLevelWithin ==
    ASSUME NEW c \in 0 .. 128, NEW d \in 0 .. 255
    PROVE  /\ 0 <= DimmedLevel(c, d)
           /\ 256 * DimmedLevel(c, d) <= c * d
           /\ c * d < 256 * (DimmedLevel(c, d) + 1)
BY ProductFits, DividedBy256, Zenon DEF DimmedLevel

(* A colour of at most 128 is never shown brighter than asked.             *)
THEOREM LightsDimmed == Spec => []DimmedWithin
<1>1. Init => DimmedWithin
  BY DEF Init, DimmedWithin
<1>2. ASSUME DimmedWithin, [Next]_last
      PROVE  DimmedWithin'
  <2>1. ASSUME NEW c \in Colours, NEW d \in Dims,
               Converted("light", <<c, d>>, DimmedLevel(c, d))
        PROVE  DimmedWithin'
    <3>1. /\ last'.what = "light" /\ last'.of[1] = c /\ last'.of[2] = d
          /\ last'.into = DimmedLevel(c, d)
      BY <2>1 DEF Converted
    <3>2. c \in 0 .. 255 /\ d \in 0 .. 255
      BY RangeAssumption DEF RangeAssumption
    <3>3. c <= 128 => c \in 0 .. 128
      BY <3>2
    <3>4. c <= 128 => /\ 0 <= DimmedLevel(c, d)
                      /\ 256 * DimmedLevel(c, d) <= c * d
                      /\ c * d < 256 * (DimmedLevel(c, d) + 1)
      BY <3>2, <3>3, DimmedLevelWithin, Zenon
    <3> QED BY <3>1, <3>4, Zenon DEF DimmedWithin
  <2>2. CASE SendTemperature
    BY <2>2 DEF SendTemperature, Converted, DimmedWithin
  <2>3. CASE SendSilent \/ SendLevel \/ BuildTension
    BY <2>3 DEF SendSilent, SendLevel, BuildTension, Converted, DimmedWithin
  <2>4. CASE InitializeTimer
    BY <2>4 DEF InitializeTimer, Converted, DimmedWithin
  <2>5. CASE UNCHANGED last
    BY <1>2, <2>5 DEF DimmedWithin
  <2> QED
    BY <1>2, <2>1, <2>2, <2>3, <2>4, <2>5 DEF Next, DimLight
<1> QED BY <1>1, <1>2, PTL DEF Spec

(* Timer1 counts the period it is asked for, whatever that is.             *)
THEOREM PeriodsKept == Spec => []PeriodKept
<1>1. Init => PeriodKept
  BY DEF Init, PeriodKept
<1>2. ASSUME PeriodKept, [Next]_last
      PROVE  PeriodKept'
  <2>1. ASSUME NEW us \in Periods, Converted("period", us, setPeriod(us))
        PROVE  PeriodKept'
    <3>1. last'.what = "period" /\ last'.of = us /\ last'.into = setPeriod(us)
      BY <2>1 DEF Converted
    <3>2. us \in Int /\ 1 <= us
      BY PeriodAssumption DEF PeriodAssumption
    <3>3. Follows(us, setPeriod(us))
      BY <3>2, PeriodFollowed, Zenon
    <3> QED BY <3>1, <3>3, Zenon DEF PeriodKept, Follows
  <2>2. CASE SendTemperature
    BY <2>2 DEF SendTemperature, Converted, PeriodKept
  <2>3. CASE SendSilent \/ SendLevel \/ BuildTension
    BY <2>3 DEF SendSilent, SendLevel, BuildTension, Converted, PeriodKept
  <2>4. CASE DimLight
    BY <2>4 DEF DimLight, Converted, PeriodKept
  <2>5. CASE UNCHANGED last
    BY <1>2, <2>5 DEF PeriodKept
  <2> QED
    BY <1>2, <2>1, <2>2, <2>3, <2>4, <2>5 DEF Next, InitializeTimer
<1> QED BY <1>1, <1>2, PTL DEF Spec

(* Which codes a probe that answers cannot be told by: from -15.875        *)
(* degrees down its temperature is taken for a disconnected probe's.  Both *)
(* are then sent as the code of one degree above zero, the remainder of    *)
(* -126 in a byte.  It says for which registers AnsweringIsConnected fails.*)
LEMMA ColdProbeCode ==
    ASSUME NEW r \in Int
    PROVE  /\ rawToCelsius(calculateTemperature(r)) = DEVICE_DISCONNECTED_C <=> r <= -254
           /\ r <= -254 => TemperatureCode(r) = SilentCode
<1>1. calculateTemperature(r) = 8 * r
  BY DEF calculateTemperature
<1>2. rawToCelsius(8 * r) = IF r <= -254 THEN -16256 ELSE 8 * r
  BY DEF rawToCelsius, DEVICE_DISCONNECTED_RAW, DEVICE_DISCONNECTED_C
<1>3. 8 * r = -16256 <=> r = -2032
  OBVIOUS
<1>4. rawToCelsius(DEVICE_DISCONNECTED_RAW) = -16256
  BY DEF rawToCelsius, DEVICE_DISCONNECTED_RAW, DEVICE_DISCONNECTED_C
<1>5. DEVICE_DISCONNECTED_C = -16256
  BY DEF DEVICE_DISCONNECTED_C
<1> QED
  BY <1>1, <1>2, <1>3, <1>4, <1>5 DEF TemperatureCode, SilentCode

LEMMA SilentIsOneDegree == SilentCode = TemperatureCode(16)
<1>1. rawToCelsius(DEVICE_DISCONNECTED_RAW) = -16256
  BY DEF rawToCelsius, DEVICE_DISCONNECTED_RAW, DEVICE_DISCONNECTED_C
<1>2. formatTempData(-16256) = 130
  <2>1. Toward0(-16256, 64) = -254
    BY DEF Toward0
  <2>2. ASSUME NEW n \in Int, n = 0 - 126
        PROVE  n % 256 = 130
    <3> DEFINE q == n \div 256
               m == n % 256
    <3>1. m \in 0 .. 255 /\ q \in Int /\ n = 256 * q + m
      OBVIOUS
    <3> HIDE DEF q, m
    <3>2. q = 0 - 1 /\ m = 130
      BY <2>2, <3>1
    <3> QED BY <3>2 DEF m
  <2>3. 128 + (-254) \in Int /\ 128 + (-254) = 0 - 126
    OBVIOUS
  <2>4. Byte(128 + (-254)) = 130
    BY <2>2, <2>3 DEF Byte
  <2> QED BY <2>1, <2>4 DEF formatTempData
<1>3. rawToCelsius(calculateTemperature(16)) = 128
  BY DEF rawToCelsius, calculateTemperature, DEVICE_DISCONNECTED_RAW
<1>4. formatTempData(128) = 130
  BY DEF formatTempData, Toward0, Byte
<1> QED BY <1>1, <1>2, <1>3, <1>4 DEF SilentCode, TemperatureCode

(* A probe that answers is taken for a missing one exactly from -15.875    *)
(* degrees down, and the tablet is then sent one degree above zero, as for *)
(* a probe that is silent: the counterexample of AnsweringIsConnected, for *)
(* every register of the probe's range.                                    *)
THEOREM ColdIsMissing ==
    Spec => [](last.what = "temperature" =>
                 /\ rawToCelsius(calculateTemperature(last.of)) = DEVICE_DISCONNECTED_C
                        <=> last.of <= -254
                 /\ last.of <= -254 =>
                        last.into = SilentCode /\ SilentCode = TemperatureCode(16))
<1> DEFINE Cold ==
        last.what = "temperature" =>
            /\ rawToCelsius(calculateTemperature(last.of)) = DEVICE_DISCONNECTED_C
                   <=> last.of <= -254
            /\ last.of <= -254 =>
                   last.into = SilentCode /\ SilentCode = TemperatureCode(16)
<1>1. Init => Cold
  BY DEF Init
<1>2. ASSUME Cold, [Next]_last
      PROVE  Cold'
  <2>1. ASSUME NEW r \in Registers, Converted("temperature", r, TemperatureCode(r))
        PROVE  Cold'
    <3>1. last'.of = r /\ last'.into = TemperatureCode(r)
      BY <2>1 DEF Converted
    <3>2. r \in Int
      BY RangeAssumption DEF RangeAssumption
    <3>3. /\ rawToCelsius(calculateTemperature(r)) = DEVICE_DISCONNECTED_C <=> r <= -254
          /\ r <= -254 => TemperatureCode(r) = SilentCode
      BY <3>2, ColdProbeCode
    <3> QED BY <3>1, <3>3, SilentIsOneDegree, Zenon
  <2>2. CASE SendSilent \/ SendLevel \/ BuildTension
    BY <2>2 DEF SendSilent, SendLevel, BuildTension, Converted
  <2>3. CASE DimLight \/ InitializeTimer
    BY <2>3 DEF DimLight, InitializeTimer, Converted
  <2>4. CASE UNCHANGED last
    BY <1>2, <2>4
  <2> QED
    BY <1>2, <2>1, <2>2, <2>3, <2>4 DEF Next, SendTemperature
<1> QED BY <1>1, <1>2, PTL DEF Spec
=============================================================================
