--------------------------- MODULE MCConversions ---------------------------
(* Inputs for Conversions: the range of the probes in quarters of a degree *)
(* (their 10 bits) and finer at its boundaries, the whole range of the     *)
(* analog-to-digital converter, tank samples on both sides of every        *)
(* boundary, colours and dim bytes around the int's overflow, periods on   *)
(* both sides of every change of prescaler.                                *)
EXTENDS Conversions

ProbeRange == {4 * q : q \in -55 * 4 .. 125 * 4} \cup -260 .. -245 \cup -16 .. 16 \cup 1010 .. 1030
TankSamples == 0 .. 14 \cup 421 .. 430 \cup {200, 1000, 1022, 1023}
FullScale == 0 .. 1023
SomeColours == {0, 1, 2, 127, 128, 129, 200, 255}
SomeDims == 0 .. 5 \cup 124 .. 132 \cup {200} \cup 252 .. 255
SomePeriods ==
    {1, 2, 8191, 8192, 65535, 65536, 524287, 524288, 2000000, 2097151, 2097152,
     8388607, 8388608, 268435455}
=============================================================================
