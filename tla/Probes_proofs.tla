--------------------------- MODULE Probes_proofs ---------------------------
(***************************************************************************)
(* Proofs about OneWire and Probes: for every length of the ROM code and   *)
(* every set of devices, the searches of a bus left alone give every       *)
(* device once and in order; and requestTemperatures waits long enough for *)
(* the probes begin has read.                                              *)
(***************************************************************************)
EXTENDS Probes, SequenceTheorems, FiniteSetTheorems, WellFoundedInduction, TLAPS

-----------------------------------------------------------------------------
(* The state of the walk.                                                  *)

AgreeTo(r, c, n) == \A m \in 1 .. n : r[m] = c[m]

(* At bit n of c the walk went to 0, and a device is waiting at 1.         *)
Untaken(c, n) == c[n] = 0 /\ \E r \in present : AgreeTo(r, c, n - 1) /\ r[n] = 1

(* z is the last such bit before bit b; 0 if there is none.                *)
LastUntaken(c, z, b) ==
    /\ z \in 0 .. b - 1
    /\ z # 0 => Untaken(c, z)
    /\ \A n \in z + 1 .. b - 1 : ~Untaken(c, n)

(* At bit n of c the walk went to 1, though a device was waiting at 0.     *)
Skipped(c, n) == c[n] = 1 /\ \E r \in present : AgreeTo(r, c, n - 1) /\ r[n] = 0

Latest == given[Len(given)]

(* The codes given so far are the first ones of those present.             *)
Known ==
    /\ Given \subseteq present
    /\ \A j, k \in 1 .. Len(given) : j < k => Before(given[j], given[k])
    /\ \A r \in present, s \in Given : Before(r, s) => r \in Given

(* What LastDiscrepancy says of the latest code.                           *)
Resumable ==
    /\ LastDiscrepancy = 0 => given = <<>>
    /\ LastDiscrepancy # 0 => given # <<>> /\ LastUntaken(Latest, LastDiscrepancy, RomBits + 1)

(* The walk before bit b: c is the latest code up to LastDiscrepancy, 1    *)
(* there, and after it the first way to a device.                          *)
Walked(c, z, b, A) ==
    /\ A = {r \in present : AgreeTo(r, c, b - 1)}
    /\ A # {}
    /\ LastUntaken(c, z, b)
    /\ LastDiscrepancy # 0 /\ b <= LastDiscrepancy => c = Latest
    /\ LastDiscrepancy # 0 /\ b > LastDiscrepancy =>
            AgreeTo(Latest, c, LastDiscrepancy - 1) /\ c[LastDiscrepancy] = 1
    /\ \A n \in LastDiscrepancy + 1 .. b - 1 : ~Skipped(c, n)

WalkInv ==
    quiet =>
        /\ Known
        /\ wire \in {"called", "found"} /\ LastDeviceFlag => Given = present
        /\ wire \in {"called", "found"} /\ ~LastDeviceFlag =>
                Resumable /\ (LastDiscrepancy # 0 => ROM_NO = Latest)
        /\ wire = "searching" =>
                ~LastDeviceFlag /\ Resumable
                /\ Walked(ROM_NO, last_zero, id_bit_number, answering)
        /\ wire = "none" => Given = present

(* bitResolution is no coarser than any probe begin has taken in, unless it*)
(* is one of 10 bits that the firmware has set.                            *)
ProbeInv ==
    /\ step \in {"begin", "set", "lookup"} => i <= Len(TempProbes)
    /\ \A p \in known : resolution[p] <= bitResolution \/ resolution[p] = 10
    /\ ConversionsComplete

-----------------------------------------------------------------------------
(* Codes and their order.                                                  *)

(* A set of positions has a first one.                                     *)
LEMMA FirstOf ==
    ASSUME NEW X, X \subseteq 1 .. RomBits, X # {}
    PROVE  \E n \in X : \A m \in X : n <= m
<1> DEFINE S == 1 .. RomBits
           T == {1 .. n : n \in X}
<1>0. RomBits \in Nat
  BY OneWireAssumption
<1>1. IsFiniteSet(S)
  BY <1>0, FS_Interval, SMT
<1>2. IsWellFoundedOn(StrictSubsetOrdering(S), FiniteSubsetsOf(S)) /\ FiniteSubsetsOf(S) = SUBSET S
  BY <1>1, FS_StrictSubsetOrderingWellFounded, FS_FiniteSubsetsOfFinite
<1>3. T \subseteq SUBSET S /\ T # {}
  <2>1. \A n \in X : 1 .. n \subseteq S
    BY <1>0
  <2>2. \A n \in X : 1 .. n \in SUBSET S
    BY <2>1
  <2> QED BY <2>2, Zenon
<1>4. PICK x \in T : \A y \in T : <<y, x>> \notin StrictSubsetOrdering(S)
  BY <1>2, <1>3, WFMin
<1>5. PICK n \in X : x = 1 .. n
  BY <1>4
<1>6. ASSUME NEW m \in X, m < n PROVE FALSE
  <2>1. 1 .. m \in T /\ 1 .. m \in SUBSET S /\ x \in SUBSET S
    BY <1>3, <1>4
  <2>2. 1 .. m \subseteq x /\ 1 .. m # x
    BY <1>5, <1>6, <1>0
  <2>3. <<1 .. m, x>> \in StrictSubsetOrdering(S)
    BY <2>1, <2>2, <1>2 DEF StrictSubsetOrdering
  <2> QED BY <2>1, <2>3, <1>4
<1> QED BY <1>6, <1>0

LEMMA FirstDifference ==
    ASSUME NEW r \in Code, NEW s \in Code, r # s
    PROVE  \E n \in 1 .. RomBits : r[n] # s[n] /\ AgreeTo(r, s, n - 1)
<1> DEFINE X == {n \in 1 .. RomBits : r[n] # s[n]}
<1>0. RomBits \in Nat
  BY OneWireAssumption
<1>1. X # {}
  <2>1. SUFFICES ASSUME \A n \in 1 .. RomBits : r[n] = s[n] PROVE FALSE
    BY Zenon
  <2>2. r = [n \in 1 .. RomBits |-> r[n]] /\ s = [n \in 1 .. RomBits |-> s[n]]
    BY Zenon DEF Code
  <2> QED BY <2>1, <2>2
<1>2. PICK n \in X : \A m \in X : n <= m
  BY <1>1, FirstOf
<1>3. AgreeTo(r, s, n - 1)
  BY <1>2, <1>0 DEF AgreeTo
<1> QED BY <1>2, <1>3

LEMMA BeforeOrAfter ==
    ASSUME NEW r \in Code, NEW s \in Code, r # s
    PROVE  \/ Before(r, s)
           \/ \E n \in 1 .. RomBits : r[n] = 1 /\ s[n] = 0 /\ AgreeTo(r, s, n - 1)
<1>0. RomBits \in Nat
  BY OneWireAssumption
<1>1. PICK n \in 1 .. RomBits : r[n] # s[n] /\ AgreeTo(r, s, n - 1)
  BY FirstDifference
<1>2. r[n] \in {0, 1} /\ s[n] \in {0, 1}
  BY DEF Code
<1> QED BY <1>0, <1>1, <1>2 DEF Before, AgreeTo

LEMMA BeforeTransitive ==
    ASSUME NEW r \in Code, NEW s \in Code, NEW t \in Code, Before(r, s), Before(s, t)
    PROVE  Before(r, t)
<1>0. RomBits \in Nat /\ \A m \in 1 .. RomBits : r[m] \in {0, 1} /\ s[m] \in {0, 1} /\ t[m] \in {0, 1}
  BY OneWireAssumption DEF Code
<1>1. PICK n \in 1 .. RomBits : r[n] < s[n] /\ \A m \in 1 .. n - 1 : r[m] = s[m]
  BY DEF Before
<1>2. PICK k \in 1 .. RomBits : s[k] < t[k] /\ \A m \in 1 .. k - 1 : s[m] = t[m]
  BY DEF Before
<1>3. CASE n < k
  BY <1>0, <1>1, <1>2, <1>3 DEF Before
<1>4. CASE n = k
  BY <1>0, <1>1, <1>2, <1>4
<1>5. CASE n > k
  <2>1. r[k] < t[k] /\ \A m \in 1 .. k - 1 : r[m] = t[m]
    BY <1>0, <1>1, <1>2, <1>5
  <2> QED BY <2>1 DEF Before
<1> QED BY <1>0, <1>3, <1>4, <1>5

-----------------------------------------------------------------------------
(* One turn of the search.                                                 *)

LEMMA LatestIsPresent ==
    ASSUME Known, given \in Seq(Code), given # <<>>
    PROVE  Latest \in present /\ Latest \in Given
<1>1. Len(given) \in 1 .. Len(given)
  BY LenProperties, EmptySeq
<1> QED BY <1>1 DEF Known, Latest, Given

(* What is on the wire says which ways there are to go on.                 *)
LEMMA OnTheWire ==
    ASSUME WireTypeOK, answering # {}
    PROVE  /\ IdBit \in {0, 1} /\ CmpIdBit \in {0, 1}
           /\ IdBit = 0 <=> \E r \in answering : r[id_bit_number] = 0
           /\ CmpIdBit = 0 <=> \E r \in answering : r[id_bit_number] = 1
<1>1. \A r \in answering : r \in Code /\ r[id_bit_number] \in {0, 1}
  BY OneWireAssumption DEF WireTypeOK, Code
<1>2. 0 \in {r[id_bit_number] : r \in answering} <=> \E r \in answering : r[id_bit_number] = 0
  BY <1>1
<1>3. 0 \in {1 - r[id_bit_number] : r \in answering} <=> \E r \in answering : r[id_bit_number] = 1
  BY <1>1
<1> QED BY <1>2, <1>3 DEF IdBit, CmpIdBit, WiredAnd

(* Codes that agree before a bit have the same ways untaken before it.     *)
LEMMA AgreeingCodes ==
    ASSUME NEW c, NEW d, NEW n \in Nat, AgreeTo(c, d, n)
    PROVE  /\ \A r, m : m \in 1 .. n + 1 => (AgreeTo(r, c, m - 1) <=> AgreeTo(r, d, m - 1))
           /\ \A m \in 1 .. n : Untaken(c, m) <=> Untaken(d, m)
           /\ \A m \in 1 .. n : Skipped(c, m) <=> Skipped(d, m)
<1>1. \A r, m : m \in 1 .. n + 1 => (AgreeTo(r, c, m - 1) <=> AgreeTo(r, d, m - 1))
  BY DEF AgreeTo
<1>2. \A m \in 1 .. n : c[m] = d[m] /\ m \in 1 .. n + 1
  BY DEF AgreeTo
<1>3. ASSUME NEW m \in 1 .. n PROVE Untaken(c, m) <=> Untaken(d, m)
  BY <1>1, <1>2, Zenon DEF Untaken
<1>4. ASSUME NEW m \in 1 .. n PROVE Skipped(c, m) <=> Skipped(d, m)
  BY <1>1, <1>2, Zenon DEF Skipped
<1> QED BY <1>1, <1>3, <1>4, Zenon

(* The two definitions, for the bit after b.                               *)
LEMMA IsLastUntaken ==
    ASSUME NEW c, NEW z \in Nat, NEW b \in Nat,
           z <= b, z # 0 => Untaken(c, z),
           \A m \in z + 1 .. b : ~Untaken(c, m)
    PROVE  LastUntaken(c, z, b + 1)
<1>1. b + 1 - 1 = b /\ z \in 0 .. b
  OBVIOUS
<1> QED BY <1>1 DEF LastUntaken

LEMMA IsWalked ==
    ASSUME NEW c, NEW z, NEW b \in Nat, NEW A,
           A = {r \in present : AgreeTo(r, c, b)}, A # {}, LastUntaken(c, z, b + 1),
           LastDiscrepancy # 0 /\ b < LastDiscrepancy => c = Latest,
           LastDiscrepancy # 0 /\ b >= LastDiscrepancy =>
                AgreeTo(Latest, c, LastDiscrepancy - 1) /\ c[LastDiscrepancy] = 1,
           \A m \in LastDiscrepancy + 1 .. b : ~Skipped(c, m),
           LastDiscrepancy \in Nat
    PROVE  Walked(c, z, b + 1, A)
<1>1. /\ b + 1 - 1 = b
      /\ b + 1 <= LastDiscrepancy <=> b < LastDiscrepancy
      /\ b + 1 > LastDiscrepancy <=> b >= LastDiscrepancy
  OBVIOUS
<1> QED BY <1>1 DEF Walked

Turned == [ROM_NO EXCEPT ![id_bit_number] = Direction(IdBit, CmpIdBit)]

LEMMA Turn ==
    ASSUME WireTypeOK, Known, Resumable, Walked(ROM_NO, last_zero, id_bit_number, answering)
    PROVE  /\ ~(IdBit = 1 /\ CmpIdBit = 1)
           /\ Direction(IdBit, CmpIdBit) \in {0, 1}
           /\ Walked(Turned, LastZero(IdBit, CmpIdBit), id_bit_number + 1,
                     {r \in answering : r[id_bit_number] = Direction(IdBit, CmpIdBit)})
<1> DEFINE n == id_bit_number
           dir == Direction(IdBit, CmpIdBit)
           d == LastDiscrepancy
           next == {r \in answering : r[n] = dir}
<1>0. /\ RomBits \in Nat /\ n \in 1 .. RomBits /\ d \in 0 .. RomBits /\ ROM_NO \in Code
      /\ given \in Seq(Code)
      /\ \A r \in present : r \in Code
  BY OneWireAssumption DEF WireTypeOK
<1>1. /\ answering = {r \in present : AgreeTo(r, ROM_NO, n - 1)}
      /\ answering # {}
      /\ LastUntaken(ROM_NO, last_zero, n)
      /\ d # 0 /\ n <= d => ROM_NO = Latest
      /\ d # 0 /\ n > d => AgreeTo(Latest, ROM_NO, d - 1) /\ ROM_NO[d] = 1
      /\ \A m \in d + 1 .. n - 1 : ~Skipped(ROM_NO, m)
  BY DEF Walked
<1>2. /\ IdBit \in {0, 1} /\ CmpIdBit \in {0, 1}
      /\ IdBit = 0 <=> \E r \in answering : r[n] = 0
      /\ CmpIdBit = 0 <=> \E r \in answering : r[n] = 1
  BY <1>1, OnTheWire
<1>3. \A r \in answering : r[n] \in {0, 1}
  BY <1>0, <1>1 DEF Code
<1>4. ~(IdBit = 1 /\ CmpIdBit = 1)
  BY <1>1, <1>2, <1>3
<1>5. dir \in {0, 1}
  BY <1>0, <1>2 DEF Direction, Code
<1>6. \E r \in answering : r[n] = dir
  BY <1>0, <1>1, <1>2, <1>3, <1>4, <1>5 DEF Direction
<1>7. IdBit = CmpIdBit <=> (\E r \in answering : r[n] = 0) /\ (\E r \in answering : r[n] = 1)
  BY <1>2, <1>4
<1>8. Turned \in Code /\ Turned[n] = dir /\ AgreeTo(Turned, ROM_NO, n - 1) /\ n - 1 \in Nat
  BY <1>0, <1>5 DEF Turned, Code, AgreeTo
<1>9. /\ \A r, m : m \in 1 .. n => (AgreeTo(r, Turned, m - 1) <=> AgreeTo(r, ROM_NO, m - 1))
      /\ \A m \in 1 .. n - 1 : Untaken(Turned, m) <=> Untaken(ROM_NO, m)
      /\ \A m \in 1 .. n - 1 : Skipped(Turned, m) <=> Skipped(ROM_NO, m)
  <2>1. n - 1 + 1 = n
    BY <1>0
  <2> QED BY <1>8, <2>1, AgreeingCodes
<1>10. \A r \in present : r \in answering <=> AgreeTo(r, Turned, n - 1)
  <2>1. n \in 1 .. n
    BY <1>0
  <2>2. \A r : AgreeTo(r, Turned, n - 1) <=> AgreeTo(r, ROM_NO, n - 1)
    BY <1>9, <2>1, Zenon
  <2> QED BY <1>1, <2>2
<1>11. next = {r \in present : AgreeTo(r, Turned, n)}
  BY <1>0, <1>1, <1>8, <1>10 DEF AgreeTo
<1>12. Untaken(Turned, n) <=> IdBit = CmpIdBit /\ dir = 0
  BY <1>1, <1>5, <1>6, <1>7, <1>8, <1>10 DEF Untaken
<1>13. Skipped(Turned, n) <=> IdBit = CmpIdBit /\ dir = 1
  BY <1>1, <1>5, <1>6, <1>7, <1>8, <1>10 DEF Skipped
<1>14. LastUntaken(Turned, LastZero(IdBit, CmpIdBit), n + 1)
  <2>1. CASE IdBit = CmpIdBit /\ dir = 0
    <3>1. LastZero(IdBit, CmpIdBit) = n
      BY <2>1 DEF LastZero
    <3>2. Untaken(Turned, n)
      BY <1>12, <2>1
    <3>3. LastUntaken(Turned, n, n + 1)
      BY <1>0, <3>2, IsLastUntaken
    <3> QED BY <3>1, <3>3
  <2>2. CASE ~(IdBit = CmpIdBit /\ dir = 0)
    <3>1. LastZero(IdBit, CmpIdBit) = last_zero
      BY <2>2 DEF LastZero
    <3>2. /\ last_zero \in 0 .. n - 1
          /\ last_zero # 0 => Untaken(ROM_NO, last_zero)
          /\ \A m \in last_zero + 1 .. n - 1 : ~Untaken(ROM_NO, m)
      BY <1>1 DEF LastUntaken
    <3>3. last_zero # 0 => Untaken(Turned, last_zero)
      BY <1>0, <1>9, <3>2
    <3>4. \A m \in last_zero + 1 .. n : ~Untaken(Turned, m)
      BY <1>0, <1>9, <1>12, <2>2, <3>2
    <3>5. last_zero \in Nat /\ n \in Nat /\ last_zero <= n
      BY <1>0, <3>2
    <3>6. LastUntaken(Turned, last_zero, n + 1)
      BY <3>3, <3>4, <3>5, IsLastUntaken
    <3> QED BY <3>1, <3>6
  <2> QED BY <2>1, <2>2
<1>15. ASSUME d # 0
       PROVE  LastUntaken(Latest, d, RomBits + 1) /\ Latest \in present
  BY <1>0, <1>15, LatestIsPresent DEF Resumable
<1>16. ASSUME d # 0, n < d
       PROVE  Turned = Latest
  <2>1. ROM_NO = Latest /\ Latest \in answering
    BY <1>0, <1>1, <1>15, <1>16 DEF AgreeTo
  <2>2. dir = Latest[n]
    BY <1>0, <1>2, <1>3, <1>4, <1>16, <2>1 DEF Direction
  <2> QED BY <1>0, <2>1, <2>2 DEF Turned, Code
<1>17. ASSUME d # 0, n = d
       PROVE  AgreeTo(Latest, Turned, d - 1) /\ Turned[d] = 1
  <2>1. ROM_NO = Latest /\ Untaken(Latest, d)
    BY <1>0, <1>1, <1>15, <1>17 DEF LastUntaken
  <2>2. (\E r \in answering : r[n] = 1) /\ \E r \in answering : r[n] = 0
    BY <1>0, <1>1, <1>15, <1>17, <2>1 DEF Untaken, AgreeTo
  <2>3. dir = 1
    BY <1>0, <1>7, <1>17, <2>2 DEF Direction
  <2> QED BY <1>8, <1>17, <2>1, <2>3 DEF AgreeTo
<1>18. ASSUME d # 0, n > d
       PROVE  AgreeTo(Latest, Turned, d - 1) /\ Turned[d] = 1
  <2>1. AgreeTo(Latest, ROM_NO, d - 1) /\ ROM_NO[d] = 1
    BY <1>0, <1>1, <1>18
  <2> QED BY <1>0, <1>8, <1>18, <2>1 DEF AgreeTo
<1>19. ASSUME n > d
       PROVE  ~Skipped(Turned, n)
  BY <1>0, <1>13, <1>19 DEF Direction
<1>20. \A m \in d + 1 .. n : ~Skipped(Turned, m)
  BY <1>0, <1>1, <1>9, <1>19
<1>21. next # {}
  BY <1>6
<1>22. /\ d # 0 /\ n < d => Turned = Latest
       /\ d # 0 /\ n >= d => AgreeTo(Latest, Turned, d - 1) /\ Turned[d] = 1
  <2>1. n >= d => n = d \/ n > d
    BY <1>0
  <2> QED BY <1>16, <1>17, <1>18, <2>1, Zenon
<1>23. Walked(Turned, LastZero(IdBit, CmpIdBit), n + 1, next)
  <2>1. n \in Nat /\ d \in Nat
    BY <1>0
  <2> QED BY <1>11, <1>14, <1>20, <1>21, <1>22, <2>1, IsWalked
<1> QED BY <1>4, <1>5, <1>23

-----------------------------------------------------------------------------
(* The end of a search.                                                    *)

(* The code of a finished walk is that of a device; it comes after those   *)
(* given, with none left out in between, and with no way untaken it is the *)
(* last.                                                                   *)
LEMMA WalkEnds ==
    ASSUME WireTypeOK, Known, Resumable,
           NEW c \in Code, NEW z, NEW A, Walked(c, z, RomBits + 1, A)
    PROVE  /\ c \in present
           /\ \A s \in Given : Before(s, c)
           /\ \A r \in present : Before(r, c) => r \in Given
           /\ z = 0 => \A r \in present : r = c \/ r \in Given
<1> DEFINE d == LastDiscrepancy
<1>0. /\ RomBits \in Nat /\ d \in 0 .. RomBits /\ RomBits + 1 - 1 = RomBits
      /\ given \in Seq(Code)
      /\ \A r \in present : r \in Code
  BY OneWireAssumption DEF WireTypeOK
<1>1. /\ A = {r \in present : AgreeTo(r, c, RomBits)} /\ A # {}
      /\ LastUntaken(c, z, RomBits + 1)
      /\ d # 0 => AgreeTo(Latest, c, d - 1) /\ c[d] = 1
      /\ \A n \in d + 1 .. RomBits : ~Skipped(c, n)
  BY <1>0 DEF Walked
<1>2. c \in present
  <2>1. PICK r \in present : AgreeTo(r, c, RomBits)
    BY <1>1
  <2>2. r \in Code
    BY <1>0, <2>1
  <2>3. r = c
    BY <2>1, <2>2, FirstDifference DEF AgreeTo
  <2> QED BY <2>1, <2>3
<1>3. ASSUME d # 0
      PROVE  /\ Latest \in present /\ Latest \in Given /\ Latest \in Code
             /\ Latest[d] = 0
             /\ \A n \in d + 1 .. RomBits : ~Untaken(Latest, n)
  <2>1. given # <<>> /\ LastUntaken(Latest, d, RomBits + 1)
    BY <1>3 DEF Resumable
  <2>2. Latest \in present /\ Latest \in Given /\ Latest \in Code
    BY <1>0, <2>1, LatestIsPresent
  <2> QED BY <1>0, <1>3, <2>1, <2>2 DEF LastUntaken, Untaken
<1>4. ASSUME d # 0 PROVE Before(Latest, c)
  BY <1>0, <1>1, <1>3, <1>4 DEF Before, AgreeTo
<1>5. ASSUME NEW s \in Given PROVE Before(s, c)
  <2>1. PICK k \in 1 .. Len(given) : s = given[k]
    BY DEF Given
  <2>2. Len(given) \in Nat /\ Len(given) \in 1 .. Len(given) /\ given # <<>>
    BY <1>0, <2>1, LenProperties
  <2>3. d # 0
    BY <2>2 DEF Resumable
  <2>4. CASE k = Len(given)
    BY <1>4, <2>1, <2>3, <2>4 DEF Latest
  <2>5. CASE k < Len(given)
    <3>1. Before(s, Latest)
      BY <2>1, <2>2, <2>5 DEF Known, Latest
    <3>2. s \in Code
      BY <1>0 DEF Known
    <3> QED BY <1>3, <1>4, <2>3, <3>1, <3>2, BeforeTransitive
  <2> QED BY <2>1, <2>2, <2>4, <2>5
<1>6. ASSUME NEW r \in present, Before(r, c) PROVE r \in Given
  <2>0. r \in Code /\ \A n \in 1 .. RomBits : r[n] \in {0, 1} /\ c[n] \in {0, 1}
    BY <1>0 DEF Code
  <2>1. PICK n \in 1 .. RomBits : r[n] < c[n] /\ AgreeTo(r, c, n - 1)
    BY <1>6 DEF Before, AgreeTo
  <2>2. r[n] = 0 /\ c[n] = 1
    BY <2>0, <2>1
  <2>3. Skipped(c, n)
    BY <2>1, <2>2 DEF Skipped
  <2>4. n <= d /\ d # 0
    BY <1>0, <1>1, <2>3
  <2>5. AgreeTo(Latest, c, d - 1)
    BY <1>1, <2>4
  <2>6. CASE n < d
    <3>1. Before(r, Latest)
      BY <1>0, <2>1, <2>2, <2>5, <2>6 DEF Before, AgreeTo
    <3> QED BY <1>3, <2>4, <3>1 DEF Known
  <2>7. CASE n = d
    <3>1. AgreeTo(r, Latest, d - 1) /\ r[d] = 0
      BY <1>0, <2>1, <2>2, <2>5, <2>7 DEF AgreeTo
    <3>2. CASE r = Latest
      BY <1>3, <2>4, <3>2
    <3>3. CASE Before(r, Latest)
      BY <1>3, <2>4, <3>3 DEF Known
    <3>4. ASSUME NEW m \in 1 .. RomBits, r[m] = 1, Latest[m] = 0, AgreeTo(r, Latest, m - 1)
          PROVE  FALSE
      <4>1. m > d
        <5>1. \A k \in 1 .. d - 1 : r[k] = Latest[k]
          BY <3>1 DEF AgreeTo
        <5> QED BY <1>0, <3>1, <3>4, <5>1
      <4>2. Untaken(Latest, m)
        BY <3>4 DEF Untaken
      <4> QED BY <1>0, <1>3, <2>4, <4>1, <4>2
    <3> QED BY <1>3, <2>0, <2>4, <3>2, <3>3, <3>4, BeforeOrAfter
  <2> QED BY <1>0, <2>4, <2>6, <2>7
<1>7. ASSUME z = 0, NEW r \in present, r # c PROVE r \in Given
  <2>1. CASE Before(r, c)
    BY <1>6, <2>1
  <2>2. ASSUME NEW n \in 1 .. RomBits, r[n] = 1, c[n] = 0, AgreeTo(r, c, n - 1)
        PROVE  FALSE
    <3>1. Untaken(c, n)
      BY <2>2 DEF Untaken
    <3> QED BY <1>0, <1>1, <1>7, <3>1 DEF LastUntaken
  <2> QED BY <1>0, <1>7, <2>1, <2>2, BeforeOrAfter
<1> QED BY <1>2, <1>5, <1>6, <1>7

(* One code more.                                                          *)
LEMMA GivenOneMore ==
    ASSUME NEW c \in Code, given \in Seq(Code), Known, c \in present,
           \A s \in Given : Before(s, c),
           \A r \in present : Before(r, c) => r \in Given,
           given' = Append(given, c), present' = present
    PROVE  Known' /\ Given' = Given \cup {c} /\ Latest' = c /\ given' # <<>>
<1>1. /\ Len(given) \in Nat /\ Len(given') = Len(given) + 1
      /\ given'[Len(given) + 1] = c
      /\ \A k \in 1 .. Len(given) : given'[k] = given[k]
  BY LenProperties, AppendProperties
<1>2. Given' = {given'[k] : k \in 1 .. Len(given')}
  BY DEF Given
<1>3. Given' = Given \cup {c}
  BY <1>1, <1>2 DEF Given
<1>4. ASSUME NEW j \in 1 .. Len(given'), NEW k \in 1 .. Len(given'), j < k
      PROVE  Before(given'[j], given'[k])
  <2>1. j \in 1 .. Len(given) /\ given'[j] = given[j] /\ given[j] \in Given
    BY <1>1, <1>4 DEF Given
  <2>2. CASE k = Len(given) + 1
    BY <1>1, <2>1, <2>2
  <2>3. CASE k \in 1 .. Len(given)
    BY <1>1, <1>4, <2>1, <2>3 DEF Known
  <2> QED BY <1>1, <2>2, <2>3
<1>5. \A j, k \in 1 .. Len(given') : j < k => Before(given'[j], given'[k])
  BY <1>4
<1>6. Given' \subseteq present
  BY <1>3 DEF Known
<1>7. \A r \in present, s \in Given' : Before(r, s) => r \in Given'
  BY <1>3 DEF Known
<1>8. Known'
  BY <1>5, <1>6, <1>7 DEF Known
<1>9. Latest' = c
  BY <1>1 DEF Latest
<1>10. given' # <<>>
  BY <1>1
<1> QED BY <1>3, <1>8, <1>9, <1>10

-----------------------------------------------------------------------------
(* The steps.                                                              *)

LEMMA KeptKnown ==
    ASSUME given' = given, present' = present
    PROVE  /\ Given' = Given /\ Latest' = Latest
           /\ Known => Known'
           /\ LastDiscrepancy' = LastDiscrepancy /\ Resumable => Resumable'
<1>1. Given' = Given /\ Latest' = Latest
  BY DEF Given, Latest
<1>2. Known => Known'
  BY <1>1 DEF Known
<1>3. LastDiscrepancy' = LastDiscrepancy /\ Resumable => Resumable'
  BY <1>1 DEF Resumable, LastUntaken, Untaken, AgreeTo
<1> QED BY <1>1, <1>2, <1>3

LEMMA NextWalked ==
    ASSUME NEW c, NEW z, NEW b, NEW A, Walked(c, z, b, A),
           ROM_NO' = c, last_zero' = z, id_bit_number' = b, answering' = A,
           UNCHANGED <<present, given, LastDiscrepancy>>
    PROVE  Walked(ROM_NO, last_zero, id_bit_number, answering)'
<1>1. LastUntaken(c, z, b) => LastUntaken(ROM_NO, last_zero, id_bit_number)'
  BY DEF LastUntaken, Untaken, AgreeTo
<1>2. \A n : ~Skipped(c, n) => ~Skipped(ROM_NO, n)'
  BY DEF Skipped, AgreeTo
<1>3. Latest' = Latest
  BY DEF Latest
<1> QED BY <1>1, <1>2, <1>3 DEF Walked, AgreeTo

LEMMA TurnedCode ==
    ASSUME WireTypeOK, Direction(IdBit, CmpIdBit) \in {0, 1}
    PROVE  Turned \in Code
BY DEF WireTypeOK, Turned, Code

(* The turn that reaches the last bit.                                     *)
LEMMA LastTurn ==
    ASSUME WireTypeOK, WalkInv, quiet, wire = "searching", id_bit_number = RomBits,
           ROM_NO' = Turned, Finish(Turned, LastZero(IdBit, CmpIdBit)),
           present' = present
    PROVE  WalkInv'
<1> DEFINE z == LastZero(IdBit, CmpIdBit)
           next == {r \in answering : r[id_bit_number] = Direction(IdBit, CmpIdBit)}
<1>1. Known /\ Resumable /\ Walked(ROM_NO, last_zero, id_bit_number, answering)
  BY DEF WalkInv
<1>2. Direction(IdBit, CmpIdBit) \in {0, 1} /\ Walked(Turned, z, RomBits + 1, next)
  BY <1>1, Turn
<1>3. Turned \in Code /\ given \in Seq(Code)
  BY <1>2, TurnedCode DEF WireTypeOK
<1>4. /\ Turned \in present
      /\ \A s \in Given : Before(s, Turned)
      /\ \A r \in present : Before(r, Turned) => r \in Given
      /\ z = 0 => \A r \in present : r = Turned \/ r \in Given
  BY <1>1, <1>2, <1>3, WalkEnds
<1>5. Family(Turned) # {}
  BY <1>4, OneWireAssumption DEF WireTypeOK
<1>6. /\ wire' = "found" /\ LastDiscrepancy' = z /\ LastDeviceFlag' = (z = 0)
      /\ given' = Append(given, Turned)
  BY <1>5 DEF Finish
<1>7. Known' /\ Given' = Given \cup {Turned} /\ Latest' = Turned /\ given' # <<>>
  BY <1>1, <1>3, <1>4, <1>6, GivenOneMore
<1>8. LastUntaken(Turned, z, RomBits + 1)
  BY <1>2 DEF Walked
<1>9. z # 0 => Resumable' /\ ROM_NO' = Latest'
  BY <1>6, <1>7, <1>8 DEF Resumable, LastUntaken, Untaken, AgreeTo
<1>10. z = 0 => Given' = present'
  BY <1>1, <1>4, <1>7 DEF Known
<1> QED BY <1>6, <1>7, <1>9, <1>10 DEF WalkInv

LEMMA SearchWalks ==
    ASSUME WireTypeOK, WalkInv, SearchStep
    PROVE  WalkInv'
<1>0. RomBits \in Nat \ {0}
  BY OneWireAssumption
<1>1. SUFFICES ASSUME quiet' PROVE WalkInv'
  BY DEF WalkInv
<1>2. ~Fault
  BY <1>1 DEF Fault
<1>3. CASE SearchBegins
  <2>1. present' = present /\ ROM_NO' = ROM_NO /\ wire = "called"
    BY <1>3 DEF SearchBegins
  <2>2. ASSUME LastDeviceFlag \/ present = {}, NotFound, NoFault
        PROVE  WalkInv'
    <3>1. quiet /\ given' = given /\ wire' = "none"
      BY <1>1, <2>2 DEF NoFault, NotFound
    <3>2. Known /\ Given = present
      BY <2>1, <2>2, <3>1 DEF WalkInv, Known
    <3>3. Known' /\ Given' = present'
      BY <2>1, <3>1, <3>2, KeptKnown
    <3> QED BY <3>1, <3>3 DEF WalkInv
  <2>3. ASSUME ~LastDeviceFlag, present # {}, wire' = "searching", answering' = present,
               id_bit_number' = 1, last_zero' = 0, NoFault,
               UNCHANGED <<LastDiscrepancy, LastDeviceFlag, given>>
        PROVE  WalkInv'
    <3>1. quiet
      BY <1>1, <2>3 DEF NoFault
    <3>2. Known /\ Resumable /\ (LastDiscrepancy # 0 => ROM_NO = Latest)
      BY <2>1, <2>3, <3>1 DEF WalkInv
    <3>3. LastUntaken(ROM_NO, 0, 1)
      BY DEF LastUntaken
    <3>4. present = {r \in present : AgreeTo(r, ROM_NO, 1 - 1)}
      BY DEF AgreeTo
    <3>5. LastDiscrepancy \in Nat
      BY DEF WireTypeOK
    <3>6. Walked(ROM_NO, 0, 1, present)
      BY <2>3, <3>2, <3>3, <3>4, <3>5 DEF Walked
    <3>7. Walked(ROM_NO, last_zero, id_bit_number, answering)'
      BY <2>1, <2>3, <3>6, NextWalked
    <3>8. Known' /\ Resumable' /\ ~LastDeviceFlag'
      BY <2>1, <2>3, <3>2, KeptKnown
    <3> QED BY <2>3, <3>7, <3>8 DEF WalkInv
  <2> QED BY <1>2, <1>3, <2>2, <2>3 DEF SearchBegins
<1>4. CASE SearchBit(IdBit, CmpIdBit) /\ NoFault
  <2>0. quiet /\ wire = "searching" /\ present' = present
    BY <1>1, <1>4 DEF NoFault, SearchBit
  <2>1. Known /\ Resumable /\ ~LastDeviceFlag /\ Walked(ROM_NO, last_zero, id_bit_number, answering)
    BY <2>0 DEF WalkInv
  <2> DEFINE n == id_bit_number
             z == LastZero(IdBit, CmpIdBit)
             next == {r \in answering : r[n] = Direction(IdBit, CmpIdBit)}
  <2>2. ~(IdBit = 1 /\ CmpIdBit = 1) /\ Walked(Turned, z, n + 1, next)
    BY <2>1, Turn
  <2>3. Walk(IdBit, CmpIdBit)
    BY <1>4, <2>2 DEF SearchBit
  <2>4. ROM_NO' = Turned
    BY <2>3 DEF Walk, Turned
  <2>5. CASE n = RomBits
    <3>1. Finish(Turned, z)
      BY <2>3, <2>5 DEF Walk, Turned
    <3> QED BY <2>0, <2>4, <2>5, <3>1, LastTurn
  <2>6. CASE n # RomBits
    <3>1. /\ n' = n + 1 /\ last_zero' = z /\ answering' = next
          /\ UNCHANGED <<wire, LastDiscrepancy, LastDeviceFlag, given>>
      BY <2>3, <2>6 DEF Walk
    <3>2. Walked(ROM_NO, last_zero, id_bit_number, answering)'
      BY <2>0, <2>2, <2>4, <3>1, NextWalked
    <3>3. Known' /\ Resumable'
      BY <2>0, <2>1, <3>1, KeptKnown
    <3> QED BY <2>0, <2>1, <3>1, <3>2, <3>3 DEF WalkInv
  <2> QED BY <2>5, <2>6
<1> QED BY <1>2, <1>3, <1>4 DEF SearchStep

LEMMA ResetWalks ==
    ASSUME ResetSearch
    PROVE  WalkInv'
<1>1. /\ LastDiscrepancy' = 0 /\ LastDeviceFlag' = FALSE /\ wire' = "called"
      /\ given' = <<>> /\ present' = present
  BY DEF ResetSearch
<1>2. Len(given') = 0
  BY <1>1
<1>3. Known'
  BY <1>2 DEF Known, Given
<1>4. Resumable'
  BY <1>1 DEF Resumable
<1> QED BY <1>1, <1>3, <1>4 DEF WalkInv

LEMMA CallerWalks ==
    ASSUME WalkInv, NEW next \in {"called", "free"}, Caller(next),
           next = "called" => wire = "found"
    PROVE  WalkInv'
<1>1. UNCHANGED <<present, LastDiscrepancy, LastDeviceFlag, ROM_NO, quiet, given>> /\ wire' = next
  BY DEF Caller, searchState
<1>2. /\ Given' = Given /\ Latest' = Latest
      /\ Known => Known'
      /\ Resumable => Resumable'
  BY <1>1, KeptKnown
<1> QED BY <1>1, <1>2 DEF WalkInv

LEMMA KeptWalks ==
    ASSUME WalkInv, UNCHANGED wireVars
    PROVE  WalkInv'
<1>1. /\ UNCHANGED <<present, LastDiscrepancy, LastDeviceFlag, ROM_NO, quiet, given>>
      /\ UNCHANGED <<last_zero, id_bit_number, answering, wire>>
  BY DEF wireVars, searchState, locals
<1>2. /\ Given' = Given /\ Latest' = Latest
      /\ Known => Known'
      /\ Resumable => Resumable'
  BY <1>1, KeptKnown
<1>3. Walked(ROM_NO, last_zero, id_bit_number, answering) =>
        Walked(ROM_NO, last_zero, id_bit_number, answering)'
  BY <1>1, NextWalked
<1> QED BY <1>1, <1>2, <1>3 DEF WalkInv

-----------------------------------------------------------------------------
(* Types.                                                                  *)

LEMMA SearchTypes ==
    ASSUME WireTypeOK, SearchStep
    PROVE  WireTypeOK'
<1>0. /\ RomBits \in Nat \ {0} /\ MaxFaults \in Nat
      /\ present \subseteq Roms /\ answering \subseteq present /\ ROM_NO \in Code
      /\ LastDiscrepancy \in 0 .. RomBits /\ LastDeviceFlag \in BOOLEAN
      /\ id_bit_number \in 1 .. RomBits /\ last_zero \in 0 .. RomBits
      /\ wire \in {"free", "called", "searching", "found", "none"}
      /\ faults \in 0 .. MaxFaults /\ quiet \in BOOLEAN /\ given \in Seq(Code)
  BY OneWireAssumption DEF WireTypeOK
<1>1. NoFault \/ Fault => faults' \in 0 .. MaxFaults /\ quiet' \in BOOLEAN
  <2>1. NoFault \/ Fault => faults' \in 0 .. MaxFaults
    BY <1>0 DEF NoFault, Fault, Misread
  <2>2. NoFault \/ Fault => quiet' \in BOOLEAN
    BY <1>0, Zenon DEF NoFault, Fault
  <2> QED BY <2>1, <2>2, Zenon
<1>2. NotFound => /\ wire' = "none" /\ LastDiscrepancy' \in 0 .. RomBits
                  /\ LastDeviceFlag' \in BOOLEAN /\ answering' = {} /\ given' \in Seq(Code)
  <2>1. NotFound => LastDiscrepancy' \in 0 .. RomBits
    BY <1>0 DEF NotFound
  <2> QED BY <1>0, <2>1, Zenon DEF NotFound
<1>3. CASE SearchBegins
  <2>1. present' = present /\ ROM_NO' = ROM_NO /\ (NoFault \/ Fault)
    BY <1>3 DEF SearchBegins
  <2>2. CASE NotFound /\ UNCHANGED locals
    BY <1>0, <1>1, <1>2, <2>1, <2>2 DEF WireTypeOK, locals
  <2>3. CASE /\ wire' = "searching" /\ answering' = present
             /\ id_bit_number' = 1 /\ last_zero' = 0
             /\ UNCHANGED <<LastDiscrepancy, LastDeviceFlag, given>>
    BY <1>0, <1>1, <2>1, <2>3 DEF WireTypeOK
  <2> QED BY <1>3, <2>2, <2>3 DEF SearchBegins
<1>4. ASSUME NEW id_bit \in {0, 1}, NEW cmp_id_bit \in {0, 1},
             SearchBit(id_bit, cmp_id_bit), NoFault \/ Fault
      PROVE  WireTypeOK'
  <2> DEFINE dir == Direction(id_bit, cmp_id_bit)
             z == LastZero(id_bit, cmp_id_bit)
             code == [ROM_NO EXCEPT ![id_bit_number] = dir]
  <2>1. present' = present
    BY <1>4 DEF SearchBit
  <2>2. dir \in {0, 1}
    BY <1>0 DEF Direction, Code
  <2>3. z \in 0 .. RomBits /\ code \in Code
    BY <1>0, <2>2 DEF LastZero, Code
  <2>4. CASE NotFound /\ UNCHANGED <<ROM_NO, locals>>
    BY <1>0, <1>1, <1>2, <1>4, <2>1, <2>4 DEF WireTypeOK, locals
  <2>5. CASE ROM_NO' = code /\ Finish(code, z) /\ UNCHANGED locals
    <3>1. CASE NotFound
      BY <1>0, <1>1, <1>2, <1>4, <2>1, <2>3, <2>5, <3>1 DEF WireTypeOK, locals
    <3>2. CASE /\ wire' = "found" /\ LastDiscrepancy' = z /\ LastDeviceFlag' = (z = 0)
               /\ given' = Append(given, code) /\ answering' = {}
      <4>1. given' \in Seq(Code)
        BY <1>0, <2>3, <3>2, AppendProperties
      <4> QED BY <1>0, <1>1, <1>4, <2>1, <2>3, <2>5, <3>2, <4>1 DEF WireTypeOK, locals
    <3> QED BY <2>5, <3>1, <3>2 DEF Finish
  <2>6. CASE /\ ROM_NO' = code /\ id_bit_number # RomBits
             /\ id_bit_number' = id_bit_number + 1 /\ last_zero' = z
             /\ answering' = {r \in answering : r[id_bit_number] = dir}
             /\ UNCHANGED <<wire, LastDiscrepancy, LastDeviceFlag, given>>
    BY <1>0, <1>1, <1>4, <2>1, <2>3, <2>6 DEF WireTypeOK
  <2> QED BY <1>4, <2>4, <2>5, <2>6 DEF SearchBit, Walk
<1>5. IdBit \in {0, 1} /\ CmpIdBit \in {0, 1}
  BY DEF IdBit, CmpIdBit, WiredAnd
<1> QED BY <1>3, <1>4, <1>5 DEF SearchStep

LEMMA KeptWireTypes ==
    ASSUME WireTypeOK, UNCHANGED wireVars
    PROVE  WireTypeOK'
BY DEF WireTypeOK, wireVars, searchState, locals

LEMMA CallerTypes ==
    ASSUME WireTypeOK, NEW next \in {"called", "free"}, Caller(next), faults' \in 0 .. MaxFaults
    PROVE  WireTypeOK'
BY DEF WireTypeOK, Caller, searchState, locals

LEMMA ResetTypes ==
    ASSUME WireTypeOK, ResetSearch, faults' \in 0 .. MaxFaults
    PROVE  WireTypeOK'
<1>1. RomBits \in Nat /\ NoCode \in Code
  BY OneWireAssumption DEF NoCode, Code
<1>2. UNCHANGED <<present, answering, id_bit_number, last_zero>>
  BY DEF ResetSearch, locals
<1>3. LastDiscrepancy' \in 0 .. RomBits
  BY <1>1 DEF ResetSearch
<1>4. /\ ROM_NO' \in Code /\ LastDeviceFlag' \in BOOLEAN /\ quiet' \in BOOLEAN
      /\ wire' \in {"free", "called", "searching", "found", "none"}
  BY <1>1, Zenon DEF ResetSearch
<1>5. given' \in Seq(Code)
  BY DEF ResetSearch
<1> QED BY <1>2, <1>3, <1>4, <1>5, Zenon DEF WireTypeOK

LEMMA ChangeTypes ==
    ASSUME WireTypeOK, Change
    PROVE  WireTypeOK'
<1>1. /\ MaxFaults \in Nat
      /\ UNCHANGED <<ROM_NO, LastDiscrepancy, LastDeviceFlag, id_bit_number, last_zero, wire, given>>
  BY OneWireAssumption DEF Change, searchState, locals
<1>2. present' \subseteq Roms /\ answering' \subseteq present'
  BY DEF WireTypeOK, Change
<1>3. faults' \in 0 .. MaxFaults
  BY <1>1 DEF WireTypeOK, Change, Fault, Misread
<1>4. quiet' \in BOOLEAN
  BY Zenon DEF Change, Fault
<1> QED BY <1>1, <1>2, <1>3, <1>4 DEF WireTypeOK

LEMMA ConnectedProbe ==
    ASSUME TypeOK, NEW code, NEW ok \in BOOLEAN, Connected(code, ok)
    PROVE  faults' \in 0 .. MaxFaults
<1>1. faults \in 0 .. MaxFaults /\ MaxFaults \in Nat
  BY OneWireAssumption DEF TypeOK, WireTypeOK
<1> QED BY <1>1 DEF Connected, Misread

(* Two answers of a probe: the bound on faults holds, and unless the result*)
(* is 0 it is neither below what it was nor below a probe read twice.      *)
LEMMA TwoAnswers ==
    ASSUME TypeOK, NEW code,
           NEW first \in {0, Resolution(code)}, NEW second \in {0, Resolution(code)},
           faults' = faults + Wrong(code, first) + Wrong(code, second), faults' <= MaxFaults
    PROVE  /\ faults' \in 0 .. MaxFaults
           /\ FinestRead(first, second) \in {0} \cup 9 .. 12
           /\ first # 0 /\ second # 0 => code \in Roms /\ resolution[code] <= FinestRead(first, second)
           /\ FinestRead(first, second) # 0 => bitResolution <= FinestRead(first, second)
<1>1. /\ faults \in 0 .. MaxFaults /\ present \subseteq Roms /\ resolution \in [Roms -> 9 .. 12]
      /\ MaxFaults \in Nat /\ bitResolution \in {0} \cup 9 .. 12
  BY OneWireAssumption DEF TypeOK, WireTypeOK
<1>2. faults' \in 0 .. MaxFaults
  BY <1>1 DEF Wrong
<1>3. CASE code \in present
  <2>1. Resolution(code) = resolution[code] /\ code \in Roms /\ resolution[code] \in 9 .. 12
    BY <1>1, <1>3 DEF Resolution
  <2> QED BY <1>1, <1>2, <2>1 DEF FinestRead
<1>4. CASE code \notin present
  <2>1. first = 0 /\ second = 0
    BY <1>4 DEF Resolution
  <2> QED BY <1>1, <1>2, <2>1 DEF FinestRead
<1> QED BY <1>3, <1>4

-----------------------------------------------------------------------------
(* The invariant.                                                          *)

IInv == TypeOK /\ ProbeInv /\ WalkInv

LEMMA ProbeTypes ==
    TypeOK => /\ resolution \in [Roms -> 9 .. 12] /\ converting \subseteq Roms
              /\ i \in 1 .. Len(TempProbes) + 1 /\ depth \in Nat
              /\ bitResolution \in {0} \cup 9 .. 12 /\ known \subseteq Roms
              /\ Len(TempProbes) \in Nat \ {0}
              /\ \A n \in 1 .. Len(TempProbes) : TempProbes[n] \in Roms
<1>1. Len(TempProbes) \in Nat \ {0} /\ \A n \in 1 .. Len(TempProbes) : TempProbes[n] \in Roms
  BY ProbesAssumption, LenProperties, EmptySeq, ElementOfSeq
<1> QED BY <1>1 DEF TypeOK

LEMMA InvInit ==
    ASSUME Init
    PROVE  IInv
<1>1. /\ RomBits \in Nat \ {0} /\ MaxFaults \in Nat /\ NoCode \in Code
      /\ Len(TempProbes) \in Nat \ {0}
  BY OneWireAssumption, ProbesAssumption, LenProperties, EmptySeq DEF NoCode, Code
<1>2. WireTypeOK
  <2>1. /\ present \subseteq Roms /\ answering \subseteq present /\ ROM_NO \in Code
        /\ LastDiscrepancy \in 0 .. RomBits /\ id_bit_number \in 1 .. RomBits
        /\ last_zero \in 0 .. RomBits /\ faults \in 0 .. MaxFaults /\ given \in Seq(Code)
    BY <1>1 DEF Init, WireInit
  <2>2. /\ LastDeviceFlag \in BOOLEAN /\ quiet \in BOOLEAN
        /\ wire \in {"free", "called", "searching", "found", "none"}
    BY Zenon DEF Init, WireInit
  <2> QED BY <2>1, <2>2, Zenon DEF WireTypeOK
<1>3. resolution \in [Roms -> 9 .. 12]
  BY ProbesAssumption DEF Init
<1>4. TypeOK
  BY <1>1, <1>2, <1>3 DEF Init, TypeOK
<1>5. ProbeInv
  BY <1>1 DEF Init, ProbeInv, ConversionsComplete
<1>6. given = <<>> /\ Len(given) = 0 /\ wire = "called" /\ LastDeviceFlag = FALSE /\ LastDiscrepancy = 0
  BY DEF Init, WireInit
<1>7. Known /\ Resumable
  BY <1>6 DEF Known, Given, Resumable
<1>8. WalkInv
  BY <1>6, <1>7 DEF WalkInv
<1> QED BY <1>4, <1>5, <1>8 DEF IInv

LEMMA InvNext ==
    ASSUME IInv, [Next]_vars
    PROVE  IInv'
<1>0. TypeOK /\ ProbeInv /\ WalkInv /\ WireTypeOK
  BY DEF IInv, TypeOK
<1>1. /\ resolution \in [Roms -> 9 .. 12] /\ converting \subseteq Roms
      /\ i \in 1 .. Len(TempProbes) + 1 /\ depth \in Nat
      /\ bitResolution \in {0} \cup 9 .. 12 /\ known \subseteq Roms
      /\ Len(TempProbes) \in Nat \ {0}
      /\ \A n \in 1 .. Len(TempProbes) : TempProbes[n] \in Roms
      /\ step \in {"begin", "set", "lookup", "request", "wait", "ready"}
      /\ faults \in 0 .. MaxFaults
  BY <1>0, ProbeTypes DEF TypeOK, WireTypeOK
<1>2. /\ step \in {"begin", "set", "lookup"} => i <= Len(TempProbes)
      /\ \A p \in known : resolution[p] <= bitResolution \/ resolution[p] = 10
      /\ step = "ready" /\ WaitedFor >= 10 => converting \cap known = {}
  BY <1>0 DEF ProbeInv, ConversionsComplete, WaitedFor
<1>3. CASE Search
  <2>1. WireTypeOK' /\ WalkInv' /\ UNCHANGED probeVars
    BY <1>0, <1>3, SearchTypes, SearchWalks DEF Search
  <2> QED BY <1>0, <2>1 DEF IInv, TypeOK, ProbeInv, ConversionsComplete, WaitedFor, probeVars
<1>4. CASE BeginFound
  <2>1. /\ step = "begin" /\ wire = "found" /\ Caller("called")
        /\ UNCHANGED <<resolution, converting, step, i, depth>>
    BY <1>4 DEF BeginFound
  <2>2. /\ faults' \in 0 .. MaxFaults /\ bitResolution' \in {0} \cup 9 .. 12 /\ known' \subseteq Roms
        /\ \A p \in known' : resolution[p] <= bitResolution' \/ resolution[p] = 10
    <3>1. CASE ROM_NO \in Genuine
      <4>1. PICK first \in {0, Resolution(ROM_NO)}, second \in {0, Resolution(ROM_NO)} :
                /\ faults' = faults + Wrong(ROM_NO, first) + Wrong(ROM_NO, second)
                /\ faults' <= MaxFaults
                /\ bitResolution' = FinestRead(first, second)
                /\ known' = IF bitResolution' = 0 THEN {}
                            ELSE known \cup {p \in {ROM_NO} : first # 0 /\ second # 0}
        BY <1>4, <3>1 DEF BeginFound
      <4>2. /\ faults' \in 0 .. MaxFaults /\ bitResolution' \in {0} \cup 9 .. 12
            /\ first # 0 /\ second # 0 => ROM_NO \in Roms /\ resolution[ROM_NO] <= bitResolution'
            /\ bitResolution' # 0 => bitResolution <= bitResolution'
        BY <1>0, <4>1, TwoAnswers
      <4>3. CASE bitResolution' = 0
        BY <4>1, <4>2, <4>3
      <4>4. CASE bitResolution' # 0
        <5>1. \A p \in known' : p \in known \/ (p = ROM_NO /\ first # 0 /\ second # 0)
          BY <4>1, <4>4
        <5>2. ASSUME NEW p \in known' PROVE p \in Roms /\ (resolution[p] <= bitResolution' \/ resolution[p] = 10)
          <6>1. CASE p \in known
            <7>1. p \in Roms /\ resolution[p] \in 9 .. 12 /\ (resolution[p] <= bitResolution \/ resolution[p] = 10)
              BY <1>1, <1>2, <6>1
            <7> QED BY <1>1, <4>2, <4>4, <7>1
          <6>2. CASE p = ROM_NO /\ first # 0 /\ second # 0
            BY <4>2, <6>2
          <6> QED BY <5>1, <6>1, <6>2
        <5> QED BY <4>2, <5>2
      <4> QED BY <4>3, <4>4
    <3>2. CASE ROM_NO \notin Genuine
      BY <1>1, <1>2, <1>4, <3>2 DEF BeginFound
    <3> QED BY <3>1, <3>2
  <2>3. WireTypeOK' /\ WalkInv'
    BY <1>0, <2>1, <2>2, CallerTypes, CallerWalks
  <2> QED BY <1>0, <1>1, <1>2, <2>1, <2>2, <2>3 DEF IInv, TypeOK, ProbeInv, ConversionsComplete, WaitedFor
<1>5. CASE BeginDone
  <2>1. /\ step = "begin" /\ step' = "set" /\ Caller("free")
        /\ UNCHANGED <<faults, resolution, converting, i, depth, bitResolution, known>>
    BY <1>5 DEF BeginDone
  <2>2. WireTypeOK' /\ WalkInv'
    BY <1>0, <1>1, <2>1, CallerTypes, CallerWalks
  <2> QED BY <1>1, <1>2, <2>1, <2>2 DEF IInv, TypeOK, ProbeInv, ConversionsComplete, WaitedFor
<1>6. CASE SetResolution
  <2>1. /\ step = "set" /\ step' = "lookup" /\ depth' = 0 /\ ResetSearch
        /\ UNCHANGED <<converting, i, bitResolution, known>>
    BY <1>6 DEF SetResolution
  <2>2. PICK ok \in BOOLEAN :
            /\ Connected(TempProbes[i], ok)
            /\ resolution' = IF ok THEN [resolution EXCEPT ![TempProbes[i]] = 10] ELSE resolution
    BY <1>6 DEF SetResolution
  <2>3. faults' \in 0 .. MaxFaults
    BY <1>0, <2>2, ConnectedProbe
  <2>4. /\ resolution' \in [Roms -> 9 .. 12]
        /\ \A p \in Roms : resolution'[p] = resolution[p] \/ resolution'[p] = 10
    <3>1. TempProbes[i] \in Roms
      BY <1>1, <1>2, <2>1
    <3>2. CASE ok
      BY <1>1, <2>2, <3>1, <3>2
    <3>3. CASE ~ok
      BY <1>1, <2>2, <3>3
    <3> QED BY <3>2, <3>3
  <2>5. WireTypeOK' /\ WalkInv'
    BY <1>0, <2>1, <2>3, ResetTypes, ResetWalks
  <2>6. \A p \in known' : resolution'[p] <= bitResolution' \/ resolution'[p] = 10
    BY <1>1, <1>2, <2>1, <2>4
  <2> QED BY <1>1, <1>2, <2>1, <2>4, <2>5, <2>6 DEF IInv, TypeOK, ProbeInv, ConversionsComplete, WaitedFor
<1>7. CASE LookupFound
  <2>1. /\ step = "lookup" /\ wire = "found" /\ depth' = depth + 1 /\ Caller("called")
        /\ UNCHANGED <<faults, resolution, converting, step, i, bitResolution, known>>
    BY <1>7 DEF LookupFound
  <2>2. WireTypeOK' /\ WalkInv'
    BY <1>0, <1>1, <2>1, CallerTypes, CallerWalks
  <2> QED BY <1>1, <1>2, <2>1, <2>2 DEF IInv, TypeOK, ProbeInv, ConversionsComplete, WaitedFor
<1>8. CASE LookupDone
  <2>1. /\ step = "lookup" /\ i' = i + 1 /\ Caller("free")
        /\ step' = IF i = Len(TempProbes) THEN "request" ELSE "set"
        /\ UNCHANGED <<faults, resolution, converting, depth, bitResolution, known>>
    BY <1>8 DEF LookupDone
  <2>2. WireTypeOK' /\ WalkInv'
    BY <1>0, <1>1, <2>1, CallerTypes, CallerWalks
  <2>3. /\ i' \in 1 .. Len(TempProbes) + 1 /\ step' \in {"set", "request"}
        /\ step' = "set" => i' <= Len(TempProbes)
    BY <1>1, <1>2, <2>1
  <2> QED BY <1>1, <1>2, <2>1, <2>2, <2>3 DEF IInv, TypeOK, ProbeInv, ConversionsComplete, WaitedFor
<1>9. CASE RequestTemperatures
  <2>1. /\ converting' = present /\ step' = "wait"
        /\ UNCHANGED <<wireVars, resolution, i, depth, bitResolution, known>>
    BY <1>9 DEF RequestTemperatures
  <2>2. WireTypeOK' /\ WalkInv' /\ present \subseteq Roms
    BY <1>0, <2>1, KeptWireTypes, KeptWalks DEF WireTypeOK
  <2> QED BY <1>1, <1>2, <2>1, <2>2 DEF IInv, TypeOK, ProbeInv, ConversionsComplete, WaitedFor
<1>10. CASE WaitIsOver
  <2>1. /\ converting' = {p \in converting : resolution[p] > WaitedFor} /\ step' = "ready"
        /\ UNCHANGED <<wireVars, resolution, i, depth, bitResolution, known>>
    BY <1>10 DEF WaitIsOver
  <2>2. WireTypeOK' /\ WalkInv'
    BY <1>0, <2>1, KeptWireTypes, KeptWalks
  <2>3. ASSUME WaitedFor' >= 10, NEW p \in converting' \cap known' PROVE FALSE
    <3>1. /\ p \in Roms /\ resolution[p] \in 9 .. 12 /\ resolution[p] > WaitedFor
          /\ resolution[p] <= bitResolution \/ resolution[p] = 10
      BY <1>1, <1>2, <2>1
    <3>2. WaitedFor \in 10 .. 12 /\ WaitedFor >= bitResolution
      BY <1>1, <2>1, <2>3 DEF WaitedFor
    <3> QED BY <1>1, <3>1, <3>2
  <2>4. ConversionsComplete'
    BY <2>3 DEF ConversionsComplete
  <2> QED BY <1>1, <1>2, <2>1, <2>2, <2>4 DEF IInv, TypeOK, ProbeInv
<1>11. CASE BusChange
  <2>1. /\ Change /\ converting' = converting \cap present'
        /\ UNCHANGED <<resolution, step, i, depth, bitResolution, known>>
    BY <1>11 DEF BusChange
  <2>2. WireTypeOK'
    BY <1>0, <2>1, ChangeTypes
  <2>3. WalkInv'
    BY <2>1 DEF Change, Fault, WalkInv
  <2> QED BY <1>1, <1>2, <2>1, <2>2, <2>3 DEF IInv, TypeOK, ProbeInv, ConversionsComplete, WaitedFor
<1>12. CASE UNCHANGED vars
  <2>1. UNCHANGED wireVars /\ UNCHANGED probeVars
    BY <1>12 DEF vars
  <2>2. WireTypeOK' /\ WalkInv'
    BY <1>0, <2>1, KeptWireTypes, KeptWalks
  <2> QED BY <1>0, <2>1, <2>2 DEF IInv, TypeOK, ProbeInv, ConversionsComplete, WaitedFor, probeVars
<1> QED BY <1>3, <1>4, <1>5, <1>6, <1>7, <1>8, <1>9, <1>10, <1>11, <1>12 DEF Next, Library

LEMMA Invariance == Spec => []IInv
<1>1. Init => IInv
  BY InvInit
<1>2. IInv /\ [Next]_vars => IInv'
  BY InvNext
<1> QED BY <1>1, <1>2, PTL DEF Spec

-----------------------------------------------------------------------------
(* The theorems.                                                           *)

(* The search state, the counters and the resolutions keep their types,    *)
(* whatever is misread and whenever a probe comes or goes.                 *)
THEOREM ProbesTypes == Spec => []TypeOK
<1>1. IInv => TypeOK
  BY DEF IInv
<1> QED BY <1>1, Invariance, PTL

(* On a bus that is left alone, OneWire::search called again and again     *)
(* gives every device once and in order, and then reports the end: for     *)
(* every length of the code and every set of devices.                      *)
THEOREM SearchIsComplete == Spec => []EachDeviceOnce
<1>1. IInv => EachDeviceOnce
  <2>1. IInv => WalkInv
    BY DEF IInv
  <2>2. WalkInv => EachDeviceOnce
    BY DEF WalkInv, Known, EachDeviceOnce
  <2> QED BY <2>1, <2>2
<1> QED BY <1>1, Invariance, PTL

(* requestTemperatures waits long enough for every probe begin has taken in*)
(* since it last misread a second answer, if one was at 10 bits or more.   *)
THEOREM ConversionsAreWaitedFor == Spec => []ConversionsComplete
<1>1. IInv => ConversionsComplete
  BY DEF IInv, ProbeInv
<1> QED BY <1>1, Invariance, PTL
=============================================================================
