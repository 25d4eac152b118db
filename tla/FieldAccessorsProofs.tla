------------------------ MODULE FieldAccessorsProofs ------------------------
(***************************************************************************)
(* That the bits of a message tell what they should, and that Get gives    *)
(* back what Set was given where it can, for every set of values and every *)
(* accessor there is. What the receiver sees is what the sender's object   *)
(* held when it was sent, so the invariants say the same of both objects:  *)
(* of the one that is being filled, with its history, and of the one that  *)
(* was received, with the history that was sent.                           *)
(***************************************************************************)
EXTENDS FieldAccessors, TLAPS

(* What the bits of an object say, if v is the value set last, or << >>,    *)
(* and any says whether one was negative.                                  *)
Tell(f, o, v, any) ==
  /\ o.has <=> f.always \/ v # << >>
  /\ f.sign = "south" => (o.flag <=> any)
  /\ v # << >> =>
       /\ f.sign \in {"minus", "beside"} => (o.flag <=> v[1] < 0)
       /\ f.sign \in {"plus", "plus16"}  => (o.flag <=> v[1] > 0)

Told ==
  /\ here.flag \in BOOLEAN /\ south \in BOOLEAN
  /\ Tell(field, here, last, south)
  /\ told # << >> => /\ told = << told[1] >>
                     /\ Tell(field, there, told[1].last, told[1].south)

LEMMA NewTells ==
  ASSUME NEW f
  PROVE  Tell(f, New(f), << >>, FALSE)
BY DEF Tell, New

(* The bit of the sign, as Set leaves it. *)
LEMMA SetTells ==
  ASSUME NEW f, NEW v, NEW any \in BOOLEAN, NEW o, NEW n,
         o.flag \in BOOLEAN,
         f.sign = "south" => (o.flag <=> any)
  PROVE  Tell(f, [ n |-> n, flag |-> Sign(f, v, o.flag), has |-> TRUE ], << v >>, any \/ v < 0)
BY DEF Tell, Sign

LEMMA ToldFirst == Init => Told
<1> SUFFICES ASSUME Init
             PROVE  Told
  OBVIOUS
<1>1. Tell(field, here, last, south)
  BY NewTells DEF Init
<1> QED
  BY <1>1 DEF Init, Told, New

LEMMA ToldStep == Told /\ [Next]_vars => Told'
<1> SUFFICES ASSUME Told, [Next]_vars
             PROVE  Told'
  OBVIOUS
<1>1. CASE UNCHANGED vars
  BY <1>1 DEF Told, vars
<1>2. CASE Send
  <2>1. Tell(field, there', last, south)
    BY <1>2 DEF Send, Told, Tell
  <2>2. told' = << [ last |-> last, south |-> south ] >>
    BY <1>2 DEF Send
  <2>3. told'[1].last = last /\ told'[1].south = south
    BY <2>2
  <2> QED
    BY <1>2, <2>1, <2>2, <2>3 DEF Send, Told
<1>3. CASE NewSender
  <2>1. Tell(field, New(field), << >>, FALSE)
    BY NewTells DEF Told
  <2> QED
    BY <1>3, <2>1 DEF NewSender, Told, New
<1>4. ASSUME NEW v \in Values, Set(v)
      PROVE  Told'
  <2>1. PICK n : here' = [ n |-> n, flag |-> Sign(field, v, here.flag), has |-> TRUE ]
    BY <1>4 DEF Set
  <2>2. Tell(field, here', << v >>, south \/ v < 0)
    BY <2>1, SetTells DEF Told, Tell
  <2>3. Sign(field, v, here.flag) \in BOOLEAN
    BY DEF Sign, Told
  <2>4. here'.flag \in BOOLEAN
    BY <2>1, <2>3
  <2> QED
    BY <1>4, <2>2, <2>4 DEF Set, Told
<1> QED
  BY <1>1, <1>2, <1>3, <1>4 DEF Next

LEMMA ToldMeansBitsTell == Told => BitsTell
BY DEF Told, Tell, BitsTell

(* Whatever values are set, and however often before it is sent: a message  *)
(* carries the sign of the value set last - or, in a latitude, of any -    *)
(* and the presence bit says whether one was set.                          *)
THEOREM MessagesTell == Spec => []BitsTell
<1> QED
  BY ToldFirst, ToldStep, ToldMeansBitsTell, PTL DEF Spec
-----------------------------------------------------------------------------
(* Which values come back. Bears is what SetTells shows of the bit of the   *)
(* sign; Returns says that an accessor gives back, of all the values its    *)
(* type allows, exactly those that fit.                                     *)
Bears(f, v, b) ==
  /\ f.sign \in {"minus", "beside"} => (b <=> v < 0)
  /\ f.sign \in {"plus", "plus16"}  => (b <=> v > 0)

Returns(f) ==
  \A v \in f.arg[1] .. f.arg[2] : \A n \in Stored(f, v) : \A b \in BOOLEAN, h \in BOOLEAN :
    Bears(f, v, b) => (Get(f, [ n |-> n, flag |-> b, has |-> h ]) = v <=> Fits(f, v))

(* Numbers in two bit fields: two masks, of which the smaller one counts.   *)
LEMMA SplitsReturn ==
  /\ Returns(Split(10, 9)) /\ Returns(Split(10, 10)) /\ Returns(Split(14, 14))
  /\ Returns(Split(9, 10)) /\ Returns(Split(9, 9))
  /\ Returns(BlockNumber(9)) /\ Returns(BlockNumber(10))
<1>1. Returns(Split(10, 9))
  BY SMTT(20) DEF Split, U16, Field, Returns, Bears, Stored, Kept, Bits, InUnits, Get, Fits, Abs
<1>2. Returns(Split(10, 10))
  BY SMTT(20) DEF Split, U16, Field, Returns, Bears, Stored, Kept, Bits, InUnits, Get, Fits, Abs
<1>3. Returns(Split(14, 14))
  BY SMTT(20) DEF Split, U16, Field, Returns, Bears, Stored, Kept, Bits, InUnits, Get, Fits, Abs
<1>4. Returns(Split(9, 10))
  BY SMTT(20) DEF Split, U16, Field, Returns, Bears, Stored, Kept, Bits, InUnits, Get, Fits, Abs
<1>5. Returns(Split(9, 9))
  BY SMTT(20) DEF Split, U16, Field, Returns, Bears, Stored, Kept, Bits, InUnits, Get, Fits, Abs
<1>6. Returns(BlockNumber(9))
  BY SMTT(20) DEF BlockNumber, Split, U16, Field, Returns, Bears, Stored, Kept, Bits, InUnits, Get, Fits, Abs
<1>7. Returns(BlockNumber(10))
  BY SMTT(20) DEF BlockNumber, Split, U16, Field, Returns, Bears, Stored, Kept, Bits, InUnits, Get, Fits, Abs
<1> QED
  BY <1>1, <1>2, <1>3, <1>4, <1>5, <1>6, <1>7

(* Speeds: the product wraps in 16 bits before bits are cut off, and five   *)
(* is added before the division of the receiver.                            *)
LEMMA TenthsReturn ==
  Returns(Tenths(10, 10)) /\ Returns(Tenths(13, 13)) /\ Returns(Tenths(14, 14))
<1>1. Returns(Tenths(10, 10))
  BY SMTT(20) DEF Tenths, Split, U16, Field, Returns, Bears, Stored, Kept, Bits, InUnits, Get, Fits, Abs
<1>2. Returns(Tenths(13, 13))
  BY SMTT(20) DEF Tenths, Split, U16, Field, Returns, Bears, Stored, Kept, Bits, InUnits, Get, Fits, Abs
<1>3. Returns(Tenths(14, 14))
  BY SMTT(20) DEF Tenths, Split, U16, Field, Returns, Bears, Stored, Kept, Bits, InUnits, Get, Fits, Abs
<1> QED
  BY <1>1, <1>2, <1>3

(* Numbers of 32 bits, seconds since 2010 and the sensors.                  *)
LEMMA NumbersReturn ==
  /\ Returns(TECallMSD_Time) /\ Returns(Seconds)
  /\ Returns(TAdSensors_Din) /\ Returns(Sensor(24))
<1>1. Returns(TECallMSD_Time)
  BY SMTT(20) DEF TECallMSD_Time, U32, Field, Returns, Bears, Stored, Kept, Bits, InUnits, Get, Fits, Abs
<1>2. Returns(Seconds)
  BY SMTT(20) DEF Seconds, U32, Field, Returns, Bears, Stored, Kept, Bits, InUnits, Get, Fits, Abs
<1>3. Returns(TAdSensors_Din)
  BY SMTT(20) DEF TAdSensors_Din, Sensor, U32, Field, Returns, Bears, Stored, Kept, Bits, InUnits, Get, Fits, Abs
<1>4. Returns(Sensor(24))
  BY SMTT(20) DEF Sensor, U32, Field, Returns, Bears, Stored, Kept, Bits, InUnits, Get, Fits, Abs
<1> QED
  BY <1>1, <1>2, <1>3, <1>4

(* Coordinates and altitudes: the number is that of the absolute value.     *)
LEMMA SignsReturn ==
  /\ Returns(Coordinate) /\ Returns(TPosData_Latitude) /\ Returns(TPosData_Altitude)
  /\ Returns(TEPTrackData_Altitude) /\ Returns(TEPRelativeTrack_AltDelta)
  /\ Returns(TEPRelativeTrack_LonDelta) /\ Returns(TECallMSD_Delta)
<1>1. Returns(Coordinate)
  BY SMTT(20) DEF Coordinate, Any, Field, Returns, Bears, Stored, Kept, Bits, InUnits, Get, Fits, Abs
<1>2. Returns(TPosData_Latitude)
  BY SMTT(20) DEF TPosData_Latitude, Any, Field, Returns, Bears, Stored, Kept, Bits, InUnits, Get, Fits, Abs
<1>3. Returns(TPosData_Altitude)
  BY SMTT(20) DEF TPosData_Altitude, Any, Field, Returns, Bears, Stored, Kept, Bits, InUnits, Get, Fits, Abs
<1>4. Returns(TEPTrackData_Altitude)
  BY SMTT(20) DEF TEPTrackData_Altitude, Signed, I16, Field, Returns, Bears, Stored, Kept, Bits, InUnits, Get, Fits, Abs
<1>5. Returns(TEPRelativeTrack_AltDelta)
  BY SMTT(20) DEF TEPRelativeTrack_AltDelta, Signed, I16, Field, Returns, Bears, Stored, Kept, Bits, InUnits, Get, Fits, Abs
<1>6. Returns(TEPRelativeTrack_LonDelta)
  BY SMTT(20) DEF TEPRelativeTrack_LonDelta, Signed, Field, Returns, Bears, Stored, Kept, Bits, InUnits, Get, Fits, Abs
<1>7. Returns(TECallMSD_Delta)
  BY SMTT(20) DEF TECallMSD_Delta, Signed, I16, Field, Returns, Bears, Stored, Kept, Bits, InUnits, Get, Fits, Abs
<1> QED
  BY <1>1, <1>2, <1>3, <1>4, <1>5, <1>6, <1>7

(* Fields in units of more than one: what is not a multiple is lost, and    *)
(* what is cut off above leaves a smaller number.                           *)
LEMMA HalvesReturn ==
  ASSUME NEW v \in Nat, NEW m \in Nat, m > 0
  PROVE  ((v \div 2) % m) * 2 = v <=> v % 2 = 0 /\ v \div 2 < m
<1> DEFINE q == v \div 2
           n == q % m
<1>1. q \in Nat /\ (q * 2 = v <=> v % 2 = 0) /\ q * 2 <= v
  BY SMT
<1> HIDE DEF q
<1>2. n \in Nat /\ n <= q /\ (n = q <=> q < m)
  BY <1>1, SMT
<1> HIDE DEF n
<1>3. n * 2 = v <=> v % 2 = 0 /\ q < m
  BY <1>1, <1>2, SMT
<1> QED
  BY <1>3, Zenon DEF n, q

LEMMA HundredthsReturn ==
  ASSUME NEW v \in Nat, NEW m \in Nat, m > 0
  PROVE  (((v + 50) \div 100) % m) * 100 = v <=> v % 100 = 0 /\ v \div 100 < m
<1> DEFINE q == (v + 50) \div 100
           n == q % m
<1>1. /\ q \in Nat /\ (q * 100 = v <=> v % 100 = 0) /\ q * 100 <= v + 50
      /\ v % 100 = 0 => v \div 100 = q
  BY SMT
<1> HIDE DEF q
<1>2. n \in Nat /\ n <= q /\ (n = q <=> q < m)
  BY <1>1, SMT
<1> HIDE DEF n
<1>3. n * 100 = v <=> v % 100 = 0 /\ v \div 100 < m
  BY <1>1, <1>2, SMT
<1> QED
  BY <1>3, Zenon DEF n, q

(* Such a field, with m numbers. *)
InParts(f, m) ==
  /\ f.sign = "none" /\ f.times = 1 /\ f.base = 0
  /\ f.width \in Nat /\ f.width < 32 /\ f.mask = f.width /\ 2 ^ f.width = m
  /\ \/ f.parts = 2 /\ f.up = 0
     \/ f.parts = 100 /\ f.up = 50

LEMMA PartsReturn ==
  ASSUME NEW f, NEW m \in Nat, m > 0, InParts(f, m),
         NEW v \in Nat, NEW n \in Stored(f, v), NEW b, NEW h
  PROVE  Get(f, [ n |-> n, flag |-> b, has |-> h ]) = v <=> Fits(f, v)
<1> USE DEF InParts
<1> DEFINE q == (v + f.up) \div f.parts
<1>1. q \in Nat
  BY SMT
<1>2. n = (q % m) % m
  BY SMT DEF Stored, Kept, Bits, InUnits
<1>3. Get(f, [ n |-> n, flag |-> b, has |-> h ]) = f.base + (n * f.parts + f.times \div 2) \div f.times
  BY SMT DEF Get
<1> HIDE DEF q
<1>4. n = q % m /\ n \in Nat
  BY <1>1, <1>2, SMT
<1>5. Get(f, [ n |-> n, flag |-> b, has |-> h ]) = n * f.parts
  BY <1>3, <1>4, SMT
<1>6. Fits(f, v) <=> v % f.parts = 0 /\ v \div f.parts < m
  <2> DEFINE width == IF f.mask < f.width THEN f.mask ELSE f.width
  <2>1. width = f.width /\ v * f.times = v
    BY SMT
  <2>2. 2 ^ width = m
    BY <2>1
  <2>3. Fits(f, v) <=> /\ v >= f.base /\ v % f.parts = 0
                       /\ width < 32 => (v * f.times) \div f.parts < 2 ^ width
    BY Zenon DEF Fits
  <2> HIDE DEF width
  <2> QED
    BY <2>1, <2>2, <2>3, SMT
<1>7. CASE f.parts = 2
  <2>1. q = v \div 2
    BY <1>7, SMT DEF q
  <2> QED
    BY <1>4, <1>5, <1>6, <1>7, <2>1, HalvesReturn
<1>8. CASE f.parts = 100
  <2>1. q = (v + 50) \div 100
    BY <1>8, SMT DEF q
  <2> QED
    BY <1>4, <1>5, <1>6, <1>8, <2>1, HundredthsReturn
<1> QED
  BY <1>7, <1>8, SMT

(* The course of TECallMSD, in steps of two degrees. *)
LEMMA CourseReturns == Returns(TECallMSD_Course)
<1> DEFINE f == TECallMSD_Course
<1> DEFINE m == 2 ^ 8
<1>1. InParts(f, m)
  BY SMT DEF TECallMSD_Course, Field, InParts
<1>2. m \in Nat /\ m > 0
  BY SMT
<1>3. \A v \in f.arg[1] .. f.arg[2] : v \in Nat
  BY SMT DEF TECallMSD_Course, Field, U16
<1> HIDE DEF f, m
<1>4. ASSUME NEW v \in f.arg[1] .. f.arg[2], NEW n \in Stored(f, v), NEW b \in BOOLEAN, NEW h \in BOOLEAN
      PROVE  Get(f, [ n |-> n, flag |-> b, has |-> h ]) = v <=> Fits(f, v)
  <2>1. v \in Nat
    BY <1>3
  <2> QED
    BY <1>1, <1>2, <2>1, PartsReturn, Zenon
<1>5. Returns(f)
  BY <1>4 DEF Returns
<1> QED
  BY <1>5 DEF f

(* The odometer, in hundreds, rounded. *)
LEMMA OdometerReturns == Returns(TPosData_Odometer)
<1> DEFINE f == TPosData_Odometer
<1> DEFINE m == 2 ^ 24
<1>1. InParts(f, m)
  BY SMT DEF TPosData_Odometer, Field, InParts
<1>2. m \in Nat /\ m > 0
  BY SMT
<1>3. \A v \in f.arg[1] .. f.arg[2] : v \in Nat
  BY SMT DEF TPosData_Odometer, Field, U32
<1> HIDE DEF f, m
<1>4. ASSUME NEW v \in f.arg[1] .. f.arg[2], NEW n \in Stored(f, v), NEW b \in BOOLEAN, NEW h \in BOOLEAN
      PROVE  Get(f, [ n |-> n, flag |-> b, has |-> h ]) = v <=> Fits(f, v)
  <2>1. v \in Nat
    BY <1>3
  <2> QED
    BY <1>1, <1>2, <2>1, PartsReturn, Zenon
<1>5. Returns(f)
  BY <1>4 DEF Returns
<1> QED
  BY <1>5 DEF f

(* Every accessor there is. *)
LEMMA AllReturn == \A f \in Fields : Returns(f)
BY SplitsReturn, TenthsReturn, NumbersReturn, SignsReturn, CourseReturns, OdometerReturns
   DEF Fields, TECallMSD_Position, TEPCompData_BlockNumber, TEPSignData_BlockNumber,
       TEPSignData_SignLength, TEPAccelData3_BlockNumber, TEPAccelData3_Time, TEPAccelData3_MSec,
       TEPAccelData3_RSA, TEPRelativeTrack_LonDelta, TEPRelativeTrack_LatDelta,
       TEPRelativeTrack_SpeedDelta, TEPRelativeTrack_Course, TEPTrackData_BlockNumber,
       TEPTrackData_Time, TEPTrackData_Position, TEPTrackData_Speed, TEPTrackData_Course,
       TEPMainData_BlockNumber, TEPMainData_MSec, TEPMainData_Time, TEPMainData_Position,
       TEPMainData_Speed, TEPMainData_Course, TInsAccel_Time, TPosData_Time, TPosData_Longitude,
       TPosData_Speed, TPosData_Course, TAdSensors_Ain, TCounters_Counter
-----------------------------------------------------------------------------
(* What Get says of an object, if v is the value set last, or << >>. *)
Back(f, o, v) == v # << >> => (o.has = TRUE /\ (Get(f, o) = v[1] <=> Fits(f, v[1])))

ReadInv ==
  /\ field \in Fields /\ Told
  /\ Back(field, here, last)
  /\ told # << >> => told = << told[1] >> /\ Back(field, there, told[1].last)

(* A new object has no value to give back; Set leaves one that returns. *)
LEMMA ReadFirst == Init => ReadInv
BY ToldFirst DEF Init, ReadInv, Back

LEMMA ReadStep == ReadInv /\ [Next]_vars => ReadInv'
<1> SUFFICES ASSUME ReadInv, [Next]_vars
             PROVE  ReadInv'
  OBVIOUS
<1>0. Told' /\ field' = field
  BY ToldStep DEF ReadInv, Next, vars, Send, NewSender, Set
<1>1. CASE UNCHANGED vars
  BY <1>0, <1>1 DEF ReadInv, vars
<1>2. CASE Send
  <2>1. told' = << [ last |-> last, south |-> south ] >>
    BY <1>2 DEF Send
  <2>2. told'[1].last = last
    BY <2>1
  <2>3. Back(field, there', last)
    BY <1>2 DEF Send, ReadInv, Back
  <2> QED
    BY <1>0, <1>2, <2>1, <2>2, <2>3 DEF Send, ReadInv
<1>3. CASE NewSender
  BY <1>0, <1>3 DEF NewSender, ReadInv, Back
<1>4. ASSUME NEW v \in Values, v \in field.arg[1] .. field.arg[2], Set(v)
      PROVE  ReadInv'
  <2>1. PICK n \in Stored(field, v) :
          here' = [ n |-> n, flag |-> Sign(field, v, here.flag), has |-> TRUE ]
    BY <1>4 DEF Set
  <2>2. Sign(field, v, here.flag) \in BOOLEAN /\ Bears(field, v, Sign(field, v, here.flag))
    BY DEF Sign, Bears
  <2>3. Returns(field)
    BY AllReturn DEF ReadInv
  <2>4. Get(field, here') = v <=> Fits(field, v)
    BY <1>4, <2>1, <2>2, <2>3 DEF Returns
  <2>5. here'.has = TRUE
    BY <2>1
  <2>6. Back(field, here', << v >>)
    BY <2>4, <2>5 DEF Back
  <2> QED
    BY <1>0, <1>4, <2>6 DEF Set, ReadInv
<1> QED
  BY <1>1, <1>2, <1>3, <1>4 DEF Next

LEMMA ReadMeansReadsBack == ReadInv => ReadsBack
BY DEF ReadInv, Back, ReadsBack

(* Of any values, set and sent any number of times through any accessor, a  *)
(* receiver reads exactly those that fit: the masks, the products that wrap *)
(* and the signs lose the others and no more.                               *)
THEOREM ValuesComeBack == Spec => []ReadsBack
<1> QED
  BY ReadFirst, ReadStep, ReadMeansReadsBack, PTL DEF Spec
=============================================================================
