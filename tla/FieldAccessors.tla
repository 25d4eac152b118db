--------------------------- MODULE FieldAccessors ---------------------------
(***************************************************************************)
(* The Set and Get functions of the subrecords, over a field's whole life: *)
(* a program sets values in an object, again and again, sends the object,  *)
(* and a receiver's Get shows what arrived.                                *)
(*                                                                         *)
(* Most accessors do the same with other numbers: bring the value into the *)
(* unit of the field, keep some of its bits (the upper ones through a mask *)
(* into a bit field) and treat the sign in one of a few ways. So each is a *)
(* record that says what it does, made by one of the operators below.      *)
(* Coordinates are counted in their own units, the 2^32nd part of a range: *)
(* that they are rounded to them is left out. Values are smaller than      *)
(* 2^31, and a field of 32 bits holds them all.                            *)
(*                                                                         *)
(* A field with a presence bit of its own is sent when its Set was called. *)
(* Where the program sets such a bit itself it is taken as set, and so is  *)
(* a number of a sensor as one of the eight there are.                     *)
(***************************************************************************)
EXTENDS Integers, Sequences

CONSTANT Values             \* the values a program sets, where the type allows them

ASSUME ValuesAssumption == Values \subseteq Int

(***************************************************************************)
(* Kinds of accessors. mask: how many bits the code takes of the number,   *)
(* width: for how many there is room. times and parts: the number is the   *)
(* value times the one, by the other, with up added before the division.   *)
(***************************************************************************)
U16  == << 0, 65535 >>
I16  == << -32768, 32767 >>
U32  == << 0, 2147483647 >>
Any  == << -2147483647, 2147483647 >>

Field(arg, mask, width) ==
  [ arg |-> arg, mask |-> mask, width |-> width, times |-> 1, parts |-> 1, up |-> 0,
    sign |-> "none", base |-> 0, always |-> TRUE, new |-> 0 ]

Split(mask, width)   == Field(U16, mask, width)
BlockNumber(width)   == [ Split(10, width) EXCEPT !.new = 1 ]
Tenths(mask, width)  == [ Split(mask, width) EXCEPT !.times = 10 ]
Signed(sign, width)  == [ Field(I16, width, width) EXCEPT !.sign = sign ]
Coordinate           == [ Field(Any, 32, 32) EXCEPT !.sign = "unsigned" ]
Sensor(width)        == [ Field(U32, width, width) EXCEPT !.always = FALSE ]
Seconds              == [ Field(U32, 32, 32) EXCEPT !.base = 1262304000 ]

(***************************************************************************)
(* The accessors, class by class.                                          *)
(***************************************************************************)
TECallMSD_Time          == Field(U32, 32, 32)
TECallMSD_Position      == Coordinate
TECallMSD_Course        == [ Field(U16, 8, 8) EXCEPT !.parts = 2 ]
TECallMSD_Delta         == [ Signed("swapped", 16) EXCEPT !.new = 32767 ]
TEPCompData_BlockNumber == Split(10, 9)
TEPSignData_BlockNumber == Split(10, 10)
TEPSignData_SignLength  == Split(14, 14)
TEPAccelData3_BlockNumber == BlockNumber(9)
TEPAccelData3_Time      == Seconds
TEPAccelData3_MSec      == Split(9, 10)
TEPAccelData3_RSA       == Split(9, 9)
TEPRelativeTrack_LonDelta == [ Signed("plus16", 14) EXCEPT !.arg = << -65535, 65535 >> ]
TEPRelativeTrack_LatDelta == [ Signed("plus16", 14) EXCEPT !.arg = << -65535, 65535 >> ]
TEPRelativeTrack_AltDelta == Signed("plus", 7)
TEPRelativeTrack_SpeedDelta == Tenths(10, 10)
TEPRelativeTrack_Course == Split(9, 9)
TEPTrackData_BlockNumber == BlockNumber(10)
TEPTrackData_Time       == Seconds
TEPTrackData_Position   == Coordinate
TEPTrackData_Altitude   == Signed("minus", 14)
TEPTrackData_Speed      == Tenths(13, 13)
TEPTrackData_Course     == Split(9, 9)
TEPMainData_BlockNumber == BlockNumber(10)
TEPMainData_MSec        == Split(10, 10)
TEPMainData_Time        == Seconds
TEPMainData_Position    == Coordinate
TEPMainData_Speed       == Tenths(13, 13)
TEPMainData_Course      == Split(9, 9)
TInsAccel_Time          == Seconds
TPosData_Time           == Seconds
TPosData_Longitude      == Coordinate
TPosData_Latitude       == [ Field(Any, 32, 32) EXCEPT !.sign = "south" ]
TPosData_Speed          == Tenths(14, 14)
TPosData_Course         == Split(9, 9)
TPosData_Odometer       == [ Field(U32, 24, 24) EXCEPT !.parts = 100, !.up = 50 ]
TPosData_Altitude       == [ Field(Any, 24, 24) EXCEPT !.sign = "beside", !.always = FALSE ]
TAdSensors_Din          == [ Sensor(8) EXCEPT !.arg = << 0, 255 >> ]
TAdSensors_Ain          == Sensor(24)
TCounters_Counter       == Sensor(24)

Fields ==
  { TECallMSD_Time, TECallMSD_Position, TECallMSD_Course, TECallMSD_Delta,
    TEPCompData_BlockNumber, TEPSignData_BlockNumber, TEPSignData_SignLength,
    TEPAccelData3_BlockNumber, TEPAccelData3_Time, TEPAccelData3_MSec, TEPAccelData3_RSA,
    TEPRelativeTrack_LonDelta, TEPRelativeTrack_LatDelta, TEPRelativeTrack_AltDelta,
    TEPRelativeTrack_SpeedDelta, TEPRelativeTrack_Course,
    TEPTrackData_BlockNumber, TEPTrackData_Time, TEPTrackData_Position,
    TEPTrackData_Altitude, TEPTrackData_Speed, TEPTrackData_Course,
    TEPMainData_BlockNumber, TEPMainData_MSec, TEPMainData_Time, TEPMainData_Position,
    TEPMainData_Speed, TEPMainData_Course,
    TInsAccel_Time, TPosData_Time, TPosData_Longitude, TPosData_Latitude, TPosData_Speed,
    TPosData_Course, TPosData_Odometer, TPosData_Altitude,
    TAdSensors_Din, TAdSensors_Ain, TCounters_Counter }

(***************************************************************************)
(* Set and Get of an object [n, flag, has]: the number, the bit of its     *)
(* sign and its presence bit.                                              *)
(***************************************************************************)
Abs(v) == IF v < 0 THEN -v ELSE v

Bits(n, w) == IF w = 32 THEN n ELSE n % 2 ^ w

(* Faulty: the upper bits are forgotten. *)
KeptLowByte(f, n) == n % 256

(* The bits of the mask that there is room for. *)
Kept(f, n) == Bits(Bits(n, f.mask), f.width)

(* In the unit of the field; an unsigned product has 16 bits. *)
InUnits(f, v) ==
  LET n == IF f.times = 1 THEN v ELSE Bits(v * f.times, 16)
  IN  IF v < f.base THEN 0 ELSE (n - f.base + f.up) \div f.parts

(* The numbers that may be stored. What a negative double becomes as a      *)
(* uint32_t is undefined; htonl leaves nothing of 16 bits but their sign.  *)
Stored(f, v) ==
  CASE f.sign = "none"   -> { Kept(f, InUnits(f, v)) }
    [] f.sign = "beside" -> { Kept(f, v) }
    [] f.sign = "swapped" -> { IF v < 0 THEN -1 ELSE 0 }
    [] f.sign = "unsigned" /\ v < 0 -> { 0, 2 ^ 30 }
    [] OTHER -> { Kept(f, Abs(v)) }

(* Faulty: the sign of a negative value is set and never taken back. *)
SignKept(f, v, old) ==
  \/ f.sign \in {"minus", "beside", "south"} /\ (old \/ v < 0)
  \/ f.sign \in {"plus", "plus16"} /\ v > 0

Sign(f, v, old) ==
  \/ f.sign \in {"minus", "beside"} /\ v < 0
  \/ f.sign \in {"plus", "plus16"} /\ v > 0
  \/ f.sign = "south" /\ (old \/ v < 0)

Get(f, o) ==
  LET n == o.n * f.parts
  IN  CASE f.sign \in {"minus", "beside"} /\ o.flag -> -n
        [] f.sign = "plus" /\ ~o.flag -> -n
        [] f.sign = "plus16" /\ ~o.flag -> Bits(-n, 16)
        [] OTHER -> f.base + (n + f.times \div 2) \div f.times

(* An object that was just constructed. *)
New(f) == [ n |-> f.new, flag |-> FALSE, has |-> f.always ]

(***************************************************************************)
(* The sender, the receiver and what a message told it.                    *)
(***************************************************************************)
VARIABLES field,
          here, there,      \* the object of the sender, and that of the receiver
          last,             \* the value set last in here: << >> or << v >>
          south,            \* whether any value set in it was negative
          told              \* last and south, when it was sent: << >> or << them >>

vars == <<field, here, there, last, south, told>>

Init ==
  /\ field \in Fields
  /\ here = New(field) /\ there = New(field)
  /\ last = << >> /\ south = FALSE /\ told = << >>

Set(v) ==
  /\ \E n \in Stored(field, v) :
       here' = [ n |-> n, flag |-> Sign(field, v, here.flag), has |-> TRUE ]
  /\ last' = << v >> /\ south' = (south \/ v < 0)
  /\ UNCHANGED <<field, there, told>>

(* GetData of the sender and SetSRD of the receiver: the bits travel, the   *)
(* number where its bit is set, and otherwise the receiver's stays.        *)
Send ==
  /\ there' = IF here.has THEN here ELSE [ here EXCEPT !.n = there.n ]
  /\ told' = << [ last |-> last, south |-> south ] >>
  /\ UNCHANGED <<field, here, last, south>>

(* Another object to send, which has none of the values. *)
NewSender ==
  /\ here' = New(field) /\ last' = << >> /\ south' = FALSE
  /\ UNCHANGED <<field, there, told>>

Next == Send \/ NewSender \/ \E v \in Values : v \in field.arg[1] .. field.arg[2] /\ Set(v)

Spec == Init /\ [][Next]_vars
-----------------------------------------------------------------------------
(* The values that should come back, by how the field is made: from the     *)
(* base on, as far as the bits go, in whole units, and negative ones where *)
(* there is a sign.                                                        *)
Fits(f, v) ==
  LET room == IF f.mask < f.width THEN f.mask ELSE f.width
      n    == v * f.times
  IN  CASE f.sign = "none" -> /\ v >= f.base /\ v % f.parts = 0
                              /\ room < 32 => n \div f.parts < 2 ^ room
        [] f.sign \in {"minus", "plus"} -> Abs(v) < 2 ^ room
        [] f.sign = "plus16" -> v \in 0 .. 2 ^ room - 1
        [] f.sign = "beside" -> v \in 0 .. 2 ^ room - 1 \/ v = -(2 ^ (room - 1))
        [] f.sign = "swapped" -> v \in {0, -1}
        [] OTHER -> v >= 0

(* A receiver reads the value that the sender had set last, however often  *)
(* it had set others, exactly if it fits: not if it is negative and the    *)
(* field is a coordinate, the altitude of TPosData or a delta of           *)
(* TEPRelativeTrack; hardly ever if it is a delta of TECallMSD, and in 9   *)
(* bits only if it is a block number of TEPCompData or TEPAccelData3 or    *)
(* milliseconds of the latter.                                             *)
ReadsBack ==
  \A t \in { told[i] : i \in DOMAIN told } : t.last # << >> =>
    (Get(field, there) = t.last[1] <=> Fits(field, t.last[1]))

(* The sign a receiver sees is that of the value set last, or of every     *)
(* value since the sender's object was made: a latitude once south stays   *)
(* south. And the presence bit says whether a value was set at all: one    *)
(* that was not is sent by none, although the receiver may read one that   *)
(* came from another object.                                               *)
BitsTell ==
  \A t \in { told[i] : i \in DOMAIN told } :
    /\ there.has <=> field.always \/ t.last # << >>
    /\ t.last # << >> =>
         /\ field.sign \in {"minus", "beside"} => (there.flag <=> t.last[1] < 0)
         /\ field.sign \in {"plus", "plus16"}  => (there.flag <=> t.last[1] > 0)
         /\ field.sign = "south" => (there.flag <=> t.south)
=============================================================================
