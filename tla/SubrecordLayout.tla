-------------------------- MODULE SubrecordLayout --------------------------
(***************************************************************************)
(* What the GetData and SetSRD of every TSubrecord class do with the bytes *)
(* of a subrecord, one pair of operators for a class, named as in the code.*)
(*                                                                         *)
(* X_GetData(o)    size, the number written to *size before the header is  *)
(*                 added; parts, what is copied into the buffer, in order  *)
(* X_SetSRD(o, n)  items, what is read of n bytes that begin as the object *)
(*                 o was written; whole, whether *ppos is n and not pos    *)
(*                                                                         *)
(* An object is represented by what its layout depends on:                 *)
(*   class                                                                 *)
(*   flags   the names of the presence bits (and conditions) that hold     *)
(*   var     the length of the data of variable length                     *)
(*   list    the elements of its list, or the digits of its bit masks      *)
(* An item of SetSRD needs so many bytes behind pos (else it returns 0),   *)
(* keeps so many of them in its field, and moves pos by skip.              *)
(***************************************************************************)
EXTENDS SequenceSums, SequencesExt

CONSTANT Capacity           \* how many elements a counter can count, by name:
                            \* 2^8 sa, 2^9 rsa (accel), 2^8 rsa (track), 2^3 lbsn, 2^8 epevc

Counters == {"sd", "ad", "rt", "station", "event"}
ASSUME CapacityAssumption == Capacity \in [ Counters -> Nat \ {0} ]

MaxU16 == 65536             \* uint16_t is taken modulo this
U16(n) == n % MaxU16

(***************************************************************************)
(* Notation for the tables.                                                *)
(***************************************************************************)
Sure(b) == IF b THEN 1 ELSE 0                       \* a presence bit in a sum
When(b, s) == IF b THEN s ELSE << >>
NthPart(f, i, n) == << [ field |-> f, nth |-> i, bytes |-> n ] >>
Part(f, n) == NthPart(f, 0, n)
NthRead(f, i, n) == << [ field |-> f, nth |-> i, need |-> n, keep |-> n, skip |-> n ] >>
Read(f, n) == NthRead(f, 0, n)
(* A field that is taken without a check, or not taken though it is passed. *)
Loose(f, keep, skip) ==
  << [ field |-> f, nth |-> 0, need |-> 0, keep |-> keep, skip |-> skip ] >>
(* A check of the size in front of several fields. *)
Check(n) == << [ field |-> "none", nth |-> 0, need |-> n, keep |-> 0, skip |-> 0 ] >>
(* An item that does not check anything finds its bytes anywhere. *)
Fits(i, at, n) == i.need = 0 \/ at + i.need <= n

Least(a, b) == IF a < b THEN a ELSE b
(* The bytes of the parts, and how far the items move pos. *)
Bytes(parts)   == Total([ i \in DOMAIN parts |-> parts[i].bytes ])
Skipped(items) == Total([ i \in DOMAIN items |-> items[i].skip ])
Rest(n, items) == IF n > Skipped(items) THEN n - Skipped(items) ELSE 0
Each(list, Op(_)) == FlattenSeq([ i \in DOMAIN list |-> Op(i) ])
(* The loop over a counter of the data sees the count modulo its capacity. *)
Counted(list, name) == SubSeq(list, 1, Len(list) % Capacity[name])
SumOf(list, Op(_)) == Total([ i \in DOMAIN list |-> Op(list[i]) ])

Wrote(size, parts) == [ size |-> U16(size), parts |-> parts ]
Reads(items) == [ items |-> items, whole |-> FALSE ]
ReadsAll(items) == [ items |-> items, whole |-> TRUE ]

(* The classes with nothing but a body of fixed size. *)
BodySize == [ TRecResp |-> 3, TAuthParams |-> 1, TServiceInfo |-> 3,
              TVehicleData |-> 25, TResultCode |-> 1, TStateData |-> 5 ]
Body_GetData(o) == Wrote(BodySize[o.class], Part("body", BodySize[o.class]))
(* Faulty: the size is not compared with the body's. *)
Body_SetSRDUnchecked(o, n) ==
  Reads(Loose("body", Least(n, BodySize[o.class]), BodySize[o.class]))
Body_SetSRD(o, n) == Reads(Read("body", BodySize[o.class]))

(***************************************************************************)
(* Commands and eCall.                                                     *)
(***************************************************************************)
TCommandData_GetData(o) ==
  LET acl == o.list[1].size
  IN  Wrote(10 + Sure("chsfe" \in o.flags) + o.var
              + (IF "acfe" \in o.flags THEN acl + 1 ELSE 0)
              + (IF "COMCONF" \in o.flags THEN 4 ELSE 5 * Sure("COM" \in o.flags)),
            Part("head", 10)
              \o When("chsfe" \in o.flags, Part("chs", 1))
              \o When("acfe" \in o.flags, Part("acl", 1) \o Part("ac", acl))
              \o When("COMCONF" \in o.flags, Part("confirmation", 4))
              \o When("COM" \in o.flags, Part("command", 5))
              \o When(o.var > 0, Part("cd", o.var)))
TCommandData_SetSRD(o, n) ==
  LET items == Read("head", 10)
                 \o When("chsfe" \in o.flags, Read("chs", 1))
                 \o When("acfe" \in o.flags, Read("acl", 1) \o Read("ac", o.list[1].size))
                 \o When("COMCONF" \in o.flags, Read("confirmation", 4))
                 \o When("COM" \in o.flags, Read("command", 5))
      rest == Rest(n, items)
  IN  Reads(items \o When(rest > 0, Read("cd", rest)))

TECallRawMSD_GetData(o) ==
  Wrote(o.var + 1, Part("fm", 1) \o When(o.var > 0, Part("msd", o.var)))
(* Neither of the two is checked; size - 1 of no byte is 65535. *)
TECallRawMSD_SetSRD(o, n) ==
  LET rest == U16(n - 1 + MaxU16)
  IN  ReadsAll(Loose("fm", 1, 1) \o When(rest > 0, Loose("msd", rest, rest)))

(* The optional fields are sent up to the last one that has a value. *)
OptSize(o) ==
  IF o.var > 0 \/ "nop" \in o.flags THEN 9
  ELSE IF "lond2" \in o.flags THEN 8
  ELSE IF "latd2" \in o.flags THEN 6
  ELSE IF "lond1" \in o.flags THEN 4
  ELSE IF "latd1" \in o.flags THEN 2
  ELSE 0
TECallMSD_GetData(o) ==
  Wrote(34 + OptSize(o) + o.var,
        Part("head", 34) \o When(OptSize(o) > 0, Part("bf", OptSize(o)))
          \o When(o.var > 0, Part("additional", o.var)))
TECallMSD_SetSRD(o, n) ==
  LET head == Read("head", 34)
      bf   == When(Rest(n, head) > 0, Read("bf", Least(9, Rest(n, head))))
      rest == Rest(n, head \o bf)
  IN  Reads(head \o bf \o When(rest > 0, Read("additional", Least(56, rest))))

(***************************************************************************)
(* Europrotocol.                                                           *)
(***************************************************************************)
TEPCompData_GetData(o) ==
  Wrote(5 + o.var, Part("head", 5) \o When(o.var > 0, Part("cd", o.var)))
(* Faulty: cdl is believed. *)
TEPCompData_SetSRDUnchecked(o, n) ==
  Reads(Read("head", 5) \o When(o.var > 0, Loose("cd", o.var, o.var)))
TEPCompData_SetSRD(o, n) ==
  Reads(Read("head", 5) \o When(o.var > 0, Read("cd", o.var)))

TEPSignature_GetData(o) ==
  Wrote(2 + SumOf(o.list, LAMBDA e : 9 + e.size),
        Part("ver", 1) \o Part("sa", 1)
          \o Each(o.list, LAMBDA i :
               NthPart("sd.head", i, 9)
                 \o When(o.list[i].size > 0, NthPart("sd", i, o.list[i].size))))
(* A signature of no bytes is passed and not added to the list. *)
TEPSignature_SetSRD(o, n) ==
  Reads(Check(2) \o Read("ver", 1) \o Read("sa", 1)
          \o Each(Counted(o.list, "sd"), LAMBDA i :
               IF o.list[i].size = 0
               THEN << [ field |-> "sd.head", nth |-> i, need |-> 9, keep |-> 0, skip |-> 9 ] >>
               ELSE NthRead("sd.head", i, 9) \o NthRead("sd", i, o.list[i].size)))

TEPAccelData3_GetData(o) ==
  Wrote(15 + SumOf(o.list, LAMBDA e : 1 + 6 * Sure("rst" \notin e.flags)),
        Part("head", 15)
          \o Each(o.list, LAMBDA i :
               NthPart("ad.head", i, 1)
                 \o When("rst" \notin o.list[i].flags, NthPart("ads", i, 6))))
TEPAccelData3_SetSRD(o, n) ==
  Reads(Read("head", 15)
          \o Each(Counted(o.list, "ad"), LAMBDA i :
               NthRead("ad.head", i, 1)
                 \o When("rst" \notin o.list[i].flags, NthRead("ads", i, 6))))

TEPTrackData_GetData(o) ==
  LET Long(e, f) == "rst" \in e.flags /\ f \in e.flags
  IN  Wrote(8 + 12 * Sure("tde" \in o.flags)
              + SumOf(o.list, LAMBDA e : 1 + 5 * Sure("rst" \in e.flags)
                                           + Sure(Long(e, "spde")) + Sure(Long(e, "alte"))),
            Part("head", 8) \o When("tde" \in o.flags, Part("tds", 12))
              \o Each(o.list, LAMBDA i :
                   NthPart("rt.head", i, 1)
                     \o When("rst" \in o.list[i].flags, NthPart("rt.body", i, 5))
                     \o When(Long(o.list[i], "spde"), NthPart("rt.spdl", i, 1))
                     \o When(Long(o.list[i], "alte"), NthPart("rt.alt", i, 1))))
TEPTrackData_SetSRD(o, n) ==
  LET Long(e, f) == "rst" \in e.flags /\ f \in e.flags
  IN  Reads(Read("head", 8) \o When("tde" \in o.flags, Read("tds", 12))
              \o Each(Counted(o.list, "rt"), LAMBDA i :
                   NthRead("rt.head", i, 1)
                     \o When("rst" \in o.list[i].flags, NthRead("rt.body", i, 5))
                     \o When(Long(o.list[i], "spde"), NthRead("rt.spdl", i, 1))
                     \o When(Long(o.list[i], "alte"), NthRead("rt.alt", i, 1))))

(* list[1] and list[2] hold the numbers of stations and of events. All     *)
(* stations are copied, but room is made for as many as lbsn says.         *)
Stations(o) == o.list[1].size
Lbsn(o)     == Stations(o) % Capacity["station"]
Epevc(o)    == o.list[2].size % Capacity["event"]
TEPMainData_GetData(o) ==
  Wrote(17 + 13 * Sure("locp" \in o.flags) + 10 * Lbsn(o)
           + (IF Epevc(o) > 0 THEN 1 + 4 * Epevc(o) ELSE 0),
        Part("head", 17) \o When("locp" \in o.flags, Part("location", 13))
          \o FlattenSeq([ i \in 1 .. Stations(o) |-> NthPart("station", i, 10) ])
          \o When(Epevc(o) > 0, Part("epevc", 1))
          \o FlattenSeq([ i \in 1 .. Epevc(o) |-> NthPart("event", i, 4) ]))
(* Of the four bytes of an event only the first is kept. *)
TEPMainData_SetSRD(o, n) ==
  Reads(Read("head", 17) \o When("locp" \in o.flags, Read("location", 13))
          \o When(Lbsn(o) > 0, Check(10 * Lbsn(o)))
          \o FlattenSeq([ i \in 1 .. Lbsn(o) |-> NthRead("station", i, 10) ])
          \o When(Epevc(o) > 0, Read("epevc", 1) \o Check(4 * Epevc(o)))
          \o FlattenSeq([ i \in 1 .. Epevc(o) |->
               << [ field |-> "event", nth |-> i, need |-> 0, keep |-> 1, skip |-> 4 ] >> ]))

(***************************************************************************)
(* Authentication.                                                         *)
(***************************************************************************)
(* Faulty: the last field of the terminal is forgotten in GetSize. *)
TermSizeWithoutMsisdn(o) ==
  5 + 2 * Sure("hdide" \in o.flags) + 15 * Sure("imeie" \in o.flags)
    + 16 * Sure("imsie" \in o.flags) + 3 * Sure("lngce" \in o.flags)
    + 3 * Sure("nide" \in o.flags) + 2 * Sure("bse" \in o.flags)
TermSize(o) ==
  5 + 2 * Sure("hdide" \in o.flags) + 15 * Sure("imeie" \in o.flags)
    + 16 * Sure("imsie" \in o.flags) + 3 * Sure("lngce" \in o.flags)
    + 3 * Sure("nide" \in o.flags) + 2 * Sure("bse" \in o.flags) + 15 * Sure("mne" \in o.flags)
TermFields(o, Op(_, _)) ==
  When("hdide" \in o.flags, Op("hdid", 2)) \o When("imeie" \in o.flags, Op("imei", 15))
    \o When("imsie" \in o.flags, Op("imsi", 16)) \o When("lngce" \in o.flags, Op("lngc", 3))
    \o When("nide" \in o.flags, Op("nid", 3)) \o When("bse" \in o.flags, Op("bs", 2))
TermParts(o) ==
  Part("head", 5) \o TermFields(o, Part) \o When("mne" \in o.flags, Part("msisdn", 15))
(* memcpy to the data instead of to msisdn: the field keeps its own value. *)
TermItems(o) ==
  Read("head", 5) \o Check(TermSize(o) - 5) \o TermFields(o, LAMBDA f, n : Loose(f, n, n))
    \o When("mne" \in o.flags, Loose("msisdn", 0, 15))
TTermIdent_GetData(o) == Wrote(TermSize(o), TermParts(o))
TTermIdent_SetSRD(o, n) == Reads(TermItems(o))

TTermIdent2_GetData(o) ==
  Wrote(TermSize(o) + 1 + 19 * Sure("icce" \in o.flags),
        TermParts(o) \o Part("flags", 1) \o When("icce" \in o.flags, Part("iccid", 19)))
(* Faulty: iccid is counted with its terminating zero. *)
TTermIdent2_SetSRDWithZero(o, n) ==
  LET left == n - TermSize(o)
  IN  Reads(TermItems(o)
              \o Loose("flags", Sure(left > 0), 1)
              \o When(left > 0 /\ "icce" \in o.flags,
                      Loose("iccid", IF left >= 20 THEN 19 ELSE 0, 20)))
(* pos is moved over flags and iccid whether they are there or not. *)
TTermIdent2_SetSRD(o, n) ==
  LET left == n - TermSize(o)
  IN  Reads(TermItems(o)
              \o Loose("flags", Sure(left > 0), 1)
              \o When(left > 0 /\ "icce" \in o.flags,
                      Loose("iccid", IF left >= 20 THEN 19 ELSE 0, 19)))

(* The length of dscr and its zero is a uint8_t. *)
DescrLen(o) == (o.var + 1) % 256
TDispIdent_GetData(o) ==
  Wrote(5 + DescrLen(o), Part("head", 5) \o When(DescrLen(o) > 0, Part("dscr", DescrLen(o))))
TDispIdent_SetSRD(o, n) ==
  LET rest == Rest(n, Read("head", 5))
  IN  Reads(Read("head", 5) \o When(rest > 0, Read("dscr", rest)))

(* list holds the lengths of user_name, user_pass and server_sequence. *)
TAuthInfo_GetData(o) ==
  LET Size(i) == o.list[i].size + 1
      sequence == Size(3) > 1
  IN  Wrote(Size(1) + Size(2) + (IF sequence THEN Size(3) ELSE 0),
            Part("user_name", Size(1)) \o Part("user_pass", Size(2))
              \o When(sequence, Part("server_sequence", Size(3))))
(* Faulty: the zero of a string is not passed. *)
CStringWithoutZero(f, len, left) == Loose(f, Least(len + 1, left), Least(len, left))
(* A string goes up to its zero or to the end of the data. *)
CString(f, len, left) == Loose(f, Least(len + 1, left), Least(len, left) + 1)
TAuthInfo_SetSRD(o, n) ==
  LET name == CString("user_name", o.list[1].size, n)
      pass == CString("user_pass", o.list[2].size, Rest(n, name))
      rest == Rest(n, name \o pass)
  IN  ReadsAll(Check(2) \o name \o Check(1) \o pass
                 \o When(rest > 0, CString("server_sequence", o.list[3].size, rest)))

(***************************************************************************)
(* Telematics and insurance.                                               *)
(***************************************************************************)
(* list holds the adc_bits of the three axes. *)
AxisSize(o, i) == Least(4, (o.list[i].size + 8) \div 8)
Calibration(o) == AxisSize(o, 1) + AxisSize(o, 2) + AxisSize(o, 3)
Packed(o) == "first" \in o.flags /\ "raw" \in o.flags       \* pid = 0, tf = 0
TInsAccel_GetData(o) ==
  LET bytes == U16(4 + 16 * Sure("first" \in o.flags) + Calibration(o) * Sure(Packed(o))
                     + 2 + o.var)
  IN  Wrote(((bytes + 3) \div 4) * 4,
            Part("head", 4) \o When("first" \in o.flags, Part("body", 16)) \o Part("dl", 2)
              \o When(Packed(o), Part("x", AxisSize(o, 1)) \o Part("y", AxisSize(o, 2))
                                   \o Part("z", AxisSize(o, 3)))
              \o When(o.var > 0, Part("xyz_data", o.var)))
TInsAccel_SetSRD(o, n) ==
  ReadsAll(Read("head", 4) \o When("first" \in o.flags, Read("body", 16)) \o Read("dl", 2)
             \o When(Packed(o), Check(Calibration(o)) \o Read("x", AxisSize(o, 1))
                                  \o Read("y", AxisSize(o, 2)) \o Read("z", AxisSize(o, 3)))
             \o When(o.var > 0, Read("xyz_data", o.var)))

TPlusData_GetData(o) == Wrote(o.var, Part("protobuf", o.var))
TPlusData_SetSRD(o, n) == ReadsAll(Read("protobuf", n))

(* Room for srcd is made by the value of src, list[1], not by its presence. *)
Src(o) == o.list[1].size
TPosData_GetData(o) ==
  Wrote(21 + 3 * Sure("alte" \in o.flags) + 2 * Src(o),
        Part("body", 21) \o When("alte" \in o.flags, Part("alt", 3))
          \o When(Src(o) > 0, Part("srcd", 2)))
(* srcd is read wherever two bytes are left, and pos stays in front of it. *)
TPosData_SetSRD(o, n) ==
  LET items == Read("body", 21) \o When("alte" \in o.flags, Read("alt", 3))
  IN  Reads(items \o When(Rest(n, items) >= 2, Loose("srcd", 2, 0)))

(* GetData sends the kind of satellites with their number. *)
ExtFlags(o) == IF "sfe" \in o.flags THEN o.flags \cup {"nsfe"} ELSE o.flags
ExtSize(o) ==
  1 + 2 * Sure("vfe" \in o.flags) + 2 * Sure("hfe" \in o.flags) + 2 * Sure("pfe" \in o.flags)
    + Sure("sfe" \in o.flags) + 2 * Sure("nsfe" \in ExtFlags(o))
ExtFields(o, Op(_, _)) ==
  When("vfe" \in o.flags, Op("vdop", 2)) \o When("hfe" \in o.flags, Op("hdop", 2))
    \o When("pfe" \in o.flags, Op("pdop", 2)) \o When("sfe" \in o.flags, Op("sat", 1))
    \o When("nsfe" \in ExtFlags(o), Op("ns", 2))
TExtPosData_GetData(o) == Wrote(ExtSize(o), Part("flags", 1) \o ExtFields(o, Part))
TExtPosData_SetSRD(o, n) ==
  Reads(Read("flags", 1) \o Check(ExtSize(o) - 1) \o ExtFields(o, Read))

(* The bits of a byte, which list holds by their numbers, and bit_cnt. *)
Bit(o, kind, b) == \E i \in DOMAIN o.list : o.list[i].id = b /\ kind \in o.list[i].flags
BitCnt(o, kind) == Total([ i \in 1 .. 8 |-> Sure(Bit(o, kind, i - 1)) ])
EachBit(o, kind, Op(_)) ==
  FlattenSeq([ i \in 1 .. 8 |-> When(Bit(o, kind, i - 1), Op(i - 1)) ])
TAdSensors_GetData(o) ==
  Wrote(3 + BitCnt(o, "din") + BitCnt(o, "ain") * 3,
        Part("head", 3) \o EachBit(o, "din", LAMBDA b : NthPart("din", b, 1))
          \o EachBit(o, "ain", LAMBDA b : NthPart("ain", b, 3)))
TAdSensors_SetSRD(o, n) ==
  Reads(Read("head", 3) \o Check(BitCnt(o, "din") + BitCnt(o, "ain") * 3)
          \o EachBit(o, "din", LAMBDA b : NthRead("din", b, 1))
          \o EachBit(o, "ain", LAMBDA b : NthRead("ain", b, 3)))

TCounters_GetData(o) ==
  Wrote(1 + BitCnt(o, "cnt") * 3,
        Part("flags", 1) \o EachBit(o, "cnt", LAMBDA b : NthPart("cnt", b, 3)))
TCounters_SetSRD(o, n) ==
  Reads(Read("flags", 1) \o Check(BitCnt(o, "cnt") * 3)
          \o EachBit(o, "cnt", LAMBDA b : NthRead("cnt", b, 3)))

TLiquidLevel_GetData(o) == Wrote(3 + o.var, Part("head", 3) \o Part("llcd", o.var))
TLiquidLevel_SetSRD(o, n) ==
  ReadsAll(Check(4) \o Read("head", 3) \o Read("llcd", Rest(n, Read("head", 3))))

(* The doors are written in the order of the list and read by their bits.  *)
TPassengers_GetData(o) ==
  Wrote(5 + Len(o.list) * 2,
        Part("head", 5) \o Each(o.list, LAMBDA i : NthPart("door", o.list[i].id, 2)))
TPassengers_SetSRD(o, n) ==
  ReadsAll(Read("head", 5) \o Check(BitCnt(o, "door") * 2)
             \o EachBit(o, "door", LAMBDA b : NthRead("door", b, 2)))

(***************************************************************************)
(* The virtual functions.                                                  *)
(***************************************************************************)
Classes == {"TCommandData", "TECallRawMSD", "TECallMSD", "TEPCompData", "TEPSignature",
            "TEPAccelData3", "TEPTrackData", "TEPMainData", "TTermIdent", "TTermIdent2",
            "TDispIdent", "TAuthInfo", "TInsAccel", "TPlusData", "TPosData", "TExtPosData",
            "TAdSensors", "TCounters", "TLiquidLevel", "TPassengers"} \cup DOMAIN BodySize

(* The lists of the classes that use one in place of single fields have their  *)
(* lengths; src is a uint8_t, a passenger list has doors, ct_com one value.    *)
Elements == [ size : Nat, flags : SUBSET STRING, id : 0 .. 7 ]
IsObject(o) ==
  /\ o \in [ class : Classes, flags : SUBSET STRING, var : Nat, list : Seq(Elements) ]
  /\ o.var < MaxU16
  /\ o.class \in {"TCommandData", "TPosData"} => Len(o.list) = 1
  /\ o.class = "TEPMainData" => Len(o.list) = 2
  /\ o.class \in {"TAuthInfo", "TInsAccel"} => Len(o.list) = 3
  /\ o.class = "TPosData" => Src(o) <= 255
  /\ o.class = "TPassengers" => \A i \in DOMAIN o.list : "door" \in o.list[i].flags
  /\ ~("COM" \in o.flags /\ "COMCONF" \in o.flags)

(* GetData returns 0 and nothing is encoded. *)
Unwritable(o) ==
  \/ o.class = "TPlusData" /\ o.var = 0
  \/ o.class = "TLiquidLevel" /\ (o.var = 0 \/ o.var > 512)

GetData(o) ==
  CASE o.class = "TCommandData"  -> TCommandData_GetData(o)
    [] o.class = "TECallRawMSD"  -> TECallRawMSD_GetData(o)
    [] o.class = "TECallMSD"     -> TECallMSD_GetData(o)
    [] o.class = "TEPCompData"   -> TEPCompData_GetData(o)
    [] o.class = "TEPSignature"  -> TEPSignature_GetData(o)
    [] o.class = "TEPAccelData3" -> TEPAccelData3_GetData(o)
    [] o.class = "TEPTrackData"  -> TEPTrackData_GetData(o)
    [] o.class = "TEPMainData"   -> TEPMainData_GetData(o)
    [] o.class = "TTermIdent"    -> TTermIdent_GetData(o)
    [] o.class = "TTermIdent2"   -> TTermIdent2_GetData(o)
    [] o.class = "TDispIdent"    -> TDispIdent_GetData(o)
    [] o.class = "TAuthInfo"     -> TAuthInfo_GetData(o)
    [] o.class = "TInsAccel"     -> TInsAccel_GetData(o)
    [] o.class = "TPlusData"     -> TPlusData_GetData(o)
    [] o.class = "TPosData"      -> TPosData_GetData(o)
    [] o.class = "TExtPosData"   -> TExtPosData_GetData(o)
    [] o.class = "TAdSensors"    -> TAdSensors_GetData(o)
    [] o.class = "TCounters"     -> TCounters_GetData(o)
    [] o.class = "TLiquidLevel"  -> TLiquidLevel_GetData(o)
    [] o.class = "TPassengers"   -> TPassengers_GetData(o)
    [] OTHER -> Body_GetData(o)

SetSRD(o, n) ==
  CASE o.class = "TCommandData"  -> TCommandData_SetSRD(o, n)
    [] o.class = "TECallRawMSD"  -> TECallRawMSD_SetSRD(o, n)
    [] o.class = "TECallMSD"     -> TECallMSD_SetSRD(o, n)
    [] o.class = "TEPCompData"   -> TEPCompData_SetSRD(o, n)
    [] o.class = "TEPSignature"  -> TEPSignature_SetSRD(o, n)
    [] o.class = "TEPAccelData3" -> TEPAccelData3_SetSRD(o, n)
    [] o.class = "TEPTrackData"  -> TEPTrackData_SetSRD(o, n)
    [] o.class = "TEPMainData"   -> TEPMainData_SetSRD(o, n)
    [] o.class = "TTermIdent"    -> TTermIdent_SetSRD(o, n)
    [] o.class = "TTermIdent2"   -> TTermIdent2_SetSRD(o, n)
    [] o.class = "TDispIdent"    -> TDispIdent_SetSRD(o, n)
    [] o.class = "TAuthInfo"     -> TAuthInfo_SetSRD(o, n)
    [] o.class = "TInsAccel"     -> TInsAccel_SetSRD(o, n)
    [] o.class = "TPlusData"     -> TPlusData_SetSRD(o, n)
    [] o.class = "TPosData"      -> TPosData_SetSRD(o, n)
    [] o.class = "TExtPosData"   -> TExtPosData_SetSRD(o, n)
    [] o.class = "TAdSensors"    -> TAdSensors_SetSRD(o, n)
    [] o.class = "TCounters"     -> TCounters_SetSRD(o, n)
    [] o.class = "TLiquidLevel"  -> TLiquidLevel_SetSRD(o, n)
    [] o.class = "TPassengers"   -> TPassengers_SetSRD(o, n)
    [] OTHER -> Body_SetSRD(o, n)
=============================================================================
