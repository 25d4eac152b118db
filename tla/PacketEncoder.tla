--------------------------- MODULE PacketEncoder ----------------------------
(***************************************************************************)
(* TPacket::GetData with TRecord::GetData: first the size of everything is *)
(* computed, then a buffer of that size is filled. Sizes and offsets are   *)
(* uint16_t throughout: they are taken modulo Modulus, and a buffer may be *)
(* smaller than what is copied into it (phase "overrun": undefined then).  *)
(*                                                                         *)
(* A packet is represented by what the sizes depend on: its type pt, rte,  *)
(* ena, the size of its signature sig, and its records, each the number    *)
(* opt of optional fields and the results of its subrecords' GetData: the  *)
(* number of bytes, or NoData when a GetData returned 0 or threw.          *)
(***************************************************************************)
EXTENDS PacketHeader, Integers, Sequences, SequencesExt, SequenceSums

CONSTANTS Packets,          \* the packets that may be encoded
          Modulus,          \* of uint16_t: 65536
          MaxFrame,         \* EGTS_MAX_FRAME_SIZE: 65517
          NoData            \* a GetData that failed

(* The longest frame leaves room for a header with a route and a checksum,   *)
(* but not for padding.                                                     *)
ASSUME SizesAssumption ==
  /\ Modulus \in Nat /\ Modulus % 8 = 0
  /\ MaxFrame \in Nat /\ MaxFrame + 18 < Modulus
ASSUME NoDataAssumption == NoData \notin Nat

IsPacket(p) ==
  /\ p.pt \in Nat /\ p.rte \in BOOLEAN /\ p.ena \in 0 .. 3 /\ p.sig \in 0 .. Modulus - 1
  /\ p.recs \in Seq([ opt : 0 .. 3, subs : Seq((0 .. Modulus - 1) \cup {NoData}) ])
ASSUME PacketsAssumption == \A p \in Packets : IsPacket(p)

(* The part of the frame in front of the records. *)
InFront(p) ==
  IF p.pt = PT_RESPONCE THEN 3
  ELSE IF p.pt = PT_SIGNED_APPDATA THEN 2 + p.sig
  ELSE 0

(* What is copied into the buffer of a record, up to its n-th subrecord, and *)
(* what a frame holds up to its n-th record, as integers have it.           *)
Given(s) == IF s = NoData THEN 0 ELSE s
BytesUpTo(r, n) == 7 + 4 * r.opt + SumsUpTo([ i \in DOMAIN r.subs |-> Given(r.subs[i]) ])[n]
Bytes(r) == BytesUpTo(r, Len(r.subs))
FrameUpTo(p, n) == InFront(p) + SumsUpTo([ i \in DOMAIN p.recs |-> Bytes(p.recs[i]) ])[n]

(* Faulty: sums as wide as they need to be, cut by nobody. *)
UWide(n) == n

U(n) == n % Modulus

VARIABLES packet,           \* the packet
          phase,            \* "sizes", "copy", "done", "failed" or "overrun"
          rec, sub,         \* the record and subrecord that are next
          rl,               \* head.rl of that record
          ds_list,          \* the sizes of the encoded records
          frame_size,       \* the sum that is compared with MaxFrame
          head,             \* hl and fdl of the packet header
          size,             \* *size
          pos               \* offset in the frame

vars == <<packet, phase, rec, sub, rl, ds_list, frame_size, head, size, pos>>

TypeOK ==
  /\ IsPacket(packet)
  /\ phase \in {"sizes", "copy", "done", "failed", "overrun"}
  /\ rec \in 1 .. Len(packet.recs) + 1 /\ sub \in Nat \ {0}
  /\ ds_list \in Seq(0 .. Modulus - 1)
  /\ {rl, frame_size, head.fdl, size, pos} \subseteq 0 .. Modulus - 1
  /\ head.hl \in {11, 16}

Init ==
  /\ packet \in Packets
  /\ phase = "sizes" /\ rec = 1 /\ sub = 1
  /\ rl = 0 /\ ds_list = << >> /\ size = 0 /\ pos = 0
  /\ frame_size = U(InFront(packet))
  /\ head = [ hl |-> 11, fdl |-> 0 ]

(* It ends early: nothing is returned, or something was copied behind the   *)
(* end of a buffer and what the program does is undefined.                  *)
EndWith(p) ==
  /\ phase' = p
  /\ UNCHANGED <<packet, rec, sub, rl, ds_list, frame_size, head, size, pos>>

Typed == phase = "sizes" /\ packet.pt <= PT_SIGNED_APPDATA
RefuseType == phase = "sizes" /\ ~Typed /\ EndWith("failed")

(* TRecord::GetData, the size. *)
Record == packet.recs[rec]
InSubrecords == Typed /\ rec <= Len(packet.recs) /\ sub <= Len(Record.subs)
InRecord == Typed /\ rec <= Len(packet.recs) /\ sub > Len(Record.subs)

LoseSubrecord == InSubrecords /\ Record.subs[sub] = NoData /\ EndWith("failed")

AddSubrecord ==
  /\ InSubrecords /\ Record.subs[sub] # NoData
  /\ rl' = U(rl + Record.subs[sub])
  /\ sub' = sub + 1
  /\ UNCHANGED <<packet, phase, rec, ds_list, frame_size, head, size, pos>>

(* Faulty: the optional fields are not in the size. *)
RecordSizeOfHead == U(7 + rl)

(* The size of the buffer of a record. *)
RecordSize == U(7 + 4 * Record.opt + rl)

OverrunRecord == InRecord /\ Bytes(Record) > RecordSize /\ EndWith("overrun")

(* Faulty: the limit itself is too long. *)
TooLongAtLimit(n) == n >= MaxFrame

TooLong(n) == n > MaxFrame

AddRecord ==
  /\ InRecord /\ Bytes(Record) <= RecordSize
  /\ ~TooLong(U(frame_size + RecordSize))
  /\ frame_size' = U(frame_size + RecordSize)
  /\ ds_list' = Append(ds_list, RecordSize)
  /\ rec' = rec + 1 /\ sub' = 1 /\ rl' = 0
  /\ UNCHANGED <<packet, phase, head, size, pos>>

RefuseSize ==
  /\ InRecord /\ Bytes(Record) <= RecordSize
  /\ TooLong(U(frame_size + RecordSize))
  /\ EndWith("failed")

(* Faulty: a whole block too many for a frame that has full blocks. *)
PaddingOfFullBlocks(n) == 8 - (n % 8)

(* With ena = 1 the frame is filled up to blocks of eight bytes. *)
Padding(n) == IF n % 8 = 0 THEN 0 ELSE 8 - (n % 8)

(* Header, size, buffer, and what of the frame is in front of the records. *)
Allocate ==
  LET hl    == IF packet.rte THEN 16 ELSE 11
      fdl   == U(frame_size + (IF packet.ena = 1 THEN Padding(frame_size) ELSE 0))
      needs == hl + FrameBytes(fdl)
  IN  /\ Typed /\ rec > Len(packet.recs)
      /\ head' = [ hl |-> hl, fdl |-> fdl ]
      /\ size' = U(needs)
      /\ pos' = IF fdl = 0 THEN 0 ELSE U(InFront(packet))
      /\ rec' = 1
      /\ phase' = IF U(needs) < needs \/ (fdl > 0 /\ InFront(packet) > fdl) THEN "overrun"
                  ELSE IF fdl = 0 THEN "done"
                  ELSE "copy"
      /\ UNCHANGED <<packet, sub, rl, ds_list, frame_size>>

CopyRecord ==
  /\ phase = "copy" /\ rec <= Len(ds_list)
  /\ IF pos + ds_list[rec] > head.fdl THEN phase' = "overrun" ELSE UNCHANGED phase
  /\ pos' = U(pos + ds_list[rec])
  /\ rec' = rec + 1
  /\ UNCHANGED <<packet, sub, rl, ds_list, frame_size, head, size>>

(* Padding, encryption and the checksum of the frame. *)
Close == phase = "copy" /\ rec > Len(ds_list) /\ EndWith("done")

Next ==
  \/ RefuseType \/ LoseSubrecord \/ AddSubrecord \/ OverrunRecord \/ AddRecord
  \/ RefuseSize \/ Allocate \/ CopyRecord \/ Close

Spec == Init /\ [][Next]_vars
-----------------------------------------------------------------------------
Frame == FrameUpTo(packet, Len(packet.recs))

Encodable ==
  /\ packet.pt <= PT_SIGNED_APPDATA
  /\ \A i \in DOMAIN packet.recs : NoData \notin Range(packet.recs[i].subs)

(* The one case in which a frame within the limit makes a packet of more    *)
(* than 65535 bytes: the limit leaves no room for route and padding.        *)
NoRoomForPadding == packet.rte /\ packet.ena = 1 /\ 16 + Frame + Padding(Frame) + 2 >= Modulus

(* The sizes that are added up in advance, subrecord by subrecord and       *)
(* record by record, cover all that is copied afterwards: as long as the    *)
(* frame is within EGTS_MAX_FRAME_SIZE nothing is written behind a buffer.  *)
BufferHolds == phase = "overrun" => Frame > MaxFrame \/ NoRoomForPadding

(* EGTS_MAX_FRAME_SIZE decides: a packet that can be encoded is refused only *)
(* when it is longer, and one that is longer is written only if the sum      *)
(* passed 65535 at some record, or there is a signature and no record.       *)
LimitDecides ==
  /\ phase = "failed" => ~Encodable \/ Frame > MaxFrame
  /\ phase = "done" /\ Frame > MaxFrame =>
       \/ packet.recs = << >>
       \/ \E n \in 0 .. Len(packet.recs) : FrameUpTo(packet, n) >= Modulus

(* A packet that is written whole: the bytes copied are the frame, fdl is    *)
(* the frame filled up by less than eight bytes to full blocks if it is      *)
(* encrypted and the frame itself if not, and *size is all of it.            *)
LengthsAgree ==
  phase = "done" /\ Frame <= MaxFrame =>
    /\ pos = Frame
    /\ head.fdl - Frame \in 0 .. (IF packet.ena = 1 THEN 7 ELSE 0)
    /\ packet.ena = 1 => head.fdl % 8 = 0
    /\ size = (IF packet.rte THEN 16 ELSE 11) + FrameBytes(head.fdl)

(* What TPacket::SetData wants of a packet that was written is what GetData  *)
(* reports as its size - and five bytes more with a route, which SetData     *)
(* counts although hl has it.                                                *)
ReaderWantsWhatIsWritten ==
  phase = "done" =>
    PackSize([ hl |-> head.hl, rte |-> packet.rte, fdl |-> head.fdl ])
      = size + (IF packet.rte THEN RouteSize ELSE 0)

(* Nothing longer than EGTS_MAX_FRAME_SIZE is written: what the error report *)
(* "frame_size > EGTS_MAX_FRAME_SIZE" is for.                                *)
LimitEnforced == phase = "done" => Frame <= MaxFrame
=============================================================================
