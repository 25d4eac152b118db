----------------------------- MODULE RecordWalk -----------------------------
(***************************************************************************)
(* How a frame becomes records and subrecords: the loop at the end of      *)
(* TPacket::SetData over TRecord::SetData, which in turn loops over        *)
(* TSubrecord::SubrecordData and the SetSRD of the class that GetInheritor *)
(* chose.                                                                  *)
(*                                                                         *)
(* A frame says what is read as a record head or a subrecord at each of    *)
(* its offsets. Where the peer wrote one this is what the peer wrote,      *)
(* everywhere else (the walk gets there after damage) it is stray:         *)
(*   rec[o]   opt, the number of optional fields; rl; rst                  *)
(*   sub[o]   len of the subrecord header; services, those in which        *)
(*            GetInheritor has a class for the type; reads, whether SetSRD *)
(*            returns 1 ("ok"), 0 ("fails") or throws; takes, the *ppos it *)
(*            reports, which is not always len                             *)
(*   start    the offset behind the preamble                               *)
(*   sent     the records the peer wrote: offset and subrecord offsets     *)
(***************************************************************************)
EXTENDS Integers, Sequences

CONSTANTS Frames,           \* the frames that may have to be walked
          Modulus,          \* of uint16_t: 65536
          Overshoot         \* by how much takes may be greater than len: 19

SubHead == 3                \* EGTS_SBR_HDR_SIZE

(* The size of a record's head: rl, rn, rfl, the optional fields, sst, rst. *)
HeadLen(r) == 7 + 4 * r.opt

RecHead == [ opt : 0 .. 3, rl : Nat, rst : Nat ]
SubView == [ len : Nat, services : SUBSET Nat, takes : Nat,
             reads : {"ok", "fails", "throws"} ]

RecAt(f, o) == IF o \in DOMAIN f.rec THEN f.rec[o] ELSE f.stray.rec
SubAt(f, o) == IF o \in DOMAIN f.sub THEN f.sub[o] ELSE f.stray.sub

(* Any frame that fdl, which is 16 bits wide, can give the length of.       *)
IsFrame(f) ==
  /\ f.size \in 0 .. Modulus - 1
  /\ f.start \in 0 .. f.size
  /\ \A o \in 0 .. f.size :
       /\ RecAt(f, o) \in RecHead
       /\ SubAt(f, o).len \in Nat
       /\ SubAt(f, o).takes \in 0 .. SubAt(f, o).len + Overshoot
       /\ SubAt(f, o).reads \in {"ok", "fails", "throws"}

Record == [ at : Nat, sbrs : Seq(Nat) ]     \* one element of TPacket::recs

(* Subrecords lie behind their record's head and behind each other. *)
Ordered(at, s) ==
  \A i \in DOMAIN s :
    at < s[i] /\ \A j \in DOMAIN s : i < j => s[i] + SubHead <= s[j]

(* Where the head of a record that was sent and its first i subrecords end. *)
EndOf(f, r, i) ==
  IF i = 0 THEN r.at + HeadLen(f.rec[r.at])
           ELSE r.sbrs[i] + SubHead + f.sub[r.sbrs[i]].len

(* A record that reached the reader as the peer wrote it: known types that  *)
(* read what their headers say, behind each other, and rl their sum.        *)
IntactRecord(f, r) ==
  LET n == Len(r.sbrs)
  IN  /\ \A i \in 1 .. n :
           LET s == f.sub[r.sbrs[i]]
           IN  /\ f.rec[r.at].rst \in s.services
               /\ s.len > 0 /\ s.reads = "ok" /\ s.takes = s.len
               /\ r.sbrs[i] = EndOf(f, r, i - 1)
      /\ f.rec[r.at].rl = EndOf(f, r, n) - EndOf(f, r, 0)
      /\ EndOf(f, r, n) <= f.size

(* Where the record behind the first k begins, or the frame ends. *)
NextAt(f, k) == IF k = Len(f.sent) THEN f.size ELSE f.sent[k + 1].at

(* The peer writes the records one behind the other, from the start to the *)
(* end of the frame. Only of a damaged one it is not said where it ends.   *)
IsSent(f) ==
  /\ f.sent \in Seq(Record)
  /\ f.start = NextAt(f, 0)
  /\ \A k \in DOMAIN f.sent :
       LET r == f.sent[k]
       IN  /\ r.at \in DOMAIN f.rec /\ f.rec[r.at] \in RecHead
           /\ \A i \in DOMAIN r.sbrs :
                r.sbrs[i] \in DOMAIN f.sub /\ f.sub[r.sbrs[i]].len \in Nat
           /\ Ordered(r.at, r.sbrs)
           /\ IntactRecord(f, r) => EndOf(f, r, Len(r.sbrs)) = NextAt(f, k)

ASSUME SizesAssumption == Modulus \in Nat /\ Overshoot \in Nat
ASSUME FramesAssumption == \A f \in Frames : IsFrame(f)
ASSUME SentAssumption == \A f \in Frames : IsSent(f)

VARIABLES frame,            \* the frame and what can be read in it
          pc,               \* "packet" loop, "record" loop or "done"
          base,             \* pos of TPacket::SetData: where the record begins
          pos, rl,          \* pos and rl of TRecord::SetData
          sbrs,             \* the subrecords of the record: their offsets
          count,            \* sbrs.Count() in the 8 bits in which it is returned
          recs,             \* the records of the packet
          turned            \* pos has wrapped: sbrs and recs are not followed any
                            \* more, for from here on they may grow for ever

vars == <<frame, pc, base, pos, rl, sbrs, count, recs, turned>>

TypeOK ==
  /\ frame \in Frames
  /\ pc \in {"packet", "record", "done"}
  /\ base \in Nat /\ pos \in 0 .. Modulus - 1 /\ rl \in 0 .. Modulus - 1
  /\ sbrs \in Seq(Nat) /\ count \in 0 .. 255
  /\ recs \in Seq(Record)
  /\ turned \in BOOLEAN

Init ==
  /\ frame \in Frames
  /\ pc = "packet" /\ base = frame.start
  /\ pos = 0 /\ rl = 0 /\ sbrs = << >> /\ count = 0 /\ recs = << >>
  /\ turned = FALSE

(* size of TRecord::SetData: what is left of the frame. *)
Left == frame.size - base
Rec == RecAt(frame, base)
Sub == SubAt(frame, base + pos)

(* Where pos is to go behind the subrecord, before it is cut to 16 bits. *)
Behind == pos + Sub.takes + SubHead

(* The checks of TRecord::SetData before the loop. *)
HeadFits == HeadLen(Rec) <= Left /\ (Rec.rl > 0 => HeadLen(Rec) < Left)

(* Faulty: a record that cannot be read takes those in front of it with it. *)
GiveUpAll ==
  /\ pc' = "done"
  /\ sbrs' = << >> /\ recs' = << >>
  /\ UNCHANGED <<frame, base, pos, rl, count, turned>>

(* TRecord::SetData returns 0 and leaves *ppos at 0: the record is deleted *)
(* and the packet is done, with the records it has.                        *)
GiveUp ==
  /\ pc' = "done"
  /\ sbrs' = << >>
  /\ UNCHANGED <<frame, base, pos, rl, count, recs, turned>>

OpenRecord ==
  /\ pc = "packet" /\ base < frame.size /\ HeadFits
  /\ pc' = "record"
  /\ pos' = HeadLen(Rec) /\ rl' = 0 /\ sbrs' = << >> /\ count' = 0
  /\ UNCHANGED <<frame, base, recs, turned>>

RefuseRecord ==
  /\ pc = "packet" /\ base < frame.size /\ ~HeadFits
  /\ GiveUp

(* Faulty: every subrecord of the frame is taken into the record. *)
MoreSubrecordsOfFrame == pc = "record" /\ pos + SubHead < Left

(* A record's loop runs while there is a subrecord header and rl is not used. *)
MoreSubrecords == pc = "record" /\ rl < Rec.rl /\ pos + SubHead < Left

HasClass == Rec.rst \in Sub.services
(* Faulty: len is believed. *)
DataFitsAlways == TRUE

(* SubrecordData compares len with the header still counted in. *)
DataFits == Sub.len <= Left - pos

(* A subrecord that can be read is kept. *)
ReadSubrecord ==
  /\ MoreSubrecords /\ HasClass /\ DataFits /\ Sub.reads = "ok"
  /\ sbrs' = IF turned THEN sbrs ELSE Append(sbrs, base + pos)
  /\ count' = (count + 1) % 256
  /\ turned' = (turned \/ Modulus <= Behind)

(* Faulty: the walk goes on behind the data without the header. *)
KeepSubrecordWithoutHead ==
  /\ ReadSubrecord
  /\ pos' = (pos + Sub.takes) % Modulus
  /\ rl' = (rl + Sub.takes) % Modulus
  /\ UNCHANGED <<frame, pc, base, recs>>

(* Faulty: rl counts down in a signed integer. *)
KeepSubrecordCountingDown ==
  /\ ReadSubrecord
  /\ pos' = Behind % Modulus
  /\ rl' = rl - (Sub.takes + SubHead)
  /\ UNCHANGED <<frame, pc, base, recs>>

(* Both sums are cut to 16 bits. In a long frame pos may so turn back, even *)
(* to a subrecord that was read before.                                     *)
KeepSubrecord ==
  /\ ReadSubrecord
  /\ pos' = Behind % Modulus
  /\ rl' = (rl + Sub.takes + SubHead) % Modulus
  /\ UNCHANGED <<frame, pc, base, recs>>

(* A type without class, or an exception, costs the whole record. *)
LoseRecord ==
  /\ MoreSubrecords
  /\ ~HasClass \/ (DataFits /\ Sub.reads = "throws")
  /\ GiveUp

(* Faulty: *ppos is where the subrecords begin. *)
CloseRecordBehindHead ==
  /\ pc = "record"
  /\ MoreSubrecords => HasClass /\ (~DataFits \/ Sub.reads = "fails")
  /\ recs' = Append(recs, [ at |-> base, sbrs |-> sbrs ])
  /\ base' = base + HeadLen(Rec)
  /\ pc' = "packet"
  /\ UNCHANGED <<frame, pos, rl, sbrs, count, turned>>

(* The loop ends, or is left at a subrecord that cannot be read, and the   *)
(* packet goes on behind what was read. A record without subrecords of     *)
(* which nothing was read ends the packet; *ppos is 0 here only after a    *)
(* turn, and then a record with subrecords is begun again and again.       *)
CloseRecord ==
  /\ pc = "record"
  /\ MoreSubrecords => HasClass /\ (~DataFits \/ Sub.reads = "fails")
  /\ IF count = 0 /\ pos = 0
     THEN GiveUp
     ELSE /\ recs' = IF turned THEN recs ELSE Append(recs, [ at |-> base, sbrs |-> sbrs ])
          /\ base' = base + pos
          /\ pc' = "packet"
          /\ UNCHANGED <<frame, pos, rl, sbrs, count, turned>>

(* Faulty: only the exact end of the frame ends the loop. *)
FinishAtEndOnly ==
  /\ pc = "packet" /\ base = frame.size
  /\ pc' = "done"
  /\ UNCHANGED <<frame, base, pos, rl, sbrs, count, recs, turned>>

Finish ==
  /\ pc = "packet" /\ base >= frame.size
  /\ pc' = "done"
  /\ UNCHANGED <<frame, base, pos, rl, sbrs, count, recs, turned>>

Next == OpenRecord \/ RefuseRecord \/ KeepSubrecord \/ LoseRecord \/ CloseRecord \/ Finish

Spec == Init /\ [][Next]_vars

(* SetData is one call: it goes on for as long as it can. *)
FairSpec == Spec /\ WF_vars(Next)
-----------------------------------------------------------------------------
(* How far the walk has come in the frame. *)
Here == IF pc = "record" THEN base + pos ELSE base

(* Every step leads on in the frame, so that no record and no subrecord is  *)
(* read twice, but where pos is cut to 16 bits; and it is cut only in       *)
(* frames that leave less room below 2^16 than a subrecord header and the   *)
(* overshoot, those of more than 65513 bytes.                              *)
Long(f) == Modulus <= f.size + SubHead + Overshoot

WalksOn ==
  [][ \/ pc' = "done"
      \/ Here < Here'
      \/ Here = Here' /\ pc # pc'
      \/ pc = "record" /\ Modulus <= Behind /\ Long(frame) ]_vars

(* The walk never stands more than one subrecord header and the overshoot   *)
(* of the last subrecord behind the end of the frame, and whatever it hands *)
(* to SetSRD ends at most one header behind it (the check forgets the       *)
(* header).                                                                 *)
StaysNearFrame ==
  /\ Here <= frame.size + SubHead + Overshoot
  /\ \A i \in DOMAIN sbrs :
       /\ sbrs[i] + SubHead < frame.size
       /\ sbrs[i] + SubHead + SubAt(frame, sbrs[i]).len <= frame.size + SubHead

(* Nothing in the frame is decoded as part of two records or subrecords:    *)
(* what the lists hold lies in the frame in their order, and the record in  *)
(* work behind all that were closed. Once pos has wrapped this is about     *)
(* what was read before: behind that the code may well read things twice.   *)
DecodedInOrder ==
  /\ \A i \in DOMAIN recs :
       LET r == recs[i]
           Closed(at) == r.at < at /\ \A k \in DOMAIN r.sbrs : r.sbrs[k] < at
       IN  /\ Ordered(r.at, r.sbrs)
           /\ Closed(base)
           /\ \A j \in DOMAIN recs : i < j => Closed(recs[j].at)
  /\ pc = "record" => Ordered(base, sbrs)

(* The records in front of the first damaged one. *)
IntactPrefix(f) ==
  { k \in DOMAIN f.sent : \A i \in 1 .. k : IntactRecord(f, f.sent[i]) }

(* Damage in one record does not reach those in front of it: they are in    *)
(* the packet as the peer wrote them, whatever stands behind them.          *)
IntactPrefixDecoded ==
  \A k \in IntactPrefix(frame) :
    /\ k \in DOMAIN recs => recs[k] = frame.sent[k]
    /\ pc = "done" => k \in DOMAIN recs

(* A frame without damage becomes exactly the records that were sent. *)
CleanFrameDecoded ==
  pc = "done" /\ IntactPrefix(frame) = DOMAIN frame.sent => recs = frame.sent

(* SetData returns, whatever the frame holds, unless pos wraps on the way,  *)
(* which WalksOn allows in frames of more than 65513 bytes only.           *)
WalkEnds == <>(pc = "done" \/ turned)

(* SetData returns: the comment on it promises the size read and a result.  *)
(* In a frame of more than 65513 bytes pos can come back to a subrecord     *)
(* that was read before, and the loop never ends.                          *)
WalkReturns == <>(pc = "done")
=============================================================================
