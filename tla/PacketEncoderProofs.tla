------------------------ MODULE PacketEncoderProofs ------------------------
(***************************************************************************)
(* The sums of TPacket::GetData and TRecord::GetData are taken modulo      *)
(* Modulus, yet the buffers hold what is copied, for all packets. A sum    *)
(* that has not yet reached Modulus is the sum over the integers (Counted, *)
(* Summed); one that has belongs to a frame over the limit. So as long as  *)
(* Frame <= MaxFrame every size is exact, and what remains is to see that  *)
(* header, route, padding and checksum fit above MaxFrame.                 *)
(***************************************************************************)
EXTENDS PacketEncoder, SequenceTheorems, WellFoundedInduction, TLAPS

(* rl counts the subrecords that were seen, and is 0 between records. *)
Counted ==
  rec <= Len(packet.recs) =>
    /\ sub <= Len(Record.subs) + 1
    /\ BytesUpTo(Record, sub - 1) < Modulus =>
         rl = BytesUpTo(Record, sub - 1) - (7 + 4 * Record.opt)

(* frame_size counts the records that were seen, and passed the limit. *)
Summed ==
  /\ FrameUpTo(packet, rec - 1) < Modulus => frame_size = FrameUpTo(packet, rec - 1)
  /\ rec > 1 => frame_size <= MaxFrame

(* The encoded records are as long as what was copied into them. *)
Recorded ==
  /\ Len(ds_list) = rec - 1
  /\ \A i \in 1 .. rec - 1 : ds_list[i] = Bytes(packet.recs[i])

PadIfEncrypted == IF packet.ena = 1 THEN Padding(Frame) ELSE 0

(* The sum of a long frame must have wrapped, or was never compared. *)
Unnoticed ==
  Frame > MaxFrame =>
    \/ packet.recs = << >>
    \/ \E n \in 0 .. Len(packet.recs) : FrameUpTo(packet, n) >= Modulus

Allocated ==
  /\ head.hl = (IF packet.rte THEN 16 ELSE 11)
  /\ size = head.hl + FrameBytes(head.fdl)
  /\ Unnoticed
  /\ Frame <= MaxFrame => head.fdl = Frame + PadIfEncrypted

(* The copying stands behind the records that were copied. *)
Copied ==
  /\ Len(ds_list) = Len(packet.recs)
  /\ \A i \in DOMAIN packet.recs : ds_list[i] = Bytes(packet.recs[i])
  /\ Frame <= MaxFrame => pos = FrameUpTo(packet, rec - 1)

EncoderInv ==
  /\ TypeOK /\ packet \in Packets
  /\ phase = "sizes" => Counted /\ Summed /\ Recorded
  /\ phase \in {"copy", "done"} => Allocated
  /\ phase = "copy" => Copied
  /\ phase = "done" /\ Frame <= MaxFrame => pos = Frame
  /\ phase = "failed" => ~Encodable \/ Frame > MaxFrame
  /\ BufferHolds
-----------------------------------------------------------------------------

(***************************************************************************)
(* Sums are what their recursion says, by induction over the number of the *)
(* summands: a set that holds 0, and the next of each of its numbers, holds *)
(* all numbers, because what it lacks would have a least element.          *)
(***************************************************************************)
LEMMA HasLeast ==
  ASSUME NEW T \in SUBSET Nat, T # {}
  PROVE  \E x \in T : \A y \in T : x <= y
<1> DEFINE Less == { p \in Nat \X Nat : p[1] < p[2] }
<1>1. IsWellFoundedOn(Less, Nat)
  BY NatLessThanWellFounded DEF OpToRel
<1>2. PICK x \in T : \A y \in T : ~(<<y, x>> \in Less)
  BY <1>1, WFMin
<1>3. \A y \in T : ~(y < x)
  BY <1>2
<1> QED
  BY <1>3

(* A set that holds 0, and the successor of all it holds, holds every number. *)
LEMMA Induction ==
  ASSUME NEW H, 0 \in H, \A n \in Nat : n \in H => n + 1 \in H
  PROVE  Nat \subseteq H
<1> SUFFICES ASSUME ~(Nat \subseteq H)
             PROVE  FALSE
  OBVIOUS
<1>1. PICK x \in Nat \ H : \A y \in Nat \ H : x <= y
  BY HasLeast
<1>2. x # 0 /\ x - 1 \in Nat
  BY <1>1
<1>3. x - 1 \in H
  BY <1>1, <1>2
<1> QED
  BY <1>1, <1>2, <1>3

(***************************************************************************)
(* Sums.                                                                   *)
(***************************************************************************)
IsSum(f, s, n) == f = [ i \in 0 .. n |-> IF i = 0 THEN 0 ELSE f[i - 1] + s[i] ]

(* The function that SumsUpTo describes exists. *)
LEMMA SumExists ==
  ASSUME NEW s \in Seq(Int)
  PROVE  \E f : IsSum(f, s, Len(s))
<1> DEFINE H == { n \in Nat : n <= Len(s) => \E f : IsSum(f, s, n) }
<1>1. 0 \in H
  <2>1. IsSum([ i \in 0 .. 0 |-> 0 ], s, 0)
    BY DEF IsSum
  <2> QED
    BY <2>1
<1>2. ASSUME NEW n \in Nat, n \in H
      PROVE  n + 1 \in H
  <2> SUFFICES ASSUME n + 1 <= Len(s)
               PROVE  \E f : IsSum(f, s, n + 1)
    OBVIOUS
  <2>1. PICK f : IsSum(f, s, n)
    BY <1>2
  <2>2. IsSum([ i \in 0 .. n + 1 |-> IF i = n + 1 THEN f[n] + s[n + 1] ELSE f[i] ], s, n + 1)
    BY <2>1 DEF IsSum
  <2> QED
    BY <2>2
<1>3. Nat \subseteq H
  BY <1>1, <1>2, Induction
<1> QED
  BY <1>3

(* So the sums are what their recursion says. *)
LEMMA SumsDefined ==
  ASSUME NEW s \in Seq(Int)
  PROVE  /\ SumsUpTo(s)[0] = 0
         /\ \A i \in 1 .. Len(s) : SumsUpTo(s)[i] = SumsUpTo(s)[i - 1] + s[i]
<1>1. SumsUpTo(s) = CHOOSE f : IsSum(f, s, Len(s))
  BY DEF SumsUpTo, IsSum
<1>2. IsSum(SumsUpTo(s), s, Len(s))
  BY <1>1, SumExists
<1>3. \A i \in 0 .. Len(s) :
        SumsUpTo(s)[i] = IF i = 0 THEN 0 ELSE SumsUpTo(s)[i - 1] + s[i]
  BY <1>2 DEF IsSum
<1> QED
  BY <1>3

(* The sums of natural numbers are natural, and do not fall.                *)
LEMMA SumsGrow ==
  ASSUME NEW s \in Seq(Nat)
  PROVE  /\ SumsUpTo(s)[0] = 0
         /\ \A i \in 0 .. Len(s) : SumsUpTo(s)[i] \in Nat
         /\ \A i \in 1 .. Len(s) : SumsUpTo(s)[i] = SumsUpTo(s)[i - 1] + s[i]
         /\ \A i, j \in 0 .. Len(s) : i <= j => SumsUpTo(s)[i] <= SumsUpTo(s)[j]
<1>1. /\ SumsUpTo(s)[0] = 0
      /\ \A i \in 1 .. Len(s) : SumsUpTo(s)[i] = SumsUpTo(s)[i - 1] + s[i]
  BY SumsDefined
<1>2. \A i \in 1 .. Len(s) : s[i] \in Nat
  BY ElementOfSeq
<1> DEFINE H == { n \in Nat : n <= Len(s) =>
                    \A i \in 0 .. n : SumsUpTo(s)[i] \in Nat /\ SumsUpTo(s)[i] <= SumsUpTo(s)[n] }
<1>3. 0 \in H
  BY <1>1
<1>4. ASSUME NEW n \in Nat, n \in H
      PROVE  n + 1 \in H
  <2> SUFFICES ASSUME n + 1 <= Len(s)
               PROVE  \A i \in 0 .. n + 1 :
                        SumsUpTo(s)[i] \in Nat /\ SumsUpTo(s)[i] <= SumsUpTo(s)[n + 1]
    OBVIOUS
  <2>1. \A i \in 0 .. n : SumsUpTo(s)[i] \in Nat /\ SumsUpTo(s)[i] <= SumsUpTo(s)[n]
    BY <1>4
  <2>2. n + 1 \in 1 .. Len(s) /\ n + 1 - 1 = n
    OBVIOUS
  <2>3. SumsUpTo(s)[n + 1] = SumsUpTo(s)[n] + s[n + 1] /\ s[n + 1] \in Nat
    BY <1>1, <1>2, <2>2
  <2> QED
    BY <2>1, <2>3
<1>5. Nat \subseteq H
  BY <1>3, <1>4, Induction
<1>6. \A n \in 0 .. Len(s) : n \in H
  BY <1>5
<1> QED
  BY <1>1, <1>6

(* The same of sums that begin with h.                                      *)
Adds(F, s, n) ==
  /\ \A i \in 0 .. n : F[i] \in Nat
  /\ \A i \in 1 .. n : F[i] = F[i - 1] + s[i]
  /\ \A i, j \in 0 .. n : i <= j => F[i] <= F[j]

LEMMA Shifted ==
  ASSUME NEW n \in Nat, NEW h \in Nat, NEW s, \A i \in 1 .. n : s[i] \in Nat,
         NEW f, Adds(f, s, n), NEW F, \A i \in 0 .. n : F[i] = h + f[i]
  PROVE  Adds(F, s, n)
<1>1. \A i \in 0 .. n : F[i] = h + f[i] /\ f[i] \in Nat /\ F[i] \in Nat
  BY DEF Adds
<1>2. ASSUME NEW i \in 1 .. n
      PROVE  F[i] = F[i - 1] + s[i]
  <2>1. i \in 0 .. n /\ i - 1 \in 0 .. n /\ s[i] \in Nat /\ f[i] = f[i - 1] + s[i]
    BY DEF Adds
  <2> QED
    BY <1>1, <2>1
<1>3. ASSUME NEW i \in 0 .. n, NEW j \in 0 .. n, i <= j
      PROVE  F[i] <= F[j]
  <2>1. f[i] <= f[j]
    BY <1>3 DEF Adds
  <2> QED
    BY <1>1, <2>1
<1> QED
  BY <1>1, <1>2, <1>3 DEF Adds

LEMMA SumsFrom ==
  ASSUME NEW s \in Seq(Nat), NEW h \in Nat, NEW n \in Nat, n = Len(s),
         NEW F, F = [ i \in 0 .. n |-> h + SumsUpTo(s)[i] ]
  PROVE  F[0] = h /\ Adds(F, s, n)
<1>1. PICK f : f = SumsUpTo(s)
  OBVIOUS
<1>2. Adds(f, s, n) /\ f[0] = 0
  BY <1>1, SumsGrow, Zenon DEF Adds
<1>3. \A i \in 0 .. n : F[i] = h + f[i]
  BY <1>1
<1>4. \A i \in 1 .. n : s[i] \in Nat
  BY ElementOfSeq
<1>5. Adds(F, s, n)
  BY <1>2, <1>3, <1>4, Shifted, Zenon
<1>6. F[0] = h + f[0]
  BY <1>3
<1> QED
  BY <1>2, <1>5, <1>6

(* The sums over a record and over a packet.                                *)
LEMMA RecordSums ==
  ASSUME NEW p \in Packets, NEW k \in DOMAIN p.recs, NEW r, r = p.recs[k]
  PROVE  /\ BytesUpTo(r, 0) = 7 + 4 * r.opt
         /\ \A i \in 0 .. Len(r.subs) : BytesUpTo(r, i) \in Nat
         /\ \A i \in 1 .. Len(r.subs) : BytesUpTo(r, i) = BytesUpTo(r, i - 1) + Given(r.subs[i])
         /\ \A i, j \in 0 .. Len(r.subs) : i <= j => BytesUpTo(r, i) <= BytesUpTo(r, j)
<1>1. IsPacket(p)
  BY PacketsAssumption
<1>2. r \in [ opt : 0 .. 3, subs : Seq((0 .. Modulus - 1) \cup {NoData}) ]
  BY <1>1, ElementOfSeq, LenProperties DEF IsPacket
<1> DEFINE s == [ i \in DOMAIN r.subs |-> Given(r.subs[i]) ]
<1>3. r.opt \in 0 .. 3 /\ Len(r.subs) \in Nat /\ DOMAIN r.subs = 1 .. Len(r.subs)
  BY <1>2, LenProperties
<1>4. \A i \in 1 .. Len(r.subs) : Given(r.subs[i]) \in Nat
  BY <1>2, ElementOfSeq, SizesAssumption DEF Given
<1>5. s \in Seq(Nat) /\ Len(s) = Len(r.subs)
  BY <1>3, <1>4
<1>6. \A i \in 1 .. Len(r.subs) : s[i] = Given(r.subs[i])
  BY <1>3
<1> HIDE DEF s
<1>7. PICK h \in Nat : h = 7 + 4 * r.opt
  BY <1>3
<1>8. PICK n \in Nat : n = Len(s)
  BY <1>3, <1>5
<1>9. PICK F : F = [ i \in 0 .. n |-> h + SumsUpTo(s)[i] ]
  OBVIOUS
<1>10. F[0] = h /\ Adds(F, s, n)
  BY <1>5, <1>8, <1>9, SumsFrom
<1>11. \A i \in 0 .. n : BytesUpTo(r, i) = F[i]
  BY <1>7, <1>9 DEF BytesUpTo, s
<1>12. 0 \in 0 .. n /\ \A i \in 1 .. n : i \in 0 .. n /\ i - 1 \in 0 .. n
  BY <1>8
<1>13. /\ BytesUpTo(r, 0) = h
       /\ \A i \in 0 .. n : BytesUpTo(r, i) \in Nat
       /\ \A i \in 1 .. n : BytesUpTo(r, i) = BytesUpTo(r, i - 1) + s[i]
       /\ \A i, j \in 0 .. n : i <= j => BytesUpTo(r, i) <= BytesUpTo(r, j)
  BY <1>10, <1>11, <1>12, Zenon DEF Adds
<1> QED
  BY <1>5, <1>6, <1>7, <1>8, <1>13, Zenon

LEMMA FrameSums ==
  ASSUME NEW p \in Packets
  PROVE  /\ FrameUpTo(p, 0) = InFront(p)
         /\ \A i \in 0 .. Len(p.recs) : FrameUpTo(p, i) \in Nat
         /\ \A i \in 1 .. Len(p.recs) : FrameUpTo(p, i) = FrameUpTo(p, i - 1) + Bytes(p.recs[i])
         /\ \A i, j \in 0 .. Len(p.recs) : i <= j => FrameUpTo(p, i) <= FrameUpTo(p, j)
<1>1. IsPacket(p)
  BY PacketsAssumption
<1> DEFINE s == [ i \in DOMAIN p.recs |-> Bytes(p.recs[i]) ]
<1>2. Len(p.recs) \in Nat /\ DOMAIN p.recs = 1 .. Len(p.recs)
  BY <1>1, LenProperties DEF IsPacket
<1>3. \A i \in 1 .. Len(p.recs) : Bytes(p.recs[i]) \in Nat
  <2> SUFFICES ASSUME NEW i \in 1 .. Len(p.recs)
               PROVE  Bytes(p.recs[i]) \in Nat
    OBVIOUS
  <2>1. PICK r : r = p.recs[i]
    OBVIOUS
  <2>2. r \in [ opt : 0 .. 3, subs : Seq((0 .. Modulus - 1) \cup {NoData}) ]
    BY <1>1, <2>1, ElementOfSeq, LenProperties DEF IsPacket
  <2>3. Len(r.subs) \in 0 .. Len(r.subs)
    BY <2>2, LenProperties
  <2>4. i \in DOMAIN p.recs
    BY <1>2
  <2> QED
    BY <2>1, <2>3, <2>4, RecordSums DEF Bytes
<1>4. s \in Seq(Nat) /\ Len(s) = Len(p.recs)
  BY <1>2, <1>3
<1>5. \A i \in 1 .. Len(p.recs) : s[i] = Bytes(p.recs[i])
  BY <1>2
<1>6. InFront(p) \in Nat
  BY <1>1, SizesAssumption DEF InFront, IsPacket
<1> HIDE DEF s
<1>7. PICK h \in Nat : h = InFront(p)
  BY <1>6
<1>8. PICK n \in Nat : n = Len(s)
  BY <1>2, <1>4
<1>9. PICK F : F = [ i \in 0 .. n |-> h + SumsUpTo(s)[i] ]
  OBVIOUS
<1>10. F[0] = h /\ Adds(F, s, n)
  BY <1>4, <1>8, <1>9, SumsFrom
<1>11. \A i \in 0 .. n : FrameUpTo(p, i) = F[i]
  BY <1>7, <1>9 DEF FrameUpTo, s
<1>12. 0 \in 0 .. n /\ \A i \in 1 .. n : i \in 0 .. n /\ i - 1 \in 0 .. n
  BY <1>8
<1>13. /\ FrameUpTo(p, 0) = h
       /\ \A i \in 0 .. n : FrameUpTo(p, i) \in Nat
       /\ \A i \in 1 .. n : FrameUpTo(p, i) = FrameUpTo(p, i - 1) + s[i]
       /\ \A i, j \in 0 .. n : i <= j => FrameUpTo(p, i) <= FrameUpTo(p, j)
  BY <1>10, <1>11, <1>12, Zenon DEF Adds
<1> QED
  BY <1>4, <1>5, <1>7, <1>8, <1>13, Zenon

(* What a uint16_t makes of a sum. *)
LEMMA Wrap ==
  ASSUME NEW n \in Nat
  PROVE  /\ U(n) \in 0 .. Modulus - 1 /\ U(n) <= n
         /\ n < Modulus => U(n) = n
BY SizesAssumption, Z3 DEF U

(* Between two multiples of eight there are eight, or none. *)
LEMMA Eights ==
  ASSUME NEW a \in Nat, NEW b \in Nat, a % 8 = 0, b % 8 = 0, a < b
  PROVE  a + 8 <= b
<1>1. a = 8 * (a \div 8) /\ b = 8 * (b \div 8) /\ a \div 8 \in Nat /\ b \div 8 \in Nat
  BY Z3
<1> QED
  BY <1>1, Z3

(* Full blocks below Modulus leave room for a header without a route and a  *)
(* checksum.                                                                *)
LEMMA Blocks ==
  ASSUME NEW n \in Nat
  PROVE  /\ Padding(n) \in 0 .. 7 /\ (n + Padding(n)) % 8 = 0
         /\ n + Padding(n) < Modulus => n + Padding(n) + 8 <= Modulus
<1>0. Padding(n) \in 0 .. 7
  BY Z3 DEF Padding
<1>1. (n + Padding(n)) % 8 = 0
  BY Z3 DEF Padding
<1>2. Modulus \in Nat /\ Modulus % 8 = 0
  BY SizesAssumption
<1>3. n + Padding(n) \in Nat
  BY <1>0
<1> QED
  BY <1>0, <1>1, <1>2, <1>3, Eights
-----------------------------------------------------------------------------
(* The packet's records, and the sums over all of it.                       *)
LEMMA PacketFacts ==
  ASSUME packet \in Packets
  PROVE  /\ IsPacket(packet)
         /\ Len(packet.recs) \in Nat /\ DOMAIN packet.recs = 1 .. Len(packet.recs)
         /\ Frame \in Nat /\ InFront(packet) \in Nat
         /\ FrameUpTo(packet, 0) = InFront(packet)
         /\ FrameUpTo(packet, Len(packet.recs)) = Frame
         /\ \A i \in 0 .. Len(packet.recs) :
              FrameUpTo(packet, i) \in Nat /\ FrameUpTo(packet, i) <= Frame
         /\ \A i \in 1 .. Len(packet.recs) :
              FrameUpTo(packet, i) = FrameUpTo(packet, i - 1) + Bytes(packet.recs[i])
<1>1. IsPacket(packet)
  BY PacketsAssumption
<1>2. Len(packet.recs) \in Nat /\ DOMAIN packet.recs = 1 .. Len(packet.recs)
  BY <1>1, LenProperties DEF IsPacket
<1>3. PICK p \in Packets : p = packet
  OBVIOUS
<1> QED
  BY <1>1, <1>2, <1>3, FrameSums DEF Frame

(* A record, its subrecords, and the sums over them.                        *)
LEMMA RecordSumsUp ==
  ASSUME NEW p \in Packets, NEW k \in DOMAIN p.recs, NEW r, r = p.recs[k]
  PROVE  /\ r.opt \in Nat /\ Len(r.subs) \in Nat
         /\ \A i \in 1 .. Len(r.subs) : r.subs[i] \in (0 .. Modulus - 1) \cup {NoData}
         /\ BytesUpTo(r, 0) = 7 + 4 * r.opt
         /\ Bytes(r) = BytesUpTo(r, Len(r.subs)) /\ Bytes(r) \in Nat
         /\ \A i \in 0 .. Len(r.subs) :
              BytesUpTo(r, i) \in Nat /\ 7 + 4 * r.opt <= BytesUpTo(r, i)
         /\ \A i \in 1 .. Len(r.subs) :
              BytesUpTo(r, i) = BytesUpTo(r, i - 1) + Given(r.subs[i])
<1>1. IsPacket(p)
  BY PacketsAssumption
<1>2. r \in [ opt : 0 .. 3, subs : Seq((0 .. Modulus - 1) \cup {NoData}) ]
  BY <1>1, ElementOfSeq, LenProperties DEF IsPacket
<1>3. /\ r.opt \in Nat /\ Len(r.subs) \in Nat
      /\ \A i \in 1 .. Len(r.subs) : r.subs[i] \in (0 .. Modulus - 1) \cup {NoData}
  BY <1>2, ElementOfSeq, LenProperties
<1>4. /\ BytesUpTo(r, 0) = 7 + 4 * r.opt
      /\ \A i \in 0 .. Len(r.subs) : BytesUpTo(r, i) \in Nat
      /\ \A i \in 1 .. Len(r.subs) : BytesUpTo(r, i) = BytesUpTo(r, i - 1) + Given(r.subs[i])
      /\ \A i, j \in 0 .. Len(r.subs) : i <= j => BytesUpTo(r, i) <= BytesUpTo(r, j)
  BY RecordSums
<1>5. \A i \in 0 .. Len(r.subs) : BytesUpTo(r, 0) <= BytesUpTo(r, i)
  BY <1>3, <1>4
<1> QED
  BY <1>3, <1>4, <1>5 DEF Bytes

(* The same of the record that is next.                                     *)
LEMMA RecordFacts ==
  ASSUME packet \in Packets, rec \in 1 .. Len(packet.recs)
  PROVE  /\ Record.opt \in Nat /\ Len(Record.subs) \in Nat
         /\ \A i \in 1 .. Len(Record.subs) : Record.subs[i] \in (0 .. Modulus - 1) \cup {NoData}
         /\ BytesUpTo(Record, 0) = 7 + 4 * Record.opt
         /\ Bytes(Record) = BytesUpTo(Record, Len(Record.subs)) /\ Bytes(Record) \in Nat
         /\ \A i \in 0 .. Len(Record.subs) :
              BytesUpTo(Record, i) \in Nat /\ 7 + 4 * Record.opt <= BytesUpTo(Record, i)
         /\ \A i \in 1 .. Len(Record.subs) :
              BytesUpTo(Record, i) = BytesUpTo(Record, i - 1) + Given(Record.subs[i])
<1>1. rec \in DOMAIN packet.recs
  BY PacketFacts
<1>2. PICK p \in Packets : p = packet
  OBVIOUS
<1>3. PICK k \in DOMAIN p.recs : k = rec
  BY <1>1, <1>2
<1>4. PICK r : r = p.recs[k]
  OBVIOUS
<1>5. r = Record
  BY <1>2, <1>3, <1>4 DEF Record
<1> HIDE DEF Record
<1> QED
  BY <1>4, <1>5, RecordSumsUp

(* The size of a record is a uint16_t.                                      *)
LEMMA SizeIsU16 ==
  ASSUME packet \in Packets, rec \in 1 .. Len(packet.recs), rl \in Nat
  PROVE  RecordSize \in 0 .. Modulus - 1
<1>1. PICK h \in Nat : h = 7 + 4 * Record.opt
  BY RecordFacts
<1>2. h + rl \in Nat
  OBVIOUS
<1> QED
  BY <1>1, <1>2, Wrap DEF RecordSize

(* While a sum is below Modulus, the size of a record is what it holds.      *)
LEMMA SizeIsExact ==
  ASSUME TypeOK, packet \in Packets, Counted, InRecord, Bytes(Record) < Modulus
  PROVE  RecordSize = Bytes(Record)
<1>1. rec \in 1 .. Len(packet.recs) /\ sub \in Nat /\ rl \in Nat
  BY PacketFacts DEF TypeOK, InRecord
<1>2. sub = Len(Record.subs) + 1 /\ sub - 1 = Len(Record.subs)
  BY <1>1, RecordFacts DEF Counted, InRecord
<1>3. rl = Bytes(Record) - (7 + 4 * Record.opt)
  BY <1>1, <1>2, RecordFacts DEF Counted, InRecord
<1>4. 7 + 4 * Record.opt + rl = Bytes(Record) /\ Bytes(Record) \in Nat
  BY <1>1, <1>3, RecordFacts
<1> QED
  BY <1>4, Wrap DEF RecordSize
-----------------------------------------------------------------------------
LEMMA InitInv == Init => EncoderInv
<1> SUFFICES ASSUME Init PROVE EncoderInv
  OBVIOUS
<1>1. /\ packet \in Packets /\ phase = "sizes" /\ rec = 1 /\ sub = 1 /\ rl = 0
      /\ ds_list = << >> /\ size = 0 /\ pos = 0 /\ frame_size = U(InFront(packet))
      /\ head = [ hl |-> 11, fdl |-> 0 ]
  BY DEF Init
<1>2. Modulus \in Nat /\ Modulus > 0 /\ frame_size \in 0 .. Modulus - 1
  BY <1>1, SizesAssumption, PacketFacts, Wrap
<1>3. TypeOK
  BY <1>1, <1>2, PacketFacts DEF TypeOK
<1>4. Counted
  <2> SUFFICES ASSUME rec <= Len(packet.recs) PROVE Counted
    BY DEF Counted
  <2>1. rec \in 1 .. Len(packet.recs) /\ sub - 1 = 0
    BY <1>1, PacketFacts
  <2> QED
    BY <1>1, <2>1, RecordFacts DEF Counted
<1>5. Summed
  BY <1>1, PacketFacts, Wrap DEF Summed
<1>6. Recorded
  BY <1>1 DEF Recorded
<1> QED
  BY <1>1, <1>3, <1>4, <1>5, <1>6 DEF EncoderInv, BufferHolds

(* Nothing but the phase changes: what is left to show is why.              *)
LEMMA EndKeeps ==
  ASSUME EncoderInv, NEW p \in {"done", "failed", "overrun"}, EndWith(p),
         p = "done" => phase = "copy" /\ (Frame <= MaxFrame => pos = Frame),
         p = "failed" => ~Encodable \/ Frame > MaxFrame,
         p = "overrun" => Frame > MaxFrame
  PROVE  EncoderInv'
<1>1. /\ phase' = p /\ packet' = packet /\ rec' = rec /\ sub' = sub /\ rl' = rl
      /\ ds_list' = ds_list /\ frame_size' = frame_size /\ head' = head
      /\ size' = size /\ pos' = pos
  BY DEF EndWith
<1>2. TypeOK'
  BY <1>1 DEF EncoderInv, TypeOK
<1>3. Frame' = Frame /\ Encodable' = Encodable
  BY <1>1 DEF Frame, Encodable
<1>4. phase' \in {"copy", "done"} => Allocated'
  BY <1>1, <1>3 DEF EncoderInv, Allocated, PadIfEncrypted, Unnoticed
<1>5. BufferHolds'
  BY <1>1, <1>3 DEF BufferHolds
<1> QED
  BY <1>1, <1>2, <1>3, <1>4, <1>5 DEF EncoderInv

LEMMA RefuseTypeKeeps == ASSUME EncoderInv, RefuseType PROVE EncoderInv'
<1>1. ~Encodable
  BY DEF RefuseType, Typed, Encodable
<1> QED
  BY <1>1, EndKeeps DEF RefuseType

LEMMA LoseSubrecordKeeps == ASSUME EncoderInv, LoseSubrecord PROVE EncoderInv'
<1>1. rec \in 1 .. Len(packet.recs) /\ sub \in 1 .. Len(Record.subs)
  BY PacketFacts, RecordFacts DEF EncoderInv, TypeOK, LoseSubrecord, InSubrecords
<1>2. packet.recs[rec].subs[sub] = NoData /\ sub \in DOMAIN packet.recs[rec].subs
  BY <1>1, PacketFacts, LenProperties, ElementOfSeq DEF LoseSubrecord, Record, IsPacket
<1>3. NoData \in Range(packet.recs[rec].subs)
  BY <1>2 DEF Range
<1>4. ~Encodable
  BY <1>1, <1>3, PacketFacts DEF Encodable, EncoderInv
<1> QED
  BY <1>4, EndKeeps DEF LoseSubrecord

(* A record that does not fit the buffer made for it has more than Modulus  *)
(* bytes, and so has the frame.                                             *)
LEMMA OverrunRecordKeeps == ASSUME EncoderInv, OverrunRecord PROVE EncoderInv'
<1>1. rec \in 1 .. Len(packet.recs) /\ Bytes(Record) \in Nat
  BY PacketFacts, RecordFacts DEF EncoderInv, TypeOK, OverrunRecord, InRecord
<1>2. Counted
  BY DEF EncoderInv, OverrunRecord, InRecord, Typed
<1>3. Bytes(Record) >= Modulus
  <2> SUFFICES ASSUME Bytes(Record) < Modulus PROVE FALSE
    BY <1>1, SizesAssumption
  <2> QED
    BY <1>1, <1>2, SizeIsExact DEF EncoderInv, OverrunRecord
<1>4. FrameUpTo(packet, rec) = FrameUpTo(packet, rec - 1) + Bytes(Record)
  BY <1>1, PacketFacts DEF EncoderInv, Record
<1>5. Frame > MaxFrame
  <2>1. rec \in 0 .. Len(packet.recs) /\ rec - 1 \in 0 .. Len(packet.recs)
    BY <1>1, PacketFacts DEF EncoderInv
  <2>2. /\ FrameUpTo(packet, rec) <= Frame /\ Frame \in Nat
        /\ FrameUpTo(packet, rec) \in Nat /\ FrameUpTo(packet, rec - 1) \in Nat
    BY <2>1, PacketFacts DEF EncoderInv
  <2> QED
    BY <1>1, <1>3, <1>4, <2>2, SizesAssumption
<1> QED
  BY <1>5, EndKeeps DEF OverrunRecord

(* As long as the sum over the records has not reached Modulus the next     *)
(* record is added to it with its true size.                                *)
LEMMA SumIsExact ==
  ASSUME EncoderInv, InRecord, Bytes(Record) <= RecordSize,
         FrameUpTo(packet, rec) < Modulus
  PROVE  U(frame_size + RecordSize) = FrameUpTo(packet, rec)
<1>1. rec \in 1 .. Len(packet.recs) /\ rec - 1 \in 0 .. Len(packet.recs)
      /\ rec \in 0 .. Len(packet.recs)
  BY PacketFacts DEF EncoderInv, TypeOK, InRecord
<1>2. /\ FrameUpTo(packet, rec) = FrameUpTo(packet, rec - 1) + Bytes(Record)
      /\ FrameUpTo(packet, rec) \in Nat /\ FrameUpTo(packet, rec - 1) \in Nat
      /\ Bytes(Record) \in Nat
  BY <1>1, PacketFacts, RecordFacts DEF EncoderInv, Record
<1>3. Counted /\ Summed /\ Modulus \in Nat
  BY SizesAssumption DEF EncoderInv, InRecord, Typed
<1>4. Bytes(Record) < Modulus /\ FrameUpTo(packet, rec - 1) < Modulus
  BY <1>2, <1>3
<1>5. RecordSize = Bytes(Record)
  BY <1>3, <1>4, SizeIsExact DEF EncoderInv
<1>6. frame_size + RecordSize = FrameUpTo(packet, rec)
  BY <1>2, <1>3, <1>4, <1>5 DEF Summed
<1> QED
  BY <1>2, <1>6, Wrap

LEMMA RefuseSizeKeeps == ASSUME EncoderInv, RefuseSize PROVE EncoderInv'
<1>1. rec \in 1 .. Len(packet.recs) /\ rec \in 0 .. Len(packet.recs)
  BY PacketFacts DEF EncoderInv, TypeOK, RefuseSize, InRecord
<1>2. /\ FrameUpTo(packet, rec) \in Nat /\ Frame \in Nat
      /\ FrameUpTo(packet, rec) <= Frame
  BY <1>1, PacketFacts DEF EncoderInv
<1>3. Frame > MaxFrame
  <2> SUFFICES ASSUME Frame <= MaxFrame PROVE FALSE
    BY <1>2, SizesAssumption
  <2>1. FrameUpTo(packet, rec) < Modulus /\ FrameUpTo(packet, rec) <= MaxFrame
    BY <1>2, SizesAssumption
  <2>2. U(frame_size + RecordSize) = FrameUpTo(packet, rec)
    BY <2>1, SumIsExact DEF RefuseSize
  <2> QED
    BY <1>2, <2>1, <2>2, SizesAssumption DEF RefuseSize, TooLong
<1> QED
  BY <1>3, EndKeeps DEF RefuseSize

LEMMA AddSubrecordKeeps == ASSUME EncoderInv, AddSubrecord PROVE EncoderInv'
<1>1. /\ phase = "sizes" /\ phase' = phase /\ packet' = packet /\ rec' = rec
      /\ sub' = sub + 1 /\ rl' = U(rl + Record.subs[sub]) /\ ds_list' = ds_list
      /\ frame_size' = frame_size /\ head' = head /\ size' = size /\ pos' = pos
      /\ Record.subs[sub] # NoData
  BY DEF AddSubrecord, InSubrecords, Typed
<1>2. /\ rec \in 1 .. Len(packet.recs) /\ sub \in 1 .. Len(Record.subs)
      /\ sub - 1 \in 0 .. Len(Record.subs) /\ sub \in 0 .. Len(Record.subs)
      /\ Len(Record.subs) \in Nat /\ rl \in Nat
  BY PacketFacts, RecordFacts DEF EncoderInv, TypeOK, AddSubrecord, InSubrecords
<1>3. Record.subs[sub] \in Nat /\ Given(Record.subs[sub]) = Record.subs[sub]
  BY <1>1, <1>2, RecordFacts DEF EncoderInv, Given
<1>4. U(rl + Record.subs[sub]) \in 0 .. Modulus - 1
  <2>1. rl + Record.subs[sub] \in Nat
    BY <1>2, <1>3
  <2> QED
    BY <2>1, Wrap
<1>5. TypeOK'
  BY <1>1, <1>2, <1>4 DEF EncoderInv, TypeOK
<1>6. Record' = Record
  BY <1>1 DEF Record
<1>7. BytesUpTo(Record, sub) < Modulus =>
        U(rl + Record.subs[sub]) = BytesUpTo(Record, sub) - (7 + 4 * Record.opt)
  <2> SUFFICES ASSUME BytesUpTo(Record, sub) < Modulus
               PROVE  U(rl + Record.subs[sub]) = BytesUpTo(Record, sub) - (7 + 4 * Record.opt)
    OBVIOUS
  <2>1. /\ BytesUpTo(Record, sub) = BytesUpTo(Record, sub - 1) + Record.subs[sub]
        /\ BytesUpTo(Record, sub) \in Nat /\ BytesUpTo(Record, sub - 1) \in Nat
        /\ Record.opt \in Nat /\ 7 + 4 * Record.opt <= BytesUpTo(Record, sub)
    BY <1>2, <1>3, RecordFacts DEF EncoderInv
  <2>2. BytesUpTo(Record, sub - 1) < Modulus
    BY <1>3, <2>1, SizesAssumption
  <2>3. rl = BytesUpTo(Record, sub - 1) - (7 + 4 * Record.opt)
    BY <1>1, <1>2, <2>2, PacketFacts DEF EncoderInv, Counted
  <2>4. PICK given \in Nat : given = Record.subs[sub]
    BY <1>3
  <2>5. PICK h \in Nat : h = 7 + 4 * Record.opt
    BY <2>1
  <2>6. PICK m \in Nat, n \in Nat : m = BytesUpTo(Record, sub - 1) /\ n = BytesUpTo(Record, sub)
    BY <2>1
  <2>7. n = m + given /\ n < Modulus /\ rl = m - h /\ rl \in Nat
    BY <1>2, <2>1, <2>3, <2>4, <2>5, <2>6
  <2>8. rl + given = n - h /\ rl + given < Modulus /\ rl + given \in Nat
    BY <2>7, SizesAssumption
  <2> QED
    BY <2>8, <2>4, <2>5, <2>6, Wrap
<1>8. Counted'
  <2>1. sub' - 1 = sub /\ sub' <= Len(Record.subs) + 1
    BY <1>1, <1>2
  <2> QED
    BY <1>1, <1>6, <1>7, <2>1 DEF Counted
<1>9. Summed' /\ Recorded'
  BY <1>1 DEF EncoderInv, Summed, Recorded
<1> QED
  BY <1>1, <1>5, <1>8, <1>9 DEF EncoderInv, BufferHolds

LEMMA AddRecordKeeps == ASSUME EncoderInv, AddRecord PROVE EncoderInv'
<1>1. /\ phase = "sizes" /\ phase' = phase /\ packet' = packet /\ rec' = rec + 1
      /\ sub' = 1 /\ rl' = 0 /\ ds_list' = Append(ds_list, RecordSize)
      /\ frame_size' = U(frame_size + RecordSize) /\ head' = head /\ size' = size
      /\ pos' = pos /\ ~(U(frame_size + RecordSize) > MaxFrame)
      /\ InRecord /\ Bytes(Record) <= RecordSize
  BY DEF AddRecord, InRecord, Typed, TooLong
<1>2. /\ rec \in 1 .. Len(packet.recs) /\ rec \in 0 .. Len(packet.recs)
      /\ rec - 1 \in 0 .. Len(packet.recs) /\ Len(packet.recs) \in Nat
      /\ packet \in Packets /\ rl \in Nat /\ frame_size \in Nat
  BY <1>1, PacketFacts DEF EncoderInv, TypeOK, InRecord
<1>3. RecordSize \in 0 .. Modulus - 1 /\ frame_size' \in 0 .. Modulus - 1
  <2>1. RecordSize \in 0 .. Modulus - 1
    BY <1>2, SizeIsU16
  <2>2. frame_size + RecordSize \in Nat
    BY <1>2, <2>1, SizesAssumption
  <2> QED
    BY <1>1, <2>1, <2>2, Wrap
<1>4. frame_size' <= MaxFrame
  BY <1>1, <1>3, SizesAssumption
<1>5. ds_list \in Seq(0 .. Modulus - 1) /\ Recorded
  BY <1>1 DEF EncoderInv, TypeOK
<1>6. /\ ds_list' \in Seq(0 .. Modulus - 1) /\ Len(ds_list') = rec
      /\ \A i \in 1 .. rec - 1 : ds_list'[i] = ds_list[i]
      /\ ds_list'[rec] = RecordSize
  BY <1>1, <1>2, <1>3, <1>5, AppendProperties, LenProperties DEF Recorded
<1>7. TypeOK'
  BY <1>1, <1>2, <1>3, <1>6, SizesAssumption DEF EncoderInv, TypeOK
<1>8. RecordSize = Bytes(Record)
  <2>1. Bytes(Record) \in Nat
    BY <1>2, RecordFacts
  <2>2. Bytes(Record) < Modulus
    BY <1>1, <1>3, <2>1, SizesAssumption
  <2> QED
    BY <1>1, <2>2, SizeIsExact DEF EncoderInv
<1>9. Recorded'
  BY <1>1, <1>2, <1>5, <1>6, <1>8 DEF Recorded, Record
<1>10. Summed'
  <2>1. rec' - 1 = rec
    BY <1>1, <1>2
  <2> QED
    BY <1>1, <1>4, <2>1, SumIsExact DEF Summed
<1>11. Counted'
  <2> SUFFICES ASSUME rec' <= Len(packet.recs) PROVE Counted'
    BY <1>1 DEF Counted
  <2>1. rec' \in DOMAIN packet.recs
    BY <1>1, <1>2, PacketFacts
  <2>2. PICK p \in Packets : p = packet
    BY <1>2
  <2>3. PICK k \in DOMAIN p.recs : k = rec'
    BY <2>1, <2>2
  <2>4. PICK r : r = p.recs[k]
    OBVIOUS
  <2>5. r = Record'
    BY <1>1, <2>2, <2>3, <2>4 DEF Record
  <2>6. BytesUpTo(r, 0) = 7 + 4 * r.opt /\ r.opt \in Nat /\ Len(r.subs) \in Nat
    BY <2>4, RecordSumsUp
  <2>7. PICK h \in Nat : h = 7 + 4 * r.opt
    BY <2>6
  <2>8. sub' <= Len(r.subs) + 1 /\ sub' - 1 = 0 /\ rl' = h - h
    BY <1>1, <2>6
  <2> QED
    BY <2>5, <2>6, <2>7, <2>8 DEF Counted
<1> QED
  BY <1>1, <1>7, <1>9, <1>10, <1>11 DEF EncoderInv, BufferHolds

(* A frame within the limit: header, route, padding and checksum do not     *)
(* carry the size over Modulus, but in the one case.                        *)
LEMMA RoomAboveLimit ==
  ASSUME packet \in Packets, Frame <= MaxFrame, ~NoRoomForPadding
  PROVE  /\ PadIfEncrypted \in 0 .. 7
         /\ Frame + PadIfEncrypted < Modulus
         /\ (IF packet.rte THEN 16 ELSE 11) + FrameBytes(Frame + PadIfEncrypted) < Modulus
<1>1. Frame \in Nat /\ Frame + 18 < Modulus /\ Modulus \in Nat
  BY PacketFacts, SizesAssumption
<1>2. /\ PadIfEncrypted \in 0 .. 7
      /\ packet.ena # 1 => PadIfEncrypted = 0
      /\ packet.ena = 1 => PadIfEncrypted = Padding(Frame)
      /\ Padding(Frame) \in 0 .. 7
  BY <1>1, Blocks DEF PadIfEncrypted
<1>3. Frame + PadIfEncrypted < Modulus
  BY <1>1, <1>2
<1>4. packet.ena = 1 => Frame + PadIfEncrypted + 8 <= Modulus
  BY <1>1, <1>2, <1>3, Blocks
<1>5. packet.ena = 1 => Frame + PadIfEncrypted + 16 <= Modulus
  <2> SUFFICES ASSUME packet.ena = 1 PROVE Frame + Padding(Frame) + 16 <= Modulus
    BY <1>2
  <2>1. PICK n \in Nat : n = Frame + Padding(Frame)
    BY <1>1, <1>2
  <2>2. n % 8 = 0 /\ n + 8 < Modulus
    BY <1>1, <1>2, <2>1, Blocks
  <2>3. (n + 8) % 8 = 0 /\ n + 8 \in Nat
    BY <2>2, Z3
  <2>4. n + 8 + 8 <= Modulus
    BY <2>2, <2>3, Eights, SizesAssumption
  <2> QED
    BY <2>1, <2>4
<1>6. packet.rte /\ packet.ena = 1 => 16 + Frame + PadIfEncrypted + 2 < Modulus
  BY <1>1, <1>2 DEF NoRoomForPadding
<1> QED
  BY <1>1, <1>2, <1>3, <1>5, <1>6, PacketFacts DEF FrameBytes, CrcSize, IsPacket

LEMMA AllocateKeeps == ASSUME EncoderInv, Allocate PROVE EncoderInv'
<1>1. PICK hl : hl = IF packet.rte THEN 16 ELSE 11
  OBVIOUS
<1>2. PICK fdl : fdl = U(frame_size + (IF packet.ena = 1 THEN Padding(frame_size) ELSE 0))
  OBVIOUS
<1>3. PICK needs : needs = hl + FrameBytes(fdl)
  OBVIOUS
<1>4. /\ phase = "sizes" /\ rec > Len(packet.recs)
      /\ head' = [ hl |-> hl, fdl |-> fdl ] /\ size' = U(needs)
      /\ pos' = (IF fdl = 0 THEN 0 ELSE U(InFront(packet))) /\ rec' = 1
      /\ phase' = (IF U(needs) < needs \/ (fdl > 0 /\ InFront(packet) > fdl) THEN "overrun"
                   ELSE IF fdl = 0 THEN "done" ELSE "copy")
      /\ packet' = packet /\ sub' = sub /\ rl' = rl /\ ds_list' = ds_list
      /\ frame_size' = frame_size
  BY <1>1, <1>2, <1>3 DEF Allocate, Typed
<1>5. /\ packet \in Packets /\ Summed /\ Recorded /\ frame_size \in Nat
      /\ rec = Len(packet.recs) + 1 /\ rec - 1 = Len(packet.recs)
      /\ Len(packet.recs) \in Nat /\ Frame \in Nat /\ InFront(packet) \in Nat
      /\ FrameUpTo(packet, rec - 1) = Frame /\ InFront(packet) <= Frame
      /\ Modulus \in Nat /\ MaxFrame \in Nat /\ MaxFrame < Modulus
  <2>1. /\ packet \in Packets /\ Summed /\ Recorded
        /\ frame_size \in Nat /\ rec \in 1 .. Len(packet.recs) + 1
    BY <1>4, SizesAssumption DEF EncoderInv, TypeOK
  <2>2. Len(packet.recs) \in Nat /\ 0 \in 0 .. Len(packet.recs)
    BY <2>1, PacketFacts
  <2>3. rec = Len(packet.recs) + 1 /\ rec - 1 = Len(packet.recs)
    BY <1>4, <2>1, <2>2
  <2>4. /\ Frame \in Nat /\ InFront(packet) \in Nat
        /\ FrameUpTo(packet, Len(packet.recs)) = Frame /\ InFront(packet) <= Frame
    BY <2>1, <2>2, PacketFacts
  <2> QED
    BY <2>1, <2>2, <2>3, <2>4, SizesAssumption
<1>6. fdl \in 0 .. Modulus - 1
  <2>1. frame_size + (IF packet.ena = 1 THEN Padding(frame_size) ELSE 0) \in Nat
    <3>1. Padding(frame_size) \in 0 .. 7
      BY <1>5, Blocks
    <3> QED
      BY <1>5, <3>1
  <2> QED
    BY <1>2, <2>1, Wrap
<1>7. hl \in {11, 16} /\ needs \in Nat
  BY <1>1, <1>3, <1>5, <1>6 DEF FrameBytes, CrcSize
<1>8. /\ head'.hl = hl /\ head'.fdl = fdl
      /\ size' \in 0 .. Modulus - 1 /\ pos' \in 0 .. Modulus - 1
  BY <1>4, <1>5, <1>7, Wrap
<1>9. TypeOK'
  BY <1>4, <1>5, <1>6, <1>7, <1>8 DEF EncoderInv, TypeOK
<1>10. Frame' = Frame /\ PadIfEncrypted' = PadIfEncrypted
       /\ NoRoomForPadding' = NoRoomForPadding
  BY <1>4 DEF Frame, PadIfEncrypted, NoRoomForPadding
<1>11. ASSUME Frame <= MaxFrame
       PROVE  frame_size = Frame
  BY <1>5, <1>11 DEF Summed
<1>12. ASSUME Frame <= MaxFrame, Frame + PadIfEncrypted < Modulus, PadIfEncrypted \in 0 .. 7
       PROVE  fdl = Frame + PadIfEncrypted
  <2>1. fdl = U(Frame + PadIfEncrypted)
    BY <1>2, <1>11, <1>12 DEF PadIfEncrypted
  <2>2. Frame + PadIfEncrypted \in Nat
    BY <1>5, <1>12
  <2> QED
    BY <1>12, <2>1, <2>2, Wrap
<1>13. ASSUME Frame <= MaxFrame
       PROVE  Frame + PadIfEncrypted < Modulus /\ PadIfEncrypted \in 0 .. 7
  <2>1. PadIfEncrypted \in 0 .. 7
    BY <1>5, Blocks DEF PadIfEncrypted
  <2> QED
    BY <1>5, <1>13, <2>1, SizesAssumption
<1>14. BufferHolds'
  <2> SUFFICES ASSUME Frame <= MaxFrame, ~NoRoomForPadding PROVE phase' # "overrun"
    BY <1>5, <1>10 DEF BufferHolds
  <2>1. fdl = Frame + PadIfEncrypted /\ needs < Modulus
    BY <1>1, <1>3, <1>5, <1>12, RoomAboveLimit
  <2>2. U(needs) = needs /\ InFront(packet) <= fdl
    <3>1. U(needs) = needs
      BY <1>7, <2>1, Wrap
    <3>2. Frame <= fdl
      BY <1>5, <1>13, <2>1
    <3> QED
      BY <1>5, <1>6, <3>1, <3>2
  <2> QED
    BY <1>4, <1>5, <1>6, <1>7, <2>2
<1>15. ASSUME phase' # "overrun"
       PROVE  Allocated'
  <2>1. U(needs) = needs
    BY <1>4, <1>7, <1>15, Wrap, SizesAssumption
  <2>2. size' = head'.hl + FrameBytes(head'.fdl)
    BY <1>3, <1>4, <1>8, <2>1
  <2>3. Unnoticed
    <3> SUFFICES ASSUME Frame > MaxFrame, packet.recs # << >>,
                        FrameUpTo(packet, Len(packet.recs)) < Modulus
                 PROVE  FALSE
      BY <1>5 DEF Unnoticed
    <3>1. rec > 1
      <4>1. Len(packet.recs) # 0
        BY <1>5, PacketFacts, EmptySeq DEF IsPacket
      <4> QED
        BY <1>5, <4>1
    <3> QED
      BY <1>5, <3>1 DEF Summed
  <2>4. Unnoticed'
    BY <1>4, <1>10, <2>3 DEF Unnoticed
  <2>5. Frame <= MaxFrame => head'.fdl = Frame + PadIfEncrypted
    BY <1>8, <1>12, <1>13
  <2> QED
    BY <1>1, <1>4, <1>8, <1>10, <2>2, <2>4, <2>5 DEF Allocated
<1>16. ASSUME phase' = "copy"
       PROVE  Copied'
  <2>1. Frame <= MaxFrame => pos' = FrameUpTo(packet, 0)
    <3>1. fdl # 0 /\ FrameUpTo(packet, 0) = InFront(packet)
      BY <1>4, <1>5, <1>16, PacketFacts
    <3> QED
      BY <1>4, <1>5, <3>1, Wrap
  <2>2. rec' - 1 = 0 /\ DOMAIN packet.recs = 1 .. Len(packet.recs)
    BY <1>4, <1>5, PacketFacts
  <2> QED
    BY <1>4, <1>5, <1>10, <2>1, <2>2 DEF Copied, Recorded
<1>17. phase' = "done" /\ Frame <= MaxFrame => pos' = Frame
  <2> SUFFICES ASSUME phase' = "done", Frame <= MaxFrame PROVE pos' = Frame
    OBVIOUS
  <2>1. fdl = 0
    BY <1>4
  <2> QED
    BY <1>4, <1>5, <1>12, <1>13, <2>1
<1> QED
  BY <1>4, <1>5, <1>9, <1>10, <1>14, <1>15, <1>16, <1>17 DEF EncoderInv

LEMMA CopyRecordKeeps == ASSUME EncoderInv, CopyRecord PROVE EncoderInv'
<1>1. /\ phase = "copy" /\ rec <= Len(ds_list) /\ rec' = rec + 1
      /\ pos' = U(pos + ds_list[rec])
      /\ phase' \in {"copy", "overrun"}
      /\ ~(pos + ds_list[rec] > head.fdl) => phase' = "copy"
      /\ packet' = packet /\ sub' = sub /\ rl' = rl /\ ds_list' = ds_list
      /\ frame_size' = frame_size /\ head' = head /\ size' = size
  BY DEF CopyRecord
<1>2. /\ packet \in Packets /\ Copied /\ Allocated
      /\ Len(packet.recs) \in Nat /\ rec \in 1 .. Len(packet.recs)
      /\ rec \in 0 .. Len(packet.recs) /\ rec - 1 \in 0 .. Len(packet.recs)
      /\ DOMAIN packet.recs = 1 .. Len(packet.recs)
      /\ head.fdl \in Nat /\ pos \in Nat
  BY <1>1, PacketFacts, SizesAssumption DEF EncoderInv, TypeOK, Copied
<1>3. ds_list[rec] \in Nat /\ ds_list[rec] = Bytes(packet.recs[rec])
  BY <1>1, <1>2, RecordFacts DEF Copied, Record
<1>4. pos' \in 0 .. Modulus - 1
  <2>1. pos + ds_list[rec] \in Nat
    BY <1>2, <1>3
  <2> QED
    BY <1>1, <2>1, Wrap
<1>5. TypeOK'
  BY <1>1, <1>2, <1>4, SMTT(30) DEF EncoderInv, TypeOK
<1>6. Frame' = Frame /\ NoRoomForPadding' = NoRoomForPadding /\ Allocated'
  BY <1>1, <1>2 DEF Frame, NoRoomForPadding, Allocated, PadIfEncrypted, Unnoticed
<1>7. ASSUME Frame <= MaxFrame
      PROVE  pos' = FrameUpTo(packet, rec) /\ phase' = "copy"
  <2>1. pos + ds_list[rec] = FrameUpTo(packet, rec)
    BY <1>2, <1>3, <1>7, PacketFacts DEF Copied
  <2>2. /\ FrameUpTo(packet, rec) \in Nat /\ FrameUpTo(packet, rec) <= Frame
        /\ Frame \in Nat /\ FrameUpTo(packet, rec) < Modulus
    <3>1. /\ FrameUpTo(packet, rec) \in Nat /\ Frame \in Nat
          /\ FrameUpTo(packet, rec) <= Frame
      BY <1>2, PacketFacts
    <3> QED
      BY <1>7, <3>1, SizesAssumption
  <2>3. head.fdl = Frame + PadIfEncrypted /\ PadIfEncrypted \in 0 .. 7
    BY <1>2, <1>7, <2>2, Blocks DEF Allocated, PadIfEncrypted
  <2>4. Frame <= head.fdl
    BY <2>2, <2>3
  <2>5. ~(pos + ds_list[rec] > head.fdl)
    BY <1>2, <2>1, <2>2, <2>4
  <2>6. pos' = FrameUpTo(packet, rec)
    BY <1>1, <2>1, <2>2, Wrap
  <2> QED
    BY <1>1, <2>5, <2>6
<1>8. Copied'
  BY <1>1, <1>2, <1>6, <1>7 DEF Copied
<1>9. BufferHolds'
  BY <1>1, <1>2, <1>6, <1>7, PacketFacts, SizesAssumption DEF BufferHolds
<1> QED
  BY <1>1, <1>2, <1>5, <1>6, <1>8, <1>9 DEF EncoderInv

LEMMA CloseKeeps == ASSUME EncoderInv, Close PROVE EncoderInv'
<1>1. /\ phase = "copy" /\ packet \in Packets /\ Copied
      /\ rec = Len(packet.recs) + 1 /\ Len(packet.recs) \in Nat
  BY PacketFacts DEF Close, EncoderInv, TypeOK, Copied
<1>2. rec - 1 = Len(packet.recs)
  BY <1>1
<1>3. Frame <= MaxFrame => pos = Frame
  BY <1>1, <1>2, PacketFacts DEF Copied
<1> QED
  BY <1>1, <1>3, EndKeeps DEF Close
-----------------------------------------------------------------------------
LEMMA NextKeeps == EncoderInv /\ [Next]_vars => EncoderInv'
<1> SUFFICES ASSUME EncoderInv, [Next]_vars PROVE EncoderInv'
  OBVIOUS
<1>1. CASE RefuseType
  BY <1>1, RefuseTypeKeeps
<1>2. CASE LoseSubrecord
  BY <1>2, LoseSubrecordKeeps
<1>3. CASE AddSubrecord
  BY <1>3, AddSubrecordKeeps
<1>4. CASE OverrunRecord
  BY <1>4, OverrunRecordKeeps
<1>5. CASE AddRecord
  BY <1>5, AddRecordKeeps
<1>6. CASE RefuseSize
  BY <1>6, RefuseSizeKeeps
<1>7. CASE Allocate
  BY <1>7, AllocateKeeps
<1>8. CASE CopyRecord
  BY <1>8, CopyRecordKeeps
<1>9. CASE Close
  BY <1>9, CloseKeeps
<1>10. CASE UNCHANGED vars
  <2>1. /\ packet' = packet /\ phase' = phase /\ rec' = rec /\ sub' = sub /\ rl' = rl
        /\ ds_list' = ds_list /\ frame_size' = frame_size /\ head' = head
        /\ size' = size /\ pos' = pos
    BY <1>10 DEF vars
  <2>2. /\ TypeOK' = TypeOK /\ Frame' = Frame /\ NoRoomForPadding' = NoRoomForPadding
        /\ Encodable' = Encodable
    BY <2>1 DEF TypeOK, Frame, NoRoomForPadding, Encodable
  <2>3. Counted' = Counted /\ Summed' = Summed /\ Recorded' = Recorded
    BY <2>1 DEF Counted, Summed, Recorded, Record
  <2>4. Allocated' = Allocated /\ Copied' = Copied
    BY <2>1, <2>2 DEF Allocated, Unnoticed, PadIfEncrypted, Copied, NoRoomForPadding
  <2> QED
    BY <2>1, <2>2, <2>3, <2>4 DEF EncoderInv, BufferHolds
<1> QED
  BY <1>1, <1>2, <1>3, <1>4, <1>5, <1>6, <1>7, <1>8, <1>9, <1>10 DEF Next

THEOREM InvHolds == Spec => []EncoderInv
BY InitInv, NextKeeps, PTL DEF Spec

(* The variables keep their types: no offset and no size is wider than the  *)
(* uint16_t it is kept in.                                                  *)
THEOREM TypeCorrect == Spec => []TypeOK
<1>1. EncoderInv => TypeOK
  BY DEF EncoderInv
<1> QED
  BY <1>1, InvHolds, PTL

(* As long as the frame is within EGTS_MAX_FRAME_SIZE, nothing is written   *)
(* behind the buffers of the records or of the packet.                      *)
THEOREM BuffersHold == Spec => []BufferHolds
<1>1. EncoderInv => BufferHolds
  BY DEF EncoderInv
<1> QED
  BY <1>1, InvHolds, PTL

(* A packet that can be encoded is refused only over the limit, and one     *)
(* over the limit is written only if a sum passed 65535, or no sum was      *)
(* compared.                                                                *)
THEOREM LimitIsExact == Spec => []LimitDecides
<1>1. EncoderInv => LimitDecides
  BY DEF EncoderInv, LimitDecides, Allocated, Unnoticed
<1> QED
  BY <1>1, InvHolds, PTL

(* In a packet that is written the bytes copied, fdl and *size agree.       *)
THEOREM WrittenWhole == Spec => []LengthsAgree
<1>1. ASSUME EncoderInv PROVE LengthsAgree
  <2> SUFFICES ASSUME phase = "done", Frame <= MaxFrame
               PROVE  /\ pos = Frame
                      /\ head.fdl - Frame \in 0 .. (IF packet.ena = 1 THEN 7 ELSE 0)
                      /\ packet.ena = 1 => head.fdl % 8 = 0
                      /\ size = (IF packet.rte THEN 16 ELSE 11) + FrameBytes(head.fdl)
    BY DEF LengthsAgree
  <2>1. Allocated /\ pos = Frame /\ Frame \in Nat
    BY <1>1, PacketFacts DEF EncoderInv
  <2>2. PICK pad : pad = PadIfEncrypted
    OBVIOUS
  <2>3. pad \in 0 .. 7 /\ (packet.ena # 1 => pad = 0) /\ (packet.ena = 1 => (Frame + pad) % 8 = 0)
    BY <2>1, <2>2, Blocks DEF PadIfEncrypted
  <2>4. head.fdl = Frame + pad
    BY <2>1, <2>2 DEF Allocated
  <2>5. head.fdl - Frame = pad
    BY <2>1, <2>3, <2>4
  <2> QED
    BY <2>1, <2>3, <2>4, <2>5 DEF Allocated
<1> QED
  BY <1>1, InvHolds, PTL

(* What SetData requires of a packet that was written is its size, and five *)
(* bytes more if it has a route.                                            *)
THEOREM ReaderAgrees == Spec => []ReaderWantsWhatIsWritten
<1>1. ASSUME EncoderInv PROVE ReaderWantsWhatIsWritten
  <2> SUFFICES ASSUME phase = "done"
               PROVE  PackSize([ hl |-> head.hl, rte |-> packet.rte, fdl |-> head.fdl ])
                        = size + (IF packet.rte THEN RouteSize ELSE 0)
    BY DEF ReaderWantsWhatIsWritten
  <2>1. /\ size = head.hl + FrameBytes(head.fdl) /\ head.hl \in Nat /\ head.fdl \in Nat
        /\ FrameBytes(head.fdl) \in Nat
    BY <1>1, SizesAssumption DEF EncoderInv, Allocated, TypeOK, FrameBytes, CrcSize
  <2> QED
    BY <2>1 DEF PackSize, RouteSize
<1> QED
  BY <1>1, InvHolds, PTL
=============================================================================
