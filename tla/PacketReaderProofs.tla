------------------------- MODULE PacketReaderProofs -------------------------
(***************************************************************************)
(* What holds of PacketReader for every set of streams and both builds.    *)
(*                                                                         *)
(* All proofs go through the lemma OutcomeOfReceive: whatever SetData      *)
(* finds, it either gives up bytes in front of the first header or takes   *)
(* one packet whole. The invariants and the refinement then need one step  *)
(* for each of these two, not one for each return of SetData.              *)
(***************************************************************************)
EXTENDS PacketReader, SequenceTheorems, TLAPS

(* Bytes are freed in front of which no header lies; nothing is read. *)
GiveUp ==
  /\ freed' \in freed .. arrived
  /\ \A p \in Headers(wire) : p < freed \/ freed' <= p
  /\ UNCHANGED <<wire, arrived, taken, accepted>>

(* The first packet is consumed, and accepted or not. *)
TakeWhole(q) ==
  /\ InBuffer(q)
  /\ SpanEnd(wire, q) <= arrived
  /\ freed' = SpanEnd(wire, q)
  /\ taken' = taken \cup {q}
  /\ accepted' = IF Acceptable(wire.header[q]) THEN Append(accepted, q) ELSE accepted
  /\ UNCHANGED <<wire, arrived>>
-----------------------------------------------------------------------------
(* The fields of a header that the code computes with. *)
LEMMA HeaderFields ==
  ASSUME NEW h \in Header
  PROVE  /\ h.fdl \in Nat /\ h.sig \in Nat /\ h.hl \in Nat /\ h.pt \in Nat
         /\ h.hcs \in BOOLEAN /\ h.sfrcs \in BOOLEAN /\ h.rte \in BOOLEAN
<1>1. h.fdl \in U16 /\ h.sig \in U16 /\ h.hl \in U8 /\ h.pt \in U8
  BY DEF Header
<1>2. h.hcs \in BOOLEAN /\ h.sfrcs \in BOOLEAN /\ h.rte \in BOOLEAN
  BY DEF Header
<1>3. U8 \subseteq Nat /\ U16 \subseteq Nat
  BY DEF U8, U16
<1> QED
  BY <1>1, <1>2, <1>3

(* A header in a stream has an offset in it, and a packet is not empty.      *)
LEMMA HeaderFacts ==
  ASSUME NEW w \in Wires, NEW q \in Headers(w)
  PROVE  /\ w.len \in Nat
         /\ q \in Nat /\ q + HeadSize <= w.len
         /\ w.header[q] \in Header /\ LooksLikeHeader(w.header[q])
         /\ Preamble(w.header[q]) \in Nat
         /\ SpanEnd(w, q) \in Nat /\ q + HeadSize < SpanEnd(w, q)
<1>1. /\ w.len \in Nat
      /\ q \in Nat /\ q + HeadSize <= w.len
      /\ w.header[q] \in Header /\ LooksLikeHeader(w.header[q])
  BY WiresAssumption DEF IsStream, Headers
<1> DEFINE h == w.header[q]
<1>2. h.fdl \in Nat /\ h.sig \in Nat /\ h.hl \in {11, 16}
  BY <1>1, HeaderFields DEF LooksLikeHeader
<1>3. Preamble(h) \in Nat
  BY <1>2 DEF Preamble, PT_RESPONCE, PT_SIGNED_APPDATA
<1>4. FrameBytes(h.fdl) \in Nat
  BY <1>2 DEF FrameBytes, CrcSize
<1>5. PackSize(h) \in Nat /\ HeadSize < PackSize(h)
  BY <1>2, <1>4 DEF PackSize, RouteSize, HeadSize
<1> QED
  BY <1>1, <1>3, <1>5 DEF SpanEnd, HeadSize

(* Five of the seven returns take a packet. *)
LEMMA Takes ==
  ASSUME TypeOK, NEW q \in Headers(wire),
         \/ RefuseHeader(q) \/ AcceptBare(q)
         \/ RefuseFrame(q) \/ RefusePreamble(q) \/ AcceptFrame(q)
  PROVE  TakeWhole(q)
<1>1. CASE RefuseHeader(q) \/ RefuseFrame(q) \/ RefusePreamble(q)
  <2>1. ~Acceptable(wire.header[q])
    <3>1. wire.header[q].fdl \in Nat
      BY HeaderFacts, HeaderFields DEF TypeOK
    <3> QED
      BY <1>1, <3>1
         DEF RefuseHeader, RefuseFrame, RefusePreamble, Acceptable, HasFrame
  <2> QED
    BY <1>1, <2>1 DEF RefuseHeader, RefuseFrame, RefusePreamble, Refuse,
                      Consume, TakeWhole
<1>2. CASE AcceptBare(q) \/ AcceptFrame(q)
  <2>1. Acceptable(wire.header[q])
    BY <1>2 DEF AcceptBare, AcceptFrame, Acceptable, HasFrame
  <2> QED
    BY <1>2, <2>1 DEF AcceptBare, AcceptFrame, Accept, Consume, TakeWhole
<1> QED
  BY <1>1, <1>2

LEMMA TookWhole ==
  ASSUME TypeOK, Receive, ~Search, \A q \in Headers(wire) : ~WaitForRest(q)
  PROVE  \E q \in Headers(wire) : TakeWhole(q)
BY Takes DEF Receive

(* Init and SetData free bytes before the first header or take one packet.   *)
LEMMA OutcomeOfReceive ==
  ASSUME TypeOK, Receive
  PROVE  GiveUp \/ \E q \in Headers(wire) : TakeWhole(q)
<1> USE DEF TypeOK
<1>0. /\ wire \in Wires /\ wire.len \in Nat
      /\ arrived \in Nat /\ freed \in Nat /\ freed <= arrived
  BY WiresAssumption DEF IsStream
<1>1. CASE Search
  <2>1. \A p \in Headers(wire) : p \in Nat
    BY <1>0, HeaderFacts
  <2> QED BY <1>0, <1>1, <2>1 DEF Search, GiveUp, HeadSize
<1>2. ASSUME NEW q \in Headers(wire), WaitForRest(q) PROVE GiveUp
  BY <1>0, <1>2, HeaderFacts
     DEF WaitForRest, InBuffer, FirstHeader, GiveUp, HeadSize
<1> QED
  BY <1>1, <1>2, TookWhole
-----------------------------------------------------------------------------
(* Every value a TPacket's fields and the reader's offsets take is of its    *)
(* type; in particular SetData never frees bytes that have not arrived.      *)
LEMMA PackTyped ==
  ASSUME TypeOK, Receive
  PROVE  TypeOK!6' /\ TypeOK!7'
<1> USE DEF TypeOK
<1>0. wire \in Wires /\ arrived \in Nat /\ freed \in Nat
  BY WiresAssumption DEF IsStream
<1>1. NoPacket \in Source /\ Nat \subseteq Source
  BY DEF Source
<1>2. CASE Search
  <2> DEFINE last == IF freed + HeadSize <= arrived THEN arrived - HeadSize
                                                    ELSE NoPacket
  <2>1. last \in Source
    BY <1>0, <1>1 DEF HeadSize
  <2>2. pack' = [Cleared EXCEPT !.head = last] /\ result' = 0
    BY <1>2 DEF Search
  <2> HIDE DEF last
  <2> QED
    BY <1>1, <2>1, <2>2 DEF Cleared
<1>3. ASSUME NEW q \in Headers(wire), WaitForRest(q)
      PROVE  TypeOK!6' /\ TypeOK!7'
  BY <1>0, <1>1, <1>3, HeaderFacts DEF WaitForRest, Cleared
<1>4. ASSUME NEW q \in Headers(wire),
             \/ RefuseHeader(q) \/ AcceptBare(q)
             \/ RefuseFrame(q) \/ RefusePreamble(q) \/ AcceptFrame(q)
      PROVE  TypeOK!6' /\ TypeOK!7'
  <2>1. q \in Source
    BY <1>0, <1>1, HeaderFacts
  <2>2. Parsed(q) \in [ head : Source, route : Source, response : Source,
                        sigsize : Source, sigdata : Source, recs : Source ]
    BY <1>1, <2>1 DEF Parsed, Cleared
  <2> QED
    BY <1>1, <1>4, <2>1, <2>2
       DEF RefuseHeader, AcceptBare, RefuseFrame, RefusePreamble, AcceptFrame,
           Refuse, Accept
<1> QED
  BY <1>2, <1>3, <1>4 DEF Receive

LEMMA TypePreserved == TypeOK /\ [Next]_vars => TypeOK'
<1> SUFFICES ASSUME TypeOK, [Next]_vars PROVE TypeOK'
  OBVIOUS
<1>0. /\ wire \in Wires /\ wire.len \in Nat
      /\ arrived \in Nat /\ freed \in Nat /\ freed <= arrived
  BY WiresAssumption DEF TypeOK, IsStream
<1>1. CASE Arrive
  BY <1>0, <1>1 DEF Arrive, TypeOK
<1>2. CASE Receive
  <2>1. TypeOK!6' /\ TypeOK!7'
    BY <1>2, PackTyped
  <2>2. CASE GiveUp
    BY <1>0, <2>1, <2>2 DEF GiveUp, TypeOK
  <2>3. ASSUME NEW q \in Headers(wire), TakeWhole(q) PROVE TypeOK'
    <3>1. freed' \in 0 .. arrived'
      BY <1>0, <2>3, HeaderFacts DEF TakeWhole
    <3>2. accepted \in Seq(taken')
      BY <2>3, SeqMonotonic DEF TakeWhole, TypeOK
    <3>3. accepted' \in Seq(taken')
      BY <2>3, <3>2, AppendProperties DEF TakeWhole
    <3> QED
      BY <2>1, <2>3, <3>1, <3>3 DEF TakeWhole, TypeOK
  <2> QED
    BY <1>2, <2>2, <2>3, OutcomeOfReceive
<1>3. CASE UNCHANGED vars
  BY <1>3 DEF vars, TypeOK
<1> QED
  BY <1>1, <1>2, <1>3 DEF Next

(* The type invariant, for every set of streams and both builds.             *)
THEOREM TypeCorrect == Spec => []TypeOK
<1>1. Init => TypeOK
  BY WiresAssumption, EmptySeq DEF Init, TypeOK, Source, IsStream
<1> QED
  BY <1>1, TypePreserved, PTL DEF Spec
-----------------------------------------------------------------------------
(* The invariant of reading: neither part is inductive without the others,   *)
(* since only bytes behind all that was read so far can be read next.        *)
ReadInv == NothingSkipped /\ EachByteReadOnce /\ ExactDelivery

LEMMA SkippedPreserved ==
  ASSUME TypeOK, TypeOK', NothingSkipped, GiveUp \/ \E q \in Headers(wire) : TakeWhole(q)
  PROVE  NothingSkipped'
<1>0. /\ wire \in Wires /\ freed \in Nat /\ freed' \in Nat /\ taken \subseteq Headers(wire)
      /\ \A p \in Headers(wire) : p \in Nat /\ SpanEnd(wire, p) \in Nat
  BY WiresAssumption, HeaderFacts DEF TypeOK, IsStream
<1>1. CASE GiveUp
  BY <1>0, <1>1 DEF GiveUp, NothingSkipped, Settled, Inside
<1>2. ASSUME NEW q \in Headers(wire), TakeWhole(q) PROVE NothingSkipped'
  <2> SUFFICES ASSUME NEW p \in Headers(wire), p < SpanEnd(wire, q)
               PROVE  p \in taken' \/ \E t \in taken' : Inside(wire, t, p)
    BY <1>2 DEF TakeWhole, NothingSkipped, Settled, Headers, Inside, SpanEnd
  <2>1. CASE p < freed
    BY <1>2, <2>1 DEF TakeWhole, NothingSkipped, Settled
  <2>2. CASE freed <= p
    BY <1>0, <1>2, <2>2 DEF TakeWhole, InBuffer, FirstHeader, Inside
  <2> QED
    BY <1>0, <2>1, <2>2
<1> QED
  BY <1>1, <1>2

LEMMA ReadOncePreserved ==
  ASSUME TypeOK, EachByteReadOnce, GiveUp \/ \E q \in Headers(wire) : TakeWhole(q)
  PROVE  EachByteReadOnce'
<1>0. /\ wire \in Wires /\ freed \in Nat /\ taken \subseteq Headers(wire)
      /\ \A p \in Headers(wire) : p \in Nat /\ SpanEnd(wire, p) \in Nat /\ p < SpanEnd(wire, p)
  BY WiresAssumption, HeaderFacts DEF TypeOK, IsStream, HeadSize
<1>1. CASE GiveUp
  BY <1>0, <1>1 DEF GiveUp, EachByteReadOnce, Inside, SpanEnd, TypeOK
<1>2. ASSUME NEW q \in Headers(wire), TakeWhole(q) PROVE EachByteReadOnce'
  <2>1. freed <= q /\ freed' = SpanEnd(wire, q) /\ taken' = taken \cup {q} /\ wire' = wire
    BY <1>2 DEF TakeWhole, InBuffer, FirstHeader
  <2>2. \A t \in taken : SpanEnd(wire, t) <= freed /\ SpanEnd(wire, t) <= q
    BY <1>0, <2>1 DEF EachByteReadOnce
  <2>3. \A t \in taken' : SpanEnd(wire, t) <= freed'
    BY <1>0, <2>1, <2>2
  <2>4. \A t, u \in taken' : ~Inside(wire, t, u)
    BY <1>0, <2>1, <2>2 DEF EachByteReadOnce, Inside
  <2> QED
    BY <2>1, <2>3, <2>4 DEF EachByteReadOnce
<1> QED
  BY <1>1, <1>2

LEMMA DeliveryPreserved ==
  ASSUME TypeOK, EachByteReadOnce, ExactDelivery,
         GiveUp \/ \E q \in Headers(wire) : TakeWhole(q)
  PROVE  ExactDelivery'
<1>0. /\ wire \in Wires /\ freed \in Nat /\ taken \subseteq Headers(wire)
      /\ accepted \in Seq(taken)
      /\ \A p \in Headers(wire) : p \in Nat /\ SpanEnd(wire, p) \in Nat /\ p < SpanEnd(wire, p)
  BY WiresAssumption, HeaderFacts DEF TypeOK, IsStream, HeadSize
<1>1. CASE GiveUp
  BY <1>1 DEF GiveUp, ExactDelivery, Delivered
<1>2. ASSUME NEW q \in Headers(wire), TakeWhole(q) PROVE ExactDelivery'
  <2>1. freed <= q /\ taken' = taken \cup {q} /\ wire' = wire
    BY <1>2 DEF TakeWhole, InBuffer, FirstHeader
  <2>2. \A t \in taken : t < q
    BY <1>0, <2>1 DEF EachByteReadOnce
  <2>3. CASE ~Acceptable(wire.header[q])
    BY <1>2, <2>1, <2>3 DEF TakeWhole, ExactDelivery, Delivered
  <2>4. CASE Acceptable(wire.header[q])
    <3>1. accepted' = Append(accepted, q)
      BY <1>2, <2>4 DEF TakeWhole
    <3>2. DOMAIN accepted = 1 .. Len(accepted) /\ Len(accepted) \in Nat
      BY <1>0, LenProperties
    <3>3. \A i \in DOMAIN accepted : accepted[i] \in taken
      BY <1>0, <3>2, ElementOfSeq
    <3>4. accepted \in Seq(Nat) /\ q \in Nat
      BY <1>0, SeqMonotonic
    <3>5. /\ DOMAIN accepted' = 1 .. Len(accepted) + 1
          /\ \A i \in DOMAIN accepted : accepted'[i] = accepted[i]
          /\ accepted'[Len(accepted) + 1] = q
      BY <3>1, <3>2, <3>4, AppendProperties, LenProperties
    <3>6. \A i, j \in DOMAIN accepted' : i < j => accepted'[i] < accepted'[j]
      BY <2>2, <3>2, <3>3, <3>5 DEF ExactDelivery
    <3>7. Delivered' = Delivered \cup {q}
      BY <3>2, <3>5 DEF Delivered
    <3> QED
      BY <2>1, <2>4, <3>6, <3>7 DEF ExactDelivery
  <2> QED
    BY <2>3, <2>4
<1> QED
  BY <1>1, <1>2

LEMMA ReadInvInductive == TypeOK /\ TypeOK' /\ ReadInv /\ [Next]_vars => ReadInv'
<1> SUFFICES ASSUME TypeOK, TypeOK', ReadInv, [Next]_vars PROVE ReadInv'
  OBVIOUS
<1>1. CASE Receive
  BY <1>1, OutcomeOfReceive, SkippedPreserved, ReadOncePreserved, DeliveryPreserved
     DEF ReadInv
<1>2. CASE Arrive \/ UNCHANGED vars
  BY <1>2 DEF Arrive, vars, ReadInv, NothingSkipped, EachByteReadOnce, ExactDelivery,
              Settled, Inside, Delivered
<1> QED
  BY <1>1, <1>2 DEF Next

(* No stream and no way to cut it makes the reader skip a header, read a     *)
(* byte as part of two packets, or accept a packet twice, out of order or    *)
(* against its checksums.                                                    *)
THEOREM ReadingIsExact == Spec => [](NothingSkipped /\ EachByteReadOnce /\ ExactDelivery)
<1>1. Init => ReadInv
  <2> SUFFICES ASSUME Init PROVE ReadInv
    OBVIOUS
  <2>1. \A p \in Headers(wire) : ~(p < freed)
    BY HeaderFacts DEF Init
  <2> QED
    BY <2>1 DEF Init, ReadInv, NothingSkipped, EachByteReadOnce, ExactDelivery, Delivered
<1>2. ReadInv => NothingSkipped /\ EachByteReadOnce /\ ExactDelivery
  BY DEF ReadInv
<1> QED
  BY <1>1, <1>2, TypeCorrect, ReadInvInductive, PTL DEF Spec

(* No header of the stream is passed over: every one in front of what was    *)
(* freed was taken, or lies inside what was taken.                           *)
THEOREM NothingIsSkipped == Spec => []NothingSkipped
  BY ReadingIsExact, PTL

(* No byte of the stream is part of two packets that were taken.             *)
THEOREM BytesAreReadOnce == Spec => []EachByteReadOnce
  BY ReadingIsExact, PTL

(* Exactly the acceptable packets among those taken are accepted, each once  *)
(* and in the order of the stream.                                           *)
THEOREM DeliveryIsExact == Spec => []ExactDelivery
  BY ReadingIsExact, PTL

(* "check crc": without AUX_MODE nothing is accepted whose header or frame   *)
(* checksum was wrong. With AUX_MODE the claim is false.                     *)
THEOREM AcceptedPacketsAreIntact == ~AuxMode => (Spec => []AcceptedFramesIntact)
<1> SUFFICES ASSUME ~AuxMode PROVE Spec => []AcceptedFramesIntact
  OBVIOUS
<1>1. TypeOK /\ ExactDelivery => AcceptedFramesIntact
  <2> SUFFICES ASSUME TypeOK, ExactDelivery, NEW q \in Delivered
               PROVE  LET h == wire.header[q] IN h.hcs /\ (h.fdl > 0 => h.sfrcs)
    BY DEF AcceptedFramesIntact
  <2>1. q \in taken /\ q \in Headers(wire) /\ Acceptable(wire.header[q])
    BY DEF ExactDelivery, TypeOK
  <2>2. wire.header[q].fdl \in Nat
    BY <2>1, HeaderFacts, HeaderFields DEF TypeOK
  <2> QED
    BY <2>1, <2>2 DEF Acceptable
<1> QED
  BY <1>1, ReadingIsExact, TypeCorrect, PTL

(* After an accepted packet no field shows an earlier one: the state of the  *)
(* TPacket is reset between two packets wherever it has to be.               *)
THEOREM NoStaleField == Spec => []FieldsBelongToPacket
<1>1. Init => FieldsBelongToPacket
  BY DEF Init, FieldsBelongToPacket
<1>2. TypeOK /\ FieldsBelongToPacket /\ [Next]_vars => FieldsBelongToPacket'
  <2> SUFFICES ASSUME TypeOK, FieldsBelongToPacket, [Next]_vars
               PROVE  FieldsBelongToPacket'
    OBVIOUS
  <2>1. CASE Arrive \/ UNCHANGED vars
    BY <2>1 DEF Arrive, vars, FieldsBelongToPacket
  <2>2. ASSUME NEW q \in Headers(wire), AcceptBare(q) \/ AcceptFrame(q)
        PROVE  FieldsBelongToPacket'
    <3>1. /\ accepted' = Append(accepted, q) /\ wire' = wire
          /\ accepted \in Seq(Nat) /\ q \in Nat
      BY <2>2, HeaderFacts, SeqMonotonic
         DEF AcceptBare, AcceptFrame, Accept, Consume, TypeOK
    <3>2. accepted'[Len(accepted')] = q
      BY <3>1, AppendProperties, LenProperties
    <3> DEFINE h == wire.header[q]
    <3>3. h.fdl \in Nat /\ h.pt \in Nat /\ Preamble(h) \in Nat
      BY HeaderFacts, HeaderFields DEF TypeOK
    <3>4. pack \in [ head : Source, route : Source, response : Source,
                     sigsize : Source, sigdata : Source, recs : Source ]
      BY DEF TypeOK
    <3>5. CASE AcceptBare(q)
      BY <3>1, <3>2, <3>3, <3>4, <3>5
         DEF AcceptBare, Parsed, Cleared, FieldsBelongToPacket
    <3>6. CASE AcceptFrame(q)
      BY <3>1, <3>2, <3>3, <3>4, <3>6
         DEF AcceptFrame, HasFrame, Parsed, Cleared, FieldsBelongToPacket,
             PT_RESPONCE, PT_SIGNED_APPDATA
    <3> QED
      BY <2>2, <3>5, <3>6
  <2>3. CASE result' = 0
    BY <2>3 DEF FieldsBelongToPacket
  <2> QED
    BY <2>1, <2>2, <2>3
       DEF Next, Receive, Search, WaitForRest, RefuseHeader, RefuseFrame,
           RefusePreamble, Refuse
<1> QED
  BY <1>1, <1>2, TypeCorrect, PTL DEF Spec

-----------------------------------------------------------------------------
(***************************************************************************)
(* What the liveness properties rest on: where reading stands, and that it  *)
(* goes on.                                                                *)
(***************************************************************************)

(* In a stream of whole packets the reader always stands at the border of   *)
(* two of them, and has delivered those in front of it and no other.       *)
CleanPrefix ==
  Clean(wire) => /\ freed \in wire.sent \cup {wire.len}
                 /\ Delivered = { q \in wire.sent : q < freed }

CleanInv ==
  Clean(wire) => /\ freed \in wire.sent \cup {wire.len}
                 /\ taken = { q \in wire.sent : q < freed }

(* Of a clean stream the packet at freed is the only one that can be taken. *)
LEMMA NextOfClean ==
  ASSUME TypeOK, Clean(wire), CleanInv
  PROVE  /\ GiveUp => freed' = freed
         /\ \A q \in Headers(wire) : InBuffer(q) =>
              /\ q = freed /\ q \in wire.sent
              /\ SpanEnd(wire, q) = q + EncodedSize(wire.header[q])
<1>1. /\ wire \in Wires /\ wire.len \in Nat /\ freed \in Nat /\ arrived \in Nat
      /\ freed <= arrived /\ arrived <= wire.len
      /\ freed \in wire.sent \cup {wire.len} /\ wire.sent \subseteq Headers(wire)
  BY WiresAssumption DEF TypeOK, IsStream, Clean, CleanInv
<1>2. ASSUME GiveUp
      PROVE  freed' = freed
  <2>1. freed' \in freed .. arrived /\ (freed \in Headers(wire) => freed' <= freed)
    BY <1>1, <1>2 DEF GiveUp
  <2> QED
    BY <1>1, <2>1
<1>3. ASSUME NEW q \in Headers(wire), InBuffer(q)
      PROVE  /\ q = freed /\ q \in wire.sent
             /\ SpanEnd(wire, q) = q + EncodedSize(wire.header[q])
  <2>1. /\ q \in Nat /\ freed <= q /\ q + HeadSize <= arrived
        /\ freed \in Headers(wire) => q <= freed
    BY <1>1, <1>3, HeaderFacts DEF InBuffer, FirstHeader
  <2>2. freed # wire.len
    BY <1>1, <2>1 DEF HeadSize
  <2>3. q = freed /\ q \in wire.sent
    BY <1>1, <2>1, <2>2
  <2>4. ~wire.header[q].rte
    BY <2>3 DEF Clean
  <2>5. wire.header[q] \in Header
    BY <1>1, HeaderFacts
  <2>6. wire.header[q].hl \in Nat /\ FrameBytes(wire.header[q].fdl) \in Nat
    BY <2>5, HeaderFields DEF FrameBytes, CrcSize
  <2>7. PackSize(wire.header[q]) = EncodedSize(wire.header[q])
    BY <2>4, <2>6 DEF PackSize, EncodedSize
  <2> QED
    BY <2>3, <2>7 DEF SpanEnd
<1> QED
  BY <1>2, <1>3

LEMMA CleanStep ==
  ASSUME TypeOK, TypeOK', CleanInv, [Next]_vars
  PROVE  CleanInv'
<1>1. CASE Arrive \/ UNCHANGED vars
  BY <1>1 DEF Arrive, vars, CleanInv
<1>2. CASE GiveUp
  <2>1. wire' = wire /\ taken' = taken /\ (Clean(wire) => freed' = freed)
    BY <1>2, NextOfClean DEF GiveUp
  <2> QED
    BY <2>1 DEF CleanInv
<1>3. ASSUME NEW q \in Headers(wire), TakeWhole(q)
      PROVE  CleanInv'
  <2>1. wire' = wire /\ freed' = SpanEnd(wire, q) /\ taken' = taken \cup {q} /\ InBuffer(q)
    BY <1>3 DEF TakeWhole
  <2> SUFFICES ASSUME Clean(wire)
               PROVE  /\ freed' \in wire.sent \cup {wire.len}
                      /\ taken' = { p \in wire.sent : p < freed' }
    BY <2>1 DEF CleanInv
  <2>2. q = freed /\ q \in wire.sent /\ freed' = q + EncodedSize(wire.header[q])
    BY <2>1, NextOfClean
  <2>3. /\ freed' \in wire.sent \cup {wire.len}
        /\ \A p \in wire.sent : p <= q \/ freed' <= p
    BY <2>2 DEF Clean
  <2>4. /\ q \in Nat /\ q < freed' /\ freed' \in Nat
        /\ \A p \in wire.sent : p \in Nat
    <3>1. wire \in Wires /\ wire.sent \subseteq Headers(wire)
      BY DEF TypeOK, Clean
    <3> QED
      BY <2>1, <3>1, HeaderFacts DEF HeadSize
  <2>5. taken = { p \in wire.sent : p < q }
    BY <2>2 DEF CleanInv
  <2>6. taken \cup {q} = { p \in wire.sent : p < freed' }
    BY <2>2, <2>3, <2>4, <2>5
  <2> QED
    BY <2>1, <2>3, <2>6
<1> QED
  BY <1>1, <1>2, <1>3, OutcomeOfReceive DEF Next

LEMMA CleanAlways == Spec => []CleanInv
<1>1. Init => CleanInv
  <2> SUFFICES ASSUME Init, Clean(wire)
               PROVE  /\ freed \in wire.sent \cup {wire.len}
                      /\ taken = { q \in wire.sent : q < freed }
    BY DEF CleanInv
  <2>1. \A q \in wire.sent : q \in Nat
    BY HeaderFacts DEF Init, Clean
  <2> QED
    BY <2>1 DEF Init, Clean
<1> QED
  BY <1>1, TypeCorrect, CleanStep, PTL DEF Spec

(* What CleanStreamDelivered rests on: no byte of a clean stream is given    *)
(* up, and exactly the packets in front of the cursor are delivered.       *)
THEOREM CleanStreamInStep == Spec => []CleanPrefix
<1>1. CleanInv /\ ExactDelivery => CleanPrefix
  BY DEF CleanInv, CleanPrefix, ExactDelivery, Clean
<1> QED
  BY <1>1, CleanAlways, DeliveryIsExact, PTL

(* ... and once all has arrived every call delivers the next packet, until   *)
(* all are delivered.                                                      *)
CleanAdvances ==
  [][Clean(wire) /\ arrived = wire.len /\ Receive =>
       /\ freed \in wire.sent
       /\ freed' = freed + EncodedSize(wire.header[freed])
       /\ accepted' = Append(accepted, freed)]_vars

THEOREM CleanStreamAdvances == Spec => CleanAdvances
<1>1. TypeOK /\ CleanInv =>
        [Clean(wire) /\ arrived = wire.len /\ Receive =>
           /\ freed \in wire.sent
           /\ freed' = freed + EncodedSize(wire.header[freed])
           /\ accepted' = Append(accepted, freed)]_vars
  <2> SUFFICES ASSUME TypeOK, CleanInv, Clean(wire), arrived = wire.len, Receive
               PROVE  /\ freed \in wire.sent
                      /\ freed' = freed + EncodedSize(wire.header[freed])
                      /\ accepted' = Append(accepted, freed)
    OBVIOUS
  <2>1. /\ wire \in Wires /\ wire.len \in Nat /\ freed \in Nat
        /\ freed \in wire.sent \cup {wire.len} /\ wire.sent \subseteq Headers(wire)
    BY WiresAssumption DEF TypeOK, IsStream, Clean, CleanInv
  <2>2. ASSUME NEW q \in Headers(wire), TakeWhole(q)
        PROVE  /\ freed \in wire.sent
               /\ freed' = freed + EncodedSize(wire.header[freed])
               /\ accepted' = Append(accepted, freed)
    <3>1. /\ freed' = SpanEnd(wire, q) /\ InBuffer(q)
          /\ Acceptable(wire.header[q]) => accepted' = Append(accepted, q)
      BY <2>2 DEF TakeWhole
    <3>2. q = freed /\ q \in wire.sent /\ freed' = q + EncodedSize(wire.header[q])
      BY <3>1, NextOfClean
    <3>3. Acceptable(wire.header[q])
      BY <3>2 DEF Clean
    <3> QED
      BY <3>1, <3>2, <3>3
  <2>3. ~Search
    <3>1. freed \in Headers(wire) => freed + HeadSize <= wire.len
      BY <2>1, HeaderFacts
    <3> QED
      BY <2>1, <3>1 DEF Search, HeadSize
  <2>4. ASSUME NEW q \in Headers(wire)
        PROVE  ~WaitForRest(q)
    <3> SUFFICES ASSUME InBuffer(q)
                 PROVE  SpanEnd(wire, q) <= wire.len
      BY <2>1, HeaderFacts DEF WaitForRest
    <3>1. q \in wire.sent /\ SpanEnd(wire, q) = q + EncodedSize(wire.header[q])
      BY NextOfClean
    <3>2. SpanEnd(wire, q) \in wire.sent \cup {wire.len}
      BY <3>1 DEF Clean
    <3>3. ASSUME SpanEnd(wire, q) \in wire.sent
          PROVE  SpanEnd(wire, q) <= wire.len
      <4>1. PICK e : e = SpanEnd(wire, q)
        OBVIOUS
      <4>2. e \in Nat /\ e + HeadSize <= wire.len
        BY <2>1, <3>3, <4>1, HeaderFacts
      <4> QED
        BY <2>1, <4>1, <4>2 DEF HeadSize
    <3> QED
      BY <2>1, <3>2, <3>3
  <2> QED
    BY <2>2, <2>3, <2>4, TookWhole
<1> QED
  BY <1>1, TypeCorrect, CleanAlways, PTL DEF CleanAdvances

(* What EveryPacketSettled rests on, for any stream: once all has arrived a  *)
(* call frees bytes, or nothing is left but what lies behind a header that *)
(* announces more bytes than there are.                                    *)
RestIsWaitedFor ==
  [][arrived = wire.len /\ Receive /\ freed' = freed =>
       \A q \in Headers(wire) :
         \/ Settled(q)
         \/ freed \in Headers(wire) /\ freed <= q /\ wire.len < SpanEnd(wire, freed)]_vars

THEOREM ReadingEnds == Spec => RestIsWaitedFor
<1>1. TypeOK /\ NothingSkipped =>
        [arrived = wire.len /\ Receive /\ freed' = freed =>
           \A q \in Headers(wire) :
             \/ Settled(q)
             \/ freed \in Headers(wire) /\ freed <= q /\ wire.len < SpanEnd(wire, freed)]_vars
  <2> SUFFICES ASSUME TypeOK, NothingSkipped, arrived = wire.len, Receive, freed' = freed,
                      NEW q \in Headers(wire), ~(q < freed)
               PROVE  freed \in Headers(wire) /\ freed <= q /\ wire.len < SpanEnd(wire, freed)
    BY DEF NothingSkipped
  <2>1. /\ wire \in Wires /\ wire.len \in Nat /\ freed \in Nat /\ q \in Nat
        /\ freed <= q /\ q + HeadSize <= wire.len
    BY WiresAssumption, HeaderFacts DEF TypeOK, IsStream
  <2>2. ~Search
    BY <2>1 DEF Search, HeadSize
  <2>3. ASSUME NEW p \in Headers(wire), WaitForRest(p)
        PROVE  freed \in Headers(wire) /\ freed <= q /\ wire.len < SpanEnd(wire, freed)
    BY <2>1, <2>3 DEF WaitForRest
  <2>4. ASSUME NEW p \in Headers(wire), TakeWhole(p)
        PROVE  FALSE
    BY <2>1, <2>4, HeaderFacts DEF TakeWhole, InBuffer, FirstHeader, HeadSize
  <2> QED
    BY <2>2, <2>3, <2>4, TookWhole
<1> QED
  BY <1>1, TypeCorrect, NothingIsSkipped, PTL DEF RestIsWaitedFor

-----------------------------------------------------------------------------
(* The delivery speaks of streams in the same words. *)
LEMMA SameWords ==
  ASSUME NEW w, NEW c, NEW q
  PROVE  /\ Delivery!Headers(w) = Headers(w)
         /\ Delivery!SpanEnd(w, q) = SpanEnd(w, q)
         /\ Delivery!FirstHeader(w, c, q) <=> FirstHeader(w, c, q)
<1>1. Delivery!Headers(w) = Headers(w)
  BY DEF Delivery!Headers, Headers, Delivery!LooksLikeHeader, LooksLikeHeader
<1>2. Delivery!SpanEnd(w, q) = SpanEnd(w, q)
  BY DEF Delivery!SpanEnd, SpanEnd, Delivery!PackSize, PackSize,
         Delivery!RouteSize, RouteSize, Delivery!FrameBytes, FrameBytes,
         Delivery!CrcSize, CrcSize
<1> QED
  BY <1>1, <1>2 DEF Delivery!FirstHeader, FirstHeader

(* However the stream is cut, reading it is one pass over it from header to  *)
(* header that accepts the acceptable packets in order.                      *)
THEOREM ReadingImplementsDelivery == Spec => Delivery!Spec
<1>1. Init => Delivery!Init
  BY DEF Init, Delivery!Init
<1>2. TypeOK /\ [Next]_vars => [Delivery!Next]_(Delivery!vars)
  <2> SUFFICES ASSUME TypeOK, [Next]_vars PROVE [Delivery!Next]_(Delivery!vars)
    OBVIOUS
  <2>0. wire \in Wires /\ wire.len \in Nat /\ arrived \in 0 .. wire.len /\ freed \in 0 .. arrived
    BY WiresAssumption DEF TypeOK, IsStream
  <2>1. CASE Arrive \/ UNCHANGED vars
    BY <2>1 DEF Arrive, vars, Delivery!vars
  <2>2. CASE GiveUp
    <3>1. CASE freed' = freed
      BY <2>2, <3>1 DEF GiveUp, Delivery!vars
    <3>2. CASE freed' # freed
      <4>1. freed' \in freed + 1 .. wire.len
        BY <2>0, <2>2, <3>2 DEF GiveUp
      <4> QED
        BY <2>2, <4>1, SameWords DEF GiveUp, Delivery!Skip, Delivery!Next
    <3> QED
      BY <3>1, <3>2
  <2>3. ASSUME NEW q \in Headers(wire), TakeWhole(q) PROVE Delivery!Next
    <3>1. SpanEnd(wire, q) <= wire.len
      BY <2>0, <2>3, HeaderFacts DEF TakeWhole
    <3>2. Delivery!Take(q)
      BY <2>3, <3>1, SameWords DEF TakeWhole, InBuffer, Delivery!Take
    <3> QED
      BY <3>2, SameWords DEF Delivery!TakeNext, Delivery!Next
  <2> QED
    BY <2>1, <2>2, <2>3, OutcomeOfReceive DEF Next
<1> QED
  BY <1>1, <1>2, TypeCorrect, PTL DEF Spec, Delivery!Spec
=============================================================================
