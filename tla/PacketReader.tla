---------------------------- MODULE PacketReader ----------------------------
(***************************************************************************)
(* TPacket::SetData reading packets from a stream.                         *)
(*                                                                         *)
(* The program that owns the buffer is not in the repository beyond what   *)
(* main.cpp does with one packet; what it has to do is fixed by SetData's  *)
(* parameters: it keeps the bytes that arrived and are not freed, calls    *)
(* Init and SetData on all of them, frees as many bytes from the front as  *)
(* *ppos says, and does so again whenever it likes, also while a packet is *)
(* still incomplete. The buffer is then the bytes freed .. arrived-1 of    *)
(* the stream. Bytes arrive one by one; since SetData is called at any     *)
(* moment, that is every way to cut the stream into pieces.                *)
(*                                                                         *)
(* A field of the TPacket is represented by the packet it was read from    *)
(* (the offset of its header), or NoPacket when Init reset it.             *)
(* What becomes of the records of a frame is the subject of RecordWalk.    *)
(***************************************************************************)
EXTENDS PacketHeader, Sequences

CONSTANTS Wires,            \* the streams that may be sent
          AuxMode,          \* whether the library is built with AUX_MODE
          NoPacket          \* no packet: a field is as Init leaves it

ASSUME WiresAssumption == \A w \in Wires : IsStream(w)
ASSUME AuxModeAssumption == AuxMode \in BOOLEAN
ASSUME NoPacketAssumption == NoPacket \notin Nat

VARIABLES wire,             \* the stream that is being sent
          arrived,          \* how many bytes of it have arrived
          freed,            \* how many bytes the reader has freed
          taken,            \* history: headers whose bytes *ppos covered
          accepted,         \* history: headers for which SetData returned 1
          pack,             \* the fields of the TPacket
          result            \* what the last SetData returned

vars == <<wire, arrived, freed, taken, accepted, pack, result>>

Source == Nat \cup {NoPacket}

TypeOK ==
  /\ wire \in Wires
  /\ arrived \in 0 .. wire.len
  /\ freed \in 0 .. arrived
  /\ taken \subseteq Headers(wire)
  /\ accepted \in Seq(taken)
  /\ pack \in [ head : Source, route : Source, response : Source,
                sigsize : Source, sigdata : Source, recs : Source ]
  /\ result \in {0, 1}

(* The checks a packet has to pass to be accepted in this build. *)
Acceptable(h) ==
  /\ h.hcs
  /\ h.fdl = 0 \/ ((h.sfrcs \/ AuxMode) /\ PreambleFits(h))

(* Faulty: Init forgets recs.Clear(). *)
ClearedKeepingRecords == [ pack EXCEPT !.head = NoPacket, !.route = NoPacket,
                                       !.response = NoPacket ]

(* Init, which does not touch the signature. *)
Cleared == [ pack EXCEPT !.head = NoPacket, !.route = NoPacket,
                         !.response = NoPacket, !.recs = NoPacket ]

(* The fields once the header at q is complete, with the route if it has one. *)
Parsed(q) == [ Cleared EXCEPT !.head = q,
                              !.route = IF wire.header[q].rte THEN q ELSE NoPacket ]

Init ==
  /\ wire \in Wires
  /\ arrived = 0 /\ freed = 0
  /\ taken = {} /\ accepted = << >>
  /\ pack = [ head |-> NoPacket, route |-> NoPacket, response |-> NoPacket,
              sigsize |-> NoPacket, sigdata |-> NoPacket, recs |-> NoPacket ]
  /\ result = 0

(* The network delivers the next byte. *)
Arrive ==
  /\ arrived < wire.len
  /\ arrived' = arrived + 1
  /\ UNCHANGED <<wire, freed, taken, accepted, pack, result>>

(* A complete header is in the buffer, the first one there. *)
InBuffer(q) == FirstHeader(wire, freed, q) /\ q + HeadSize <= arrived

(***************************************************************************)
(* The outcomes of one Init and SetData.                                   *)
(***************************************************************************)

(* Faulty: every byte that was looked at is given back, with a header in it *)
(* of which the end is missing.                                             *)
SearchGivingUpAll ==
  /\ arrived > freed
  /\ \A q \in Headers(wire) : q < freed \/ arrived < q + HeadSize
  /\ freed' = arrived
  /\ pack' = Cleared
  /\ result' = 0
  /\ UNCHANGED <<wire, arrived, taken, accepted>>

(* No header: all but the last nine bytes can be freed. The bytes that were *)
(* looked at last stay in head.                                             *)
Search ==
  /\ arrived > freed
  /\ \A q \in Headers(wire) : q < freed \/ arrived < q + HeadSize
  /\ freed' = IF freed + HeadSize <= arrived THEN arrived - (HeadSize - 1) ELSE freed
  /\ pack' = [ Cleared EXCEPT !.head =
                 IF freed + HeadSize <= arrived THEN arrived - HeadSize ELSE NoPacket ]
  /\ result' = 0
  /\ UNCHANGED <<wire, arrived, taken, accepted>>

(* Not enough data: only the bytes in front of the header are freed. *)
WaitForRest(q) ==
  /\ InBuffer(q)
  /\ arrived < SpanEnd(wire, q)
  /\ freed' = q
  /\ pack' = [ Cleared EXCEPT !.head = q ]
  /\ result' = 0
  /\ UNCHANGED <<wire, arrived, taken, accepted>>

(* Faulty: a packet is consumed as soon as its header is there. *)
ConsumeEarly(q) ==
  /\ InBuffer(q)
  /\ freed' = SpanEnd(wire, q)
  /\ taken' = taken \cup {q}
  /\ UNCHANGED <<wire, arrived>>

(* Faulty: a packet that ends the buffer is taken for incomplete. *)
ConsumeLate(q) ==
  /\ InBuffer(q)
  /\ SpanEnd(wire, q) < arrived
  /\ freed' = SpanEnd(wire, q)
  /\ taken' = taken \cup {q}
  /\ UNCHANGED <<wire, arrived>>

(* Faulty: *ppos covers the header only. *)
ConsumeHeader(q) ==
  /\ InBuffer(q)
  /\ SpanEnd(wire, q) <= arrived
  /\ freed' = q + wire.header[q].hl
  /\ taken' = taken \cup {q}
  /\ UNCHANGED <<wire, arrived>>

(* All bytes of the packet are there: *ppos covers them, whatever follows. *)
Consume(q) ==
  /\ InBuffer(q)
  /\ SpanEnd(wire, q) <= arrived
  /\ freed' = SpanEnd(wire, q)
  /\ taken' = taken \cup {q}
  /\ UNCHANGED <<wire, arrived>>

Refuse == result' = 0 /\ accepted' = accepted
Accept(q) == result' = 1 /\ accepted' = Append(accepted, q)

(* Faulty: behind a bad header the search goes on at the next byte. *)
RefuseHeaderRescanning(q) ==
  /\ InBuffer(q) /\ SpanEnd(wire, q) <= arrived
  /\ ~wire.header[q].hcs
  /\ freed' = q + 1
  /\ pack' = Parsed(q)
  /\ Refuse
  /\ UNCHANGED <<wire, arrived, taken>>

RefuseHeader(q) ==
  /\ Consume(q) /\ Refuse
  /\ ~wire.header[q].hcs
  /\ pack' = Parsed(q)

AcceptBare(q) ==
  /\ Consume(q) /\ Accept(q)
  /\ wire.header[q].hcs /\ wire.header[q].fdl = 0
  /\ pack' = Parsed(q)

(* The header is good and announces a frame. *)
HasFrame(h) == h.hcs /\ h.fdl > 0

RefuseFrame(q) ==
  /\ Consume(q) /\ Refuse
  /\ HasFrame(wire.header[q])
  /\ ~wire.header[q].sfrcs /\ ~AuxMode
  /\ pack' = Parsed(q)

(* signature.size is assigned before it is compared with the frame. *)
RefusePreamble(q) ==
  LET h == wire.header[q]
  IN  /\ Consume(q) /\ Refuse
      /\ HasFrame(h) /\ (h.sfrcs \/ AuxMode)
      /\ ~PreambleFits(h)
      /\ pack' = [ Parsed(q) EXCEPT !.sigsize =
                     IF h.pt = PT_SIGNED_APPDATA /\ h.fdl >= 2 THEN q ELSE @ ]

(* Faulty: the checksum of the frame is not looked at. *)
AcceptFrameUnchecked(q) ==
  LET h == wire.header[q]
      From(type, old) == IF h.pt = type THEN q ELSE old
  IN  /\ Consume(q) /\ Accept(q)
      /\ HasFrame(h) /\ PreambleFits(h)
      /\ pack' = [ Parsed(q) EXCEPT
                     !.response = From(PT_RESPONCE, @),
                     !.sigsize  = From(PT_SIGNED_APPDATA, @),
                     !.sigdata  = From(PT_SIGNED_APPDATA, @),
                     !.recs     = IF Preamble(h) < h.fdl THEN q ELSE @ ]

(* Records are read only if the frame holds more than the preamble. *)
AcceptFrame(q) ==
  LET h == wire.header[q]
      From(type, old) == IF h.pt = type THEN q ELSE old
  IN  /\ Consume(q) /\ Accept(q)
      /\ HasFrame(h) /\ (h.sfrcs \/ AuxMode)
      /\ PreambleFits(h)
      /\ pack' = [ Parsed(q) EXCEPT
                     !.response = From(PT_RESPONCE, @),
                     !.sigsize  = From(PT_SIGNED_APPDATA, @),
                     !.sigdata  = From(PT_SIGNED_APPDATA, @),
                     !.recs     = IF Preamble(h) < h.fdl THEN q ELSE @ ]

Receive ==
  \/ Search
  \/ \E q \in Headers(wire) :
       \/ WaitForRest(q)
       \/ RefuseHeader(q) \/ AcceptBare(q)
       \/ RefuseFrame(q) \/ RefusePreamble(q) \/ AcceptFrame(q)

Next == Arrive \/ Receive

Spec == Init /\ [][Next]_vars

(* The rest of the stream arrives, and the buffer is looked at again. *)
FairSpec == Spec /\ WF_vars(Arrive) /\ WF_vars(Receive)
-----------------------------------------------------------------------------
Delivered == { accepted[i] : i \in DOMAIN accepted }

(* Header q was consumed as a packet, or lies in the bytes of one that was. *)
Settled(q) == q \in taken \/ \E t \in taken : Inside(wire, t, q)

(* No byte is freed in front of which the search should have stopped: every *)
(* header among the freed bytes was consumed as a packet, or is inside the  *)
(* bytes of a packet that was. This is what *ppos means ("data up to        *)
(* position can be free"), for headers cut anywhere by the end of the       *)
(* buffer.                                                                  *)
NothingSkipped ==
  \A q \in Headers(wire) : q < freed => Settled(q)

(* No byte of the stream is read as part of two packets, and none that is   *)
(* still in the buffer has been read already.                               *)
EachByteReadOnce ==
  \A t \in taken :
    /\ SpanEnd(wire, t) <= freed
    /\ \A u \in taken : ~Inside(wire, t, u)

(* A packet is accepted once, in the order of the stream, and exactly when  *)
(* its checksums and its preamble were right: a retry after a refusal or an *)
(* incomplete buffer neither repeats nor loses nor reorders a packet.       *)
ExactDelivery ==
  /\ \A i, j \in DOMAIN accepted : i < j => accepted[i] < accepted[j]
  /\ Delivered = { t \in taken : Acceptable(wire.header[t]) }

(* After SetData returned 1 every field belongs to the packet it accepted   *)
(* or is as Init leaves it; nothing of an earlier packet shows through. The *)
(* signature is the exception that the code makes: Init keeps it, so it is  *)
(* the packet's own only if the packet is signed and has a frame.           *)
FieldsBelongToPacket ==
  LET q == accepted[Len(accepted)]
      h == wire.header[q]
      Own(field, here) == field = IF here THEN q ELSE NoPacket
  IN  result = 1 =>
        /\ pack.head = q
        /\ Own(pack.route, h.rte)
        /\ Own(pack.response, h.pt = PT_RESPONCE /\ h.fdl > 0)
        /\ Own(pack.recs, Preamble(h) < h.fdl)
        /\ h.pt = PT_SIGNED_APPDATA /\ h.fdl > 0 =>
             pack.sigsize = q /\ pack.sigdata = q

(* "check crc": a packet is accepted only if both its checksums are right.  *)
AcceptedFramesIntact ==
  \A q \in Delivered :
    LET h == wire.header[q] IN h.hcs /\ (h.fdl > 0 => h.sfrcs)

(* "not enough data - expect more": SetData leaves a packet that a peer's   *)
(* GetData wrote in the buffer only as long as bytes of it are missing.     *)
WaitsOnlyForMissingBytes ==
  [][\A q \in wire.sent : WaitForRest(q) =>
       arrived < q + EncodedSize(wire.header[q])]_vars

(* Reading implements the delivery of the stream in one pass, whatever the  *)
(* pieces it arrives in, and does not stop in front of a complete packet.   *)
Delivery == INSTANCE PacketDelivery WITH cursor <- freed
DeliveryFairSpec == Delivery!FairSpec

(* A stream of nothing but whole packets, as GetData writes them, one behind *)
(* the other.                                                              *)
Clean(w) ==
  /\ 0 \in w.sent /\ w.sent \subseteq Headers(w)
  /\ \A q \in w.sent :
       LET end == q + EncodedSize(w.header[q])
       IN  /\ Acceptable(w.header[q])
           /\ ~w.header[q].rte
           /\ end \in w.sent \cup {w.len}
           /\ \A p \in w.sent : p <= q \/ end <= p

(* Of a clean stream of packets without route every packet is accepted.     *)
CleanStreamDelivered == Clean(wire) ~> wire.sent = Delivered

(* In the end every packet that arrives whole is settled: accepted, refused *)
(* for its checksums or its preamble, or lost in the bytes of another that  *)
(* announced more bytes than it had. No packet is waited for for ever in a  *)
(* stream that goes on.                                                     *)
EveryPacketSettled ==
  <>[](\A q \in wire.sent : SpanEnd(wire, q) <= wire.len => Settled(q))
=============================================================================
