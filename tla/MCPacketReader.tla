--------------------------- MODULE MCPacketReader ---------------------------
(***************************************************************************)
(* Streams for PacketReader: sequences of at most three segments, each a   *)
(* packet of the least size at which its case happens, or noise.           *)
(***************************************************************************)
EXTENDS PacketReader, SequencesExt

(* A segment: its bytes on the wire, and what looks like a header in it. *)
Plain == [ prv |-> 1, hl |-> 11, pt |-> PT_APPDATA, rte |-> FALSE, fdl |-> 1,
           hcs |-> TRUE, sfrcs |-> TRUE, sig |-> 0 ]

Whole(h) == [ len |-> EncodedSize(h), header |-> 0 :> h, sent |-> {0} ]

Data     == Whole(Plain)
Bare     == Whole([ Plain EXCEPT !.fdl = 0 ])
Response == Whole([ Plain EXCEPT !.pt = PT_RESPONCE, !.fdl = 4 ])
Ack      == Whole([ Plain EXCEPT !.pt = PT_RESPONCE, !.fdl = 3 ])
Signed   == Whole([ Plain EXCEPT !.pt = PT_SIGNED_APPDATA, !.fdl = 4, !.sig = 1 ])
BareSigned == Whole([ Plain EXCEPT !.pt = PT_SIGNED_APPDATA, !.fdl = 0 ])
Routed   == Whole([ Plain EXCEPT !.hl = 16, !.rte = TRUE ])

(* Packets that were damaged, or encoded by somebody else, on the way. *)
BadHeader == Whole([ Plain EXCEPT !.hcs = FALSE ])
BadFrame  == Whole([ Plain EXCEPT !.sfrcs = FALSE ])
ShortResponse == Whole([ Plain EXCEPT !.pt = PT_RESPONCE, !.fdl = 2 ])
ShortSigned   == Whole([ Plain EXCEPT !.pt = PT_SIGNED_APPDATA, !.sig = 1 ])
LongSignature ==
  Whole([ Plain EXCEPT !.pt = PT_SIGNED_APPDATA, !.fdl = 2, !.sig = 9 ])

(* A header that announces six more bytes than there are, and one in whose *)
(* frame another whole packet lies.                                        *)
Lying  == [ len |-> 14, sent |-> {0},
            header |-> 0 :> [ Plain EXCEPT !.fdl = 7, !.hcs = FALSE ] ]
Nested == [ len |-> 24, sent |-> {0},
            header |-> 0 :> [ Plain EXCEPT !.fdl = 11 ]
                    @@ 11 :> [ Plain EXCEPT !.fdl = 0 ] ]

(* Bytes of no packet, some of which begin like a header. *)
Noise   == [ len |-> 3, header |-> << >>, sent |-> {} ]
Foreign == [ len |-> 12, sent |-> {},
             header |-> 0 :> [ Plain EXCEPT !.prv = 2 ]
                     @@ 1 :> [ Plain EXCEPT !.hl = 12 ]
                     @@ 2 :> [ Plain EXCEPT !.pt = 3 ] ]

(* Segment b on the wire behind a. *)
Behind(a, b) ==
  [ len    |-> a.len + b.len,
    header |-> a.header @@ [ q \in { a.len + r : r \in DOMAIN b.header }
                               |-> b.header[q - a.len] ],
    sent   |-> a.sent \cup { a.len + r : r \in b.sent } ]

Stream(segments) == FoldLeft(Behind, Noise, segments)
CleanStream(segments) == FoldLeft(Behind, Head(segments), Tail(segments))

Intact  == { Data, Bare, Response, Ack, Signed, BareSigned }
Damaged == { BadHeader, BadFrame, ShortResponse, ShortSigned, LongSignature, Lying }
Others  == { Routed, Nested, Noise, Foreign }

MCWires ==
  { CleanStream(s) : s \in Intact \X Intact }
    \cup { Stream(s) : s \in (Damaged \cup Others) \X (Damaged \cup Others) }
    \cup { CleanStream(s) : s \in { Signed } \X (Damaged \cup Others) \X { Response, BareSigned } }

(* Packets as GetData writes them, and one of them with a route. *)
MCRoutedWires == { CleanStream(<<x, Routed, y>>) : x \in Intact, y \in Intact }

(* One packet whose frame was damaged. *)
MCDamagedWires == { CleanStream(<<x, BadFrame, y>>) : x \in Intact, y \in Intact }
=============================================================================
