--------------------------- MODULE PacketDelivery ---------------------------
(***************************************************************************)
(* What TPacket::SetData promises to a program that reads packets from a   *)
(* stream of bytes: one pass over the stream, from header to header, that  *)
(* does not depend on how the stream is cut into the pieces that arrive.   *)
(* The packets that are to be accepted are, in the order of the stream.    *)
(***************************************************************************)
EXTENDS PacketHeader, Sequences

CONSTANTS Wires,            \* the streams that may be sent
          Acceptable(_)     \* the headers whose packet is to be accepted

VARIABLES wire,             \* the stream
          cursor,           \* the offset up to which it has been consumed
          accepted          \* the offsets of the accepted packets, in order

vars == <<wire, cursor, accepted>>

Init == wire \in Wires /\ cursor = 0 /\ accepted = << >>

(* Bytes among which no packet begins are given up. *)
Skip == 
  /\ cursor' \in cursor + 1 .. wire.len
  /\ \A p \in Headers(wire) : p < cursor \/ cursor' <= p
  /\ UNCHANGED <<wire, accepted>>

(* The next packet of the stream, accepted or refused, is consumed whole. *)
Take(q) ==
  /\ FirstHeader(wire, cursor, q)
  /\ SpanEnd(wire, q) <= wire.len
  /\ cursor' = SpanEnd(wire, q)
  /\ accepted' = IF Acceptable(wire.header[q]) THEN Append(accepted, q) ELSE accepted
  /\ UNCHANGED wire

TakeNext == \E q \in Headers(wire) : Take(q)

Next == Skip \/ TakeNext

Spec == Init /\ [][Next]_vars

(* Reading does not stop in front of a packet that is there. *)
FairSpec == Spec /\ WF_vars(TakeNext)
=============================================================================
