---------------------------- MODULE PacketHeader ----------------------------
(***************************************************************************)
(* The EGTS packet header, and a byte stream as TPacket::SetData sees it.  *)
(*                                                                         *)
(* A header record stands for the ten bytes copied into TPacket::head and  *)
(* for what the code computes from the bytes behind them:                  *)
(*   hcs    the header checksum byte equals egts_crc8 of the header        *)
(*   sfrcs  the two bytes after the frame equal egts_crc16 of the frame    *)
(*   sig    the first 16 bits of the frame (signature.size of a signed     *)
(*          packet), after decryption when ena = 1                         *)
(* The bit fields pr, cmp, prf and skid, he and pid, steer nothing here.   *)
(*                                                                         *)
(* A stream of bytes is a record [len, header, sent]: its length, what is  *)
(* read as a header at the offsets where the version byte is there, and    *)
(* the offsets at which the peer began a packet (the other offsets of      *)
(* header are look-alikes in noise or in the data of a packet).            *)
(***************************************************************************)
EXTENDS Naturals

U8  == 0 .. 255
U16 == 0 .. 65535

HeadSize  == 10         \* sizeof(head): without route and checksum
RouteSize == 5          \* sizeof(route): PRA, RCA, TTL
CrcSize   == 2          \* the checksum after the frame

PT_RESPONCE       == 0
PT_APPDATA        == 1
PT_SIGNED_APPDATA == 2

Header == [ prv : U8, hl : U8, pt : U8, rte : BOOLEAN,
            fdl : U16, hcs : BOOLEAN, sfrcs : BOOLEAN, sig : U16 ]

(* The three conditions under which the search does not move on by a byte. *)
LooksLikeHeader(h) ==
  /\ h.prv = 1
  /\ h.hl \in {11, 16}
  /\ h.pt <= 2

(* The bytes that a frame of n bytes takes: none at all when n = 0. *)
FrameBytes(n) == IF n = 0 THEN 0 ELSE n + CrcSize

(* Faulty: pack_size with the checksum also of a frame that is not there. *)
PackSizeAlwaysCrc(h) ==
  h.hl + (IF h.rte THEN RouteSize ELSE 0) + h.fdl + CrcSize

(* pack_size: what SetData requires in the buffer and reports as read. *)
PackSize(h) == h.hl + (IF h.rte THEN RouteSize ELSE 0) + FrameBytes(h.fdl)

(* *size: what GetData writes, the header length hl including the route. *)
EncodedSize(h) == h.hl + FrameBytes(h.fdl)

(* The part of the frame in front of the records, by packet type. *)
Preamble(h) ==
  CASE h.pt = PT_RESPONCE       -> 3
    [] h.pt = PT_SIGNED_APPDATA -> 2 + h.sig
    [] OTHER                    -> 0

(* A frame too short for its preamble is refused. *)
PreambleFits(h) == Preamble(h) <= h.fdl

(***************************************************************************)
(* Streams.                                                                *)
(***************************************************************************)
IsStream(w) ==
  /\ w.len \in Nat
  /\ DOMAIN w.header \subseteq Nat
  /\ \A q \in DOMAIN w.header : q + HeadSize <= w.len /\ w.header[q] \in Header
  /\ w.sent \subseteq DOMAIN w.header

(* The offsets at which the search stops. *)
Headers(w) == { q \in DOMAIN w.header : LooksLikeHeader(w.header[q]) }

(* The first offset after the bytes that are read as the packet at q. *)
SpanEnd(w, q) == q + PackSize(w.header[q])

(* The search from offset c stops at q. *)
FirstHeader(w, c, q) ==
  /\ q \in Headers(w)
  /\ c <= q
  /\ \A p \in Headers(w) : p < c \/ q <= p

(* Offset q lies behind the first byte of what was read as the packet at t. *)
Inside(w, t, q) == t < q /\ q < SpanEnd(w, t)
=============================================================================
