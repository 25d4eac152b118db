------------------------------- MODULE Checksum -----------------------------
(***************************************************************************)
(* egts_crc8 and egts_crc16, and what they are there for: a packet in      *)
(* which bytes were damaged on the way is not accepted. The sender runs    *)
(* one over its bytes and sends the register behind them (GetData), the    *)
(* receiver runs it over what it gets and compares (SetData).              *)
(*                                                                         *)
(* A byte is the set of its bits that are 1, bit 0 the lowest, and so is a *)
(* register of 8 or 16 bits; the xor of two is their symmetric difference. *)
(*                                                                         *)
(* The machine sends one message and damages one or two bytes of it, the   *)
(* checksum's included. It ends the data behind the second, and for single *)
(* bits anywhere behind the first: more data behind a damage changes       *)
(* nothing (ChecksumProofs, UndamagedByteChangesNothing). That the length  *)
(* itself is damaged is PacketReader's subject.                            *)
(***************************************************************************)
EXTENDS Integers, FiniteSets, FiniteSetsExt, Sequences, SequencesExt

CONSTANTS Data,             \* the bytes the sender may send
          Longest,          \* the most bytes of data: a bound
          LastFirst,        \* the first damage is in data bytes 0 .. LastFirst: a bound
          Damage,           \* how a byte may be damaged
          FarBits           \* the bits a far second damage is tried for

Byte == SUBSET (0 .. 7)
Sums == {"crc8", "crc16"}

ASSUME DataAssumption == Data \subseteq Byte /\ Damage \subseteq Byte \ {{}}
ASSUME BoundsAssumption == Longest \in [Sums -> Nat] /\ LastFirst \in Nat

Crc16Table == <<
    \h0000, \h1021, \h2042, \h3063, \h4084, \h50A5, \h60C6, \h70E7,
    \h8108, \h9129, \hA14A, \hB16B, \hC18C, \hD1AD, \hE1CE, \hF1EF,
    \h1231, \h0210, \h3273, \h2252, \h52B5, \h4294, \h72F7, \h62D6,
    \h9339, \h8318, \hB37B, \hA35A, \hD3BD, \hC39C, \hF3FF, \hE3DE,
    \h2462, \h3443, \h0420, \h1401, \h64E6, \h74C7, \h44A4, \h5485,
    \hA56A, \hB54B, \h8528, \h9509, \hE5EE, \hF5CF, \hC5AC, \hD58D,
    \h3653, \h2672, \h1611, \h0630, \h76D7, \h66F6, \h5695, \h46B4,
    \hB75B, \hA77A, \h9719, \h8738, \hF7DF, \hE7FE, \hD79D, \hC7BC,
    \h48C4, \h58E5, \h6886, \h78A7, \h0840, \h1861, \h2802, \h3823,
    \hC9CC, \hD9ED, \hE98E, \hF9AF, \h8948, \h9969, \hA90A, \hB92B,
    \h5AF5, \h4AD4, \h7AB7, \h6A96, \h1A71, \h0A50, \h3A33, \h2A12,
    \hDBFD, \hCBDC, \hFBBF, \hEB9E, \h9B79, \h8B58, \hBB3B, \hAB1A,
    \h6CA6, \h7C87, \h4CE4, \h5CC5, \h2C22, \h3C03, \h0C60, \h1C41,
    \hEDAE, \hFD8F, \hCDEC, \hDDCD, \hAD2A, \hBD0B, \h8D68, \h9D49,
    \h7E97, \h6EB6, \h5ED5, \h4EF4, \h3E13, \h2E32, \h1E51, \h0E70,
    \hFF9F, \hEFBE, \hDFDD, \hCFFC, \hBF1B, \hAF3A, \h9F59, \h8F78,
    \h9188, \h81A9, \hB1CA, \hA1EB, \hD10C, \hC12D, \hF14E, \hE16F,
    \h1080, \h00A1, \h30C2, \h20E3, \h5004, \h4025, \h7046, \h6067,
    \h83B9, \h9398, \hA3FB, \hB3DA, \hC33D, \hD31C, \hE37F, \hF35E,
    \h02B1, \h1290, \h22F3, \h32D2, \h4235, \h5214, \h6277, \h7256,
    \hB5EA, \hA5CB, \h95A8, \h8589, \hF56E, \hE54F, \hD52C, \hC50D,
    \h34E2, \h24C3, \h14A0, \h0481, \h7466, \h6447, \h5424, \h4405,
    \hA7DB, \hB7FA, \h8799, \h97B8, \hE75F, \hF77E, \hC71D, \hD73C,
    \h26D3, \h36F2, \h0691, \h16B0, \h6657, \h7676, \h4615, \h5634,
    \hD94C, \hC96D, \hF90E, \hE92F, \h99C8, \h89E9, \hB98A, \hA9AB,
    \h5844, \h4865, \h7806, \h6827, \h18C0, \h08E1, \h3882, \h28A3,
    \hCB7D, \hDB5C, \hEB3F, \hFB1E, \h8BF9, \h9BD8, \hABBB, \hBB9A,
    \h4A75, \h5A54, \h6A37, \h7A16, \h0AF1, \h1AD0, \h2AB3, \h3A92,
    \hFD2E, \hED0F, \hDD6C, \hCD4D, \hBDAA, \hAD8B, \h9DE8, \h8DC9,
    \h7C26, \h6C07, \h5C64, \h4C45, \h3CA2, \h2C83, \h1CE0, \h0CC1,
    \hEF1F, \hFF3E, \hCF5D, \hDF7C, \hAF9B, \hBFBA, \h8FD9, \h9FF8,
    \h6E17, \h7E36, \h4E55, \h5E74, \h2E93, \h3EB2, \h0ED1, \h1EF0 >>

CRC8Table == <<
    \h00, \h31, \h62, \h53, \hC4, \hF5, \hA6, \h97, \hB9, \h88, \hDB, \hEA, \h7D, \h4C, \h1F, \h2E,
    \h43, \h72, \h21, \h10, \h87, \hB6, \hE5, \hD4, \hFA, \hCB, \h98, \hA9, \h3E, \h0F, \h5C, \h6D,
    \h86, \hB7, \hE4, \hD5, \h42, \h73, \h20, \h11, \h3F, \h0E, \h5D, \h6C, \hFB, \hCA, \h99, \hA8,
    \hC5, \hF4, \hA7, \h96, \h01, \h30, \h63, \h52, \h7C, \h4D, \h1E, \h2F, \hB8, \h89, \hDA, \hEB,
    \h3D, \h0C, \h5F, \h6E, \hF9, \hC8, \h9B, \hAA, \h84, \hB5, \hE6, \hD7, \h40, \h71, \h22, \h13,
    \h7E, \h4F, \h1C, \h2D, \hBA, \h8B, \hD8, \hE9, \hC7, \hF6, \hA5, \h94, \h03, \h32, \h61, \h50,
    \hBB, \h8A, \hD9, \hE8, \h7F, \h4E, \h1D, \h2C, \h02, \h33, \h60, \h51, \hC6, \hF7, \hA4, \h95,
    \hF8, \hC9, \h9A, \hAB, \h3C, \h0D, \h5E, \h6F, \h41, \h70, \h23, \h12, \h85, \hB4, \hE7, \hD6,
    \h7A, \h4B, \h18, \h29, \hBE, \h8F, \hDC, \hED, \hC3, \hF2, \hA1, \h90, \h07, \h36, \h65, \h54,
    \h39, \h08, \h5B, \h6A, \hFD, \hCC, \h9F, \hAE, \h80, \hB1, \hE2, \hD3, \h44, \h75, \h26, \h17,
    \hFC, \hCD, \h9E, \hAF, \h38, \h09, \h5A, \h6B, \h45, \h74, \h27, \h16, \h81, \hB0, \hE3, \hD2,
    \hBF, \h8E, \hDD, \hEC, \h7B, \h4A, \h19, \h28, \h06, \h37, \h64, \h55, \hC2, \hF3, \hA0, \h91,
    \h47, \h76, \h25, \h14, \h83, \hB2, \hE1, \hD0, \hFE, \hCF, \h9C, \hAD, \h3A, \h0B, \h58, \h69,
    \h04, \h35, \h66, \h57, \hC0, \hF1, \hA2, \h93, \hBD, \h8C, \hDF, \hEE, \h79, \h48, \h1B, \h2A,
    \hC1, \hF0, \hA3, \h92, \h05, \h34, \h67, \h56, \h78, \h49, \h1A, \h2B, \hBC, \h8D, \hDE, \hEF,
    \h82, \hB3, \hE0, \hD1, \h46, \h77, \h24, \h15, \h3B, \h0A, \h59, \h68, \hFF, \hCE, \h9D, \hAC >>

Xor(a, b) == (a \ b) \cup (b \ a)

Number(b) == MapThenSumSet(LAMBDA i : 2 ^ i, b)
Bits(n)   == { i \in 0 .. 15 : (n \div 2 ^ i) % 2 = 1 }

Table8  == [ b \in Byte |-> Bits(CRC8Table[Number(b) + 1]) ]
Table16 == [ b \in Byte |-> Bits(Crc16Table[Number(b) + 1]) ]

Low(c)  == c \cap (0 .. 7)                  \* the low byte of 16 bits
High(c) == { i - 8 : i \in c \ (0 .. 7) }   \* crc >> 8
Raise(b) == { i + 8 : i \in b }             \* crc << 8

(* Faulty: the byte is not part of the index but goes into the register.   *)
Step8FeedingLow(c, b) == Xor(Table8[c], b)

Step8(c, b) == Table8[Xor(c, b)]

(* Faulty: the byte is merged into the index by | instead of ^.              *)
Step16Merging(c, b) == Xor(Raise(Low(c)), Table16[High(c) \cup b])

(* Faulty: as Step8FeedingLow.                                             *)
Step16FeedingLow(c, b) == Xor(Xor(Raise(Low(c)), Table16[High(c)]), b)

Step16(c, b) == Xor(Raise(Low(c)), Table16[Xor(High(c), b)])

Step(s, c, b) == IF s = "crc8" THEN Step8(c, b) ELSE Step16(c, b)

Ones(s) == IF s = "crc8" THEN 0 .. 7 ELSE 0 .. 15

Divisor(s) == Bits(IF s = "crc8" THEN \h31 ELSE \h1021)

(* A register is a polynomial: one step of its division.                    *)
Shift(s, c) ==
  LET last  == IF s = "crc8" THEN 7 ELSE 15
      moved == { i + 1 : i \in c \ {last} }
  IN  IF last \in c THEN Xor(moved, Divisor(s)) ELSE moved

Eight(F(_), c) == IF c = {} THEN c ELSE F(F(F(F(F(F(F(F(c))))))))

Shift8(s, c) == Eight(LAMBDA d : Shift(s, d), c)

(* What the comment over each table says: the entry of a byte is the rest   *)
(* of its division by the polynomial.                                      *)
ASSUME Polynomials ==
  \A b \in Byte : /\ Table8[b] = Shift8("crc8", b)
                  /\ Table16[b] = Shift8("crc16", Raise(b))

(* What the proofs need of the tables. *)
ASSUME TablesTyped ==
  \A b \in Byte : Table8[b] \in Byte /\ Table16[b] \in SUBSET (0 .. 15)
ASSUME TablesLinear ==
  \A a, b \in Byte : /\ Table8[Xor(a, b)] = Xor(Table8[a], Table8[b])
                     /\ Table16[Xor(a, b)] = Xor(Table16[a], Table16[b])
ASSUME TablesFaithful ==
  \A b \in Byte : Table8[b] = {} \/ Low(Table16[b]) = {} => b = {}

(* The entry of a byte begins no higher than the byte does in its place, and *)
(* what a single bit becomes within two bytes has more than one.            *)
ASSUME TablesSpread ==
  /\ \A b \in Byte \ {{}} : \E i \in b, j \in Table8[b] : i >= j
  /\ \A i \in 0 .. 7, j \in 0 .. 15 :
       Table16[{i}] # {j} /\ Step16(Table16[{i}], {}) # {j}

ASSUME DivisionTyped ==
  Divisor("crc8") \in Byte /\ \A b \in Byte : Shift8("crc16", b) = Raise(b)

(* 8, 64 and 512 bytes that are undamaged. *)
Step8Bytes(s, c)   == Eight(LAMBDA d : Step(s, d, {}), c)
Step64Bytes(s, c)  == Eight(LAMBDA d : Step8Bytes(s, d), c)
Step512Bytes(s, c) == Eight(LAMBDA d : Step64Bytes(s, d), c)

(* After how many divisions 1 is the rest again: 127 in egts_crc8, and       *)
(* 32767 = 7 * 31 * 151 in egts_crc16, but not the product of two of these. *)
ASSUME Orders ==
  LET s == "crc16"
      Byte1(c) == Step(s, c, {})
  IN  /\ Step8Bytes("crc8", Step8Bytes("crc8", {0})) = {1}
      /\ Eight(LAMBDA c : Step512Bytes(s, c), {0}) = {1}
      /\ Step512Bytes(s, Step64Bytes(s, Step8Bytes(s, Byte1({1})))) # {0}
      /\ Step64Bytes(s, Step64Bytes(s, Byte1(Byte1(Byte1(Byte1({1})))))) # {0}
      /\ Step8Bytes(s, Step8Bytes(s, Step8Bytes(s, Byte1(Byte1(Byte1({1})))))) # {0}

VARIABLES sum,              \* which of the two
          n,                \* bytes of data so far
          sent, read,       \* the registers of the sender and of the receiver
          hits,             \* the damaged bytes: [at, bits] each
          got               \* the bytes of the checksum that have arrived

vars == <<sum, n, sent, read, hits, got>>

Init ==
  /\ sum \in Sums /\ n = 0
  /\ sent = Ones(sum) /\ read = Ones(sum)
  /\ hits = << >> /\ got = << >>

Single(d) == Cardinality(d) = 1
Far == hits[1].bits \in { {i} : i \in FarBits }

(* Which damage may come at the byte behind k others: any in two bytes that *)
(* are neighbours, single bits anywhere.                                   *)
MayHit(k, d) ==
  /\ d # {}
  /\ \/ hits = << >> /\ k <= LastFirst
     \/ /\ Len(hits) = 1
        /\ k = hits[1].at + 1 \/ (Single(d) /\ Far)

Hit(k, d) == IF d = {} THEN hits ELSE Append(hits, [ at |-> k, bits |-> d ])

(* One byte of data, as it was sent or damaged. *)
SendByte(d) ==
  /\ got = << >> /\ n < Longest[sum] /\ Len(hits) < 2
  /\ IF d # {} THEN MayHit(n, d)
     ELSE IF hits = << >> THEN n < LastFirst ELSE Far
  /\ \E b \in Data : /\ sent' = Step(sum, sent, b)
                     /\ read' = Step(sum, read, Xor(b, d))
  /\ hits' = Hit(n, d) /\ n' = n + 1
  /\ UNCHANGED <<sum, got>>

(* The checksum's bytes in the order in which they are sent. *)
InBytes(s, c) == IF s = "crc8" THEN << c >> ELSE << Low(c), High(c) >>

(* The next of them. *)
SendSum(d) ==
  /\ Len(got) < Len(InBytes(sum, sent))
  /\ d # {} => MayHit(n + Len(got), d)
  /\ got' = Append(got, Xor(InBytes(sum, sent)[Len(got) + 1], d))
  /\ hits' = Hit(n + Len(got), d)
  /\ UNCHANGED <<sum, n, sent, read>>

Next == \E d \in Damage \cup {{}} : SendByte(d) \/ SendSum(d)

Spec == Init /\ [][Next]_vars
-----------------------------------------------------------------------------
Over == Len(got) = Len(InBytes(sum, sent))
Accepted == got = InBytes(sum, read)

(* Where a bit stands in the polynomial: data from its first byte on, the   *)
(* highest bit first, and the checksum behind it, its high byte first.     *)
Place(h) ==
  LET byte == IF sum = "crc16" /\ h.at >= n THEN 2 * n + 1 - h.at ELSE h.at
  IN  8 * byte + 7 - CHOOSE i \in h.bits : TRUE

Period == IF sum = "crc8" THEN 127 ELSE 32767

(* Two bits that change anywhere are noticed, unless 127 (egts_crc8) or    *)
(* 32767 (egts_crc16) places lie between them: in a header there is one    *)
(* such pair, the first bit of prv and the last of the checksum of a       *)
(* header with a route, and in frames longer than 4093 bytes there are     *)
(* many, although the limit is 65517.                                      *)
BitPairNoticed ==
  Over /\ Len(hits) = 2 /\ Single(hits[1].bits) /\ Single(hits[2].bits) =>
    (Accepted <=> (Place(hits[2]) - Place(hits[1])) % Period = 0)

(* Whether all damage lies in as many bits as the register has. *)
Burst ==
  LET first == 8 * hits[1].at + 7 - Max(hits[1].bits)
      last  == 8 * Last(hits).at + 7 - Min(Last(hits).bits)
  IN  last - first < Cardinality(Ones(sum))

(* Whatever changes in 8 bits in a row (egts_crc8), or in two neighbouring  *)
(* bytes (egts_crc16), is noticed - if it were not for the order of the    *)
(* checksum's bytes, low before high: a damage of the last byte of a frame *)
(* is hidden by one of the byte behind it wherever its entry of the table  *)
(* has no high byte.                                                       *)
BurstNoticed ==
  Over /\ hits # << >> /\ Burst =>
    (Accepted <=> /\ sum = "crc16" /\ Len(hits) = 2 /\ hits[2].at = n
                  /\ Table16[hits[1].bits] = hits[2].bits)

(* What the data is makes no difference: how far the registers are apart    *)
(* behind a byte depends on how far they were and on the damage of the     *)
(* byte alone, and a byte that arrives as it was sent neither brings them  *)
(* together nor apart. So a damage is noticed in every message or in none. *)
DamageDecides ==
  [][n' # n =>
       LET d == IF hits' = hits THEN {} ELSE Last(hits').bits
       IN  /\ Xor(sent', read') = Step(sum, Xor(sent, read), d)
           /\ d = {} => (sent' = read' <=> sent = read)]_vars
=============================================================================
