----------------------------- MODULE MCChecksum -----------------------------
(***************************************************************************)
(* Headers of up to 15 bytes in front of their checksum, the most there    *)
(* are, and frames of up to 4096, with a period of egts_crc16 in them.     *)
(* One value for every byte of data: the theorem says that it does not     *)
(* matter.                                                                 *)
(***************************************************************************)
EXTENDS Checksum

MCData == { Bits(\h35) }
MCDamage == { d \in Byte : Cardinality(d) \in 1 .. 4 }
MCLongest == [ s \in Sums |-> IF s = "crc8" THEN 15 ELSE 4096 ]
=============================================================================
