---------------------------- MODULE SequenceSums ----------------------------
(***************************************************************************)
(* Sums over sequences of numbers: the sizes that GetData adds up before   *)
(* it allocates, and the offsets at which things are copied.               *)
(***************************************************************************)
EXTENDS Integers, Sequences

(* The sums of the first 0, 1, 2, ... numbers. *)
SumsUpTo(s) ==
  LET sum[i \in 0 .. Len(s)] == IF i = 0 THEN 0 ELSE sum[i - 1] + s[i]
  IN  sum

Total(s) == SumsUpTo(s)[Len(s)]
=============================================================================
