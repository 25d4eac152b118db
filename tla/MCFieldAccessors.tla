-------------------------- MODULE MCFieldAccessors --------------------------
(***************************************************************************)
(* Values on both sides of every boundary: of the bits of each field, of   *)
(* the products that wrap in 16 bits, of the types and of the year 2010.   *)
(***************************************************************************)
EXTENDS FieldAccessors

Around(S) == UNION { {n - 1, n, n + 1} : n \in S }

MCValues ==
  Around({ 2 ^ w : w \in {0, 7, 8, 9, 10, 13, 14, 15, 16, 24} })
    \cup Around({ -(2 ^ w) : w \in {0, 7, 8, 14, 15, 16, 23, 24} })
    \cup Around({ 2 ^ w \div 10 : w \in {10, 13, 14, 16} })
    \cup Around({ 100, 510 }) \cup Around({ 1262304000 })
    \cup { 1677721500, 1677721600 }
=============================================================================
