------------------------ MODULE SubrecordCodecProofs ------------------------
(***************************************************************************)
(* What holds of SubrecordCodec for EVERY object of the 26 classes, with   *)
(* any presence bits, lists of any length and every number of bytes that   *)
(* may arrive: GetData writes inside the buffer it allocates (or the object *)
(* Spills); SetSRD reads inside its data; what was cut off is noticed; and *)
(* *ppos is as long as the subrecord, or exceeds the data by 19 at most.   *)
(*                                                                         *)
(* The state machine is the easy part: IInv says that the buffer holds the *)
(* first parts at the sums of their sizes, and the fields items that were  *)
(* reached. The work is in the classes: that the sums in GetData and the   *)
(* checks in SetSRD suit what is copied, for lists of any length. So the   *)
(* module begins with sums (by induction), goes on to                      *)
(* sequences of parts (Makes) and of items (Exact, Ahead, Calm, Stands),   *)
(* then shows of every class what it writes and reads (C_Writes, C_Reads)  *)
(* and that this is fair (C_Fair), which ObjectFair collects.              *)
(***************************************************************************)
EXTENDS SubrecordCodec, SequenceTheorems, WellFoundedInduction, TLAPS

(***************************************************************************)
(* Induction: in a set of numbers that has 0, and with every number the    *)
(* next one, are all of them. A statement is proved for all n by proving   *)
(* this of the set of the numbers for which it holds.                      *)
(***************************************************************************)
LEMMA HasLeast ==
  ASSUME NEW T \in SUBSET Nat, T # {}
  PROVE  \E x \in T : \A y \in T : x <= y
<1> DEFINE Less == { p \in Nat \X Nat : p[1] < p[2] }
<1>1. IsWellFoundedOn(Less, Nat)
  BY NatLessThanWellFounded DEF OpToRel
<1>2. PICK x \in T : \A y \in T : ~(<<y, x>> \in Less)
  BY <1>1, WFMin
<1>3. \A y \in T : ~(y < x)
  BY <1>2
<1> QED
  BY <1>3

(* A set that holds 0, and the successor of all it holds, holds every number. *)
LEMMA Induction ==
  ASSUME NEW H, 0 \in H, \A n \in Nat : n \in H => n + 1 \in H
  PROVE  Nat \subseteq H
<1> SUFFICES ASSUME ~(Nat \subseteq H)
             PROVE  FALSE
  OBVIOUS
<1>1. PICK x \in Nat \ H : \A y \in Nat \ H : x <= y
  BY HasLeast
<1>2. x # 0 /\ x - 1 \in Nat
  BY <1>1
<1>3. x - 1 \in H
  BY <1>1, <1>2
<1> QED
  BY <1>1, <1>2, <1>3

(***************************************************************************)
(* Sums.                                                                   *)
(***************************************************************************)
IsSum(f, s, n) == f = [ i \in 0 .. n |-> IF i = 0 THEN 0 ELSE f[i - 1] + s[i] ]

(* The function that SumsUpTo describes exists. *)
LEMMA SumExists ==
  ASSUME NEW s \in Seq(Int)
  PROVE  \E f : IsSum(f, s, Len(s))
<1> DEFINE H == { n \in Nat : n <= Len(s) => \E f : IsSum(f, s, n) }
<1>1. 0 \in H
  <2>1. IsSum([ i \in 0 .. 0 |-> 0 ], s, 0)
    BY DEF IsSum
  <2> QED
    BY <2>1
<1>2. ASSUME NEW n \in Nat, n \in H
      PROVE  n + 1 \in H
  <2> SUFFICES ASSUME n + 1 <= Len(s)
               PROVE  \E f : IsSum(f, s, n + 1)
    OBVIOUS
  <2>1. PICK f : IsSum(f, s, n)
    BY <1>2
  <2>2. IsSum([ i \in 0 .. n + 1 |-> IF i = n + 1 THEN f[n] + s[n + 1] ELSE f[i] ], s, n + 1)
    BY <2>1 DEF IsSum
  <2> QED
    BY <2>2
<1>3. Nat \subseteq H
  BY <1>1, <1>2, Induction
<1> QED
  BY <1>3

(* So the sums are what their recursion says. *)
LEMMA SumsDefined ==
  ASSUME NEW s \in Seq(Int)
  PROVE  /\ SumsUpTo(s)[0] = 0
         /\ \A i \in 1 .. Len(s) : SumsUpTo(s)[i] = SumsUpTo(s)[i - 1] + s[i]
<1>1. SumsUpTo(s) = CHOOSE f : IsSum(f, s, Len(s))
  BY DEF SumsUpTo, IsSum
<1>2. IsSum(SumsUpTo(s), s, Len(s))
  BY <1>1, SumExists
<1>3. \A i \in 0 .. Len(s) :
        SumsUpTo(s)[i] = IF i = 0 THEN 0 ELSE SumsUpTo(s)[i - 1] + s[i]
  BY <1>2 DEF IsSum
<1> QED
  BY <1>3

(* The weights of the elements of a sequence, and the sum of the first i.   *)
Weights(s, m) == [ i \in DOMAIN s |-> m[s[i]] ]
UpTo(s, m, i) == SumsUpTo(Weights(s, m))[i]
Weight(s, m)  == Total(Weights(s, m))

(* The same of the sums of the weights of elements. *)
LEMMA UpToDefined ==
  ASSUME NEW S, NEW m \in [S -> Nat], NEW s \in Seq(S)
  PROVE  /\ UpTo(s, m, 0) = 0
         /\ \A i \in 1 .. Len(s) : UpTo(s, m, i) = UpTo(s, m, i - 1) + m[s[i]]
         /\ \A i \in 0 .. Len(s) : UpTo(s, m, i) \in Nat
         /\ Weight(s, m) = UpTo(s, m, Len(s))
         /\ Weight(s, m) \in Nat
<1> DEFINE w == Weights(s, m)
<1>1. w \in Seq(Int) /\ Len(w) = Len(s)
  BY DEF Weights
<1>2. \A i \in 1 .. Len(s) : w[i] = m[s[i]] /\ m[s[i]] \in Nat
  BY DEF Weights
<1>3. SumsUpTo(w)[0] = 0 /\ \A i \in 1 .. Len(s) : SumsUpTo(w)[i] = SumsUpTo(w)[i - 1] + w[i]
  BY <1>1, SumsDefined
<1>4. UpTo(s, m, 0) = 0
  BY <1>3 DEF UpTo
<1>5. \A i \in 1 .. Len(s) : UpTo(s, m, i) = UpTo(s, m, i - 1) + m[s[i]]
  BY <1>2, <1>3 DEF UpTo
<1> DEFINE H == { n \in Nat : n <= Len(s) => UpTo(s, m, n) \in Nat }
<1>6. 0 \in H
  BY <1>4
<1>7. ASSUME NEW n \in Nat, n \in H
      PROVE  n + 1 \in H
  <2> SUFFICES ASSUME n + 1 <= Len(s)
               PROVE  UpTo(s, m, n + 1) \in Nat
    OBVIOUS
  <2>1. n + 1 \in 1 .. Len(s) /\ n + 1 - 1 = n /\ UpTo(s, m, n) \in Nat
    BY <1>7
  <2> QED
    BY <1>2, <1>5, <2>1
<1>8. Nat \subseteq H
  BY <1>6, <1>7, Induction
<1>9. \A i \in 0 .. Len(s) : UpTo(s, m, i) \in Nat
  BY <1>8
<1>10. Weight(s, m) = UpTo(s, m, Len(s))
  BY <1>1 DEF Weight, Total, UpTo
<1> QED
  BY <1>4, <1>5, <1>9, <1>10

(* Weights are not negative: the sums grow. *)
LEMMA UpToGrows ==
  ASSUME NEW S, NEW m \in [S -> Nat], NEW s \in Seq(S),
         NEW i \in 0 .. Len(s), NEW j \in i .. Len(s)
  PROVE  UpTo(s, m, i) <= UpTo(s, m, j)
<1>1. \A k \in 1 .. Len(s) : UpTo(s, m, k) = UpTo(s, m, k - 1) + m[s[k]] /\ m[s[k]] \in Nat
  BY UpToDefined
<1>2. \A k \in 0 .. Len(s) : UpTo(s, m, k) \in Nat
  BY UpToDefined
<1> DEFINE H == { n \in Nat : i + n <= Len(s) => UpTo(s, m, i) <= UpTo(s, m, i + n) }
<1>3. 0 \in H
  BY <1>2
<1>4. ASSUME NEW n \in Nat, n \in H
      PROVE  n + 1 \in H
  <2> SUFFICES ASSUME i + (n + 1) <= Len(s)
               PROVE  UpTo(s, m, i) <= UpTo(s, m, i + (n + 1))
    OBVIOUS
  <2>1. i + (n + 1) \in 1 .. Len(s) /\ i + (n + 1) - 1 = i + n /\ i + n \in 0 .. Len(s)
    OBVIOUS
  <2>2. UpTo(s, m, i) <= UpTo(s, m, i + n)
    BY <1>4
  <2>3. UpTo(s, m, i + (n + 1)) = UpTo(s, m, i + n) + m[s[i + (n + 1)]]
    BY <1>1, <2>1
  <2>4. m[s[i + (n + 1)]] \in Nat
    BY <1>1, <2>1
  <2> QED
    BY <1>2, <2>1, <2>2, <2>3, <2>4
<1>5. Nat \subseteq H
  BY <1>3, <1>4, Induction
<1>6. j - i \in Nat /\ i + (j - i) = j /\ j <= Len(s)
  OBVIOUS
<1>7. j - i \in H
  BY <1>5, <1>6
<1> QED
  BY <1>6, <1>7

(* Nothing, and one element. *)
LEMMA WeightOfFew ==
  ASSUME NEW S, NEW m \in [S -> Nat]
  PROVE  /\ Weight(<< >>, m) = 0
         /\ \A e \in S : Weight(<< e >>, m) = m[e]
<1>1. Weight(<< >>, m) = 0
  <2>1. << >> \in Seq(S) /\ Len(<< >>) = 0
    OBVIOUS
  <2>2. Weight(<< >>, m) = UpTo(<< >>, m, Len(<< >>)) /\ UpTo(<< >>, m, 0) = 0
    BY <2>1, UpToDefined
  <2> QED
    BY <2>1, <2>2
<1>2. ASSUME NEW e \in S
      PROVE  Weight(<< e >>, m) = m[e]
  <2> DEFINE s == << e >>
  <2>1. s \in Seq(S) /\ Len(s) = 1 /\ s[1] = e
    OBVIOUS
  <2> HIDE DEF s
  <2>2. /\ UpTo(s, m, 0) = 0 /\ Weight(s, m) = UpTo(s, m, Len(s))
        /\ \A i \in 1 .. Len(s) : UpTo(s, m, i) = UpTo(s, m, i - 1) + m[s[i]]
    <3>1. s \in Seq(S)
      BY <2>1
    <3> QED
      BY <3>1, UpToDefined, Zenon
  <2>3. UpTo(s, m, 1) = UpTo(s, m, 0) + m[e]
    BY <2>1, <2>2
  <2>4. m[e] \in Nat
    OBVIOUS
  <2> QED
    BY <2>1, <2>2, <2>3, <2>4 DEF s
<1> QED
  BY <1>1, <1>2

(* The sums of a concatenation: those of s, and behind them those of t. *)
LEMMA WeightOfBoth ==
  ASSUME NEW S, NEW m \in [S -> Nat], NEW s \in Seq(S), NEW t \in Seq(S)
  PROVE  /\ \A i \in 0 .. Len(s) : UpTo(s \o t, m, i) = UpTo(s, m, i)
         /\ \A i \in 0 .. Len(t) : UpTo(s \o t, m, Len(s) + i) = Weight(s, m) + UpTo(t, m, i)
         /\ Weight(s \o t, m) = Weight(s, m) + Weight(t, m)
<1> DEFINE u == s \o t
<1>1. /\ u \in Seq(S) /\ Len(u) = Len(s) + Len(t)
      /\ \A i \in 1 .. Len(s) : u[i] = s[i]
      /\ \A i \in 1 .. Len(t) : u[Len(s) + i] = t[i]
  BY ConcatProperties
<1> HIDE DEF u
<1>2. /\ UpTo(s, m, 0) = 0 /\ Weight(s, m) = UpTo(s, m, Len(s)) /\ Weight(s, m) \in Nat
      /\ \A i \in 1 .. Len(s) : UpTo(s, m, i) = UpTo(s, m, i - 1) + m[s[i]]
  BY UpToDefined
<1>3. /\ UpTo(t, m, 0) = 0 /\ Weight(t, m) = UpTo(t, m, Len(t))
      /\ \A i \in 0 .. Len(t) : UpTo(t, m, i) \in Nat
      /\ \A i \in 1 .. Len(t) : UpTo(t, m, i) = UpTo(t, m, i - 1) + m[t[i]]
  BY UpToDefined
<1>4. /\ UpTo(u, m, 0) = 0 /\ Weight(u, m) = UpTo(u, m, Len(u))
      /\ \A i \in 1 .. Len(u) : UpTo(u, m, i) = UpTo(u, m, i - 1) + m[u[i]]
  <2>1. u \in Seq(S)
    BY <1>1
  <2> QED
    BY <2>1, UpToDefined, Zenon
<1> DEFINE H == { n \in Nat : n <= Len(s) => UpTo(u, m, n) = UpTo(s, m, n) }
<1>5. 0 \in H
  BY <1>2, <1>4
<1>6. ASSUME NEW n \in Nat, n \in H
      PROVE  n + 1 \in H
  <2> SUFFICES ASSUME n + 1 <= Len(s)
               PROVE  UpTo(u, m, n + 1) = UpTo(s, m, n + 1)
    OBVIOUS
  <2>1. n + 1 \in 1 .. Len(s) /\ n + 1 \in 1 .. Len(u) /\ n + 1 - 1 = n
    BY <1>1
  <2>2. UpTo(u, m, n) = UpTo(s, m, n) /\ u[n + 1] = s[n + 1]
    BY <1>1, <1>6, <2>1
  <2> QED
    BY <1>2, <1>4, <2>1, <2>2
<1>7. Nat \subseteq H
  BY <1>5, <1>6, Induction
<1>8. \A i \in 0 .. Len(s) : UpTo(u, m, i) = UpTo(s, m, i)
  BY <1>7
<1> DEFINE K == { n \in Nat : n <= Len(t) => UpTo(u, m, Len(s) + n) = Weight(s, m) + UpTo(t, m, n) }
<1>9. 0 \in K
  BY <1>2, <1>3, <1>8
<1>10. ASSUME NEW n \in Nat, n \in K
       PROVE  n + 1 \in K
  <2> SUFFICES ASSUME n + 1 <= Len(t)
               PROVE  UpTo(u, m, Len(s) + (n + 1)) = Weight(s, m) + UpTo(t, m, n + 1)
    OBVIOUS
  <2>1. /\ n + 1 \in 1 .. Len(t) /\ Len(s) + (n + 1) \in 1 .. Len(u)
        /\ n + 1 - 1 = n /\ Len(s) + (n + 1) - 1 = Len(s) + n
    BY <1>1
  <2>2. UpTo(u, m, Len(s) + (n + 1)) = UpTo(u, m, Len(s) + n) + m[u[Len(s) + (n + 1)]]
    BY <1>4, <2>1
  <2>3. UpTo(t, m, n + 1) = UpTo(t, m, n) + m[t[n + 1]]
    BY <1>3, <2>1
  <2>4. u[Len(s) + (n + 1)] = t[n + 1] /\ UpTo(u, m, Len(s) + n) = Weight(s, m) + UpTo(t, m, n)
    BY <1>1, <1>10, <2>1
  <2>5. m[t[n + 1]] \in Nat /\ UpTo(t, m, n) \in Nat
    BY <1>3, <2>1
  <2> QED
    BY <1>2, <2>2, <2>3, <2>4, <2>5
<1>11. Nat \subseteq K
  BY <1>9, <1>10, Induction
<1>12. \A i \in 0 .. Len(t) : UpTo(u, m, Len(s) + i) = Weight(s, m) + UpTo(t, m, i)
  BY <1>11
<1>13. Weight(u, m) = Weight(s, m) + Weight(t, m)
  BY <1>1, <1>3, <1>4, <1>12
<1> QED
  BY <1>8, <1>12, <1>13 DEF u
-----------------------------------------------------------------------------
(* Sums of numbers, and lists of lists.                                    *)
(* A function over 1 .. n is a sequence. *)
LEMMA Listed ==
  ASSUME NEW S, NEW n \in Nat, NEW f \in [1 .. n -> S]
  PROVE  f \in Seq(S) /\ Len(f) = n
OBVIOUS

(* The sums of natural numbers. *)
LEMMA SumsCount ==
  ASSUME NEW s \in Seq(Nat)
  PROVE  /\ SumsUpTo(s)[0] = 0
         /\ \A i \in 1 .. Len(s) : SumsUpTo(s)[i] = SumsUpTo(s)[i - 1] + s[i]
         /\ \A i \in 0 .. Len(s) : SumsUpTo(s)[i] \in Nat
         /\ Total(s) = SumsUpTo(s)[Len(s)] /\ Total(s) \in Nat
<1> DEFINE one == [ x \in Nat |-> x ]
<1>1. Weights(s, one) = s
  BY DEF Weights
<1>2. one \in [Nat -> Nat] /\ \A i \in 1 .. Len(s) : one[s[i]] = s[i]
  OBVIOUS
<1> HIDE DEF one
<1>3. /\ UpTo(s, one, 0) = 0
      /\ \A i \in 1 .. Len(s) : UpTo(s, one, i) = UpTo(s, one, i - 1) + one[s[i]]
      /\ \A i \in 0 .. Len(s) : UpTo(s, one, i) \in Nat
      /\ Weight(s, one) = UpTo(s, one, Len(s))
      /\ Weight(s, one) \in Nat
  BY <1>2, UpToDefined, Zenon
<1>4. Weight(s, one) = Total(s) /\ \A i : UpTo(s, one, i) = SumsUpTo(s)[i]
  BY <1>1 DEF Weight, UpTo
<1> QED
  BY <1>2, <1>3, <1>4

(* n times the same number. *)
LEMMA TotalOfEqual ==
  ASSUME NEW s \in Seq(Nat), NEW c \in Nat, \A i \in 1 .. Len(s) : s[i] = c
  PROVE  Total(s) = c * Len(s)
<1>1. /\ SumsUpTo(s)[0] = 0
      /\ \A i \in 1 .. Len(s) : SumsUpTo(s)[i] = SumsUpTo(s)[i - 1] + s[i]
      /\ Total(s) = SumsUpTo(s)[Len(s)]
  BY SumsCount, Zenon
<1> DEFINE H == { n \in Nat : n <= Len(s) => SumsUpTo(s)[n] = c * n }
<1>2. 0 \in H
  BY <1>1
<1>3. ASSUME NEW n \in Nat, n \in H
      PROVE  n + 1 \in H
  <2> SUFFICES ASSUME n + 1 <= Len(s)
               PROVE  SumsUpTo(s)[n + 1] = c * (n + 1)
    OBVIOUS
  <2>1. n + 1 \in 1 .. Len(s) /\ n + 1 - 1 = n /\ SumsUpTo(s)[n] = c * n
    BY <1>3
  <2>2. SumsUpTo(s)[n + 1] = SumsUpTo(s)[n] + c
    BY <1>1, <2>1
  <2>3. c * (n + 1) = c * n + c
    OBVIOUS
  <2> QED
    BY <2>1, <2>2, <2>3
<1>4. Nat \subseteq H
  BY <1>2, <1>3, Induction
<1>5. Len(s) \in H
  BY <1>4
<1> QED
  BY <1>1, <1>5

(* A common factor. *)
LEMMA TotalScaled ==
  ASSUME NEW s \in Seq(Nat), NEW t \in Seq(Nat), Len(t) = Len(s), NEW c \in Nat,
         \A i \in 1 .. Len(s) : t[i] = c * s[i]
  PROVE  Total(t) = c * Total(s)
<1>1. /\ SumsUpTo(t)[0] = 0
      /\ \A i \in 1 .. Len(t) : SumsUpTo(t)[i] = SumsUpTo(t)[i - 1] + t[i]
      /\ Total(t) = SumsUpTo(t)[Len(t)]
  BY SumsCount, Zenon
<1>2. /\ SumsUpTo(s)[0] = 0
      /\ \A i \in 1 .. Len(s) : SumsUpTo(s)[i] = SumsUpTo(s)[i - 1] + s[i]
      /\ \A i \in 0 .. Len(s) : SumsUpTo(s)[i] \in Nat
      /\ Total(s) = SumsUpTo(s)[Len(s)]
  BY SumsCount, Zenon
<1> DEFINE H == { n \in Nat : n <= Len(s) => SumsUpTo(t)[n] = c * SumsUpTo(s)[n] }
<1>3. 0 \in H
  BY <1>1, <1>2
<1>4. ASSUME NEW n \in Nat, n \in H
      PROVE  n + 1 \in H
  <2> SUFFICES ASSUME n + 1 <= Len(s)
               PROVE  SumsUpTo(t)[n + 1] = c * SumsUpTo(s)[n + 1]
    OBVIOUS
  <2>1. /\ n + 1 \in 1 .. Len(s) /\ n \in 0 .. Len(s) /\ n + 1 - 1 = n
        /\ SumsUpTo(t)[n] = c * SumsUpTo(s)[n]
    BY <1>4
  <2> DEFINE a == SumsUpTo(s)[n]
             b == s[n + 1]
  <2>2. a \in Nat /\ b \in Nat
    BY <1>2, <2>1
  <2>3. SumsUpTo(t)[n + 1] = c * a + c * b /\ SumsUpTo(s)[n + 1] = a + b
    BY <1>1, <1>2, <2>1
  <2> HIDE DEF a, b
  <2>4. c * (a + b) = c * a + c * b
    BY <2>2
  <2> QED
    BY <2>3, <2>4
<1>5. Nat \subseteq H
  BY <1>3, <1>4, Induction
<1>6. Len(s) \in H
  BY <1>5
<1> QED
  BY <1>1, <1>2, <1>6

(***************************************************************************)
(* Sequences put together.                                                 *)
(***************************************************************************)
IsFlat(f, ss, n) == f = [ i \in 1 .. n |-> IF i = 1 THEN ss[i] ELSE f[i - 1] \o ss[i] ]

(* FlattenSeq concatenates from the first on. *)
LEMMA FlatExists ==
  ASSUME NEW S, NEW ss \in Seq(Seq(S)), Len(ss) # 0
  PROVE  \E f : IsFlat(f, ss, Len(ss)) /\ FlattenSeq(ss) = f[Len(ss)]
<1> DEFINE H == { n \in Nat : n <= Len(ss) => \E f : IsFlat(f, ss, n) }
<1>1. 0 \in H
  <2>1. IsFlat([ i \in 1 .. 0 |-> 0 ], ss, 0)
    BY DEF IsFlat
  <2> QED
    BY <2>1
<1>2. ASSUME NEW n \in Nat, n \in H
      PROVE  n + 1 \in H
  <2> SUFFICES ASSUME n + 1 <= Len(ss)
               PROVE  \E f : IsFlat(f, ss, n + 1)
    OBVIOUS
  <2>1. PICK f : IsFlat(f, ss, n)
    BY <1>2
  <2> DEFINE g == [ i \in 1 .. n + 1 |-> IF i <= n THEN f[i]
                                         ELSE IF i = 1 THEN ss[i] ELSE f[n] \o ss[i] ]
  <2>2. ASSUME NEW i \in 1 .. n + 1
        PROVE  g[i] = IF i = 1 THEN ss[i] ELSE g[i - 1] \o ss[i]
    <3>1. CASE i <= n
      <4>0. i \in 1 .. n
        BY <3>1
      <4>1. f[i] = IF i = 1 THEN ss[i] ELSE f[i - 1] \o ss[i]
        <5> HIDE DEF g, H
        <5>1. f = [ j \in 1 .. n |-> IF j = 1 THEN ss[j] ELSE f[j - 1] \o ss[j] ]
          BY <2>1 DEF IsFlat
        <5> QED
          BY <4>0, <5>1
      <4>2. g[i] = f[i]
        BY <3>1
      <4>3. CASE i = 1
        BY <4>1, <4>2, <4>3
      <4>4. CASE i # 1
        <5>1. i - 1 \in 1 .. n + 1 /\ i - 1 <= n
          BY <3>1, <4>4
        <5>2. g[i - 1] = f[i - 1]
          BY <5>1
        <5> QED
          BY <4>1, <4>2, <4>4, <5>2
      <4> QED
        BY <4>3, <4>4
    <3>2. CASE i = n + 1
      BY <3>2
    <3> QED
      BY <3>1, <3>2
  <2>3. IsFlat(g, ss, n + 1)
    BY <2>2 DEF IsFlat
  <2> QED
    BY <2>3
<1>3. Nat \subseteq H
  BY <1>1, <1>2, Induction
<1>4. \E f : IsFlat(f, ss, Len(ss))
  BY <1>3
<1>5. FlattenSeq(ss) = (CHOOSE f : IsFlat(f, ss, Len(ss)))[Len(ss)]
  BY DEF FlattenSeq, IsFlat
<1> QED
  BY <1>4, <1>5

(* The elements of the lists of ss, put together, are those of the lists, and *)
(* weigh what the lists weigh.                                                *)
LEMMA Flattened ==
  ASSUME NEW S, NEW m \in [S -> Nat], NEW ss \in Seq(Seq(S))
  PROVE  /\ FlattenSeq(ss) \in Seq(S)
         /\ Weight(FlattenSeq(ss), m) = Total([ i \in DOMAIN ss |-> Weight(ss[i], m) ])
         /\ \A P : (\A i \in 1 .. Len(ss) : \A j \in 1 .. Len(ss[i]) : ss[i][j] \in P)
                   => \A i \in 1 .. Len(FlattenSeq(ss)) : FlattenSeq(ss)[i] \in P
<1> DEFINE w == [ i \in DOMAIN ss |-> Weight(ss[i], m) ]
<1>w. w \in Seq(Nat) /\ Len(w) = Len(ss) /\ \A i \in 1 .. Len(ss) : w[i] = Weight(ss[i], m)
  <2>1. \A i \in 1 .. Len(ss) : Weight(ss[i], m) \in Nat
    <3> SUFFICES ASSUME NEW i \in 1 .. Len(ss)
                 PROVE  Weight(ss[i], m) \in Nat
      OBVIOUS
    <3>1. ss[i] \in Seq(S)
      OBVIOUS
    <3> QED
      BY <3>1, UpToDefined
  <2>2. w \in [1 .. Len(ss) -> Nat]
    BY <2>1
  <2> QED
    BY <2>2, Listed
<1> HIDE DEF w
<1>0. /\ SumsUpTo(w)[0] = 0 /\ Total(w) = SumsUpTo(w)[Len(w)]
      /\ \A i \in 1 .. Len(w) : SumsUpTo(w)[i] = SumsUpTo(w)[i - 1] + w[i]
  <2>1. w \in Seq(Nat)
    BY <1>w
  <2> QED
    BY <2>1, SumsCount, Zenon
<1>1. CASE Len(ss) = 0
  <2>1. FlattenSeq(ss) = << >>
    BY <1>1 DEF FlattenSeq
  <2>2. Weight(<< >>, m) = 0
    BY WeightOfFew
  <2> QED
    BY <1>w, <1>0, <1>1, <2>1, <2>2 DEF w
<1>2. CASE Len(ss) # 0
  <2>1. PICK f : IsFlat(f, ss, Len(ss)) /\ FlattenSeq(ss) = f[Len(ss)]
    BY <1>2, FlatExists
  <2>2. \A i \in 1 .. Len(ss) : f[i] = IF i = 1 THEN ss[i] ELSE f[i - 1] \o ss[i]
    BY <2>1 DEF IsFlat
  <2> DEFINE OnlyOf(P) == \A i \in 1 .. Len(ss) : \A j \in 1 .. Len(ss[i]) : ss[i][j] \in P
             Good(n) == /\ f[n] \in Seq(S)
                        /\ \A P : OnlyOf(P) => \A i \in 1 .. Len(f[n]) : f[n][i] \in P
                        /\ Weight(f[n], m) = SumsUpTo(w)[n]
             H == { n \in Nat : n + 1 <= Len(ss) => Good(n + 1) }
  <2>3. Good(1)
    <3>1. 1 \in 1 .. Len(ss) /\ f[1] = ss[1] /\ ss[1] \in Seq(S)
      BY <1>2, <2>2
    <3>2. SumsUpTo(w)[1] = SumsUpTo(w)[0] + w[1] /\ w[1] = Weight(ss[1], m) /\ w[1] \in Nat
      BY <1>w, <1>0, <3>1
    <3>3. Weight(f[1], m) = SumsUpTo(w)[1]
      BY <1>0, <3>1, <3>2
    <3> QED
      BY <3>1, <3>3
  <2>4. ASSUME NEW k \in Nat \ {0}, k + 1 <= Len(ss), Good(k)
        PROVE  Good(k + 1)
    <3>1. k \in 1 .. Len(ss) /\ k + 1 \in 1 .. Len(ss) /\ k + 1 - 1 = k /\ k + 1 # 1
      BY <2>4
    <3> DEFINE a == f[k]
               b == ss[k + 1]
               c == f[k + 1]
    <3>2. c = a \o b
      <4> DEFINE j == k + 1
      <4>1. j \in 1 .. Len(ss) /\ j # 1 /\ j - 1 = k
        BY <3>1
      <4> HIDE DEF j, Good, H
      <4>2. f[j] = f[j - 1] \o ss[j]
        BY <2>2, <4>1
      <4> QED
        BY <4>1, <4>2 DEF j
    <3>3. a \in Seq(S)
      BY <2>4
    <3>4. b \in Seq(S)
      BY <3>1
    <3>5. \A P : OnlyOf(P) => \A i \in 1 .. Len(a) : a[i] \in P
      BY <2>4
    <3>6. \A P : OnlyOf(P) => \A i \in 1 .. Len(b) : b[i] \in P
      BY <3>1
    <3>7. Weight(a, m) = SumsUpTo(w)[k]
      BY <2>4
    <3>8. Weight(b, m) = w[k + 1]
      BY <1>w, <3>1
    <3> HIDE DEF Good, OnlyOf, a, b, c
    <3>9. c \in Seq(S)
      BY <3>2, <3>3, <3>4, ConcatProperties
    <3>10. ASSUME NEW P, OnlyOf(P)
           PROVE  \A i \in 1 .. Len(c) : c[i] \in P
      <4>1. /\ c \in Seq(S) /\ Len(c) = Len(a) + Len(b)
            /\ \A i \in 1 .. Len(c) : c[i] = IF i <= Len(a) THEN a[i] ELSE b[i - Len(a)]
        BY <3>2, <3>3, <3>4, ConcatProperties
      <4> SUFFICES ASSUME NEW i \in 1 .. Len(c)
                   PROVE  c[i] \in P
        OBVIOUS
      <4>2. Len(a) \in Nat /\ Len(b) \in Nat
        BY <3>3, <3>4
      <4>3. CASE i <= Len(a)
        <5>1. i \in 1 .. Len(a) /\ c[i] = a[i]
          BY <4>1, <4>2, <4>3
        <5> QED
          BY <3>5, <3>10, <5>1
      <4>4. CASE i > Len(a)
        <5>1. i - Len(a) \in 1 .. Len(b) /\ c[i] = b[i - Len(a)]
          BY <4>1, <4>2, <4>4
        <5> QED
          BY <3>6, <3>10, <5>1
      <4> QED
        BY <4>2, <4>3, <4>4
    <3>11. Weight(c, m) = Weight(a, m) + Weight(b, m)
      BY <3>2, <3>3, <3>4, WeightOfBoth, Zenon
    <3>12. SumsUpTo(w)[k + 1] = SumsUpTo(w)[k] + w[k + 1]
      BY <1>w, <1>0, <3>1
    <3>13. Weight(c, m) = SumsUpTo(w)[k + 1]
      BY <3>7, <3>8, <3>11, <3>12
    <3> QED
      BY <3>9, <3>10, <3>13 DEF Good, c
  <2>5. Nat \subseteq H
    <3> HIDE DEF Good
    <3>1. 0 \in H
      BY <2>3
    <3>2. ASSUME NEW n \in Nat, n \in H
          PROVE  n + 1 \in H
      BY <2>4, <3>2
    <3> QED
      BY <3>1, <3>2, Induction
  <2>6. Len(ss) - 1 \in Nat /\ Len(ss) - 1 + 1 = Len(ss)
    BY <1>2
  <2>7. Good(Len(ss))
    <3> HIDE DEF Good
    <3>1. Len(ss) - 1 \in H
      BY <2>5, <2>6
    <3> QED
      BY <2>6, <3>1
  <2> QED
    BY <1>w, <1>0, <2>1, <2>7 DEF w
<1> QED
  BY <1>1, <1>2
-----------------------------------------------------------------------------
(* Parts and items: what is written, and what is read. Plain items check,  *)
(* keep and skip alike.                                                    *)
Names ==
  {"none", "head", "body", "flags", "chs", "acl", "ac", "confirmation", "command", "cd", "fm",
   "msd", "bf", "additional", "ver", "sa", "sd.head", "sd", "ad.head", "ads", "tds", "rt.head",
   "rt.body", "rt.spdl", "rt.alt", "location", "station", "epevc", "event", "hdid", "imei",
   "imsi", "lngc", "nid", "bs", "msisdn", "iccid", "dscr", "user_name", "user_pass",
   "server_sequence", "dl", "x", "y", "z", "xyz_data", "protobuf", "alt", "srcd", "vdop",
   "hdop", "pdop", "sat", "ns", "din", "ain", "cnt", "llcd", "door"}
PartSet == [ field : Names, nth : Nat, bytes : Nat ]
ItemSet == [ field : Names, nth : Nat, need : Nat, keep : Nat, skip : Nat ]
BytesOf == [ p \in PartSet |-> p.bytes ]
SkipOf  == [ i \in ItemSet |-> i.skip ]

(***************************************************************************)
(* Parts and items: lists of them, and lists of items of one kind.         *)
(***************************************************************************)
Guarded == { i \in ItemSet : i.keep <= i.need /\ i.skip <= i.need }
Lean    == { i \in ItemSet : i.need <= i.skip }
Modest  == { i \in ItemSet : i.keep <= i.skip }
Plain   == Guarded \cap Lean \cap Modest

Items(P) == { s \in Seq(ItemSet) : \A i \in 1 .. Len(s) : s[i] \in P }

(* Bytes is a sum of weights, *)
LEMMA WeightsOfParts ==
  /\ BytesOf \in [PartSet -> Nat]
  /\ \A parts \in Seq(PartSet) : Bytes(parts) = Weight(parts, BytesOf)
<1>1. BytesOf \in [PartSet -> Nat]
  BY DEF BytesOf, PartSet
<1>2. ASSUME NEW parts \in Seq(PartSet)
      PROVE  Bytes(parts) = Weight(parts, BytesOf)
  <2>1. \A i \in DOMAIN parts : parts[i] \in PartSet
    OBVIOUS
  <2>2. \A i \in DOMAIN parts : BytesOf[parts[i]] = parts[i].bytes
    BY <2>1 DEF BytesOf
  <2>3. [ i \in DOMAIN parts |-> parts[i].bytes ] = Weights(parts, BytesOf)
    BY <2>2 DEF Weights
  <2> QED
    BY <2>3 DEF Bytes, Weight
<1> QED
  BY <1>1, <1>2

(* and so is Skipped. *)
LEMMA WeightsOfItems ==
  /\ SkipOf \in [ItemSet -> Nat]
  /\ \A items \in Seq(ItemSet) : Skipped(items) = Weight(items, SkipOf)
<1>1. SkipOf \in [ItemSet -> Nat]
  BY DEF SkipOf, ItemSet
<1>2. ASSUME NEW items \in Seq(ItemSet)
      PROVE  Skipped(items) = Weight(items, SkipOf)
  <2>1. \A i \in DOMAIN items : items[i] \in ItemSet
    OBVIOUS
  <2>2. \A i \in DOMAIN items : SkipOf[items[i]] = items[i].skip
    BY <2>1 DEF SkipOf
  <2>3. [ i \in DOMAIN items |-> items[i].skip ] = Weights(items, SkipOf)
    BY <2>2 DEF Weights
  <2> QED
    BY <2>3 DEF Skipped, Weight
<1> QED
  BY <1>1, <1>2

(* No parts, one, and two lists of them. *)
LEMMA NoParts == << >> \in Seq(PartSet) /\ Bytes(<< >>) = 0
<1>1. << >> \in Seq(PartSet)
  OBVIOUS
<1>2. Bytes(<< >>) = Weight(<< >>, BytesOf)
  BY <1>1, WeightsOfParts
<1> QED
  BY <1>1, <1>2, WeightsOfParts, WeightOfFew

LEMMA OnePart ==
  ASSUME NEW f \in Names, NEW i \in Nat, NEW n \in Nat
  PROVE  NthPart(f, i, n) \in Seq(PartSet) /\ Bytes(NthPart(f, i, n)) = n
<1> DEFINE p == [ field |-> f, nth |-> i, bytes |-> n ]
<1>1. p \in PartSet /\ BytesOf[p] = n
  BY DEF PartSet, BytesOf
<1> HIDE DEF p
<1>2. << p >> \in Seq(PartSet)
  BY <1>1
<1>3. Bytes(<< p >>) = Weight(<< p >>, BytesOf)
  BY <1>2, WeightsOfParts
<1>4. Weight(<< p >>, BytesOf) = BytesOf[p]
  BY <1>1, WeightsOfParts, WeightOfFew
<1>5. NthPart(f, i, n) = << p >>
  BY DEF NthPart, p
<1> QED
  BY <1>1, <1>2, <1>3, <1>4, <1>5

LEMMA BothParts ==
  ASSUME NEW s \in Seq(PartSet), NEW t \in Seq(PartSet)
  PROVE  s \o t \in Seq(PartSet) /\ Bytes(s \o t) = Bytes(s) + Bytes(t)
<1>1. s \o t \in Seq(PartSet)
  OBVIOUS
<1>2. BytesOf \in [PartSet -> Nat]
  BY WeightsOfParts
<1>3. Weight(s \o t, BytesOf) = Weight(s, BytesOf) + Weight(t, BytesOf)
  BY <1>2, WeightOfBoth
<1> QED
  BY <1>1, <1>3, WeightsOfParts

(* The bytes of any parts are a number. *)
LEMMA PartsCount == \A s \in Seq(PartSet) : Bytes(s) \in Nat
<1> SUFFICES ASSUME NEW s \in Seq(PartSet)
             PROVE  Bytes(s) \in Nat
  OBVIOUS
<1>1. BytesOf \in [PartSet -> Nat] /\ Bytes(s) = Weight(s, BytesOf)
  BY WeightsOfParts
<1> QED
  BY <1>1, UpToDefined

(* No items, one, and two lists of them. *)
LEMMA NoItems == \A P : << >> \in Items(P) /\ Skipped(<< >>) = 0
<1>1. << >> \in Seq(ItemSet) /\ \A P : << >> \in Items(P)
  BY DEF Items
<1>2. Skipped(<< >>) = Weight(<< >>, SkipOf)
  BY <1>1, WeightsOfItems
<1> QED
  BY <1>1, <1>2, WeightsOfItems, WeightOfFew

LEMMA OneItem ==
  ASSUME NEW i \in ItemSet, NEW P, i \in P
  PROVE  << i >> \in Items(P) /\ Skipped(<< i >>) = i.skip
<1>1. << i >> \in Seq(ItemSet) /\ << i >> \in Items(P)
  BY DEF Items
<1>2. Skipped(<< i >>) = Weight(<< i >>, SkipOf)
  BY <1>1, WeightsOfItems
<1>3. Weight(<< i >>, SkipOf) = SkipOf[i]
  BY WeightsOfItems, WeightOfFew
<1>4. SkipOf[i] = i.skip
  BY DEF SkipOf
<1> QED
  BY <1>1, <1>2, <1>3, <1>4

LEMMA BothItems ==
  ASSUME NEW P, NEW s \in Items(P), NEW t \in Items(P)
  PROVE  s \o t \in Items(P) /\ Skipped(s \o t) = Skipped(s) + Skipped(t)
<1>1. s \in Seq(ItemSet) /\ t \in Seq(ItemSet)
  BY DEF Items
<1>2. /\ s \o t \in Seq(ItemSet) /\ Len(s \o t) = Len(s) + Len(t)
      /\ \A i \in 1 .. Len(s \o t) :
           (s \o t)[i] = IF i <= Len(s) THEN s[i] ELSE t[i - Len(s)]
  BY <1>1, ConcatProperties
<1>3. ASSUME NEW i \in 1 .. Len(s \o t)
      PROVE  (s \o t)[i] \in P
  <2>1. Len(s) \in Nat /\ Len(t) \in Nat
    BY <1>1
  <2>2. CASE i <= Len(s)
    <3>1. i \in 1 .. Len(s) /\ (s \o t)[i] = s[i]
      BY <1>2, <2>1, <2>2
    <3> QED
      BY <3>1 DEF Items
  <2>3. CASE i > Len(s)
    <3>1. i - Len(s) \in 1 .. Len(t) /\ (s \o t)[i] = t[i - Len(s)]
      BY <1>2, <2>1, <2>3
    <3> QED
      BY <3>1 DEF Items
  <2> QED
    BY <2>1, <2>2, <2>3
<1>4. s \o t \in Items(P)
  BY <1>2, <1>3 DEF Items
<1>5. SkipOf \in [ItemSet -> Nat]
  BY WeightsOfItems
<1>6. Weight(s \o t, SkipOf) = Weight(s, SkipOf) + Weight(t, SkipOf)
  BY <1>1, <1>5, WeightOfBoth
<1> QED
  BY <1>1, <1>2, <1>4, <1>6, WeightsOfItems

(* So is what any items skip. *)
LEMMA ItemsCount == \A s \in Seq(ItemSet) : Skipped(s) \in Nat
<1> SUFFICES ASSUME NEW s \in Seq(ItemSet)
             PROVE  Skipped(s) \in Nat
  OBVIOUS
<1>1. SkipOf \in [ItemSet -> Nat] /\ Skipped(s) = Weight(s, SkipOf)
  BY WeightsOfItems
<1> QED
  BY <1>1, UpToDefined

(* The kinds of items contain each other. *)
LEMMA Kinds ==
  /\ \A P, Q : P \subseteq Q => Items(P) \subseteq Items(Q)
  /\ \A P : Items(P) \subseteq Seq(ItemSet)
  /\ Plain \subseteq Guarded /\ Plain \subseteq Lean /\ Plain \subseteq Modest
BY DEF Items, Plain

(* What Read, Check and Loose give, and of which kinds it is. *)
LEMMA OneRead ==
  ASSUME NEW f \in Names, NEW i \in Nat, NEW n \in Nat
  PROVE  NthRead(f, i, n) \in Items(Plain) /\ Skipped(NthRead(f, i, n)) = n
<1> DEFINE r == [ field |-> f, nth |-> i, need |-> n, keep |-> n, skip |-> n ]
<1>1. r \in ItemSet /\ r \in Plain /\ r.skip = n
  BY DEF ItemSet, Plain, Guarded, Lean, Modest
<1> HIDE DEF r
<1>2. NthRead(f, i, n) = << r >>
  BY DEF NthRead, r
<1> QED
  BY <1>1, <1>2, OneItem

LEMMA OneCheck ==
  ASSUME NEW n \in Nat
  PROVE  /\ Check(n) \in Items(Guarded \cap Modest) /\ Skipped(Check(n)) = 0
         /\ Len(Check(n)) = 1 /\ Check(n)[1].need = n /\ Check(n)[1].keep = 0
<1> DEFINE r == [ field |-> "none", nth |-> 0, need |-> n, keep |-> 0, skip |-> 0 ]
<1>1. r \in ItemSet /\ r \in Guarded \cap Modest /\ r.skip = 0 /\ r.need = n /\ r.keep = 0
  BY DEF ItemSet, Guarded, Modest, Names
<1> HIDE DEF r
<1>2. Check(n) = << r >>
  BY DEF Check, r
<1> QED
  BY <1>1, <1>2, OneItem

LEMMA OneLoose ==
  ASSUME NEW f \in Names, NEW k \in Nat, NEW n \in Nat
  PROVE  /\ Loose(f, k, n) \in Items(Lean) /\ Skipped(Loose(f, k, n)) = n
         /\ k <= n => Loose(f, k, n) \in Items(Lean \cap Modest)
         /\ Len(Loose(f, k, n)) = 1 /\ Loose(f, k, n)[1].need = 0 /\ Loose(f, k, n)[1].keep = k
<1> DEFINE r == [ field |-> f, nth |-> 0, need |-> 0, keep |-> k, skip |-> n ]
<1>1. /\ r \in ItemSet /\ r \in Lean /\ r.skip = n /\ r.need = 0 /\ r.keep = k
      /\ k <= n => r \in Lean \cap Modest
  BY DEF ItemSet, Lean, Modest
<1> HIDE DEF r
<1>2. Loose(f, k, n) = << r >>
  BY DEF Loose, r
<1> QED
  BY <1>1, <1>2, OneItem

(***************************************************************************)
(* The lists that are made of one for every element of another.            *)
(***************************************************************************)
LEMMA FlatParts ==
  ASSUME NEW ss \in Seq(Seq(PartSet))
  PROVE  /\ FlattenSeq(ss) \in Seq(PartSet)
         /\ Bytes(FlattenSeq(ss)) = Total([ i \in DOMAIN ss |-> Bytes(ss[i]) ])
<1>1. BytesOf \in [PartSet -> Nat]
  BY WeightsOfParts
<1>2. /\ FlattenSeq(ss) \in Seq(PartSet)
      /\ Weight(FlattenSeq(ss), BytesOf) = Total([ i \in DOMAIN ss |-> Weight(ss[i], BytesOf) ])
  BY <1>1, Flattened
<1>3. [ i \in DOMAIN ss |-> Weight(ss[i], BytesOf) ] = [ i \in DOMAIN ss |-> Bytes(ss[i]) ]
  BY WeightsOfParts
<1> QED
  BY <1>2, <1>3, WeightsOfParts

(* The items of a flattened list. *)
LEMMA FlatItems ==
  ASSUME NEW P, NEW ss \in Seq(Items(P))
  PROVE  /\ FlattenSeq(ss) \in Items(P)
         /\ Skipped(FlattenSeq(ss)) = Total([ i \in DOMAIN ss |-> Skipped(ss[i]) ])
<1>1. SkipOf \in [ItemSet -> Nat]
  BY WeightsOfItems
<1>2. \A i \in 1 .. Len(ss) : ss[i] \in Items(P)
  OBVIOUS
<1>3. \A i \in 1 .. Len(ss) : ss[i] \in Seq(ItemSet) /\ \A j \in 1 .. Len(ss[i]) : ss[i][j] \in P
  BY <1>2 DEF Items
<1>4. ss \in Seq(Seq(ItemSet))
  BY <1>3, SeqMonotonic
<1>5. /\ FlattenSeq(ss) \in Seq(ItemSet)
      /\ Weight(FlattenSeq(ss), SkipOf) = Total([ i \in DOMAIN ss |-> Weight(ss[i], SkipOf) ])
      /\ (\A i \in 1 .. Len(ss) : \A j \in 1 .. Len(ss[i]) : ss[i][j] \in P)
           => \A i \in 1 .. Len(FlattenSeq(ss)) : FlattenSeq(ss)[i] \in P
  BY <1>1, <1>4, Flattened
<1>6. [ i \in DOMAIN ss |-> Weight(ss[i], SkipOf) ] = [ i \in DOMAIN ss |-> Skipped(ss[i]) ]
  BY <1>3, WeightsOfItems
<1>7. FlattenSeq(ss) \in Items(P)
  BY <1>3, <1>5 DEF Items
<1> QED
  BY <1>5, <1>6, <1>7, WeightsOfItems
-----------------------------------------------------------------------------
(* Where items are read.                                                   *)
(***************************************************************************)
(* How far the first i items move pos; whether all items that begin at the *)
(* offset a find the bytes they need among n; and whether those that do    *)
(* keep only bytes among n.                                                *)
(***************************************************************************)
At(s, i) == UpTo(s, SkipOf, i)
PassesAt(s, a, n) == \A i \in 1 .. Len(s) : Fits(s[i], a + At(s, i - 1), n)
InsideAt(s, a, n) ==
  \A i \in 1 .. Len(s) :
    (\A j \in 1 .. i : Fits(s[j], a + At(s, j - 1), n)) /\ s[i].keep > 0
      => a + At(s, i - 1) + s[i].keep <= n

(* The offsets of items, and their end. *)
LEMMA AtDefined ==
  ASSUME NEW s \in Seq(ItemSet)
  PROVE  /\ At(s, 0) = 0
         /\ \A i \in 1 .. Len(s) : At(s, i) = At(s, i - 1) + s[i].skip
         /\ \A i \in 0 .. Len(s) : At(s, i) \in Nat /\ At(s, i) <= Skipped(s)
         /\ Skipped(s) = At(s, Len(s)) /\ Skipped(s) \in Nat
         /\ \A i \in 1 .. Len(s) :
              s[i].skip \in Nat /\ s[i].need \in Nat /\ s[i].keep \in Nat
<1>1. SkipOf \in [ItemSet -> Nat] /\ Skipped(s) = Weight(s, SkipOf)
  BY WeightsOfItems
<1>2. /\ UpTo(s, SkipOf, 0) = 0
      /\ \A i \in 1 .. Len(s) : UpTo(s, SkipOf, i) = UpTo(s, SkipOf, i - 1) + SkipOf[s[i]]
      /\ \A i \in 0 .. Len(s) : UpTo(s, SkipOf, i) \in Nat
      /\ Weight(s, SkipOf) = UpTo(s, SkipOf, Len(s))
      /\ Weight(s, SkipOf) \in Nat
  BY <1>1, UpToDefined, Zenon
<1>3. \A i \in 1 .. Len(s) : s[i] \in ItemSet
  OBVIOUS
<1>4. \A i \in 1 .. Len(s) :
        SkipOf[s[i]] = s[i].skip /\ s[i].skip \in Nat /\ s[i].need \in Nat /\ s[i].keep \in Nat
  BY <1>3 DEF SkipOf, ItemSet
<1>5. \A i \in 0 .. Len(s) : UpTo(s, SkipOf, i) <= UpTo(s, SkipOf, Len(s))
  <2> SUFFICES ASSUME NEW i \in 0 .. Len(s)
               PROVE  UpTo(s, SkipOf, i) <= UpTo(s, SkipOf, Len(s))
    OBVIOUS
  <2>1. Len(s) \in i .. Len(s)
    OBVIOUS
  <2> QED
    BY <1>1, <2>1, UpToGrows, Zenon
<1> QED
  BY <1>1, <1>2, <1>4, <1>5 DEF At

(* Guarded items that pass stay in front of n, all of them. *)
LEMMA GuardedItems ==
  ASSUME NEW s \in Items(Guarded), NEW a \in Nat, NEW n \in Nat, a <= n
  PROVE  /\ InsideAt(s, a, n)
         /\ PassesAt(s, a, n) => a + Skipped(s) <= n
<1>1. s \in Seq(ItemSet) /\ \A i \in 1 .. Len(s) : s[i].keep <= s[i].need /\ s[i].skip <= s[i].need
  BY DEF Items, Guarded
<1>2. /\ At(s, 0) = 0
      /\ \A i \in 1 .. Len(s) : At(s, i) = At(s, i - 1) + s[i].skip
      /\ \A i \in 0 .. Len(s) : At(s, i) \in Nat
      /\ Skipped(s) = At(s, Len(s))
      /\ \A i \in 1 .. Len(s) :
           s[i].skip \in Nat /\ s[i].need \in Nat /\ s[i].keep \in Nat
  BY <1>1, AtDefined
<1>3. InsideAt(s, a, n)
  <2> SUFFICES ASSUME NEW i \in 1 .. Len(s), Fits(s[i], a + At(s, i - 1), n), s[i].keep > 0
               PROVE  a + At(s, i - 1) + s[i].keep <= n
    BY DEF InsideAt
  <2>1. i - 1 \in 0 .. Len(s)
    BY <1>1
  <2>2. At(s, i - 1) \in Nat /\ s[i].need \in Nat /\ s[i].keep \in Nat /\ s[i].keep <= s[i].need
    BY <1>1, <1>2, <2>1
  <2>3. a + At(s, i - 1) + s[i].need <= n
    BY <2>2 DEF Fits
  <2> QED
    BY <2>2, <2>3
<1>4. ASSUME PassesAt(s, a, n)
      PROVE  a + Skipped(s) <= n
  <2> DEFINE H == { i \in Nat : i <= Len(s) => a + At(s, i) <= n }
  <2>1. 0 \in H
    BY <1>2
  <2>2. ASSUME NEW i \in Nat, i \in H
        PROVE  i + 1 \in H
    <3>1. CASE i + 1 <= Len(s)
      <4>1. i + 1 \in 1 .. Len(s) /\ i + 1 - 1 = i /\ i \in 0 .. Len(s)
        BY <1>1, <3>1
      <4>2. Fits(s[i + 1], a + At(s, i), n)
        BY <1>4, <4>1 DEF PassesAt
      <4>3. /\ At(s, i + 1) = At(s, i) + s[i + 1].skip /\ At(s, i) \in Nat
            /\ s[i + 1].skip \in Nat /\ s[i + 1].need \in Nat /\ s[i + 1].skip <= s[i + 1].need
            /\ a + At(s, i) <= n
        BY <1>1, <1>2, <2>2, <4>1
      <4> QED
        BY <4>2, <4>3 DEF Fits
    <3>2. CASE ~(i + 1 <= Len(s))
      BY <3>2
    <3> QED
      BY <3>1, <3>2
  <2> HIDE DEF H
  <2>3. Nat \subseteq H
    BY <2>1, <2>2, Induction
  <2>4. Len(s) \in Nat
    BY <1>1
  <2> QED
    BY <1>2, <2>3, <2>4 DEF H
<1> QED
  BY <1>3, <1>4

(* Items that need no more than they skip pass when there is room for all. *)
LEMMA LeanItems ==
  ASSUME NEW s \in Items(Lean), NEW a \in Nat, NEW n \in Nat, a + Skipped(s) <= n
  PROVE  PassesAt(s, a, n)
<1>1. s \in Seq(ItemSet) /\ \A i \in 1 .. Len(s) : s[i].need <= s[i].skip
  BY DEF Items, Lean
<1>2. /\ \A i \in 1 .. Len(s) : At(s, i) = At(s, i - 1) + s[i].skip
      /\ \A i \in 0 .. Len(s) : At(s, i) \in Nat /\ At(s, i) <= Skipped(s)
      /\ Skipped(s) \in Nat
      /\ \A i \in 1 .. Len(s) : s[i].skip \in Nat /\ s[i].need \in Nat
  BY <1>1, AtDefined
<1> SUFFICES ASSUME NEW i \in 1 .. Len(s)
             PROVE  Fits(s[i], a + At(s, i - 1), n)
  BY DEF PassesAt
<1>3. i - 1 \in 0 .. Len(s) /\ i \in 0 .. Len(s)
  BY <1>1
<1>4. /\ At(s, i) = At(s, i - 1) + s[i].skip /\ At(s, i) <= Skipped(s)
      /\ At(s, i - 1) \in Nat /\ s[i].skip \in Nat /\ s[i].need \in Nat
      /\ s[i].need <= s[i].skip
  BY <1>1, <1>2, <1>3
<1> QED
  BY <1>2, <1>4 DEF Fits

(* Items that keep no more than they skip stay inside when there is room for all. *)
LEMMA ModestItems ==
  ASSUME NEW s \in Items(Modest), NEW a \in Nat, NEW n \in Nat, a + Skipped(s) <= n
  PROVE  InsideAt(s, a, n)
<1>1. s \in Seq(ItemSet) /\ \A i \in 1 .. Len(s) : s[i].keep <= s[i].skip
  BY DEF Items, Modest
<1>2. /\ \A i \in 1 .. Len(s) : At(s, i) = At(s, i - 1) + s[i].skip
      /\ \A i \in 0 .. Len(s) : At(s, i) \in Nat /\ At(s, i) <= Skipped(s)
      /\ Skipped(s) \in Nat
      /\ \A i \in 1 .. Len(s) : s[i].skip \in Nat /\ s[i].keep \in Nat
  BY <1>1, AtDefined
<1> SUFFICES ASSUME NEW i \in 1 .. Len(s)
             PROVE  a + At(s, i - 1) + s[i].keep <= n
  BY DEF InsideAt
<1>3. i - 1 \in 0 .. Len(s) /\ i \in 0 .. Len(s)
  BY <1>1
<1>4. /\ At(s, i) = At(s, i - 1) + s[i].skip /\ At(s, i) <= Skipped(s)
      /\ At(s, i - 1) \in Nat /\ s[i].skip \in Nat /\ s[i].keep \in Nat
      /\ s[i].keep <= s[i].skip
  BY <1>1, <1>2, <1>3
<1> QED
  BY <1>2, <1>4

(* A concatenation passes if s does and then t does, where s ends. *)
LEMMA ItemsOfBoth ==
  ASSUME NEW s \in Seq(ItemSet), NEW t \in Seq(ItemSet), NEW a \in Nat, NEW n \in Nat
  PROVE  /\ s \o t \in Seq(ItemSet)
         /\ Skipped(s \o t) = Skipped(s) + Skipped(t)
         /\ PassesAt(s \o t, a, n) <=> PassesAt(s, a, n) /\ PassesAt(t, a + Skipped(s), n)
         /\ InsideAt(s, a, n) /\ (PassesAt(s, a, n) => InsideAt(t, a + Skipped(s), n))
              => InsideAt(s \o t, a, n)
<1> DEFINE u == s \o t
           l == Len(s)
           b == a + Skipped(s)
<1>1. /\ u \in Seq(ItemSet) /\ Len(u) = l + Len(t) /\ l \in Nat /\ Len(t) \in Nat
      /\ \A i \in 1 .. l : u[i] = s[i]
      /\ \A i \in 1 .. Len(t) : u[l + i] = t[i]
  BY ConcatProperties
<1>2. SkipOf \in [ItemSet -> Nat] /\ Skipped(s) = Weight(s, SkipOf) /\ Skipped(t) = Weight(t, SkipOf)
  BY WeightsOfItems
<1>3. Skipped(u) = Weight(u, SkipOf)
  BY <1>1, WeightsOfItems
<1>4. /\ \A i \in 0 .. Len(s) : UpTo(s \o t, SkipOf, i) = UpTo(s, SkipOf, i)
      /\ \A i \in 0 .. Len(t) : UpTo(s \o t, SkipOf, Len(s) + i) = Weight(s, SkipOf) + UpTo(t, SkipOf, i)
      /\ Weight(s \o t, SkipOf) = Weight(s, SkipOf) + Weight(t, SkipOf)
  BY <1>2, WeightOfBoth, Zenon
<1>5. /\ \A i \in 0 .. l : At(u, i) = At(s, i)
      /\ \A i \in 0 .. Len(t) : At(u, l + i) = Skipped(s) + At(t, i)
      /\ Skipped(u) = Skipped(s) + Skipped(t)
  BY <1>2, <1>3, <1>4 DEF At
<1>6. Skipped(s) \in Nat /\ \A i \in 0 .. Len(t) : At(t, i) \in Nat
  BY AtDefined
<1> HIDE DEF u, l
<1>7. \A i \in 1 .. l : At(u, i - 1) = At(s, i - 1)
  BY <1>1, <1>5
<1>8. \A i \in 1 .. Len(t) : a + At(u, l + i - 1) = b + At(t, i - 1)
  <2> SUFFICES ASSUME NEW i \in 1 .. Len(t)
               PROVE  a + At(u, l + i - 1) = b + At(t, i - 1)
    OBVIOUS
  <2>1. i - 1 \in 0 .. Len(t) /\ l + i - 1 = l + (i - 1)
    BY <1>1
  <2>2. At(u, l + i - 1) = Skipped(s) + At(t, i - 1)
    BY <1>5, <2>1
  <2> QED
    BY <1>6, <2>1, <2>2
<1>9. \A i \in 1 .. Len(u) : i \in 1 .. l \/ \E k \in 1 .. Len(t) : i = l + k
  <2> SUFFICES ASSUME NEW i \in 1 .. Len(u), i \notin 1 .. l
               PROVE  \E k \in 1 .. Len(t) : i = l + k
    OBVIOUS
  <2>1. i - l \in 1 .. Len(t) /\ i = l + (i - l)
    BY <1>1
  <2> QED
    BY <2>1
<1>10. (\A i \in 1 .. l : i \in 1 .. Len(u)) /\ (\A k \in 1 .. Len(t) : l + k \in 1 .. Len(u))
  BY <1>1
<1>11. PassesAt(u, a, n) <=> PassesAt(s, a, n) /\ PassesAt(t, b, n)
  <2>1. ASSUME PassesAt(u, a, n)
        PROVE  PassesAt(s, a, n)
    BY <1>1, <1>7, <1>10, <2>1 DEF PassesAt, l
  <2>2. ASSUME PassesAt(u, a, n)
        PROVE  PassesAt(t, b, n)
    <3> SUFFICES ASSUME NEW i \in 1 .. Len(t)
                 PROVE  Fits(t[i], b + At(t, i - 1), n)
      BY DEF PassesAt
    <3>1. PICK m \in 1 .. Len(u) : m = l + i
      BY <1>10
    <3>2. Fits(u[m], a + At(u, m - 1), n)
      BY <2>2 DEF PassesAt
    <3> QED
      BY <1>1, <1>8, <3>1, <3>2
  <2>3. ASSUME PassesAt(s, a, n), PassesAt(t, b, n)
        PROVE  PassesAt(u, a, n)
    <3> SUFFICES ASSUME NEW i \in 1 .. Len(u)
                 PROVE  Fits(u[i], a + At(u, i - 1), n)
      BY DEF PassesAt
    <3>1. CASE i \in 1 .. l
      BY <1>1, <1>7, <2>3, <3>1 DEF PassesAt, l
    <3>2. ASSUME NEW k \in 1 .. Len(t), i = l + k
          PROVE  Fits(u[i], a + At(u, i - 1), n)
      <4>1. Fits(t[k], b + At(t, k - 1), n)
        BY <2>3 DEF PassesAt
      <4> QED
        BY <1>1, <1>8, <3>2, <4>1
    <3> QED
      BY <1>9, <3>1, <3>2
  <2> QED
    BY <2>1, <2>2, <2>3
<1>12. ASSUME InsideAt(s, a, n), PassesAt(s, a, n) => InsideAt(t, b, n)
       PROVE  InsideAt(u, a, n)
  <2> SUFFICES ASSUME NEW i \in 1 .. Len(u), u[i].keep > 0,
                      \A j \in 1 .. i : Fits(u[j], a + At(u, j - 1), n)
               PROVE  a + At(u, i - 1) + u[i].keep <= n
    BY DEF InsideAt
  <2>1. CASE i \in 1 .. l
    <3>1. \A j \in 1 .. i : Fits(s[j], a + At(s, j - 1), n)
      BY <1>1, <1>7, <2>1
    <3> QED
      BY <1>1, <1>7, <1>12, <2>1, <3>1 DEF InsideAt, l
  <2>2. ASSUME NEW k \in 1 .. Len(t), i = l + k
        PROVE  a + At(u, i - 1) + u[i].keep <= n
    <3>1. PassesAt(s, a, n)
      <4> SUFFICES ASSUME NEW j \in 1 .. l
                   PROVE  Fits(s[j], a + At(s, j - 1), n)
        BY DEF PassesAt, l
      <4>1. j \in 1 .. i
        BY <1>1, <2>2
      <4>2. Fits(u[j], a + At(u, j - 1), n)
        BY <4>1
      <4> QED
        BY <1>1, <1>7, <4>2
    <3>2. InsideAt(t, b, n)
      BY <1>12, <3>1
    <3>3. \A j \in 1 .. k : Fits(t[j], b + At(t, j - 1), n)
      <4> SUFFICES ASSUME NEW j \in 1 .. k
                   PROVE  Fits(t[j], b + At(t, j - 1), n)
        OBVIOUS
      <4>1. j \in 1 .. Len(t) /\ l + j \in 1 .. i
        BY <1>1, <2>2
      <4>2. PICK m \in 1 .. i : m = l + j
        BY <4>1
      <4>3. Fits(u[m], a + At(u, m - 1), n)
        OBVIOUS
      <4> QED
        BY <1>1, <1>8, <4>1, <4>2, <4>3
    <3>4. t[k].keep > 0
      BY <1>1, <2>2
    <3>5. b + At(t, k - 1) + t[k].keep <= n
      BY <3>2, <3>3, <3>4 DEF InsideAt
    <3> QED
      BY <1>1, <1>8, <2>2, <3>5
  <2> QED
    BY <1>9, <2>1, <2>2
<1> QED
  BY <1>1, <1>5, <1>11, <1>12 DEF u
-----------------------------------------------------------------------------
(* What an object writes, put together.                                    *)
(* The rules for parts in one place. *)
LEMMA PartRules ==
  /\ << >> \in Seq(PartSet) /\ Bytes(<< >>) = 0
  /\ \A f \in Names : \A n \in Nat : Part(f, n) \in Seq(PartSet) /\ Bytes(Part(f, n)) = n
  /\ \A f \in Names : \A i, n \in Nat :
       NthPart(f, i, n) \in Seq(PartSet) /\ Bytes(NthPart(f, i, n)) = n
  /\ \A s, t \in Seq(PartSet) : s \o t \in Seq(PartSet) /\ Bytes(s \o t) = Bytes(s) + Bytes(t)
<1>1. \A f \in Names : \A i, n \in Nat :
        NthPart(f, i, n) \in Seq(PartSet) /\ Bytes(NthPart(f, i, n)) = n
  BY OnePart
<1>2. \A f \in Names : \A n \in Nat : Part(f, n) \in Seq(PartSet) /\ Bytes(Part(f, n)) = n
  BY <1>1 DEF Part
<1>3. \A s, t \in Seq(PartSet) : s \o t \in Seq(PartSet) /\ Bytes(s \o t) = Bytes(s) + Bytes(t)
  BY BothParts
<1> QED
  BY <1>1, <1>2, <1>3, NoParts

(* What IsObject says of the fields of o. *)
LEMMA ObjectHas ==
  ASSUME NEW o, IsObject(o)
  PROVE  /\ o.var \in Nat /\ o.var < 65536 /\ o.class \in Classes /\ o.list \in Seq(Elements)
         /\ Len(o.list) \in Nat /\ DOMAIN o.list = 1 .. Len(o.list)
         /\ \A i \in 1 .. Len(o.list) : o.list[i].size \in Nat /\ o.list[i].id \in Nat
         /\ o.class = "TCommandData" => Len(o.list) = 1
         /\ o.class = "TEPMainData" => Len(o.list) = 2
         /\ o.class = "TAuthInfo" => Len(o.list) = 3
         /\ o.class = "TInsAccel" => Len(o.list) = 3
         /\ o.class = "TPosData" => Len(o.list) = 1 /\ Src(o) <= 255
         /\ ~("COM" \in o.flags /\ "COMCONF" \in o.flags)
<1>1. o.list \in Seq(Elements) /\ o.var \in Nat /\ o.var < 65536 /\ o.class \in Classes
  BY DEF IsObject, MaxU16
<1>2. \A i \in 1 .. Len(o.list) : o.list[i] \in Elements
  BY <1>1
<1>3. \A i \in 1 .. Len(o.list) : o.list[i].size \in Nat /\ o.list[i].id \in Nat
  BY <1>2 DEF Elements
<1>4. /\ o.class = "TCommandData" => Len(o.list) = 1
      /\ o.class = "TEPMainData" => Len(o.list) = 2
      /\ o.class = "TAuthInfo" => Len(o.list) = 3
      /\ o.class = "TInsAccel" => Len(o.list) = 3
      /\ o.class = "TPosData" => Len(o.list) = 1 /\ Src(o) <= 255
      /\ ~("COM" \in o.flags /\ "COMCONF" \in o.flags)
  BY DEF IsObject
<1> QED
  BY <1>1, <1>3, <1>4

Full(o) == GetData(o).parts \in Seq(PartSet) /\ GetData(o).size = U16(Bytes(GetData(o).parts))

Makes(s, n) == s \in Seq(PartSet) /\ Bytes(s) = n /\ n \in Nat
(* The rules of Makes: nothing, one part, a concatenation. *)
LEMMA MakesRules ==
  /\ Makes(<< >>, 0)
  /\ \A f \in Names : \A n \in Nat : Makes(Part(f, n), n)
  /\ \A f \in Names : \A i, n \in Nat : Makes(NthPart(f, i, n), n)
  /\ \A s, t, m, n : Makes(s, m) /\ Makes(t, n) => Makes(s \o t, m + n)
<1>1. Makes(<< >>, 0)
  BY NoParts DEF Makes
<1>2. \A f \in Names : \A i, n \in Nat : Makes(NthPart(f, i, n), n)
  BY OnePart DEF Makes
<1>3. \A f \in Names : \A n \in Nat : Makes(Part(f, n), n)
  BY <1>2 DEF Part
<1>4. ASSUME NEW s, NEW t, NEW m, NEW n, Makes(s, m), Makes(t, n)
      PROVE  Makes(s \o t, m + n)
  <2>1. s \in Seq(PartSet) /\ t \in Seq(PartSet) /\ m \in Nat /\ n \in Nat /\ Bytes(s) = m /\ Bytes(t) = n
    BY <1>4 DEF Makes
  <2>2. s \o t \in Seq(PartSet) /\ Bytes(s \o t) = Bytes(s) + Bytes(t)
    BY <2>1, BothParts
  <2> QED
    BY <2>1, <2>2 DEF Makes
<1> QED
  BY <1>1, <1>2, <1>3, <1>4
-----------------------------------------------------------------------------
(* What an object reads, put together.                                     *)
(***************************************************************************)
(* Items that move pos by k, pass exactly if k bytes are left, and stay    *)
(* among the bytes whether they pass or not. Calm items are those that do  *)
(* not check but move pos over all that they keep.                         *)
(***************************************************************************)
Exact(s, k) ==
  /\ s \in Seq(ItemSet) /\ k \in Nat /\ Skipped(s) = k
  /\ \A a, n \in Nat : a <= n => InsideAt(s, a, n) /\ (PassesAt(s, a, n) <=> a + k <= n)
Calm(s, k) == s \in Items(Lean \cap Modest) /\ Skipped(s) = k /\ k \in Nat

(* Plain items, checked and kept and skipped alike, are exact. *)
LEMMA PlainItems ==
  ASSUME NEW s \in Items(Plain)
  PROVE  Exact(s, Skipped(s))
<1>1. s \in Items(Guarded) /\ s \in Items(Lean) /\ s \in Seq(ItemSet)
  BY Kinds
<1>2. Skipped(s) \in Nat
  BY <1>1, ItemsCount
<1>3. ASSUME NEW a \in Nat, NEW n \in Nat, a <= n
      PROVE  InsideAt(s, a, n) /\ (PassesAt(s, a, n) <=> a + Skipped(s) <= n)
  <2>1. InsideAt(s, a, n) /\ (PassesAt(s, a, n) => a + Skipped(s) <= n)
    BY <1>1, <1>3, GuardedItems, Zenon
  <2>2. a + Skipped(s) <= n => PassesAt(s, a, n)
    BY <1>1, <1>3, LeanItems, Zenon
  <2> QED
    BY <2>1, <2>2
<1> QED
  BY <1>1, <1>2, <1>3 DEF Exact

(* Exact items behind exact items. *)
LEMMA BothExact ==
  ASSUME NEW s, NEW t, NEW k, NEW l, Exact(s, k), Exact(t, l)
  PROVE  Exact(s \o t, k + l)
<1>1. /\ s \in Seq(ItemSet) /\ t \in Seq(ItemSet) /\ k \in Nat /\ l \in Nat
      /\ Skipped(s) = k /\ Skipped(t) = l
  BY DEF Exact
<1>2. s \o t \in Seq(ItemSet) /\ Skipped(s \o t) = k + l
  <2>1. 0 \in Nat
    OBVIOUS
  <2>2. s \o t \in Seq(ItemSet) /\ Skipped(s \o t) = Skipped(s) + Skipped(t)
    BY <1>1, <2>1, ItemsOfBoth, Zenon
  <2> QED
    BY <1>1, <2>2
<1>3. ASSUME NEW a \in Nat, NEW n \in Nat, a <= n
      PROVE  InsideAt(s \o t, a, n) /\ (PassesAt(s \o t, a, n) <=> a + (k + l) <= n)
  <2>1. InsideAt(s, a, n) /\ (PassesAt(s, a, n) <=> a + k <= n)
    BY <1>3 DEF Exact
  <2>2. a + k \in Nat
    BY <1>1
  <2>3. a + k <= n => InsideAt(t, a + k, n) /\ (PassesAt(t, a + k, n) <=> a + k + l <= n)
    BY <2>2 DEF Exact
  <2>4. /\ PassesAt(s \o t, a, n) <=> PassesAt(s, a, n) /\ PassesAt(t, a + Skipped(s), n)
        /\ InsideAt(s, a, n) /\ (PassesAt(s, a, n) => InsideAt(t, a + Skipped(s), n))
             => InsideAt(s \o t, a, n)
    BY <1>1, ItemsOfBoth, Zenon
  <2> QED
    BY <1>1, <2>1, <2>3, <2>4
<1> QED
  BY <1>1, <1>2, <1>3 DEF Exact

(* The rules of Exact: nothing, one field, a concatenation. *)
LEMMA ExactRules ==
  /\ Exact(<< >>, 0)
  /\ \A f \in Names : \A n \in Nat : Exact(Read(f, n), n)
  /\ \A f \in Names : \A i, n \in Nat : Exact(NthRead(f, i, n), n)
  /\ \A s, t, k, l : Exact(s, k) /\ Exact(t, l) => Exact(s \o t, k + l)
<1>1. Exact(<< >>, 0)
  BY NoItems, PlainItems
<1>2. \A f \in Names : \A i, n \in Nat : Exact(NthRead(f, i, n), n)
  BY OneRead, PlainItems
<1>3. \A f \in Names : \A n \in Nat : Exact(Read(f, n), n)
  BY <1>2 DEF Read
<1> QED
  BY <1>1, <1>2, <1>3, BothExact

(* The rules of Calm. *)
LEMMA CalmRules ==
  /\ Calm(<< >>, 0)
  /\ \A f \in Names : \A m, n \in Nat : m <= n => Calm(Loose(f, m, n), n)
  /\ \A s, t, k, l : Calm(s, k) /\ Calm(t, l) => Calm(s \o t, k + l)
<1>1. Calm(<< >>, 0)
  BY NoItems DEF Calm
<1>2. \A f \in Names : \A m, n \in Nat : m <= n => Calm(Loose(f, m, n), n)
  BY OneLoose DEF Calm
<1>3. ASSUME NEW s, NEW t, NEW k, NEW l, Calm(s, k), Calm(t, l)
      PROVE  Calm(s \o t, k + l)
  <2>1. /\ s \in Items(Lean \cap Modest) /\ t \in Items(Lean \cap Modest)
        /\ Skipped(s) = k /\ Skipped(t) = l /\ k \in Nat /\ l \in Nat
    BY <1>3 DEF Calm
  <2>2. s \o t \in Items(Lean \cap Modest) /\ Skipped(s \o t) = Skipped(s) + Skipped(t)
    BY <2>1, BothItems
  <2> QED
    BY <2>1, <2>2 DEF Calm
<1> QED
  BY <1>1, <1>2, <1>3
-----------------------------------------------------------------------------
(* Lists of parts and items, and the bits of a byte.                       *)
Smooth(s, k) == s \in Items(Plain) /\ Skipped(s) = k /\ k \in Nat

(* The rules of Smooth. *)
LEMMA SmoothRules ==
  /\ Smooth(<< >>, 0)
  /\ \A f \in Names : \A i, n \in Nat : Smooth(NthRead(f, i, n), n)
  /\ \A f \in Names : \A i, n \in Nat :
       Smooth(<< [ field |-> f, nth |-> i, need |-> n, keep |-> 0, skip |-> n ] >>, n)
  /\ \A s, t, k, l : Smooth(s, k) /\ Smooth(t, l) => Smooth(s \o t, k + l)
  /\ \A s, k : Smooth(s, k) => Exact(s, k)
<1>1. Smooth(<< >>, 0)
  BY NoItems DEF Smooth
<1>2. \A f \in Names : \A i, n \in Nat : Smooth(NthRead(f, i, n), n)
  BY OneRead DEF Smooth
<1>3. ASSUME NEW f \in Names, NEW i \in Nat, NEW n \in Nat
      PROVE  Smooth(<< [ field |-> f, nth |-> i, need |-> n, keep |-> 0, skip |-> n ] >>, n)
  <2> DEFINE r == [ field |-> f, nth |-> i, need |-> n, keep |-> 0, skip |-> n ]
  <2>1. r \in ItemSet /\ r \in Plain /\ r.skip = n
    BY DEF ItemSet, Plain, Guarded, Lean, Modest
  <2> HIDE DEF r
  <2>2. << r >> \in Items(Plain) /\ Skipped(<< r >>) = r.skip
    BY <2>1, OneItem, Zenon
  <2> QED
    BY <2>1, <2>2 DEF Smooth, r
<1>4. ASSUME NEW s, NEW t, NEW k, NEW l, Smooth(s, k), Smooth(t, l)
      PROVE  Smooth(s \o t, k + l)
  <2>1. s \in Items(Plain) /\ t \in Items(Plain) /\ Skipped(s) = k /\ Skipped(t) = l
        /\ k \in Nat /\ l \in Nat
    BY <1>4 DEF Smooth
  <2>2. s \o t \in Items(Plain) /\ Skipped(s \o t) = Skipped(s) + Skipped(t)
    BY <2>1, BothItems
  <2> QED
    BY <2>1, <2>2 DEF Smooth
<1>5. \A s, k : Smooth(s, k) => Exact(s, k)
  BY PlainItems DEF Smooth
<1> QED
  BY <1>1, <1>2, <1>3, <1>4, <1>5

(* A list of parts made one for one, and *)
LEMMA EachMade ==
  ASSUME NEW m \in Nat, NEW q, NEW k, DOMAIN q = 1 .. m, q = [ i \in 1 .. m |-> q[i] ],
         k = [ i \in 1 .. m |-> k[i] ],
         \A i \in 1 .. m : Makes(q[i], k[i])
  PROVE  Makes(FlattenSeq(q), Total(k)) /\ k \in Seq(Nat) /\ Len(k) = m
<1>1. \A i \in 1 .. m : q[i] \in Seq(PartSet) /\ Bytes(q[i]) = k[i] /\ k[i] \in Nat
  BY DEF Makes
<1>2. q \in [1 .. m -> Seq(PartSet)] /\ k \in [1 .. m -> Nat]
  BY <1>1
<1>3. q \in Seq(Seq(PartSet))
  BY <1>2, Listed, Zenon
<1>4. k \in Seq(Nat) /\ Len(k) = m
  BY <1>2, Listed, Zenon
<1>5. [ i \in DOMAIN q |-> Bytes(q[i]) ] = k
  BY <1>1
<1>6. /\ FlattenSeq(q) \in Seq(PartSet)
      /\ Bytes(FlattenSeq(q)) = Total([ i \in DOMAIN q |-> Bytes(q[i]) ])
  BY <1>3, FlatParts, Zenon
<1>7. Total(k) \in Nat
  BY <1>4, SumsCount
<1> QED
  BY <1>4, <1>5, <1>6, <1>7 DEF Makes

(* a list of items read one for one. *)
LEMMA EachSmooth ==
  ASSUME NEW m \in Nat, NEW q, NEW k, DOMAIN q = 1 .. m, q = [ i \in 1 .. m |-> q[i] ],
         k = [ i \in 1 .. m |-> k[i] ],
         \A i \in 1 .. m : Smooth(q[i], k[i])
  PROVE  Smooth(FlattenSeq(q), Total(k)) /\ k \in Seq(Nat) /\ Len(k) = m
<1>1. \A i \in 1 .. m : q[i] \in Items(Plain) /\ Skipped(q[i]) = k[i] /\ k[i] \in Nat
  BY DEF Smooth
<1>2. q \in [1 .. m -> Items(Plain)] /\ k \in [1 .. m -> Nat]
  BY <1>1
<1>3. q \in Seq(Items(Plain))
  BY <1>2, Listed, Zenon
<1>4. k \in Seq(Nat) /\ Len(k) = m
  BY <1>2, Listed, Zenon
<1>5. [ i \in DOMAIN q |-> Skipped(q[i]) ] = k
  BY <1>1
<1>6. /\ FlattenSeq(q) \in Items(Plain)
      /\ Skipped(FlattenSeq(q)) = Total([ i \in DOMAIN q |-> Skipped(q[i]) ])
  BY <1>3, FlatItems, Zenon
<1>7. Total(k) \in Nat
  BY <1>4, SumsCount
<1> QED
  BY <1>4, <1>5, <1>6, <1>7 DEF Smooth

(* A bit mask: one part or item of c bytes for every bit that is set. *)
LEMMA BitsSum ==
  ASSUME NEW o, NEW kind, NEW c \in Nat, NEW k, k = [ i \in 1 .. 8 |-> c * Sure(Bit(o, kind, i - 1)) ]
  PROVE  Total(k) = c * BitCnt(o, kind) /\ BitCnt(o, kind) \in Nat
<1> DEFINE b == [ i \in 1 .. 8 |-> Sure(Bit(o, kind, i - 1)) ]
<1>1. \A i \in 1 .. 8 : b[i] \in Nat /\ k[i] = c * b[i] /\ k[i] \in Nat
  BY DEF Sure
<1>2. b \in [1 .. 8 -> Nat] /\ k \in [1 .. 8 -> Nat]
  BY <1>1
<1>3. BitCnt(o, kind) = Total(b)
  BY DEF BitCnt
<1> HIDE DEF b
<1>4. b \in Seq(Nat) /\ Len(b) = 8
  BY <1>2, Listed
<1>5. k \in Seq(Nat) /\ Len(k) = 8
  BY <1>2, Listed
<1>6. Total(k) = c * Total(b)
  <2>1. Len(k) = Len(b) /\ \A i \in 1 .. Len(b) : k[i] = c * b[i]
    BY <1>1, <1>4, <1>5
  <2> QED
    BY <1>4, <1>5, <2>1, TotalScaled, Zenon
<1>7. Total(b) \in Nat
  BY <1>4, SumsCount
<1> QED
  BY <1>3, <1>6, <1>7

(* Parts for the bits of a byte that are set, *)
LEMMA BitsMade ==
  ASSUME NEW o, NEW kind, NEW c \in Nat, NEW f \in Names
  PROVE  Makes(FlattenSeq([ i \in 1 .. 8 |-> When(Bit(o, kind, i - 1), NthPart(f, i - 1, c)) ]),
               c * BitCnt(o, kind))
<1> DEFINE q == [ i \in 1 .. 8 |-> When(Bit(o, kind, i - 1), NthPart(f, i - 1, c)) ]
           k == [ i \in 1 .. 8 |-> c * Sure(Bit(o, kind, i - 1)) ]
<1>1. \A i \in 1 .. 8 : Makes(q[i], k[i])
  <2> SUFFICES ASSUME NEW i \in 1 .. 8
               PROVE  Makes(When(Bit(o, kind, i - 1), NthPart(f, i - 1, c)),
                            c * Sure(Bit(o, kind, i - 1)))
    OBVIOUS
  <2>1. i - 1 \in Nat
    OBVIOUS
  <2>2. Makes(NthPart(f, i - 1, c), c) /\ Makes(<< >>, 0)
    BY <2>1, MakesRules
  <2>3. CASE Bit(o, kind, i - 1)
    BY <2>2, <2>3 DEF When, Sure
  <2>4. CASE ~Bit(o, kind, i - 1)
    BY <2>2, <2>4 DEF When, Sure
  <2> QED
    BY <2>3, <2>4
<1>2. DOMAIN q = 1 .. 8 /\ q = [ i \in 1 .. 8 |-> q[i] ] /\ k = [ i \in 1 .. 8 |-> k[i] ]
  OBVIOUS
<1>3. Total(k) = c * BitCnt(o, kind)
  BY BitsSum, Zenon
<1> HIDE DEF q, k
<1>4. Makes(FlattenSeq(q), Total(k))
  <2>1. 8 \in Nat
    OBVIOUS
  <2> QED
    BY <1>1, <1>2, <2>1, EachMade, Zenon
<1> QED
  BY <1>3, <1>4 DEF q

(* and the items for them. *)
LEMMA BitsRead ==
  ASSUME NEW o, NEW kind, NEW c \in Nat, NEW f \in Names
  PROVE  Exact(FlattenSeq([ i \in 1 .. 8 |-> When(Bit(o, kind, i - 1), NthRead(f, i - 1, c)) ]),
               c * BitCnt(o, kind))
<1> DEFINE q == [ i \in 1 .. 8 |-> When(Bit(o, kind, i - 1), NthRead(f, i - 1, c)) ]
           k == [ i \in 1 .. 8 |-> c * Sure(Bit(o, kind, i - 1)) ]
<1>1. \A i \in 1 .. 8 : Smooth(q[i], k[i])
  <2> SUFFICES ASSUME NEW i \in 1 .. 8
               PROVE  Smooth(When(Bit(o, kind, i - 1), NthRead(f, i - 1, c)),
                             c * Sure(Bit(o, kind, i - 1)))
    OBVIOUS
  <2>1. i - 1 \in Nat
    OBVIOUS
  <2>2. Smooth(NthRead(f, i - 1, c), c) /\ Smooth(<< >>, 0)
    BY <2>1, SmoothRules
  <2>3. CASE Bit(o, kind, i - 1)
    BY <2>2, <2>3 DEF When, Sure
  <2>4. CASE ~Bit(o, kind, i - 1)
    BY <2>2, <2>4 DEF When, Sure
  <2> QED
    BY <2>3, <2>4
<1>2. DOMAIN q = 1 .. 8 /\ q = [ i \in 1 .. 8 |-> q[i] ] /\ k = [ i \in 1 .. 8 |-> k[i] ]
  OBVIOUS
<1>3. Total(k) = c * BitCnt(o, kind)
  BY BitsSum, Zenon
<1> HIDE DEF q, k
<1>4. Smooth(FlattenSeq(q), Total(k))
  <2>1. 8 \in Nat
    OBVIOUS
  <2> QED
    BY <1>1, <1>2, <2>1, EachSmooth, Zenon
<1>5. Exact(FlattenSeq(q), Total(k))
  BY <1>4, SmoothRules
<1> QED
  BY <1>3, <1>5 DEF q
-----------------------------------------------------------------------------
(* Lists whose count has few bits.                                         *)
(* The sum of the first few is at most the sum of all, and less if more follows. *)
LEMMA Prefix ==
  ASSUME NEW v \in Seq(Nat), NEW w \in Seq(Nat), Len(v) <= Len(w),
         \A i \in 1 .. Len(v) : v[i] = w[i]
  PROVE  /\ Total(v) \in Nat /\ Total(w) \in Nat
         /\ Total(v) <= Total(w)
         /\ Len(v) = Len(w) => Total(v) = Total(w)
         /\ Len(v) < Len(w) /\ w[Len(v) + 1] > 0 => Total(v) < Total(w)
<1>1. /\ SumsUpTo(v)[0] = 0
      /\ \A i \in 1 .. Len(v) : SumsUpTo(v)[i] = SumsUpTo(v)[i - 1] + v[i]
      /\ \A i \in 0 .. Len(v) : SumsUpTo(v)[i] \in Nat
      /\ Total(v) = SumsUpTo(v)[Len(v)] /\ Total(v) \in Nat
  BY SumsCount, Zenon
<1>2. /\ SumsUpTo(w)[0] = 0
      /\ \A i \in 1 .. Len(w) : SumsUpTo(w)[i] = SumsUpTo(w)[i - 1] + w[i]
      /\ \A i \in 0 .. Len(w) : SumsUpTo(w)[i] \in Nat
      /\ Total(w) = SumsUpTo(w)[Len(w)] /\ Total(w) \in Nat
  BY SumsCount, Zenon
<1> DEFINE a == SumsUpTo(v)
           b == SumsUpTo(w)
           l == Len(v)
<1>3. l \in Nat /\ Len(w) \in Nat /\ \A i \in 1 .. Len(w) : w[i] \in Nat
  OBVIOUS
<1> HIDE DEF a, b, l
<1>4. \A i \in 0 .. l : a[i] = b[i]
  <2> DEFINE H == { i \in Nat : i <= l => a[i] = b[i] }
  <2>1. 0 \in H
    BY <1>1, <1>2 DEF a, b
  <2>2. ASSUME NEW i \in Nat, i \in H
        PROVE  i + 1 \in H
    <3>1. CASE i + 1 <= l
      <4>1. i + 1 \in 1 .. Len(v) /\ i + 1 \in 1 .. Len(w) /\ i + 1 - 1 = i
        BY <1>3, <3>1 DEF l
      <4>2. a[i + 1] = a[i] + v[i + 1] /\ b[i + 1] = b[i] + w[i + 1] /\ v[i + 1] = w[i + 1]
        BY <1>1, <1>2, <4>1 DEF a, b
      <4> QED
        BY <1>3, <2>2, <3>1, <4>2
    <3>2. CASE ~(i + 1 <= l)
      BY <3>2
    <3> QED
      BY <3>1, <3>2
  <2> HIDE DEF H
  <2>3. Nat \subseteq H
    BY <2>1, <2>2, Induction
  <2> QED
    BY <1>3, <2>3 DEF H
<1>5. \A j \in l .. Len(w) : b[l] <= b[j] /\ (j > l /\ w[l + 1] > 0 => b[l] < b[j])
  <2> DEFINE H == { i \in Nat : l + i <= Len(w) =>
                      b[l] <= b[l + i] /\ (i > 0 /\ w[l + 1] > 0 => b[l] < b[l + i]) }
  <2>1. 0 \in H
    <3>1. l \in 0 .. Len(w)
      BY <1>3 DEF l
    <3>2. b[l] \in Nat /\ l + 0 = l
      BY <1>2, <1>3, <3>1 DEF b
    <3> QED
      BY <3>2
  <2>2. ASSUME NEW i \in Nat, i \in H
        PROVE  i + 1 \in H
    <3>1. CASE l + i + 1 <= Len(w)
      <4>1. PICK m \in 1 .. Len(w) : m = l + i + 1
        BY <1>3, <3>1
      <4>2. m - 1 = l + i /\ l + (i + 1) = m /\ m - 1 \in 0 .. Len(w) /\ l \in 0 .. Len(w)
        BY <1>3, <4>1
      <4>3. b[m] = b[m - 1] + w[m] /\ b[m - 1] \in Nat /\ w[m] \in Nat /\ b[l] \in Nat
        BY <1>2, <1>3, <4>2 DEF b
      <4>4. b[l] <= b[m - 1] /\ (i > 0 /\ w[l + 1] > 0 => b[l] < b[m - 1])
        BY <1>3, <2>2, <3>1, <4>1, <4>2
      <4>5. i = 0 => m = l + 1 /\ m - 1 = l
        BY <1>3, <4>1
      <4>6. b[l] <= b[m] /\ (w[l + 1] > 0 => b[l] < b[m])
        BY <4>3, <4>4, <4>5
      <4> QED
        BY <4>2, <4>6
    <3>2. CASE ~(l + i + 1 <= Len(w))
      BY <1>3, <3>2
    <3> QED
      BY <3>1, <3>2
  <2> HIDE DEF H
  <2>3. Nat \subseteq H
    BY <2>1, <2>2, Induction
  <2> SUFFICES ASSUME NEW j \in l .. Len(w)
               PROVE  b[l] <= b[j] /\ (j > l /\ w[l + 1] > 0 => b[l] < b[j])
    OBVIOUS
  <2>4. j - l \in Nat /\ l + (j - l) = j /\ (j > l => j - l > 0) /\ j <= Len(w)
    BY <1>3
  <2>5. j - l \in H
    BY <2>3, <2>4
  <2> QED
    BY <2>4, <2>5 DEF H
<1>6. Len(w) \in l .. Len(w) /\ l \in 0 .. l
  BY <1>3 DEF l
<1>7. a[l] = b[l] /\ b[l] <= b[Len(w)] /\ (Len(w) > l /\ w[l + 1] > 0 => b[l] < b[Len(w)])
  BY <1>4, <1>5, <1>6
<1>8. Total(v) = a[l] /\ Total(w) = b[Len(w)]
  BY <1>1, <1>2 DEF a, b, l
<1> QED
  BY <1>1, <1>2, <1>3, <1>7, <1>8 DEF l

(* A count in few bits: the remainder, and smaller than the count if it wraps. *)
LEMMA CountModulo ==
  ASSUME NEW l \in Nat, NEW c \in Nat \ {0}
  PROVE  /\ l % c \in Nat /\ l % c <= l /\ l % c < c
         /\ l < c => l % c = l
         /\ l >= c => l % c < l
<1>1. l % c \in 0 .. c - 1
  BY SMT
<1>2. l < c => l % c = l
  OBVIOUS
<1> QED
  BY <1>1, <1>2

(* What a counter of the class counts of a list. *)
LEMMA CountedList ==
  ASSUME NEW o, IsObject(o), NEW name \in Counters
  PROVE  LET c == Len(o.list) % Capacity[name]
         IN  /\ DOMAIN Counted(o.list, name) = 1 .. c
             /\ c \in Nat /\ c <= Len(o.list) /\ Len(o.list) \in Nat
             /\ Len(o.list) < Capacity[name] => c = Len(o.list)
             /\ Len(o.list) >= Capacity[name] => c < Len(o.list)
             /\ DOMAIN o.list = 1 .. Len(o.list)
<1> DEFINE c == Len(o.list) % Capacity[name]
<1>1. o.list \in Seq(Elements)
  BY ObjectHas
<1>2. Len(o.list) \in Nat /\ Capacity[name] \in Nat \ {0} /\ DOMAIN o.list = 1 .. Len(o.list)
  BY <1>1, CapacityAssumption
<1>3. /\ c \in Nat /\ c <= Len(o.list)
      /\ Len(o.list) < Capacity[name] => c = Len(o.list)
      /\ Len(o.list) >= Capacity[name] => c < Len(o.list)
  BY <1>2, CountModulo, Zenon
<1>4. Counted(o.list, name) = SubSeq(o.list, 1, c)
  BY DEF Counted
<1> HIDE DEF c
<1>5. DOMAIN SubSeq(o.list, 1, c) = 1 .. c
  BY <1>1, <1>2, <1>3
<1> QED
  BY <1>2, <1>3, <1>4, <1>5 DEF c

(* No more bits are set than elements are listed. *)
LEMMA BitsFew ==
  ASSUME NEW o, IsObject(o), NEW kind
  PROVE  BitCnt(o, kind) <= Len(o.list) /\ BitCnt(o, kind) \in Nat
<1> DEFINE l == Len(o.list)
           B(i, j) == \E h \in 1 .. j : o.list[h].id = i - 1 /\ kind \in o.list[h].flags
           b(j) == [ i \in 1 .. 8 |-> Sure(B(i, j)) ]
           S(j) == Sure(B(1, j)) + Sure(B(2, j)) + Sure(B(3, j)) + Sure(B(4, j)) + Sure(B(5, j))
                     + Sure(B(6, j)) + Sure(B(7, j)) + Sure(B(8, j))
<1>1. o.list \in Seq(Elements) /\ l \in Nat /\ DOMAIN o.list = 1 .. l
  BY ObjectHas
<1>2. \A h \in 1 .. l : o.list[h].id \in 0 .. 7
  <2>1. \A h \in 1 .. l : o.list[h] \in Elements
    BY <1>1
  <2> QED
    BY <2>1 DEF Elements
<1>3. BitCnt(o, kind) = Total(b(l))
  BY <1>1 DEF BitCnt, Bit
<1>4. \A i \in 1 .. 8 : b(l)[i] = Sure(B(i, l)) /\ Sure(B(i, l)) \in Nat
  BY DEF Sure
<1>5. b(l) \in [1 .. 8 -> Nat]
  BY <1>4
<1> HIDE DEF b
<1>6. b(l) \in Seq(Nat) /\ Len(b(l)) = 8
  BY <1>5, Listed
<1>7. Total(b(l)) = S(l)
  <2> DEFINE s == SumsUpTo(b(l))
  <2>1. /\ s[0] = 0 /\ \A i \in 1 .. 8 : s[i] = s[i - 1] + b(l)[i]
        /\ Total(b(l)) = s[8]
    BY <1>6, SumsCount
  <2> HIDE DEF s, B
  <2>2. /\ s[1] = s[0] + b(l)[1] /\ s[2] = s[1] + b(l)[2] /\ s[3] = s[2] + b(l)[3]
        /\ s[4] = s[3] + b(l)[4] /\ s[5] = s[4] + b(l)[5] /\ s[6] = s[5] + b(l)[6]
        /\ s[7] = s[6] + b(l)[7] /\ s[8] = s[7] + b(l)[8]
    BY <2>1
  <2>3. /\ b(l)[1] = Sure(B(1, l)) /\ b(l)[2] = Sure(B(2, l)) /\ b(l)[3] = Sure(B(3, l))
        /\ b(l)[4] = Sure(B(4, l)) /\ b(l)[5] = Sure(B(5, l)) /\ b(l)[6] = Sure(B(6, l))
        /\ b(l)[7] = Sure(B(7, l)) /\ b(l)[8] = Sure(B(8, l))
    BY <1>4
  <2>4. \A i \in 1 .. 8 : Sure(B(i, l)) \in Nat
    BY <1>4
  <2>5. /\ Sure(B(1, l)) \in Nat /\ Sure(B(2, l)) \in Nat /\ Sure(B(3, l)) \in Nat
        /\ Sure(B(4, l)) \in Nat /\ Sure(B(5, l)) \in Nat /\ Sure(B(6, l)) \in Nat
        /\ Sure(B(7, l)) \in Nat /\ Sure(B(8, l)) \in Nat
    BY <2>4
  <2> QED
    BY <2>1, <2>2, <2>3, <2>5
<1>8. \A j \in Nat : j <= l => S(j) <= j
  <2> DEFINE H == { j \in Nat : j <= l => S(j) <= j }
  <2>1. 0 \in H
    <3>1. \A i : ~B(i, 0)
      OBVIOUS
    <3> HIDE DEF B
    <3> QED
      BY <3>1 DEF Sure
  <2>2. ASSUME NEW j \in Nat, j \in H
        PROVE  j + 1 \in H
    <3>1. CASE j + 1 <= l
      <4>1. j + 1 \in 1 .. l
        BY <1>1, <3>1
      <4>2. PICK d \in 0 .. 7 : d = o.list[j + 1].id
        BY <1>2, <4>1
      <4>3. \A i \in 1 .. 8 : i # d + 1 => (B(i, j + 1) <=> B(i, j))
        <5>1. \A h \in 1 .. j + 1 : h \in 1 .. j \/ h = j + 1
          OBVIOUS
        <5>2. \A h \in 1 .. j : h \in 1 .. j + 1
          OBVIOUS
        <5>3. \A i \in 1 .. 8 : i # d + 1 => d # i - 1
          BY <4>2
        <5> QED
          BY <4>2, <5>1, <5>2, <5>3
      <4>4. S(j) <= j
        <5> HIDE DEF S
        <5> QED
          BY <2>2, <3>1, <1>1
      <4> HIDE DEF B
      <4>5. \A i \in 1 .. 8 : Sure(B(i, j)) \in 0 .. 1 /\ Sure(B(i, j + 1)) \in 0 .. 1
        BY DEF Sure
      <4>6. \A i \in 1 .. 8 : i # d + 1 => Sure(B(i, j + 1)) = Sure(B(i, j))
        BY <4>3 DEF Sure
      <4>7. d + 1 \in {1, 2, 3, 4, 5, 6, 7, 8}
        BY <4>2
      <4>8. S(j + 1) <= j + 1
        BY <4>4, <4>5, <4>6, <4>7
      <4> QED
        BY <4>8
    <3>2. CASE ~(j + 1 <= l)
      <4> HIDE DEF S
      <4> QED
        BY <3>2
    <3> QED
      BY <3>1, <3>2
  <2> HIDE DEF H
  <2>3. Nat \subseteq H
    BY <2>1, <2>2, Induction
  <2> HIDE DEF S
  <2> QED
    BY <2>3 DEF H
<1> HIDE DEF S
<1>9. S(l) <= l
  BY <1>1, <1>8
<1>10. Total(b(l)) \in Nat
  BY <1>6, SumsCount
<1> QED
  BY <1>3, <1>7, <1>9, <1>10
-----------------------------------------------------------------------------
(* Items behind a check that saw more than they read: "size < ..." in      *)
(* front of several fields.                                                *)
(* Items that pass exactly if c bytes more than they move pos by are left. *)
Ahead(s, k, c) ==
  /\ s \in Seq(ItemSet) /\ k \in Nat /\ c \in Nat /\ Skipped(s) = k
  /\ \A a, n \in Nat : a <= n => InsideAt(s, a, n) /\ (PassesAt(s, a, n) <=> a + k + c <= n)

(* Items t behind s that need no more than s has seen to be there. *)
LEMMA AheadBoth ==
  ASSUME NEW s, NEW t, NEW k, NEW c, NEW d, NEW r, Ahead(s, k, c), t \in Seq(ItemSet), d \in Nat, r \in Nat,
         Skipped(t) = d,
         \A a, n \in Nat : a + c <= n => InsideAt(t, a, n)
                                         /\ (PassesAt(t, a, n) <=> a + d + r <= n),
         c <= d + r
  PROVE  Ahead(s \o t, k + d, r)
<1>1. s \in Seq(ItemSet) /\ k \in Nat /\ c \in Nat /\ Skipped(s) = k
  BY DEF Ahead
<1>2. s \o t \in Seq(ItemSet) /\ Skipped(s \o t) = k + d
  <2>1. 0 \in Nat
    OBVIOUS
  <2>2. s \o t \in Seq(ItemSet) /\ Skipped(s \o t) = Skipped(s) + Skipped(t)
    BY <1>1, <2>1, ItemsOfBoth, Zenon
  <2> QED
    BY <1>1, <2>2
<1>3. ASSUME NEW a \in Nat, NEW n \in Nat, a <= n
      PROVE  InsideAt(s \o t, a, n) /\ (PassesAt(s \o t, a, n) <=> a + (k + d) + r <= n)
  <2>1. InsideAt(s, a, n) /\ (PassesAt(s, a, n) <=> a + k + c <= n)
    BY <1>3 DEF Ahead
  <2>2. a + k \in Nat
    BY <1>1
  <2>3. a + k + c <= n => InsideAt(t, a + k, n) /\ (PassesAt(t, a + k, n) <=> a + k + d + r <= n)
    BY <2>2
  <2>4. /\ PassesAt(s \o t, a, n) <=> PassesAt(s, a, n) /\ PassesAt(t, a + Skipped(s), n)
        /\ InsideAt(s, a, n) /\ (PassesAt(s, a, n) => InsideAt(t, a + Skipped(s), n))
             => InsideAt(s \o t, a, n)
    BY <1>1, ItemsOfBoth, Zenon
  <2> QED
    BY <1>1, <2>1, <2>3, <2>4
<1> QED
  BY <1>1, <1>2, <1>3 DEF Ahead

(* Calm items pass, and stay inside, when there is room. *)
LEMMA CalmPasses ==
  ASSUME NEW t, NEW d, Calm(t, d), NEW a \in Nat, NEW n \in Nat, a + d <= n
  PROVE  InsideAt(t, a, n) /\ PassesAt(t, a, n)
<1>1. t \in Items(Lean \cap Modest) /\ Skipped(t) = d
  BY DEF Calm
<1>2. t \in Items(Lean) /\ t \in Items(Modest) /\ a + Skipped(t) <= n
  BY <1>1, Kinds
<1> QED
  BY <1>2, LeanItems, ModestItems, Zenon

(* Exact items see nothing ahead. *)
LEMMA ExactIsAhead ==
  ASSUME NEW s, NEW k
  PROVE  Exact(s, k) <=> Ahead(s, k, 0)
<1>1. ASSUME NEW a \in Nat, k \in Nat
      PROVE  a + k + 0 = a + k
  BY <1>1
<1> QED
  BY <1>1 DEF Exact, Ahead

(* A check alone, *)
LEMMA AheadOfNothing ==
  ASSUME NEW c \in Nat
  PROVE  Ahead(Check(c), 0, c)
<1>1. /\ Check(c) \in Items(Guarded \cap Modest) /\ Skipped(Check(c)) = 0
      /\ Len(Check(c)) = 1 /\ Check(c)[1].need = c /\ Check(c)[1].keep = 0
  BY OneCheck
<1>2. Check(c) \in Seq(ItemSet)
  BY <1>1 DEF Items
<1>3. At(Check(c), 0) = 0
  BY <1>2, AtDefined
<1>4. \A i \in 1 .. Len(Check(c)) : i = 1
  BY <1>1
<1>5. ASSUME NEW a \in Nat, NEW n \in Nat, a <= n
      PROVE  InsideAt(Check(c), a, n) /\ (PassesAt(Check(c), a, n) <=> a + 0 + c <= n)
  BY <1>1, <1>3, <1>4, <1>5 DEF InsideAt, PassesAt, Fits
<1> QED
  BY <1>1, <1>2, <1>5 DEF Ahead

(* and a check behind items that are exact. *)
LEMMA AheadBy ==
  ASSUME NEW s, NEW k, NEW c \in Nat, Exact(s, k)
  PROVE  Ahead(s \o Check(c), k, c)
<1>1. Ahead(s, k, 0) /\ k \in Nat
  BY ExactIsAhead DEF Exact
<1>2. /\ Check(c) \in Seq(ItemSet) /\ Skipped(Check(c)) = 0 /\ 0 \in Nat
      /\ \A a, n \in Nat : a <= n => InsideAt(Check(c), a, n)
                                      /\ (PassesAt(Check(c), a, n) <=> a + 0 + c <= n)
  BY AheadOfNothing DEF Ahead
<1>3. /\ \A a, n \in Nat : a + 0 <= n => InsideAt(Check(c), a, n)
                                          /\ (PassesAt(Check(c), a, n) <=> a + 0 + c <= n)
      /\ 0 <= 0 + c /\ k + 0 = k
  BY <1>1, <1>2
<1>4. Ahead(s \o Check(c), k + 0, c)
  BY <1>1, <1>2, <1>3, AheadBoth, Zenon
<1> QED
  BY <1>3, <1>4

(* What follows is within the bytes that were checked, or just exceeds them. *)
LEMMA AheadExact ==
  ASSUME NEW s, NEW k, NEW c, NEW t, NEW d, Ahead(s, k, c), Exact(t, d)
  PROVE  /\ d <= c => Ahead(s \o t, k + d, c - d)
         /\ c <= d => Exact(s \o t, k + d)
<1>1. /\ t \in Seq(ItemSet) /\ d \in Nat /\ Skipped(t) = d /\ c \in Nat
      /\ \A a, n \in Nat : a <= n => InsideAt(t, a, n) /\ (PassesAt(t, a, n) <=> a + d <= n)
  BY DEF Exact, Ahead
<1>2. CASE d <= c
  <2>1. s \o t = s \o t /\ c - d \in Nat /\ c <= d + (c - d)
    BY <1>1, <1>2
  <2>2. \A a, n \in Nat : a + c <= n => InsideAt(t, a, n)
                                       /\ (PassesAt(t, a, n) <=> a + d + (c - d) <= n)
    <3> SUFFICES ASSUME NEW a \in Nat, NEW n \in Nat, a + c <= n
                 PROVE  InsideAt(t, a, n) /\ (PassesAt(t, a, n) <=> a + d + (c - d) <= n)
      OBVIOUS
    <3>1. a <= n /\ a + d <= n /\ a + d + (c - d) <= n
      BY <1>1, <1>2
    <3> QED
      BY <1>1, <3>1
  <2>3. Ahead(s \o t, k + d, c - d)
    BY <1>1, <2>1, <2>2, AheadBoth, Zenon
  <2>4. c <= d => c - d = 0
    BY <1>1, <1>2
  <2> QED
    BY ExactIsAhead, <2>3, <2>4
<1>3. CASE c <= d
  <2>1. \A a, n \in Nat : a + c <= n => InsideAt(t, a, n)
                                       /\ (PassesAt(t, a, n) <=> a + d + 0 <= n)
    <3> SUFFICES ASSUME NEW a \in Nat, NEW n \in Nat, a + c <= n
                 PROVE  InsideAt(t, a, n) /\ (PassesAt(t, a, n) <=> a + d + 0 <= n)
      OBVIOUS
    <3>1. a <= n /\ a + d + 0 = a + d
      BY <1>1
    <3> QED
      BY <1>1, <3>1
  <2>2. 0 \in Nat /\ c <= d + 0
    BY <1>1, <1>3
  <2>3. Ahead(s \o t, k + d, 0)
    BY <1>1, <2>1, <2>2, AheadBoth, Zenon
  <2>4. d <= c => c - d = 0
    BY <1>1, <1>3
  <2> QED
    BY ExactIsAhead, <2>3, <2>4
<1>4. d <= c \/ c <= d
  BY <1>1
<1> QED
  BY <1>2, <1>3, <1>4

(* Calm items use up what was seen to be there. *)
LEMMA AheadCalm ==
  ASSUME NEW s, NEW k, NEW c, NEW t, NEW d, Ahead(s, k, c), Calm(t, d), d <= c
  PROVE  Ahead(s \o t, k + d, c - d)
<1>1. t \in Items(Lean \cap Modest) /\ d \in Nat /\ Skipped(t) = d /\ c \in Nat
  BY DEF Calm, Ahead
<1>2. t \in Seq(ItemSet) /\ c - d \in Nat /\ c <= d + (c - d)
  BY <1>1 DEF Items
<1>3. \A a, n \in Nat : a + c <= n => InsideAt(t, a, n)
                                       /\ (PassesAt(t, a, n) <=> a + d + (c - d) <= n)
  <2> SUFFICES ASSUME NEW a \in Nat, NEW n \in Nat, a + c <= n
               PROVE  InsideAt(t, a, n) /\ (PassesAt(t, a, n) <=> a + d + (c - d) <= n)
    OBVIOUS
  <2>1. a + d <= n /\ a + d + (c - d) <= n
    BY <1>1
  <2> QED
    BY <2>1, CalmPasses
<1> QED
  BY <1>1, <1>2, <1>3, AheadBoth, Zenon
-----------------------------------------------------------------------------
(* Class by class: the size that GetData computes is what its parts take   *)
(* (Full), and how much that is; SetSRD passes and stays inside, and where *)
(* it ends.                                                                *)
LEMMA TCommandData_Writes ==
  ASSUME NEW o, IsObject(o), o.class = "TCommandData"
  PROVE  /\ Full(o)
         /\ Makes(GetData(o).parts,
                  10 + (IF "chsfe" \in o.flags THEN 1 ELSE 0) + (IF "acfe" \in o.flags THEN 1
                   + o.list[1].size ELSE 0) + (IF "COMCONF" \in o.flags THEN 4 ELSE 0)
                   + (IF "COM" \in o.flags THEN 5 ELSE 0) + (IF o.var > 0 THEN o.var ELSE 0))
<1>1. o.var \in Nat /\ o.list[1].size \in Nat /\ ~("COM" \in o.flags /\ "COMCONF" \in o.flags)
  BY ObjectHas
<1> DEFINE p1 == Part("head", 10)
           p2 == When("chsfe" \in o.flags, Part("chs", 1))
           p3 == When("acfe" \in o.flags, Part("acl", 1) \o Part("ac", o.list[1].size))
           p4 == When("COMCONF" \in o.flags, Part("confirmation", 4))
           p5 == When("COM" \in o.flags, Part("command", 5))
           p6 == When(o.var > 0, Part("cd", o.var))
           n1 == 10
           n2 == IF "chsfe" \in o.flags THEN 1 ELSE 0
           n3 == IF "acfe" \in o.flags THEN 1 + o.list[1].size ELSE 0
           n4 == IF "COMCONF" \in o.flags THEN 4 ELSE 0
           n5 == IF "COM" \in o.flags THEN 5 ELSE 0
           n6 == IF o.var > 0 THEN o.var ELSE 0
<1>2. /\ Makes(Part("head", 10), 10)
      /\ Makes(Part("chs", 1), 1)
      /\ Makes(Part("acl", 1), 1)
      /\ Makes(Part("ac", o.list[1].size), o.list[1].size)
      /\ Makes(Part("confirmation", 4), 4)
      /\ Makes(Part("command", 5), 5)
      /\ Makes(Part("cd", o.var), o.var)
  BY <1>1, MakesRules DEF Names
<1>3. /\ Makes(p1, n1)
      /\ Makes(p2, n2)
      /\ Makes(p3, n3)
      /\ Makes(p4, n4)
      /\ Makes(p5, n5)
      /\ Makes(p6, n6)
  BY <1>1, <1>2, MakesRules DEF When
<1>4. GetData(o) = TCommandData_GetData(o)
  BY DEF GetData
<1>5. TCommandData_GetData(o).parts = p1 \o p2 \o p3 \o p4 \o p5 \o p6
  BY DEF TCommandData_GetData, Wrote
<1>6. TCommandData_GetData(o).size = U16(n1 + n2 + n3 + n4 + n5 + n6)
  BY <1>1 DEF TCommandData_GetData, Wrote, Sure
<1> HIDE DEF p1, p2, p3, p4, p5, p6, n1, n2, n3, n4, n5, n6
<1>7. Makes(p1 \o p2 \o p3 \o p4 \o p5 \o p6, n1 + n2 + n3 + n4 + n5 + n6)
  BY <1>3, MakesRules
<1>8. Full(o)
  BY <1>4, <1>5, <1>6, <1>7 DEF Full, Makes
<1> QED
  BY <1>4, <1>5, <1>7, <1>8 DEF n1, n2, n3, n4, n5, n6

LEMMA TECallRawMSD_Writes ==
  ASSUME NEW o, IsObject(o), o.class = "TECallRawMSD"
  PROVE  /\ Full(o)
         /\ Makes(GetData(o).parts,
                  1 + (IF o.var > 0 THEN o.var ELSE 0))
<1>1. o.var \in Nat
  BY ObjectHas
<1> DEFINE p1 == Part("fm", 1)
           p2 == When(o.var > 0, Part("msd", o.var))
           n1 == 1
           n2 == IF o.var > 0 THEN o.var ELSE 0
<1>2. /\ Makes(Part("fm", 1), 1)
      /\ Makes(Part("msd", o.var), o.var)
  BY <1>1, MakesRules DEF Names
<1>3. /\ Makes(p1, n1)
      /\ Makes(p2, n2)
  BY <1>1, <1>2, MakesRules DEF When
<1>4. GetData(o) = TECallRawMSD_GetData(o)
  BY DEF GetData
<1>5. TECallRawMSD_GetData(o).parts = p1 \o p2
  BY DEF TECallRawMSD_GetData, Wrote
<1>6. TECallRawMSD_GetData(o).size = U16(n1 + n2)
  BY <1>1 DEF TECallRawMSD_GetData, Wrote, Sure
<1> HIDE DEF p1, p2, n1, n2
<1>7. Makes(p1 \o p2, n1 + n2)
  BY <1>3, MakesRules
<1>8. Full(o)
  BY <1>4, <1>5, <1>6, <1>7 DEF Full, Makes
<1> QED
  BY <1>4, <1>5, <1>7, <1>8 DEF n1, n2

LEMMA TECallMSD_Writes ==
  ASSUME NEW o, IsObject(o), o.class = "TECallMSD"
  PROVE  /\ Full(o)
         /\ Makes(GetData(o).parts,
                  34 + (IF OptSize(o) > 0 THEN OptSize(o) ELSE 0)
                   + (IF o.var > 0 THEN o.var ELSE 0))
<1>1. o.var \in Nat /\ OptSize(o) \in Nat
  BY ObjectHas DEF OptSize
<1> DEFINE p1 == Part("head", 34)
           p2 == When(OptSize(o) > 0, Part("bf", OptSize(o)))
           p3 == When(o.var > 0, Part("additional", o.var))
           n1 == 34
           n2 == IF OptSize(o) > 0 THEN OptSize(o) ELSE 0
           n3 == IF o.var > 0 THEN o.var ELSE 0
<1>2. /\ Makes(Part("head", 34), 34)
      /\ Makes(Part("bf", OptSize(o)), OptSize(o))
      /\ Makes(Part("additional", o.var), o.var)
  BY <1>1, MakesRules DEF Names
<1>3. /\ Makes(p1, n1)
      /\ Makes(p2, n2)
      /\ Makes(p3, n3)
  BY <1>1, <1>2, MakesRules DEF When
<1>4. GetData(o) = TECallMSD_GetData(o)
  BY DEF GetData
<1>5. TECallMSD_GetData(o).parts = p1 \o p2 \o p3
  BY DEF TECallMSD_GetData, Wrote
<1>6. TECallMSD_GetData(o).size = U16(n1 + n2 + n3)
  BY <1>1 DEF TECallMSD_GetData, Wrote, Sure
<1> HIDE DEF p1, p2, p3, n1, n2, n3
<1>7. Makes(p1 \o p2 \o p3, n1 + n2 + n3)
  BY <1>3, MakesRules
<1>8. Full(o)
  BY <1>4, <1>5, <1>6, <1>7 DEF Full, Makes
<1> QED
  BY <1>4, <1>5, <1>7, <1>8 DEF n1, n2, n3

LEMMA TEPCompData_Writes ==
  ASSUME NEW o, IsObject(o), o.class = "TEPCompData"
  PROVE  /\ Full(o)
         /\ Makes(GetData(o).parts,
                  5 + (IF o.var > 0 THEN o.var ELSE 0))
<1>1. o.var \in Nat
  BY ObjectHas
<1> DEFINE p1 == Part("head", 5)
           p2 == When(o.var > 0, Part("cd", o.var))
           n1 == 5
           n2 == IF o.var > 0 THEN o.var ELSE 0
<1>2. /\ Makes(Part("head", 5), 5)
      /\ Makes(Part("cd", o.var), o.var)
  BY <1>1, MakesRules DEF Names
<1>3. /\ Makes(p1, n1)
      /\ Makes(p2, n2)
  BY <1>1, <1>2, MakesRules DEF When
<1>4. GetData(o) = TEPCompData_GetData(o)
  BY DEF GetData
<1>5. TEPCompData_GetData(o).parts = p1 \o p2
  BY DEF TEPCompData_GetData, Wrote
<1>6. TEPCompData_GetData(o).size = U16(n1 + n2)
  BY <1>1 DEF TEPCompData_GetData, Wrote, Sure
<1> HIDE DEF p1, p2, n1, n2
<1>7. Makes(p1 \o p2, n1 + n2)
  BY <1>3, MakesRules
<1>8. Full(o)
  BY <1>4, <1>5, <1>6, <1>7 DEF Full, Makes
<1> QED
  BY <1>4, <1>5, <1>7, <1>8 DEF n1, n2

LEMMA TDispIdent_Writes ==
  ASSUME NEW o, IsObject(o), o.class = "TDispIdent"
  PROVE  /\ Full(o)
         /\ Makes(GetData(o).parts,
                  5 + (IF DescrLen(o) > 0 THEN DescrLen(o) ELSE 0))
<1>1. o.var \in Nat /\ DescrLen(o) \in Nat
  BY ObjectHas DEF DescrLen
<1> DEFINE p1 == Part("head", 5)
           p2 == When(DescrLen(o) > 0, Part("dscr", DescrLen(o)))
           n1 == 5
           n2 == IF DescrLen(o) > 0 THEN DescrLen(o) ELSE 0
<1>2. /\ Makes(Part("head", 5), 5)
      /\ Makes(Part("dscr", DescrLen(o)), DescrLen(o))
  BY <1>1, MakesRules DEF Names
<1>3. /\ Makes(p1, n1)
      /\ Makes(p2, n2)
  BY <1>1, <1>2, MakesRules DEF When
<1>4. GetData(o) = TDispIdent_GetData(o)
  BY DEF GetData
<1>5. TDispIdent_GetData(o).parts = p1 \o p2
  BY DEF TDispIdent_GetData, Wrote
<1>6. TDispIdent_GetData(o).size = U16(n1 + n2)
  BY <1>1 DEF TDispIdent_GetData, Wrote, Sure
<1> HIDE DEF p1, p2, n1, n2
<1>7. Makes(p1 \o p2, n1 + n2)
  BY <1>3, MakesRules
<1>8. Full(o)
  BY <1>4, <1>5, <1>6, <1>7 DEF Full, Makes
<1> QED
  BY <1>4, <1>5, <1>7, <1>8 DEF n1, n2

LEMMA TAuthInfo_Writes ==
  ASSUME NEW o, IsObject(o), o.class = "TAuthInfo"
  PROVE  /\ Full(o)
         /\ Makes(GetData(o).parts,
                  (o.list[1].size + 1) + (o.list[2].size + 1) + (IF o.list[3].size
                   + 1 > 1 THEN o.list[3].size + 1 ELSE 0))
<1>1. o.list[1].size \in Nat /\ o.list[2].size \in Nat /\ o.list[3].size \in Nat
  BY ObjectHas
<1> DEFINE p1 == Part("user_name", o.list[1].size + 1)
           p2 == Part("user_pass", o.list[2].size + 1)
           p3 == When(o.list[3].size + 1 > 1, Part("server_sequence", o.list[3].size + 1))
           n1 == o.list[1].size + 1
           n2 == o.list[2].size + 1
           n3 == IF o.list[3].size + 1 > 1 THEN o.list[3].size + 1 ELSE 0
<1>2. /\ Makes(Part("user_name", o.list[1].size + 1), o.list[1].size + 1)
      /\ Makes(Part("user_pass", o.list[2].size + 1), o.list[2].size + 1)
      /\ Makes(Part("server_sequence", o.list[3].size + 1), o.list[3].size + 1)
  BY <1>1, MakesRules DEF Names
<1>3. /\ Makes(p1, n1)
      /\ Makes(p2, n2)
      /\ Makes(p3, n3)
  BY <1>1, <1>2, MakesRules DEF When
<1>4. GetData(o) = TAuthInfo_GetData(o)
  BY DEF GetData
<1>5. TAuthInfo_GetData(o).parts = p1 \o p2 \o p3
  BY DEF TAuthInfo_GetData, Wrote
<1>6. TAuthInfo_GetData(o).size = U16(n1 + n2 + n3)
  BY <1>1 DEF TAuthInfo_GetData, Wrote, Sure
<1> HIDE DEF p1, p2, p3, n1, n2, n3
<1>7. Makes(p1 \o p2 \o p3, n1 + n2 + n3)
  BY <1>3, MakesRules
<1>8. Full(o)
  BY <1>4, <1>5, <1>6, <1>7 DEF Full, Makes
<1> QED
  BY <1>4, <1>5, <1>7, <1>8 DEF n1, n2, n3

LEMMA TPlusData_Writes ==
  ASSUME NEW o, IsObject(o), o.class = "TPlusData"
  PROVE  /\ Full(o)
         /\ Makes(GetData(o).parts,
                  o.var)
<1>1. o.var \in Nat
  BY ObjectHas
<1> DEFINE p1 == Part("protobuf", o.var)
           n1 == o.var
<1>2. /\ Makes(Part("protobuf", o.var), o.var)
  BY <1>1, MakesRules DEF Names
<1>3. /\ Makes(p1, n1)
  BY <1>1, <1>2, MakesRules DEF When
<1>4. GetData(o) = TPlusData_GetData(o)
  BY DEF GetData
<1>5. TPlusData_GetData(o).parts = p1
  BY DEF TPlusData_GetData, Wrote
<1>6. TPlusData_GetData(o).size = U16(n1)
  BY <1>1 DEF TPlusData_GetData, Wrote, Sure
<1> HIDE DEF p1, n1
<1>7. Makes(p1, n1)
  BY <1>3
<1>8. Full(o)
  BY <1>4, <1>5, <1>6, <1>7 DEF Full, Makes
<1> QED
  BY <1>4, <1>5, <1>7, <1>8 DEF n1

LEMMA TLiquidLevel_Writes ==
  ASSUME NEW o, IsObject(o), o.class = "TLiquidLevel"
  PROVE  /\ Full(o)
         /\ Makes(GetData(o).parts,
                  3 + o.var)
<1>1. o.var \in Nat
  BY ObjectHas
<1> DEFINE p1 == Part("head", 3)
           p2 == Part("llcd", o.var)
           n1 == 3
           n2 == o.var
<1>2. /\ Makes(Part("head", 3), 3)
      /\ Makes(Part("llcd", o.var), o.var)
  BY <1>1, MakesRules DEF Names
<1>3. /\ Makes(p1, n1)
      /\ Makes(p2, n2)
  BY <1>1, <1>2, MakesRules DEF When
<1>4. GetData(o) = TLiquidLevel_GetData(o)
  BY DEF GetData
<1>5. TLiquidLevel_GetData(o).parts = p1 \o p2
  BY DEF TLiquidLevel_GetData, Wrote
<1>6. TLiquidLevel_GetData(o).size = U16(n1 + n2)
  BY <1>1 DEF TLiquidLevel_GetData, Wrote, Sure
<1> HIDE DEF p1, p2, n1, n2
<1>7. Makes(p1 \o p2, n1 + n2)
  BY <1>3, MakesRules
<1>8. Full(o)
  BY <1>4, <1>5, <1>6, <1>7 DEF Full, Makes
<1> QED
  BY <1>4, <1>5, <1>7, <1>8 DEF n1, n2

LEMMA TCommandData_Reads ==
  ASSUME NEW o, IsObject(o), o.class = "TCommandData", NEW n \in Nat
  PROVE  /\ SetSRD(o, n).whole = FALSE
         /\ LET k == 10 + (IF "chsfe" \in o.flags THEN 1 ELSE 0) + (IF "acfe" \in o.flags THEN 1
                      + o.list[1].size ELSE 0) + (IF "COMCONF" \in o.flags THEN 4 ELSE 0)
                      + (IF "COM" \in o.flags THEN 5 ELSE 0)
                rest == IF n > k THEN n - k ELSE 0
            IN  Exact(SetSRD(o, n).items, k + rest)
<1>1. o.var \in Nat /\ o.list[1].size \in Nat /\ ~("COM" \in o.flags /\ "COMCONF" \in o.flags)
  BY ObjectHas
<1> DEFINE q1 == Read("head", 10)
           q2 == When("chsfe" \in o.flags, Read("chs", 1))
           q3 == When("acfe" \in o.flags, Read("acl", 1) \o Read("ac", o.list[1].size))
           q4 == When("COMCONF" \in o.flags, Read("confirmation", 4))
           q5 == When("COM" \in o.flags, Read("command", 5))
           k1 == 10
           k2 == IF "chsfe" \in o.flags THEN 1 ELSE 0
           k3 == IF "acfe" \in o.flags THEN 1 + o.list[1].size ELSE 0
           k4 == IF "COMCONF" \in o.flags THEN 4 ELSE 0
           k5 == IF "COM" \in o.flags THEN 5 ELSE 0
<1>2. /\ Exact(Read("head", 10), 10)
      /\ Exact(Read("chs", 1), 1)
      /\ Exact(Read("acl", 1), 1)
      /\ Exact(Read("ac", o.list[1].size), o.list[1].size)
      /\ Exact(Read("confirmation", 4), 4)
      /\ Exact(Read("command", 5), 5)
  BY <1>1, ExactRules DEF Names
<1>3. /\ Exact(q1, k1)
      /\ Exact(q2, k2)
      /\ Exact(q3, k3)
      /\ Exact(q4, k4)
      /\ Exact(q5, k5)
  BY <1>1, <1>2, ExactRules DEF When
<1>4. SetSRD(o, n) = TCommandData_SetSRD(o, n)
  BY DEF SetSRD
<1> DEFINE rest == Rest(n, q1 \o q2 \o q3 \o q4 \o q5)
           tail == When(rest > 0, Read("cd", rest))
<1>5. TCommandData_SetSRD(o, n).items = q1 \o q2 \o q3 \o q4 \o q5 \o tail
          /\ TCommandData_SetSRD(o, n).whole = FALSE
  BY DEF TCommandData_SetSRD, Reads
<1> HIDE DEF q1, q2, q3, q4, q5, k1, k2, k3, k4, k5, tail
<1>6. Exact(q1 \o q2 \o q3 \o q4 \o q5, k1 + k2 + k3 + k4 + k5)
  BY <1>1, <1>3, ExactRules
<1>7. rest = IF n > k1 + k2 + k3 + k4 + k5 THEN n - (k1 + k2 + k3 + k4 + k5) ELSE 0
  BY <1>6 DEF Rest, Exact
<1>8. k1 + k2 + k3 + k4 + k5 \in Nat /\ rest \in Nat
  BY <1>6, <1>7 DEF Exact
<1> HIDE DEF rest
<1>9. Exact(tail, rest)
  BY <1>8, ExactRules DEF tail, When, Names, Least
<1>10. Exact(q1 \o q2 \o q3 \o q4 \o q5 \o tail, k1 + k2 + k3 + k4 + k5 + rest)
  BY <1>6, <1>9, ExactRules
<1> QED
  BY <1>4, <1>5, <1>7, <1>10 DEF k1, k2, k3, k4, k5

LEMMA TEPCompData_Reads ==
  ASSUME NEW o, IsObject(o), o.class = "TEPCompData", NEW n \in Nat
  PROVE  /\ SetSRD(o, n).whole = FALSE
         /\ Exact(SetSRD(o, n).items,
                  5 + (IF o.var > 0 THEN o.var ELSE 0))
<1>1. o.var \in Nat
  BY ObjectHas
<1> DEFINE q1 == Read("head", 5)
           q2 == When(o.var > 0, Read("cd", o.var))
           k1 == 5
           k2 == IF o.var > 0 THEN o.var ELSE 0
<1>2. /\ Exact(Read("head", 5), 5)
      /\ Exact(Read("cd", o.var), o.var)
  BY <1>1, ExactRules DEF Names
<1>3. /\ Exact(q1, k1)
      /\ Exact(q2, k2)
  BY <1>1, <1>2, ExactRules DEF When
<1>4. SetSRD(o, n) = TEPCompData_SetSRD(o, n)
  BY DEF SetSRD
<1>5. TEPCompData_SetSRD(o, n).items = q1 \o q2 /\ TEPCompData_SetSRD(o, n).whole = FALSE
  BY DEF TEPCompData_SetSRD, Reads
<1> HIDE DEF q1, q2, k1, k2
<1>6. Exact(q1 \o q2, k1 + k2)
  BY <1>1, <1>3, ExactRules
<1> QED
  BY <1>4, <1>5, <1>6 DEF k1, k2

LEMMA TDispIdent_Reads ==
  ASSUME NEW o, IsObject(o), o.class = "TDispIdent", NEW n \in Nat
  PROVE  /\ SetSRD(o, n).whole = FALSE
         /\ LET k == 5
                rest == IF n > k THEN n - k ELSE 0
            IN  Exact(SetSRD(o, n).items, k + rest)
<1>1. o.var \in Nat
  BY ObjectHas
<1> DEFINE q1 == Read("head", 5)
           k1 == 5
<1>2. /\ Exact(Read("head", 5), 5)
  BY <1>1, ExactRules DEF Names
<1>3. /\ Exact(q1, k1)
  BY <1>1, <1>2, ExactRules DEF When
<1>4. SetSRD(o, n) = TDispIdent_SetSRD(o, n)
  BY DEF SetSRD
<1> DEFINE rest == Rest(n, q1)
           tail == When(rest > 0, Read("dscr", rest))
<1>5. TDispIdent_SetSRD(o, n).items = q1 \o tail /\ TDispIdent_SetSRD(o, n).whole = FALSE
  BY DEF TDispIdent_SetSRD, Reads
<1> HIDE DEF q1, k1, tail
<1>6. Exact(q1, k1)
  BY <1>1, <1>3
<1>7. rest = IF n > k1 THEN n - (k1) ELSE 0
  BY <1>6 DEF Rest, Exact
<1>8. k1 \in Nat /\ rest \in Nat
  BY <1>6, <1>7 DEF Exact
<1> HIDE DEF rest
<1>9. Exact(tail, rest)
  BY <1>8, ExactRules DEF tail, When, Names, Least
<1>10. Exact(q1 \o tail, k1 + rest)
  BY <1>6, <1>9, ExactRules
<1> QED
  BY <1>4, <1>5, <1>7, <1>10 DEF k1

LEMMA TPlusData_Reads ==
  ASSUME NEW o, IsObject(o), o.class = "TPlusData", NEW n \in Nat
  PROVE  /\ SetSRD(o, n).whole = TRUE
         /\ Exact(SetSRD(o, n).items,
                  n)
<1>1. o.var \in Nat
  BY ObjectHas
<1> DEFINE q1 == Read("protobuf", n)
           k1 == n
<1>2. /\ Exact(Read("protobuf", n), n)
  BY <1>1, ExactRules DEF Names
<1>3. /\ Exact(q1, k1)
  BY <1>1, <1>2, ExactRules DEF When
<1>4. SetSRD(o, n) = TPlusData_SetSRD(o, n)
  BY DEF SetSRD
<1>5. TPlusData_SetSRD(o, n).items = q1 /\ TPlusData_SetSRD(o, n).whole = TRUE
  BY DEF TPlusData_SetSRD, ReadsAll
<1> HIDE DEF q1, k1
<1>6. Exact(q1, k1)
  BY <1>1, <1>3
<1> QED
  BY <1>4, <1>5, <1>6 DEF k1

LEMMA TEPSignature_Writes ==
  ASSUME NEW o, IsObject(o), o.class = "TEPSignature"
  PROVE  /\ Full(o)
         /\ Makes(GetData(o).parts,
                  1 + 1 + (Total([ i \in 1 .. Len(o.list) |-> 9 + o.list[i].size ])))
<1>1. Len(o.list) \in Nat /\ DOMAIN o.list = 1 .. Len(o.list)
      /\ \A i \in 1 .. Len(o.list) : o.list[i].size \in Nat
  BY ObjectHas
<1> DEFINE p1 == Part("ver", 1)
           p2 == Part("sa", 1)
           p3 == FlattenSeq([ i \in DOMAIN o.list |-> NthPart("sd.head", i, 9)
                     \o When(o.list[i].size > 0, NthPart("sd", i, o.list[i].size)) ])
           n1 == 1
           n2 == 1
           n3 == Total([ i \in 1 .. Len(o.list) |-> 9 + o.list[i].size ])
<1>2. /\ Makes(Part("ver", 1), 1)
      /\ Makes(Part("sa", 1), 1)
  BY <1>1, MakesRules DEF Names
<1>g3. Makes(p3, n3)
  <2> DEFINE q == [ i \in DOMAIN o.list |-> NthPart("sd.head", i, 9)
                      \o When(o.list[i].size > 0, NthPart("sd", i, o.list[i].size)) ]
             z == [ i \in 1 .. Len(o.list) |-> 9 + o.list[i].size ]
  <2>1. \A i \in 1 .. Len(o.list) : Makes(q[i], z[i])
    <3> SUFFICES ASSUME NEW i \in 1 .. Len(o.list)
                 PROVE  Makes(NthPart("sd.head", i, 9)
                            \o When(o.list[i].size > 0, NthPart("sd", i, o.list[i].size)), 9 + o.list[i].size)
      BY <1>1
    <3>1. i \in Nat /\ o.list[i].size \in Nat
      BY <1>1
    <3>2. /\ Makes(NthPart("sd.head", i, 9), 9)
          /\ Makes(NthPart("sd", i, o.list[i].size), o.list[i].size)
      BY <3>1, MakesRules DEF Names
    <3> QED
      BY <3>1, <3>2, MakesRules DEF When, Sure
  <2>2. Len(o.list) \in Nat /\ DOMAIN q = 1 .. Len(o.list) /\ q = [ i \in 1 .. Len(o.list) |-> q[i] ]
        /\ z = [ i \in 1 .. Len(o.list) |-> z[i] ]
    BY <1>1
  <2> HIDE DEF q, z
  <2>3. Makes(FlattenSeq(q), Total(z)) /\ z \in Seq(Nat) /\ Len(z) = Len(o.list)
    BY <2>1, <2>2, EachMade, Zenon
  <2> QED
    BY <1>1, <2>3 DEF q, z
<1>3. /\ Makes(p1, n1)
      /\ Makes(p2, n2)
  BY <1>1, <1>2, MakesRules DEF When
<1>4. GetData(o) = TEPSignature_GetData(o)
  BY DEF GetData
<1>5. TEPSignature_GetData(o).parts = p1 \o p2 \o p3
  BY DEF TEPSignature_GetData, Wrote, Each, SumOf
<1>6. TEPSignature_GetData(o).size = U16(n1 + n2 + n3)
  BY <1>1 DEF TEPSignature_GetData, Wrote, Sure, Each, SumOf
<1> HIDE DEF p1, p2, p3, n1, n2, n3
<1>7. Makes(p1 \o p2 \o p3, n1 + n2 + n3)
  BY <1>3, <1>g3, MakesRules
<1>8. Full(o)
  BY <1>4, <1>5, <1>6, <1>7 DEF Full, Makes
<1> QED
  BY <1>4, <1>5, <1>7, <1>8 DEF n1, n2, n3

LEMMA TEPAccelData3_Writes ==
  ASSUME NEW o, IsObject(o), o.class = "TEPAccelData3"
  PROVE  /\ Full(o)
         /\ Makes(GetData(o).parts,
                  15 + (Total([ i \in 1 .. Len(o.list) |-> 1
                   + 6 * Sure("rst" \notin o.list[i].flags) ])))
<1>1. Len(o.list) \in Nat /\ DOMAIN o.list = 1 .. Len(o.list)
      /\ \A i \in 1 .. Len(o.list) : o.list[i].size \in Nat
  BY ObjectHas
<1> DEFINE p1 == Part("head", 15)
           p2 == FlattenSeq([ i \in DOMAIN o.list |-> NthPart("ad.head", i, 1)
                     \o When("rst" \notin o.list[i].flags, NthPart("ads", i, 6)) ])
           n1 == 15
           n2 == Total([ i \in 1 .. Len(o.list) |-> 1 + 6 * Sure("rst" \notin o.list[i].flags) ])
<1>2. /\ Makes(Part("head", 15), 15)
  BY <1>1, MakesRules DEF Names
<1>g2. Makes(p2, n2)
  <2> DEFINE q == [ i \in DOMAIN o.list |-> NthPart("ad.head", i, 1)
                      \o When("rst" \notin o.list[i].flags, NthPart("ads", i, 6)) ]
             z == [ i \in 1 .. Len(o.list) |-> 1 + 6 * Sure("rst" \notin o.list[i].flags) ]
  <2>1. \A i \in 1 .. Len(o.list) : Makes(q[i], z[i])
    <3> SUFFICES ASSUME NEW i \in 1 .. Len(o.list)
                 PROVE  Makes(NthPart("ad.head", i, 1)
                            \o When("rst" \notin o.list[i].flags, NthPart("ads", i, 6)), 1
                            + 6 * Sure("rst" \notin o.list[i].flags))
      BY <1>1
    <3>1. i \in Nat
      BY <1>1
    <3>2. /\ Makes(NthPart("ad.head", i, 1), 1)
          /\ Makes(NthPart("ads", i, 6), 6)
      BY <3>1, MakesRules DEF Names
    <3> DEFINE w1 == NthPart("ad.head", i, 1)
               w2 == When("rst" \notin o.list[i].flags, NthPart("ads", i, 6))
               v1 == 1
               v2 == 6 * Sure("rst" \notin o.list[i].flags)
    <3>3. Makes(w1, v1)
      BY <3>1, <3>2, MakesRules DEF When, Sure
    <3>4. Makes(w2, v2)
      BY <3>1, <3>2, MakesRules DEF When, Sure
    <3> HIDE DEF w1, v1, w2, v2
    <3>5. Makes(w1 \o w2, v1 + v2)
      BY <3>3, <3>4, MakesRules
    <3> QED
      BY <3>5 DEF w1, v1, w2, v2
  <2>2. Len(o.list) \in Nat /\ DOMAIN q = 1 .. Len(o.list) /\ q = [ i \in 1 .. Len(o.list) |-> q[i] ]
        /\ z = [ i \in 1 .. Len(o.list) |-> z[i] ]
    BY <1>1
  <2> HIDE DEF q, z
  <2>3. Makes(FlattenSeq(q), Total(z)) /\ z \in Seq(Nat) /\ Len(z) = Len(o.list)
    BY <2>1, <2>2, EachMade, Zenon
  <2> QED
    BY <1>1, <2>3 DEF q, z
<1>3. /\ Makes(p1, n1)
  BY <1>1, <1>2, MakesRules DEF When
<1>4. GetData(o) = TEPAccelData3_GetData(o)
  BY DEF GetData
<1>5. TEPAccelData3_GetData(o).parts = p1 \o p2
  BY DEF TEPAccelData3_GetData, Wrote, Each, SumOf
<1>6. TEPAccelData3_GetData(o).size = U16(n1 + n2)
  BY <1>1 DEF TEPAccelData3_GetData, Wrote, Sure, Each, SumOf
<1> HIDE DEF p1, p2, n1, n2
<1>7. Makes(p1 \o p2, n1 + n2)
  BY <1>3, <1>g2, MakesRules
<1>8. Full(o)
  BY <1>4, <1>5, <1>6, <1>7 DEF Full, Makes
<1> QED
  BY <1>4, <1>5, <1>7, <1>8 DEF n1, n2

LEMMA TEPTrackData_Writes ==
  ASSUME NEW o, IsObject(o), o.class = "TEPTrackData"
  PROVE  /\ Full(o)
         /\ Makes(GetData(o).parts,
                  8 + (IF "tde" \in o.flags THEN 12 ELSE 0)
                   + (Total([ i \in 1 .. Len(o.list) |-> 1 + 5 * Sure("rst" \in o.list[i].flags)
                   + Sure("rst" \in o.list[i].flags /\ "spde" \in o.list[i].flags)
                   + Sure("rst" \in o.list[i].flags /\ "alte" \in o.list[i].flags) ])))
<1>1. Len(o.list) \in Nat /\ DOMAIN o.list = 1 .. Len(o.list)
      /\ \A i \in 1 .. Len(o.list) : o.list[i].size \in Nat
  BY ObjectHas
<1> DEFINE p1 == Part("head", 8)
           p2 == When("tde" \in o.flags, Part("tds", 12))
           p3 == FlattenSeq([ i \in DOMAIN o.list |-> NthPart("rt.head", i, 1)
                     \o When("rst" \in o.list[i].flags, NthPart("rt.body", i, 5))
                     \o When("rst" \in o.list[i].flags /\ "spde" \in o.list[i].flags, NthPart("rt.spdl", i,
                     1)) \o When("rst" \in o.list[i].flags /\ "alte" \in o.list[i].flags,
                     NthPart("rt.alt", i, 1)) ])
           n1 == 8
           n2 == IF "tde" \in o.flags THEN 12 ELSE 0
           n3 == Total([ i \in 1 .. Len(o.list) |-> 1 + 5 * Sure("rst" \in o.list[i].flags)
                     + Sure("rst" \in o.list[i].flags /\ "spde" \in o.list[i].flags)
                     + Sure("rst" \in o.list[i].flags /\ "alte" \in o.list[i].flags) ])
<1>2. /\ Makes(Part("head", 8), 8)
      /\ Makes(Part("tds", 12), 12)
  BY <1>1, MakesRules DEF Names
<1>g3. Makes(p3, n3)
  <2> DEFINE q == [ i \in DOMAIN o.list |-> NthPart("rt.head", i, 1)
                      \o When("rst" \in o.list[i].flags, NthPart("rt.body", i, 5))
                      \o When("rst" \in o.list[i].flags /\ "spde" \in o.list[i].flags,
                      NthPart("rt.spdl", i, 1))
                      \o When("rst" \in o.list[i].flags /\ "alte" \in o.list[i].flags, NthPart("rt.alt", i,
                      1)) ]
             z == [ i \in 1 .. Len(o.list) |-> 1 + 5 * Sure("rst" \in o.list[i].flags)
                      + Sure("rst" \in o.list[i].flags /\ "spde" \in o.list[i].flags)
                      + Sure("rst" \in o.list[i].flags /\ "alte" \in o.list[i].flags) ]
  <2>1. \A i \in 1 .. Len(o.list) : Makes(q[i], z[i])
    <3> SUFFICES ASSUME NEW i \in 1 .. Len(o.list)
                 PROVE  Makes(NthPart("rt.head", i, 1)
                            \o When("rst" \in o.list[i].flags, NthPart("rt.body", i, 5))
                            \o When("rst" \in o.list[i].flags /\ "spde" \in o.list[i].flags,
                            NthPart("rt.spdl", i, 1))
                            \o When("rst" \in o.list[i].flags /\ "alte" \in o.list[i].flags,
                            NthPart("rt.alt", i, 1)), 1 + 5 * Sure("rst" \in o.list[i].flags)
                            + Sure("rst" \in o.list[i].flags /\ "spde" \in o.list[i].flags)
                            + Sure("rst" \in o.list[i].flags /\ "alte" \in o.list[i].flags))
      BY <1>1
    <3>1. i \in Nat
      BY <1>1
    <3>2. /\ Makes(NthPart("rt.head", i, 1), 1)
          /\ Makes(NthPart("rt.body", i, 5), 5)
          /\ Makes(NthPart("rt.spdl", i, 1), 1)
          /\ Makes(NthPart("rt.alt", i, 1), 1)
      BY <3>1, MakesRules DEF Names
    <3> DEFINE w1 == NthPart("rt.head", i, 1)
               w2 == When("rst" \in o.list[i].flags, NthPart("rt.body", i, 5))
               w3 == When("rst" \in o.list[i].flags /\ "spde" \in o.list[i].flags, NthPart("rt.spdl", i, 1))
               w4 == When("rst" \in o.list[i].flags /\ "alte" \in o.list[i].flags, NthPart("rt.alt", i, 1))
               v1 == 1
               v2 == 5 * Sure("rst" \in o.list[i].flags)
               v3 == Sure("rst" \in o.list[i].flags /\ "spde" \in o.list[i].flags)
               v4 == Sure("rst" \in o.list[i].flags /\ "alte" \in o.list[i].flags)
    <3>3. Makes(w1, v1)
      BY <3>1, <3>2, MakesRules DEF When, Sure
    <3>4. Makes(w2, v2)
      BY <3>1, <3>2, MakesRules DEF When, Sure
    <3>5. Makes(w3, v3)
      BY <3>1, <3>2, MakesRules DEF When, Sure
    <3>6. Makes(w4, v4)
      BY <3>1, <3>2, MakesRules DEF When, Sure
    <3> HIDE DEF w1, v1, w2, v2, w3, v3, w4, v4
    <3>7. Makes(w1 \o w2 \o w3 \o w4, v1 + v2 + v3 + v4)
      BY <3>3, <3>4, <3>5, <3>6, MakesRules
    <3> QED
      BY <3>7 DEF w1, v1, w2, v2, w3, v3, w4, v4
  <2>2. Len(o.list) \in Nat /\ DOMAIN q = 1 .. Len(o.list) /\ q = [ i \in 1 .. Len(o.list) |-> q[i] ]
        /\ z = [ i \in 1 .. Len(o.list) |-> z[i] ]
    BY <1>1
  <2> HIDE DEF q, z
  <2>3. Makes(FlattenSeq(q), Total(z)) /\ z \in Seq(Nat) /\ Len(z) = Len(o.list)
    BY <2>1, <2>2, EachMade, Zenon
  <2> QED
    BY <1>1, <2>3 DEF q, z
<1>3. /\ Makes(p1, n1)
      /\ Makes(p2, n2)
  BY <1>1, <1>2, MakesRules DEF When
<1>4. GetData(o) = TEPTrackData_GetData(o)
  BY DEF GetData
<1>5. TEPTrackData_GetData(o).parts = p1 \o p2 \o p3
  BY DEF TEPTrackData_GetData, Wrote, Each, SumOf
<1>6. TEPTrackData_GetData(o).size = U16(n1 + n2 + n3)
  BY <1>1 DEF TEPTrackData_GetData, Wrote, Sure, Each, SumOf
<1> HIDE DEF p1, p2, p3, n1, n2, n3
<1>7. Makes(p1 \o p2 \o p3, n1 + n2 + n3)
  BY <1>3, <1>g3, MakesRules
<1>8. Full(o)
  BY <1>4, <1>5, <1>6, <1>7 DEF Full, Makes
<1> QED
  BY <1>4, <1>5, <1>7, <1>8 DEF n1, n2, n3

(* What TTermIdent and TTermIdent2 write. *)
LEMMA TermPartsMade ==
  ASSUME NEW o, IsObject(o)
  PROVE  Makes(TermParts(o), TermSize(o)) /\ TermSize(o) \in 5 .. 61 /\ TermSize(o) \in Nat
<1> DEFINE p1 == Part("head", 5)
           p2 == When("hdide" \in o.flags, Part("hdid", 2)) \o When("imeie" \in o.flags, Part("imei", 15))
                     \o When("imsie" \in o.flags, Part("imsi", 16))
                     \o When("lngce" \in o.flags, Part("lngc", 3))
                     \o When("nide" \in o.flags, Part("nid", 3)) \o When("bse" \in o.flags, Part("bs", 2))
           p3 == When("mne" \in o.flags, Part("msisdn", 15))
           n2 == (IF "hdide" \in o.flags THEN 2 ELSE 0) + (IF "imeie" \in o.flags THEN 15 ELSE 0)
                     + (IF "imsie" \in o.flags THEN 16 ELSE 0) + (IF "lngce" \in o.flags THEN 3 ELSE 0)
                     + (IF "nide" \in o.flags THEN 3 ELSE 0) + (IF "bse" \in o.flags THEN 2 ELSE 0)
           n3 == IF "mne" \in o.flags THEN 15 ELSE 0
<1>1. TRUE
  OBVIOUS
<1>2. Makes(p1, 5) /\ Makes(Part("msisdn", 15), 15)
  BY MakesRules DEF Names
<1>3. Makes(p3, n3)
  BY <1>2, MakesRules DEF When
<1>4. Makes(p2, n2)
  <2> DEFINE w1 == When("hdide" \in o.flags, Part("hdid", 2))
             w2 == When("imeie" \in o.flags, Part("imei", 15))
             w3 == When("imsie" \in o.flags, Part("imsi", 16))
             w4 == When("lngce" \in o.flags, Part("lngc", 3))
             w5 == When("nide" \in o.flags, Part("nid", 3))
             w6 == When("bse" \in o.flags, Part("bs", 2))
             v1 == IF "hdide" \in o.flags THEN 2 ELSE 0
             v2 == IF "imeie" \in o.flags THEN 15 ELSE 0
             v3 == IF "imsie" \in o.flags THEN 16 ELSE 0
             v4 == IF "lngce" \in o.flags THEN 3 ELSE 0
             v5 == IF "nide" \in o.flags THEN 3 ELSE 0
             v6 == IF "bse" \in o.flags THEN 2 ELSE 0
  <2>1. /\ Makes(Part("hdid", 2), 2)
        /\ Makes(Part("imei", 15), 15)
        /\ Makes(Part("imsi", 16), 16)
        /\ Makes(Part("lngc", 3), 3)
        /\ Makes(Part("nid", 3), 3)
        /\ Makes(Part("bs", 2), 2)
    BY <1>1, MakesRules DEF Names
  <2>2. /\ Makes(w1, v1)
        /\ Makes(w2, v2)
        /\ Makes(w3, v3)
        /\ Makes(w4, v4)
        /\ Makes(w5, v5)
        /\ Makes(w6, v6)
    BY <2>1, MakesRules DEF When
  <2> HIDE DEF w1, v1, w2, v2, w3, v3, w4, v4, w5, v5, w6, v6
  <2>3. Makes(w1 \o w2 \o w3 \o w4 \o w5 \o w6, v1 + v2 + v3 + v4 + v5 + v6)
    BY <2>2, MakesRules
  <2> QED
    BY <2>3 DEF w1, v1, w2, v2, w3, v3, w4, v4, w5, v5, w6, v6
<1>5. TermParts(o) = p1 \o p2 \o p3
  BY DEF TermParts, TermFields
<1>6. TermSize(o) = 5 + n2 + n3 /\ TermSize(o) \in 5 .. 61 /\ TermSize(o) \in Nat
  BY DEF TermSize, Sure
<1> HIDE DEF p1, p2, p3, n2, n3
<1>7. Makes(p1 \o p2 \o p3, 5 + n2 + n3)
  BY <1>2, <1>3, <1>4, MakesRules
<1> QED
  BY <1>5, <1>6, <1>7

(* An axis of TInsAccel takes 4 bytes at most. *)
LEMMA Axes ==
  ASSUME NEW o, IsObject(o), o.class = "TInsAccel"
  PROVE  AxisSize(o, 1) \in 0 .. 4 /\ AxisSize(o, 2) \in 0 .. 4 /\ AxisSize(o, 3) \in 0 .. 4
<1>1. \A i \in 1 .. Len(o.list) : o.list[i].size \in Nat
  BY ObjectHas
<1>2. Len(o.list) = 3
  BY ObjectHas
<1>3. \A i \in 1 .. 3 : o.list[i].size \in Nat
  BY <1>1, <1>2
<1>4. \A i \in 1 .. 3 : AxisSize(o, i) \in 0 .. 4
  BY <1>3 DEF AxisSize, Least
<1> QED
  BY <1>4

LEMMA TTermIdent_Writes ==
  ASSUME NEW o, IsObject(o), o.class = "TTermIdent"
  PROVE  /\ Full(o)
         /\ Makes(GetData(o).parts,
                  TermSize(o))
<1>1. TermSize(o) \in Nat
  BY ObjectHas, TermPartsMade
<1> DEFINE p1 == TermParts(o)
           n1 == TermSize(o)
<1>g1. Makes(p1, n1)
  BY TermPartsMade
<1>4. GetData(o) = TTermIdent_GetData(o)
  BY DEF GetData
<1>5. TTermIdent_GetData(o).parts = p1
  BY DEF TTermIdent_GetData, Wrote
<1>6. TTermIdent_GetData(o).size = U16(n1)
  BY <1>1 DEF TTermIdent_GetData, Wrote, Sure
<1> HIDE DEF p1, n1
<1>7. Makes(p1, n1)
  BY <1>1, <1>g1
<1>8. Full(o)
  BY <1>4, <1>5, <1>6, <1>7 DEF Full, Makes
<1> QED
  BY <1>4, <1>5, <1>7, <1>8 DEF n1

LEMMA TTermIdent2_Writes ==
  ASSUME NEW o, IsObject(o), o.class = "TTermIdent2"
  PROVE  /\ Full(o)
         /\ Makes(GetData(o).parts,
                  TermSize(o) + 1 + (IF "icce" \in o.flags THEN 19 ELSE 0))
<1>1. TermSize(o) \in Nat
  BY ObjectHas, TermPartsMade
<1> DEFINE p1 == TermParts(o)
           p2 == Part("flags", 1)
           p3 == When("icce" \in o.flags, Part("iccid", 19))
           n1 == TermSize(o)
           n2 == 1
           n3 == IF "icce" \in o.flags THEN 19 ELSE 0
<1>2. /\ Makes(Part("flags", 1), 1)
      /\ Makes(Part("iccid", 19), 19)
  BY <1>1, MakesRules DEF Names
<1>g1. Makes(p1, n1)
  BY TermPartsMade
<1>3. /\ Makes(p2, n2)
      /\ Makes(p3, n3)
  BY <1>1, <1>2, MakesRules DEF When
<1>4. GetData(o) = TTermIdent2_GetData(o)
  BY DEF GetData
<1>5. TTermIdent2_GetData(o).parts = p1 \o p2 \o p3
  BY DEF TTermIdent2_GetData, Wrote
<1>6. TTermIdent2_GetData(o).size = U16(n1 + n2 + n3)
  BY <1>1 DEF TTermIdent2_GetData, Wrote, Sure
<1> HIDE DEF p1, p2, p3, n1, n2, n3
<1>7. Makes(p1 \o p2 \o p3, n1 + n2 + n3)
  BY <1>3, <1>g1, MakesRules
<1>8. Full(o)
  BY <1>4, <1>5, <1>6, <1>7 DEF Full, Makes
<1> QED
  BY <1>4, <1>5, <1>7, <1>8 DEF n1, n2, n3

LEMMA TExtPosData_Writes ==
  ASSUME NEW o, IsObject(o), o.class = "TExtPosData"
  PROVE  /\ Full(o)
         /\ Makes(GetData(o).parts,
                  1 + ((IF "vfe" \in o.flags THEN 2 ELSE 0) + (IF "hfe" \in o.flags THEN 2 ELSE 0)
                   + (IF "pfe" \in o.flags THEN 2 ELSE 0) + (IF "sfe" \in o.flags THEN 1 ELSE 0)
                   + (IF "nsfe" \in ExtFlags(o) THEN 2 ELSE 0)))
<1>1. TRUE
  BY ObjectHas
<1> DEFINE p1 == Part("flags", 1)
           p2 == When("vfe" \in o.flags, Part("vdop", 2)) \o When("hfe" \in o.flags, Part("hdop", 2))
                     \o When("pfe" \in o.flags, Part("pdop", 2)) \o When("sfe" \in o.flags, Part("sat", 1))
                     \o When("nsfe" \in ExtFlags(o), Part("ns", 2))
           n1 == 1
           n2 == (IF "vfe" \in o.flags THEN 2 ELSE 0) + (IF "hfe" \in o.flags THEN 2 ELSE 0)
                     + (IF "pfe" \in o.flags THEN 2 ELSE 0) + (IF "sfe" \in o.flags THEN 1 ELSE 0)
                     + (IF "nsfe" \in ExtFlags(o) THEN 2 ELSE 0)
<1>2. /\ Makes(Part("flags", 1), 1)
  BY <1>1, MakesRules DEF Names
<1>g2. Makes(p2, n2)
  <2> DEFINE w1 == When("vfe" \in o.flags, Part("vdop", 2))
             w2 == When("hfe" \in o.flags, Part("hdop", 2))
             w3 == When("pfe" \in o.flags, Part("pdop", 2))
             w4 == When("sfe" \in o.flags, Part("sat", 1))
             w5 == When("nsfe" \in ExtFlags(o), Part("ns", 2))
             v1 == IF "vfe" \in o.flags THEN 2 ELSE 0
             v2 == IF "hfe" \in o.flags THEN 2 ELSE 0
             v3 == IF "pfe" \in o.flags THEN 2 ELSE 0
             v4 == IF "sfe" \in o.flags THEN 1 ELSE 0
             v5 == IF "nsfe" \in ExtFlags(o) THEN 2 ELSE 0
  <2>1. /\ Makes(Part("vdop", 2), 2)
        /\ Makes(Part("hdop", 2), 2)
        /\ Makes(Part("pdop", 2), 2)
        /\ Makes(Part("sat", 1), 1)
        /\ Makes(Part("ns", 2), 2)
    BY <1>1, MakesRules DEF Names
  <2>2. /\ Makes(w1, v1)
        /\ Makes(w2, v2)
        /\ Makes(w3, v3)
        /\ Makes(w4, v4)
        /\ Makes(w5, v5)
    BY <2>1, MakesRules DEF When
  <2> HIDE DEF w1, v1, w2, v2, w3, v3, w4, v4, w5, v5
  <2>3. Makes(w1 \o w2 \o w3 \o w4 \o w5, v1 + v2 + v3 + v4 + v5)
    BY <2>2, MakesRules
  <2> QED
    BY <2>3 DEF w1, v1, w2, v2, w3, v3, w4, v4, w5, v5
<1>3. /\ Makes(p1, n1)
  BY <1>1, <1>2, MakesRules DEF When
<1>4. GetData(o) = TExtPosData_GetData(o)
  BY DEF GetData
<1>5. TExtPosData_GetData(o).parts = p1 \o p2
  BY DEF TExtPosData_GetData, Wrote, ExtFields, ExtSize
<1>6. TExtPosData_GetData(o).size = U16(n1 + n2)
  BY <1>1 DEF TExtPosData_GetData, Wrote, Sure, ExtFields, ExtSize
<1> HIDE DEF p1, p2, n1, n2
<1>7. Makes(p1 \o p2, n1 + n2)
  BY <1>3, <1>g2, MakesRules
<1>8. Full(o)
  BY <1>4, <1>5, <1>6, <1>7 DEF Full, Makes
<1> QED
  BY <1>4, <1>5, <1>7, <1>8 DEF n1, n2

LEMMA TAdSensors_Writes ==
  ASSUME NEW o, IsObject(o), o.class = "TAdSensors"
  PROVE  /\ Full(o)
         /\ Makes(GetData(o).parts,
                  3 + (1 * BitCnt(o, "din")) + (3 * BitCnt(o, "ain")))
<1>1. BitCnt(o, "din") \in Nat /\ BitCnt(o, "ain") \in Nat
  BY ObjectHas, BitsFew
<1> DEFINE p1 == Part("head", 3)
           p2 == FlattenSeq([ i \in 1 .. 8 |-> When(Bit(o, "din", i - 1), NthPart("din", i - 1, 1)) ])
           p3 == FlattenSeq([ i \in 1 .. 8 |-> When(Bit(o, "ain", i - 1), NthPart("ain", i - 1, 3)) ])
           n1 == 3
           n2 == 1 * BitCnt(o, "din")
           n3 == 3 * BitCnt(o, "ain")
<1>2. /\ Makes(Part("head", 3), 3)
  BY <1>1, MakesRules DEF Names
<1>g2. Makes(p2, n2)
  BY BitsMade DEF Names
<1>g3. Makes(p3, n3)
  BY BitsMade DEF Names
<1>3. /\ Makes(p1, n1)
  BY <1>1, <1>2, MakesRules DEF When
<1>4. GetData(o) = TAdSensors_GetData(o)
  BY DEF GetData
<1>5. TAdSensors_GetData(o).parts = p1 \o p2 \o p3
  BY DEF TAdSensors_GetData, Wrote, EachBit
<1>6. TAdSensors_GetData(o).size = U16(n1 + n2 + n3)
  BY <1>1 DEF TAdSensors_GetData, Wrote, Sure, EachBit
<1> HIDE DEF p1, p2, p3, n1, n2, n3
<1>7. Makes(p1 \o p2 \o p3, n1 + n2 + n3)
  BY <1>3, <1>g2, <1>g3, MakesRules
<1>8. Full(o)
  BY <1>4, <1>5, <1>6, <1>7 DEF Full, Makes
<1> QED
  BY <1>4, <1>5, <1>7, <1>8 DEF n1, n2, n3

LEMMA TCounters_Writes ==
  ASSUME NEW o, IsObject(o), o.class = "TCounters"
  PROVE  /\ Full(o)
         /\ Makes(GetData(o).parts,
                  1 + (3 * BitCnt(o, "cnt")))
<1>1. BitCnt(o, "cnt") \in Nat
  BY ObjectHas, BitsFew
<1> DEFINE p1 == Part("flags", 1)
           p2 == FlattenSeq([ i \in 1 .. 8 |-> When(Bit(o, "cnt", i - 1), NthPart("cnt", i - 1, 3)) ])
           n1 == 1
           n2 == 3 * BitCnt(o, "cnt")
<1>2. /\ Makes(Part("flags", 1), 1)
  BY <1>1, MakesRules DEF Names
<1>g2. Makes(p2, n2)
  BY BitsMade DEF Names
<1>3. /\ Makes(p1, n1)
  BY <1>1, <1>2, MakesRules DEF When
<1>4. GetData(o) = TCounters_GetData(o)
  BY DEF GetData
<1>5. TCounters_GetData(o).parts = p1 \o p2
  BY DEF TCounters_GetData, Wrote, EachBit
<1>6. TCounters_GetData(o).size = U16(n1 + n2)
  BY <1>1 DEF TCounters_GetData, Wrote, Sure, EachBit
<1> HIDE DEF p1, p2, n1, n2
<1>7. Makes(p1 \o p2, n1 + n2)
  BY <1>3, <1>g2, MakesRules
<1>8. Full(o)
  BY <1>4, <1>5, <1>6, <1>7 DEF Full, Makes
<1> QED
  BY <1>4, <1>5, <1>7, <1>8 DEF n1, n2

LEMMA TPassengers_Writes ==
  ASSUME NEW o, IsObject(o), o.class = "TPassengers"
  PROVE  /\ Full(o)
         /\ Makes(GetData(o).parts,
                  5 + (2 * Len(o.list)))
<1>1. Len(o.list) \in Nat /\ DOMAIN o.list = 1 .. Len(o.list)
      /\ \A i \in 1 .. Len(o.list) : o.list[i].id \in Nat
  BY ObjectHas
<1> DEFINE p1 == Part("head", 5)
           p2 == FlattenSeq([ i \in DOMAIN o.list |-> NthPart("door", o.list[i].id, 2) ])
           n1 == 5
           n2 == 2 * Len(o.list)
<1>2. /\ Makes(Part("head", 5), 5)
  BY <1>1, MakesRules DEF Names
<1>g2. Makes(p2, n2)
  <2> DEFINE q == [ i \in DOMAIN o.list |-> NthPart("door", o.list[i].id, 2) ]
             z == [ i \in 1 .. Len(o.list) |-> 2 ]
  <2>1. \A i \in 1 .. Len(o.list) : Makes(q[i], z[i])
    <3> SUFFICES ASSUME NEW i \in 1 .. Len(o.list)
                 PROVE  Makes(NthPart("door", o.list[i].id, 2), 2)
      BY <1>1
    <3>1. i \in Nat /\ o.list[i].id \in Nat
      BY <1>1
    <3>2. /\ Makes(NthPart("door", o.list[i].id, 2), 2)
      BY <3>1, MakesRules DEF Names
    <3> QED
      BY <3>1, <3>2, MakesRules DEF When, Sure
  <2>2. Len(o.list) \in Nat /\ DOMAIN q = 1 .. Len(o.list) /\ q = [ i \in 1 .. Len(o.list) |-> q[i] ]
        /\ z = [ i \in 1 .. Len(o.list) |-> z[i] ]
    BY <1>1
  <2> HIDE DEF q, z
  <2>3. Makes(FlattenSeq(q), Total(z)) /\ z \in Seq(Nat) /\ Len(z) = Len(o.list)
    BY <2>1, <2>2, EachMade, Zenon
  <2>4. Total(z) = 2 * Len(o.list)
    <3>1. \A i \in 1 .. Len(o.list) : z[i] = 2
      BY DEF z
    <3> QED
      BY <2>3, <3>1, TotalOfEqual
  <2> QED
    BY <1>1, <2>3, <2>4 DEF q
<1>3. /\ Makes(p1, n1)
  BY <1>1, <1>2, MakesRules DEF When
<1>4. GetData(o) = TPassengers_GetData(o)
  BY DEF GetData
<1>5. TPassengers_GetData(o).parts = p1 \o p2
  BY DEF TPassengers_GetData, Wrote, Each
<1>6. TPassengers_GetData(o).size = U16(n1 + n2)
  BY <1>1 DEF TPassengers_GetData, Wrote, Sure, Each
<1> HIDE DEF p1, p2, n1, n2
<1>7. Makes(p1 \o p2, n1 + n2)
  BY <1>3, <1>g2, MakesRules
<1>8. Full(o)
  BY <1>4, <1>5, <1>6, <1>7 DEF Full, Makes
<1> QED
  BY <1>4, <1>5, <1>7, <1>8 DEF n1, n2

LEMMA TPosData_Writes ==
  ASSUME NEW o, IsObject(o), o.class = "TPosData"
  PROVE  /\ GetData(o).size = U16(21 + 3 * Sure("alte" \in o.flags) + 2 * Src(o))
         /\ Makes(GetData(o).parts,
                  21 + (IF "alte" \in o.flags THEN 3 ELSE 0) + (IF Src(o) > 0 THEN 2 ELSE 0))
<1>1. Src(o) \in Nat /\ Src(o) <= 255
  BY ObjectHas DEF Src
<1> DEFINE p1 == Part("body", 21)
           p2 == When("alte" \in o.flags, Part("alt", 3))
           p3 == When(Src(o) > 0, Part("srcd", 2))
           n1 == 21
           n2 == IF "alte" \in o.flags THEN 3 ELSE 0
           n3 == IF Src(o) > 0 THEN 2 ELSE 0
<1>2. /\ Makes(Part("body", 21), 21)
      /\ Makes(Part("alt", 3), 3)
      /\ Makes(Part("srcd", 2), 2)
  BY <1>1, MakesRules DEF Names
<1>3. /\ Makes(p1, n1)
      /\ Makes(p2, n2)
      /\ Makes(p3, n3)
  BY <1>1, <1>2, MakesRules DEF When
<1>4. GetData(o) = TPosData_GetData(o)
  BY DEF GetData
<1>5. TPosData_GetData(o).parts = p1 \o p2 \o p3
  BY DEF TPosData_GetData, Wrote
<1>6. TPosData_GetData(o).size = U16(21 + 3 * Sure("alte" \in o.flags) + 2 * Src(o))
  BY <1>1 DEF TPosData_GetData, Wrote, Sure
<1> HIDE DEF p1, p2, p3, n1, n2, n3
<1>7. Makes(p1 \o p2 \o p3, n1 + n2 + n3)
  BY <1>3, MakesRules
<1> QED
  BY <1>4, <1>5, <1>7, <1>6 DEF n1, n2, n3

LEMMA TInsAccel_Writes ==
  ASSUME NEW o, IsObject(o), o.class = "TInsAccel"
  PROVE  /\ GetData(o).size = U16(((U16(Bytes(GetData(o).parts)) + 3) \div 4) * 4)
         /\ Makes(GetData(o).parts,
                  4 + (IF "first" \in o.flags THEN 16 ELSE 0) + 2
                   + (IF Packed(o) THEN AxisSize(o, 1) + AxisSize(o, 2) + AxisSize(o, 3) ELSE 0)
                   + (IF o.var > 0 THEN o.var ELSE 0))
<1>1. o.var \in Nat /\ AxisSize(o, 1) \in 0 .. 4 /\ AxisSize(o, 2) \in 0 .. 4 /\ AxisSize(o, 3) \in 0 .. 4
  BY ObjectHas, Axes
<1> DEFINE p1 == Part("head", 4)
           p2 == When("first" \in o.flags, Part("body", 16))
           p3 == Part("dl", 2)
           p4 == When(Packed(o), Part("x", AxisSize(o, 1)) \o Part("y", AxisSize(o, 2))
                     \o Part("z", AxisSize(o, 3)))
           p5 == When(o.var > 0, Part("xyz_data", o.var))
           n1 == 4
           n2 == IF "first" \in o.flags THEN 16 ELSE 0
           n3 == 2
           n4 == IF Packed(o) THEN AxisSize(o, 1) + AxisSize(o, 2) + AxisSize(o, 3) ELSE 0
           n5 == IF o.var > 0 THEN o.var ELSE 0
<1>2. /\ Makes(Part("head", 4), 4)
      /\ Makes(Part("body", 16), 16)
      /\ Makes(Part("dl", 2), 2)
      /\ Makes(Part("x", AxisSize(o, 1)), AxisSize(o, 1))
      /\ Makes(Part("y", AxisSize(o, 2)), AxisSize(o, 2))
      /\ Makes(Part("z", AxisSize(o, 3)), AxisSize(o, 3))
      /\ Makes(Part("xyz_data", o.var), o.var)
  BY <1>1, MakesRules DEF Names
<1>3. /\ Makes(p1, n1)
      /\ Makes(p2, n2)
      /\ Makes(p3, n3)
      /\ Makes(p4, n4)
      /\ Makes(p5, n5)
  BY <1>1, <1>2, MakesRules DEF When
<1>4. GetData(o) = TInsAccel_GetData(o)
  BY DEF GetData
<1>5. TInsAccel_GetData(o).parts = p1 \o p2 \o p3 \o p4 \o p5
  BY DEF TInsAccel_GetData, Wrote
<1>6. TInsAccel_GetData(o).size = U16(((U16(n1 + n2 + n3 + n4 + n5) + 3) \div 4) * 4)
  BY <1>1 DEF TInsAccel_GetData, Wrote, Sure, Calibration
<1> HIDE DEF p1, p2, p3, p4, p5, n1, n2, n3, n4, n5
<1>7. Makes(p1 \o p2 \o p3 \o p4 \o p5, n1 + n2 + n3 + n4 + n5)
  BY <1>3, MakesRules
<1> QED
  BY <1>4, <1>5, <1>7, <1>6 DEF n1, n2, n3, n4, n5, Makes

(* Lists of equal parts or items. *)
LEMMA SameMade ==
  ASSUME NEW m \in Nat, NEW c \in Nat, NEW f \in Names
  PROVE  Makes(FlattenSeq([ i \in 1 .. m |-> NthPart(f, i, c) ]), c * m)
<1> DEFINE q == [ i \in 1 .. m |-> NthPart(f, i, c) ]
           z == [ i \in 1 .. m |-> c ]
<1>1. \A i \in 1 .. m : Makes(q[i], z[i])
  BY MakesRules
<1>2. DOMAIN q = 1 .. m /\ q = [ i \in 1 .. m |-> q[i] ] /\ z = [ i \in 1 .. m |-> z[i] ]
  OBVIOUS
<1>3. \A i \in 1 .. m : z[i] = c
  OBVIOUS
<1> HIDE DEF q, z
<1>4. Makes(FlattenSeq(q), Total(z)) /\ z \in Seq(Nat) /\ Len(z) = m
  BY <1>1, <1>2, EachMade, Zenon
<1>5. Total(z) = c * m
  BY <1>3, <1>4, TotalOfEqual
<1> QED
  BY <1>4, <1>5 DEF q

(* As many equal items, checked, *)
LEMMA SameRead ==
  ASSUME NEW m \in Nat, NEW c \in Nat, NEW f \in Names
  PROVE  Exact(FlattenSeq([ i \in 1 .. m |-> NthRead(f, i, c) ]), c * m)
<1> DEFINE q == [ i \in 1 .. m |-> NthRead(f, i, c) ]
           z == [ i \in 1 .. m |-> c ]
<1>1. \A i \in 1 .. m : Smooth(q[i], z[i])
  BY SmoothRules
<1>2. DOMAIN q = 1 .. m /\ q = [ i \in 1 .. m |-> q[i] ] /\ z = [ i \in 1 .. m |-> z[i] ]
  OBVIOUS
<1>3. \A i \in 1 .. m : z[i] = c
  OBVIOUS
<1> HIDE DEF q, z
<1>4. Smooth(FlattenSeq(q), Total(z)) /\ z \in Seq(Nat) /\ Len(z) = m
  BY <1>1, <1>2, EachSmooth, Zenon
<1>5. Total(z) = c * m
  BY <1>3, <1>4, TotalOfEqual
<1> QED
  BY <1>4, <1>5, SmoothRules DEF q

(* and unchecked: the events of TEPMainData, of which a byte each is kept. *)
LEMMA SameCalm ==
  ASSUME NEW m \in Nat, NEW f \in Names
  PROVE  Calm(FlattenSeq([ i \in 1 .. m |->
                << [ field |-> f, nth |-> i, need |-> 0, keep |-> 1, skip |-> 4 ] >> ]), 4 * m)
<1> DEFINE r(i) == [ field |-> f, nth |-> i, need |-> 0, keep |-> 1, skip |-> 4 ]
           q == [ i \in 1 .. m |-> << r(i) >> ]
<1>1. \A i \in 1 .. m : r(i) \in ItemSet /\ r(i) \in Lean \cap Modest /\ r(i).skip = 4
  BY DEF ItemSet, Lean, Modest
<1> HIDE DEF r
<1>2. \A i \in 1 .. m : q[i] \in Items(Lean \cap Modest) /\ Skipped(q[i]) = 4
  BY <1>1, OneItem
<1>3. q \in [1 .. m -> Items(Lean \cap Modest)]
  BY <1>2
<1>4. DOMAIN q = 1 .. m
  OBVIOUS
<1> HIDE DEF q
<1>5. q \in Seq(Items(Lean \cap Modest)) /\ Len(q) = m
  BY <1>3, Listed
<1>6. /\ FlattenSeq(q) \in Items(Lean \cap Modest)
      /\ Skipped(FlattenSeq(q)) = Total([ i \in DOMAIN q |-> Skipped(q[i]) ])
  BY <1>5, FlatItems, Zenon
<1> DEFINE z == [ i \in 1 .. m |-> 4 ]
<1>7. [ i \in DOMAIN q |-> Skipped(q[i]) ] = z
  BY <1>2, <1>4
<1>8. \A i \in 1 .. m : z[i] = 4
  OBVIOUS
<1>9. z \in [1 .. m -> Nat]
  OBVIOUS
<1> HIDE DEF z
<1>10. z \in Seq(Nat) /\ Len(z) = m
  BY <1>9, Listed
<1>11. Total(z) = 4 * m
  BY <1>8, <1>10, TotalOfEqual
<1>12. Calm(FlattenSeq(q), 4 * m)
  BY <1>6, <1>7, <1>11 DEF Calm
<1> QED
  BY <1>12 DEF q, r

(* The three numbers of TEPMainData; only the one of the stations is cut to its bits. *)
LEMMA Numbers ==
  ASSUME NEW o, IsObject(o), o.class = "TEPMainData"
  PROVE  /\ Stations(o) \in Nat /\ Lbsn(o) \in Nat /\ Epevc(o) \in Nat /\ Lbsn(o) <= Stations(o)
         /\ Stations(o) < Capacity["station"] => Lbsn(o) = Stations(o)
         /\ Stations(o) >= Capacity["station"] => Lbsn(o) < Stations(o)
<1>1. o.list[1].size \in Nat /\ o.list[2].size \in Nat
  BY ObjectHas
<1>2. Capacity["station"] \in Nat \ {0} /\ Capacity["event"] \in Nat \ {0}
  BY CapacityAssumption DEF Counters
<1> QED
  BY <1>1, <1>2, CountModulo DEF Stations, Lbsn, Epevc

LEMMA TEPMainData_Writes ==
  ASSUME NEW o, IsObject(o), o.class = "TEPMainData"
  PROVE  /\ GetData(o).size = U16(17 + 13 * Sure("locp" \in o.flags) + 10 * Lbsn(o)
             + (IF Epevc(o) > 0 THEN 1 + 4 * Epevc(o) ELSE 0))
         /\ Makes(GetData(o).parts,
                  17 + (IF "locp" \in o.flags THEN 13 ELSE 0) + (10 * Stations(o))
                   + (IF Epevc(o) > 0 THEN 1 ELSE 0) + (4 * Epevc(o)))
<1>1. Stations(o) \in Nat /\ Epevc(o) \in Nat /\ Lbsn(o) \in Nat
  BY ObjectHas, Numbers
<1> DEFINE p1 == Part("head", 17)
           p2 == When("locp" \in o.flags, Part("location", 13))
           p3 == FlattenSeq([ i \in 1 .. Stations(o) |-> NthPart("station", i, 10) ])
           p4 == When(Epevc(o) > 0, Part("epevc", 1))
           p5 == FlattenSeq([ i \in 1 .. Epevc(o) |-> NthPart("event", i, 4) ])
           n1 == 17
           n2 == IF "locp" \in o.flags THEN 13 ELSE 0
           n3 == 10 * Stations(o)
           n4 == IF Epevc(o) > 0 THEN 1 ELSE 0
           n5 == 4 * Epevc(o)
<1>2. /\ Makes(Part("head", 17), 17)
      /\ Makes(Part("location", 13), 13)
      /\ Makes(Part("epevc", 1), 1)
  BY <1>1, MakesRules DEF Names
<1>g3. Makes(p3, n3)
  BY <1>1, SameMade DEF Names
<1>g5. Makes(p5, n5)
  BY <1>1, SameMade DEF Names
<1>3. /\ Makes(p1, n1)
      /\ Makes(p2, n2)
      /\ Makes(p4, n4)
  BY <1>1, <1>2, MakesRules DEF When
<1>4. GetData(o) = TEPMainData_GetData(o)
  BY DEF GetData
<1>5. TEPMainData_GetData(o).parts = p1 \o p2 \o p3 \o p4 \o p5
  BY DEF TEPMainData_GetData, Wrote
<1>6. TEPMainData_GetData(o).size = U16(17 + 13 * Sure("locp" \in o.flags) + 10 * Lbsn(o)
          + (IF Epevc(o) > 0 THEN 1 + 4 * Epevc(o) ELSE 0))
  BY <1>1 DEF TEPMainData_GetData, Wrote, Sure
<1> HIDE DEF p1, p2, p3, p4, p5, n1, n2, n3, n4, n5
<1>7. Makes(p1 \o p2 \o p3 \o p4 \o p5, n1 + n2 + n3 + n4 + n5)
  BY <1>3, <1>g3, <1>g5, MakesRules
<1> QED
  BY <1>4, <1>5, <1>7, <1>6 DEF n1, n2, n3, n4, n5

LEMMA TEPAccelData3_Reads ==
  ASSUME NEW o, IsObject(o), o.class = "TEPAccelData3", NEW n \in Nat
  PROVE  /\ SetSRD(o, n).whole = FALSE
         /\ Exact(SetSRD(o, n).items,
                  15 + (Total([ i \in 1 .. (Len(o.list) % Capacity["ad"]) |-> 1
                      + 6 * Sure("rst" \notin o.list[i].flags) ])))
<1>1. /\ DOMAIN Counted(o.list, "ad") = 1 .. (Len(o.list) % Capacity["ad"])
      /\ Len(o.list) % Capacity["ad"] \in Nat
      /\ \A i \in 1 .. (Len(o.list) % Capacity["ad"]) : o.list[i].size \in Nat
  BY ObjectHas, CountedList DEF Counters
<1> DEFINE q1 == Read("head", 15)
           q2 == FlattenSeq([ i \in DOMAIN Counted(o.list, "ad") |-> NthRead("ad.head", i, 1)
                     \o When("rst" \notin o.list[i].flags, NthRead("ads", i, 6)) ])
           k1 == 15
           k2 == Total([ i \in 1 .. (Len(o.list) % Capacity["ad"]) |-> 1
                     + 6 * Sure("rst" \notin o.list[i].flags) ])
<1>2. /\ Exact(Read("head", 15), 15)
  BY <1>1, ExactRules DEF Names
<1>g2. Exact(q2, k2)
  <2> DEFINE q == [ i \in DOMAIN Counted(o.list, "ad") |-> NthRead("ad.head", i, 1)
                      \o When("rst" \notin o.list[i].flags, NthRead("ads", i, 6)) ]
             z == [ i \in 1 .. (Len(o.list) % Capacity["ad"]) |-> 1 + 6 * Sure("rst" \notin o.list[i].flags) ]
  <2>1. \A i \in 1 .. (Len(o.list) % Capacity["ad"]) : Smooth(q[i], z[i])
    <3> SUFFICES ASSUME NEW i \in 1 .. (Len(o.list) % Capacity["ad"])
                 PROVE  Smooth(NthRead("ad.head", i, 1)
                            \o When("rst" \notin o.list[i].flags, NthRead("ads", i, 6)), 1
                            + 6 * Sure("rst" \notin o.list[i].flags))
      BY <1>1
    <3>1. i \in Nat /\ o.list[i].size \in Nat
      BY <1>1
    <3>2. /\ Smooth(NthRead("ad.head", i, 1), 1)
          /\ Smooth(NthRead("ads", i, 6), 6)
      BY <3>1, SmoothRules DEF Names
    <3> DEFINE w1 == NthRead("ad.head", i, 1)
               w2 == When("rst" \notin o.list[i].flags, NthRead("ads", i, 6))
               v1 == 1
               v2 == 6 * Sure("rst" \notin o.list[i].flags)
    <3>3. Smooth(w1, v1)
      BY <3>1, <3>2, SmoothRules DEF When, Sure
    <3>4. Smooth(w2, v2)
      BY <3>1, <3>2, SmoothRules DEF When, Sure
    <3> HIDE DEF w1, v1, w2, v2
    <3>5. Smooth(w1 \o w2, v1 + v2)
      BY <3>3, <3>4, SmoothRules
    <3> QED
      BY <3>5 DEF w1, v1, w2, v2
  <2>2. Len(o.list) % Capacity["ad"] \in Nat
            /\ DOMAIN q = 1 .. (Len(o.list) % Capacity["ad"])
            /\ q = [ i \in 1 .. (Len(o.list) % Capacity["ad"]) |-> q[i] ]
        /\ z = [ i \in 1 .. (Len(o.list) % Capacity["ad"]) |-> z[i] ]
    BY <1>1
  <2> HIDE DEF q, z
  <2>3. Smooth(FlattenSeq(q), Total(z)) /\ z \in Seq(Nat) /\ Len(z) = Len(o.list) % Capacity["ad"]
    BY <2>1, <2>2, EachSmooth, Zenon
  <2> QED
    BY <2>3, SmoothRules DEF q, z
<1>3. /\ Exact(q1, k1)
  BY <1>1, <1>2, ExactRules DEF When
<1>4. SetSRD(o, n) = TEPAccelData3_SetSRD(o, n)
  BY DEF SetSRD
<1>5. TEPAccelData3_SetSRD(o, n).items = q1 \o q2 /\ TEPAccelData3_SetSRD(o, n).whole = FALSE
  BY DEF TEPAccelData3_SetSRD, Reads, Each
<1> HIDE DEF q1, q2, k1, k2
<1>6. Exact(q1 \o q2, k1 + k2)
  BY <1>1, <1>3, <1>g2, ExactRules
<1> QED
  BY <1>4, <1>5, <1>6 DEF k1, k2

LEMMA TEPTrackData_Reads ==
  ASSUME NEW o, IsObject(o), o.class = "TEPTrackData", NEW n \in Nat
  PROVE  /\ SetSRD(o, n).whole = FALSE
         /\ Exact(SetSRD(o, n).items,
                  8 + (IF "tde" \in o.flags THEN 12 ELSE 0)
                      + (Total([ i \in 1 .. (Len(o.list) % Capacity["rt"]) |-> 1
                      + 5 * Sure("rst" \in o.list[i].flags)
                      + Sure("rst" \in o.list[i].flags /\ "spde" \in o.list[i].flags)
                      + Sure("rst" \in o.list[i].flags /\ "alte" \in o.list[i].flags) ])))
<1>1. /\ DOMAIN Counted(o.list, "rt") = 1 .. (Len(o.list) % Capacity["rt"])
      /\ Len(o.list) % Capacity["rt"] \in Nat
      /\ \A i \in 1 .. (Len(o.list) % Capacity["rt"]) : o.list[i].size \in Nat
  BY ObjectHas, CountedList DEF Counters
<1> DEFINE q1 == Read("head", 8)
           q2 == When("tde" \in o.flags, Read("tds", 12))
           q3 == FlattenSeq([ i \in DOMAIN Counted(o.list, "rt") |-> NthRead("rt.head", i, 1)
                     \o When("rst" \in o.list[i].flags, NthRead("rt.body", i, 5))
                     \o When("rst" \in o.list[i].flags /\ "spde" \in o.list[i].flags, NthRead("rt.spdl", i,
                     1)) \o When("rst" \in o.list[i].flags /\ "alte" \in o.list[i].flags,
                     NthRead("rt.alt", i, 1)) ])
           k1 == 8
           k2 == IF "tde" \in o.flags THEN 12 ELSE 0
           k3 == Total([ i \in 1 .. (Len(o.list) % Capacity["rt"]) |-> 1
                     + 5 * Sure("rst" \in o.list[i].flags)
                     + Sure("rst" \in o.list[i].flags /\ "spde" \in o.list[i].flags)
                     + Sure("rst" \in o.list[i].flags /\ "alte" \in o.list[i].flags) ])
<1>2. /\ Exact(Read("head", 8), 8)
      /\ Exact(Read("tds", 12), 12)
  BY <1>1, ExactRules DEF Names
<1>g3. Exact(q3, k3)
  <2> DEFINE q == [ i \in DOMAIN Counted(o.list, "rt") |-> NthRead("rt.head", i, 1)
                      \o When("rst" \in o.list[i].flags, NthRead("rt.body", i, 5))
                      \o When("rst" \in o.list[i].flags /\ "spde" \in o.list[i].flags,
                      NthRead("rt.spdl", i, 1))
                      \o When("rst" \in o.list[i].flags /\ "alte" \in o.list[i].flags, NthRead("rt.alt", i,
                      1)) ]
             z == [ i \in 1 .. (Len(o.list) % Capacity["rt"]) |-> 1 + 5 * Sure("rst" \in o.list[i].flags)
                      + Sure("rst" \in o.list[i].flags /\ "spde" \in o.list[i].flags)
                      + Sure("rst" \in o.list[i].flags /\ "alte" \in o.list[i].flags) ]
  <2>1. \A i \in 1 .. (Len(o.list) % Capacity["rt"]) : Smooth(q[i], z[i])
    <3> SUFFICES ASSUME NEW i \in 1 .. (Len(o.list) % Capacity["rt"])
                 PROVE  Smooth(NthRead("rt.head", i, 1)
                            \o When("rst" \in o.list[i].flags, NthRead("rt.body", i, 5))
                            \o When("rst" \in o.list[i].flags /\ "spde" \in o.list[i].flags,
                            NthRead("rt.spdl", i, 1))
                            \o When("rst" \in o.list[i].flags /\ "alte" \in o.list[i].flags,
                            NthRead("rt.alt", i, 1)), 1 + 5 * Sure("rst" \in o.list[i].flags)
                            + Sure("rst" \in o.list[i].flags /\ "spde" \in o.list[i].flags)
                            + Sure("rst" \in o.list[i].flags /\ "alte" \in o.list[i].flags))
      BY <1>1
    <3>1. i \in Nat /\ o.list[i].size \in Nat
      BY <1>1
    <3>2. /\ Smooth(NthRead("rt.head", i, 1), 1)
          /\ Smooth(NthRead("rt.body", i, 5), 5)
          /\ Smooth(NthRead("rt.spdl", i, 1), 1)
          /\ Smooth(NthRead("rt.alt", i, 1), 1)
      BY <3>1, SmoothRules DEF Names
    <3> DEFINE w1 == NthRead("rt.head", i, 1)
               w2 == When("rst" \in o.list[i].flags, NthRead("rt.body", i, 5))
               w3 == When("rst" \in o.list[i].flags /\ "spde" \in o.list[i].flags, NthRead("rt.spdl", i, 1))
               w4 == When("rst" \in o.list[i].flags /\ "alte" \in o.list[i].flags, NthRead("rt.alt", i, 1))
               v1 == 1
               v2 == 5 * Sure("rst" \in o.list[i].flags)
               v3 == Sure("rst" \in o.list[i].flags /\ "spde" \in o.list[i].flags)
               v4 == Sure("rst" \in o.list[i].flags /\ "alte" \in o.list[i].flags)
    <3>3. Smooth(w1, v1)
      BY <3>1, <3>2, SmoothRules DEF When, Sure
    <3>4. Smooth(w2, v2)
      BY <3>1, <3>2, SmoothRules DEF When, Sure
    <3>5. Smooth(w3, v3)
      BY <3>1, <3>2, SmoothRules DEF When, Sure
    <3>6. Smooth(w4, v4)
      BY <3>1, <3>2, SmoothRules DEF When, Sure
    <3> HIDE DEF w1, v1, w2, v2, w3, v3, w4, v4
    <3>7. Smooth(w1 \o w2 \o w3 \o w4, v1 + v2 + v3 + v4)
      BY <3>3, <3>4, <3>5, <3>6, SmoothRules
    <3> QED
      BY <3>7 DEF w1, v1, w2, v2, w3, v3, w4, v4
  <2>2. Len(o.list) % Capacity["rt"] \in Nat
            /\ DOMAIN q = 1 .. (Len(o.list) % Capacity["rt"])
            /\ q = [ i \in 1 .. (Len(o.list) % Capacity["rt"]) |-> q[i] ]
        /\ z = [ i \in 1 .. (Len(o.list) % Capacity["rt"]) |-> z[i] ]
    BY <1>1
  <2> HIDE DEF q, z
  <2>3. Smooth(FlattenSeq(q), Total(z)) /\ z \in Seq(Nat) /\ Len(z) = Len(o.list) % Capacity["rt"]
    BY <2>1, <2>2, EachSmooth, Zenon
  <2> QED
    BY <2>3, SmoothRules DEF q, z
<1>3. /\ Exact(q1, k1)
      /\ Exact(q2, k2)
  BY <1>1, <1>2, ExactRules DEF When
<1>4. SetSRD(o, n) = TEPTrackData_SetSRD(o, n)
  BY DEF SetSRD
<1>5. TEPTrackData_SetSRD(o, n).items = q1 \o q2 \o q3 /\ TEPTrackData_SetSRD(o, n).whole = FALSE
  BY DEF TEPTrackData_SetSRD, Reads, Each
<1> HIDE DEF q1, q2, q3, k1, k2, k3
<1>6. Exact(q1 \o q2 \o q3, k1 + k2 + k3)
  BY <1>1, <1>3, <1>g3, ExactRules
<1> QED
  BY <1>4, <1>5, <1>6 DEF k1, k2, k3

(* The classes of one part and one item of a fixed size. *)
LEMMA Body_Lays ==
  ASSUME NEW o, IsObject(o), o.class \in DOMAIN BodySize, NEW n \in Nat
  PROVE  /\ Full(o) /\ Makes(GetData(o).parts, BodySize[o.class])
         /\ SetSRD(o, n).whole = FALSE /\ Exact(SetSRD(o, n).items, BodySize[o.class])
         /\ BodySize[o.class] \in 1 .. 25
<1>1. o.class \in {"TRecResp", "TAuthParams", "TServiceInfo", "TVehicleData", "TResultCode",
                   "TStateData"}
  BY DEF BodySize
<1>2. GetData(o) = Body_GetData(o) /\ SetSRD(o, n) = Body_SetSRD(o, n)
  BY <1>1 DEF GetData, SetSRD
<1> DEFINE size == BodySize[o.class]
<1>3. size \in 1 .. 25
  BY <1>1 DEF BodySize
<1>4. /\ Body_GetData(o).parts = Part("body", size) /\ Body_GetData(o).size = U16(size)
      /\ Body_SetSRD(o, n).items = Read("body", size) /\ Body_SetSRD(o, n).whole = FALSE
  BY DEF Body_GetData, Body_SetSRD, Wrote, Reads
<1> HIDE DEF size
<1>5. Makes(Part("body", size), size) /\ Exact(Read("body", size), size)
  <2>1. size \in Nat /\ "body" \in Names
    BY <1>3 DEF Names
  <2> QED
    BY <2>1, MakesRules, ExactRules
<1>6. Full(o) /\ Makes(GetData(o).parts, size)
  BY <1>2, <1>4, <1>5 DEF Full, Makes
<1> QED
  BY <1>2, <1>3, <1>4, <1>5, <1>6 DEF size

LEMMA TEPSignature_Reads ==
  ASSUME NEW o, IsObject(o), o.class = "TEPSignature", NEW n \in Nat
  PROVE  /\ SetSRD(o, n).whole = FALSE
         /\ Exact(SetSRD(o, n).items,
                  2 + Total([ i \in 1 .. (Len(o.list) % Capacity["sd"]) |-> 9 + o.list[i].size ]))
<1> DEFINE item(i) == IF o.list[i].size = 0
                      THEN << [ field |-> "sd.head", nth |-> i, need |-> 9, keep |-> 0, skip |-> 9 ] >>
                      ELSE NthRead("sd.head", i, 9) \o NthRead("sd", i, o.list[i].size)
           m == Len(o.list) % Capacity["sd"]
           q == [ i \in DOMAIN Counted(o.list, "sd") |-> item(i) ]
           z == [ i \in 1 .. m |-> 9 + o.list[i].size ]
<1>1. /\ DOMAIN Counted(o.list, "sd") = 1 .. m /\ m \in Nat
      /\ \A i \in 1 .. m : o.list[i].size \in Nat
  BY ObjectHas, CountedList DEF Counters
<1>2. \A i \in 1 .. m : Smooth(q[i], z[i])
  <2> SUFFICES ASSUME NEW i \in 1 .. m
               PROVE  Smooth(item(i), 9 + o.list[i].size)
    BY <1>1
  <2>1. i \in Nat /\ o.list[i].size \in Nat
    BY <1>1
  <2>2. /\ Smooth(NthRead("sd.head", i, 9), 9)
        /\ Smooth(NthRead("sd", i, o.list[i].size), o.list[i].size)
        /\ Smooth(<< [ field |-> "sd.head", nth |-> i, need |-> 9, keep |-> 0, skip |-> 9 ] >>, 9)
    BY <2>1, SmoothRules DEF Names
  <2>3. o.list[i].size = 0 => 9 + o.list[i].size = 9
    OBVIOUS
  <2> QED
    BY <2>2, <2>3, SmoothRules
<1>3. DOMAIN q = 1 .. m /\ q = [ i \in 1 .. m |-> q[i] ] /\ z = [ i \in 1 .. m |-> z[i] ]
  BY <1>1
<1>4. /\ TEPSignature_SetSRD(o, n).items
           = Check(2) \o Read("ver", 1) \o Read("sa", 1) \o FlattenSeq(q)
      /\ TEPSignature_SetSRD(o, n).whole = FALSE
  BY DEF TEPSignature_SetSRD, Reads, Each
<1> HIDE DEF q, z, m
<1>5. Smooth(FlattenSeq(q), Total(z))
  BY <1>1, <1>2, <1>3, EachSmooth, Zenon
<1>6. Exact(Read("ver", 1), 1) /\ Exact(Read("sa", 1), 1)
  BY ExactRules DEF Names
<1>7. Ahead(Check(2) \o Read("ver", 1), 0 + 1, 2 - 1)
  <2>1. 2 \in Nat /\ 1 <= 2
    OBVIOUS
  <2>2. Ahead(Check(2), 0, 2)
    BY <2>1, AheadOfNothing, Zenon
  <2> QED
    BY <1>6, <2>1, <2>2, AheadExact, Zenon
<1>8. Exact(Check(2) \o Read("ver", 1) \o Read("sa", 1), 2)
  <2>1. Ahead(Check(2) \o Read("ver", 1), 1, 1) /\ 1 <= 1
    BY <1>7
  <2>2. Exact(Check(2) \o Read("ver", 1) \o Read("sa", 1), 1 + 1)
    BY <1>6, <2>1, AheadExact, Zenon
  <2> QED
    BY <2>2
<1>9. Exact(Check(2) \o Read("ver", 1) \o Read("sa", 1) \o FlattenSeq(q), 2 + Total(z))
  BY <1>5, <1>8, SmoothRules, ExactRules
<1>10. SetSRD(o, n) = TEPSignature_SetSRD(o, n)
  BY DEF SetSRD
<1> QED
  BY <1>4, <1>9, <1>10 DEF z, m

LEMMA TEPMainData_Reads ==
  ASSUME NEW o, IsObject(o), o.class = "TEPMainData", NEW n \in Nat
  PROVE  /\ SetSRD(o, n).whole = FALSE
         /\ Exact(SetSRD(o, n).items,
                  17 + (IF "locp" \in o.flags THEN 13 ELSE 0) + 10 * Lbsn(o)
                    + (IF Epevc(o) > 0 THEN 1 + 4 * Epevc(o) ELSE 0))
<1>1. Lbsn(o) \in Nat /\ Epevc(o) \in Nat
  BY Numbers
<1> DEFINE l == Lbsn(o)
           e == Epevc(o)
           q1 == Read("head", 17)
           q2 == When("locp" \in o.flags, Read("location", 13))
           q3 == When(l > 0, Check(10 * l))
           q4 == FlattenSeq([ i \in 1 .. l |-> NthRead("station", i, 10) ])
           q5 == When(e > 0, Read("epevc", 1) \o Check(4 * e))
           q6 == FlattenSeq([ i \in 1 .. e |->
                   << [ field |-> "event", nth |-> i, need |-> 0, keep |-> 1, skip |-> 4 ] >> ])
           k2 == IF "locp" \in o.flags THEN 13 ELSE 0
           k5 == IF e > 0 THEN 1 ELSE 0
<1>2. Exact(q1, 17) /\ Exact(q4, 10 * l) /\ Calm(q6, 4 * e)
  BY <1>1, ExactRules, SameRead, SameCalm DEF Names
<1>3. Exact(q2, k2) /\ k2 \in Nat
  <2>1. Exact(Read("location", 13), 13)
    BY ExactRules DEF Names
  <2> QED
    BY <2>1, ExactRules DEF When
<1>4. ASSUME NEW s, NEW k, Exact(s, k)
      PROVE  Ahead(s \o q3, k, 10 * l)
  <2>1. CASE l > 0
    <3>1. q3 = Check(10 * l) /\ 10 * l \in Nat
      BY <1>1, <2>1 DEF When
    <3>2. Ahead(s \o Check(10 * l), k, 10 * l)
      BY <1>4, <3>1, AheadBy, Zenon
    <3> QED
      BY <3>1, <3>2
  <2>2. CASE ~(l > 0)
    <3>1. 10 * l = 0 /\ q3 = << >> /\ k + 0 = k
      BY <1>1, <1>4, <2>2 DEF When, Exact
    <3>2. Exact(s \o << >>, k + 0)
      BY <1>4, ExactRules
    <3>3. Exact(s \o q3, k)
      BY <3>1, <3>2
    <3>4. Ahead(s \o q3, k, 0)
      BY <3>3, ExactIsAhead, Zenon
    <3> QED
      BY <3>1, <3>4
  <2> QED
    BY <2>1, <2>2
<1>5. ASSUME NEW s, NEW k, Exact(s, k)
      PROVE  Ahead(s \o q5, k + k5, 4 * e)
  <2>1. CASE e > 0
    <3>1. Exact(Read("epevc", 1), 1) /\ 4 * e \in Nat
      BY <1>1, ExactRules DEF Names
    <3>2. Ahead(Read("epevc", 1) \o Check(4 * e), 1, 4 * e)
      BY <3>1, AheadBy, Zenon
    <3>3. q5 = Read("epevc", 1) \o Check(4 * e) /\ k5 = 1
      BY <2>1 DEF When
    <3>4. /\ q5 \in Seq(ItemSet) /\ Skipped(q5) = 1
          /\ \A a, i \in Nat : a <= i => InsideAt(q5, a, i) /\ (PassesAt(q5, a, i) <=> a + 1 + 4 * e <= i)
      BY <3>2, <3>3 DEF Ahead
    <3>5. Ahead(s, k, 0) /\ 1 \in Nat /\ 0 <= 1 + 4 * e
      BY <1>5, <3>1, ExactIsAhead
    <3>6. \A a, i \in Nat : a + 0 <= i => InsideAt(q5, a, i) /\ (PassesAt(q5, a, i) <=> a + 1 + 4 * e <= i)
      BY <3>4
    <3> HIDE DEF q5
    <3>7. Ahead(s \o q5, k + 1, 4 * e)
      BY <3>1, <3>4, <3>5, <3>6, AheadBoth, Zenon
    <3> QED
      BY <3>3, <3>7
  <2>2. CASE ~(e > 0)
    <3>1. 4 * e = 0 /\ q5 = << >> /\ k5 = 0
      BY <1>1, <2>2 DEF When
    <3>2. Exact(s \o << >>, k + 0)
      BY <1>5, ExactRules
    <3>3. Exact(s \o q5, k + k5)
      BY <3>1, <3>2
    <3>4. Ahead(s \o q5, k + k5, 0)
      BY <3>3, ExactIsAhead, Zenon
    <3> QED
      BY <3>1, <3>4
  <2> QED
    BY <2>1, <2>2
<1>6. SetSRD(o, n) = TEPMainData_SetSRD(o, n)
  BY DEF SetSRD
<1>7. /\ TEPMainData_SetSRD(o, n).items = q1 \o q2 \o q3 \o q4 \o q5 \o q6
      /\ TEPMainData_SetSRD(o, n).whole = FALSE
  BY DEF TEPMainData_SetSRD, Reads
<1>8. l \in Nat /\ e \in Nat /\ k5 \in Nat /\ 10 * l \in Nat /\ 4 * e \in Nat
  BY <1>1
<1> HIDE DEF q1, q2, q3, q4, q5, q6, k2, k5
<1>9. Exact(q1 \o q2, 17 + k2)
  BY <1>2, <1>3, ExactRules
<1>10. Ahead(q1 \o q2 \o q3, 17 + k2, 10 * l)
  BY <1>4, <1>9
<1>11. Exact(q1 \o q2 \o q3 \o q4, 17 + k2 + 10 * l)
  <2>1. 10 * l <= 10 * l
    BY <1>8
  <2> QED
    BY <1>2, <1>10, <2>1, AheadExact, Zenon
<1>12. Ahead(q1 \o q2 \o q3 \o q4 \o q5, 17 + k2 + 10 * l + k5, 4 * e)
  BY <1>5, <1>11
<1>13. Ahead(q1 \o q2 \o q3 \o q4 \o q5 \o q6, 17 + k2 + 10 * l + k5 + 4 * e, 4 * e - 4 * e)
  <2>1. 4 * e <= 4 * e
    BY <1>8
  <2> QED
    BY <1>2, <1>12, <2>1, AheadCalm, Zenon
<1>14. /\ 4 * e - 4 * e = 0
       /\ 17 + k2 + 10 * l + k5 + 4 * e = 17 + k2 + 10 * l + (IF e > 0 THEN 1 + 4 * e ELSE 0)
  BY <1>1, <1>3 DEF k5
<1>15. Exact(q1 \o q2 \o q3 \o q4 \o q5 \o q6, 17 + k2 + 10 * l + (IF e > 0 THEN 1 + 4 * e ELSE 0))
  BY <1>13, <1>14, ExactIsAhead
<1> QED
  BY <1>6, <1>7, <1>15 DEF k2

(* What TTermIdent reads; TTermIdent2 begins with it. *)
LEMMA TermItemsExact ==
  ASSUME NEW o, IsObject(o)
  PROVE  Exact(TermItems(o), TermSize(o))
<1> DEFINE q1 == Read("head", 5)
           c  == TermSize(o) - 5
           q3 == When("hdide" \in o.flags, Loose("hdid", 2, 2))
                     \o When("imeie" \in o.flags, Loose("imei", 15, 15))
                     \o When("imsie" \in o.flags, Loose("imsi", 16, 16))
                     \o When("lngce" \in o.flags, Loose("lngc", 3, 3))
                     \o When("nide" \in o.flags, Loose("nid", 3, 3))
                     \o When("bse" \in o.flags, Loose("bs", 2, 2))
           q4 == When("mne" \in o.flags, Loose("msisdn", 0, 15))
           k3 == (IF "hdide" \in o.flags THEN 2 ELSE 0) + (IF "imeie" \in o.flags THEN 15 ELSE 0)
                     + (IF "imsie" \in o.flags THEN 16 ELSE 0) + (IF "lngce" \in o.flags THEN 3 ELSE 0)
                     + (IF "nide" \in o.flags THEN 3 ELSE 0) + (IF "bse" \in o.flags THEN 2 ELSE 0)
           k4 == IF "mne" \in o.flags THEN 15 ELSE 0
<1>1. TermSize(o) \in 5 .. 61 /\ c \in Nat
  BY TermPartsMade
<1>2. Exact(q1, 5) /\ Calm(Loose("msisdn", 0, 15), 15)
  BY ExactRules, CalmRules DEF Names
<1>3. Calm(q3, k3)
  <2> DEFINE w1 == When("hdide" \in o.flags, Loose("hdid", 2, 2))
             w2 == When("imeie" \in o.flags, Loose("imei", 15, 15))
             w3 == When("imsie" \in o.flags, Loose("imsi", 16, 16))
             w4 == When("lngce" \in o.flags, Loose("lngc", 3, 3))
             w5 == When("nide" \in o.flags, Loose("nid", 3, 3))
             w6 == When("bse" \in o.flags, Loose("bs", 2, 2))
             v1 == IF "hdide" \in o.flags THEN 2 ELSE 0
             v2 == IF "imeie" \in o.flags THEN 15 ELSE 0
             v3 == IF "imsie" \in o.flags THEN 16 ELSE 0
             v4 == IF "lngce" \in o.flags THEN 3 ELSE 0
             v5 == IF "nide" \in o.flags THEN 3 ELSE 0
             v6 == IF "bse" \in o.flags THEN 2 ELSE 0
  <2>1. /\ Calm(Loose("hdid", 2, 2), 2)
        /\ Calm(Loose("imei", 15, 15), 15)
        /\ Calm(Loose("imsi", 16, 16), 16)
        /\ Calm(Loose("lngc", 3, 3), 3)
        /\ Calm(Loose("nid", 3, 3), 3)
        /\ Calm(Loose("bs", 2, 2), 2)
    BY <1>1, CalmRules DEF Names
  <2>2. /\ Calm(w1, v1)
        /\ Calm(w2, v2)
        /\ Calm(w3, v3)
        /\ Calm(w4, v4)
        /\ Calm(w5, v5)
        /\ Calm(w6, v6)
    BY <2>1, CalmRules DEF When
  <2> HIDE DEF w1, v1, w2, v2, w3, v3, w4, v4, w5, v5, w6, v6
  <2>3. Calm(w1 \o w2 \o w3 \o w4 \o w5 \o w6, v1 + v2 + v3 + v4 + v5 + v6)
    BY <2>2, CalmRules
  <2> QED
    BY <2>3 DEF w1, v1, w2, v2, w3, v3, w4, v4, w5, v5, w6, v6
<1>4. Calm(q4, k4)
  BY <1>2, CalmRules DEF When
<1>5. TermItems(o) = q1 \o Check(c) \o q3 \o q4
  BY DEF TermItems, TermFields
<1>6. c = k3 + k4 /\ k3 \in Nat /\ k4 \in Nat
  BY DEF TermSize, Sure
<1> HIDE DEF q1, q3, q4, c, k3, k4
<1>7. Ahead(q1 \o Check(c), 5, c)
  BY <1>1, <1>2, AheadBy, Zenon
<1>11. k3 <= c /\ k4 <= c - k3
  BY <1>6
<1>8. Ahead(q1 \o Check(c) \o q3, 5 + k3, c - k3)
  BY <1>3, <1>7, <1>11, AheadCalm, Zenon
<1>9. Ahead(q1 \o Check(c) \o q3 \o q4, 5 + k3 + k4, c - k3 - k4)
  BY <1>4, <1>8, <1>11, AheadCalm, Zenon
<1>10. 5 + k3 + k4 = TermSize(o) /\ c - k3 - k4 = 0
  BY <1>1, <1>6 DEF c
<1> QED
  BY <1>5, <1>9, <1>10, ExactIsAhead

LEMMA TTermIdent_Reads ==
  ASSUME NEW o, IsObject(o), o.class = "TTermIdent", NEW n \in Nat
  PROVE  SetSRD(o, n).whole = FALSE /\ Exact(SetSRD(o, n).items, TermSize(o))
<1>1. SetSRD(o, n) = TTermIdent_SetSRD(o, n)
  BY DEF SetSRD
<1> QED
  BY <1>1, TermItemsExact DEF TTermIdent_SetSRD, Reads

LEMMA TAdSensors_Reads ==
  ASSUME NEW o, IsObject(o), o.class = "TAdSensors", NEW n \in Nat
  PROVE  SetSRD(o, n).whole = FALSE /\ Exact(SetSRD(o, n).items, 3 + BitCnt(o, "din") + 3 * BitCnt(o, "ain"))
<1>1. BitCnt(o, "din") \in Nat /\ BitCnt(o, "ain") \in Nat
  BY ObjectHas, BitsFew
<1> DEFINE q1 == Read("head", 3)
           c  == BitCnt(o, "din") + BitCnt(o, "ain") * 3
           q2 == FlattenSeq([ i \in 1 .. 8 |-> When(Bit(o, "din", i - 1), NthRead("din", i - 1, 1)) ])
           q3 == FlattenSeq([ i \in 1 .. 8 |-> When(Bit(o, "ain", i - 1), NthRead("ain", i - 1, 3)) ])
           k2 == 1 * BitCnt(o, "din")
           k3 == 3 * BitCnt(o, "ain")
<1>2. Exact(q1, 3)
  BY ExactRules DEF Names
<1>g2. Exact(q2, k2)
  <2>1. "din" \in Names /\ 1 \in Nat
    BY DEF Names
  <2> QED
    BY <2>1, BitsRead, Zenon
<1>g3. Exact(q3, k3)
  <2>1. "ain" \in Names /\ 3 \in Nat
    BY DEF Names
  <2> QED
    BY <2>1, BitsRead, Zenon
<1>3. SetSRD(o, n) = TAdSensors_SetSRD(o, n)
  BY DEF SetSRD
<1>4. TAdSensors_SetSRD(o, n).items = q1 \o Check(c) \o q2 \o q3 /\ TAdSensors_SetSRD(o, n).whole = FALSE
  BY DEF TAdSensors_SetSRD, Reads, EachBit
<1>5. c = k2 + k3 /\ k2 \in Nat /\ k3 \in Nat /\ c \in Nat
  BY <1>1 DEF EachBit, Sure
<1> HIDE DEF q1, c, q2, k2, q3, k3
<1>6. Ahead(q1 \o Check(c), 3, c)
  BY <1>2, <1>5, AheadBy, Zenon
<1>7. Ahead(q1 \o Check(c) \o q2, 3 + k2, c - k2)
  <2>1. k2 <= c
    BY <1>5
  <2> QED
    BY <1>g2, <1>6, <2>1, AheadExact, Zenon
<1>8. Ahead(q1 \o Check(c) \o q2 \o q3, 3 + k2 + k3, c - k2 - k3)
  <2>1. k3 <= c - k2
    BY <1>5
  <2> QED
    BY <1>g3, <1>7, <2>1, AheadExact, Zenon
<1>9. c - k2 - k3 = 0
  BY <1>5
<1>10. Exact(q1 \o Check(c) \o q2 \o q3, 3 + k2 + k3)
  BY <1>8, <1>9, ExactIsAhead
<1>11. 3 + k2 + k3 = 3 + BitCnt(o, "din") + 3 * BitCnt(o, "ain")
  BY <1>1, <1>5 DEF k2, k3, c, EachBit, Sure
<1> QED
  BY <1>3, <1>4, <1>10, <1>11

LEMMA TCounters_Reads ==
  ASSUME NEW o, IsObject(o), o.class = "TCounters", NEW n \in Nat
  PROVE  SetSRD(o, n).whole = FALSE /\ Exact(SetSRD(o, n).items, 1 + 3 * BitCnt(o, "cnt"))
<1>1. BitCnt(o, "cnt") \in Nat
  BY ObjectHas, BitsFew
<1> DEFINE q1 == Read("flags", 1)
           c  == BitCnt(o, "cnt") * 3
           q2 == FlattenSeq([ i \in 1 .. 8 |-> When(Bit(o, "cnt", i - 1), NthRead("cnt", i - 1, 3)) ])
           k2 == 3 * BitCnt(o, "cnt")
<1>2. Exact(q1, 1)
  BY ExactRules DEF Names
<1>g2. Exact(q2, k2)
  <2>1. "cnt" \in Names /\ 3 \in Nat
    BY DEF Names
  <2> QED
    BY <2>1, BitsRead, Zenon
<1>3. SetSRD(o, n) = TCounters_SetSRD(o, n)
  BY DEF SetSRD
<1>4. TCounters_SetSRD(o, n).items = q1 \o Check(c) \o q2 /\ TCounters_SetSRD(o, n).whole = FALSE
  BY DEF TCounters_SetSRD, Reads, EachBit
<1>5. c = k2 /\ k2 \in Nat /\ c \in Nat
  BY <1>1 DEF EachBit, Sure
<1> HIDE DEF q1, c, q2, k2
<1>6. Ahead(q1 \o Check(c), 1, c)
  BY <1>2, <1>5, AheadBy, Zenon
<1>7. Ahead(q1 \o Check(c) \o q2, 1 + k2, c - k2)
  <2>1. k2 <= c
    BY <1>5
  <2> QED
    BY <1>g2, <1>6, <2>1, AheadExact, Zenon
<1>8. c - k2 = 0
  BY <1>5
<1>9. Exact(q1 \o Check(c) \o q2, 1 + k2)
  BY <1>7, <1>8, ExactIsAhead
<1>10. 1 + k2 = 1 + 3 * BitCnt(o, "cnt")
  BY <1>1, <1>5 DEF k2, c, EachBit, Sure
<1> QED
  BY <1>3, <1>4, <1>9, <1>10

LEMMA TPassengers_Reads ==
  ASSUME NEW o, IsObject(o), o.class = "TPassengers", NEW n \in Nat
  PROVE  SetSRD(o, n).whole = TRUE /\ Exact(SetSRD(o, n).items, 5 + 2 * BitCnt(o, "door"))
<1>1. BitCnt(o, "door") \in Nat
  BY ObjectHas, BitsFew
<1> DEFINE q1 == Read("head", 5)
           c  == BitCnt(o, "door") * 2
           q2 == FlattenSeq([ i \in 1 .. 8 |-> When(Bit(o, "door", i - 1), NthRead("door", i - 1, 2)) ])
           k2 == 2 * BitCnt(o, "door")
<1>2. Exact(q1, 5)
  BY ExactRules DEF Names
<1>g2. Exact(q2, k2)
  <2>1. "door" \in Names /\ 2 \in Nat
    BY DEF Names
  <2> QED
    BY <2>1, BitsRead, Zenon
<1>3. SetSRD(o, n) = TPassengers_SetSRD(o, n)
  BY DEF SetSRD
<1>4. TPassengers_SetSRD(o, n).items = q1 \o Check(c) \o q2 /\ TPassengers_SetSRD(o, n).whole = TRUE
  BY DEF TPassengers_SetSRD, ReadsAll, EachBit
<1>5. c = k2 /\ k2 \in Nat /\ c \in Nat
  BY <1>1 DEF EachBit, Sure
<1> HIDE DEF q1, c, q2, k2
<1>6. Ahead(q1 \o Check(c), 5, c)
  BY <1>2, <1>5, AheadBy, Zenon
<1>7. Ahead(q1 \o Check(c) \o q2, 5 + k2, c - k2)
  <2>1. k2 <= c
    BY <1>5
  <2> QED
    BY <1>g2, <1>6, <2>1, AheadExact, Zenon
<1>8. c - k2 = 0
  BY <1>5
<1>9. Exact(q1 \o Check(c) \o q2, 5 + k2)
  BY <1>7, <1>8, ExactIsAhead
<1>10. 5 + k2 = 5 + 2 * BitCnt(o, "door")
  BY <1>1, <1>5 DEF k2, c, EachBit, Sure
<1> QED
  BY <1>3, <1>4, <1>9, <1>10

LEMMA TExtPosData_Reads ==
  ASSUME NEW o, IsObject(o), o.class = "TExtPosData", NEW n \in Nat
  PROVE  SetSRD(o, n).whole = FALSE /\ Exact(SetSRD(o, n).items, ExtSize(o))
<1>1. TRUE
  BY ObjectHas
<1> DEFINE q1 == Read("flags", 1)
           c  == ExtSize(o) - 1
           q2 == When("vfe" \in o.flags, Read("vdop", 2)) \o When("hfe" \in o.flags, Read("hdop", 2))
                     \o When("pfe" \in o.flags, Read("pdop", 2)) \o When("sfe" \in o.flags, Read("sat", 1))
                     \o When("nsfe" \in ExtFlags(o), Read("ns", 2))
           k2 == (IF "vfe" \in o.flags THEN 2 ELSE 0) + (IF "hfe" \in o.flags THEN 2 ELSE 0)
                     + (IF "pfe" \in o.flags THEN 2 ELSE 0) + (IF "sfe" \in o.flags THEN 1 ELSE 0)
                     + (IF "nsfe" \in ExtFlags(o) THEN 2 ELSE 0)
<1>2. Exact(q1, 1)
  BY ExactRules DEF Names
<1>g2. Exact(q2, k2)
  <2> DEFINE w1 == When("vfe" \in o.flags, Read("vdop", 2))
             w2 == When("hfe" \in o.flags, Read("hdop", 2))
             w3 == When("pfe" \in o.flags, Read("pdop", 2))
             w4 == When("sfe" \in o.flags, Read("sat", 1))
             w5 == When("nsfe" \in ExtFlags(o), Read("ns", 2))
             v1 == IF "vfe" \in o.flags THEN 2 ELSE 0
             v2 == IF "hfe" \in o.flags THEN 2 ELSE 0
             v3 == IF "pfe" \in o.flags THEN 2 ELSE 0
             v4 == IF "sfe" \in o.flags THEN 1 ELSE 0
             v5 == IF "nsfe" \in ExtFlags(o) THEN 2 ELSE 0
  <2>1. /\ Exact(Read("vdop", 2), 2)
        /\ Exact(Read("hdop", 2), 2)
        /\ Exact(Read("pdop", 2), 2)
        /\ Exact(Read("sat", 1), 1)
        /\ Exact(Read("ns", 2), 2)
    BY <1>1, ExactRules DEF Names
  <2>2. /\ Exact(w1, v1)
        /\ Exact(w2, v2)
        /\ Exact(w3, v3)
        /\ Exact(w4, v4)
        /\ Exact(w5, v5)
    BY <2>1, ExactRules DEF When
  <2> HIDE DEF w1, v1, w2, v2, w3, v3, w4, v4, w5, v5
  <2>3. Exact(w1 \o w2 \o w3 \o w4 \o w5, v1 + v2 + v3 + v4 + v5)
    BY <2>2, ExactRules
  <2> QED
    BY <2>3 DEF w1, v1, w2, v2, w3, v3, w4, v4, w5, v5
<1>3. SetSRD(o, n) = TExtPosData_SetSRD(o, n)
  BY DEF SetSRD
<1>4. TExtPosData_SetSRD(o, n).items = q1 \o Check(c) \o q2 /\ TExtPosData_SetSRD(o, n).whole = FALSE
  BY DEF TExtPosData_SetSRD, Reads, ExtFields, ExtSize
<1>5. c = k2 /\ k2 \in Nat /\ c \in Nat
  BY <1>1 DEF ExtFields, ExtSize, Sure
<1> HIDE DEF q1, c, q2, k2
<1>6. Ahead(q1 \o Check(c), 1, c)
  BY <1>2, <1>5, AheadBy, Zenon
<1>7. Ahead(q1 \o Check(c) \o q2, 1 + k2, c - k2)
  <2>1. k2 <= c
    BY <1>5
  <2> QED
    BY <1>g2, <1>6, <2>1, AheadExact, Zenon
<1>8. c - k2 = 0
  BY <1>5
<1>9. Exact(q1 \o Check(c) \o q2, 1 + k2)
  BY <1>7, <1>8, ExactIsAhead
<1>10. 1 + k2 = ExtSize(o)
  BY <1>1, <1>5 DEF k2, c, ExtFields, ExtSize, Sure
<1> QED
  BY <1>3, <1>4, <1>9, <1>10
-----------------------------------------------------------------------------
(* The classes that look at how much is left.                              *)
(* Items that are read of n bytes from the first on: they move pos by k, *)
(* pass exactly if p <= n, and stay among the n bytes.                    *)
Stands(s, k, p, n) ==
  /\ s \in Seq(ItemSet) /\ k \in Nat /\ p \in Nat /\ Skipped(s) = k
  /\ InsideAt(s, 0, n) /\ (PassesAt(s, 0, n) <=> p <= n)

(* Items that are ahead, *)
LEMMA StandsAhead ==
  ASSUME NEW s, NEW k, NEW c, Ahead(s, k, c), NEW n \in Nat
  PROVE  Stands(s, k, k + c, n)
<1>1. 0 \in Nat /\ 0 <= n
  OBVIOUS
<1>2. s \in Seq(ItemSet) /\ k \in Nat /\ c \in Nat /\ Skipped(s) = k
  BY DEF Ahead
<1>3. InsideAt(s, 0, n) /\ (PassesAt(s, 0, n) <=> 0 + k + c <= n)
  BY <1>1 DEF Ahead
<1> QED
  BY <1>2, <1>3 DEF Stands

(* exact items, *)
LEMMA StandsExact ==
  ASSUME NEW s, NEW k, Exact(s, k), NEW n \in Nat
  PROVE  Stands(s, k, k, n)
<1>1. Ahead(s, k, 0) /\ k \in Nat
  BY ExactIsAhead DEF Exact
<1>2. Stands(s, k, k + 0, n)
  BY <1>1, StandsAhead, Zenon
<1> QED
  BY <1>1, <1>2

(* one unchecked item more, which keeps what the check in front of it saw, *)
LEMMA StandsLoose ==
  ASSUME NEW s, NEW k, NEW p, NEW n \in Nat, Stands(s, k, p, n),
         NEW f \in Names, NEW keep \in Nat, NEW skip \in Nat,
         p <= n /\ keep > 0 => k + keep <= n
  PROVE  Stands(s \o Loose(f, keep, skip), k + skip, p, n)
<1> DEFINE t == Loose(f, keep, skip)
<1>1. /\ t \in Items(Lean) /\ Skipped(t) = skip
      /\ Len(t) = 1 /\ t[1].need = 0 /\ t[1].keep = keep
  BY OneLoose
<1>2. t \in Seq(ItemSet) /\ 0 \in Nat
  BY <1>1, Kinds
<1>3. At(t, 0) = 0
  BY <1>2, AtDefined
<1> HIDE DEF t
<1>4. /\ s \in Seq(ItemSet) /\ k \in Nat /\ p \in Nat /\ Skipped(s) = k
      /\ InsideAt(s, 0, n) /\ (PassesAt(s, 0, n) <=> p <= n)
  BY DEF Stands
<1>5. /\ s \o t \in Seq(ItemSet)
      /\ Skipped(s \o t) = Skipped(s) + Skipped(t)
      /\ PassesAt(s \o t, 0, n) <=> PassesAt(s, 0, n) /\ PassesAt(t, 0 + Skipped(s), n)
      /\ InsideAt(s, 0, n) /\ (PassesAt(s, 0, n) => InsideAt(t, 0 + Skipped(s), n))
           => InsideAt(s \o t, 0, n)
  BY <1>2, <1>4, ItemsOfBoth, Zenon
<1>6. 0 + Skipped(s) = k /\ \A i \in 1 .. Len(t) : i = 1
  BY <1>1, <1>4
<1>7. PassesAt(t, k, n)
  BY <1>1, <1>6 DEF PassesAt, Fits
<1>8. p <= n => InsideAt(t, k, n)
  BY <1>1, <1>3, <1>4, <1>6 DEF InsideAt
<1>9. Stands(s \o t, k + skip, p, n)
  BY <1>1, <1>4, <1>5, <1>6, <1>7, <1>8 DEF Stands
<1> QED
  BY <1>9 DEF t

(* and one check more. *)
LEMMA StandsCheck ==
  ASSUME NEW s, NEW k, NEW p, NEW n \in Nat, Stands(s, k, p, n), NEW c \in Nat, c > 0, p <= k + c
  PROVE  Stands(s \o Check(c), k, k + c, n)
<1> DEFINE t == Check(c)
<1>1. /\ t \in Items(Guarded \cap Modest) /\ Skipped(t) = 0
      /\ Len(t) = 1 /\ t[1].need = c /\ t[1].keep = 0
  BY OneCheck
<1>2. t \in Seq(ItemSet) /\ 0 \in Nat
  BY <1>1 DEF Items
<1>3. At(t, 0) = 0
  BY <1>2, AtDefined
<1> HIDE DEF t
<1>4. /\ s \in Seq(ItemSet) /\ k \in Nat /\ p \in Nat /\ Skipped(s) = k
      /\ InsideAt(s, 0, n) /\ (PassesAt(s, 0, n) <=> p <= n)
  BY DEF Stands
<1>5. /\ s \o t \in Seq(ItemSet)
      /\ Skipped(s \o t) = Skipped(s) + Skipped(t)
      /\ PassesAt(s \o t, 0, n) <=> PassesAt(s, 0, n) /\ PassesAt(t, 0 + Skipped(s), n)
      /\ InsideAt(s, 0, n) /\ (PassesAt(s, 0, n) => InsideAt(t, 0 + Skipped(s), n))
           => InsideAt(s \o t, 0, n)
  BY <1>2, <1>4, ItemsOfBoth, Zenon
<1>6. 0 + Skipped(s) = k /\ \A i \in 1 .. Len(t) : i = 1
  BY <1>1, <1>4
<1>7. InsideAt(t, k, n)
  BY <1>1, <1>6 DEF InsideAt
<1>8. PassesAt(t, k, n) <=> k + c <= n
  BY <1>1, <1>3, <1>4, <1>6 DEF PassesAt, Fits
<1>9. PassesAt(s \o t, 0, n) <=> k + c <= n
  BY <1>4, <1>5, <1>6, <1>8
<1>10. Stands(s \o t, k, k + c, n)
  BY <1>1, <1>4, <1>5, <1>6, <1>7, <1>9 DEF Stands
<1> QED
  BY <1>10 DEF t

LEMMA TPosData_Reads ==
  ASSUME NEW o, IsObject(o), o.class = "TPosData", NEW n \in Nat
  PROVE  LET k == 21 + (IF "alte" \in o.flags THEN 3 ELSE 0)
         IN  SetSRD(o, n).whole = FALSE /\ Stands(SetSRD(o, n).items, k, k, n)
<1> DEFINE k2 == IF "alte" \in o.flags THEN 3 ELSE 0
           q1 == Read("body", 21)
           q2 == When("alte" \in o.flags, Read("alt", 3))
           t  == When(Rest(n, q1 \o q2) >= 2, Loose("srcd", 2, 0))
           k  == 21 + k2
<1>1. Exact(q1, 21) /\ Exact(Read("alt", 3), 3)
  BY ExactRules DEF Names
<1>2. Exact(q2, k2) /\ k2 \in Nat
  BY <1>1, ExactRules DEF When
<1>3. SetSRD(o, n) = TPosData_SetSRD(o, n)
  BY DEF SetSRD
<1>4. TPosData_SetSRD(o, n).items = q1 \o q2 \o t /\ TPosData_SetSRD(o, n).whole = FALSE
  BY DEF TPosData_SetSRD, Reads
<1> HIDE DEF q1, q2, k2
<1>5. Exact(q1 \o q2, k) /\ k \in Nat
  <2>1. Exact(q1 \o q2, 21 + k2)
    BY <1>1, <1>2, BothExact, Zenon
  <2> QED
    BY <1>2, <2>1
<1>6. Stands(q1 \o q2, k, k, n)
  BY <1>5, StandsExact
<1>7. Rest(n, q1 \o q2) = IF n > k THEN n - k ELSE 0
  BY <1>5 DEF Rest, Exact
<1> HIDE DEF k
<1>8. Stands(q1 \o q2 \o t, k, k, n)
  <2>1. CASE Rest(n, q1 \o q2) >= 2
    <3>1. t = Loose("srcd", 2, 0)
      BY <2>1 DEF When
    <3>2. /\ k + 2 <= n /\ 2 \in Nat /\ 0 \in Nat /\ "srcd" \in Names /\ k + 0 = k
          /\ k <= n /\ 2 > 0 => k + 2 <= n
      BY <1>5, <1>7, <2>1 DEF Names
    <3>3. Stands(q1 \o q2 \o Loose("srcd", 2, 0), k + 0, k, n)
      BY <1>6, <3>2, StandsLoose, Zenon
    <3> QED
      BY <3>1, <3>2, <3>3
  <2>2. CASE ~(Rest(n, q1 \o q2) >= 2)
    <3>1. t = << >>
      BY <2>2 DEF When
    <3>2. Exact(q1 \o q2 \o << >>, k + 0) /\ k + 0 = k
      BY <1>5, ExactRules
    <3>3. Exact(q1 \o q2 \o t, k)
      BY <3>1, <3>2
    <3> QED
      BY <3>3, StandsExact, Zenon
  <2> QED
    BY <2>1, <2>2
<1> QED
  BY <1>3, <1>4, <1>8 DEF k, k2

LEMMA TLiquidLevel_Reads ==
  ASSUME NEW o, IsObject(o), o.class = "TLiquidLevel", NEW n \in Nat
  PROVE  /\ SetSRD(o, n).whole = TRUE
         /\ n >= 4 => Stands(SetSRD(o, n).items, n, n, n)
         /\ n < 4 => Stands(SetSRD(o, n).items, 3, 4, n)
<1> DEFINE head == Read("head", 3)
           rest == Rest(n, head)
           t == Read("llcd", rest)
<1>1. Exact(head, 3)
  BY ExactRules DEF Names
<1>2. SetSRD(o, n) = TLiquidLevel_SetSRD(o, n)
  BY DEF SetSRD
<1>3. TLiquidLevel_SetSRD(o, n).items = Check(4) \o head \o t /\ TLiquidLevel_SetSRD(o, n).whole = TRUE
  BY DEF TLiquidLevel_SetSRD, ReadsAll
<1> HIDE DEF head
<1>4. rest = IF n > 3 THEN n - 3 ELSE 0
  BY <1>1 DEF Rest, Exact
<1> HIDE DEF rest
<1>5. Exact(t, rest)
  BY <1>4, ExactRules DEF Names
<1> HIDE DEF t
<1>6. Ahead(Check(4) \o head, 3, 1)
  <2>1. 4 \in Nat /\ 3 <= 4
    OBVIOUS
  <2>2. Ahead(Check(4), 0, 4)
    BY <2>1, AheadOfNothing, Zenon
  <2>3. Ahead(Check(4) \o head, 0 + 3, 4 - 3)
    BY <1>1, <2>1, <2>2, AheadExact, Zenon
  <2> QED
    BY <2>3
<1>7. ASSUME n >= 4
      PROVE  Stands(Check(4) \o head \o t, n, n, n)
  <2>1. 1 <= rest /\ 3 + rest = n
    BY <1>4, <1>7
  <2>2. Exact(Check(4) \o head \o t, 3 + rest)
    BY <1>5, <1>6, <2>1, AheadExact, Zenon
  <2>3. Stands(Check(4) \o head \o t, 3 + rest, 3 + rest, n)
    BY <2>2, StandsExact, Zenon
  <2> QED
    BY <2>1, <2>3
<1>8. ASSUME n < 4
      PROVE  Stands(Check(4) \o head \o t, 3, 4, n)
  <2>1. rest <= 1 /\ rest = 0
    BY <1>4, <1>8
  <2>2. Ahead(Check(4) \o head \o t, 3 + rest, 1 - rest)
    BY <1>5, <1>6, <2>1, AheadExact, Zenon
  <2>3. Ahead(Check(4) \o head \o t, 3, 1)
    BY <2>1, <2>2
  <2>4. Stands(Check(4) \o head \o t, 3, 3 + 1, n)
    BY <2>3, StandsAhead, Zenon
  <2> QED
    BY <2>4
<1> QED
  BY <1>2, <1>3, <1>7, <1>8

LEMMA TTermIdent2_Reads ==
  ASSUME NEW o, IsObject(o), o.class = "TTermIdent2", NEW n \in Nat
  PROVE  LET t == TermSize(o)
         IN  /\ SetSRD(o, n).whole = FALSE
             /\ Stands(SetSRD(o, n).items,
                       t + 1 + (IF n > t /\ "icce" \in o.flags THEN 19 ELSE 0), t, n)
<1> DEFINE t == TermSize(o)
           left == n - t
           a == Loose("flags", Sure(left > 0), 1)
           kept == IF left >= 20 THEN 19 ELSE 0
           b == When(left > 0 /\ "icce" \in o.flags, Loose("iccid", kept, 19))
           k == IF n > t /\ "icce" \in o.flags THEN 19 ELSE 0
<1>1. t \in Nat /\ Stands(TermItems(o), t, t, n)
  BY TermPartsMade, TermItemsExact, StandsExact
<1>2. SetSRD(o, n) = TTermIdent2_SetSRD(o, n)
  BY DEF SetSRD
<1>3. TTermIdent2_SetSRD(o, n).items = TermItems(o) \o a \o b /\ TTermIdent2_SetSRD(o, n).whole = FALSE
  BY DEF TTermIdent2_SetSRD, Reads
<1>4. Stands(TermItems(o) \o a, t + 1, t, n)
  <2>1. /\ Sure(left > 0) \in Nat /\ 1 \in Nat /\ "flags" \in Names
        /\ t <= n /\ Sure(left > 0) > 0 => t + Sure(left > 0) <= n
    BY <1>1 DEF Sure, Names
  <2> HIDE DEF t, left
  <2> QED
    BY <1>1, <2>1, StandsLoose, Zenon
<1>5. Stands(TermItems(o) \o a \o b, t + 1 + k, t, n)
  <2>1. CASE n > t /\ "icce" \in o.flags
    <3>1. b = Loose("iccid", kept, 19) /\ k = 19
      BY <1>1, <2>1 DEF When
    <3>2. /\ kept \in Nat /\ 19 \in Nat /\ "iccid" \in Names
          /\ t <= n /\ kept > 0 => t + 1 + kept <= n
      BY <1>1 DEF Names
    <3> HIDE DEF t, left, kept, a
    <3>3. Stands(TermItems(o) \o a \o Loose("iccid", kept, 19), t + 1 + 19, t, n)
      BY <1>4, <3>2, StandsLoose, Zenon
    <3> QED
      BY <3>1, <3>3
  <2>2. CASE ~(n > t /\ "icce" \in o.flags)
    <3>1. b = << >> /\ k = 0
      BY <1>1, <2>2 DEF When
    <3> HIDE DEF t, left, a, b
    <3>2. TermItems(o) \o a \in Seq(ItemSet) /\ t + 1 \in Nat
      BY <1>4 DEF Stands
    <3>3. (TermItems(o) \o a) \o << >> = TermItems(o) \o a /\ t + 1 + 0 = t + 1
      BY <3>2
    <3> QED
      BY <1>4, <3>1, <3>3
  <2> QED
    BY <2>1, <2>2
<1> QED
  BY <1>2, <1>3, <1>5

(* Cutting to 16 bits. *)
LEMMA U16Rules ==
  /\ MaxU16 \in Nat \ {0} /\ MaxU16 > 1000
  /\ \A k \in Nat : /\ U16(k) \in 0 .. MaxU16 - 1 /\ U16(k) <= k /\ U16(k) \in Nat
                    /\ k < MaxU16 => U16(k) = k
                    /\ k >= MaxU16 => U16(k) < k
<1>1. MaxU16 \in Nat \ {0} /\ MaxU16 > 1000
  BY DEF MaxU16
<1>2. ASSUME NEW k \in Nat
      PROVE  /\ U16(k) \in 0 .. MaxU16 - 1 /\ U16(k) <= k /\ U16(k) \in Nat
             /\ k < MaxU16 => U16(k) = k
             /\ k >= MaxU16 => U16(k) < k
  BY <1>1, CountModulo DEF U16
<1> QED
  BY <1>1, <1>2

(* Once around, *)
LEMMA Turned ==
  ASSUME NEW m \in Nat, NEW k \in 0 .. m - 1
  PROVE  (k + m) % m = k
OBVIOUS

(* and n - 1 in 16 bits. *)
LEMMA LastByte ==
  ASSUME NEW n \in 0 .. MaxU16 - 1
  PROVE  /\ U16(n - 1 + MaxU16) \in Nat
         /\ n > 0 => U16(n - 1 + MaxU16) = n - 1
<1>1. n - 1 + MaxU16 \in Nat /\ MaxU16 \in Nat
  BY U16Rules
<1>2. n > 0 => n - 1 \in 0 .. MaxU16 - 1
  BY U16Rules
<1>3. n > 0 => U16(n - 1 + MaxU16) = n - 1
  BY <1>1, <1>2, Turned DEF U16
<1> QED
  BY <1>1, <1>3, U16Rules

(* One unchecked item, one that may be left out, and calm items from the first byte on. *)
LEMMA CalmOne ==
  ASSUME NEW f \in Names, NEW k \in Nat, NEW n \in Nat, k <= n
  PROVE  Calm(Loose(f, k, n), n)
BY OneLoose DEF Calm

LEMMA CalmWhen ==
  ASSUME NEW f \in Names, NEW n \in Nat
  PROVE  Calm(When(n > 0, Loose(f, n, n)), n)
<1>1. CASE n > 0
  <2>1. When(n > 0, Loose(f, n, n)) = Loose(f, n, n)
    BY <1>1 DEF When
  <2>2. n <= n
    OBVIOUS
  <2> QED
    BY <2>1, <2>2, CalmOne
<1>2. CASE n = 0
  <2>1. When(n > 0, Loose(f, n, n)) = << >>
    BY <1>2 DEF When
  <2>2. Calm(<< >>, 0)
    BY NoItems DEF Calm
  <2> QED
    BY <1>2, <2>1, <2>2
<1> QED
  BY <1>1, <1>2

LEMMA CalmStands ==
  ASSUME NEW s, NEW n \in Nat, Calm(s, n)
  PROVE  Stands(s, n, 0, n)
<1>1. s \in Items(Lean \cap Modest) /\ Skipped(s) = n
  BY DEF Calm
<1>2. s \in Seq(ItemSet)
  BY <1>1 DEF Items
<1>3. 0 \in Nat /\ 0 + n <= n /\ 0 <= n
  OBVIOUS
<1>4. InsideAt(s, 0, n) /\ PassesAt(s, 0, n)
  BY <1>3, CalmPasses
<1> QED
  BY <1>1, <1>2, <1>3, <1>4 DEF Stands

LEMMA TECallRawMSD_Reads ==
  ASSUME NEW o, IsObject(o), o.class = "TECallRawMSD", NEW n \in 0 .. MaxU16 - 1
  PROVE  /\ SetSRD(o, n).whole = TRUE
         /\ n > 0 => Stands(SetSRD(o, n).items, n, 0, n)
         /\ SetSRD(o, n).items \in Seq(ItemSet)
<1> DEFINE rest == U16(n - 1 + MaxU16)
           q == Loose("fm", 1, 1)
           t == When(rest > 0, Loose("msd", rest, rest))
<1>1. rest \in Nat /\ (n > 0 => rest = n - 1)
  BY LastByte, Zenon
<1>2. SetSRD(o, n) = TECallRawMSD_SetSRD(o, n)
  BY DEF SetSRD
<1>3. SetSRD(o, n).items = q \o t /\ SetSRD(o, n).whole = TRUE
  <2>1. TECallRawMSD_SetSRD(o, n) = ReadsAll(q \o t)
    BY Zenon DEF TECallRawMSD_SetSRD
  <2> HIDE DEF rest, q, t
  <2> QED
    BY <1>2, <2>1 DEF ReadsAll
<1> HIDE DEF rest
<1>4. Calm(q, 1)
  <2>1. "fm" \in Names /\ 1 \in Nat /\ 1 <= 1
    BY DEF Names
  <2> QED
    BY <2>1, CalmOne
<1>5. Calm(t, rest)
  <2>1. "msd" \in Names
    BY DEF Names
  <2> QED
    BY <1>1, <2>1, CalmWhen
<1> HIDE DEF q, t
<1>6. Calm(q \o t, 1 + rest)
  <2>1. \A a, b, k, l : Calm(a, k) /\ Calm(b, l) => Calm(a \o b, k + l)
    BY CalmRules
  <2> QED
    BY <1>4, <1>5, <2>1, Zenon
<1>7. q \o t \in Seq(ItemSet)
  BY <1>6 DEF Calm, Items
<1>8. n > 0 => Calm(q \o t, n)
  BY <1>1, <1>6
<1>9. n > 0 => Stands(q \o t, n, 0, n)
  BY <1>8, CalmStands
<1> QED
  <2> HIDE DEF q, t
  <2> QED
    BY <1>3, <1>7, <1>9

(* One field, and one that may be left out. *)
LEMMA ExactOne ==
  ASSUME NEW f \in Names, NEW n \in Nat
  PROVE  Exact(Read(f, n), n)
BY ExactRules

LEMMA ExactIf ==
  ASSUME NEW b \in BOOLEAN, NEW s, NEW k, Exact(s, k)
  PROVE  Exact(When(b, s), IF b THEN k ELSE 0)
BY ExactRules DEF When

(* The bytes behind exact items. *)
LEMMA RestExact ==
  ASSUME NEW s, NEW k, Exact(s, k), NEW n \in Nat
  PROVE  Rest(n, s) = IF n > k THEN n - k ELSE 0
BY DEF Rest, Exact

(* A field of what is left. *)
LEMMA ExactLeft ==
  ASSUME NEW f \in Names, NEW r \in Nat, NEW m \in Nat, r = 0 => m = 0
  PROVE  Exact(When(r > 0, Read(f, m)), m)
<1>1. Exact(Read(f, m), m) /\ Exact(<< >>, 0)
  BY ExactRules
<1> QED
  BY <1>1 DEF When

(* Exact items use up what was seen to be there. *)
LEMMA AheadStep ==
  ASSUME NEW s, NEW k \in Nat, NEW c, NEW t, NEW d, Ahead(s, k, c), Exact(t, d),
         NEW r \in Nat, c = d + r
  PROVE  Ahead(s \o t, k + d, r)
<1>1. d \in Nat
  BY DEF Exact
<1>2. d <= c /\ c - d = r
  BY <1>1
<1>3. Ahead(s \o t, k + d, c - d)
  BY <1>2, AheadExact, Zenon
<1> QED
  BY <1>2, <1>3

LEMMA TECallMSD_Reads ==
  ASSUME NEW o, IsObject(o), o.class = "TECallMSD", NEW n \in Nat
  PROVE  /\ SetSRD(o, n).whole = FALSE
         /\ LET r1 == IF n > 34 THEN n - 34 ELSE 0
                k1 == Least(9, r1)
                r2 == IF n > 34 + k1 THEN n - (34 + k1) ELSE 0
            IN  Exact(SetSRD(o, n).items, 34 + k1 + Least(56, r2))
<1> DEFINE head == Read("head", 34)
           r1 == Rest(n, head)
           k1 == Least(9, r1)
           bf == When(r1 > 0, Read("bf", k1))
           r2 == Rest(n, head \o bf)
           k2 == Least(56, r2)
           last == When(r2 > 0, Read("additional", k2))
<1>1. SetSRD(o, n).items = head \o bf \o last /\ SetSRD(o, n).whole = FALSE
  <2>1. SetSRD(o, n) = TECallMSD_SetSRD(o, n)
    BY DEF SetSRD
  <2>2. TECallMSD_SetSRD(o, n) = Reads(head \o bf \o last)
    BY DEF TECallMSD_SetSRD
  <2> HIDE DEF head, bf, last
  <2> QED
    BY <2>1, <2>2 DEF Reads
<1>2. 34 \in Nat /\ "head" \in Names /\ "bf" \in Names /\ "additional" \in Names
  BY DEF Names
<1>3. Exact(head, 34)
  BY <1>2, ExactOne
<1> HIDE DEF head
<1>4. r1 = IF n > 34 THEN n - 34 ELSE 0
  BY <1>3, RestExact
<1>5. r1 \in Nat /\ k1 \in Nat /\ (r1 = 0 => k1 = 0)
  BY <1>4 DEF Least
<1> HIDE DEF r1, k1
<1>6. Exact(bf, k1)
  BY <1>2, <1>5, ExactLeft
<1> HIDE DEF bf
<1>7. Exact(head \o bf, 34 + k1)
  BY <1>3, <1>6, BothExact
<1>8. r2 = IF n > 34 + k1 THEN n - (34 + k1) ELSE 0
  BY <1>7, RestExact
<1>9. r2 \in Nat /\ k2 \in Nat /\ (r2 = 0 => k2 = 0)
  BY <1>5, <1>8 DEF Least
<1> HIDE DEF r2, k2
<1>10. Exact(last, k2)
  BY <1>2, <1>9, ExactLeft
<1> HIDE DEF last
<1>11. Exact(head \o bf \o last, 34 + k1 + k2)
  BY <1>7, <1>10, BothExact
<1> QED
  BY <1>1, <1>4, <1>8, <1>11 DEF k1, k2

LEMMA TInsAccel_Reads ==
  ASSUME NEW o, IsObject(o), o.class = "TInsAccel", NEW n \in Nat
  PROVE  /\ SetSRD(o, n).whole = TRUE
         /\ Exact(SetSRD(o, n).items,
                  4 + (IF "first" \in o.flags THEN 16 ELSE 0) + 2
                    + (IF Packed(o) THEN AxisSize(o, 1) + AxisSize(o, 2) + AxisSize(o, 3) ELSE 0)
                    + (IF o.var > 0 THEN o.var ELSE 0))
<1> DEFINE q1 == Read("head", 4)
           q2 == When("first" \in o.flags, Read("body", 16))
           q3 == Read("dl", 2)
           c  == Check(Calibration(o))
           x  == Read("x", AxisSize(o, 1))
           y  == Read("y", AxisSize(o, 2))
           z  == Read("z", AxisSize(o, 3))
           q4 == When(Packed(o), c \o x \o y \o z)
           q5 == When(o.var > 0, Read("xyz_data", o.var))
           k1 == AxisSize(o, 1)
           k2 == AxisSize(o, 2)
           k3 == AxisSize(o, 3)
           b1 == "first" \in o.flags
           b2 == Packed(o)
           b3 == o.var > 0
<1>1. SetSRD(o, n).items = q1 \o q2 \o q3 \o q4 \o q5 /\ SetSRD(o, n).whole = TRUE
  <2>1. SetSRD(o, n) = TInsAccel_SetSRD(o, n)
    BY DEF SetSRD
  <2>2. TInsAccel_SetSRD(o, n) = ReadsAll(q1 \o q2 \o q3 \o q4 \o q5)
    BY DEF TInsAccel_SetSRD
  <2> HIDE DEF q1, q2, q3, q4, q5
  <2> QED
    BY <2>1, <2>2 DEF ReadsAll
<1>2. /\ 4 \in Nat /\ 16 \in Nat /\ 2 \in Nat
      /\ "head" \in Names /\ "body" \in Names /\ "dl" \in Names
      /\ "x" \in Names /\ "y" \in Names /\ "z" \in Names /\ "xyz_data" \in Names
  BY DEF Names
<1>3. k1 \in Nat /\ k2 \in Nat /\ k3 \in Nat /\ o.var \in Nat
  BY Axes, ObjectHas
<1>4. Calibration(o) = k1 + k2 + k3 /\ b1 \in BOOLEAN /\ b2 \in BOOLEAN /\ b3 \in BOOLEAN
  BY DEF Calibration, Packed
<1> HIDE DEF k1, k2, k3
<1>5. Exact(q1, 4) /\ Exact(Read("body", 16), 16) /\ Exact(q3, 2) /\ Exact(x, k1) /\ Exact(y, k2)
      /\ Exact(z, k3) /\ Exact(Read("xyz_data", o.var), o.var)
  BY <1>2, <1>3, ExactOne DEF k1, k2, k3
<1>6. Exact(q2, IF b1 THEN 16 ELSE 0)
  BY <1>4, <1>5, ExactIf
<1>7. Exact(q5, IF b3 THEN o.var ELSE 0)
  BY <1>4, <1>5, ExactIf
<1>8. Exact(c \o x \o y \o z, k1 + k2 + k3)
  <2> HIDE DEF x, y, z, b1, b2, b3, q1, q2, q3, q4, q5
  <2>1. Calibration(o) \in Nat
    BY <1>3, <1>4
  <2>2. Ahead(c, 0, Calibration(o))
    BY <2>1, AheadOfNothing
  <2> HIDE DEF c
  <2>3. Exact(x, k1) /\ Exact(y, k2) /\ Exact(z, k3)
    BY <1>5
  <2>4. Ahead(c \o x, k1, k2 + k3)
    <3>1. 0 \in Nat /\ k2 + k3 \in Nat /\ Calibration(o) = k1 + (k2 + k3) /\ 0 + k1 = k1
      BY <1>3, <1>4
    <3>2. Ahead(c \o x, 0 + k1, k2 + k3)
      BY <2>2, <2>3, <3>1, AheadStep, Zenon
    <3> QED
      BY <3>1, <3>2
  <2>5. Ahead(c \o x \o y, k1 + k2, k3)
    BY <1>3, <2>3, <2>4, AheadStep
  <2>6. k3 <= k3
    BY <1>3
  <2> QED
    BY <2>3, <2>5, <2>6, AheadExact, Zenon
<1> HIDE DEF c, x, y, z
<1>9. Exact(q4, IF b2 THEN k1 + k2 + k3 ELSE 0)
  BY <1>4, <1>8, ExactIf
<1> HIDE DEF q1, q2, q3, q4, q5
<1>10. Exact(q1 \o q2, 4 + (IF b1 THEN 16 ELSE 0))
  BY <1>5, <1>6, BothExact, Zenon
<1>11. Exact(q1 \o q2 \o q3, 4 + (IF b1 THEN 16 ELSE 0) + 2)
  BY <1>5, <1>10, BothExact, Zenon
<1>12. Exact(q1 \o q2 \o q3 \o q4, 4 + (IF b1 THEN 16 ELSE 0) + 2 + (IF b2 THEN k1 + k2 + k3 ELSE 0))
  BY <1>9, <1>11, BothExact, Zenon
<1>13. Exact(q1 \o q2 \o q3 \o q4 \o q5, 4 + (IF b1 THEN 16 ELSE 0) + 2
               + (IF b2 THEN k1 + k2 + k3 ELSE 0) + (IF b3 THEN o.var ELSE 0))
  BY <1>7, <1>12, BothExact, Zenon
<1> QED
  BY <1>1, <1>13 DEF k1, k2, k3

LEMMA TAuthInfo_Reads ==
  ASSUME NEW o, IsObject(o), o.class = "TAuthInfo", NEW n \in Nat
  PROVE  /\ SetSRD(o, n).whole = TRUE
         /\ \E k \in Nat : Stands(SetSRD(o, n).items, k, Least(o.list[1].size, n) + 2, n)
<1> DEFINE l1 == o.list[1].size
           l2 == o.list[2].size
           l3 == o.list[3].size
           name == CString("user_name", l1, n)
           r2 == Rest(n, name)
           pass == CString("user_pass", l2, r2)
           r3 == Rest(n, name \o pass)
           sequence == When(r3 > 0, CString("server_sequence", l3, r3))
           k1 == Least(l1, n) + 1
           k2 == Least(l2, r2) + 1
           k3 == IF r3 > 0 THEN Least(l3, r3) + 1 ELSE 0
<1>1. SetSRD(o, n).items = Check(2) \o name \o Check(1) \o pass \o sequence
      /\ SetSRD(o, n).whole = TRUE
  <2>1. SetSRD(o, n) = TAuthInfo_SetSRD(o, n)
    BY DEF SetSRD
  <2>2. TAuthInfo_SetSRD(o, n) = ReadsAll(Check(2) \o name \o Check(1) \o pass \o sequence)
    BY DEF TAuthInfo_SetSRD
  <2> HIDE DEF name, pass, sequence
  <2> QED
    BY <2>1, <2>2 DEF ReadsAll
<1>2. l1 \in Nat /\ l2 \in Nat /\ l3 \in Nat
  BY ObjectHas
<1> HIDE DEF l1, l2, l3
<1>3. "user_name" \in Names /\ "user_pass" \in Names /\ "server_sequence" \in Names
  BY DEF Names
<1>4. ASSUME NEW len \in Nat, NEW left \in Nat
      PROVE  /\ Least(len + 1, left) \in Nat /\ Least(len, left) + 1 \in Nat
             /\ Least(len + 1, left) <= Least(len, left) + 1
             /\ Least(len + 1, left) <= left
  BY <1>4 DEF Least
<1>5. Calm(name, k1)
  BY <1>2, <1>3, <1>4, CalmOne DEF CString
<1>6. k1 \in Nat /\ Skipped(name) = k1
  BY <1>5 DEF Calm
<1>7. Stands(Check(2) \o name, k1, 2, n)
  <2>1. 2 \in Nat /\ 0 \in Nat /\ 2 > 0
    OBVIOUS
  <2>2. Ahead(Check(2), 0, 2)
    BY <2>1, AheadOfNothing, Zenon
  <2>3. Stands(Check(2), 0, 0 + 2, n)
    BY <2>2, StandsAhead, Zenon
  <2>4. Stands(Check(2), 0, 2, n)
    BY <2>3
  <2>5. /\ Least(l1 + 1, n) \in Nat /\ Least(l1, n) + 1 \in Nat
        /\ 2 <= n /\ Least(l1 + 1, n) > 0 => 0 + Least(l1 + 1, n) <= n
    <3>1. /\ Least(l1 + 1, n) \in Nat /\ Least(l1, n) + 1 \in Nat
          /\ Least(l1 + 1, n) <= n
      BY <1>2, <1>4, Zenon
    <3> QED
      BY <3>1
  <2>6. Stands(Check(2) \o Loose("user_name", Least(l1 + 1, n), Least(l1, n) + 1),
               0 + (Least(l1, n) + 1), 2, n)
    BY <1>3, <2>4, <2>5, StandsLoose, Zenon
  <2>7. 0 + (Least(l1, n) + 1) = k1
    BY <1>6
  <2> HIDE DEF k1
  <2> QED
    BY <2>6, <2>7 DEF CString
<1>8. Stands(Check(2) \o name \o Check(1), k1, k1 + 1, n)
  <2>1. 1 \in Nat /\ 1 > 0 /\ 2 <= k1 + 1
    BY <1>2 DEF Least
  <2> HIDE DEF k1, name
  <2> QED
    BY <1>7, <2>1, StandsCheck, Zenon
<1>9. r2 \in Nat /\ r2 = IF n > k1 THEN n - k1 ELSE 0
  <2> HIDE DEF k1, name
  <2> QED
    BY <1>6 DEF Rest
<1> HIDE DEF r2
<1>10. Calm(pass, k2)
  BY <1>2, <1>3, <1>4, <1>9, CalmOne DEF CString
<1>11. k2 \in Nat
  BY <1>10 DEF Calm
<1>12. Stands(Check(2) \o name \o Check(1) \o pass, k1 + k2, k1 + 1, n)
  <2>1. /\ Least(l2 + 1, r2) \in Nat /\ Least(l2, r2) + 1 \in Nat
        /\ Least(l2 + 1, r2) <= r2
    BY <1>2, <1>4, <1>9
  <2> HIDE DEF k1, name
  <2>2. k1 + 1 <= n /\ Least(l2 + 1, r2) > 0 => k1 + Least(l2 + 1, r2) <= n
    BY <1>6, <1>9, <2>1
  <2>3. Stands(Check(2) \o name \o Check(1) \o Loose("user_pass", Least(l2 + 1, r2), Least(l2, r2) + 1),
               k1 + (Least(l2, r2) + 1), k1 + 1, n)
    BY <1>3, <1>8, <2>1, <2>2, StandsLoose, Zenon
  <2> QED
    BY <2>3 DEF CString
<1>13. r3 \in Nat /\ (k1 + k2 <= n => r3 <= n - (k1 + k2)) /\ (k1 + k2 > n => r3 = 0)
  <2> HIDE DEF k1, k2, name, pass
  <2>1. Calm(name \o pass, k1 + k2)
    BY <1>5, <1>10, CalmRules
  <2>2. Skipped(name \o pass) = k1 + k2
    BY <2>1 DEF Calm
  <2> QED
    BY <1>6, <1>11, <2>2 DEF Rest
<1> HIDE DEF r3
<1>14. \E k \in Nat : Stands(Check(2) \o name \o Check(1) \o pass \o sequence, k, k1 + 1, n)
  <2> DEFINE s == Check(2) \o name \o Check(1) \o pass
  <2>1. Stands(s, k1 + k2, k1 + 1, n)
    BY <1>12
  <2>2. CASE r3 > 0
    <3>1. sequence = Loose("server_sequence", Least(l3 + 1, r3), Least(l3, r3) + 1)
      BY <2>2 DEF When, CString
    <3>2. /\ Least(l3 + 1, r3) \in Nat /\ Least(l3, r3) + 1 \in Nat
          /\ Least(l3 + 1, r3) <= r3
      BY <1>2, <1>4, <1>13
    <3> HIDE DEF k1, k2, name, pass, sequence, s
    <3>3. k1 + 1 <= n /\ Least(l3 + 1, r3) > 0 => k1 + k2 + Least(l3 + 1, r3) <= n
      BY <1>6, <1>11, <1>13, <2>2, <3>2
    <3>4. Stands(s \o Loose("server_sequence", Least(l3 + 1, r3), Least(l3, r3) + 1),
                 k1 + k2 + (Least(l3, r3) + 1), k1 + 1, n)
      BY <1>3, <2>1, <3>2, <3>3, StandsLoose, Zenon
    <3>5. k1 + k2 + (Least(l3, r3) + 1) \in Nat
      BY <1>6, <1>11, <3>2
    <3> QED
      BY <3>1, <3>4, <3>5 DEF s
  <2>3. CASE ~(r3 > 0)
    <3>1. sequence = << >>
      BY <2>3 DEF When
    <3> HIDE DEF k1, k2, name, pass, sequence, s
    <3>2. s \in Seq(ItemSet) /\ k1 + k2 \in Nat
      BY <2>1 DEF Stands
    <3>3. s \o << >> = s
      BY <3>2
    <3> QED
      BY <2>1, <3>1, <3>2, <3>3 DEF s
  <2> QED
    BY <2>2, <2>3
<1>15. k1 + 1 = Least(o.list[1].size, n) + 2
  BY <1>2 DEF Least, l1
<1> QED
  <2> HIDE DEF k1, name, pass, sequence
  <2> QED
    BY <1>1, <1>14, <1>15
-----------------------------------------------------------------------------
(* What the proof of the system needs of an object, and how a class has    *)
(* it.                                                                     *)
(* What PrepareGetData allocates for o holds what is copied, or o Spills. *)
Room(o) ==
  /\ GetData(o).parts \in Seq(PartSet) /\ Bytes(GetData(o).parts) \in Nat
  /\ GetData(o).size \in 0 .. MaxU16 - 1
  /\ Spills(o) <=> Bytes(GetData(o).parts) > GetData(o).size

(* What may be reported as read of n bytes. *)
Near(o, n, k) ==
  \/ SetSRD(o, n).whole = TRUE
  \/ k <= n
  \/ o.class = "TTermIdent2" /\ k <= n + 19

(* What SetSRD promises of n bytes, if they begin as o was written. *)
Fair(o, n) ==
  LET read == SetSRD(o, n)
      sent == GetData(o)
  IN  /\ read.whole \in BOOLEAN /\ read.items \in Seq(ItemSet) /\ Skipped(read.items) \in Nat
      /\ InsideAt(read.items, 0, n) \/ (o.class = "TECallRawMSD" /\ n = 0)
      /\ PassesAt(read.items, 0, n) => Near(o, n, Skipped(read.items))
      /\ PassesAt(read.items, 0, n) /\ ~Spills(o) /\ n < Bytes(sent.parts) => Elastic(o)
      /\ ~Spills(o) /\ ~Unwritable(o) /\ n = sent.size =>
           /\ PassesAt(read.items, 0, n)
           /\ (read.whole = TRUE \/ Skipped(read.items) = n) <=> ~Underread(o)

(* All but two classes spill exactly if 16 bits do not count their bytes. *)
LEMMA SpillsMost ==
  ASSUME NEW o, o.class # "TEPMainData", o.class # "TInsAccel", Bytes(GetData(o).parts) \in Nat
  PROVE  Spills(o) <=> Bytes(GetData(o).parts) >= MaxU16
BY DEF Spills, MaxU16

(* An object whose size is the sum of its parts has the room. *)
LEMMA FullRoom ==
  ASSUME NEW o, Full(o), o.class # "TEPMainData", o.class # "TInsAccel"
  PROVE  Room(o) /\ (~Spills(o) => GetData(o).size = Bytes(GetData(o).parts))
<1> DEFINE b == Bytes(GetData(o).parts)
<1>1. GetData(o).parts \in Seq(PartSet) /\ b \in Nat /\ GetData(o).size = U16(b)
  BY PartsCount DEF Full
<1>2. Spills(o) <=> b >= MaxU16
  BY <1>1, SpillsMost
<1> HIDE DEF b
<1>3. U16(b) \in 0 .. MaxU16 - 1 /\ (b < MaxU16 => U16(b) = b) /\ (b >= MaxU16 => U16(b) < b)
  BY <1>1, U16Rules
<1>4. MaxU16 \in Nat
  BY U16Rules
<1>5. Spills(o) <=> b > U16(b)
  BY <1>1, <1>2, <1>3, <1>4
<1> QED
  BY <1>1, <1>2, <1>3, <1>4, <1>5 DEF Room, b

Keeps(o, n, k, p) ==
  /\ SetSRD(o, n).whole \in BOOLEAN
  /\ p <= n => Near(o, n, k)
  /\ p <= n /\ ~Spills(o) /\ n < Bytes(GetData(o).parts) => Elastic(o)
  /\ ~Spills(o) /\ ~Unwritable(o) /\ n = GetData(o).size =>
       /\ p <= n
       /\ (SetSRD(o, n).whole = TRUE \/ k = n) <=> ~Underread(o)

(* A class whose items stand, and whose end is in front of n or known, is fair. *)
LEMMA FromStands ==
  ASSUME NEW o, NEW n \in Nat, NEW k, NEW p,
         Stands(SetSRD(o, n).items, k, p, n), Keeps(o, n, k, p)
  PROVE  Fair(o, n)
BY DEF Fair, Stands, Keeps

(* The classes whose layout is the same in both directions. *)
LEMMA FromFirm ==
  ASSUME NEW o, NEW n \in Nat, NEW k, Full(o), o.class # "TEPMainData", o.class # "TInsAccel",
         Makes(GetData(o).parts, k), SetSRD(o, n).whole = FALSE, Exact(SetSRD(o, n).items, k),
         ~Underread(o)
  PROVE  Room(o) /\ Fair(o, n)
<1>1. Stands(SetSRD(o, n).items, k, k, n)
  BY StandsExact
<1>2. Bytes(GetData(o).parts) = k /\ k \in Nat
  BY DEF Makes
<1>3. Room(o) /\ (~Spills(o) => GetData(o).size = k)
  BY <1>2, FullRoom
<1>4. /\ ~(k <= n /\ n < k) /\ (n = k => k <= n)
  BY <1>2
<1>0. SetSRD(o, n).whole \in BOOLEAN
  BY Zenon
<1>5. Fair(o, n)
  <2>1. k <= n => Near(o, n, k)
    BY DEF Near
  <2>2. k <= n /\ ~Spills(o) /\ n < Bytes(GetData(o).parts) => Elastic(o)
    BY <1>2, <1>4
  <2>3. ~Spills(o) /\ ~Unwritable(o) /\ n = GetData(o).size =>
           /\ k <= n
           /\ (SetSRD(o, n).whole = TRUE \/ k = n) <=> ~Underread(o)
    BY <1>3, <1>4
  <2>4. Keeps(o, n, k, k)
    BY <1>0, <2>1, <2>2, <2>3 DEF Keeps
  <2> QED
    BY <1>1, <2>4, FromStands, Zenon
<1> QED
  BY <1>3, <1>5

(* The lists that are read up to what their counter says. *)
LEMMA FromCounted ==
  ASSUME NEW o, NEW n \in Nat, NEW k, NEW m, Full(o), o.class # "TEPMainData", o.class # "TInsAccel",
         Makes(GetData(o).parts, m), SetSRD(o, n).whole = FALSE, Exact(SetSRD(o, n).items, k),
         k <= m, Underread(o) <=> k # m
  PROVE  Room(o) /\ Fair(o, n)
<1>1. Stands(SetSRD(o, n).items, k, k, n) /\ k \in Nat
  BY StandsExact DEF Exact
<1>2. Bytes(GetData(o).parts) = m /\ m \in Nat
  BY DEF Makes
<1>3. Room(o) /\ (~Spills(o) => GetData(o).size = m)
  BY <1>2, FullRoom
<1>4. /\ k <= n /\ n < m => k # m
      /\ n = m => k <= n /\ (k = n <=> k = m)
  BY <1>1, <1>2
<1>0. SetSRD(o, n).whole \in BOOLEAN
  BY Zenon
<1>5. Underread(o) => Elastic(o)
  BY DEF Elastic
<1>6. Fair(o, n)
  <2>1. k <= n => Near(o, n, k)
    BY DEF Near
  <2>2. k <= n /\ ~Spills(o) /\ n < Bytes(GetData(o).parts) => Elastic(o)
    BY <1>2, <1>4, <1>5
  <2>3. ~Spills(o) /\ ~Unwritable(o) /\ n = GetData(o).size =>
           /\ k <= n
           /\ (SetSRD(o, n).whole = TRUE \/ k = n) <=> ~Underread(o)
    BY <1>3, <1>4
  <2>4. Keeps(o, n, k, k)
    BY <1>0, <2>1, <2>2, <2>3 DEF Keeps
  <2> QED
    BY <1>1, <2>4, FromStands, Zenon
<1> QED
  BY <1>3, <1>6

(* The classes that make do with less. *)
Mends(o, n, k, p, m) ==
  /\ SetSRD(o, n).whole \in BOOLEAN
  /\ p <= n => Near(o, n, k)
  /\ n = m /\ ~Unwritable(o) => p <= n /\ (SetSRD(o, n).whole = TRUE \/ k = n)

(* A class that reads the rest, whatever there is. *)
LEMMA FromLoose ==
  ASSUME NEW o, NEW n \in Nat, NEW k, NEW p, NEW m, Full(o), Elastic(o), ~Underread(o),
         o.class # "TEPMainData", o.class # "TInsAccel",
         Makes(GetData(o).parts, m),
         Stands(SetSRD(o, n).items, k, p, n), Mends(o, n, k, p, m)
  PROVE  Room(o) /\ Fair(o, n)
<1>1. Bytes(GetData(o).parts) = m /\ m \in Nat
  BY DEF Makes
<1>2. Room(o) /\ (~Spills(o) => GetData(o).size = m)
  BY <1>1, FullRoom
<1>3. Fair(o, n)
  <2>1. p <= n => Near(o, n, k)
    BY DEF Mends
  <2>2. p <= n /\ ~Spills(o) /\ n < Bytes(GetData(o).parts) => Elastic(o)
    OBVIOUS
  <2>3. ~Spills(o) /\ ~Unwritable(o) /\ n = GetData(o).size =>
           /\ p <= n
           /\ (SetSRD(o, n).whole = TRUE \/ k = n) <=> ~Underread(o)
    BY <1>2 DEF Mends
  <2>4. Keeps(o, n, k, p)
    BY <2>1, <2>2, <2>3 DEF Keeps, Mends
  <2> QED
    BY <1>1, <2>4, FromStands, Zenon
<1> QED
  BY <1>2, <1>3

(* The classes that no list of exceptions names. *)
LEMMA Sorts ==
  ASSUME NEW o
  PROVE  /\ o.class \notin {"TEPSignature", "TEPAccelData3", "TEPTrackData", "TPosData", "TECallMSD"}
              => ~Underread(o)
         /\ o.class \in {"TCommandData", "TECallRawMSD", "TECallMSD", "TDispIdent", "TAuthInfo",
                         "TPlusData", "TLiquidLevel", "TTermIdent2", "TPassengers"} => Elastic(o)
         /\ o.class \notin {"TPlusData", "TLiquidLevel"} => ~Unwritable(o)
BY DEF Underread, Overfull, Elastic, Unwritable

LEMMA Body_Fair ==
  ASSUME NEW o, IsObject(o), o.class \in DOMAIN BodySize, NEW n \in Nat
  PROVE  Room(o) /\ Fair(o, n)
<1>1. /\ o.class \notin {"TEPSignature", "TEPAccelData3", "TEPTrackData", "TPosData", "TECallMSD"}
      /\ o.class # "TEPMainData" /\ o.class # "TInsAccel"
  BY DEF BodySize
<1>2. ~Underread(o)
  BY <1>1, Sorts
<1> QED
  BY <1>1, <1>2, Body_Lays, FromFirm, Zenon

LEMMA TEPCompData_Fair ==
  ASSUME NEW o, IsObject(o), o.class = "TEPCompData", NEW n \in Nat
  PROVE  Room(o) /\ Fair(o, n)
<1>1. ~Underread(o) /\ o.class # "TEPMainData" /\ o.class # "TInsAccel"
  BY Sorts
<1> QED
  BY <1>1, TEPCompData_Writes, TEPCompData_Reads, FromFirm, Zenon

LEMMA TTermIdent_Fair ==
  ASSUME NEW o, IsObject(o), o.class = "TTermIdent", NEW n \in Nat
  PROVE  Room(o) /\ Fair(o, n)
<1>1. ~Underread(o) /\ o.class # "TEPMainData" /\ o.class # "TInsAccel"
  BY Sorts
<1> QED
  BY <1>1, TTermIdent_Writes, TTermIdent_Reads, FromFirm, Zenon

LEMMA TExtPosData_Fair ==
  ASSUME NEW o, IsObject(o), o.class = "TExtPosData", NEW n \in Nat
  PROVE  Room(o) /\ Fair(o, n)
<1>1. ~Underread(o) /\ o.class # "TEPMainData" /\ o.class # "TInsAccel"
  BY Sorts
<1>2. Makes(GetData(o).parts, ExtSize(o)) /\ Full(o)
  <2> DEFINE k == 1 + ((IF "vfe" \in o.flags THEN 2 ELSE 0) + (IF "hfe" \in o.flags THEN 2 ELSE 0)
                   + (IF "pfe" \in o.flags THEN 2 ELSE 0) + (IF "sfe" \in o.flags THEN 1 ELSE 0)
                   + (IF "nsfe" \in ExtFlags(o) THEN 2 ELSE 0))
  <2>1. Makes(GetData(o).parts, k) /\ Full(o)
    BY TExtPosData_Writes
  <2>2. k = ExtSize(o)
    BY DEF ExtSize, Sure
  <2> QED
    BY <2>1, <2>2
<1> QED
  BY <1>1, <1>2, TExtPosData_Reads, FromFirm, Zenon

LEMMA TAdSensors_Fair ==
  ASSUME NEW o, IsObject(o), o.class = "TAdSensors", NEW n \in Nat
  PROVE  Room(o) /\ Fair(o, n)
<1>1. ~Underread(o) /\ o.class # "TEPMainData" /\ o.class # "TInsAccel"
  BY Sorts
<1>2. 3 + BitCnt(o, "din") + 3 * BitCnt(o, "ain") = 3 + (1 * BitCnt(o, "din")) + (3 * BitCnt(o, "ain"))
  BY BitsFew
<1>3. Makes(GetData(o).parts, 3 + BitCnt(o, "din") + 3 * BitCnt(o, "ain")) /\ Full(o)
  BY <1>2, TAdSensors_Writes
<1> QED
  BY <1>1, <1>3, TAdSensors_Reads, FromFirm, Zenon

LEMMA TCounters_Fair ==
  ASSUME NEW o, IsObject(o), o.class = "TCounters", NEW n \in Nat
  PROVE  Room(o) /\ Fair(o, n)
<1>1. ~Underread(o) /\ o.class # "TEPMainData" /\ o.class # "TInsAccel"
  BY Sorts
<1> QED
  BY <1>1, TCounters_Writes, TCounters_Reads, FromFirm, Zenon
-----------------------------------------------------------------------------
(* Class by class again: every object is fair.                             *)
(* The sizes in an object are numbers. *)
LEMMA SizesKnown ==
  ASSUME NEW o, IsObject(o)
  PROVE  /\ o.var \in Nat
         /\ \A i \in 1 .. Len(o.list) : o.list[i].size \in Nat
         /\ o.class \in {"TCommandData", "TPosData"} => o.list[1].size \in Nat
         /\ o.class = "TEPMainData" => o.list[1].size \in Nat /\ o.list[2].size \in Nat
         /\ o.class \in {"TAuthInfo", "TInsAccel"} =>
              o.list[1].size \in Nat /\ o.list[2].size \in Nat /\ o.list[3].size \in Nat
<1>1. o.var \in Nat /\ o.list \in Seq(Elements)
  BY DEF IsObject
<1>2. \A i \in 1 .. Len(o.list) : o.list[i] \in Elements
  BY <1>1
<1>3. \A i \in 1 .. Len(o.list) : o.list[i].size \in Nat
  BY <1>2 DEF Elements
<1>4. /\ o.class \in {"TCommandData", "TPosData"} => Len(o.list) = 1
      /\ o.class = "TEPMainData" => Len(o.list) = 2
      /\ o.class \in {"TAuthInfo", "TInsAccel"} => Len(o.list) = 3
  BY DEF IsObject
<1>5. /\ Len(o.list) = 1 => o.list[1].size \in Nat
      /\ Len(o.list) = 2 => o.list[1].size \in Nat /\ o.list[2].size \in Nat
      /\ Len(o.list) = 3 => o.list[1].size \in Nat /\ o.list[2].size \in Nat /\ o.list[3].size \in Nat
  BY <1>3
<1> QED
  BY <1>1, <1>3, <1>4, <1>5

(* A list whose elements count for something: its counted part is less, if it is shorter. *)
LEMMA FirstOnes ==
  ASSUME NEW l \in Nat, NEW c \in Nat, c <= l, NEW w, w = [ i \in 1 .. l |-> w[i] ],
         \A i \in 1 .. l : w[i] \in Nat \ {0}
  PROVE  LET v == [ i \in 1 .. c |-> w[i] ]
         IN  /\ Total(v) \in Nat /\ Total(w) \in Nat /\ Total(v) <= Total(w)
             /\ Total(v) = Total(w) <=> c = l
<1> DEFINE v == [ i \in 1 .. c |-> w[i] ]
<1>1. w \in [1 .. l -> Nat] /\ v \in [1 .. c -> Nat]
  OBVIOUS
<1>2. w \in Seq(Nat) /\ Len(w) = l
  BY <1>1, Listed
<1>3. v \in Seq(Nat) /\ Len(v) = c
  BY <1>1, Listed
<1>4. \A i \in 1 .. Len(v) : v[i] = w[i]
  BY <1>3
<1> HIDE DEF v
<1>5. Len(v) <= Len(w)
  BY <1>2, <1>3
<1>6. /\ Total(v) \in Nat /\ Total(w) \in Nat
      /\ Total(v) <= Total(w)
      /\ Len(v) = Len(w) => Total(v) = Total(w)
      /\ Len(v) < Len(w) /\ w[Len(v) + 1] > 0 => Total(v) < Total(w)
  BY <1>2, <1>3, <1>4, <1>5, Prefix, Zenon
<1>7. c < l => w[c + 1] > 0
  OBVIOUS
<1> QED
  BY <1>2, <1>3, <1>6, <1>7 DEF v

LEMMA TEPSignature_Fair ==
  ASSUME NEW o, IsObject(o), o.class = "TEPSignature", NEW n \in Nat
  PROVE  Room(o) /\ Fair(o, n)
<1> DEFINE l == Len(o.list)
           c == l % Capacity["sd"]
           w == [ i \in 1 .. l |-> 9 + o.list[i].size ]
           v == [ i \in 1 .. c |-> w[i] ]
<1>1. /\ c \in Nat /\ c <= l /\ l \in Nat
      /\ l < Capacity["sd"] => c = l
      /\ l >= Capacity["sd"] => c < l
      /\ Capacity["sd"] \in Nat
  <2>1. "sd" \in Counters
    BY DEF Counters
  <2> QED
    BY <2>1, CountedList, CapacityAssumption
<1>2. \A i \in 1 .. l : w[i] \in Nat \ {0}
  BY ObjectHas
<1>3. Full(o) /\ Makes(GetData(o).parts, 1 + 1 + Total(w))
  BY TEPSignature_Writes
<1>4. SetSRD(o, n).whole = FALSE /\ Exact(SetSRD(o, n).items, 2 + Total(v))
  <2>1. v = [ i \in 1 .. c |-> 9 + o.list[i].size ]
    BY <1>1
  <2> QED
    BY <2>1, TEPSignature_Reads
<1>5. Underread(o) <=> l >= Capacity["sd"]
  BY DEF Underread, Overfull
<1> HIDE DEF l, c
<1>6. Total(v) \in Nat /\ Total(w) \in Nat /\ Total(v) <= Total(w) /\ (Total(v) = Total(w) <=> c = l)
  <2>1. w = [ i \in 1 .. l |-> w[i] ] /\ c <= l
    BY <1>1
  <2> HIDE DEF w
  <2> QED
    BY <1>1, <1>2, <2>1, FirstOnes
<1> HIDE DEF w, v
<1>7. /\ 2 + Total(v) <= 1 + 1 + Total(w)
      /\ Underread(o) <=> 2 + Total(v) # 1 + 1 + Total(w)
  BY <1>1, <1>5, <1>6
<1>8. o.class # "TEPMainData" /\ o.class # "TInsAccel"
  OBVIOUS
<1> QED
  BY <1>3, <1>4, <1>7, <1>8, FromCounted, Zenon

LEMMA TEPAccelData3_Fair ==
  ASSUME NEW o, IsObject(o), o.class = "TEPAccelData3", NEW n \in Nat
  PROVE  Room(o) /\ Fair(o, n)
<1> DEFINE l == Len(o.list)
           c == l % Capacity["ad"]
           w == [ i \in 1 .. l |-> 1 + 6 * Sure("rst" \notin o.list[i].flags) ]
           v == [ i \in 1 .. c |-> w[i] ]
<1>1. /\ c \in Nat /\ c <= l /\ l \in Nat
      /\ l < Capacity["ad"] => c = l
      /\ l >= Capacity["ad"] => c < l
      /\ Capacity["ad"] \in Nat
  <2>1. "ad" \in Counters
    BY DEF Counters
  <2> QED
    BY <2>1, CountedList, CapacityAssumption
<1>2. \A i \in 1 .. l : w[i] \in Nat \ {0}
  BY DEF Sure
<1>3. Full(o) /\ Makes(GetData(o).parts, 15 + Total(w))
  BY TEPAccelData3_Writes
<1>4. SetSRD(o, n).whole = FALSE /\ Exact(SetSRD(o, n).items, 15 + Total(v))
  <2>1. v = [ i \in 1 .. c |-> 1 + 6 * Sure("rst" \notin o.list[i].flags) ]
    BY <1>1
  <2> QED
    BY <2>1, TEPAccelData3_Reads
<1>5. Underread(o) <=> l >= Capacity["ad"]
  BY DEF Underread, Overfull
<1> HIDE DEF l, c
<1>6. Total(v) \in Nat /\ Total(w) \in Nat /\ Total(v) <= Total(w) /\ (Total(v) = Total(w) <=> c = l)
  <2>1. w = [ i \in 1 .. l |-> w[i] ] /\ c <= l
    BY <1>1
  <2> HIDE DEF w
  <2> QED
    BY <1>1, <1>2, <2>1, FirstOnes
<1> HIDE DEF w, v
<1>7. /\ 15 + Total(v) <= 15 + Total(w)
      /\ Underread(o) <=> 15 + Total(v) # 15 + Total(w)
  BY <1>1, <1>5, <1>6
<1>8. o.class # "TEPMainData" /\ o.class # "TInsAccel"
  OBVIOUS
<1> QED
  BY <1>3, <1>4, <1>7, <1>8, FromCounted, Zenon

LEMMA TEPTrackData_Fair ==
  ASSUME NEW o, IsObject(o), o.class = "TEPTrackData", NEW n \in Nat
  PROVE  Room(o) /\ Fair(o, n)
<1> DEFINE h == 8 + (IF "tde" \in o.flags THEN 12 ELSE 0)
           l == Len(o.list)
           c == l % Capacity["rt"]
           w == [ i \in 1 .. l |-> 1 + 5 * Sure("rst" \in o.list[i].flags)
                   + Sure("rst" \in o.list[i].flags /\ "spde" \in o.list[i].flags)
                   + Sure("rst" \in o.list[i].flags /\ "alte" \in o.list[i].flags) ]
           v == [ i \in 1 .. c |-> w[i] ]
<1>1. /\ c \in Nat /\ c <= l /\ l \in Nat
      /\ l < Capacity["rt"] => c = l
      /\ l >= Capacity["rt"] => c < l
      /\ Capacity["rt"] \in Nat
  <2>1. "rt" \in Counters
    BY DEF Counters
  <2> QED
    BY <2>1, CountedList, CapacityAssumption
<1>2. \A i \in 1 .. l : w[i] \in Nat \ {0}
  BY DEF Sure
<1>3. Full(o) /\ Makes(GetData(o).parts, h + Total(w))
  BY TEPTrackData_Writes
<1>4. SetSRD(o, n).whole = FALSE /\ Exact(SetSRD(o, n).items, h + Total(v))
  <2>1. v = [ i \in 1 .. c |-> 1 + 5 * Sure("rst" \in o.list[i].flags)
                   + Sure("rst" \in o.list[i].flags /\ "spde" \in o.list[i].flags)
                   + Sure("rst" \in o.list[i].flags /\ "alte" \in o.list[i].flags) ]
    BY <1>1
  <2> QED
    BY <2>1, TEPTrackData_Reads
<1>5. Underread(o) <=> l >= Capacity["rt"]
  BY DEF Underread, Overfull
<1> HIDE DEF l, c
<1>6. Total(v) \in Nat /\ Total(w) \in Nat /\ Total(v) <= Total(w) /\ (Total(v) = Total(w) <=> c = l)
  <2>1. w = [ i \in 1 .. l |-> w[i] ] /\ c <= l
    BY <1>1
  <2> HIDE DEF w
  <2> QED
    BY <1>1, <1>2, <2>1, FirstOnes
<1> HIDE DEF w, v
<1>9. h \in Nat
  OBVIOUS
<1> HIDE DEF h
<1>7. /\ h + Total(v) <= h + Total(w)
      /\ Underread(o) <=> h + Total(v) # h + Total(w)
  BY <1>1, <1>5, <1>6, <1>9
<1>8. o.class # "TEPMainData" /\ o.class # "TInsAccel"
  OBVIOUS
<1> QED
  BY <1>3, <1>4, <1>7, <1>8, FromCounted, Zenon

LEMMA TCommandData_Fair ==
  ASSUME NEW o, IsObject(o), o.class = "TCommandData", NEW n \in Nat
  PROVE  Room(o) /\ Fair(o, n)
<1> DEFINE k == 10 + (IF "chsfe" \in o.flags THEN 1 ELSE 0) + (IF "acfe" \in o.flags THEN 1
                 + o.list[1].size ELSE 0) + (IF "COMCONF" \in o.flags THEN 4 ELSE 0)
                 + (IF "COM" \in o.flags THEN 5 ELSE 0)
           rest == IF n > k THEN n - k ELSE 0
           m == k + (IF o.var > 0 THEN o.var ELSE 0)
<1>1. SetSRD(o, n).whole = FALSE /\ Exact(SetSRD(o, n).items, k + rest)
  BY TCommandData_Reads
<1>2. Full(o) /\ Makes(GetData(o).parts, m)
  BY TCommandData_Writes
<1>3. k \in Nat /\ o.var \in Nat
  <2> HIDE DEF rest, m
  <2> HIDE DEF k
  <2>2. o.list[1].size \in Nat /\ o.var \in Nat
    BY SizesKnown
  <2> QED
    BY <2>2 DEF k
<1> HIDE DEF k
<1>4. k + rest <= n => k + rest <= n
  OBVIOUS
<1>5. n = m => k + rest = n
  BY <1>3
<1>6. Stands(SetSRD(o, n).items, k + rest, k + rest, n)
  BY <1>1, StandsExact, Zenon
<1> HIDE DEF rest, m
<1>7. SetSRD(o, n).whole \in BOOLEAN
  BY <1>1, Zenon
<1>8. Mends(o, n, k + rest, k + rest, m)
  BY <1>3, <1>5, <1>7 DEF Mends, Near
<1>9. Elastic(o) /\ ~Underread(o) /\ o.class # "TEPMainData" /\ o.class # "TInsAccel"
  BY Sorts
<1> QED
  BY <1>2, <1>6, <1>8, <1>9, FromLoose, Zenon

LEMMA TDispIdent_Fair ==
  ASSUME NEW o, IsObject(o), o.class = "TDispIdent", NEW n \in Nat
  PROVE  Room(o) /\ Fair(o, n)
<1> DEFINE rest == IF n > 5 THEN n - 5 ELSE 0
           k == 5 + rest
           m == 5 + (IF DescrLen(o) > 0 THEN DescrLen(o) ELSE 0)
<1>1. SetSRD(o, n).whole = FALSE /\ Exact(SetSRD(o, n).items, k)
  BY TDispIdent_Reads
<1>2. Full(o) /\ Makes(GetData(o).parts, m)
  BY TDispIdent_Writes
<1>3. DescrLen(o) \in Nat
  BY ObjectHas DEF DescrLen
<1>4. k <= n => k <= n
  OBVIOUS
<1>5. n = m => k = n /\ k <= n
  BY <1>3
<1> HIDE DEF k, m
<1>6. Stands(SetSRD(o, n).items, k, k, n)
  BY <1>1, StandsExact, Zenon
<1>7. SetSRD(o, n).whole \in BOOLEAN
  BY <1>1, Zenon
<1>8. Mends(o, n, k, k, m)
  BY <1>4, <1>5, <1>7 DEF Mends, Near
<1>9. Elastic(o) /\ ~Underread(o) /\ o.class # "TEPMainData" /\ o.class # "TInsAccel"
  BY Sorts
<1> QED
  BY <1>2, <1>6, <1>8, <1>9, FromLoose, Zenon

LEMMA TPlusData_Fair ==
  ASSUME NEW o, IsObject(o), o.class = "TPlusData", NEW n \in Nat
  PROVE  Room(o) /\ Fair(o, n)
<1> DEFINE m == o.var
           k == n
<1>1. SetSRD(o, n).whole = TRUE /\ Exact(SetSRD(o, n).items, k)
  BY TPlusData_Reads
<1>2. Full(o) /\ Makes(GetData(o).parts, m)
  BY TPlusData_Writes
<1>4. k <= n => k <= n
  OBVIOUS
<1>5. n = m => k = n /\ k <= n
  OBVIOUS
<1> HIDE DEF k, m
<1>6. Stands(SetSRD(o, n).items, k, k, n)
  BY <1>1, StandsExact, Zenon
<1>7. SetSRD(o, n).whole \in BOOLEAN
  BY <1>1, Zenon
<1>8. Mends(o, n, k, k, m)
  BY <1>4, <1>5, <1>7 DEF Mends, Near
<1>9. Elastic(o) /\ ~Underread(o) /\ o.class # "TEPMainData" /\ o.class # "TInsAccel"
  BY Sorts
<1> QED
  BY <1>2, <1>6, <1>8, <1>9, FromLoose, Zenon

LEMMA TPassengers_Fair ==
  ASSUME NEW o, IsObject(o), o.class = "TPassengers", NEW n \in Nat
  PROVE  Room(o) /\ Fair(o, n)
<1> DEFINE k == 5 + 2 * BitCnt(o, "door")
           m == 5 + (2 * Len(o.list))
<1>1. SetSRD(o, n).whole = TRUE /\ Exact(SetSRD(o, n).items, k)
  BY TPassengers_Reads
<1>2. Full(o) /\ Makes(GetData(o).parts, m)
  BY TPassengers_Writes
<1>3. BitCnt(o, "door") <= Len(o.list) /\ BitCnt(o, "door") \in Nat /\ Len(o.list) \in Nat
  BY BitsFew, ObjectHas
<1>4. SetSRD(o, n).whole = TRUE
  BY <1>1
<1>5. n = m => k <= n
  BY <1>3
<1> HIDE DEF k, m
<1>6. Stands(SetSRD(o, n).items, k, k, n)
  BY <1>1, StandsExact, Zenon
<1>7. SetSRD(o, n).whole \in BOOLEAN
  BY <1>1, Zenon
<1>8. Mends(o, n, k, k, m)
  BY <1>4, <1>5, <1>7 DEF Mends, Near
<1>9. Elastic(o) /\ ~Underread(o) /\ o.class # "TEPMainData" /\ o.class # "TInsAccel"
  BY Sorts
<1> QED
  BY <1>2, <1>6, <1>8, <1>9, FromLoose, Zenon

LEMMA TTermIdent2_Fair ==
  ASSUME NEW o, IsObject(o), o.class = "TTermIdent2", NEW n \in Nat
  PROVE  Room(o) /\ Fair(o, n)
<1> DEFINE p == TermSize(o)
           k == p + 1 + (IF n > p /\ "icce" \in o.flags THEN 19 ELSE 0)
           m == p + 1 + (IF "icce" \in o.flags THEN 19 ELSE 0)
<1>1. SetSRD(o, n).whole = FALSE /\ Stands(SetSRD(o, n).items, k, p, n)
  BY TTermIdent2_Reads
<1>2. Full(o) /\ Makes(GetData(o).parts, m)
  BY TTermIdent2_Writes
<1>3. p \in Nat
  BY TermPartsMade
<1> HIDE DEF p
<1>4. p <= n => k <= n + 19
  BY <1>3
<1>5. n = m => p <= n /\ k = n
  BY <1>3
<1> HIDE DEF k, m
<1>6. Stands(SetSRD(o, n).items, k, p, n)
  BY <1>1
<1>7. SetSRD(o, n).whole \in BOOLEAN
  BY <1>1, Zenon
<1>8. Mends(o, n, k, p, m)
  BY <1>4, <1>5, <1>7 DEF Mends, Near
<1>9. Elastic(o) /\ ~Underread(o) /\ o.class # "TEPMainData" /\ o.class # "TInsAccel"
  BY Sorts
<1> QED
  BY <1>2, <1>6, <1>8, <1>9, FromLoose, Zenon

LEMMA TAuthInfo_Fair ==
  ASSUME NEW o, IsObject(o), o.class = "TAuthInfo", NEW n \in Nat
  PROVE  Room(o) /\ Fair(o, n)
<1> DEFINE p == Least(o.list[1].size, n) + 2
           m == (o.list[1].size + 1) + (o.list[2].size + 1)
                  + (IF o.list[3].size + 1 > 1 THEN o.list[3].size + 1 ELSE 0)
<1>1. PICK k \in Nat : Stands(SetSRD(o, n).items, k, p, n)
  BY TAuthInfo_Reads
<1>2. Full(o) /\ Makes(GetData(o).parts, m)
  BY TAuthInfo_Writes
<1>3. o.list[1].size \in Nat /\ o.list[2].size \in Nat /\ o.list[3].size \in Nat
  <2> HIDE DEF p, m
  <2> QED
    BY SizesKnown
<1>4. SetSRD(o, n).whole = TRUE
  BY TAuthInfo_Reads
<1>5. n = m => p <= n
  BY <1>3 DEF Least
<1> HIDE DEF p, m
<1>6. Stands(SetSRD(o, n).items, k, p, n)
  BY <1>1
<1>7. SetSRD(o, n).whole \in BOOLEAN
  BY <1>4, Zenon
<1>8. Mends(o, n, k, p, m)
  BY <1>4, <1>5, <1>7 DEF Mends, Near
<1>9. Elastic(o) /\ ~Underread(o) /\ o.class # "TEPMainData" /\ o.class # "TInsAccel"
  BY Sorts
<1> QED
  BY <1>2, <1>6, <1>8, <1>9, FromLoose, Zenon

LEMMA TLiquidLevel_Fair ==
  ASSUME NEW o, IsObject(o), o.class = "TLiquidLevel", NEW n \in Nat
  PROVE  Room(o) /\ Fair(o, n)
<1> DEFINE m == 3 + o.var
           p == IF n < 4 THEN 4 ELSE n
           k == IF n < 4 THEN 3 ELSE n
<1>1. SetSRD(o, n).whole = TRUE /\ Stands(SetSRD(o, n).items, k, p, n)
  <2>1. CASE n < 4
    BY <2>1, TLiquidLevel_Reads
  <2>2. CASE ~(n < 4)
    <3>1. n >= 4 /\ k = n /\ p = n
      BY <2>2
    <3> HIDE DEF k, p, m
    <3> QED
      BY <3>1, TLiquidLevel_Reads
  <2> QED
    BY <2>1, <2>2
<1>2. Full(o) /\ Makes(GetData(o).parts, m)
  BY TLiquidLevel_Writes
<1>3. o.var \in Nat /\ (~Unwritable(o) => o.var > 0)
  BY SizesKnown DEF Unwritable
<1>4. SetSRD(o, n).whole = TRUE
  BY <1>1
<1>5. n = m /\ ~Unwritable(o) => p <= n
  BY <1>3
<1> HIDE DEF p, m, k
<1>6. Stands(SetSRD(o, n).items, k, p, n)
  BY <1>1
<1>7. SetSRD(o, n).whole \in BOOLEAN
  BY <1>4, Zenon
<1>8. Mends(o, n, k, p, m)
  BY <1>4, <1>5, <1>7 DEF Mends, Near
<1>9. Elastic(o) /\ ~Underread(o) /\ o.class # "TEPMainData" /\ o.class # "TInsAccel"
  BY Sorts
<1> QED
  BY <1>2, <1>6, <1>8, <1>9, FromLoose, Zenon

LEMMA TPosData_Fair ==
  ASSUME NEW o, IsObject(o), o.class = "TPosData", NEW n \in Nat
  PROVE  Room(o) /\ Fair(o, n)
<1> DEFINE k == 21 + (IF "alte" \in o.flags THEN 3 ELSE 0)
           m == k + (IF Src(o) > 0 THEN 2 ELSE 0)
           size == 21 + 3 * Sure("alte" \in o.flags) + 2 * Src(o)
<1>1. SetSRD(o, n).whole = FALSE /\ Stands(SetSRD(o, n).items, k, k, n)
  BY TPosData_Reads
<1>2. GetData(o).size = U16(size) /\ Makes(GetData(o).parts, m)
  BY TPosData_Writes
<1>3. Src(o) \in 0 .. 255
  <2>1. Src(o) \in Nat
    BY SizesKnown DEF Src
  <2>2. Src(o) <= 255
    BY DEF IsObject
  <2> HIDE DEF k, m, size
  <2> QED
    BY <2>1, <2>2
<1>4. size = k + 2 * Src(o) /\ size \in 0 .. 1000 /\ k \in Nat
  BY <1>3 DEF Sure
<1> HIDE DEF size
<1>5. U16(size) = size
  <2>1. size \in Nat /\ size < MaxU16
    BY <1>4, U16Rules
  <2> QED
    BY <2>1, U16Rules
<1>6. GetData(o).size = k + 2 * Src(o) /\ GetData(o).size \in 0 .. 1000
  BY <1>2, <1>4, <1>5
<1>7. m \in Nat /\ m <= k + 2 * Src(o) /\ m <= 1000
  BY <1>3, <1>4
<1>8. (n < m /\ k <= n => Src(o) > 0) /\ (n = k + 2 * Src(o) => k <= n /\ (k = n <=> ~(Src(o) > 0)))
  BY <1>3, <1>4
<1> HIDE DEF k, m
<1>9. Bytes(GetData(o).parts) = m /\ GetData(o).parts \in Seq(PartSet)
  BY <1>2 DEF Makes
<1>10. ~Spills(o) /\ (Underread(o) <=> Src(o) > 0) /\ (Underread(o) => Elastic(o))
  <2>1. ~Spills(o)
    BY <1>7, <1>9 DEF Spills
  <2> QED
    BY <2>1 DEF Underread, Overfull, Elastic
<1>11. Room(o)
  <2>1. GetData(o).size \in 0 .. MaxU16 - 1
    BY <1>6, U16Rules
  <2>2. ~(m > GetData(o).size)
    BY <1>3, <1>4, <1>6, <1>7
  <2> QED
    BY <1>7, <1>9, <1>10, <2>1, <2>2 DEF Room
<1>12. SetSRD(o, n).whole \in BOOLEAN
  BY <1>1, Zenon
<1>13. Keeps(o, n, k, k)
  BY <1>1, <1>6, <1>8, <1>9, <1>10, <1>12 DEF Keeps, Near
<1> QED
  BY <1>1, <1>11, <1>13, FromStands, Zenon

LEMMA TECallMSD_Fair ==
  ASSUME NEW o, IsObject(o), o.class = "TECallMSD", NEW n \in Nat
  PROVE  Room(o) /\ Fair(o, n)
<1> DEFINE r1 == IF n > 34 THEN n - 34 ELSE 0
           k1 == Least(9, r1)
           r2 == IF n > 34 + k1 THEN n - (34 + k1) ELSE 0
           k == 34 + k1 + Least(56, r2)
           m == 34 + (IF OptSize(o) > 0 THEN OptSize(o) ELSE 0) + (IF o.var > 0 THEN o.var ELSE 0)
<1>1. SetSRD(o, n).whole = FALSE /\ Exact(SetSRD(o, n).items, k)
  BY TECallMSD_Reads
<1>2. Full(o) /\ Makes(GetData(o).parts, m)
  BY TECallMSD_Writes
<1>3. o.var \in Nat /\ OptSize(o) \in 0 .. 9 /\ (o.var > 0 => OptSize(o) = 9)
  <2> HIDE DEF r1, k1, r2, k, m
  <2>1. o.var \in Nat
    BY SizesKnown
  <2> HIDE DEF r1, k1, r2, k, m
  <2>2. OptSize(o) \in 0 .. 9
    BY DEF OptSize
  <2>3. o.var > 0 => OptSize(o) = 9
    BY DEF OptSize
  <2> QED
    BY <2>1, <2>2, <2>3
<1>4. n = m => k <= n /\ (k = n <=> ~(o.var > 56))
  BY <1>3 DEF Least
<1> HIDE DEF k, m
<1>5. Stands(SetSRD(o, n).items, k, k, n)
  BY <1>1, StandsExact, Zenon
<1>6. (Underread(o) <=> o.var > 56) /\ Elastic(o) /\ o.class # "TEPMainData" /\ o.class # "TInsAccel"
  BY DEF Underread, Overfull, Elastic
<1>7. Bytes(GetData(o).parts) = m
  BY <1>2 DEF Makes
<1>8. Room(o) /\ (~Spills(o) => GetData(o).size = m)
  BY <1>2, <1>6, <1>7, FullRoom
<1>9. SetSRD(o, n).whole \in BOOLEAN
  BY <1>1, Zenon
<1>10. Keeps(o, n, k, k)
  BY <1>1, <1>4, <1>6, <1>8, <1>9 DEF Keeps, Near
<1> QED
  BY <1>5, <1>8, <1>10, FromStands, Zenon

LEMMA TECallRawMSD_Fair ==
  ASSUME NEW o, IsObject(o), o.class = "TECallRawMSD", NEW n \in 0 .. MaxU16 - 1
  PROVE  Room(o) /\ Fair(o, n)
<1> DEFINE m == 1 + (IF o.var > 0 THEN o.var ELSE 0)
<1>1. /\ SetSRD(o, n).whole = TRUE
      /\ n > 0 => Stands(SetSRD(o, n).items, n, 0, n)
      /\ SetSRD(o, n).items \in Seq(ItemSet)
  BY TECallRawMSD_Reads
<1>2. Full(o) /\ Makes(GetData(o).parts, m)
  BY TECallRawMSD_Writes
<1>3. m \in Nat /\ m > 0 /\ n \in Nat
  <2>1. n \in Nat
    BY U16Rules
  <2> QED
    BY <2>1, SizesKnown
<1> HIDE DEF m
<1>4. Elastic(o) /\ ~Underread(o) /\ o.class # "TEPMainData" /\ o.class # "TInsAccel"
  BY Sorts
<1>5. SetSRD(o, n).whole \in BOOLEAN
  BY <1>1, Zenon
<1>6. CASE n > 0
  <2>1. 0 <= n /\ n \in Nat
    BY <1>3
  <2>2. Mends(o, n, n, 0, m)
    BY <1>1, <1>5, <2>1 DEF Mends, Near
  <2>3. Stands(SetSRD(o, n).items, n, 0, n)
    BY <1>1, <1>6
  <2> QED
    BY <1>2, <1>4, <2>1, <2>2, <2>3, FromLoose, Zenon
<1>7. CASE n = 0
  <2>1. Bytes(GetData(o).parts) = m
    BY <1>2 DEF Makes
  <2>2. Room(o) /\ (~Spills(o) => GetData(o).size = m)
    BY <1>2, <1>4, <2>1, FullRoom
  <2>3. ~Spills(o) => GetData(o).size # n
    BY <1>3, <1>7, <2>2
  <2>4. Skipped(SetSRD(o, n).items) \in Nat
    BY <1>1, ItemsCount
  <2>5. Near(o, n, Skipped(SetSRD(o, n).items))
    BY <1>1 DEF Near
  <2>6. Fair(o, n)
    BY <1>1, <1>4, <1>5, <1>7, <2>3, <2>4, <2>5 DEF Fair
  <2> QED
    BY <2>2, <2>6
<1> QED
  BY <1>3, <1>6, <1>7

LEMMA TEPMainData_Fair ==
  ASSUME NEW o, IsObject(o), o.class = "TEPMainData", NEW n \in Nat
  PROVE  Room(o) /\ Fair(o, n)
<1> DEFINE h == 17 + (IF "locp" \in o.flags THEN 13 ELSE 0)
           e == IF Epevc(o) > 0 THEN 1 + 4 * Epevc(o) ELSE 0
           k == h + 10 * Lbsn(o) + e
           m == h + (10 * Stations(o)) + (IF Epevc(o) > 0 THEN 1 ELSE 0) + (4 * Epevc(o))
<1>1. SetSRD(o, n).whole = FALSE /\ Exact(SetSRD(o, n).items, k)
  BY TEPMainData_Reads
<1>2. GetData(o).size = U16(17 + 13 * Sure("locp" \in o.flags) + 10 * Lbsn(o) + e)
      /\ Makes(GetData(o).parts, m)
  BY TEPMainData_Writes
<1>3. /\ Stations(o) \in Nat /\ Lbsn(o) \in Nat /\ Epevc(o) \in Nat /\ Lbsn(o) <= Stations(o)
      /\ Stations(o) < Capacity["station"] => Lbsn(o) = Stations(o)
      /\ Stations(o) >= Capacity["station"] => Lbsn(o) < Stations(o)
      /\ Capacity["station"] \in Nat
  BY Numbers, CapacityAssumption DEF Counters
<1>4. 17 + 13 * Sure("locp" \in o.flags) + 10 * Lbsn(o) + e = k
  BY <1>3 DEF Sure
<1>5. GetData(o).size = U16(k)
  BY <1>2, <1>4
<1>6. /\ k \in Nat /\ m \in Nat /\ k <= m
      /\ Stations(o) < Capacity["station"] => k = m
      /\ Stations(o) >= Capacity["station"] => k < m
  BY <1>3
<1> HIDE DEF h, e, k, m
<1>7. Bytes(GetData(o).parts) = m /\ GetData(o).parts \in Seq(PartSet)
  BY <1>2 DEF Makes
<1>8. Spills(o) <=> Stations(o) >= Capacity["station"] \/ m >= MaxU16
  BY <1>6, <1>7 DEF Spills, MaxU16
<1>9. Room(o) /\ (~Spills(o) => k = m /\ GetData(o).size = k)
  <2>1. U16(k) \in 0 .. MaxU16 - 1 /\ U16(k) <= k /\ (k < MaxU16 => U16(k) = k)
        /\ (k >= MaxU16 => U16(k) < k) /\ MaxU16 \in Nat
    BY <1>6, U16Rules
  <2>2. U16(k) \in Nat
    BY <2>1
  <2>3. Spills(o) <=> m > U16(k)
    BY <1>3, <1>6, <1>8, <2>1, <2>2
  <2>4. ~Spills(o) => k = m /\ U16(k) = k
    BY <1>3, <1>6, <1>8, <2>1
  <2> QED
    BY <1>5, <1>6, <1>7, <2>1, <2>3, <2>4 DEF Room
<1>10. ~Underread(o)
  BY Sorts
<1>11. Stands(SetSRD(o, n).items, k, k, n)
  BY <1>1, StandsExact, Zenon
<1>12. SetSRD(o, n).whole \in BOOLEAN
  BY <1>1, Zenon
<1>13. Keeps(o, n, k, k)
  BY <1>6, <1>7, <1>9, <1>10, <1>12 DEF Keeps, Near
<1> QED
  BY <1>9, <1>11, <1>13, FromStands, Zenon

(* Rounding up to a multiple of four, *)
LEMMA FourDivides ==
  ASSUME NEW r \in Nat, NEW c \in Nat, r > 0, c < 4 * r
  PROVE  LET q == (c + 3) \div 4
         IN  /\ q \in Nat /\ c <= q * 4 /\ q * 4 \in Nat
             /\ c <= 4 * r - 4 => q * 4 < 4 * r
             /\ c > 4 * r - 4 => q * 4 = 4 * r
<1> DEFINE q == (c + 3) \div 4
<1>1. q \in Nat /\ 4 * q <= c + 3 /\ c < 4 * q + 1
  OBVIOUS
<1> HIDE DEF q
<1>2. q * 4 = 4 * q /\ q * 4 \in Nat /\ c <= q * 4
  BY <1>1
<1>3. c <= 4 * r - 4 => q * 4 < 4 * r
  BY <1>1
<1>4. c > 4 * r - 4 => q = r
  BY <1>1
<1>5. c > 4 * r - 4 => q * 4 = 4 * r
  BY <1>2, <1>4
<1> QED
  BY <1>1, <1>2, <1>3, <1>5 DEF q

(* and the same in 16 bits: what TInsAccel allocates. *)
LEMMA Rounded ==
  ASSUME NEW b \in Nat
  PROVE  LET size == U16(((U16(b) + 3) \div 4) * 4)
         IN  /\ size \in 0 .. MaxU16 - 1
             /\ b <= MaxU16 - 4 => b <= size
             /\ b > MaxU16 - 4 => size < b
<1> DEFINE c == U16(b)
           m == ((c + 3) \div 4) * 4
<1>1. c \in Nat /\ c < MaxU16 /\ (b < MaxU16 => c = b) /\ MaxU16 \in Nat
  BY U16Rules
<1>2. PICK r \in Nat : r > 0 /\ MaxU16 = 4 * r
  <2>1. 16384 \in Nat /\ 16384 > 0 /\ MaxU16 = 4 * 16384
    BY DEF MaxU16
  <2> QED
    BY <2>1
<1> HIDE DEF c
<1>3. /\ m \in Nat /\ c <= m
      /\ c <= MaxU16 - 4 => m < MaxU16
      /\ c > MaxU16 - 4 => m = MaxU16
  BY <1>1, <1>2, FourDivides
<1> HIDE DEF m
<1>4. /\ U16(m) \in 0 .. MaxU16 - 1 /\ U16(m) \in Nat
      /\ m < MaxU16 => U16(m) = m
      /\ m = MaxU16 => U16(m) = 0
  <2>1. m = MaxU16 => m % MaxU16 = 0
    BY <1>1, U16Rules
  <2> QED
    BY <1>3, <2>1, U16Rules DEF U16
<1>5. b <= MaxU16 - 4 => b <= U16(m)
  BY <1>1, <1>3, <1>4
<1>6. b > MaxU16 - 4 => U16(m) < b
  <2>1. MaxU16 > 1000
    BY U16Rules
  <2>2. b < MaxU16 \/ b >= MaxU16
    BY <1>1
  <2>3. b >= MaxU16 => U16(m) < b
    BY <1>1, <1>4
  <2>4. b > MaxU16 - 4 /\ b < MaxU16 => U16(m) = 0 /\ b > 0
    BY <1>1, <1>3, <1>4, <2>1
  <2> QED
    BY <2>2, <2>3, <2>4
<1> QED
  BY <1>4, <1>5, <1>6 DEF m, c

LEMMA TInsAccel_Fair ==
  ASSUME NEW o, IsObject(o), o.class = "TInsAccel", NEW n \in Nat
  PROVE  Room(o) /\ Fair(o, n)
<1> DEFINE k == 4 + (IF "first" \in o.flags THEN 16 ELSE 0) + 2
                  + (IF Packed(o) THEN AxisSize(o, 1) + AxisSize(o, 2) + AxisSize(o, 3) ELSE 0)
                  + (IF o.var > 0 THEN o.var ELSE 0)
           b == Bytes(GetData(o).parts)
<1>1. SetSRD(o, n).whole = TRUE /\ Exact(SetSRD(o, n).items, k)
  BY TInsAccel_Reads
<1>2. GetData(o).size = U16(((U16(b) + 3) \div 4) * 4) /\ Makes(GetData(o).parts, k)
  BY TInsAccel_Writes
<1> HIDE DEF k
<1>3. b = k /\ GetData(o).parts \in Seq(PartSet) /\ k \in Nat
  BY <1>2 DEF Makes
<1>4. Spills(o) <=> b > MaxU16 - 4
  BY <1>3 DEF Spills, MaxU16
<1> HIDE DEF b
<1> DEFINE size == GetData(o).size
<1>5. /\ size \in 0 .. MaxU16 - 1
      /\ b <= MaxU16 - 4 => b <= size
      /\ b > MaxU16 - 4 => size < b
  <2>1. b \in Nat
    BY <1>3
  <2> DEFINE z == U16(((U16(b) + 3) \div 4) * 4)
  <2>2. /\ z \in 0 .. MaxU16 - 1
        /\ b <= MaxU16 - 4 => b <= z
        /\ b > MaxU16 - 4 => z < b
    BY <2>1, Rounded
  <2>3. size = z
    BY <1>2
  <2> HIDE DEF z, size
  <2> QED
    BY <2>2, <2>3
<1> HIDE DEF size
<1>6. (Spills(o) <=> b > size) /\ (~Spills(o) => k <= size) /\ size \in Nat
  <2>1. size \in Nat
    BY <1>5, U16Rules
  <2>2. MaxU16 \in Nat
    BY U16Rules
  <2> QED
    BY <1>3, <1>4, <1>5, <2>1, <2>2
<1>7. Room(o)
  BY <1>3, <1>5, <1>6 DEF Room, b, size
<1>8. ~Underread(o)
  BY Sorts
<1>9. Stands(SetSRD(o, n).items, k, k, n)
  BY <1>1, StandsExact, Zenon
<1>10. SetSRD(o, n).whole \in BOOLEAN
  BY <1>1, Zenon
<1>11. ~(k <= n /\ n < b) /\ (~Spills(o) /\ n = size => k <= n)
  BY <1>3, <1>6
<1>12. Keeps(o, n, k, k)
  BY <1>1, <1>8, <1>10, <1>11 DEF Keeps, Near, b, size
<1> QED
  BY <1>7, <1>9, <1>12, FromStands, Zenon

(* What every class does. *)
LEMMA ObjectFair ==
  ASSUME NEW o, IsObject(o), NEW n \in 0 .. MaxU16 - 1
  PROVE  Room(o) /\ Fair(o, n)
<1>1. n \in Nat
  BY U16Rules
<1>2. o.class \in Classes
  BY DEF IsObject
<1> QED
  BY <1>1, <1>2, TCommandData_Fair, TECallRawMSD_Fair, TECallMSD_Fair, TEPCompData_Fair,
     TEPSignature_Fair, TEPAccelData3_Fair, TEPTrackData_Fair, TEPMainData_Fair, TTermIdent_Fair,
     TTermIdent2_Fair, TDispIdent_Fair, TAuthInfo_Fair, TInsAccel_Fair, TPlusData_Fair,
     TPosData_Fair, TExtPosData_Fair, TAdSensors_Fair, TCounters_Fair, TLiquidLevel_Fair,
     TPassengers_Fair, Body_Fair DEF Classes

(***************************************************************************)
(* The invariant: what is in the buffer are the first parts, at the sums of *)
(* their sizes; what is in the fields are items that were reached and kept. *)
(***************************************************************************)
Sent   == GetData(object).parts
Wanted == SetSRD(object, offered).items

Copied(k) ==
  buffer = [ i \in 1 .. k |-> Placed(Sent[i].field, Sent[i].nth, UpTo(Sent, BytesOf, i - 1), Sent[i].bytes) ]

(* t is what is left of s after its first d elements. *)
Remains(t, s, d) ==
  /\ d \in 0 .. Len(s) /\ Len(t) = Len(s) - d
  /\ \A j \in 1 .. Len(t) : t[j] = s[d + j]

(* The first i items found what they need. *)
Passed(s, i, n) == \A l \in 1 .. i : Fits(s[l], At(s, l - 1), n)
FieldSet == [ field : Names, nth : Nat, at : Nat, bytes : Nat ]
FromItem(f, s, i, n) ==
  s[i].keep > 0 /\ Passed(s, i, n) /\ f = Placed(s[i].field, s[i].nth, At(s, i - 1), s[i].keep)
Taken(fs, s, n) == \A j \in 1 .. Len(fs) : \E i \in 1 .. Len(s) : FromItem(fs[j], s, i, n)
(* Of the first d items none is missing. *)
Kept(fs, s, d) ==
  \A i \in 1 .. d : s[i].keep > 0 =>
    \E j \in 1 .. Len(fs) : fs[j] = Placed(s[i].field, s[i].nth, At(s, i - 1), s[i].keep)

Still   == ok = 0 /\ takes = 0
Empty   == buffer = << >> /\ fields = << >> /\ room = 0 /\ offered = 0
Writing == \E k \in 0 .. Len(Sent) :
             Copied(k) /\ todo \in Seq(PartSet) /\ Remains(todo, Sent, k) /\ pos = UpTo(Sent, BytesOf, k)
Reading == \E d \in 0 .. Len(Wanted) :
             /\ todo \in Seq(ItemSet) /\ Remains(todo, Wanted, d)
             /\ pos = At(Wanted, d) /\ Passed(Wanted, d, offered) /\ Kept(fields, Wanted, d)
Encoded == ~Unwritable(object) /\ room = GetData(object).size
Arrived == Encoded /\ Copied(Len(Sent)) /\ ~Spills(object)
Returned ==
  \/ /\ ok = 1 /\ PassesAt(Wanted, 0, offered) /\ Kept(fields, Wanted, Len(Wanted))
     /\ takes = IF SetSRD(object, offered).whole THEN offered ELSE Skipped(Wanted)
  \/ Still /\ ~PassesAt(Wanted, 0, offered)

IInv ==
  /\ object \in Objects /\ offered \in 0 .. MaxU16 - 1
  /\ fields \in Seq(FieldSet) /\ Taken(fields, Wanted, offered)
  /\ todo \in Seq(PartSet) \cup Seq(ItemSet) /\ pos \in Nat
  /\ \/ phase = "new" /\ Empty /\ Still /\ todo = << >> /\ pos = 0
     \/ phase = "writing" /\ fields = << >> /\ offered = 0 /\ Still /\ Encoded /\ Writing
     \/ phase = "reading" /\ Still /\ Arrived /\ Reading
     \/ phase = "done" /\ Unwritable(object) /\ Empty /\ Still
     \/ phase = "done" /\ Arrived /\ Returned
(* The head of what remains of s behind d elements. *)
LEMMA RemainsStep ==
  ASSUME NEW S, NEW s \in Seq(S), NEW t \in Seq(S), NEW d, Remains(t, s, d), t # << >>
  PROVE  /\ d + 1 \in 1 .. Len(s) /\ Head(t) = s[d + 1] /\ d \in 0 .. Len(s)
         /\ Tail(t) \in Seq(S) /\ Remains(Tail(t), s, d + 1)
<1>1. d \in 0 .. Len(s) /\ Len(t) = Len(s) - d /\ \A j \in 1 .. Len(t) : t[j] = s[d + j]
  BY DEF Remains
<1>2. Len(t) \in Nat /\ Len(t) > 0 /\ Len(s) \in Nat /\ d \in Nat
  BY <1>1
<1>3. d + 1 \in 1 .. Len(s) /\ d + 1 \in 0 .. Len(s)
  BY <1>1, <1>2
<1>4. Head(t) = s[d + 1]
  BY <1>1, <1>2
<1>5. Tail(t) \in Seq(S) /\ Len(Tail(t)) = Len(t) - 1
  BY <1>2
<1>6. ASSUME NEW j \in 1 .. Len(Tail(t))
      PROVE  Tail(t)[j] = s[(d + 1) + j]
  <2>1. j + 1 \in 1 .. Len(t) /\ Tail(t)[j] = t[j + 1]
    BY <1>2, <1>5
  <2>2. d + (j + 1) = (d + 1) + j
    BY <1>2
  <2> QED
    BY <1>1, <2>1, <2>2
<1>7. Len(Tail(t)) = Len(s) - (d + 1)
  BY <1>1, <1>2, <1>5
<1>8. Remains(Tail(t), s, d + 1)
  BY <1>3, <1>6, <1>7 DEF Remains
<1> QED
  BY <1>1, <1>3, <1>4, <1>5, <1>8

(* At first everything remains, *)
LEMMA RemainsAll ==
  ASSUME NEW S, NEW s \in Seq(S)
  PROVE  Remains(s, s, 0)
BY DEF Remains

(* and at last nothing. *)
LEMMA RemainsNone ==
  ASSUME NEW S, NEW s \in Seq(S), NEW t, Len(t) = 0, NEW d, Remains(t, s, d)
  PROVE  d = Len(s)
BY DEF Remains

(* PassesAt and InsideAt from the first byte on, by the items that were reached. *)
LEMMA FromTheFirst ==
  ASSUME NEW s \in Seq(ItemSet), NEW n \in Nat
  PROVE  /\ PassesAt(s, 0, n) <=> Passed(s, Len(s), n)
         /\ InsideAt(s, 0, n) => \A i \in 1 .. Len(s) :
              Passed(s, i, n) /\ s[i].keep > 0 => At(s, i - 1) + s[i].keep <= n
<1>1. \A i \in 1 .. Len(s) : i - 1 \in 0 .. Len(s) /\ 0 + At(s, i - 1) = At(s, i - 1)
  <2> SUFFICES ASSUME NEW i \in 1 .. Len(s)
               PROVE  i - 1 \in 0 .. Len(s) /\ 0 + At(s, i - 1) = At(s, i - 1)
    OBVIOUS
  <2>1. i - 1 \in 0 .. Len(s)
    OBVIOUS
  <2>2. At(s, i - 1) \in Nat
    BY <2>1, AtDefined
  <2> QED
    BY <2>1, <2>2
<1>2. PassesAt(s, 0, n) <=> Passed(s, Len(s), n)
  BY <1>1 DEF PassesAt, Passed
<1>3. ASSUME InsideAt(s, 0, n), NEW i \in 1 .. Len(s), Passed(s, i, n), s[i].keep > 0
      PROVE  At(s, i - 1) + s[i].keep <= n
  <2>1. \A j \in 1 .. i : j \in 1 .. Len(s)
    OBVIOUS
  <2>2. \A j \in 1 .. i : Fits(s[j], 0 + At(s, j - 1), n)
    BY <1>1, <1>3, <2>1 DEF Passed
  <2>3. 0 + At(s, i - 1) + s[i].keep <= n
    BY <1>3, <2>2 DEF InsideAt
  <2> QED
    BY <1>1, <2>3
<1> QED
  BY <1>2, <1>3

(* What is known of the object in any state. *)
LEMMA TheObject ==
  ASSUME object \in Objects, offered \in 0 .. MaxU16 - 1
  PROVE  IsObject(object) /\ Room(object) /\ Fair(object, offered)
BY ObjectsAssumption, ObjectFair

(* The parts of the object, and the offsets they are copied to. *)
LEMMA SentParts ==
  ASSUME object \in Objects
  PROVE  /\ IsObject(object) /\ Room(object) /\ Sent \in Seq(PartSet)
         /\ UpTo(Sent, BytesOf, 0) = 0 /\ UpTo(Sent, BytesOf, Len(Sent)) = Bytes(Sent)
         /\ \A i \in 0 .. Len(Sent) : UpTo(Sent, BytesOf, i) \in Nat
         /\ \A i \in 1 .. Len(Sent) : /\ Sent[i] \in PartSet
                                      /\ UpTo(Sent, BytesOf, i) = UpTo(Sent, BytesOf, i - 1) + Sent[i].bytes
                                      /\ UpTo(Sent, BytesOf, i) <= Bytes(Sent)
<1>1. 0 \in 0 .. MaxU16 - 1
  BY U16Rules
<1>2. IsObject(object) /\ Room(object)
  BY <1>1, ObjectsAssumption, ObjectFair
<1>3. Sent \in Seq(PartSet)
  BY <1>2 DEF Room, Sent
<1> HIDE DEF Sent
<1>4. \A i \in 1 .. Len(Sent) : Sent[i] \in PartSet /\ BytesOf[Sent[i]] = Sent[i].bytes
  BY <1>3 DEF BytesOf
<1>5. BytesOf \in [PartSet -> Nat] /\ Bytes(Sent) = Weight(Sent, BytesOf)
  BY <1>3, WeightsOfParts
<1>6. /\ UpTo(Sent, BytesOf, 0) = 0
      /\ \A i \in 1 .. Len(Sent) : UpTo(Sent, BytesOf, i) = UpTo(Sent, BytesOf, i - 1) + BytesOf[Sent[i]]
      /\ \A i \in 0 .. Len(Sent) : UpTo(Sent, BytesOf, i) \in Nat
      /\ Weight(Sent, BytesOf) = UpTo(Sent, BytesOf, Len(Sent))
  BY <1>3, <1>5, UpToDefined, Zenon
<1>7. ASSUME NEW i \in 1 .. Len(Sent)
      PROVE  UpTo(Sent, BytesOf, i) <= Bytes(Sent)
  <2>1. i \in 0 .. Len(Sent) /\ Len(Sent) \in i .. Len(Sent)
    BY <1>3
  <2>2. UpTo(Sent, BytesOf, i) <= UpTo(Sent, BytesOf, Len(Sent))
    BY <1>3, <1>5, <2>1, UpToGrows, Zenon
  <2> QED
    BY <1>5, <1>6, <2>2
<1> QED
  BY <1>2, <1>3, <1>4, <1>5, <1>6, <1>7

(* The items of its class, and the offsets they are read at. *)
LEMMA WantedItems ==
  ASSUME object \in Objects, offered \in 0 .. MaxU16 - 1
  PROVE  /\ Wanted \in Seq(ItemSet) /\ offered \in Nat
         /\ At(Wanted, 0) = 0 /\ At(Wanted, Len(Wanted)) = Skipped(Wanted) /\ Skipped(Wanted) \in Nat
         /\ \A i \in 0 .. Len(Wanted) : At(Wanted, i) \in Nat
         /\ \A i \in 1 .. Len(Wanted) : Wanted[i] \in ItemSet /\ At(Wanted, i) = At(Wanted, i - 1)
             + Wanted[i].skip
<1>1. Wanted \in Seq(ItemSet)
  BY TheObject DEF Fair, Wanted
<1>2. offered \in Nat
  BY U16Rules
<1> HIDE DEF Wanted
<1>3. \A i \in 1 .. Len(Wanted) : Wanted[i] \in ItemSet
  BY <1>1
<1> QED
  BY <1>1, <1>2, <1>3, AtDefined
-----------------------------------------------------------------------------
(* The steps.                                                              *)
(* A sequence is the function of its elements. *)
LEMMA AsFunction ==
  ASSUME NEW S, NEW s \in Seq(S)
  PROVE  s = [ i \in 1 .. Len(s) |-> s[i] ]
OBVIOUS

(* Nothing is offered at first. *)
LEMMA NoOffer == 0 \in 0 .. MaxU16 - 1
BY U16Rules

(* The invariant holds initially, and every action keeps it. *)
LEMMA Init_IInv == Init => IInv
<1> SUFFICES ASSUME Init
             PROVE  IInv
  OBVIOUS
<1>1. fields = << >> /\ todo = << >> /\ Len(fields) = 0
  BY DEF Init
<1>2. fields \in Seq(FieldSet) /\ todo \in Seq(PartSet)
  BY <1>1
<1>3. Taken(fields, Wanted, offered)
  BY <1>1 DEF Taken
<1>4. offered \in 0 .. MaxU16 - 1 /\ object \in Objects /\ pos \in Nat
  BY NoOffer DEF Init
<1> QED
  BY <1>2, <1>3, <1>4 DEF Init, IInv, Empty, Still

LEMMA Prepare_IInv == IInv /\ PrepareGetData => IInv'
<1> SUFFICES ASSUME IInv, PrepareGetData
             PROVE  IInv'
  OBVIOUS
<1>1. /\ phase = "new" /\ ~Unwritable(object) /\ phase' = "writing"
      /\ room' = GetData(object).size /\ todo' = Sent
      /\ object' = object /\ buffer' = buffer /\ offered' = offered /\ fields' = fields
      /\ pos' = pos /\ ok' = ok /\ takes' = takes
  BY DEF PrepareGetData, Sent
<1>2. /\ object \in Objects /\ offered \in 0 .. MaxU16 - 1 /\ Empty /\ Still /\ pos = 0
      /\ fields \in Seq(FieldSet) /\ Taken(fields, Wanted, offered)
  BY <1>1 DEF IInv
<1>3. buffer = << >> /\ fields = << >> /\ offered = 0
  BY <1>2 DEF Empty
<1>4. Sent \in Seq(PartSet) /\ UpTo(Sent, BytesOf, 0) = 0
  BY <1>2, SentParts
<1>5. Sent' = Sent /\ Wanted' = Wanted
  BY <1>1 DEF Sent, Wanted
<1>6. Copied(0)'
  BY <1>1, <1>3 DEF Copied
<1> HIDE DEF Sent, Wanted
<1>7. Remains(Sent, Sent, 0)
  BY <1>4, RemainsAll
<1>8. Writing'
  <2>1. 0 \in 0 .. Len(Sent)
    BY <1>4
  <2>2. (pos = UpTo(Sent, BytesOf, 0))'
    BY <1>1, <1>2, <1>4, <1>5
  <2>3. (todo \in Seq(PartSet) /\ Remains(todo, Sent, 0))'
    BY <1>1, <1>4, <1>5, <1>7
  <2>4. (0 \in 0 .. Len(Sent))'
    BY <1>5, <2>1
  <2> QED
    BY <1>6, <2>2, <2>3, <2>4 DEF Writing
<1>9. Still' /\ Encoded'
  BY <1>1, <1>2 DEF Still, Encoded
<1>10. /\ (object \in Objects)' /\ (offered \in 0 .. MaxU16 - 1)' /\ (fields \in Seq(FieldSet))'
       /\ Taken(fields, Wanted, offered)' /\ (todo \in Seq(PartSet))' /\ (pos \in Nat)'
       /\ (fields = << >> /\ offered = 0)'
  BY <1>1, <1>2, <1>3, <1>4, <1>5
<1> QED
  BY <1>1, <1>8, <1>9, <1>10 DEF IInv

LEMMA Refuse_IInv == IInv /\ RefuseToWrite => IInv'
<1> SUFFICES ASSUME IInv, RefuseToWrite
             PROVE  IInv'
  OBVIOUS
<1>1. /\ phase = "new" /\ Unwritable(object) /\ phase' = "done" /\ todo' = todo /\ room' = room
      /\ object' = object /\ buffer' = buffer /\ offered' = offered /\ fields' = fields
      /\ pos' = pos /\ ok' = ok /\ takes' = takes
  BY DEF RefuseToWrite
<1>2. /\ object \in Objects /\ offered \in 0 .. MaxU16 - 1 /\ Empty /\ Still
      /\ fields \in Seq(FieldSet) /\ Taken(fields, Wanted, offered)
      /\ todo \in Seq(PartSet) \cup Seq(ItemSet) /\ pos \in Nat
  BY <1>1 DEF IInv
<1>3. Wanted' = Wanted
  BY <1>1 DEF Wanted
<1> HIDE DEF Wanted
<1>4. Empty' /\ Still' /\ Unwritable(object')
  BY <1>1, <1>2 DEF Empty, Still
<1>5. /\ (object \in Objects)' /\ (offered \in 0 .. MaxU16 - 1)' /\ (fields \in Seq(FieldSet))'
      /\ Taken(fields, Wanted, offered)' /\ (todo \in Seq(PartSet) \cup Seq(ItemSet))' /\ (pos \in Nat)'
  BY <1>1, <1>2, <1>3
<1> QED
  BY <1>1, <1>4, <1>5 DEF IInv

LEMMA CopyIn_IInv == IInv /\ CopyIn => IInv'
<1> SUFFICES ASSUME IInv, CopyIn
             PROVE  IInv'
  OBVIOUS
<1>1. /\ phase = "writing" /\ todo # << >> /\ phase' = phase /\ todo' = Tail(todo) /\ room' = room
      /\ buffer' = Append(buffer, Placed(Head(todo).field, Head(todo).nth, pos, Head(todo).bytes))
      /\ pos' = pos + Head(todo).bytes
      /\ object' = object /\ offered' = offered /\ fields' = fields /\ ok' = ok /\ takes' = takes
  BY DEF CopyIn
<1>2. /\ object \in Objects /\ offered \in 0 .. MaxU16 - 1 /\ fields = << >> /\ offered = 0
      /\ Still /\ Encoded /\ Writing
      /\ fields \in Seq(FieldSet) /\ Taken(fields, Wanted, offered)
  BY <1>1 DEF IInv
<1>3. PICK k \in 0 .. Len(Sent) :
        Copied(k) /\ todo \in Seq(PartSet) /\ Remains(todo, Sent, k) /\ pos = UpTo(Sent, BytesOf, k)
  BY <1>2 DEF Writing
<1>4. /\ Sent \in Seq(PartSet)
      /\ \A i \in 0 .. Len(Sent) : UpTo(Sent, BytesOf, i) \in Nat
      /\ \A i \in 1 .. Len(Sent) : UpTo(Sent, BytesOf, i) = UpTo(Sent, BytesOf, i - 1) + Sent[i].bytes
  BY <1>2, SentParts
<1>5. Sent' = Sent /\ Wanted' = Wanted
  BY <1>1 DEF Sent, Wanted
<1> HIDE DEF Sent, Wanted
<1>6. /\ k + 1 \in 1 .. Len(Sent) /\ Head(todo) = Sent[k + 1] /\ k \in Nat
      /\ Tail(todo) \in Seq(PartSet) /\ Remains(Tail(todo), Sent, k + 1)
  <2>1. k \in Nat
    BY <1>4
  <2> QED
    BY <1>1, <1>3, <1>4, <2>1, RemainsStep
<1> DEFINE P(i) == Placed(Sent[i].field, Sent[i].nth, UpTo(Sent, BytesOf, i - 1), Sent[i].bytes)
<1>7. buffer = [ i \in 1 .. k |-> P(i) ]
  BY <1>3 DEF Copied
<1>8. buffer' = Append(buffer, P(k + 1))
  BY <1>1, <1>3, <1>6
<1>9. buffer' = [ i \in 1 .. k + 1 |-> P(i) ]
  <2> HIDE DEF P
  <2> DEFINE q == P(k + 1)
  <2>1. Append(buffer, q) = [ i \in 1 .. k + 1 |-> IF i = k + 1 THEN q ELSE P(i) ]
    <3>1. buffer \in Seq({ P(i) : i \in 1 .. k }) /\ Len(buffer) = k
      BY <1>6, <1>7
    <3> HIDE DEF q
    <3>2. /\ Append(buffer, q) \in Seq({ P(i) : i \in 1 .. k } \cup {q})
          /\ Len(Append(buffer, q)) = k + 1
          /\ \A i \in 1 .. k + 1 : Append(buffer, q)[i] = IF i = k + 1 THEN q ELSE buffer[i]
      BY <1>6, <3>1
    <3>3. \A i \in 1 .. k + 1 : i # k + 1 => buffer[i] = P(i)
      BY <1>6, <1>7
    <3>5. Append(buffer, q) = [ i \in 1 .. k + 1 |-> Append(buffer, q)[i] ]
      BY <3>2, AsFunction
    <3> QED
      BY <3>2, <3>3, <3>5
  <2> QED
    BY <1>8, <2>1
<1>10. Copied(k + 1)'
  BY <1>5, <1>9 DEF Copied
<1> HIDE DEF P
<1>11. Writing'
  <2>1. k + 1 \in 0 .. Len(Sent) /\ k \in 0 .. Len(Sent) /\ (k + 1) - 1 = k
    BY <1>4, <1>6
  <2>2. pos' = UpTo(Sent, BytesOf, k + 1)
    BY <1>1, <1>3, <1>4, <1>6, <2>1
  <2>3. (k + 1 \in 0 .. Len(Sent))' /\ (pos = UpTo(Sent, BytesOf, k + 1))'
    BY <1>5, <2>1, <2>2
  <2>4. (todo \in Seq(PartSet) /\ Remains(todo, Sent, k + 1))'
    BY <1>1, <1>5, <1>6
  <2> QED
    BY <1>10, <2>3, <2>4 DEF Writing
<1>12. Still' /\ Encoded'
  BY <1>1, <1>2 DEF Still, Encoded
<1>13. (pos \in Nat)' /\ (todo \in Seq(PartSet))'
  <2>1. k + 1 \in 0 .. Len(Sent) /\ k \in 0 .. Len(Sent) /\ (k + 1) - 1 = k
    BY <1>4, <1>6
  <2>2. pos' = UpTo(Sent, BytesOf, k + 1)
    BY <1>1, <1>3, <1>4, <1>6, <2>1
  <2> QED
    BY <1>1, <1>4, <1>6, <2>1, <2>2
<1>14. /\ (object \in Objects)' /\ (offered \in 0 .. MaxU16 - 1)' /\ (fields \in Seq(FieldSet))'
       /\ Taken(fields, Wanted, offered)' /\ (fields = << >> /\ offered = 0)'
  BY <1>1, <1>2, <1>5
<1> QED
  BY <1>1, <1>11, <1>12, <1>13, <1>14 DEF IInv

(* What is in the buffer when everything is copied. *)
LEMMA AllCopied ==
  ASSUME object \in Objects, Copied(Len(Sent))
  PROVE  /\ Bytes(buffer) = Bytes(Sent)
         /\ room = GetData(object).size => (Overrun <=> Spills(object))
<1>1. /\ Sent \in Seq(PartSet) /\ Room(object)
      /\ UpTo(Sent, BytesOf, 0) = 0 /\ UpTo(Sent, BytesOf, Len(Sent)) = Bytes(Sent)
      /\ \A i \in 0 .. Len(Sent) : UpTo(Sent, BytesOf, i) \in Nat
      /\ \A i \in 1 .. Len(Sent) : /\ UpTo(Sent, BytesOf, i) = UpTo(Sent, BytesOf, i - 1) + Sent[i].bytes
                                   /\ UpTo(Sent, BytesOf, i) <= Bytes(Sent)
  BY SentParts
<1>2. /\ Bytes(Sent) \in Nat /\ GetData(object).size \in 0 .. MaxU16 - 1
      /\ Spills(object) <=> Bytes(Sent) > GetData(object).size
  BY <1>1 DEF Room, Sent
<1>3. GetData(object).size \in Nat
  BY <1>2, U16Rules
<1> HIDE DEF Sent
<1>4. DOMAIN buffer = 1 .. Len(Sent) /\ DOMAIN Sent = 1 .. Len(Sent)
  BY <1>1 DEF Copied
<1>5. \A i \in 1 .. Len(Sent) : buffer[i].bytes = Sent[i].bytes /\ buffer[i].at = UpTo(Sent, BytesOf, i - 1)
  BY DEF Copied, Placed
<1>6. Bytes(buffer) = Bytes(Sent)
  <2>1. [ i \in DOMAIN buffer |-> buffer[i].bytes ] = [ i \in DOMAIN Sent |-> Sent[i].bytes ]
    BY <1>4, <1>5
  <2> QED
    BY <2>1 DEF Bytes
<1>7. \A i \in 1 .. Len(Sent) : buffer[i].at + buffer[i].bytes = UpTo(Sent, BytesOf, i)
  BY <1>1, <1>5
<1>8. ASSUME room = GetData(object).size
      PROVE  Overrun <=> Spills(object)
  <2>1. ASSUME Overrun
        PROVE  Spills(object)
    <3>1. PICK i \in DOMAIN buffer : buffer[i].at + buffer[i].bytes > room
      BY <2>1 DEF Overrun
    <3>2. i \in 1 .. Len(Sent) /\ i \in 0 .. Len(Sent)
      BY <1>1, <1>4
    <3>3. UpTo(Sent, BytesOf, i) > room /\ UpTo(Sent, BytesOf, i) <= Bytes(Sent)
              /\ UpTo(Sent, BytesOf, i) \in Nat
      BY <1>1, <1>7, <3>1, <3>2
    <3> QED
      BY <1>2, <1>3, <1>8, <3>3
  <2>2. ASSUME Spills(object)
        PROVE  Overrun
    <3>1. Bytes(Sent) > room /\ room \in Nat
      BY <1>2, <1>3, <1>8, <2>2
    <3>2. Len(Sent) \in 1 .. Len(Sent)
      <4>1. Len(Sent) # 0
        BY <1>1, <1>2, <3>1
      <4> QED
        BY <1>1, <4>1
    <3>3. buffer[Len(Sent)].at + buffer[Len(Sent)].bytes = Bytes(Sent)
      BY <1>1, <1>7, <3>2
    <3> QED
      BY <1>4, <3>1, <3>2, <3>3 DEF Overrun
  <2> QED
    BY <2>1, <2>2
<1> QED
  BY <1>6, <1>8

(* SetSRD begins with all its items left and nothing kept. *)
LEMMA Arrive_IInv == ASSUME NEW n \in Lengths PROVE IInv /\ Arrive(n) => IInv'
<1> SUFFICES ASSUME IInv, Arrive(n)
             PROVE  IInv'
  OBVIOUS
<1>1. /\ phase = "writing" /\ todo = << >> /\ ~Overrun /\ phase' = "reading" /\ offered' = n
      /\ todo' = SetSRD(object, n).items /\ pos' = 0
      /\ object' = object /\ room' = room /\ buffer' = buffer /\ fields' = fields
      /\ ok' = ok /\ takes' = takes
  BY DEF Arrive
<1>2. /\ object \in Objects /\ fields = << >> /\ Still /\ Encoded /\ Writing /\ fields \in Seq(FieldSet)
  BY <1>1 DEF IInv
<1>3. n \in 0 .. MaxU16 - 1
  BY DEF Lengths
<1>4. (object \in Objects)' /\ (offered \in 0 .. MaxU16 - 1)'
  BY <1>1, <1>2, <1>3
<1>5. Sent' = Sent /\ Wanted' = SetSRD(object, n).items /\ todo' = Wanted'
  BY <1>1 DEF Sent, Wanted
<1>6. IsObject(object) /\ Fair(object, n)
  BY <1>2, <1>3, ObjectsAssumption, ObjectFair
<1>7. SetSRD(object, n).items \in Seq(ItemSet)
  BY <1>6 DEF Fair
<1>8. Copied(Len(Sent))
  <2>1. PICK k \in 0 .. Len(Sent) : Copied(k) /\ Remains(todo, Sent, k)
    BY <1>2 DEF Writing
  <2>2. Sent \in Seq(PartSet)
    BY <1>2, SentParts
  <2>3. Len(todo) = 0
    BY <1>1
  <2>4. k = Len(Sent)
    BY <2>1, <2>2, <2>3, RemainsNone
  <2> QED
    BY <2>1, <2>4
<1>9. ~Spills(object)
  BY <1>1, <1>2, <1>8, AllCopied DEF Encoded
<1> DEFINE w == SetSRD(object, n).items
<1>10. w \in Seq(ItemSet) /\ Remains(w, w, 0) /\ At(w, 0) = 0 /\ Passed(w, 0, n) /\ 0 \in 0 .. Len(w)
  <2>1. w \in Seq(ItemSet)
    BY <1>7
  <2> HIDE DEF w
  <2> QED
    BY <2>1, RemainsAll, AtDefined DEF Passed
<1> HIDE DEF w
<1>11. Wanted' = w /\ todo' = w
  BY <1>5 DEF w
<1> HIDE DEF Sent, Wanted
<1>12. Reading'
  <2>1. (/\ 0 \in 0 .. Len(Wanted) /\ todo \in Seq(ItemSet) /\ Remains(todo, Wanted, 0)
         /\ pos = At(Wanted, 0) /\ Passed(Wanted, 0, offered) /\ Kept(fields, Wanted, 0))'
    BY <1>1, <1>10, <1>11 DEF Kept
  <2> QED
    BY <2>1 DEF Reading
<1>13. Copied(Len(Sent))'
  BY <1>1, <1>5, <1>8 DEF Copied
<1>14. Still' /\ Encoded'
  BY <1>1, <1>2 DEF Still, Encoded
<1>15. Arrived'
  BY <1>1, <1>9, <1>13, <1>14 DEF Arrived
<1>16. (fields \in Seq(FieldSet))' /\ Taken(fields, Wanted, offered)'
  BY <1>1, <1>2 DEF Taken
<1>17. (pos \in Nat)' /\ (todo \in Seq(ItemSet))'
  BY <1>1, <1>10, <1>11
<1> QED
  BY <1>1, <1>4, <1>12, <1>14, <1>15, <1>16, <1>17 DEF IInv

(* The next item is reached: every item in front of it did pass. *)
LEMMA CopyOut_IInv == IInv /\ CopyOut => IInv'
<1> SUFFICES ASSUME IInv, CopyOut
             PROVE  IInv'
  OBVIOUS
<1>1. /\ phase = "reading" /\ todo # << >> /\ Fits(Head(todo), pos, offered) /\ phase' = phase
      /\ fields' = IF Head(todo).keep = 0 THEN fields
                   ELSE Append(fields, Placed(Head(todo).field, Head(todo).nth, pos, Head(todo).keep))
      /\ pos' = pos + Head(todo).skip /\ todo' = Tail(todo)
      /\ object' = object /\ room' = room /\ buffer' = buffer /\ offered' = offered
      /\ ok' = ok /\ takes' = takes
  BY DEF CopyOut
<1>2. /\ object \in Objects /\ offered \in 0 .. MaxU16 - 1 /\ Still /\ Arrived /\ Reading
      /\ fields \in Seq(FieldSet) /\ Taken(fields, Wanted, offered)
  BY <1>1 DEF IInv
<1>3. PICK d \in 0 .. Len(Wanted) :
        /\ todo \in Seq(ItemSet) /\ Remains(todo, Wanted, d)
        /\ pos = At(Wanted, d) /\ Passed(Wanted, d, offered) /\ Kept(fields, Wanted, d)
  BY <1>2 DEF Reading
<1>4. /\ Wanted \in Seq(ItemSet)
      /\ \A i \in 0 .. Len(Wanted) : At(Wanted, i) \in Nat
      /\ \A i \in 1 .. Len(Wanted) :
           Wanted[i] \in ItemSet /\ At(Wanted, i) = At(Wanted, i - 1) + Wanted[i].skip
  BY <1>2, WantedItems
<1>5. Sent' = Sent /\ Wanted' = Wanted
  BY <1>1 DEF Sent, Wanted
<1> HIDE DEF Sent, Wanted
<1>6. /\ d + 1 \in 1 .. Len(Wanted) /\ Head(todo) = Wanted[d + 1] /\ d \in Nat
      /\ Tail(todo) \in Seq(ItemSet) /\ Remains(Tail(todo), Wanted, d + 1)
      /\ (d + 1) - 1 = d /\ d + 1 \in 0 .. Len(Wanted)
  <2>1. d \in Nat
    BY <1>4
  <2>2. /\ d + 1 \in 1 .. Len(Wanted) /\ Head(todo) = Wanted[d + 1]
        /\ Tail(todo) \in Seq(ItemSet) /\ Remains(Tail(todo), Wanted, d + 1)
    BY <1>1, <1>3, <1>4, RemainsStep
  <2> QED
    BY <1>4, <2>1, <2>2
<1>7. pos' = At(Wanted, d + 1) /\ pos' \in Nat
  BY <1>1, <1>3, <1>4, <1>6
<1>8. Fits(Wanted[d + 1], At(Wanted, (d + 1) - 1), offered)
  BY <1>1, <1>3, <1>6
<1>9. Passed(Wanted, d + 1, offered)
  <2>1. \A l \in 1 .. d + 1 : l \in 1 .. d \/ l = d + 1
    BY <1>6
  <2> QED
    BY <1>3, <1>8, <2>1 DEF Passed
<1>k. Kept(fields', Wanted, d + 1)
  <2> DEFINE f == Placed(Wanted[d + 1].field, Wanted[d + 1].nth, At(Wanted, d), Wanted[d + 1].keep)
  <2>1. CASE Wanted[d + 1].keep = 0
    <3>1. fields' = fields
      BY <1>1, <1>6, <2>1
    <3>2. ASSUME NEW i \in 1 .. d + 1, Wanted[i].keep > 0
          PROVE  i \in 1 .. d
      BY <1>6, <2>1, <3>2
    <3> QED
      BY <1>3, <3>1, <3>2 DEF Kept
  <2>2. CASE Wanted[d + 1].keep # 0
    <3>1. fields' = Append(fields, f)
      BY <1>1, <1>3, <1>6, <2>2
    <3>2. f \in FieldSet
      <4>1. Wanted[d + 1] \in ItemSet /\ At(Wanted, d) \in Nat
        BY <1>4, <1>6
      <4> QED
        BY <4>1 DEF Placed, FieldSet, ItemSet
    <3> HIDE DEF f
    <3>3. /\ Len(fields') = Len(fields) + 1 /\ Len(fields) \in Nat
          /\ \A j \in 1 .. Len(fields) : fields'[j] = fields[j]
          /\ fields'[Len(fields) + 1] = f
      BY <1>2, <3>1, <3>2
    <3>4. \A j \in 1 .. Len(fields) : j \in 1 .. Len(fields')
      BY <3>3
    <3>5. ASSUME NEW i \in 1 .. d + 1, Wanted[i].keep > 0
          PROVE  \E j \in 1 .. Len(fields') :
                   fields'[j] = Placed(Wanted[i].field, Wanted[i].nth, At(Wanted, i - 1), Wanted[i].keep)
      <4>1. CASE i = d + 1
        <5>1. Len(fields) + 1 \in 1 .. Len(fields')
          BY <3>3
        <5> QED
          BY <1>6, <3>3, <4>1, <5>1 DEF f
      <4>2. CASE i # d + 1
        <5>1. i \in 1 .. d
          BY <1>6, <4>2
        <5> QED
          BY <1>3, <3>3, <3>4, <3>5, <5>1 DEF Kept
      <4> QED
        BY <4>1, <4>2
    <3> QED
      BY <3>5 DEF Kept
  <2> QED
    BY <2>1, <2>2
<1>10. Reading'
  <2>1. (/\ d + 1 \in 0 .. Len(Wanted) /\ todo \in Seq(ItemSet) /\ Remains(todo, Wanted, d + 1)
         /\ pos = At(Wanted, d + 1) /\ Passed(Wanted, d + 1, offered) /\ Kept(fields, Wanted, d + 1))'
    BY <1>1, <1>5, <1>6, <1>7, <1>9, <1>k
  <2> QED
    BY <2>1 DEF Reading
<1>11. (fields' \in Seq(FieldSet)) /\ Taken(fields', Wanted, offered)
  <2> DEFINE f == Placed(Wanted[d + 1].field, Wanted[d + 1].nth, At(Wanted, d), Wanted[d + 1].keep)
  <2>1. CASE Wanted[d + 1].keep = 0
    BY <1>1, <1>2, <1>6, <2>1
  <2>2. CASE Wanted[d + 1].keep # 0
    <3>1. fields' = Append(fields, f)
      BY <1>1, <1>3, <1>6, <2>2
    <3>2. f \in FieldSet /\ Wanted[d + 1].keep > 0
      <4>1. Wanted[d + 1] \in ItemSet /\ At(Wanted, d) \in Nat
        BY <1>4, <1>6
      <4> QED
        BY <2>2, <4>1 DEF Placed, FieldSet, ItemSet
    <3>3. FromItem(f, Wanted, d + 1, offered)
      BY <1>6, <1>9, <3>2 DEF FromItem
    <3> HIDE DEF f
    <3>4. /\ Append(fields, f) \in Seq(FieldSet) /\ Len(Append(fields, f)) = Len(fields) + 1
          /\ \A j \in 1 .. Len(fields) : Append(fields, f)[j] = fields[j]
          /\ Append(fields, f)[Len(fields) + 1] = f /\ Len(fields) \in Nat
      BY <1>2, <3>2
    <3>5. ASSUME NEW j \in 1 .. Len(Append(fields, f))
          PROVE  \E i \in 1 .. Len(Wanted) : FromItem(Append(fields, f)[j], Wanted, i, offered)
      <4>1. CASE j = Len(fields) + 1
        BY <1>6, <3>3, <3>4, <4>1
      <4>2. CASE j # Len(fields) + 1
        <5>1. j \in 1 .. Len(fields)
          BY <3>4, <4>2
        <5> QED
          BY <1>2, <3>4, <5>1 DEF Taken
      <4> QED
        BY <4>1, <4>2
    <3> QED
      BY <3>1, <3>4, <3>5 DEF Taken
  <2> QED
    BY <2>1, <2>2
<1>12. Copied(Len(Sent))'
  BY <1>1, <1>2, <1>5 DEF Copied, Arrived
<1>13. Still' /\ Encoded'
  BY <1>1, <1>2 DEF Still, Encoded, Arrived
<1>14. Arrived'
  BY <1>1, <1>2, <1>12, <1>13 DEF Arrived
<1>15. /\ (object \in Objects)' /\ (offered \in 0 .. MaxU16 - 1)' /\ (fields \in Seq(FieldSet))'
       /\ Taken(fields, Wanted, offered)' /\ (pos \in Nat)' /\ (todo \in Seq(ItemSet))'
  BY <1>1, <1>2, <1>5, <1>6, <1>7, <1>11
<1> QED
  BY <1>1, <1>10, <1>13, <1>14, <1>15 DEF IInv

(* An item does not fit: nothing is said of ok and takes. *)
LEMMA Fail_IInv == IInv /\ Fail => IInv'
<1> SUFFICES ASSUME IInv, Fail
             PROVE  IInv'
  OBVIOUS
<1>1. /\ phase = "reading" /\ todo # << >> /\ ~Fits(Head(todo), pos, offered) /\ phase' = "done"
      /\ object' = object /\ room' = room /\ buffer' = buffer /\ offered' = offered
      /\ fields' = fields /\ todo' = todo /\ pos' = pos /\ ok' = ok /\ takes' = takes
  BY DEF Fail
<1>2. /\ object \in Objects /\ offered \in 0 .. MaxU16 - 1 /\ Still /\ Arrived /\ Reading
      /\ fields \in Seq(FieldSet) /\ Taken(fields, Wanted, offered)
      /\ todo \in Seq(PartSet) \cup Seq(ItemSet) /\ pos \in Nat
  BY <1>1 DEF IInv
<1>3. PICK d \in 0 .. Len(Wanted) :
        /\ todo \in Seq(ItemSet) /\ Remains(todo, Wanted, d)
        /\ pos = At(Wanted, d) /\ Passed(Wanted, d, offered)
  BY <1>2 DEF Reading
<1>4. Wanted \in Seq(ItemSet) /\ offered \in Nat
  BY <1>2, WantedItems
<1>5. Sent' = Sent /\ Wanted' = Wanted
  BY <1>1 DEF Sent, Wanted
<1>6. SetSRD(object, offered)' = SetSRD(object, offered)
  BY <1>1
<1> HIDE DEF Sent, Wanted
<1>7. d + 1 \in 1 .. Len(Wanted) /\ Head(todo) = Wanted[d + 1] /\ (d + 1) - 1 = d
  <2>1. d + 1 \in 1 .. Len(Wanted) /\ Head(todo) = Wanted[d + 1]
    BY <1>1, <1>3, <1>4, RemainsStep
  <2> QED
    BY <1>4, <2>1
<1>8. ~Passed(Wanted, Len(Wanted), offered)
  BY <1>1, <1>3, <1>7 DEF Passed
<1>9. ~PassesAt(Wanted, 0, offered)
  BY <1>4, <1>8, FromTheFirst
<1>10. Returned'
  <2>1. Still' /\ ~PassesAt(Wanted, 0, offered)'
    BY <1>1, <1>2, <1>5, <1>9 DEF Still
  <2> QED
    BY <2>1 DEF Returned
<1>11. Arrived'
  BY <1>1, <1>2, <1>5 DEF Arrived, Encoded, Copied
<1>12. /\ (object \in Objects)' /\ (offered \in 0 .. MaxU16 - 1)' /\ (fields \in Seq(FieldSet))'
       /\ Taken(fields, Wanted, offered)' /\ (pos \in Nat)' /\ (todo \in Seq(PartSet) \cup Seq(ItemSet))'
  BY <1>1, <1>2, <1>5
<1> QED
  BY <1>1, <1>10, <1>11, <1>12 DEF IInv

(* All items passed. *)
LEMMA Return_IInv == IInv /\ Return => IInv'
<1> SUFFICES ASSUME IInv, Return
             PROVE  IInv'
  OBVIOUS
<1>1. /\ phase = "reading" /\ todo = << >> /\ phase' = "done" /\ ok' = 1
      /\ takes' = IF SetSRD(object, offered).whole THEN offered ELSE pos
      /\ object' = object /\ room' = room /\ buffer' = buffer /\ offered' = offered
      /\ fields' = fields /\ todo' = todo /\ pos' = pos
  BY DEF Return
<1>2. /\ object \in Objects /\ offered \in 0 .. MaxU16 - 1 /\ Still /\ Arrived /\ Reading
      /\ fields \in Seq(FieldSet) /\ Taken(fields, Wanted, offered)
      /\ todo \in Seq(PartSet) \cup Seq(ItemSet) /\ pos \in Nat
  BY <1>1 DEF IInv
<1>3. PICK d \in 0 .. Len(Wanted) :
        /\ todo \in Seq(ItemSet) /\ Remains(todo, Wanted, d)
        /\ pos = At(Wanted, d) /\ Passed(Wanted, d, offered) /\ Kept(fields, Wanted, d)
  BY <1>2 DEF Reading
<1>4. Wanted \in Seq(ItemSet) /\ offered \in Nat /\ At(Wanted, Len(Wanted)) = Skipped(Wanted)
  BY <1>2, WantedItems
<1>5. Sent' = Sent /\ Wanted' = Wanted
  BY <1>1 DEF Sent, Wanted
<1> HIDE DEF Sent, Wanted
<1>6. d = Len(Wanted)
  <2>1. Len(todo) = 0
    BY <1>1
  <2> QED
    BY <1>3, <1>4, <2>1, RemainsNone
<1>7. PassesAt(Wanted, 0, offered) /\ pos = Skipped(Wanted)
  BY <1>3, <1>4, <1>6, FromTheFirst
<1>8. Returned'
  <2>1. (ok = 1 /\ PassesAt(Wanted, 0, offered) /\ Kept(fields, Wanted, Len(Wanted)))'
    BY <1>1, <1>3, <1>5, <1>6, <1>7
  <2>2. takes' = IF SetSRD(object', offered').whole THEN offered' ELSE Skipped(Wanted')
    BY <1>1, <1>5, <1>7, Zenon
  <2> QED
    BY <2>1, <2>2 DEF Returned
<1>9. Arrived'
  BY <1>1, <1>2, <1>5 DEF Arrived, Encoded, Copied
<1>10. /\ (object \in Objects)' /\ (offered \in 0 .. MaxU16 - 1)' /\ (fields \in Seq(FieldSet))'
       /\ Taken(fields, Wanted, offered)' /\ (pos \in Nat)' /\ (todo \in Seq(PartSet) \cup Seq(ItemSet))'
  BY <1>1, <1>2, <1>5
<1> QED
  BY <1>1, <1>8, <1>9, <1>10 DEF IInv

(* Every step keeps the invariant. *)
LEMMA Next_IInv == IInv /\ [Next]_vars => IInv'
<1> SUFFICES ASSUME IInv, [Next]_vars
             PROVE  IInv'
  OBVIOUS
<1>1. CASE UNCHANGED vars
  BY <1>1 DEF IInv, vars, Taken, FromItem, Kept, Empty, Still, Encoded, Arrived, Writing, Reading, Returned,
      Copied, Sent, Wanted
<1> QED
  BY <1>1, Prepare_IInv, Refuse_IInv, CopyIn_IInv, Arrive_IInv, CopyOut_IInv, Fail_IInv,
     Return_IInv DEF Next
-----------------------------------------------------------------------------
(* What follows.                                                           *)
(* The inductive invariant holds always. *)
LEMMA InvariantHolds == Spec => []IInv
<1>1. Init => IInv
  BY Init_IInv
<1>2. IInv /\ [Next]_vars => IInv'
  BY Next_IInv
<1> QED
  BY <1>1, <1>2, PTL DEF Spec

(* What GetData reports is what it allocated and the header, in 16 bits. *)
ReportInv ==
  /\ reported \in 0 .. MaxU16 - 1
  /\ phase # "new" /\ ~Unwritable(object) => reported = U16(room + SubHead)

LEMMA ReportHolds == Spec => []ReportInv
<1>1. Init => ReportInv
  BY NoOffer DEF Init, ReportInv
<1>2. ASSUME IInv, ReportInv, [Next]_vars
      PROVE  ReportInv'
  <2>1. CASE PrepareGetData
    <3>1. object \in Objects
      BY <1>2 DEF IInv
    <3>2. PICK n \in 0 .. MaxU16 - 1 : n = GetData(object).size
      BY <3>1, SentParts DEF Room
    <3>3. U16(n + SubHead) \in 0 .. MaxU16 - 1
      <4>1. n + SubHead \in Nat
        BY <3>2, U16Rules DEF SubHead
      <4> QED
        BY <4>1, U16Rules
    <3>4. room' = n /\ reported' = U16(n + SubHead) /\ object' = object
      BY <2>1, <3>2 DEF PrepareGetData
    <3> QED
      BY <3>3, <3>4 DEF ReportInv
  <2>2. CASE RefuseToWrite
    BY <1>2, <2>2 DEF RefuseToWrite, ReportInv
  <2>3. CASE UNCHANGED vars \/ CopyIn \/ (\E n \in Lengths : Arrive(n)) \/ CopyOut \/ Fail \/ Return
    <3>1. phase' # "new" => phase # "new"
      BY <2>3 DEF vars, CopyIn, Arrive, CopyOut, Fail, Return
    <3>2. reported' = reported /\ room' = room /\ object' = object
      BY <2>3 DEF vars, CopyIn, Arrive, CopyOut, Fail, Return
    <3> QED
      BY <1>2, <3>1, <3>2 DEF ReportInv
  <2> QED
    BY <1>2, <2>1, <2>2, <2>3 DEF Next
<1> QED
  BY <1>1, <1>2, InvariantHolds, PTL DEF Spec

(* Sequences that remain of sequences have a length. *)
LEMMA IInv_TypeOK == IInv /\ ReportInv => TypeOK
<1> SUFFICES ASSUME IInv, ReportInv
             PROVE  TypeOK
  OBVIOUS
<1>1. object \in Objects /\ offered \in 0 .. MaxU16 - 1 /\ pos \in Nat
  BY DEF IInv
<1>2. Len(todo) \in Nat
  <2>1. todo \in Seq(PartSet) \/ todo \in Seq(ItemSet)
    BY DEF IInv
  <2> QED
    BY <2>1
<1>3. phase \in {"new", "writing", "reading", "done"}
  BY DEF IInv
<1>4. Room(object) /\ object.class \in Classes
  BY <1>1, SentParts DEF IsObject
<1>5. room \in 0 .. MaxU16 - 1
  <2>1. room = 0 \/ room = GetData(object).size
    BY DEF IInv, Empty, Encoded, Arrived
  <2> QED
    BY <1>4, <2>1, NoOffer DEF Room
<1>6. Skipped(Wanted) \in Nat /\ offered \in Nat
  BY <1>1, WantedItems
<1>7. ok \in {0, 1} /\ takes \in Nat
  <2>1. Still \/ Returned
    BY DEF IInv
  <2>2. Still => ok \in {0, 1} /\ takes \in Nat
    BY DEF Still
  <2>3. Returned /\ ~Still => ok = 1 /\ (takes = offered \/ takes = Skipped(Wanted))
    BY DEF Returned
  <2> QED
    BY <1>6, <2>1, <2>2, <2>3
<1> QED
  BY <1>1, <1>2, <1>3, <1>4, <1>5, <1>7 DEF TypeOK, ReportInv

(* The last byte written is the sum of the sizes: Room compares it with the buffer. *)
LEMMA IInv_WritesInsideBuffer == IInv => WritesInsideBuffer
<1> SUFFICES ASSUME IInv
             PROVE  WritesInsideBuffer
  OBVIOUS
<1>1. object \in Objects
  BY DEF IInv
<1>2. /\ Sent \in Seq(PartSet) /\ Room(object)
      /\ \A i \in 0 .. Len(Sent) : UpTo(Sent, BytesOf, i) \in Nat
      /\ \A i \in 1 .. Len(Sent) : /\ UpTo(Sent, BytesOf, i) = UpTo(Sent, BytesOf, i - 1) + Sent[i].bytes
                                   /\ UpTo(Sent, BytesOf, i) <= Bytes(Sent)
  BY <1>1, SentParts
<1>3. /\ Bytes(Sent) \in Nat /\ GetData(object).size \in Nat
      /\ Spills(object) <=> Bytes(Sent) > GetData(object).size
  BY <1>2, U16Rules DEF Room, Sent
<1> HIDE DEF Sent
<1>4. ASSUME Overrun
      PROVE  Spills(object)
  <2>1. buffer # << >>
    BY <1>4 DEF Overrun
  <2>2. Encoded /\ \E k \in 0 .. Len(Sent) : Copied(k)
    BY <1>2, <2>1 DEF IInv, Empty, Writing, Arrived
  <2>3. PICK k \in 0 .. Len(Sent) : Copied(k)
    BY <2>2
  <2>4. DOMAIN buffer = 1 .. k /\ \A i \in 1 .. k : i \in 1 .. Len(Sent) /\ i \in 0 .. Len(Sent)
    BY <1>2, <2>3 DEF Copied
  <2>5. \A i \in 1 .. k : buffer[i].bytes = Sent[i].bytes /\ buffer[i].at = UpTo(Sent, BytesOf, i - 1)
    BY <2>3 DEF Copied, Placed
  <2>6. PICK i \in 1 .. k : buffer[i].at + buffer[i].bytes > room
    BY <1>4, <2>4 DEF Overrun
  <2>7. /\ UpTo(Sent, BytesOf, i) > room /\ UpTo(Sent, BytesOf, i) <= Bytes(Sent)
        /\ UpTo(Sent, BytesOf, i) \in Nat
    BY <1>2, <2>4, <2>5, <2>6
  <2>8. room = GetData(object).size
    BY <2>2 DEF Encoded
  <2> QED
    BY <1>3, <2>7, <2>8
<1>5. ASSUME phase = "writing", todo = << >>, Spills(object)
      PROVE  Overrun
  <2>1. Encoded /\ Writing
    BY <1>5 DEF IInv
  <2>2. PICK k \in 0 .. Len(Sent) : Copied(k) /\ Remains(todo, Sent, k)
    BY <2>1 DEF Writing
  <2>3. Len(todo) = 0
    BY <1>5
  <2>4. k = Len(Sent)
    BY <1>2, <2>2, <2>3, RemainsNone
  <2> QED
    BY <1>1, <1>5, <2>1, <2>2, <2>4, AllCopied DEF Encoded
<1> QED
  BY <1>4, <1>5 DEF WritesInsideBuffer

(* A field is an item that was reached; Fair puts those inside. *)
LEMMA IInv_ReadsInsideData == IInv => ReadsInsideData
<1> SUFFICES ASSUME IInv, NEW j \in DOMAIN fields, fields[j].at + fields[j].bytes > offered
             PROVE  object.class = "TECallRawMSD" /\ offered = 0
  BY DEF ReadsInsideData
<1>1. object \in Objects /\ offered \in 0 .. MaxU16 - 1 /\ fields \in Seq(FieldSet)
          /\ Taken(fields, Wanted, offered)
  BY DEF IInv
<1>2. PICK i \in 1 .. Len(Wanted) : FromItem(fields[j], Wanted, i, offered)
  BY <1>1 DEF Taken
<1>3. Fair(object, offered)
  BY <1>1, TheObject
<1>4. Wanted \in Seq(ItemSet) /\ offered \in Nat
  BY <1>1, WantedItems
<1>5. InsideAt(Wanted, 0, offered) \/ (object.class = "TECallRawMSD" /\ offered = 0)
  BY <1>3 DEF Fair, Wanted
<1> HIDE DEF Wanted
<1>6. /\ Passed(Wanted, i, offered) /\ Wanted[i].keep > 0
      /\ fields[j].at = At(Wanted, i - 1) /\ fields[j].bytes = Wanted[i].keep
  BY <1>2 DEF FromItem, Placed
<1>7. InsideAt(Wanted, 0, offered) => At(Wanted, i - 1) + Wanted[i].keep <= offered
  BY <1>4, <1>6, FromTheFirst
<1>8. At(Wanted, i - 1) \in Nat /\ Wanted[i].keep \in Nat
  <2>1. i - 1 \in 0 .. Len(Wanted)
    BY <1>4
  <2> QED
    BY <1>4, <2>1, AtDefined
<1> QED
  BY <1>4, <1>5, <1>6, <1>7, <1>8

(* What SetSRD returned. *)
LEMMA WhenOk ==
  ASSUME IInv, ok = 1
  PROVE  /\ object \in Objects /\ offered \in 0 .. MaxU16 - 1 /\ Fair(object, offered) /\ offered \in Nat
         /\ Arrived /\ PassesAt(Wanted, 0, offered) /\ Skipped(Wanted) \in Nat
         /\ takes = IF SetSRD(object, offered).whole THEN offered ELSE Skipped(Wanted)
<1>1. object \in Objects /\ offered \in 0 .. MaxU16 - 1
  BY DEF IInv
<1>2. Fair(object, offered) /\ Skipped(Wanted) \in Nat /\ offered \in Nat
  BY <1>1, TheObject, WantedItems
<1>3. Arrived /\ Returned /\ ~Still
  BY DEF IInv, Still
<1> QED
  BY <1>1, <1>2, <1>3 DEF Returned

(* Everything passed, so Near bounds where pos is. *)
LEMMA IInv_OvershootBounded == IInv => OvershootBounded
<1> SUFFICES ASSUME IInv, ok = 1, takes > offered
             PROVE  takes <= offered + 19 /\ object.class = "TTermIdent2"
  BY DEF OvershootBounded
<1>1. /\ Fair(object, offered) /\ offered \in Nat /\ PassesAt(Wanted, 0, offered) /\ Skipped(Wanted) \in Nat
      /\ takes = IF SetSRD(object, offered).whole THEN offered ELSE Skipped(Wanted)
  BY WhenOk
<1>2. Near(object, offered, Skipped(Wanted))
  BY <1>1 DEF Fair, Wanted
<1> HIDE DEF Wanted
<1>3. SetSRD(object, offered).whole # TRUE /\ takes = Skipped(Wanted)
  <2>1. SetSRD(object, offered).whole = TRUE => takes = offered
    BY <1>1, Zenon
  <2>2. takes = offered \/ takes = Skipped(Wanted)
    BY <1>1, Zenon
  <2>3. takes # offered
    BY <1>1
  <2> QED
    BY <2>1, <2>2, <2>3, Zenon
<1>4. Skipped(Wanted) <= offered \/ (object.class = "TTermIdent2" /\ Skipped(Wanted) <= offered + 19)
  BY <1>2, <1>3 DEF Near
<1> QED
  BY <1>1, <1>3, <1>4

(* The data are shorter than the sum of the sizes, and everything passed. *)
LEMMA IInv_CutDataNoticed == IInv => CutDataNoticed
<1> SUFFICES ASSUME IInv, ok = 1, offered < Bytes(buffer)
             PROVE  Elastic(object)
  BY DEF CutDataNoticed
<1>1. object \in Objects /\ Fair(object, offered) /\ Arrived /\ PassesAt(Wanted, 0, offered)
  BY WhenOk
<1>2. Copied(Len(Sent)) /\ ~Spills(object)
  BY <1>1 DEF Arrived
<1>3. Bytes(buffer) = Bytes(Sent)
  BY <1>1, <1>2, AllCopied
<1> QED
  BY <1>1, <1>2, <1>3 DEF Fair, Wanted, Sent

(* All that was written is there, and Fair has it pass. *)
LEMMA EncodedAccepted ==
  ASSUME IInv, Undamaged
  PROVE  ok = 1
<1>1. object \in Objects /\ offered \in 0 .. MaxU16 - 1
  BY DEF IInv
<1>2. Fair(object, offered)
  BY <1>1, TheObject
<1>3. Arrived /\ Returned /\ offered = room
  BY DEF IInv, Undamaged
<1>4. ~Spills(object) /\ ~Unwritable(object) /\ offered = GetData(object).size
  BY <1>3 DEF Arrived, Encoded
<1>5. PassesAt(Wanted, 0, offered)
  BY <1>2, <1>4 DEF Fair, Wanted
<1> QED
  BY <1>3, <1>5 DEF Returned, Undamaged

(* What is cut a little over 2^16 is small. *)
LEMMA CutOnce ==
  ASSUME NEW k \in Nat, MaxU16 <= k, k < MaxU16 + 3
  PROVE  U16(k) \in 0 .. 2
BY DEF U16, MaxU16

(* Less than was taken is not reported, unless the sum turned. *)
LEMMA ReportedSum ==
  ASSUME NEW r \in 0 .. MaxU16 - 1, NEW t \in Nat
  PROVE  t + SubHead = U16(r + SubHead) <=> t = r /\ r + SubHead < MaxU16
<1>1. MaxU16 \in Nat /\ SubHead = 3
  BY U16Rules DEF SubHead
<1>2. r \in Nat /\ r < MaxU16
  BY <1>1
<1>3. PICK k \in Nat : k = r + SubHead
  BY <1>1, <1>2
<1>4. CASE k < MaxU16
  <2>1. U16(k) = k
    BY <1>4, U16Rules
  <2>2. t + SubHead = k <=> t = r
    BY <1>1, <1>2, <1>3
  <2> QED
    BY <1>3, <1>4, <2>1, <2>2, Zenon
<1>5. CASE ~(k < MaxU16)
  <2>1. MaxU16 <= k /\ k < MaxU16 + 3
    BY <1>1, <1>2, <1>3, <1>5
  <2>2. U16(k) \in 0 .. 2
    BY <2>1, CutOnce
  <2>3. t + SubHead # U16(k)
    BY <1>1, <2>2
  <2> QED
    BY <1>3, <1>5, <2>3, Zenon
<1> QED
  BY <1>4, <1>5

(* The data are what was written. *)
LEMMA IInv_TakesItsLength == IInv /\ ReportInv => TakesItsLength
<1> SUFFICES ASSUME IInv, ReportInv, Undamaged
             PROVE  /\ takes = room <=> ~Underread(object)
                    /\ takes + SubHead = reported <=> ~Underread(object) /\ ~Turns(object)
  BY DEF TakesItsLength
<1>1. object \in Objects /\ offered \in 0 .. MaxU16 - 1
  BY DEF IInv
<1>2. Fair(object, offered)
  BY <1>1, TheObject
<1>3. Arrived /\ Returned /\ offered = room
  BY DEF IInv, Undamaged
<1>4. ~Spills(object) /\ ~Unwritable(object) /\ offered = GetData(object).size
  BY <1>3 DEF Arrived, Encoded
<1>5. PassesAt(Wanted, 0, offered)
      /\ ((SetSRD(object, offered).whole = TRUE \/ Skipped(Wanted) = offered) <=> ~Underread(object))
  BY <1>2, <1>4 DEF Fair, Wanted
<1>6. takes = IF SetSRD(object, offered).whole THEN offered ELSE Skipped(Wanted)
  BY <1>3, <1>5 DEF Returned
<1>7. SetSRD(object, offered).whole \in BOOLEAN
  BY <1>2 DEF Fair
<1>8. takes = room <=> (SetSRD(object, offered).whole = TRUE \/ Skipped(Wanted) = offered)
  BY <1>3, <1>6, <1>7, Zenon
<1>9. room = GetData(object).size /\ room \in 0 .. MaxU16 - 1 /\ takes \in Nat
  BY <1>1, <1>3, <1>4, IInv_TypeOK DEF TypeOK
<1>10. reported = U16(room + SubHead)
  BY <1>4 DEF ReportInv, Undamaged
<1>11. takes + SubHead = U16(room + SubHead) <=> takes = room /\ room + SubHead < MaxU16
  BY <1>9, ReportedSum
<1>12. Turns(object) <=> ~(room + SubHead < MaxU16)
  <2>1. PICK r \in Nat : r = room
    BY <1>9, U16Rules
  <2>2. r + SubHead >= MaxU16 <=> ~(r + SubHead < MaxU16)
    BY U16Rules DEF SubHead
  <2> QED
    BY <1>9, <2>1, <2>2 DEF Turns
<1> QED
  BY <1>5, <1>8, <1>10, <1>11, <1>12, Zenon

-----------------------------------------------------------------------------

(***************************************************************************)
(* What comes back: the fields that items fill, and the parts that were    *)
(* put where they look. A spot is an element and its offset, counted from  *)
(* a; m is what the elements weigh.                                        *)
(***************************************************************************)
Spots(s, m, a) == { <<s[i], a + UpTo(s, m, i - 1)>> : i \in 1 .. Len(s) }

LEMMA SpotsOfBoth ==
  ASSUME NEW S, NEW m \in [S -> Nat], NEW s \in Seq(S), NEW t \in Seq(S), NEW a \in Nat
  PROVE  Spots(s \o t, m, a) = Spots(s, m, a) \cup Spots(t, m, a + Weight(s, m))
<1> DEFINE u == s \o t
           l == Len(s)
           w == Weight(s, m)
<1>1. /\ u \in Seq(S) /\ Len(u) = l + Len(t) /\ l \in Nat /\ Len(t) \in Nat
      /\ \A i \in 1 .. l : u[i] = s[i]
      /\ \A i \in 1 .. Len(t) : u[l + i] = t[i]
  BY ConcatProperties
<1>2. /\ \A i \in 0 .. l : UpTo(u, m, i) = UpTo(s, m, i)
      /\ \A i \in 0 .. Len(t) : UpTo(u, m, l + i) = w + UpTo(t, m, i)
  <2>0. /\ \A i \in 0 .. Len(s) : UpTo(s \o t, m, i) = UpTo(s, m, i)
        /\ \A i \in 0 .. Len(t) : UpTo(s \o t, m, Len(s) + i) = Weight(s, m) + UpTo(t, m, i)
        /\ Weight(s \o t, m) = Weight(s, m) + Weight(t, m)
    <3> HIDE DEF u, l, w
    <3> QED
      BY WeightOfBoth, Zenon
  <2>1. /\ \A i \in 0 .. Len(s) : UpTo(s \o t, m, i) = UpTo(s, m, i)
        /\ \A i \in 0 .. Len(t) : UpTo(s \o t, m, Len(s) + i) = Weight(s, m) + UpTo(t, m, i)
    BY <2>0, Zenon
  <2> QED
    BY <2>1
<1>3. w \in Nat /\ \A i \in 0 .. Len(t) : UpTo(t, m, i) \in Nat
  BY UpToDefined, Zenon
<1> HIDE DEF u, l, w
<1>4. \A i \in 1 .. l : i \in 1 .. Len(u) /\ UpTo(u, m, i - 1) = UpTo(s, m, i - 1)
  BY <1>1, <1>2
<1>5. ASSUME NEW i \in 1 .. Len(t)
      PROVE  l + i \in 1 .. Len(u) /\ a + UpTo(u, m, (l + i) - 1) = (a + w) + UpTo(t, m, i - 1)
  <2>1. i - 1 \in 0 .. Len(t) /\ (l + i) - 1 = l + (i - 1) /\ l + i \in 1 .. Len(u)
    BY <1>1
  <2>2. UpTo(u, m, (l + i) - 1) = w + UpTo(t, m, i - 1)
    BY <1>2, <2>1
  <2>3. PICK k \in Nat : k = UpTo(t, m, i - 1)
    BY <1>3, <2>1
  <2>4. a + (w + k) = (a + w) + k
    BY <1>3
  <2> QED
    BY <2>1, <2>2, <2>3, <2>4
<1>6. ASSUME NEW x \in Spots(u, m, a)
      PROVE  x \in Spots(s, m, a) \cup Spots(t, m, a + w)
  <2>1. PICK i \in 1 .. Len(u) : x = <<u[i], a + UpTo(u, m, i - 1)>>
    BY DEF Spots
  <2>2. CASE i \in 1 .. l
    BY <1>1, <1>4, <2>1, <2>2 DEF Spots, l
  <2>3. CASE i \notin 1 .. l
    <3>1. PICK k \in 1 .. Len(t) : i = l + k
      <4>1. i - l \in 1 .. Len(t) /\ i = l + (i - l)
        BY <1>1, <2>3
      <4> QED
        BY <4>1
    <3>2. x = <<t[k], (a + w) + UpTo(t, m, k - 1)>>
      BY <1>1, <1>5, <2>1, <3>1
    <3> QED
      BY <3>2 DEF Spots
  <2> QED
    BY <2>2, <2>3
<1>7. ASSUME NEW x \in Spots(s, m, a)
      PROVE  x \in Spots(u, m, a)
  <2>1. PICK i \in 1 .. l : x = <<s[i], a + UpTo(s, m, i - 1)>>
    BY DEF Spots, l
  <2> QED
    BY <1>1, <1>4, <2>1 DEF Spots
<1>8. ASSUME NEW x \in Spots(t, m, a + w)
      PROVE  x \in Spots(u, m, a)
  <2>1. PICK i \in 1 .. Len(t) : x = <<t[i], (a + w) + UpTo(t, m, i - 1)>>
    BY DEF Spots
  <2>2. PICK k \in 1 .. Len(u) : k = l + i
    BY <1>5
  <2>3. x = <<u[k], a + UpTo(u, m, k - 1)>>
    BY <1>1, <1>5, <2>1, <2>2
  <2> QED
    BY <2>3 DEF Spots
<1>9. Spots(u, m, a) = Spots(s, m, a) \cup Spots(t, m, a + w)
  BY <1>6, <1>7, <1>8, Zenon
<1> QED
  BY <1>9 DEF u, w

LEMMA SpotsOfFew ==
  ASSUME NEW S, NEW m \in [S -> Nat], NEW a \in Nat
  PROVE  Spots(<< >>, m, a) = {} /\ \A x \in S : Spots(<<x>>, m, a) = { <<x, a>> }
<1>1. Spots(<< >>, m, a) = {}
  BY DEF Spots
<1>2. ASSUME NEW x \in S
      PROVE  Spots(<<x>>, m, a) = { <<x, a>> }
  <2> DEFINE s == <<x>>
  <2>1. s \in Seq(S) /\ Len(s) = 1 /\ s[1] = x
    OBVIOUS
  <2> HIDE DEF s
  <2>2. UpTo(s, m, 0) = 0
    BY <2>1, UpToDefined, Zenon
  <2>3. 1 .. Len(s) = {1}
    BY <2>1
  <2>4. Spots(s, m, a) = { <<s[1], a + UpTo(s, m, 1 - 1)>> }
    BY <2>3 DEF Spots
  <2>5. 1 - 1 = 0 /\ a + 0 = a
    OBVIOUS
  <2>6. Spots(s, m, a) = { <<x, a>> }
    BY <2>1, <2>2, <2>4, <2>5
  <2> QED
    BY <2>6 DEF s
<1> QED
  BY <1>1, <1>2

(* What is kept of items at their spots, and the parts that have bytes. *)
Filled(S) == { Placed(x[1].field, x[1].nth, x[2], x[1].keep) : x \in { y \in S : y[1].keep > 0 } }
Laid(S)   == { Placed(x[1].field, x[1].nth, x[2], x[1].bytes) : x \in { y \in S : y[1].bytes > 0 } }
FieldsAt(s, a) == Filled(Spots(s, SkipOf, a))
PartsAt(t, a)  == Laid(Spots(t, BytesOf, a))

LEMMA FilledOfBoth ==
  ASSUME NEW A, NEW B
  PROVE  Filled(A \cup B) = Filled(A) \cup Filled(B) /\ Laid(A \cup B) = Laid(A) \cup Laid(B)
<1>1. Filled(A \cup B) = Filled(A) \cup Filled(B)
  BY Zenon DEF Filled
<1>2. Laid(A \cup B) = Laid(A) \cup Laid(B)
  BY Zenon DEF Laid
<1> QED
  BY <1>1, <1>2

(* SetSRD reads by the items s what GetData has written by the parts t. *)
Mirrors(s, t) ==
  /\ s \in Seq(ItemSet) /\ t \in Seq(PartSet) /\ Skipped(s) = Bytes(t)
  /\ \A a \in Nat : FieldsAt(s, a) = PartsAt(t, a)

(* The fields of two lists, *)
LEMMA FieldsOfBoth ==
  ASSUME NEW s \in Seq(ItemSet), NEW t \in Seq(ItemSet), NEW a \in Nat
  PROVE  FieldsAt(s \o t, a) = FieldsAt(s, a) \cup FieldsAt(t, a + Skipped(s))
<1>1. SkipOf \in [ItemSet -> Nat] /\ Skipped(s) = Weight(s, SkipOf)
  BY WeightsOfItems
<1>2. Spots(s \o t, SkipOf, a) = Spots(s, SkipOf, a) \cup Spots(t, SkipOf, a + Skipped(s))
  BY <1>1, SpotsOfBoth
<1> QED
  BY <1>2, FilledOfBoth DEF FieldsAt

(* and the parts of two. *)
LEMMA PartsOfBoth ==
  ASSUME NEW s \in Seq(PartSet), NEW t \in Seq(PartSet), NEW a \in Nat
  PROVE  PartsAt(s \o t, a) = PartsAt(s, a) \cup PartsAt(t, a + Bytes(s))
<1>1. BytesOf \in [PartSet -> Nat] /\ Bytes(s) = Weight(s, BytesOf)
  BY WeightsOfParts
<1>2. Spots(s \o t, BytesOf, a) = Spots(s, BytesOf, a) \cup Spots(t, BytesOf, a + Bytes(s))
  BY <1>1, SpotsOfBoth
<1> QED
  BY <1>2, FilledOfBoth DEF PartsAt

LEMMA MirrorsBoth ==
  ASSUME NEW s, NEW t, NEW u, NEW v, Mirrors(s, t), Mirrors(u, v)
  PROVE  Mirrors(s \o u, t \o v)
<1>1. /\ s \in Seq(ItemSet) /\ t \in Seq(PartSet) /\ Skipped(s) = Bytes(t)
      /\ u \in Seq(ItemSet) /\ v \in Seq(PartSet) /\ Skipped(u) = Bytes(v)
  BY DEF Mirrors
<1>2. s \o u \in Seq(ItemSet) /\ Skipped(s \o u) = Skipped(s) + Skipped(u)
  <2>1. 0 \in Nat
    OBVIOUS
  <2> QED
    BY <1>1, <2>1, ItemsOfBoth, Zenon
<1>3. t \o v \in Seq(PartSet) /\ Bytes(t \o v) = Bytes(t) + Bytes(v)
  BY <1>1, BothParts
<1>4. ASSUME NEW a \in Nat
      PROVE  FieldsAt(s \o u, a) = PartsAt(t \o v, a)
  <2>1. a + Skipped(s) \in Nat
    BY <1>1, ItemsCount
  <2>2. FieldsAt(s, a) = PartsAt(t, a) /\ FieldsAt(u, a + Skipped(s)) = PartsAt(v, a + Skipped(s))
    BY <2>1 DEF Mirrors
  <2>3. FieldsAt(s \o u, a) = FieldsAt(s, a) \cup FieldsAt(u, a + Skipped(s))
    BY <1>1, FieldsOfBoth
  <2>4. PartsAt(t \o v, a) = PartsAt(t, a) \cup PartsAt(v, a + Bytes(t))
    BY <1>1, PartsOfBoth
  <2> QED
    BY <1>1, <2>2, <2>3, <2>4, Zenon
<1> QED
  BY <1>1, <1>2, <1>3, <1>4 DEF Mirrors

(* One item, and the part that it reads, wherever the item leads. *)
LEMMA SameSpot ==
  ASSUME NEW i \in ItemSet, NEW p \in PartSet, i.keep = p.bytes, i.field = p.field, i.nth = p.nth,
         NEW a \in Nat
  PROVE  FieldsAt(<< i >>, a) = PartsAt(<< p >>, a)
<1>1. Spots(<< i >>, SkipOf, a) = { <<i, a>> } /\ Spots(<< p >>, BytesOf, a) = { <<p, a>> }
  <2>1. SkipOf \in [ItemSet -> Nat] /\ BytesOf \in [PartSet -> Nat]
    BY WeightsOfItems, WeightsOfParts
  <2>2. \A S, m : m \in [S -> Nat] => \A x \in S : Spots(<<x>>, m, a) = { <<x, a>> }
    BY SpotsOfFew
  <2> QED
    BY <2>1, <2>2, Zenon
<1>2. CASE p.bytes > 0
  <2>1. Filled({ <<i, a>> }) = { Placed(i.field, i.nth, a, i.keep) }
    <3>1. { y \in { <<i, a>> } : y[1].keep > 0 } = { <<i, a>> }
      BY <1>2
    <3>2. \A y : y \in Filled({ <<i, a>> })
                 <=> \E x \in { <<i, a>> } : y = Placed(x[1].field, x[1].nth, x[2], x[1].keep)
      BY <3>1, Zenon DEF Filled
    <3>3. \A y : y \in Filled({ <<i, a>> }) <=> y = Placed(i.field, i.nth, a, i.keep)
      BY <3>2
    <3> QED
      BY <3>3, Zenon
  <2>2. Laid({ <<p, a>> }) = { Placed(p.field, p.nth, a, p.bytes) }
    <3>1. { y \in { <<p, a>> } : y[1].bytes > 0 } = { <<p, a>> }
      BY <1>2
    <3>2. \A y : y \in Laid({ <<p, a>> })
                 <=> \E x \in { <<p, a>> } : y = Placed(x[1].field, x[1].nth, x[2], x[1].bytes)
      BY <3>1, Zenon DEF Laid
    <3>3. \A y : y \in Laid({ <<p, a>> }) <=> y = Placed(p.field, p.nth, a, p.bytes)
      BY <3>2
    <3> QED
      BY <3>3, Zenon
  <2> QED
    BY <1>1, <2>1, <2>2 DEF FieldsAt, PartsAt
<1>3. CASE ~(p.bytes > 0)
  <2>1. Filled({ <<i, a>> }) = {} /\ Laid({ <<p, a>> }) = {}
    BY <1>3 DEF Filled, Laid
  <2> QED
    BY <1>1, <2>1 DEF FieldsAt, PartsAt
<1> QED
  BY <1>2, <1>3

LEMMA MirrorsOne ==
  ASSUME NEW i \in ItemSet, NEW p \in PartSet, i.keep = i.skip, i.skip = p.bytes,
         i.field = p.field, i.nth = p.nth
  PROVE  Mirrors(<< i >>, << p >>)
<1>1. << i >> \in Seq(ItemSet) /\ << p >> \in Seq(PartSet)
  OBVIOUS
<1>2. Skipped(<< i >>) = i.skip
  BY OneItem
<1>3. Bytes(<< p >>) = p.bytes
  <2>1. Bytes(<< p >>) = Weight(<< p >>, BytesOf) /\ BytesOf \in [PartSet -> Nat]
    BY <1>1, WeightsOfParts
  <2>2. Weight(<< p >>, BytesOf) = BytesOf[p]
    BY <2>1, WeightOfFew
  <2>3. BytesOf[p] = p.bytes
    BY DEF BytesOf
  <2> QED
    BY <2>1, <2>2, <2>3
<1>4. \A a \in Nat : FieldsAt(<< i >>, a) = PartsAt(<< p >>, a)
  BY SameSpot
<1> QED
  BY <1>1, <1>2, <1>3, <1>4 DEF Mirrors

(* The rules of Mirrors: nothing, one field, a check, a concatenation. *)
LEMMA MirrorRules ==
  /\ Mirrors(<< >>, << >>)
  /\ \A f \in Names : \A n \in Nat : Mirrors(Read(f, n), Part(f, n)) /\ Mirrors(Loose(f, n, n), Part(f, n))
  /\ \A f \in Names : \A i, n \in Nat : Mirrors(NthRead(f, i, n), NthPart(f, i, n))
  /\ \A n \in Nat : Mirrors(Check(n), << >>)
  /\ \A s, t, u, v : Mirrors(s, t) /\ Mirrors(u, v) => Mirrors(s \o u, t \o v)
<1>0. ASSUME NEW a \in Nat
      PROVE  FieldsAt(<< >>, a) = {} /\ PartsAt(<< >>, a) = {}
  <2>1. Spots(<< >>, SkipOf, a) = {} /\ Spots(<< >>, BytesOf, a) = {}
    BY WeightsOfItems, WeightsOfParts, SpotsOfFew
  <2> QED
    BY <2>1 DEF FieldsAt, PartsAt, Filled, Laid
<1>1. Mirrors(<< >>, << >>)
  <2>1. << >> \in Seq(ItemSet)
    OBVIOUS
  <2> QED
    BY <1>0, <2>1, NoItems, NoParts DEF Mirrors
<1>2. ASSUME NEW f \in Names, NEW i \in Nat, NEW n \in Nat, NEW k \in Nat
      PROVE  Mirrors(<< [ field |-> f, nth |-> i, need |-> k, keep |-> n, skip |-> n ] >>,
                     << [ field |-> f, nth |-> i, bytes |-> n ] >>)
  <2> DEFINE r == [ field |-> f, nth |-> i, need |-> k, keep |-> n, skip |-> n ]
             p == [ field |-> f, nth |-> i, bytes |-> n ]
  <2>1. /\ r \in ItemSet /\ p \in PartSet /\ r.keep = r.skip /\ r.skip = p.bytes
        /\ r.field = p.field /\ r.nth = p.nth
    BY DEF ItemSet, PartSet
  <2> HIDE DEF r, p
  <2>2. Mirrors(<< r >>, << p >>)
    BY <2>1, MirrorsOne
  <2> QED
    BY <2>2 DEF r, p
<1>3. \A f \in Names : \A i, n \in Nat : Mirrors(NthRead(f, i, n), NthPart(f, i, n))
  BY <1>2, Zenon DEF NthRead, NthPart
<1>4. \A f \in Names : \A n \in Nat : Mirrors(Read(f, n), Part(f, n)) /\ Mirrors(Loose(f, n, n), Part(f, n))
  <2>1. 0 \in Nat
    OBVIOUS
  <2>2. \A f \in Names : \A n \in Nat : Mirrors(Loose(f, n, n), Part(f, n))
    BY <1>2, <2>1, Zenon DEF Loose, Part, NthPart
  <2> QED
    BY <1>3, <2>1, <2>2, Zenon DEF Read, Part
<1>5. ASSUME NEW n \in Nat
      PROVE  Mirrors(Check(n), << >>)
  <2> DEFINE r == [ field |-> "none", nth |-> 0, need |-> n, keep |-> 0, skip |-> 0 ]
  <2>1. r \in ItemSet /\ r.keep = 0
    BY DEF ItemSet, Names
  <2>2. Check(n) = << r >>
    BY DEF Check
  <2> HIDE DEF r
  <2>3. << r >> \in Seq(ItemSet) /\ << >> \in Seq(PartSet)
    BY <2>1
  <2>4. Skipped(Check(n)) = 0 /\ Bytes(<< >>) = 0
    BY OneCheck, NoParts
  <2>5. ASSUME NEW a \in Nat
        PROVE  FieldsAt(<< r >>, a) = {}
    <3>1. Spots(<< r >>, SkipOf, a) = { <<r, a>> }
      BY <2>1, WeightsOfItems, SpotsOfFew
    <3> QED
      BY <2>1, <3>1 DEF FieldsAt, Filled
  <2> QED
    BY <1>0, <2>2, <2>3, <2>4, <2>5 DEF Mirrors
<1> QED
  BY <1>1, <1>3, <1>4, <1>5, MirrorsBoth, Zenon

(* FlattenSeq from the empty sequence on. *)
IsJoined(f, ss) ==
  /\ f[0] = << >> /\ f[Len(ss)] = FlattenSeq(ss)
  /\ \A k \in 1 .. Len(ss) : f[k] = f[k - 1] \o ss[k]

LEMMA Joined ==
  ASSUME NEW S, NEW ss \in Seq(Seq(S))
  PROVE  \E f : IsJoined(f, ss)
<1>0. Len(ss) \in Nat /\ \A k \in 1 .. Len(ss) : ss[k] \in Seq(S)
  OBVIOUS
<1>1. CASE Len(ss) = 0
  <2> DEFINE f == [ k \in {0} |-> << >> ]
  <2>1. FlattenSeq(ss) = << >>
    BY <1>1 DEF FlattenSeq
  <2>2. f[0] = << >> /\ f[Len(ss)] = << >> /\ 1 .. Len(ss) = {}
    BY <1>1
  <2>3. IsJoined(f, ss)
    BY <2>1, <2>2 DEF IsJoined
  <2> QED
    BY <2>3
<1>2. CASE Len(ss) # 0
  <2>1. PICK g : IsFlat(g, ss, Len(ss)) /\ FlattenSeq(ss) = g[Len(ss)]
    BY <1>2, FlatExists
  <2>2. \A i \in 1 .. Len(ss) : g[i] = IF i = 1 THEN ss[i] ELSE g[i - 1] \o ss[i]
    BY <2>1 DEF IsFlat
  <2> DEFINE f == [ k \in 0 .. Len(ss) |-> IF k = 0 THEN << >> ELSE g[k] ]
  <2>3. f[0] = << >> /\ \A k \in 1 .. Len(ss) : f[k] = g[k]
    BY <1>0
  <2>4. f[Len(ss)] = FlattenSeq(ss)
    BY <1>0, <1>2, <2>1, <2>3
  <2> HIDE DEF f
  <2>5. ASSUME NEW k \in 1 .. Len(ss)
        PROVE  f[k] = f[k - 1] \o ss[k]
    <3>1. CASE k = 1
      <4>1. f[k] = ss[k] /\ k - 1 = 0
        BY <2>2, <2>3, <3>1
      <4>2. << >> \o ss[k] = ss[k]
        BY <1>0
      <4> QED
        BY <2>3, <4>1, <4>2
    <3>2. CASE k # 1
      <4>1. k - 1 \in 1 .. Len(ss)
        BY <1>0, <3>2
      <4>2. g[k] = g[k - 1] \o ss[k]
        BY <2>2, <3>2
      <4> QED
        BY <2>3, <4>1, <4>2
    <3> QED
      BY <3>1, <3>2
  <2>6. IsJoined(f, ss)
    BY <2>3, <2>4, <2>5 DEF IsJoined
  <2> QED
    BY <2>6
<1> QED
  BY <1>1, <1>2

(* Lists of one list for every number. *)
LEMMA ListOfLists ==
  ASSUME NEW S, NEW m \in Nat, NEW q, DOMAIN q = 1 .. m, q = [ i \in 1 .. m |-> q[i] ],
         \A i \in 1 .. m : q[i] \in Seq(S)
  PROVE  q \in Seq(Seq(S)) /\ Len(q) = m
<1>1. q \in [1 .. m -> Seq(S)]
  OBVIOUS
<1> QED
  BY <1>1, Listed, Zenon

LEMMA MirrorsEach ==
  ASSUME NEW m \in Nat, NEW q, NEW r, DOMAIN q = 1 .. m, q = [ i \in 1 .. m |-> q[i] ],
         DOMAIN r = 1 .. m, r = [ i \in 1 .. m |-> r[i] ],
         \A i \in 1 .. m : Mirrors(q[i], r[i])
  PROVE  Mirrors(FlattenSeq(q), FlattenSeq(r))
<1>0. \A i \in 1 .. m : q[i] \in Seq(ItemSet) /\ r[i] \in Seq(PartSet)
  BY DEF Mirrors
<1>1. q \in Seq(Seq(ItemSet)) /\ Len(q) = m /\ r \in Seq(Seq(PartSet)) /\ Len(r) = m
  BY <1>0, ListOfLists, Zenon
<1>2. (\E f : IsJoined(f, q)) /\ (\E g : IsJoined(g, r))
  BY <1>1, Joined, Zenon
<1>3. PICK f : IsJoined(f, q)
  BY <1>2
<1>4. PICK g : IsJoined(g, r)
  BY <1>2
<1>5. /\ f[0] = << >> /\ f[m] = FlattenSeq(q) /\ \A k \in 1 .. m : f[k] = f[k - 1] \o q[k]
      /\ g[0] = << >> /\ g[m] = FlattenSeq(r) /\ \A k \in 1 .. m : g[k] = g[k - 1] \o r[k]
  BY <1>1, <1>3, <1>4 DEF IsJoined
<1> DEFINE H == { n \in Nat : n <= m => Mirrors(f[n], g[n]) }
<1>6. 0 \in H
  BY <1>5, MirrorRules
<1>7. ASSUME NEW n \in Nat, n \in H
      PROVE  n + 1 \in H
  <2>1. CASE n + 1 <= m
    <3>1. PICK k \in 1 .. m : k = n + 1 /\ k - 1 = n
      BY <2>1
    <3>2. Mirrors(f[n], g[n]) /\ Mirrors(q[k], r[k])
      BY <1>7, <2>1
    <3>3. Mirrors(f[n] \o q[k], g[n] \o r[k])
      BY <3>2, MirrorsBoth
    <3>4. Mirrors(f[k], g[k])
      BY <1>5, <3>1, <3>3
    <3> QED
      BY <3>1, <3>4
  <2>2. CASE ~(n + 1 <= m)
    BY <2>2
  <2> QED
    BY <2>1, <2>2
<1> HIDE DEF H
<1>8. Nat \subseteq H
  BY <1>6, <1>7, Induction
<1>9. m \in H
  BY <1>8
<1> QED
  BY <1>5, <1>9 DEF H

(* Among the parts u are the parts t, one behind the other. *)
Within(t, u) ==
  /\ t \in Seq(PartSet) /\ u \in Seq(PartSet)
  /\ \A a \in Nat : \E b \in Nat : PartsAt(t, b) \subseteq PartsAt(u, a)

LEMMA WithinRules ==
  /\ \A t \in Seq(PartSet) : Within(t, t)
  /\ \A t, u, v : Within(t, u) /\ v \in Seq(PartSet) => Within(t, u \o v) /\ Within(t, v \o u)
<1>1. \A t \in Seq(PartSet) : Within(t, t)
  BY DEF Within
<1>2. ASSUME NEW t, NEW u, NEW v, Within(t, u), v \in Seq(PartSet)
      PROVE  Within(t, u \o v) /\ Within(t, v \o u)
  <2>1. t \in Seq(PartSet) /\ u \in Seq(PartSet)
    BY <1>2 DEF Within
  <2>2. u \o v \in Seq(PartSet) /\ v \o u \in Seq(PartSet)
    BY <1>2, <2>1, BothParts
  <2>3. ASSUME NEW a \in Nat
        PROVE  \E b \in Nat : PartsAt(t, b) \subseteq PartsAt(u \o v, a)
    <3>1. PICK b \in Nat : PartsAt(t, b) \subseteq PartsAt(u, a)
      BY <1>2 DEF Within
    <3>2. PartsAt(u \o v, a) = PartsAt(u, a) \cup PartsAt(v, a + Bytes(u))
      BY <1>2, <2>1, PartsOfBoth
    <3> QED
      BY <3>1, <3>2
  <2>4. ASSUME NEW a \in Nat
        PROVE  \E b \in Nat : PartsAt(t, b) \subseteq PartsAt(v \o u, a)
    <3>0. Bytes(v) \in Nat
      BY <1>2, PartsCount
    <3>1. PICK b \in Nat : PartsAt(t, b) \subseteq PartsAt(u, a + Bytes(v))
      BY <1>2, <3>0 DEF Within
    <3>2. PartsAt(v \o u, a) = PartsAt(v, a) \cup PartsAt(u, a + Bytes(v))
      BY <1>2, <2>1, PartsOfBoth
    <3> QED
      BY <3>1, <3>2
  <2> QED
    BY <2>1, <2>2, <2>3, <2>4 DEF Within
<1> QED
  BY <1>1, <1>2

LEMMA WithinEach ==
  ASSUME NEW r \in Seq(Seq(PartSet)), NEW i \in 1 .. Len(r)
  PROVE  Within(r[i], FlattenSeq(r))
<1>1. PICK g : IsJoined(g, r)
  BY Joined, Zenon
<1>2. /\ g[0] = << >> /\ g[Len(r)] = FlattenSeq(r) /\ \A k \in 1 .. Len(r) : g[k] = g[k - 1] \o r[k]
  BY <1>1 DEF IsJoined
<1>3. Len(r) \in Nat /\ \A k \in 1 .. Len(r) : r[k] \in Seq(PartSet)
  OBVIOUS
<1> DEFINE H == { n \in Nat : n <= Len(r) => g[n] \in Seq(PartSet) /\ (i <= n => Within(r[i], g[n])) }
<1>4. 0 \in H
  <2>1. g[0] \in Seq(PartSet) /\ ~(i <= 0)
    BY <1>2, <1>3, NoParts
  <2> QED
    BY <2>1
<1>5. ASSUME NEW n \in Nat, n \in H
      PROVE  n + 1 \in H
  <2>1. CASE n + 1 <= Len(r)
    <3>1. PICK k \in 1 .. Len(r) : k = n + 1 /\ k - 1 = n
      BY <1>3, <2>1
    <3>0. n <= Len(r)
      BY <1>3, <2>1
    <3>2. g[n] \in Seq(PartSet) /\ (i <= n => Within(r[i], g[n])) /\ g[k] = g[n] \o r[k]
      <4>1. g[n] \in Seq(PartSet) /\ (i <= n => Within(r[i], g[n]))
        BY <1>5, <3>0
      <4>2. g[k] = g[k - 1] \o r[k]
        BY <1>2
      <4> QED
        BY <3>1, <4>1, <4>2
    <3>3. g[k] \in Seq(PartSet)
      BY <1>3, <3>2
    <3>4. ASSUME i <= k
          PROVE  Within(r[i], g[k])
      <4>1. CASE i <= n
        BY <1>3, <3>2, <4>1, WithinRules
      <4>2. CASE i = k
        BY <1>3, <3>2, <4>2, WithinRules
      <4> QED
        BY <3>1, <3>4, <4>1, <4>2
    <3> QED
      BY <3>1, <3>3, <3>4
  <2>2. CASE ~(n + 1 <= Len(r))
    BY <2>2
  <2> QED
    BY <2>1, <2>2
<1> HIDE DEF H
<1>6. Nat \subseteq H
  BY <1>4, <1>5, Induction
<1>7. Len(r) \in H /\ i <= Len(r)
  BY <1>3, <1>6
<1> QED
  BY <1>2, <1>3, <1>7 DEF H

(* A part with bytes is found where it was put. *)
LEMMA WithinShows ==
  ASSUME NEW f \in Names, NEW i \in Nat, NEW n \in Nat \ {0}, NEW t, Within(NthPart(f, i, n), t)
  PROVE  \E b \in Nat : Placed(f, i, b, n) \in PartsAt(t, 0)
<1> DEFINE p == [ field |-> f, nth |-> i, bytes |-> n ]
<1>1. p \in PartSet /\ p.bytes > 0 /\ p.field = f /\ p.nth = i /\ p.bytes = n
  BY DEF PartSet
<1>2. NthPart(f, i, n) = << p >>
  BY DEF NthPart
<1> HIDE DEF p
<1>3. 0 \in Nat
  OBVIOUS
<1>4. PICK b \in Nat : PartsAt(<< p >>, b) \subseteq PartsAt(t, 0)
  BY <1>2, <1>3 DEF Within
<1>5. Spots(<< p >>, BytesOf, b) = { <<p, b>> }
  <2>1. BytesOf \in [PartSet -> Nat]
    BY WeightsOfParts
  <2>2. \A S, m : m \in [S -> Nat] => \A x \in S : Spots(<<x>>, m, b) = { <<x, b>> }
    BY SpotsOfFew
  <2> QED
    BY <1>1, <2>1, <2>2, Zenon
<1>6. Placed(f, i, b, n) \in Laid({ <<p, b>> })
  <2>1. <<p, b>> \in { y \in { <<p, b>> } : y[1].bytes > 0 }
    BY <1>1
  <2>2. Placed(f, i, b, n) = Placed(<<p, b>>[1].field, <<p, b>>[1].nth, <<p, b>>[2], <<p, b>>[1].bytes)
    BY <1>1
  <2> QED
    BY <2>1, <2>2, Zenon DEF Laid
<1> QED
  BY <1>4, <1>5, <1>6 DEF PartsAt

(* A field comes from an item, whose kind it has. *)
LEMMA FieldsOfKind ==
  ASSUME NEW P, NEW s \in Items(P), NEW a \in Nat, NEW x \in FieldsAt(s, a)
  PROVE  \E i \in 1 .. Len(s) : /\ s[i] \in P /\ s[i].keep > 0
                                /\ x = Placed(s[i].field, s[i].nth, a + At(s, i - 1), s[i].keep)
<1>1. PICK y \in Spots(s, SkipOf, a) : y[1].keep > 0 /\ x = Placed(y[1].field, y[1].nth, y[2], y[1].keep)
  BY Zenon DEF FieldsAt, Filled
<1>2. PICK i \in 1 .. Len(s) : y = <<s[i], a + UpTo(s, SkipOf, i - 1)>>
  BY <1>1 DEF Spots
<1>3. s[i] \in P
  BY DEF Items
<1> QED
  BY <1>1, <1>2, <1>3 DEF At

(* Parts end where the last that has bytes ends. *)
LEMMA PartsEnd ==
  ASSUME NEW t \in Seq(PartSet), Bytes(t) > 0
  PROVE  \E x \in PartsAt(t, 0) : x.at + x.bytes = Bytes(t)
<1>1. BytesOf \in [PartSet -> Nat] /\ Bytes(t) = Weight(t, BytesOf)
  BY WeightsOfParts
<1>2. /\ UpTo(t, BytesOf, 0) = 0
      /\ \A i \in 1 .. Len(t) : UpTo(t, BytesOf, i) = UpTo(t, BytesOf, i - 1) + BytesOf[t[i]]
      /\ \A i \in 0 .. Len(t) : UpTo(t, BytesOf, i) \in Nat
      /\ Weight(t, BytesOf) = UpTo(t, BytesOf, Len(t))
  BY <1>1, UpToDefined, Zenon
<1>3. Len(t) \in Nat /\ \A i \in 1 .. Len(t) : t[i] \in PartSet
  OBVIOUS
<1>4. \A i \in 1 .. Len(t) : BytesOf[t[i]] = t[i].bytes /\ t[i].bytes \in Nat
  BY <1>3 DEF BytesOf, PartSet
<1> DEFINE U(i) == UpTo(t, BytesOf, i)
           H == { i \in Nat : i <= Len(t) /\ U(i) = Bytes(t) }
<1> HIDE DEF U
<1>5. Len(t) \in H
  BY <1>1, <1>2, <1>3 DEF U
<1>6. H \subseteq Nat /\ H # {}
  BY <1>5
<1>7. PICK i \in H : \A j \in H : i <= j
  BY <1>6, HasLeast
<1>8. i # 0
  BY <1>2, <1>7 DEF U
<1>9. i \in 1 .. Len(t) /\ i - 1 \in 0 .. Len(t) /\ i - 1 \notin H
  BY <1>3, <1>7, <1>8
<1>10. U(i - 1) # Bytes(t) /\ U(i) = Bytes(t) /\ U(i) = U(i - 1) + t[i].bytes /\ U(i - 1) \in Nat /\ t[i].bytes \in Nat
  BY <1>2, <1>4, <1>7, <1>9 DEF U
<1>11. t[i].bytes > 0 /\ 0 + U(i - 1) = U(i - 1)
  BY <1>10
<1> DEFINE y == <<t[i], 0 + U(i - 1)>>
           x == Placed(y[1].field, y[1].nth, y[2], y[1].bytes)
<1>12. y \in Spots(t, BytesOf, 0) /\ y[1].bytes > 0
  BY <1>9, <1>11 DEF Spots, U
<1>13. x.at = U(i - 1) /\ x.bytes = t[i].bytes
  BY <1>11 DEF Placed
<1> HIDE DEF y
<1>14. x \in PartsAt(t, 0)
  BY <1>12, Zenon DEF PartsAt, Laid
<1> HIDE DEF x
<1>15. x.at + x.bytes = Bytes(t)
  BY <1>10, <1>13
<1> QED
  BY <1>14, <1>15, Zenon

(* More rules of Mirrors: items that read nothing, alternatives, and what is *)
(* read up to the end of the data.                                          *)
LEMMA MirrorsMore ==
  /\ \A s, t, u : Mirrors(s, t) /\ Mirrors(u, << >>) => Mirrors(s \o u, t) /\ Mirrors(u \o s, t)
  /\ \A b, s, t : Mirrors(s, t) => Mirrors(When(b, s), When(b, t))
  /\ \A b, u : Mirrors(u, << >>) => Mirrors(When(b, u), << >>)
  /\ \A f \in Names, v \in Nat : Mirrors(When(v > 0, Read(f, v)), When(v > 0, Part(f, v)))
<1>1. ASSUME NEW s, NEW t, NEW u, Mirrors(s, t), Mirrors(u, << >>)
      PROVE  Mirrors(s \o u, t) /\ Mirrors(u \o s, t)
  <2>1. Mirrors(s \o u, t \o << >>) /\ Mirrors(u \o s, << >> \o t)
    BY <1>1, MirrorsBoth
  <2>2. t \in Seq(PartSet)
    BY <1>1 DEF Mirrors
  <2>3. t \o << >> = t /\ << >> \o t = t
    BY <2>2
  <2> QED
    BY <2>1, <2>3
<1>2. \A b, s, t : Mirrors(s, t) => Mirrors(When(b, s), When(b, t))
  BY MirrorRules, Zenon DEF When
<1>3. \A b, u : Mirrors(u, << >>) => Mirrors(When(b, u), << >>)
  BY MirrorRules, Zenon DEF When
<1>4. \A f \in Names, v \in Nat : Mirrors(When(v > 0, Read(f, v)), When(v > 0, Part(f, v)))
  BY <1>2, MirrorRules, Zenon
<1> QED
  BY <1>1, <1>2, <1>3, <1>4

LEMMA MirrorsRest ==
  ASSUME NEW s, NEW t, Mirrors(s, t), NEW v \in Nat
  PROVE  Rest(Bytes(t) + v, s) = v /\ Bytes(t) + v \in Nat
<1> DEFINE n == Bytes(t) + v
<1>1. Skipped(s) = Bytes(t) /\ Bytes(t) \in Nat
  BY PartsCount DEF Mirrors
<1>2. n > Skipped(s) <=> v > 0
  BY <1>1
<1>3. n - Skipped(s) = v /\ n \in Nat
  BY <1>1
<1> QED
  BY <1>2, <1>3 DEF Rest

LEMMA MirrorsTail ==
  ASSUME NEW s, NEW t, Mirrors(s, t), NEW f \in Names, NEW v \in Nat
  PROVE  /\ Rest(Bytes(t \o When(v > 0, Part(f, v))), s) = v
         /\ Mirrors(s \o When(v > 0, Read(f, v)), t \o When(v > 0, Part(f, v)))
<1>1. t \in Seq(PartSet)
  BY DEF Mirrors
<1>2. When(v > 0, Part(f, v)) \in Seq(PartSet) /\ Bytes(When(v > 0, Part(f, v))) = v
  <2>1. CASE v > 0
    BY <2>1, PartRules DEF When
  <2>2. CASE ~(v > 0)
    BY <2>2, PartRules DEF When
  <2> QED
    BY <2>1, <2>2
<1>3. Bytes(t \o When(v > 0, Part(f, v))) = Bytes(t) + v
  BY <1>1, <1>2, BothParts
<1>4. Rest(Bytes(t) + v, s) = v
  BY MirrorsRest
<1>5. Mirrors(When(v > 0, Read(f, v)), When(v > 0, Part(f, v)))
  BY MirrorsMore
<1> QED
  BY <1>3, <1>4, <1>5, MirrorsBoth

(* The bits of a byte. *)
LEMMA MirrorsBits ==
  ASSUME NEW o, NEW kind, NEW c \in Nat, NEW f \in Names
  PROVE  Mirrors(FlattenSeq([ i \in 1 .. 8 |-> When(Bit(o, kind, i - 1), NthRead(f, i - 1, c)) ]),
                 FlattenSeq([ i \in 1 .. 8 |-> When(Bit(o, kind, i - 1), NthPart(f, i - 1, c)) ]))
<1> DEFINE q == [ i \in 1 .. 8 |-> When(Bit(o, kind, i - 1), NthRead(f, i - 1, c)) ]
           r == [ i \in 1 .. 8 |-> When(Bit(o, kind, i - 1), NthPart(f, i - 1, c)) ]
<1>1. \A i \in 1 .. 8 : Mirrors(q[i], r[i])
  <2> SUFFICES ASSUME NEW i \in 1 .. 8
               PROVE  Mirrors(When(Bit(o, kind, i - 1), NthRead(f, i - 1, c)),
                              When(Bit(o, kind, i - 1), NthPart(f, i - 1, c)))
    OBVIOUS
  <2>1. i - 1 \in Nat
    OBVIOUS
  <2>2. Mirrors(NthRead(f, i - 1, c), NthPart(f, i - 1, c))
    BY <2>1, MirrorRules
  <2> QED
    BY <2>2, MirrorsMore, Zenon
<1>2. /\ DOMAIN q = 1 .. 8 /\ q = [ i \in 1 .. 8 |-> q[i] ]
      /\ DOMAIN r = 1 .. 8 /\ r = [ i \in 1 .. 8 |-> r[i] ]
  OBVIOUS
<1>3. 8 \in Nat
  OBVIOUS
<1> HIDE DEF q, r
<1>4. Mirrors(FlattenSeq(q), FlattenSeq(r))
  BY <1>1, <1>2, <1>3, MirrorsEach, Zenon
<1> QED
  BY <1>4 DEF q, r

-----------------------------------------------------------------------------
(* Everything that o holds, and nothing else, is found in the fields. *)
Back(o, n) ==
  /\ FieldsAt(SetSRD(o, n).items, 0) = PartsAt(GetData(o).parts, 0)
  /\ \A h \in Held(o) : \E x \in FieldsAt(SetSRD(o, n).items, 0) : h = <<x.field, x.nth, x.bytes>>

LEMMA MirrorsBack ==
  ASSUME NEW o, NEW n, Mirrors(SetSRD(o, n).items, GetData(o).parts), Held(o) = {}
  PROVE  Back(o, n)
<1>1. 0 \in Nat
  OBVIOUS
<1> QED
  BY <1>1 DEF Back, Mirrors

LEMMA Body_Back ==
  ASSUME NEW o, IsObject(o), o.class \in DOMAIN BodySize, NEW n
  PROVE  Back(o, n) <=> ~Lossy(o)
<1>1. o.class \in {"TRecResp", "TAuthParams", "TServiceInfo", "TVehicleData", "TResultCode", "TStateData"}
  BY DEF BodySize
<1>2. BodySize[o.class] \in Nat
  BY <1>1 DEF BodySize
<1>3. GetData(o) = Body_GetData(o) /\ SetSRD(o, n) = Body_SetSRD(o, n)
  BY <1>1 DEF GetData, SetSRD
<1>4. Mirrors(Read("body", BodySize[o.class]), Part("body", BodySize[o.class]))
  BY <1>2, MirrorRules DEF Names
<1>5. SetSRD(o, n).items = Read("body", BodySize[o.class]) /\ GetData(o).parts = Part("body", BodySize[o.class])
  BY <1>3 DEF Body_GetData, Body_SetSRD, Reads, Wrote
<1>6. ~Lossy(o) /\ Held(o) = {}
  BY <1>1 DEF Lossy, Held, Overfull
<1> QED
  BY <1>4, <1>5, <1>6, MirrorsBack

LEMMA TCommandData_Back ==
  ASSUME NEW o, IsObject(o), o.class = "TCommandData", NEW n, n = Bytes(GetData(o).parts)
  PROVE  Back(o, n) <=> ~Lossy(o)
<1>1. o.var \in Nat /\ o.list[1].size \in Nat
  BY ObjectHas
<1> DEFINE s == Read("head", 10) \o When("chsfe" \in o.flags, Read("chs", 1))
                  \o When("acfe" \in o.flags, Read("acl", 1) \o Read("ac", o.list[1].size))
                  \o When("COMCONF" \in o.flags, Read("confirmation", 4))
                  \o When("COM" \in o.flags, Read("command", 5))
           t == Part("head", 10) \o When("chsfe" \in o.flags, Part("chs", 1))
                  \o When("acfe" \in o.flags, Part("acl", 1) \o Part("ac", o.list[1].size))
                  \o When("COMCONF" \in o.flags, Part("confirmation", 4))
                  \o When("COM" \in o.flags, Part("command", 5))
<1>2. /\ Mirrors(Read("head", 10), Part("head", 10)) /\ Mirrors(Read("chs", 1), Part("chs", 1))
      /\ Mirrors(Read("acl", 1), Part("acl", 1))
      /\ Mirrors(Read("ac", o.list[1].size), Part("ac", o.list[1].size))
      /\ Mirrors(Read("confirmation", 4), Part("confirmation", 4))
      /\ Mirrors(Read("command", 5), Part("command", 5))
  BY <1>1, MirrorRules DEF Names
<1>3. Mirrors(s, t)
  BY <1>2, MirrorsMore, MirrorsBoth, Zenon
<1>4. GetData(o).parts = t \o When(o.var > 0, Part("cd", o.var))
  BY DEF GetData, TCommandData_GetData, Wrote
<1>5. SetSRD(o, n).items = s \o When(Rest(n, s) > 0, Read("cd", Rest(n, s)))
  BY DEF SetSRD, TCommandData_SetSRD, Reads
<1> HIDE DEF s, t
<1>6. Rest(n, s) = o.var /\ Mirrors(s \o When(o.var > 0, Read("cd", o.var)), t \o When(o.var > 0, Part("cd", o.var)))
  <2>1. "cd" \in Names
    BY DEF Names
  <2>2. n = Bytes(t \o When(o.var > 0, Part("cd", o.var)))
    BY <1>4
  <2>3. /\ Rest(Bytes(t \o When(o.var > 0, Part("cd", o.var))), s) = o.var
        /\ Mirrors(s \o When(o.var > 0, Read("cd", o.var)), t \o When(o.var > 0, Part("cd", o.var)))
    BY <1>1, <1>3, <2>1, MirrorsTail
  <2> QED
    BY <2>2, <2>3, Zenon
<1>7. ~Lossy(o) /\ Held(o) = {}
  BY DEF Lossy, Held, Overfull
<1> QED
  BY <1>4, <1>5, <1>6, <1>7, MirrorsBack

LEMMA BitCntNat ==
  ASSUME NEW o, NEW kind
  PROVE  BitCnt(o, kind) \in Nat
<1> DEFINE k == [ i \in 1 .. 8 |-> 1 * Sure(Bit(o, kind, i - 1)) ]
<1>1. k = [ i \in 1 .. 8 |-> 1 * Sure(Bit(o, kind, i - 1)) ] /\ 1 \in Nat
  OBVIOUS
<1> HIDE DEF k
<1> QED
  BY <1>1, BitsSum, Zenon

(* The bytes of two parts, and of one that is there if it has bytes. *)
LEMMA BytesOfTwo ==
  ASSUME NEW f \in Names, NEW g \in Names, NEW m \in Nat, NEW v \in Nat
  PROVE  /\ Bytes(Part(f, m)) = m
         /\ Bytes(Part(f, m) \o Part(g, v)) = m + v
         /\ Bytes(Part(f, m) \o When(v > 0, Part(g, v))) = m + v
<1>1. /\ Part(f, m) \in Seq(PartSet) /\ Bytes(Part(f, m)) = m
      /\ Part(g, v) \in Seq(PartSet) /\ Bytes(Part(g, v)) = v
      /\ << >> \in Seq(PartSet) /\ Bytes(<< >>) = 0
  BY PartRules, Zenon
<1>2. When(v > 0, Part(g, v)) \in Seq(PartSet) /\ Bytes(When(v > 0, Part(g, v))) = v
  BY <1>1 DEF When
<1> QED
  BY <1>1, <1>2, BothParts

LEMMA TECallRawMSD_Back ==
  ASSUME NEW o, IsObject(o), o.class = "TECallRawMSD", NEW n \in 0 .. MaxU16 - 1, n = Bytes(GetData(o).parts)
  PROVE  Back(o, n) <=> ~Lossy(o)
<1>1. o.var \in Nat /\ "msd" \in Names /\ "fm" \in Names
  BY ObjectHas DEF Names
<1>2. GetData(o).parts = Part("fm", 1) \o When(o.var > 0, Part("msd", o.var))
  BY DEF GetData, TECallRawMSD_GetData, Wrote
<1>3. /\ Mirrors(Loose("fm", 1, 1), Part("fm", 1))
      /\ Mirrors(Loose("msd", o.var, o.var), Part("msd", o.var))
  BY <1>1, MirrorRules
<1>4. n = 1 + o.var
  <2>1. 1 \in Nat
    OBVIOUS
  <2>2. Bytes(Part("fm", 1) \o When(o.var > 0, Part("msd", o.var))) = 1 + o.var
    BY <1>1, <2>1, BytesOfTwo, Zenon
  <2> QED
    BY <1>2, <2>2
<1>5. U16(n - 1 + MaxU16) = o.var
  <2>1. o.var < MaxU16
    BY DEF IsObject
  <2>2. n - 1 + MaxU16 = o.var + MaxU16 /\ MaxU16 \in Nat /\ o.var \in 0 .. MaxU16 - 1
    BY <1>1, <1>4, <2>1, U16Rules
  <2>3. (o.var + MaxU16) % MaxU16 = o.var
    BY <2>2, Turned
  <2> QED
    BY <2>2, <2>3 DEF U16
<1>6. SetSRD(o, n).items = Loose("fm", 1, 1) \o When(o.var > 0, Loose("msd", o.var, o.var))
  BY <1>5 DEF SetSRD, TECallRawMSD_SetSRD, ReadsAll
<1>7. Mirrors(SetSRD(o, n).items, GetData(o).parts)
  BY <1>2, <1>3, <1>6, MirrorsMore, MirrorsBoth, Zenon
<1>8. ~Lossy(o) /\ Held(o) = {}
  BY DEF Lossy, Held, Overfull
<1> QED
  BY <1>7, <1>8, MirrorsBack

LEMMA TEPCompData_Back ==
  ASSUME NEW o, IsObject(o), o.class = "TEPCompData", NEW n
  PROVE  Back(o, n) <=> ~Lossy(o)
<1>1. o.var \in Nat /\ "cd" \in Names /\ "head" \in Names
  BY ObjectHas DEF Names
<1>2. GetData(o).parts = Part("head", 5) \o When(o.var > 0, Part("cd", o.var))
  BY DEF GetData, TEPCompData_GetData, Wrote
<1>3. SetSRD(o, n).items = Read("head", 5) \o When(o.var > 0, Read("cd", o.var))
  BY DEF SetSRD, TEPCompData_SetSRD, Reads
<1>4. Mirrors(Read("head", 5), Part("head", 5)) /\ Mirrors(Read("cd", o.var), Part("cd", o.var))
  BY <1>1, MirrorRules
<1>5. Mirrors(SetSRD(o, n).items, GetData(o).parts)
  BY <1>2, <1>3, <1>4, MirrorsMore, MirrorsBoth, Zenon
<1>6. ~Lossy(o) /\ Held(o) = {}
  BY DEF Lossy, Held, Overfull
<1> QED
  BY <1>5, <1>6, MirrorsBack

LEMMA TPlusData_Back ==
  ASSUME NEW o, IsObject(o), o.class = "TPlusData", NEW n, n = Bytes(GetData(o).parts)
  PROVE  Back(o, n) <=> ~Lossy(o)
<1>1. o.var \in Nat /\ "protobuf" \in Names
  BY ObjectHas DEF Names
<1>2. GetData(o).parts = Part("protobuf", o.var)
  BY DEF GetData, TPlusData_GetData, Wrote
<1>3. n = o.var
  BY <1>1, <1>2, PartRules
<1>4. SetSRD(o, n).items = Read("protobuf", o.var)
  BY <1>3 DEF SetSRD, TPlusData_SetSRD, ReadsAll
<1>5. Mirrors(SetSRD(o, n).items, GetData(o).parts)
  BY <1>1, <1>2, <1>4, MirrorRules
<1>6. ~Lossy(o) /\ Held(o) = {}
  BY DEF Lossy, Held, Overfull
<1> QED
  BY <1>5, <1>6, MirrorsBack

LEMMA TLiquidLevel_Back ==
  ASSUME NEW o, IsObject(o), o.class = "TLiquidLevel", NEW n, n = Bytes(GetData(o).parts)
  PROVE  Back(o, n) <=> ~Lossy(o)
<1>1. o.var \in Nat /\ "llcd" \in Names /\ "head" \in Names
  BY ObjectHas DEF Names
<1>2. GetData(o).parts = Part("head", 3) \o Part("llcd", o.var)
  BY DEF GetData, TLiquidLevel_GetData, Wrote
<1>3. /\ Mirrors(Read("head", 3), Part("head", 3)) /\ Mirrors(Read("llcd", o.var), Part("llcd", o.var))
      /\ Mirrors(Check(4), << >>)
  BY <1>1, MirrorRules
<1>4. n = Bytes(Part("head", 3)) + o.var
  <2>1. 3 \in Nat
    OBVIOUS
  <2>2. Bytes(Part("head", 3)) = 3 /\ Bytes(Part("head", 3) \o Part("llcd", o.var)) = 3 + o.var
    BY <1>1, <2>1, BytesOfTwo, Zenon
  <2> QED
    BY <1>2, <2>2
<1>5. Rest(n, Read("head", 3)) = o.var
  <2>1. Rest(Bytes(Part("head", 3)) + o.var, Read("head", 3)) = o.var
    BY <1>1, <1>3, MirrorsRest
  <2> QED
    BY <1>4, <2>1, Zenon
<1>6. SetSRD(o, n).items = Check(4) \o Read("head", 3) \o Read("llcd", o.var)
  BY <1>5 DEF SetSRD, TLiquidLevel_SetSRD, ReadsAll
<1>7. Mirrors(SetSRD(o, n).items, GetData(o).parts)
  BY <1>2, <1>3, <1>6, MirrorsMore, MirrorsBoth, Zenon
<1>8. ~Lossy(o) /\ Held(o) = {}
  BY DEF Lossy, Held, Overfull
<1> QED
  BY <1>7, <1>8, MirrorsBack

LEMMA TAdSensors_Back ==
  ASSUME NEW o, IsObject(o), o.class = "TAdSensors", NEW n
  PROVE  Back(o, n) <=> ~Lossy(o)
<1> DEFINE q(kind, c) == FlattenSeq([ i \in 1 .. 8 |-> When(Bit(o, kind, i - 1), NthRead(kind, i - 1, c)) ])
           r(kind, c) == FlattenSeq([ i \in 1 .. 8 |-> When(Bit(o, kind, i - 1), NthPart(kind, i - 1, c)) ])
           m == BitCnt(o, "din") + BitCnt(o, "ain") * 3
<1>1. GetData(o).parts = Part("head", 3) \o r("din", 1) \o r("ain", 3)
  BY DEF GetData, TAdSensors_GetData, Wrote, EachBit
<1>2. SetSRD(o, n).items = Read("head", 3) \o Check(m) \o q("din", 1) \o q("ain", 3)
  BY DEF SetSRD, TAdSensors_SetSRD, Reads, EachBit
<1>3. Mirrors(q("din", 1), r("din", 1)) /\ Mirrors(q("ain", 3), r("ain", 3))
  BY MirrorsBits DEF Names
<1> HIDE DEF q, r
<1>4. m \in Nat
  <2>1. BitCnt(o, "din") \in Nat
    BY BitCntNat
  <2>2. BitCnt(o, "ain") \in Nat
    BY BitCntNat
  <2> QED
    BY <2>1, <2>2
<1> HIDE DEF m
<1>5. Mirrors(Read("head", 3), Part("head", 3)) /\ Mirrors(Check(m), << >>)
  BY <1>4, MirrorRules DEF Names
<1>6. Mirrors(SetSRD(o, n).items, GetData(o).parts)
  BY <1>1, <1>2, <1>3, <1>5, MirrorsMore, MirrorsBoth, Zenon
<1>7. ~Lossy(o) /\ Held(o) = {}
  BY DEF Lossy, Held, Overfull
<1> QED
  BY <1>6, <1>7, MirrorsBack

LEMMA TCounters_Back ==
  ASSUME NEW o, IsObject(o), o.class = "TCounters", NEW n
  PROVE  Back(o, n) <=> ~Lossy(o)
<1> DEFINE q == FlattenSeq([ i \in 1 .. 8 |-> When(Bit(o, "cnt", i - 1), NthRead("cnt", i - 1, 3)) ])
           r == FlattenSeq([ i \in 1 .. 8 |-> When(Bit(o, "cnt", i - 1), NthPart("cnt", i - 1, 3)) ])
           m == BitCnt(o, "cnt") * 3
<1>1. GetData(o).parts = Part("flags", 1) \o r
  BY DEF GetData, TCounters_GetData, Wrote, EachBit
<1>2. SetSRD(o, n).items = Read("flags", 1) \o Check(m) \o q
  BY DEF SetSRD, TCounters_SetSRD, Reads, EachBit
<1>3. Mirrors(q, r)
  BY MirrorsBits DEF Names
<1> HIDE DEF q, r
<1>4. m \in Nat
  BY BitCntNat
<1> HIDE DEF m
<1>5. Mirrors(Read("flags", 1), Part("flags", 1)) /\ Mirrors(Check(m), << >>)
  BY <1>4, MirrorRules DEF Names
<1>6. Mirrors(SetSRD(o, n).items, GetData(o).parts)
  BY <1>1, <1>2, <1>3, <1>5, MirrorsMore, MirrorsBoth, Zenon
<1>7. ~Lossy(o) /\ Held(o) = {}
  BY DEF Lossy, Held, Overfull
<1> QED
  BY <1>6, <1>7, MirrorsBack

LEMMA TExtPosData_Back ==
  ASSUME NEW o, IsObject(o), o.class = "TExtPosData", NEW n
  PROVE  Back(o, n) <=> ~Lossy(o)
<1>1. GetData(o).parts = Part("flags", 1) \o ExtFields(o, Part)
  BY DEF GetData, TExtPosData_GetData, Wrote
<1>2. SetSRD(o, n).items = Read("flags", 1) \o Check(ExtSize(o) - 1) \o ExtFields(o, Read)
  BY DEF SetSRD, TExtPosData_SetSRD, Reads
<1>3. /\ Mirrors(Read("flags", 1), Part("flags", 1)) /\ Mirrors(Read("vdop", 2), Part("vdop", 2))
      /\ Mirrors(Read("hdop", 2), Part("hdop", 2)) /\ Mirrors(Read("pdop", 2), Part("pdop", 2))
      /\ Mirrors(Read("sat", 1), Part("sat", 1)) /\ Mirrors(Read("ns", 2), Part("ns", 2))
  BY MirrorRules DEF Names
<1>4. ExtSize(o) - 1 \in Nat
  BY DEF ExtSize, Sure
<1>5. Mirrors(Check(ExtSize(o) - 1), << >>)
  BY <1>4, MirrorRules
<1>6. Mirrors(ExtFields(o, Read), ExtFields(o, Part))
  BY <1>3, MirrorsMore, MirrorsBoth, Zenon DEF ExtFields
<1>7. Mirrors(SetSRD(o, n).items, GetData(o).parts)
  BY <1>1, <1>2, <1>3, <1>5, <1>6, MirrorsMore, MirrorsBoth, Zenon
<1>8. ~Lossy(o) /\ Held(o) = {}
  BY DEF Lossy, Held, Overfull
<1> QED
  BY <1>7, <1>8, MirrorsBack

LEMMA TInsAccel_Back ==
  ASSUME NEW o, IsObject(o), o.class = "TInsAccel", NEW n
  PROVE  Back(o, n) <=> ~Lossy(o)
<1>1. o.var \in Nat /\ AxisSize(o, 1) \in Nat /\ AxisSize(o, 2) \in Nat /\ AxisSize(o, 3) \in Nat
      /\ Calibration(o) \in Nat
  <2>1. o.var \in Nat
    BY ObjectHas
  <2>2. AxisSize(o, 1) \in 0 .. 4 /\ AxisSize(o, 2) \in 0 .. 4 /\ AxisSize(o, 3) \in 0 .. 4
    BY Axes
  <2> QED
    BY <2>1, <2>2 DEF Calibration
<1>2. GetData(o).parts =
        Part("head", 4) \o When("first" \in o.flags, Part("body", 16)) \o Part("dl", 2)
          \o When(Packed(o), Part("x", AxisSize(o, 1)) \o Part("y", AxisSize(o, 2))
                               \o Part("z", AxisSize(o, 3)))
          \o When(o.var > 0, Part("xyz_data", o.var))
  BY DEF GetData, TInsAccel_GetData, Wrote
<1>3. SetSRD(o, n).items =
        Read("head", 4) \o When("first" \in o.flags, Read("body", 16)) \o Read("dl", 2)
          \o When(Packed(o), Check(Calibration(o)) \o Read("x", AxisSize(o, 1))
                               \o Read("y", AxisSize(o, 2)) \o Read("z", AxisSize(o, 3)))
          \o When(o.var > 0, Read("xyz_data", o.var))
  BY DEF SetSRD, TInsAccel_SetSRD, ReadsAll
<1>4. /\ Mirrors(Read("head", 4), Part("head", 4)) /\ Mirrors(Read("body", 16), Part("body", 16))
      /\ Mirrors(Read("dl", 2), Part("dl", 2)) /\ Mirrors(Check(Calibration(o)), << >>)
      /\ Mirrors(Read("x", AxisSize(o, 1)), Part("x", AxisSize(o, 1)))
      /\ Mirrors(Read("y", AxisSize(o, 2)), Part("y", AxisSize(o, 2)))
      /\ Mirrors(Read("z", AxisSize(o, 3)), Part("z", AxisSize(o, 3)))
      /\ Mirrors(Read("xyz_data", o.var), Part("xyz_data", o.var))
  BY <1>1, MirrorRules DEF Names
<1>5. Mirrors(Check(Calibration(o)) \o Read("x", AxisSize(o, 1)), Part("x", AxisSize(o, 1)))
  BY <1>4, MirrorsMore
<1>6. Mirrors(Check(Calibration(o)) \o Read("x", AxisSize(o, 1))
                \o Read("y", AxisSize(o, 2)) \o Read("z", AxisSize(o, 3)),
              Part("x", AxisSize(o, 1)) \o Part("y", AxisSize(o, 2)) \o Part("z", AxisSize(o, 3)))
  BY <1>4, <1>5, MirrorsBoth, Zenon
<1>7. Mirrors(SetSRD(o, n).items, GetData(o).parts)
  BY <1>2, <1>3, <1>4, <1>6, MirrorsMore, MirrorsBoth, Zenon
<1>8. ~Lossy(o) /\ Held(o) = {}
  BY DEF Lossy, Held, Overfull
<1> QED
  BY <1>7, <1>8, MirrorsBack

(* Items that keep k bytes of the field f, i: none of another length is filled. *)
Keeping(f, i, k) == { x \in ItemSet : x.field = f /\ x.nth = i => x.keep = k }

LEMMA KeepingRules ==
  ASSUME NEW f \in Names \ {"none"}, NEW i \in Nat, NEW k \in Nat
  PROVE  /\ << >> \in Items(Keeping(f, i, k))
         /\ \A g \in Names : \A j, d, m, c \in Nat : (g = f /\ j = i => m = k) =>
              << [ field |-> g, nth |-> j, need |-> d, keep |-> m, skip |-> c ] >> \in Items(Keeping(f, i, k))
         /\ \A g \in Names : \A j, m \in Nat : (g = f /\ j = i => m = k) =>
              NthRead(g, j, m) \in Items(Keeping(f, i, k))
         /\ \A g \in Names : \A m \in Nat : (g = f /\ 0 = i => m = k) =>
              Read(g, m) \in Items(Keeping(f, i, k))
         /\ \A g \in Names : \A m, c \in Nat : (g = f /\ 0 = i => m = k) =>
              Loose(g, m, c) \in Items(Keeping(f, i, k))
         /\ \A d \in Nat : Check(d) \in Items(Keeping(f, i, k))
         /\ \A s, t : s \in Items(Keeping(f, i, k)) /\ t \in Items(Keeping(f, i, k)) =>
              s \o t \in Items(Keeping(f, i, k))
         /\ \A b, s : (b => s \in Items(Keeping(f, i, k))) => When(b, s) \in Items(Keeping(f, i, k))
<1> DEFINE K == Items(Keeping(f, i, k))
<1>1. << >> \in K
  BY NoItems
<1>2. ASSUME NEW g \in Names, NEW j \in Nat, NEW d \in Nat, NEW m \in Nat, NEW c \in Nat,
             g = f /\ j = i => m = k
      PROVE  << [ field |-> g, nth |-> j, need |-> d, keep |-> m, skip |-> c ] >> \in K
  <2> DEFINE r == [ field |-> g, nth |-> j, need |-> d, keep |-> m, skip |-> c ]
  <2>1. r \in ItemSet /\ r \in Keeping(f, i, k)
    BY <1>2 DEF ItemSet, Keeping
  <2> HIDE DEF r
  <2>2. << r >> \in K
    BY <2>1, OneItem
  <2> QED
    BY <2>2 DEF r
<1>3. 0 \in Nat /\ "none" \in Names /\ "none" # f
  BY DEF Names
<1>4. \A s, t : s \in K /\ t \in K => s \o t \in K
  BY BothItems
<1> HIDE DEF K
<1>5. \A g \in Names : \A j, m \in Nat : (g = f /\ j = i => m = k) => NthRead(g, j, m) \in K
  BY <1>2, Zenon DEF NthRead
<1>6. \A g \in Names : \A m \in Nat : (g = f /\ 0 = i => m = k) => Read(g, m) \in K
  BY <1>3, <1>5, Zenon DEF Read
<1>7. \A g \in Names : \A m, c \in Nat : (g = f /\ 0 = i => m = k) => Loose(g, m, c) \in K
  BY <1>2, <1>3, Zenon DEF Loose
<1>8. \A d \in Nat : Check(d) \in K
  BY <1>2, <1>3, Zenon DEF Check
<1>9. \A b, s : (b => s \in K) => When(b, s) \in K
  BY <1>1, Zenon DEF When
<1> QED
  BY <1>1, <1>2, <1>4, <1>5, <1>6, <1>7, <1>8, <1>9, Zenon DEF K

LEMMA KeepingKeeps ==
  ASSUME NEW f, NEW i, NEW k, NEW s \in Items(Keeping(f, i, k))
  PROVE  \A x \in FieldsAt(s, 0) : x.field = f /\ x.nth = i => x.bytes = k
<1> SUFFICES ASSUME NEW x \in FieldsAt(s, 0), x.field = f, x.nth = i
             PROVE  x.bytes = k
  OBVIOUS
<1>1. PICK j \in 1 .. Len(s) : /\ s[j] \in Keeping(f, i, k) /\ s[j].keep > 0
                               /\ x = Placed(s[j].field, s[j].nth, 0 + At(s, j - 1), s[j].keep)
  <2>1. 0 \in Nat
    OBVIOUS
  <2> QED
    BY <2>1, FieldsOfKind
<1>2. x.field = s[j].field /\ x.nth = s[j].nth /\ x.bytes = s[j].keep
  BY <1>1 DEF Placed
<1>3. s[j].keep = k
  BY <1>1, <1>2 DEF Keeping
<1> QED
  BY <1>2, <1>3

(* A part that no item keeps all of is lost. *)
LEMMA KeepingLoses ==
  ASSUME NEW f \in Names, NEW i \in Nat, NEW k, NEW n \in Nat \ {0}, n # k,
         NEW s \in Items(Keeping(f, i, k)), NEW t, Within(NthPart(f, i, n), t)
  PROVE  FieldsAt(s, 0) # PartsAt(t, 0)
<1> SUFFICES ASSUME FieldsAt(s, 0) = PartsAt(t, 0)
             PROVE  FALSE
  OBVIOUS
<1>1. PICK b \in Nat : Placed(f, i, b, n) \in PartsAt(t, 0)
  BY WithinShows
<1> DEFINE x == Placed(f, i, b, n)
<1>2. x.field = f /\ x.nth = i /\ x.bytes = n
  BY DEF Placed
<1> HIDE DEF x
<1>3. x \in FieldsAt(s, 0)
  BY <1>1 DEF x
<1>4. \A y \in FieldsAt(s, 0) : y.field = f /\ y.nth = i => y.bytes = k
  BY KeepingKeeps
<1>5. x.bytes = k
  BY <1>2, <1>3, <1>4
<1> QED
  BY <1>2, <1>5

LEMMA TDispIdent_Back ==
  ASSUME NEW o, IsObject(o), o.class = "TDispIdent", NEW n, n = Bytes(GetData(o).parts)
  PROVE  Back(o, n) <=> ~Lossy(o)
<1>1. /\ o.var \in Nat /\ DescrLen(o) \in Nat /\ "dscr" \in Names \ {"none"} /\ "head" \in Names
      /\ o.var < 255 => DescrLen(o) = o.var + 1
      /\ o.var >= 255 => DescrLen(o) # o.var + 1
  <2>1. o.var \in Nat
    BY ObjectHas
  <2>2. DescrLen(o) \in 0 .. 255 /\ (o.var < 255 => DescrLen(o) = o.var + 1)
    BY <2>1 DEF DescrLen
  <2> QED
    BY <2>1, <2>2 DEF Names
<1> DEFINE d == DescrLen(o)
           s == Read("head", 5) \o When(d > 0, Read("dscr", d))
           t == Part("head", 5) \o When(d > 0, Part("dscr", d))
<1>2. GetData(o).parts = t
  BY DEF GetData, TDispIdent_GetData, Wrote
<1>3. SetSRD(o, n).items = Read("head", 5) \o When(Rest(n, Read("head", 5)) > 0,
                                                  Read("dscr", Rest(n, Read("head", 5))))
  BY DEF SetSRD, TDispIdent_SetSRD, Reads
<1> HIDE DEF d
<1>4. d \in Nat
  BY <1>1 DEF d
<1>5. Mirrors(Read("head", 5), Part("head", 5)) /\ Mirrors(Read("dscr", d), Part("dscr", d))
  BY <1>1, <1>4, MirrorRules
<1>6. Rest(n, Read("head", 5)) = d /\ Mirrors(s, t)
  BY <1>1, <1>2, <1>4, <1>5, MirrorsTail
<1>7. SetSRD(o, n).items = s
  BY <1>3, <1>6
<1>8. s \in Items(Keeping("dscr", 0, d))
  <2>1. 0 \in Nat /\ 5 \in Nat /\ "head" # "dscr"
    OBVIOUS
  <2>2. Read("head", 5) \in Items(Keeping("dscr", 0, d)) /\ Read("dscr", d) \in Items(Keeping("dscr", 0, d))
    BY <1>1, <1>4, <2>1, KeepingRules, Zenon
  <2> QED
    BY <1>1, <1>4, <2>1, <2>2, KeepingRules, Zenon
<1>9. Held(o) = { <<"dscr", 0, o.var + 1>> }
  BY DEF Held
<1>10. Lossy(o) <=> o.var >= 255
  BY DEF Lossy, Overfull
<1>11. d > 0 => Within(NthPart("dscr", 0, d), t)
  <2> SUFFICES ASSUME d > 0
               PROVE  Within(NthPart("dscr", 0, d), t)
    OBVIOUS
  <2>1. t = Part("head", 5) \o NthPart("dscr", 0, d)
    BY DEF When, Part
  <2>0. 0 \in Nat /\ 5 \in Nat /\ "dscr" \in Names
    BY <1>1
  <2>2. NthPart("dscr", 0, d) \in Seq(PartSet) /\ Part("head", 5) \in Seq(PartSet)
    BY <1>1, <1>4, <2>0, PartRules, Zenon
  <2> QED
    BY <2>1, <2>2, WithinRules
<1>12. FieldsAt(s, 0) = PartsAt(t, 0)
  BY <1>6 DEF Mirrors
<1> HIDE DEF s, t
<1>13. ASSUME o.var < 255
       PROVE  \E x \in FieldsAt(s, 0) : <<"dscr", 0, o.var + 1>> = <<x.field, x.nth, x.bytes>>
  <2>1. d = o.var + 1 /\ d \in Nat \ {0} /\ d > 0
    BY <1>1, <1>13 DEF d
  <2>2. 0 \in Nat
    OBVIOUS
  <2>3. PICK b \in Nat : Placed("dscr", 0, b, d) \in PartsAt(t, 0)
    BY <1>1, <1>11, <2>1, <2>2, WithinShows
  <2>4. Placed("dscr", 0, b, d).field = "dscr" /\ Placed("dscr", 0, b, d).nth = 0
        /\ Placed("dscr", 0, b, d).bytes = d
    BY DEF Placed
  <2> QED
    BY <1>12, <2>1, <2>3, <2>4
<1>14. ASSUME o.var >= 255, NEW x \in FieldsAt(s, 0), <<"dscr", 0, o.var + 1>> = <<x.field, x.nth, x.bytes>>
       PROVE  FALSE
  <2>1. x.field = "dscr" /\ x.nth = 0 /\ x.bytes = o.var + 1
    BY <1>14
  <2>2. \A y \in FieldsAt(s, 0) : y.field = "dscr" /\ y.nth = 0 => y.bytes = d
    BY <1>8, KeepingKeeps
  <2>3. x.bytes = d
    BY <1>14, <2>1, <2>2
  <2> QED
    BY <1>1, <1>14, <2>1, <2>3 DEF d
<1>15. Back(o, n) <=> \E x \in FieldsAt(s, 0) : <<"dscr", 0, o.var + 1>> = <<x.field, x.nth, x.bytes>>
  BY <1>2, <1>7, <1>9, <1>12 DEF Back
<1>16. o.var < 255 \/ o.var >= 255
  BY <1>1
<1>17. ~(o.var < 255 /\ o.var >= 255)
  BY <1>1
<1> QED
  BY <1>10, <1>13, <1>14, <1>15, <1>16, <1>17

LEMMA TermMirrors ==
  ASSUME NEW o, IsObject(o), "mne" \notin o.flags
  PROVE  Mirrors(TermItems(o), TermParts(o))
<1> DEFINE F(f, n) == Loose(f, n, n)
           s == TermFields(o, F)
           t == TermFields(o, Part)
<1>1. /\ Mirrors(Read("head", 5), Part("head", 5)) /\ Mirrors(Loose("hdid", 2, 2), Part("hdid", 2))
      /\ Mirrors(Loose("imei", 15, 15), Part("imei", 15)) /\ Mirrors(Loose("imsi", 16, 16), Part("imsi", 16))
      /\ Mirrors(Loose("lngc", 3, 3), Part("lngc", 3)) /\ Mirrors(Loose("nid", 3, 3), Part("nid", 3))
      /\ Mirrors(Loose("bs", 2, 2), Part("bs", 2))
  BY MirrorRules DEF Names
<1>2. TermSize(o) - 5 \in Nat
  BY TermPartsMade
<1>3. Mirrors(Check(TermSize(o) - 5), << >>)
  BY <1>2, MirrorRules
<1>4. Mirrors(s, t)
  BY <1>1, MirrorsMore, MirrorsBoth, Zenon DEF TermFields
<1>5. TermItems(o) = Read("head", 5) \o Check(TermSize(o) - 5) \o s \o When("mne" \in o.flags, Loose("msisdn", 0, 15))
  BY DEF TermItems
<1>6. TermParts(o) = Part("head", 5) \o t \o When("mne" \in o.flags, Part("msisdn", 15))
  BY DEF TermParts
<1> HIDE DEF s, t
<1>7. Mirrors(When("mne" \in o.flags, Loose("msisdn", 0, 15)), When("mne" \in o.flags, Part("msisdn", 15)))
  BY MirrorRules DEF When
<1> QED
  BY <1>1, <1>3, <1>4, <1>5, <1>6, <1>7, MirrorsMore, MirrorsBoth, Zenon

LEMMA TermLoses ==
  ASSUME NEW o, IsObject(o), "mne" \in o.flags
  PROVE  /\ TermItems(o) \in Items(Keeping("msisdn", 0, 0))
         /\ Within(NthPart("msisdn", 0, 15), TermParts(o))
<1> DEFINE F(f, n) == Loose(f, n, n)
           K == Items(Keeping("msisdn", 0, 0))
           s == TermFields(o, F)
           t == TermFields(o, Part)
<1>0. /\ {"msisdn"} \subseteq Names \ {"none"} /\ "msisdn" \in Names \ {"none"} /\ 0 \in Nat
      /\ {"head", "hdid", "imei", "imsi", "lngc", "nid", "bs", "msisdn"} \subseteq Names
      /\ 5 \in Nat /\ 2 \in Nat /\ 15 \in Nat /\ 16 \in Nat /\ 3 \in Nat
      /\ "msisdn" \notin {"head", "hdid", "imei", "imsi", "lngc", "nid", "bs"}
  BY DEF Names
<1>1. /\ \A g \in {"head", "hdid", "imei", "imsi", "lngc", "nid", "bs"} :
           \A m \in Nat : Read(g, m) \in K /\ Loose(g, m, m) \in K
      /\ \A d \in Nat : Check(d) \in K
      /\ Loose("msisdn", 0, 15) \in K
      /\ \A x, y : x \in K /\ y \in K => x \o y \in K
      /\ \A b, x : x \in K => When(b, x) \in K
  BY <1>0, KeepingRules
<1> HIDE DEF K
<1>2. /\ Read("head", 5) \in K /\ Loose("hdid", 2, 2) \in K /\ Loose("imei", 15, 15) \in K
      /\ Loose("imsi", 16, 16) \in K /\ Loose("lngc", 3, 3) \in K /\ Loose("nid", 3, 3) \in K
      /\ Loose("bs", 2, 2) \in K
  BY <1>0, <1>1
<1>3. TermSize(o) - 5 \in Nat
  BY TermPartsMade
<1>4. s \in K
  BY <1>1, <1>2, Zenon DEF TermFields
<1>5. TermItems(o) = Read("head", 5) \o Check(TermSize(o) - 5) \o s \o When("mne" \in o.flags, Loose("msisdn", 0, 15))
  BY DEF TermItems
<1>6. TermItems(o) \in K
  BY <1>1, <1>2, <1>3, <1>4, <1>5, Zenon
<1>7. t \in Seq(PartSet) /\ Part("head", 5) \in Seq(PartSet)
  <2>1. /\ Part("head", 5) \in Seq(PartSet) /\ Part("hdid", 2) \in Seq(PartSet) /\ Part("imei", 15) \in Seq(PartSet)
        /\ Part("imsi", 16) \in Seq(PartSet) /\ Part("lngc", 3) \in Seq(PartSet) /\ Part("nid", 3) \in Seq(PartSet)
        /\ Part("bs", 2) \in Seq(PartSet) /\ << >> \in Seq(PartSet)
    BY <1>0, PartRules
  <2>2. \A b, x : x \in Seq(PartSet) => When(b, x) \in Seq(PartSet)
    BY <2>1 DEF When
  <2>3. \A x, y : x \in Seq(PartSet) /\ y \in Seq(PartSet) => x \o y \in Seq(PartSet)
    BY PartRules
  <2> QED
    BY <2>1, <2>2, <2>3, Zenon DEF TermFields
<1>8. TermParts(o) = (Part("head", 5) \o t) \o NthPart("msisdn", 0, 15)
  BY DEF TermParts, When, Part
<1> HIDE DEF s, t
<1>9. Part("head", 5) \o t \in Seq(PartSet) /\ NthPart("msisdn", 0, 15) \in Seq(PartSet)
  BY <1>0, <1>7, PartRules
<1>10. Within(NthPart("msisdn", 0, 15), TermParts(o))
  BY <1>8, <1>9, WithinRules
<1> QED
  BY <1>6, <1>10 DEF K

LEMMA TTermIdent_Back ==
  ASSUME NEW o, IsObject(o), o.class = "TTermIdent", NEW n
  PROVE  Back(o, n) <=> ~Lossy(o)
<1>1. GetData(o).parts = TermParts(o) /\ SetSRD(o, n).items = TermItems(o)
  BY DEF GetData, SetSRD, TTermIdent_GetData, TTermIdent_SetSRD, Wrote, Reads
<1>2. (Lossy(o) <=> "mne" \in o.flags) /\ Held(o) = {}
  BY DEF Lossy, Held, Overfull
<1>3. CASE "mne" \notin o.flags
  BY <1>1, <1>2, <1>3, TermMirrors, MirrorsBack
<1>4. CASE "mne" \in o.flags
  <2>1. 15 \in Nat \ {0} /\ 15 # 0 /\ 0 \in Nat /\ "msisdn" \in Names
    BY DEF Names
  <2>2. FieldsAt(TermItems(o), 0) # PartsAt(TermParts(o), 0)
    BY <1>4, <2>1, TermLoses, KeepingLoses, Zenon
  <2> QED
    BY <1>1, <1>2, <1>4, <2>2 DEF Back
<1> QED
  BY <1>3, <1>4

(* A string that is there with its zero. *)
LEMMA CStringWhole ==
  ASSUME NEW f, NEW l \in Nat, NEW m \in Nat, m >= l + 1
  PROVE  CString(f, l, m) = Loose(f, l + 1, l + 1)
<1>1. Least(l + 1, m) = l + 1 /\ Least(l, m) = l
  BY DEF Least
<1> QED
  BY <1>1 DEF CString

LEMMA TAuthInfo_Back ==
  ASSUME NEW o, IsObject(o), o.class = "TAuthInfo", NEW n, n = Bytes(GetData(o).parts)
  PROVE  Back(o, n) <=> ~Lossy(o)
<1>1. o.list[1].size \in Nat /\ o.list[2].size \in Nat /\ o.list[3].size \in Nat
  BY SizesKnown
<1>2. PICK a \in Nat : a = o.list[1].size
  BY <1>1
<1>3. PICK b \in Nat : b = o.list[2].size
  BY <1>1
<1>4. PICK c \in Nat : c = o.list[3].size
  BY <1>1
<1> DEFINE v == IF c + 1 > 1 THEN c + 1 ELSE 0
           t1 == Part("user_name", a + 1)
           t2 == Part("user_pass", b + 1)
           s1 == CString("user_name", a, n)
           s2 == CString("user_pass", b, Rest(n, s1))
           l1 == Loose("user_name", a + 1, a + 1)
           l2 == Loose("user_pass", b + 1, b + 1)
           rest == Rest(n, s1 \o s2)
<1>5. /\ "user_name" \in Names /\ "user_pass" \in Names /\ "server_sequence" \in Names
      /\ a + 1 \in Nat /\ b + 1 \in Nat /\ c + 1 \in Nat /\ v \in Nat /\ 2 \in Nat /\ 1 \in Nat
      /\ (v > 0 <=> c + 1 > 1) /\ (v > 0 => v = c + 1)
  BY DEF Names
<1> HIDE DEF v
<1>6. GetData(o).parts = t1 \o t2 \o When(c + 1 > 1, Part("server_sequence", c + 1))
  BY <1>2, <1>3, <1>4 DEF GetData, TAuthInfo_GetData, Wrote
<1>7. SetSRD(o, n).items = Check(2) \o s1 \o Check(1) \o s2
                             \o When(rest > 0, CString("server_sequence", c, rest))
  BY <1>2, <1>3, <1>4 DEF SetSRD, TAuthInfo_SetSRD, ReadsAll
<1>8. /\ Mirrors(l1, t1) /\ Mirrors(l2, t2)
      /\ Mirrors(Check(2), << >>) /\ Mirrors(Check(1), << >>)
      /\ Mirrors(Loose("server_sequence", c + 1, c + 1), Part("server_sequence", c + 1))
  BY <1>5, MirrorRules, Zenon
<1>9. Bytes(t1) = a + 1 /\ Bytes(t2) = b + 1 /\ t1 \in Seq(PartSet) /\ t2 \in Seq(PartSet)
      /\ Bytes(t1 \o t2) = (a + 1) + (b + 1) /\ t1 \o t2 \in Seq(PartSet)
  <2>1. Bytes(t1) = a + 1 /\ Bytes(t2) = b + 1 /\ t1 \in Seq(PartSet) /\ t2 \in Seq(PartSet)
    BY <1>5, PartRules
  <2> HIDE DEF t1, t2
  <2> QED
    BY <2>1, PartRules
<1>10. When(c + 1 > 1, Part("server_sequence", c + 1)) \in Seq(PartSet)
       /\ Bytes(When(c + 1 > 1, Part("server_sequence", c + 1))) = v
  <2>1. Part("server_sequence", c + 1) \in Seq(PartSet) /\ Bytes(Part("server_sequence", c + 1)) = c + 1
    BY <1>5, PartRules
  <2> QED
    BY <2>1, PartRules DEF When, v
<1> HIDE DEF t1, t2, l1, l2
<1>11. n = Bytes(t1 \o t2) + v /\ n = (a + 1) + (b + 1) + v
  <2>1. n = Bytes(t1 \o t2) + v
    BY <1>6, <1>9, <1>10, BothParts
  <2> QED
    BY <1>9, <2>1
<1>12. s1 = l1
  <2>1. n \in Nat /\ n >= a + 1
    BY <1>5, <1>11
  <2> QED
    BY <2>1, CStringWhole DEF l1
<1>13. s2 = l2
  <2>1. n = Bytes(t1) + ((b + 1) + v) /\ (b + 1) + v \in Nat
    BY <1>5, <1>9, <1>11
  <2>2. Rest(Bytes(t1) + ((b + 1) + v), l1) = (b + 1) + v
    BY <1>8, <2>1, MirrorsRest
  <2>3. Rest(n, s1) = (b + 1) + v
    BY <1>12, <2>1, <2>2, Zenon
  <2>4. (b + 1) + v >= b + 1
    BY <1>5
  <2> QED
    BY <2>1, <2>3, <2>4, CStringWhole DEF l2
<1>14. rest = v
  <2>1. Mirrors(l1 \o l2, t1 \o t2)
    BY <1>8, MirrorsBoth
  <2>2. Rest(Bytes(t1 \o t2) + v, l1 \o l2) = v
    BY <1>5, <2>1, MirrorsRest
  <2> QED
    BY <1>11, <1>12, <1>13, <2>2
<1>15. When(rest > 0, CString("server_sequence", c, rest))
         = When(c + 1 > 1, Loose("server_sequence", c + 1, c + 1))
  <2>1. CASE v > 0
    <3>1. rest = c + 1 /\ rest > 0 /\ c + 1 > 1
      BY <1>5, <1>14, <2>1
    <3>2. CString("server_sequence", c, c + 1) = Loose("server_sequence", c + 1, c + 1)
      BY <1>5, CStringWhole
    <3> QED
      BY <3>1, <3>2 DEF When
  <2>2. CASE ~(v > 0)
    BY <1>5, <1>14, <2>2 DEF When
  <2> QED
    BY <2>1, <2>2
<1>16. SetSRD(o, n).items = Check(2) \o l1 \o Check(1) \o l2
                              \o When(c + 1 > 1, Loose("server_sequence", c + 1, c + 1))
  BY <1>7, <1>12, <1>13, <1>15
<1>17. Mirrors(SetSRD(o, n).items, GetData(o).parts)
  BY <1>6, <1>8, <1>16, MirrorsMore, MirrorsBoth, Zenon
<1>18. ~Lossy(o) /\ Held(o) = {}
  BY DEF Lossy, Held, Overfull
<1> QED
  BY <1>17, <1>18, MirrorsBack

LEMMA TPosData_Back ==
  ASSUME NEW o, IsObject(o), o.class = "TPosData", NEW n, n = GetData(o).size
  PROVE  Back(o, n) <=> ~Lossy(o)
<1>1. Src(o) \in 0 .. 255
  <2>1. Src(o) \in Nat
    BY SizesKnown DEF Src
  <2>2. Src(o) <= 255
    BY DEF IsObject
  <2> QED
    BY <2>1, <2>2
<1> DEFINE s == Read("body", 21) \o When("alte" \in o.flags, Read("alt", 3))
           t == Part("body", 21) \o When("alte" \in o.flags, Part("alt", 3))
           k == 21 + (IF "alte" \in o.flags THEN 3 ELSE 0)
<1>2. n = k + 2 * Src(o) /\ k \in Nat
  <2>1. n = U16(21 + 3 * Sure("alte" \in o.flags) + 2 * Src(o))
    BY TPosData_Writes
  <2>2. 21 + 3 * Sure("alte" \in o.flags) + 2 * Src(o) = k + 2 * Src(o) /\ k \in 0 .. 24
    BY <1>1 DEF Sure
  <2> HIDE DEF k
  <2>3. k + 2 * Src(o) \in Nat /\ k + 2 * Src(o) < MaxU16
    BY <1>1, <2>2, U16Rules
  <2>4. U16(k + 2 * Src(o)) = k + 2 * Src(o)
    BY <2>3, U16Rules
  <2> QED
    BY <2>1, <2>2, <2>4
<1>3. /\ "body" \in Names /\ "alt" \in Names /\ "srcd" \in Names
      /\ 21 \in Nat /\ 3 \in Nat /\ 2 \in Nat /\ 0 \in Nat
  BY DEF Names
<1>4. Mirrors(s, t)
  <2>1. Mirrors(Read("body", 21), Part("body", 21)) /\ Mirrors(Read("alt", 3), Part("alt", 3))
    BY <1>3, MirrorRules, Zenon
  <2> QED
    BY <2>1, MirrorsMore, MirrorsBoth, Zenon
<1>5. Bytes(t) = k
  <2>1. Makes(Part("body", 21), 21) /\ Makes(Part("alt", 3), 3) /\ Makes(<< >>, 0)
    BY <1>3, MakesRules, Zenon
  <2>2. Makes(When("alte" \in o.flags, Part("alt", 3)), IF "alte" \in o.flags THEN 3 ELSE 0)
    BY <2>1 DEF When
  <2>3. Makes(t, k)
    BY <2>1, <2>2, MakesRules, Zenon
  <2> HIDE DEF t, k
  <2> QED
    BY <2>3 DEF Makes
<1>6. GetData(o).parts = t \o When(Src(o) > 0, Part("srcd", 2))
  BY DEF GetData, TPosData_GetData, Wrote
<1>7. SetSRD(o, n).items = s \o When(Rest(n, s) >= 2, Loose("srcd", 2, 0))
  BY DEF SetSRD, TPosData_SetSRD, Reads
<1> HIDE DEF s, t, k
<1>8. Rest(n, s) >= 2 <=> Src(o) > 0
  <2>1. 2 * Src(o) \in Nat
    BY <1>1
  <2>2. Rest(Bytes(t) + 2 * Src(o), s) = 2 * Src(o)
    BY <1>4, <2>1, MirrorsRest
  <2>3. Rest(n, s) = 2 * Src(o)
    BY <1>2, <1>5, <2>2
  <2> QED
    BY <1>1, <2>3
<1>9. /\ s \in Seq(ItemSet) /\ t \in Seq(PartSet) /\ Skipped(s) = Bytes(t) /\ Bytes(t) \in Nat
      /\ FieldsAt(s, 0) = PartsAt(t, 0)
  BY <1>3, <1>4, PartsCount DEF Mirrors
<1>10. FieldsAt(SetSRD(o, n).items, 0) = PartsAt(GetData(o).parts, 0)
  <2>1. CASE Src(o) > 0
    <3> DEFINE i == [ field |-> "srcd", nth |-> 0, need |-> 0, keep |-> 2, skip |-> 0 ]
               p == [ field |-> "srcd", nth |-> 0, bytes |-> 2 ]
    <3>1. i \in ItemSet /\ p \in PartSet /\ i.keep = p.bytes /\ i.field = p.field /\ i.nth = p.nth
      BY <1>3 DEF ItemSet, PartSet
    <3>2. Loose("srcd", 2, 0) = << i >> /\ Part("srcd", 2) = << p >>
      BY DEF Loose, Part, NthPart
    <3> HIDE DEF i, p
    <3>3. 0 + Bytes(t) = Bytes(t)
      BY <1>9
    <3>4. FieldsAt(<< i >>, Bytes(t)) = PartsAt(<< p >>, Bytes(t))
      BY <1>9, <3>1, SameSpot
    <3>5. << i >> \in Seq(ItemSet) /\ << p >> \in Seq(PartSet)
      BY <3>1
    <3>6. FieldsAt(s \o << i >>, 0) = FieldsAt(s, 0) \cup FieldsAt(<< i >>, 0 + Skipped(s))
      BY <1>3, <1>9, <3>5, FieldsOfBoth
    <3>7. PartsAt(t \o << p >>, 0) = PartsAt(t, 0) \cup PartsAt(<< p >>, 0 + Bytes(t))
      BY <1>3, <1>9, <3>5, PartsOfBoth
    <3>8. SetSRD(o, n).items = s \o << i >> /\ GetData(o).parts = t \o << p >>
      BY <1>6, <1>7, <1>8, <2>1, <3>2 DEF When
    <3> QED
      BY <1>9, <3>3, <3>4, <3>6, <3>7, <3>8
  <2>2. CASE ~(Src(o) > 0)
    <3>1. s \o << >> = s /\ t \o << >> = t
      BY <1>9
    <3>2. SetSRD(o, n).items = s /\ GetData(o).parts = t
      BY <1>6, <1>7, <1>8, <2>2, <3>1 DEF When
    <3> QED
      BY <1>9, <3>2
  <2> QED
    BY <2>1, <2>2
<1>11. ~Lossy(o) /\ Held(o) = {}
  BY DEF Lossy, Held, Overfull
<1> QED
  BY <1>10, <1>11 DEF Back

(* Exact items fill nothing behind the last of them. *)
LEMMA ExactEnd ==
  ASSUME NEW s, NEW k, Exact(s, k), NEW x \in FieldsAt(s, 0)
  PROVE  x.at + x.bytes <= k
<1>1. s \in Seq(ItemSet) /\ k \in Nat /\ 0 \in Nat
  BY DEF Exact
<1>2. InsideAt(s, 0, k) /\ PassesAt(s, 0, k)
  <2>1. 0 <= k /\ 0 + k <= k
    BY <1>1
  <2> QED
    BY <1>1, <2>1 DEF Exact
<1>3. s \in Items(ItemSet)
  BY <1>1 DEF Items
<1>4. PICK i \in 1 .. Len(s) : s[i].keep > 0 /\ x = Placed(s[i].field, s[i].nth, 0 + At(s, i - 1), s[i].keep)
  BY <1>1, <1>3, FieldsOfKind
<1>5. Passed(s, i, k)
  <2>1. Passed(s, Len(s), k)
    BY <1>1, <1>2, FromTheFirst
  <2>2. \A l \in 1 .. i : l \in 1 .. Len(s)
    BY <1>1
  <2> QED
    BY <2>1, <2>2 DEF Passed
<1>6. At(s, i - 1) + s[i].keep <= k
  BY <1>1, <1>2, <1>4, <1>5, FromTheFirst
<1>7. x.at = 0 + At(s, i - 1) /\ x.bytes = s[i].keep
  BY <1>4 DEF Placed
<1>8. At(s, i - 1) \in Nat
  <2>1. i - 1 \in 0 .. Len(s)
    BY <1>1
  <2> QED
    BY <1>1, <2>1, AtDefined
<1> QED
  BY <1>6, <1>7, <1>8

(* Items that end in front of the last part have lost it. *)
LEMMA LostByEnd ==
  ASSUME NEW s, NEW k, Exact(s, k), NEW t \in Seq(PartSet), k < Bytes(t)
  PROVE  FieldsAt(s, 0) # PartsAt(t, 0)
<1>1. k \in Nat /\ Bytes(t) \in Nat
  BY PartsCount DEF Exact
<1>2. Bytes(t) > 0
  BY <1>1
<1>3. PICK x \in PartsAt(t, 0) : x.at + x.bytes = Bytes(t)
  BY <1>2, PartsEnd
<1>4. x \in FieldsAt(s, 0) => x.at + x.bytes <= k
  BY ExactEnd
<1>5. ~(Bytes(t) <= k)
  BY <1>1
<1> QED
  BY <1>3, <1>4, <1>5

(* An object that is not read to its end has lost something. *)
LEMMA LostUnderread ==
  ASSUME NEW o, NEW n \in Nat, NEW k, Fair(o, n), Exact(SetSRD(o, n).items, k),
         ~Spills(o), ~Unwritable(o), n = GetData(o).size,
         GetData(o).parts \in Seq(PartSet), n = Bytes(GetData(o).parts), Underread(o)
  PROVE  ~Back(o, n)
<1>1. PassesAt(SetSRD(o, n).items, 0, n) /\ Skipped(SetSRD(o, n).items) # n
  BY DEF Fair
<1>2. k \in Nat /\ Skipped(SetSRD(o, n).items) = k
  BY DEF Exact
<1>3. k <= n
  <2>1. 0 \in Nat /\ 0 <= n
    OBVIOUS
  <2>2. 0 + k <= n
    BY <1>1, <2>1 DEF Exact
  <2> QED
    BY <1>2, <2>2
<1>4. k < n
  BY <1>1, <1>2, <1>3
<1> QED
  BY <1>4, LostByEnd DEF Back

LEMMA TTermIdent2_Back ==
  ASSUME NEW o, IsObject(o), o.class = "TTermIdent2", NEW n, n = Bytes(GetData(o).parts)
  PROVE  Back(o, n) <=> ~Lossy(o)
<1> DEFINE s == Loose("flags", 1, 1) \o When("icce" \in o.flags, Loose("iccid", 19, 19))
           t == Part("flags", 1) \o When("icce" \in o.flags, Part("iccid", 19))
           left == n - TermSize(o)
<1>1. TermSize(o) \in Nat /\ left = 1 + (IF "icce" \in o.flags THEN 19 ELSE 0)
  <2>1. TermSize(o) \in Nat
    BY TermPartsMade
  <2>2. n = TermSize(o) + 1 + (IF "icce" \in o.flags THEN 19 ELSE 0)
    BY TTermIdent2_Writes DEF Makes
  <2> QED
    BY <2>1, <2>2
<1>2. GetData(o).parts = TermParts(o) \o Part("flags", 1) \o When("icce" \in o.flags, Part("iccid", 19))
  BY DEF GetData, TTermIdent2_GetData, Wrote
<1>3. SetSRD(o, n).items = TermItems(o) \o Loose("flags", Sure(left > 0), 1)
         \o When(left > 0 /\ "icce" \in o.flags, Loose("iccid", IF left >= 20 THEN 19 ELSE 0, 19))
  BY DEF SetSRD, TTermIdent2_SetSRD, Reads
<1> HIDE DEF left
<1>4. SetSRD(o, n).items = TermItems(o) \o Loose("flags", 1, 1)
                             \o When("icce" \in o.flags, Loose("iccid", 19, 19))
  <2>1. left > 0 /\ Sure(left > 0) = 1
    BY <1>1 DEF Sure
  <2>2. "icce" \in o.flags => left >= 20
    BY <1>1
  <2>3. When(left > 0 /\ "icce" \in o.flags, Loose("iccid", IF left >= 20 THEN 19 ELSE 0, 19))
          = When("icce" \in o.flags, Loose("iccid", 19, 19))
    BY <2>1, <2>2 DEF When
  <2> QED
    BY <1>3, <2>1, <2>3
<1>5. /\ "flags" \in Names /\ "iccid" \in Names /\ "msisdn" \in Names /\ "msisdn" \in Names \ {"none"}
      /\ "flags" # "msisdn" /\ "iccid" # "msisdn"
      /\ 1 \in Nat /\ 19 \in Nat /\ 0 \in Nat
  BY DEF Names
<1>6. (Lossy(o) <=> "mne" \in o.flags) /\ Held(o) = {}
  BY DEF Lossy, Held, Overfull
<1>7. CASE "mne" \notin o.flags
  <2>1. Mirrors(TermItems(o), TermParts(o))
    BY <1>7, TermMirrors
  <2>2. Mirrors(Loose("flags", 1, 1), Part("flags", 1)) /\ Mirrors(Loose("iccid", 19, 19), Part("iccid", 19))
    BY <1>5, MirrorRules, Zenon
  <2>3. Mirrors(SetSRD(o, n).items, GetData(o).parts)
    BY <1>2, <1>4, <2>1, <2>2, MirrorsMore, MirrorsBoth, Zenon
  <2> QED
    BY <1>6, <1>7, <2>3, MirrorsBack
<1>8. CASE "mne" \in o.flags
  <2> DEFINE K == Items(Keeping("msisdn", 0, 0))
  <2>1. TermItems(o) \in K /\ Within(NthPart("msisdn", 0, 15), TermParts(o))
    BY <1>8, TermLoses
  <2>2. /\ Loose("flags", 1, 1) \in K /\ Loose("iccid", 19, 19) \in K
        /\ \A x, y : x \in K /\ y \in K => x \o y \in K
        /\ \A b, x : x \in K => When(b, x) \in K
    BY <1>5, KeepingRules, Zenon
  <2> HIDE DEF K
  <2>3. SetSRD(o, n).items \in K
    BY <1>4, <2>1, <2>2, Zenon
  <2>4. Part("flags", 1) \in Seq(PartSet) /\ When("icce" \in o.flags, Part("iccid", 19)) \in Seq(PartSet)
    <3>1. Part("flags", 1) \in Seq(PartSet) /\ Part("iccid", 19) \in Seq(PartSet) /\ << >> \in Seq(PartSet)
      BY <1>5, PartRules, Zenon
    <3> QED
      BY <3>1 DEF When
  <2>5. Within(NthPart("msisdn", 0, 15), GetData(o).parts)
    BY <1>2, <2>1, <2>4, WithinRules, Zenon
  <2>6. 15 \in Nat \ {0} /\ 15 # 0
    OBVIOUS
  <2>7. FieldsAt(SetSRD(o, n).items, 0) # PartsAt(GetData(o).parts, 0)
    BY <1>5, <2>3, <2>5, <2>6, KeepingLoses, Zenon DEF K
  <2> QED
    BY <1>6, <1>8, <2>7 DEF Back
<1> QED
  BY <1>7, <1>8

(* Objects that may not be read to their end. *)
Sound(o, n) ==
  /\ IsObject(o) /\ n \in 0 .. MaxU16 - 1 /\ n \in Nat /\ Fair(o, n) /\ ~Spills(o) /\ ~Unwritable(o)
  /\ n = GetData(o).size /\ GetData(o).parts \in Seq(PartSet) /\ n = Bytes(GetData(o).parts)

(* A part that is there if it has bytes. *)
LEMMA PartIfAny ==
  ASSUME NEW f \in Names, NEW v \in Nat
  PROVE  When(v > 0, Part(f, v)) \in Seq(PartSet) /\ Bytes(When(v > 0, Part(f, v))) = v
<1>1. CASE v > 0
  BY <1>1, PartRules DEF When
<1>2. CASE ~(v > 0)
  BY <1>2, PartRules DEF When
<1> QED
  BY <1>1, <1>2

LEMMA TECallMSD_Back ==
  ASSUME NEW o, NEW n, Sound(o, n), o.class = "TECallMSD"
  PROVE  Back(o, n) <=> ~Lossy(o)
<1>0. IsObject(o) /\ n \in Nat /\ n = Bytes(GetData(o).parts)
  BY DEF Sound
<1>1. o.var \in Nat /\ OptSize(o) \in 0 .. 9 /\ (o.var > 0 => OptSize(o) = 9)
  <2>1. o.var \in Nat
    BY <1>0, SizesKnown
  <2>2. OptSize(o) \in 0 .. 9 /\ (o.var > 0 => OptSize(o) = 9)
    BY DEF OptSize
  <2> QED
    BY <2>1, <2>2
<1>2. PICK m \in 0 .. 9 : m = OptSize(o)
  BY <1>1
<1>3. PICK v \in Nat : v = o.var
  BY <1>1
<1>4. (Lossy(o) <=> v > 56) /\ Held(o) = {} /\ (Underread(o) <=> v > 56)
  BY <1>3 DEF Lossy, Held, Overfull, Underread
<1>5. CASE v > 56
  <2>1. \E k : Exact(SetSRD(o, n).items, k)
    BY <1>0, TECallMSD_Reads
  <2> QED
    BY <1>0, <1>4, <1>5, <2>1, LostUnderread DEF Sound
<1>6. CASE ~(v > 56)
  <2> DEFINE head == Read("head", 34)
             t == Part("head", 34)
             bf == When(m > 0, Read("bf", m))
             bp == When(m > 0, Part("bf", m))
  <2>1. /\ "head" \in Names /\ "bf" \in Names /\ "additional" \in Names /\ 34 \in Nat /\ m \in Nat
        /\ (v > 0 => m = 9)
    BY <1>1, <1>2, <1>3 DEF Names
  <2>2. Mirrors(head, t) /\ Mirrors(Read("additional", v), Part("additional", v)) /\ Mirrors(bf, bp)
    BY <2>1, MirrorRules, MirrorsMore, Zenon
  <2>3. GetData(o).parts = t \o bp \o When(v > 0, Part("additional", v))
    BY <1>2, <1>3 DEF GetData, TECallMSD_GetData, Wrote
  <2>4. /\ Bytes(t) = 34 /\ t \in Seq(PartSet) /\ Bytes(bp) = m /\ bp \in Seq(PartSet)
        /\ Bytes(When(v > 0, Part("additional", v))) = v /\ When(v > 0, Part("additional", v)) \in Seq(PartSet)
    <3>1. \A f \in Names, k \in Nat : When(k > 0, Part(f, k)) \in Seq(PartSet)
                                      /\ Bytes(When(k > 0, Part(f, k))) = k
      BY PartIfAny
    <3>2. Bytes(t) = 34 /\ t \in Seq(PartSet)
      BY <2>1, PartRules, Zenon
    <3> QED
      BY <2>1, <3>1, <3>2, Zenon
  <2> HIDE DEF head, t, bf, bp
  <2>5. n = Bytes(t) + (m + v) /\ n = Bytes(t \o bp) + v /\ m + v \in Nat
    <3>1. Bytes(t \o bp) = 34 + m /\ t \o bp \in Seq(PartSet)
      BY <2>4, BothParts
    <3>2. n = (34 + m) + v
      BY <1>0, <2>3, <2>4, <3>1, BothParts
    <3> QED
      BY <2>1, <2>4, <3>1, <3>2
  <2>6. Rest(n, head) = m + v
    <3>1. Rest(Bytes(t) + (m + v), head) = m + v
      BY <2>2, <2>5, MirrorsRest
    <3> QED
      BY <2>5, <3>1
  <2>7. When(Rest(n, head) > 0, Read("bf", Least(9, Rest(n, head)))) = bf
    <3>1. CASE m > 0
      <4>1. m + v > 0 /\ Least(9, m + v) = m
        BY <2>1, <3>1 DEF Least
      <4> QED
        BY <2>6, <3>1, <4>1 DEF When, bf
    <3>2. CASE ~(m > 0)
      <4>1. ~(m + v > 0)
        BY <2>1, <3>2
      <4> QED
        BY <2>6, <3>2, <4>1 DEF When, bf
    <3> QED
      BY <3>1, <3>2
  <2>8. Rest(n, head \o bf) = v
    <3>1. Mirrors(head \o bf, t \o bp)
      BY <2>2, MirrorsBoth
    <3>2. Rest(Bytes(t \o bp) + v, head \o bf) = v
      BY <3>1, MirrorsRest
    <3> QED
      BY <2>5, <3>2
  <2>9. SetSRD(o, n).items = head \o bf \o When(v > 0, Read("additional", Least(56, v)))
    <3>1. SetSRD(o, n) = TECallMSD_SetSRD(o, n)
      BY DEF SetSRD
    <3>2. TECallMSD_SetSRD(o, n).items =
            head \o When(Rest(n, head) > 0, Read("bf", Least(9, Rest(n, head))))
              \o When(Rest(n, head \o When(Rest(n, head) > 0, Read("bf", Least(9, Rest(n, head))))) > 0,
                      Read("additional", Least(56, Rest(n, head \o When(Rest(n, head) > 0,
                                                         Read("bf", Least(9, Rest(n, head))))))))
      BY DEF TECallMSD_SetSRD, Reads, head
    <3> QED
      BY <2>7, <2>8, <3>1, <3>2
  <2>10. Least(56, v) = v
    BY <1>6 DEF Least
  <2>11. Mirrors(SetSRD(o, n).items, GetData(o).parts)
    BY <2>2, <2>3, <2>9, <2>10, MirrorsMore, MirrorsBoth, Zenon
  <2> QED
    BY <1>4, <1>6, <2>11, MirrorsBack
<1> QED
  BY <1>5, <1>6

(* Items of one kind for every element. *)
LEMMA ItemsEach ==
  ASSUME NEW P, NEW m \in Nat, NEW q, DOMAIN q = 1 .. m, q = [ i \in 1 .. m |-> q[i] ],
         \A i \in 1 .. m : q[i] \in Items(P)
  PROVE  FlattenSeq(q) \in Items(P)
<1>1. q \in [1 .. m -> Items(P)]
  OBVIOUS
<1>2. q \in Seq(Items(P))
  BY <1>1, Listed, Zenon
<1> QED
  BY <1>2, FlatItems, Zenon

LEMMA TEPAccelData3_Back ==
  ASSUME NEW o, NEW n, Sound(o, n), o.class = "TEPAccelData3"
  PROVE  Back(o, n) <=> ~Lossy(o)
<1>0. IsObject(o) /\ n \in Nat
  BY DEF Sound
<1>1. (Lossy(o) <=> Overfull(o)) /\ Held(o) = {} /\ (Overfull(o) => Underread(o))
      /\ (Overfull(o) <=> Len(o.list) >= Capacity["ad"])
  BY DEF Lossy, Held, Underread, Overfull
<1>2. CASE Overfull(o)
  <2>1. \E k : Exact(SetSRD(o, n).items, k)
    BY <1>0, TEPAccelData3_Reads
  <2> QED
    BY <1>1, <1>2, <2>1, LostUnderread DEF Sound
<1>3. CASE ~Overfull(o)
  <2> DEFINE m == Len(o.list)
             q == [ i \in 1 .. m |-> NthRead("ad.head", i, 1)
                                       \o When("rst" \notin o.list[i].flags, NthRead("ads", i, 6)) ]
             r == [ i \in 1 .. m |-> NthPart("ad.head", i, 1)
                                       \o When("rst" \notin o.list[i].flags, NthPart("ads", i, 6)) ]
  <2>1. m \in Nat /\ DOMAIN o.list = 1 .. m /\ DOMAIN Counted(o.list, "ad") = 1 .. m
    <3>1. Capacity["ad"] \in Nat
      BY CapacityAssumption DEF Counters
    <3>2. "ad" \in Counters
      BY DEF Counters
    <3>3. m \in Nat /\ DOMAIN o.list = 1 .. m
      BY <1>0, ObjectHas
    <3>4. m < Capacity["ad"]
      BY <1>1, <1>3, <3>1, <3>3
    <3> QED
      BY <1>0, <3>2, <3>3, <3>4, CountedList
  <2>2. GetData(o).parts = Part("head", 15) \o FlattenSeq(r)
    BY <2>1 DEF GetData, TEPAccelData3_GetData, Wrote, Each
  <2>3. SetSRD(o, n).items = Read("head", 15) \o FlattenSeq(q)
    BY <2>1 DEF SetSRD, TEPAccelData3_SetSRD, Reads, Each
  <2>4. \A i \in 1 .. m : Mirrors(q[i], r[i])
    <3> SUFFICES ASSUME NEW i \in 1 .. m
                 PROVE  Mirrors(NthRead("ad.head", i, 1)
                                  \o When("rst" \notin o.list[i].flags, NthRead("ads", i, 6)),
                                NthPart("ad.head", i, 1)
                                  \o When("rst" \notin o.list[i].flags, NthPart("ads", i, 6)))
      OBVIOUS
    <3>1. "ad.head" \in Names /\ "ads" \in Names /\ i \in Nat /\ 1 \in Nat /\ 6 \in Nat
      BY <2>1 DEF Names
    <3>2. /\ Mirrors(NthRead("ad.head", i, 1), NthPart("ad.head", i, 1))
          /\ Mirrors(NthRead("ads", i, 6), NthPart("ads", i, 6))
      BY <3>1, MirrorRules, Zenon
    <3> QED
      BY <3>2, MirrorsMore, MirrorsBoth, Zenon
  <2>5. /\ DOMAIN q = 1 .. m /\ q = [ i \in 1 .. m |-> q[i] ]
        /\ DOMAIN r = 1 .. m /\ r = [ i \in 1 .. m |-> r[i] ]
    OBVIOUS
  <2> HIDE DEF q, r, m
  <2>6. Mirrors(FlattenSeq(q), FlattenSeq(r))
    BY <2>1, <2>4, <2>5, MirrorsEach, Zenon
  <2>7. Mirrors(Read("head", 15), Part("head", 15))
    BY MirrorRules DEF Names
  <2>8. Mirrors(SetSRD(o, n).items, GetData(o).parts)
    BY <2>2, <2>3, <2>6, <2>7, MirrorsBoth
  <2> QED
    BY <1>1, <1>3, <2>8, MirrorsBack
<1> QED
  BY <1>2, <1>3

LEMMA TEPTrackData_Back ==
  ASSUME NEW o, NEW n, Sound(o, n), o.class = "TEPTrackData"
  PROVE  Back(o, n) <=> ~Lossy(o)
<1>0. IsObject(o) /\ n \in Nat
  BY DEF Sound
<1>1. (Lossy(o) <=> Overfull(o)) /\ Held(o) = {} /\ (Overfull(o) => Underread(o))
      /\ (Overfull(o) <=> Len(o.list) >= Capacity["rt"])
  BY DEF Lossy, Held, Underread, Overfull
<1>2. CASE Overfull(o)
  <2>1. \E k : Exact(SetSRD(o, n).items, k)
    BY <1>0, TEPTrackData_Reads
  <2> QED
    BY <1>1, <1>2, <2>1, LostUnderread DEF Sound
<1>3. CASE ~Overfull(o)
  <2> DEFINE m == Len(o.list)
             Long(e, f) == "rst" \in e.flags /\ f \in e.flags
             q == [ i \in 1 .. m |-> NthRead("rt.head", i, 1)
                      \o When("rst" \in o.list[i].flags, NthRead("rt.body", i, 5))
                      \o When(Long(o.list[i], "spde"), NthRead("rt.spdl", i, 1))
                      \o When(Long(o.list[i], "alte"), NthRead("rt.alt", i, 1)) ]
             r == [ i \in 1 .. m |-> NthPart("rt.head", i, 1)
                      \o When("rst" \in o.list[i].flags, NthPart("rt.body", i, 5))
                      \o When(Long(o.list[i], "spde"), NthPart("rt.spdl", i, 1))
                      \o When(Long(o.list[i], "alte"), NthPart("rt.alt", i, 1)) ]
  <2>1. m \in Nat /\ DOMAIN o.list = 1 .. m /\ DOMAIN Counted(o.list, "rt") = 1 .. m
    <3>1. Capacity["rt"] \in Nat
      BY CapacityAssumption DEF Counters
    <3>2. "rt" \in Counters
      BY DEF Counters
    <3>3. m \in Nat /\ DOMAIN o.list = 1 .. m
      BY <1>0, ObjectHas
    <3>4. m < Capacity["rt"]
      BY <1>1, <1>3, <3>1, <3>3
    <3> QED
      BY <1>0, <3>2, <3>3, <3>4, CountedList
  <2>2. GetData(o).parts = Part("head", 8) \o When("tde" \in o.flags, Part("tds", 12)) \o FlattenSeq(r)
    BY <2>1 DEF GetData, TEPTrackData_GetData, Wrote, Each
  <2>3. SetSRD(o, n).items = Read("head", 8) \o When("tde" \in o.flags, Read("tds", 12)) \o FlattenSeq(q)
    BY <2>1 DEF SetSRD, TEPTrackData_SetSRD, Reads, Each
  <2>4. \A i \in 1 .. m : Mirrors(q[i], r[i])
    <3> SUFFICES ASSUME NEW i \in 1 .. m
                 PROVE  Mirrors(q[i], r[i])
      OBVIOUS
    <3>1. /\ "rt.head" \in Names /\ "rt.body" \in Names /\ "rt.spdl" \in Names /\ "rt.alt" \in Names
          /\ i \in Nat /\ 1 \in Nat /\ 5 \in Nat
      BY <2>1 DEF Names
    <3>2. /\ Mirrors(NthRead("rt.head", i, 1), NthPart("rt.head", i, 1))
          /\ Mirrors(NthRead("rt.body", i, 5), NthPart("rt.body", i, 5))
          /\ Mirrors(NthRead("rt.spdl", i, 1), NthPart("rt.spdl", i, 1))
          /\ Mirrors(NthRead("rt.alt", i, 1), NthPart("rt.alt", i, 1))
      BY <3>1, MirrorRules, Zenon
    <3>3. /\ q[i] = NthRead("rt.head", i, 1)
                      \o When("rst" \in o.list[i].flags, NthRead("rt.body", i, 5))
                      \o When(Long(o.list[i], "spde"), NthRead("rt.spdl", i, 1))
                      \o When(Long(o.list[i], "alte"), NthRead("rt.alt", i, 1))
          /\ r[i] = NthPart("rt.head", i, 1)
                      \o When("rst" \in o.list[i].flags, NthPart("rt.body", i, 5))
                      \o When(Long(o.list[i], "spde"), NthPart("rt.spdl", i, 1))
                      \o When(Long(o.list[i], "alte"), NthPart("rt.alt", i, 1))
      OBVIOUS
    <3> HIDE DEF q, r, m, Long
    <3> QED
      BY <3>2, <3>3, MirrorsMore, MirrorsBoth, Zenon
  <2>5. /\ DOMAIN q = 1 .. m /\ q = [ i \in 1 .. m |-> q[i] ]
        /\ DOMAIN r = 1 .. m /\ r = [ i \in 1 .. m |-> r[i] ]
    OBVIOUS
  <2> HIDE DEF q, r, m
  <2>6. Mirrors(FlattenSeq(q), FlattenSeq(r))
    BY <2>1, <2>4, <2>5, MirrorsEach, Zenon
  <2>7. Mirrors(Read("head", 8), Part("head", 8)) /\ Mirrors(Read("tds", 12), Part("tds", 12))
    BY MirrorRules DEF Names
  <2>8. Mirrors(SetSRD(o, n).items, GetData(o).parts)
    BY <2>2, <2>3, <2>6, <2>7, MirrorsMore, MirrorsBoth, Zenon
  <2> QED
    BY <1>1, <1>3, <2>8, MirrorsBack
<1> QED
  BY <1>2, <1>3

LEMMA TEPSignature_Back ==
  ASSUME NEW o, NEW n, Sound(o, n), o.class = "TEPSignature"
  PROVE  Back(o, n) <=> ~Lossy(o)
<1>0. IsObject(o) /\ n \in Nat
  BY DEF Sound
<1>1. /\ Lossy(o) <=> Overfull(o) \/ \E i \in DOMAIN o.list : o.list[i].size = 0
      /\ Held(o) = {} /\ (Overfull(o) => Underread(o))
      /\ Overfull(o) <=> Len(o.list) >= Capacity["sd"]
  BY DEF Lossy, Held, Underread, Overfull
<1>2. CASE Overfull(o)
  <2>1. \E k : Exact(SetSRD(o, n).items, k)
    BY <1>0, TEPSignature_Reads
  <2> QED
    BY <1>1, <1>2, <2>1, LostUnderread DEF Sound
<1>3. CASE ~Overfull(o)
  <2> DEFINE m == Len(o.list)
             none(i) == << [ field |-> "sd.head", nth |-> i, need |-> 9, keep |-> 0, skip |-> 9 ] >>
             item(i) == IF o.list[i].size = 0 THEN none(i)
                        ELSE NthRead("sd.head", i, 9) \o NthRead("sd", i, o.list[i].size)
             part(i) == NthPart("sd.head", i, 9)
                          \o When(o.list[i].size > 0, NthPart("sd", i, o.list[i].size))
             q == [ i \in 1 .. m |-> item(i) ]
             r == [ i \in 1 .. m |-> part(i) ]
             s == Check(2) \o Read("ver", 1) \o Read("sa", 1)
             t == Part("ver", 1) \o Part("sa", 1)
  <2>1. m \in Nat /\ DOMAIN o.list = 1 .. m /\ DOMAIN Counted(o.list, "sd") = 1 .. m
        /\ \A i \in 1 .. m : o.list[i].size \in Nat
    <3>1. Capacity["sd"] \in Nat
      BY CapacityAssumption DEF Counters
    <3>2. "sd" \in Counters
      BY DEF Counters
    <3>3. m \in Nat /\ DOMAIN o.list = 1 .. m /\ \A i \in 1 .. m : o.list[i].size \in Nat
      BY <1>0, ObjectHas
    <3>4. m < Capacity["sd"]
      BY <1>1, <1>3, <3>1, <3>3
    <3> HIDE DEF m
    <3>5. m = Len(o.list)
      BY DEF m
    <3> QED
      BY <1>0, <3>2, <3>3, <3>4, <3>5, CountedList
  <2>2. GetData(o).parts = t \o FlattenSeq(r)
    BY <2>1 DEF GetData, TEPSignature_GetData, Wrote, Each
  <2>3. SetSRD(o, n).items = s \o FlattenSeq(q)
    BY <2>1 DEF SetSRD, TEPSignature_SetSRD, Reads, Each
  <2>4. /\ "sd.head" \in Names /\ "sd" \in Names /\ "ver" \in Names /\ "sa" \in Names
        /\ "sd.head" \in Names \ {"none"} /\ "ver" # "sd.head" /\ "sa" # "sd.head" /\ "sd" # "sd.head"
        /\ 9 \in Nat /\ 0 \in Nat /\ 1 \in Nat /\ 2 \in Nat
    BY DEF Names
  <2>5. /\ DOMAIN q = 1 .. m /\ q = [ i \in 1 .. m |-> q[i] ]
        /\ DOMAIN r = 1 .. m /\ r = [ i \in 1 .. m |-> r[i] ]
        /\ \A i \in 1 .. m : q[i] = item(i) /\ r[i] = part(i)
    OBVIOUS
  <2> HIDE DEF q, r
  <2>6. CASE \A i \in 1 .. m : o.list[i].size > 0
    <3>1. \A i \in 1 .. m : Mirrors(q[i], r[i])
      <4> SUFFICES ASSUME NEW i \in 1 .. m
                   PROVE  Mirrors(item(i), part(i))
        BY <2>5
      <4>1. i \in Nat /\ o.list[i].size \in Nat /\ o.list[i].size > 0 /\ o.list[i].size # 0
        BY <2>1, <2>6
      <4>2. /\ Mirrors(NthRead("sd.head", i, 9), NthPart("sd.head", i, 9))
            /\ Mirrors(NthRead("sd", i, o.list[i].size), NthPart("sd", i, o.list[i].size))
        BY <2>4, <4>1, MirrorRules, Zenon
      <4>3. /\ item(i) = NthRead("sd.head", i, 9) \o NthRead("sd", i, o.list[i].size)
            /\ part(i) = NthPart("sd.head", i, 9) \o NthPart("sd", i, o.list[i].size)
        BY <4>1 DEF When
      <4> HIDE DEF item, part
      <4> QED
        BY <4>2, <4>3, MirrorsBoth, Zenon
    <3> HIDE DEF m, item, part
    <3>2. Mirrors(FlattenSeq(q), FlattenSeq(r))
      BY <2>1, <2>5, <3>1, MirrorsEach, Zenon
    <3>3. Mirrors(s, t)
      <4>1. /\ Mirrors(Read("ver", 1), Part("ver", 1)) /\ Mirrors(Read("sa", 1), Part("sa", 1))
            /\ Mirrors(Check(2), << >>)
        BY <2>4, MirrorRules, Zenon
      <4> QED
        BY <4>1, MirrorsMore, MirrorsBoth, Zenon
    <3>4. Mirrors(SetSRD(o, n).items, GetData(o).parts)
      BY <2>2, <2>3, <3>2, <3>3, MirrorsBoth
    <3>5. ~Lossy(o)
      <4>1. \A i \in 1 .. m : o.list[i].size # 0
        BY <2>1, <2>6
      <4> QED
        BY <1>1, <1>3, <2>1, <4>1
    <3> QED
      BY <1>1, <3>4, <3>5, MirrorsBack
  <2>7. CASE ~\A i \in 1 .. m : o.list[i].size > 0
    <3>1. PICK j \in 1 .. m : o.list[j].size = 0
      BY <2>1, <2>7
    <3> DEFINE K == Items(Keeping("sd.head", j, 0))
    <3>2. j \in Nat /\ Lossy(o)
      BY <1>1, <2>1, <3>1
    <3>3. /\ \A i \in Nat : none(i) \in K
          /\ \A i \in Nat : i # j => NthRead("sd.head", i, 9) \in K
          /\ \A i, k \in Nat : NthRead("sd", i, k) \in K
          /\ Check(2) \in K /\ Read("ver", 1) \in K /\ Read("sa", 1) \in K
          /\ \A x, y : x \in K /\ y \in K => x \o y \in K
      BY <2>4, <3>2, KeepingRules, Zenon
    <3> HIDE DEF K, none
    <3>4. \A i \in 1 .. m : q[i] \in K
      <4> SUFFICES ASSUME NEW i \in 1 .. m
                   PROVE  item(i) \in K
        BY <2>5
      <4>1. i \in Nat /\ o.list[i].size \in Nat
        BY <2>1
      <4>2. CASE o.list[i].size = 0
        BY <3>3, <4>1, <4>2
      <4>3. CASE o.list[i].size # 0
        BY <3>1, <3>3, <4>1, <4>3
      <4> QED
        BY <4>2, <4>3
    <3> HIDE DEF item, m
    <3>5. FlattenSeq(q) \in K
      BY <2>1, <2>5, <3>4, ItemsEach, Zenon DEF K
    <3>6. SetSRD(o, n).items \in K
      BY <2>3, <3>3, <3>5, Zenon
    <3>7. \A i \in 1 .. m : r[i] \in Seq(PartSet)
      <4> SUFFICES ASSUME NEW i \in 1 .. m
                   PROVE  part(i) \in Seq(PartSet)
        BY <2>5
      <4>1. i \in Nat /\ o.list[i].size \in Nat
        BY <2>1
      <4>2. /\ NthPart("sd.head", i, 9) \in Seq(PartSet) /\ NthPart("sd", i, o.list[i].size) \in Seq(PartSet)
            /\ << >> \in Seq(PartSet)
        BY <2>4, <4>1, PartRules, Zenon
      <4>3. When(o.list[i].size > 0, NthPart("sd", i, o.list[i].size)) \in Seq(PartSet)
        BY <4>2 DEF When
      <4> QED
        BY <4>2, <4>3, BothParts
    <3>8. r \in Seq(Seq(PartSet)) /\ Len(r) = m
      <4> HIDE DEF part
      <4> QED
        BY <2>1, <2>5, <3>7, ListOfLists, Zenon
    <3>9. r[j] = NthPart("sd.head", j, 9)
      <4>1. part(j) = NthPart("sd.head", j, 9) \o << >>
        BY <3>1 DEF When
      <4>2. NthPart("sd.head", j, 9) \in Seq(PartSet)
        BY <2>4, <3>2, PartRules, Zenon
      <4>3. NthPart("sd.head", j, 9) \o << >> = NthPart("sd.head", j, 9)
        BY <4>2
      <4> QED
        BY <2>5, <4>1, <4>3
    <3> HIDE DEF part
    <3>10. Within(NthPart("sd.head", j, 9), FlattenSeq(r))
      <4>1. j \in 1 .. Len(r)
        BY <3>8
      <4>2. Within(r[j], FlattenSeq(r))
        BY <3>8, <4>1, WithinEach, Zenon
      <4> QED
        BY <3>9, <4>2
    <3>11. Within(NthPart("sd.head", j, 9), GetData(o).parts)
      <4>1. Part("ver", 1) \in Seq(PartSet) /\ Part("sa", 1) \in Seq(PartSet)
        BY <2>4, PartRules, Zenon
      <4>2. t \in Seq(PartSet)
        BY <4>1, BothParts
      <4> HIDE DEF t
      <4> QED
        BY <2>2, <3>10, <4>2, WithinRules, Zenon
    <3>12. 9 \in Nat \ {0} /\ 9 # 0
      OBVIOUS
    <3>13. FieldsAt(SetSRD(o, n).items, 0) # PartsAt(GetData(o).parts, 0)
      BY <2>4, <3>2, <3>6, <3>11, <3>12, KeepingLoses, Zenon DEF K
    <3> QED
      BY <3>2, <3>13 DEF Back
  <2> QED
    BY <2>6, <2>7
<1> QED
  BY <1>2, <1>3

(* Of an event one byte is kept. *)
EventItem(i) == << [ field |-> "event", nth |-> i, need |-> 0, keep |-> 1, skip |-> 4 ] >>

LEMMA TEPMainData_Back ==
  ASSUME NEW o, IsObject(o), ~Spills(o), o.class = "TEPMainData", NEW n
  PROVE  Back(o, n) <=> ~Lossy(o)
<1>0. IsObject(o) /\ ~Spills(o) /\ "event" \in Names \ {"none"} /\ "station" \in Names
      /\ "head" \in Names /\ "location" \in Names /\ "epevc" \in Names
      /\ "station" # "event" /\ "head" # "event" /\ "location" # "event" /\ "epevc" # "event"
      /\ 17 \in Nat /\ 13 \in Nat /\ 1 \in Nat /\ 0 \in Nat /\ 10 \in Nat /\ 4 \in Nat
  BY DEF Names
<1> DEFINE l == Lbsn(o)
           e == Epevc(o)
           q == [ i \in 1 .. l |-> NthRead("station", i, 10) ]
           r == [ i \in 1 .. l |-> NthPart("station", i, 10) ]
           u == [ i \in 1 .. e |-> EventItem(i) ]
           v == [ i \in 1 .. e |-> NthPart("event", i, 4) ]
<1>1. l \in Nat /\ e \in Nat /\ Stations(o) = l /\ 10 * l \in Nat /\ 4 * e \in Nat
  <2>1. Capacity["station"] \in Nat /\ Stations(o) \in Nat
    BY <1>0, Numbers, CapacityAssumption DEF Counters
  <2>2. ~(Stations(o) >= Capacity["station"])
    BY <1>0 DEF Spills
  <2> QED
    BY <1>0, <2>1, <2>2, Numbers
<1>2. GetData(o).parts = Part("head", 17) \o When("locp" \in o.flags, Part("location", 13))
        \o FlattenSeq(r) \o When(e > 0, Part("epevc", 1)) \o FlattenSeq(v)
  BY <1>1 DEF GetData, TEPMainData_GetData, Wrote
<1>3. SetSRD(o, n).items = Read("head", 17) \o When("locp" \in o.flags, Read("location", 13))
        \o When(l > 0, Check(10 * l)) \o FlattenSeq(q)
        \o When(e > 0, Read("epevc", 1) \o Check(4 * e)) \o FlattenSeq(u)
  BY DEF SetSRD, TEPMainData_SetSRD, Reads, EventItem
<1>4. /\ DOMAIN q = 1 .. l /\ q = [ i \in 1 .. l |-> q[i] ]
      /\ DOMAIN r = 1 .. l /\ r = [ i \in 1 .. l |-> r[i] ]
      /\ DOMAIN u = 1 .. e /\ u = [ i \in 1 .. e |-> u[i] ]
      /\ DOMAIN v = 1 .. e /\ v = [ i \in 1 .. e |-> v[i] ]
      /\ \A i \in 1 .. l : q[i] = NthRead("station", i, 10) /\ r[i] = NthPart("station", i, 10) /\ i \in Nat
      /\ \A i \in 1 .. e : u[i] = EventItem(i) /\ i \in Nat
  BY <1>1
<1>5. (Lossy(o) <=> o.list[2].size > 0) /\ Held(o) = { <<"event", i, 4>> : i \in 1 .. o.list[2].size }
  BY DEF Lossy, Held, Overfull
<1>6. o.list[2].size \in Nat
  BY <1>0, SizesKnown
<1>7. CASE o.list[2].size = 0
  <2>1. e = 0
    <3>1. Capacity["event"] \in Nat \ {0}
      BY CapacityAssumption DEF Counters
    <3>2. \A c \in Nat \ {0} : 0 % c = 0
      OBVIOUS
    <3> QED
      BY <1>7, <3>1, <3>2 DEF Epevc
  <2>2. Held(o) = {} /\ ~Lossy(o) /\ ~(e > 0)
    BY <1>5, <1>7, <2>1
  <2>3. \A i \in 1 .. l : Mirrors(q[i], r[i])
    BY <1>0, <1>4, MirrorRules, Zenon
  <2>4. \A i \in 1 .. e : Mirrors(u[i], v[i])
    BY <2>1
  <2> HIDE DEF q, r, u, v, l, e
  <2>5. Mirrors(FlattenSeq(q), FlattenSeq(r)) /\ Mirrors(FlattenSeq(u), FlattenSeq(v))
    BY <1>1, <1>4, <2>3, <2>4, MirrorsEach, Zenon
  <2>6. /\ Mirrors(Read("head", 17), Part("head", 17)) /\ Mirrors(Read("location", 13), Part("location", 13))
        /\ Mirrors(Read("epevc", 1), Part("epevc", 1))
        /\ Mirrors(Check(10 * l), << >>) /\ Mirrors(Check(4 * e), << >>)
    BY <1>0, <1>1, MirrorRules, Zenon
  <2>7. Mirrors(SetSRD(o, n).items, GetData(o).parts)
    <3>1. Mirrors(Read("head", 17) \o When("locp" \in o.flags, Read("location", 13)),
                  Part("head", 17) \o When("locp" \in o.flags, Part("location", 13)))
      BY <2>6, MirrorsMore, MirrorsBoth, Zenon
    <3>2. Mirrors(Read("head", 17) \o When("locp" \in o.flags, Read("location", 13)) \o When(l > 0, Check(10 * l)),
                  Part("head", 17) \o When("locp" \in o.flags, Part("location", 13)))
      BY <2>6, <3>1, MirrorsMore, Zenon
    <3>3. Mirrors(When(e > 0, Read("epevc", 1) \o Check(4 * e)), When(e > 0, Part("epevc", 1)))
      BY <2>6, MirrorsMore, Zenon
    <3> QED
      BY <1>2, <1>3, <2>5, <3>2, <3>3, MirrorsBoth, Zenon
  <2> QED
    BY <2>2, <2>7, MirrorsBack
<1>8. CASE o.list[2].size # 0
  <2>1. <<"event", 1, 4>> \in Held(o) /\ Lossy(o)
    <3>1. 1 \in 1 .. o.list[2].size /\ o.list[2].size > 0
      BY <1>6, <1>8
    <3> QED
      BY <1>5, <3>1
  <2> DEFINE K == Items(Keeping("event", 1, 1))
  <2>2. /\ \A i \in Nat : NthRead("station", i, 10) \in K /\ EventItem(i) \in K
        /\ Read("head", 17) \in K /\ Read("location", 13) \in K /\ Read("epevc", 1) \in K
        /\ Check(10 * l) \in K /\ Check(4 * e) \in K
        /\ \A x, y : x \in K /\ y \in K => x \o y \in K
        /\ \A b, x : x \in K => When(b, x) \in K
    BY <1>0, <1>1, KeepingRules, Zenon DEF EventItem
  <2>3. (\A i \in 1 .. l : q[i] \in K) /\ (\A i \in 1 .. e : u[i] \in K)
    BY <1>4, <2>2, Zenon
  <2> HIDE DEF K, q, u, l, e
  <2>4. FlattenSeq(q) \in K /\ FlattenSeq(u) \in K
    BY <1>1, <1>4, <2>3, ItemsEach, Zenon DEF K
  <2>5. SetSRD(o, n).items \in K
    BY <1>3, <2>2, <2>4, Zenon
  <2>6. \A x \in FieldsAt(SetSRD(o, n).items, 0) : x.field = "event" /\ x.nth = 1 => x.bytes = 1
    <3>1. \A s \in Items(Keeping("event", 1, 1)) : \A x \in FieldsAt(s, 0) :
            x.field = "event" /\ x.nth = 1 => x.bytes = 1
      BY KeepingKeeps
    <3> QED
      BY <2>5, <3>1, Zenon DEF K
  <2>7. ~\E x \in FieldsAt(SetSRD(o, n).items, 0) : <<"event", 1, 4>> = <<x.field, x.nth, x.bytes>>
    BY <2>6
  <2> QED
    BY <2>1, <2>7 DEF Back
<1> QED
  BY <1>7, <1>8

(* A part that has bytes lies where it is put. *)
LEMMA OneLaid ==
  ASSUME NEW f \in Names, NEW i \in Nat, NEW n \in Nat \ {0}, NEW a \in Nat
  PROVE  PartsAt(NthPart(f, i, n), a) = { Placed(f, i, a, n) }
<1> DEFINE p == [ field |-> f, nth |-> i, bytes |-> n ]
<1>1. p \in PartSet /\ p.bytes > 0 /\ p.field = f /\ p.nth = i /\ p.bytes = n
  BY DEF PartSet
<1>2. NthPart(f, i, n) = << p >>
  BY DEF NthPart
<1> HIDE DEF p
<1>3. Spots(<< p >>, BytesOf, a) = { <<p, a>> }
  <2>1. BytesOf \in [PartSet -> Nat]
    BY WeightsOfParts
  <2>2. \A S, m : m \in [S -> Nat] => \A x \in S : Spots(<<x>>, m, a) = { <<x, a>> }
    BY SpotsOfFew
  <2> QED
    BY <1>1, <2>1, <2>2, Zenon
<1>4. Laid({ <<p, a>> }) = { Placed(p.field, p.nth, a, p.bytes) }
  <2>1. <<p, a>>[1] = p /\ <<p, a>>[2] = a
    OBVIOUS
  <2>2. { y \in { <<p, a>> } : y[1].bytes > 0 } = { <<p, a>> }
    BY <1>1, <2>1
  <2>3. { Placed(x[1].field, x[1].nth, x[2], x[1].bytes) : x \in { <<p, a>> } }
          = { Placed(p.field, p.nth, a, p.bytes) }
    BY <2>1, Zenon
  <2> QED
    BY <2>2, <2>3 DEF Laid
<1> QED
  BY <1>1, <1>2, <1>3, <1>4 DEF PartsAt

(* Fields whose numbers are less than b and in the order of their offsets. *)
Rising(s, b) ==
  /\ s \in Seq(ItemSet)
  /\ \A a \in Nat : \A x \in FieldsAt(s, a) :
       /\ x.nth < b /\ x.nth \in Nat /\ x.at \in Nat /\ x.at < a + Skipped(s)
       /\ \A y \in FieldsAt(s, a) : y.nth <= x.nth => y.at <= x.at

LEMMA RisingMore ==
  ASSUME NEW b \in Nat, NEW s, Rising(s, b)
  PROVE  Rising(s, b + 1) /\ \A f \in Names : Rising(s \o NthRead(f, b, 2), b + 1)
<1>1. Rising(s, b + 1)
  BY DEF Rising
<1>2. ASSUME NEW f \in Names
      PROVE  Rising(s \o NthRead(f, b, 2), b + 1)
  <2> DEFINE t == NthRead(f, b, 2)
             u == s \o t
  <2>1. Mirrors(t, NthPart(f, b, 2)) /\ Bytes(NthPart(f, b, 2)) = 2
    BY MirrorRules, PartRules
  <2>2. t \in Seq(ItemSet) /\ Skipped(t) = 2 /\ s \in Seq(ItemSet) /\ Skipped(s) \in Nat
    BY <2>1, ItemsCount DEF Mirrors, Rising
  <2>3. u \in Seq(ItemSet) /\ Skipped(u) = Skipped(s) + 2
    <3>1. \A P, x, y : x \in Items(P) /\ y \in Items(P) => Skipped(x \o y) = Skipped(x) + Skipped(y)
      BY BothItems
    <3>2. s \in Items(ItemSet) /\ t \in Items(ItemSet)
      BY <2>2 DEF Items
    <3> QED
      BY <2>2, <3>1, <3>2
  <2>4. ASSUME NEW a \in Nat
        PROVE  FieldsAt(u, a) = FieldsAt(s, a) \cup { Placed(f, b, a + Skipped(s), 2) }
    <3>1. a + Skipped(s) \in Nat /\ 2 \in Nat \ {0}
      BY <2>2
    <3>2. FieldsAt(t, a + Skipped(s)) = { Placed(f, b, a + Skipped(s), 2) }
      BY <2>1, <3>1, OneLaid DEF Mirrors
    <3> QED
      BY <2>2, <3>2, FieldsOfBoth
  <2> HIDE DEF u, t
  <2>5. ASSUME NEW a \in Nat, NEW x \in FieldsAt(u, a)
        PROVE  /\ x.nth < b + 1 /\ x.nth \in Nat /\ x.at \in Nat /\ x.at < a + Skipped(u)
               /\ \A y \in FieldsAt(u, a) : y.nth <= x.nth => y.at <= x.at
    <3> DEFINE z == Placed(f, b, a + Skipped(s), 2)
    <3>1. z.nth = b /\ z.at = a + Skipped(s)
      BY DEF Placed
    <3> HIDE DEF z
    <3>2. FieldsAt(u, a) = FieldsAt(s, a) \cup { z }
      BY <2>4 DEF z
    <3>3. \A w \in FieldsAt(s, a) :
            /\ w.nth < b /\ w.nth \in Nat /\ w.at \in Nat /\ w.at < a + Skipped(s)
            /\ \A y \in FieldsAt(s, a) : y.nth <= w.nth => y.at <= w.at
      BY DEF Rising
    <3>4. CASE x = z
      BY <2>2, <2>3, <3>1, <3>2, <3>3, <3>4
    <3>5. CASE x \in FieldsAt(s, a)
      BY <2>2, <2>3, <3>1, <3>2, <3>3, <3>5
    <3> QED
      BY <3>2, <3>4, <3>5
  <2>6. Rising(u, b + 1)
    BY <2>3, <2>5 DEF Rising
  <2> QED
    BY <2>6 DEF u, t
<1> QED
  BY <1>1, <1>2

(* The items that read the doors. *)
LEMMA DoorItems ==
  ASSUME NEW o, NEW f \in Names
  PROVE  LET q == [ i \in 1 .. 8 |-> When(Bit(o, "door", i - 1), NthRead(f, i - 1, 2)) ]
         IN  q \in Seq(Seq(ItemSet)) /\ Len(q) = 8
<1> DEFINE q == [ i \in 1 .. 8 |-> When(Bit(o, "door", i - 1), NthRead(f, i - 1, 2)) ]
<1>0. DOMAIN q = 1 .. 8 /\ q = [ i \in 1 .. 8 |-> q[i] ] /\ 8 \in Nat
  OBVIOUS
<1>1. \A i \in 1 .. 8 : q[i] = When(Bit(o, "door", i - 1), NthRead(f, i - 1, 2))
  OBVIOUS
<1>2. \A i \in 1 .. 8 : q[i] \in Seq(ItemSet)
  <2> SUFFICES ASSUME NEW i \in 1 .. 8
               PROVE  q[i] \in Seq(ItemSet)
    OBVIOUS
  <2>1. i - 1 \in Nat /\ 2 \in Nat
    OBVIOUS
  <2>2. Mirrors(NthRead(f, i - 1, 2), NthPart(f, i - 1, 2)) /\ Mirrors(<< >>, << >>)
    BY <2>1, MirrorRules
  <2>3. NthRead(f, i - 1, 2) \in Seq(ItemSet) /\ << >> \in Seq(ItemSet)
    BY <2>2 DEF Mirrors
  <2> HIDE DEF q
  <2> QED
    BY <1>1, <2>3 DEF When
<1> HIDE DEF q
<1>3. q \in Seq(Seq(ItemSet)) /\ Len(q) = 8
  <2>1. q \in [1 .. 8 -> Seq(ItemSet)]
    BY <1>0, <1>2
  <2> QED
    BY <2>1, Listed
<1> QED
  BY <1>3 DEF q

(* The doors are read in the order of their bits. *)
LEMMA DoorsRise ==
  ASSUME NEW o, NEW f \in Names
  PROVE  Rising(FlattenSeq([ i \in 1 .. 8 |-> When(Bit(o, "door", i - 1), NthRead(f, i - 1, 2)) ]), 8)
<1> DEFINE q == [ i \in 1 .. 8 |-> When(Bit(o, "door", i - 1), NthRead(f, i - 1, 2)) ]
<1>1. \A i \in 1 .. 8 : q[i] = When(Bit(o, "door", i - 1), NthRead(f, i - 1, 2))
  OBVIOUS
<1>3. q \in Seq(Seq(ItemSet)) /\ Len(q) = 8
  BY DoorItems, Zenon
<1> HIDE DEF q
<1>4. \E g : IsJoined(g, q)
  BY <1>3, Joined, Zenon
<1>5. PICK g : g[0] = << >> /\ g[8] = FlattenSeq(q) /\ \A k \in 1 .. 8 : g[k] = g[k - 1] \o q[k]
  BY <1>3, <1>4 DEF IsJoined
<1> DEFINE H == { b \in Nat : b <= 8 => Rising(g[b], b) }
<1>6. 0 \in H
  <2>1. Spots(<< >>, SkipOf, 0) = {} /\ << >> \in Seq(ItemSet)
    BY DEF Spots
  <2>2. \A a \in Nat : FieldsAt(<< >>, a) = {}
    BY DEF FieldsAt, Filled, Spots
  <2>3. Rising(<< >>, 0)
    BY <2>1, <2>2 DEF Rising
  <2> QED
    BY <1>5, <2>3
<1>7. ASSUME NEW b \in Nat, b \in H
      PROVE  b + 1 \in H
  <2>1. CASE b + 1 <= 8
    <3>1. PICK k \in 1 .. 8 : k = b + 1 /\ k - 1 = b
      BY <2>1
    <3>2. Rising(g[b], b)
      BY <1>7, <2>1
    <3>3. g[k] = g[b] \o When(Bit(o, "door", b), NthRead(f, b, 2))
      BY <1>1, <1>5, <3>1
    <3>4. CASE Bit(o, "door", b)
      <4>1. g[k] = g[b] \o NthRead(f, b, 2)
        BY <3>3, <3>4 DEF When
      <4>2. Rising(g[b] \o NthRead(f, b, 2), b + 1)
        BY <3>2, RisingMore
      <4>3. Rising(g[k], k)
        BY <3>1, <4>1, <4>2
      <4> QED
        BY <3>1, <4>3
    <3>5. CASE ~Bit(o, "door", b)
      <4>1. g[b] \in Seq(ItemSet)
        BY <3>2 DEF Rising
      <4>2. g[k] = g[b]
        BY <3>3, <3>5, <4>1 DEF When
      <4>3. Rising(g[b], b + 1)
        BY <3>2, RisingMore
      <4>4. Rising(g[k], k)
        BY <3>1, <4>2, <4>3
      <4> QED
        BY <3>1, <4>4
    <3> QED
      BY <3>4, <3>5
  <2>2. CASE ~(b + 1 <= 8)
    BY <2>2
  <2> QED
    BY <2>1, <2>2
<1> HIDE DEF H
<1>8. Nat \subseteq H
  BY <1>6, <1>7, Induction
<1>9. 8 \in H
  BY <1>8
<1>10. Rising(FlattenSeq(q), 8)
  BY <1>5, <1>9 DEF H
<1> QED
  BY <1>10 DEF q

(* They are written in the order of the list. *)
LEMMA DoorsLie ==
  ASSUME NEW m \in Nat, NEW id, NEW f \in Names, NEW r, DOMAIN r = 1 .. m, r = [ i \in 1 .. m |-> r[i] ],
         \A i \in 1 .. m : id[i] \in Nat /\ r[i] = NthPart(f, id[i], 2)
  PROVE  \A a \in Nat : \A i \in 1 .. m : Placed(f, id[i], a + 2 * (i - 1), 2) \in PartsAt(FlattenSeq(r), a)
<1>1. \A i \in 1 .. m : r[i] \in Seq(PartSet) /\ Bytes(r[i]) = 2
  <2> SUFFICES ASSUME NEW i \in 1 .. m
               PROVE  r[i] \in Seq(PartSet) /\ Bytes(r[i]) = 2
    OBVIOUS
  <2>1. id[i] \in Nat /\ 2 \in Nat /\ r[i] = NthPart(f, id[i], 2)
    OBVIOUS
  <2>2. \A j, n \in Nat : NthPart(f, j, n) \in Seq(PartSet) /\ Bytes(NthPart(f, j, n)) = n
    BY PartRules
  <2>3. NthPart(f, id[i], 2) \in Seq(PartSet) /\ Bytes(NthPart(f, id[i], 2)) = 2
    BY <2>1, <2>2, Zenon
  <2> QED
    BY <2>1, <2>3
<1>0. DOMAIN r = 1 .. m /\ r = [ i \in 1 .. m |-> r[i] ] /\ \A i \in 1 .. m : r[i] \in Seq(PartSet)
  BY <1>1
<1>2. r \in Seq(Seq(PartSet)) /\ Len(r) = m
  BY <1>0, ListOfLists, Zenon
<1>3. \E g : IsJoined(g, r)
  BY <1>2, Joined, Zenon
<1>4. PICK g : g[0] = << >> /\ g[m] = FlattenSeq(r) /\ \A k \in 1 .. m : g[k] = g[k - 1] \o r[k]
  BY <1>2, <1>3 DEF IsJoined
<1> DEFINE Lie(k) == /\ g[k] \in Seq(PartSet) /\ Bytes(g[k]) = 2 * k
                     /\ \A a \in Nat : \A i \in 1 .. k :
                          Placed(f, id[i], a + 2 * (i - 1), 2) \in PartsAt(g[k], a)
           H == { k \in Nat : k <= m => Lie(k) }
<1>5. 0 \in H
  <2>1. 1 .. 0 = {} /\ 2 * 0 = 0
    OBVIOUS
  <2>2. Lie(0)
    BY <1>4, <2>1, NoParts
  <2> HIDE DEF Lie
  <2> QED
    BY <2>2
<1>6. ASSUME NEW n \in Nat, n \in H
      PROVE  n + 1 \in H
  <2>1. CASE n + 1 <= m
    <3>1. PICK k \in 1 .. m : k = n + 1 /\ k - 1 = n
      BY <2>1
    <3>2. Lie(n) /\ g[k] = g[n] \o r[k] /\ r[k] = NthPart(f, id[k], 2) /\ id[k] \in Nat
      <4>1. Lie(n)
        <5>1. n <= m
          BY <2>1
        <5> HIDE DEF Lie
        <5> QED
          BY <1>6, <5>1
      <4>2. g[k] = g[n] \o r[k] /\ r[k] = NthPart(f, id[k], 2) /\ id[k] \in Nat
        BY <1>4, <3>1
      <4> QED
        BY <4>1, <4>2
    <3>3. r[k] \in Seq(PartSet) /\ Bytes(r[k]) = 2 /\ g[n] \in Seq(PartSet) /\ Bytes(g[n]) = 2 * n
      BY <1>1, <3>2
    <3>4. g[k] \in Seq(PartSet) /\ Bytes(g[k]) = 2 * k
      <4>1. g[n] \o r[k] \in Seq(PartSet) /\ Bytes(g[n] \o r[k]) = 2 * n + 2
        BY <3>3, BothParts
      <4> QED
        BY <3>1, <3>2, <4>1
    <3>5. ASSUME NEW a \in Nat, NEW i \in 1 .. k
          PROVE  Placed(f, id[i], a + 2 * (i - 1), 2) \in PartsAt(g[k], a)
      <4>1. PartsAt(g[k], a) = PartsAt(g[n], a) \cup PartsAt(r[k], a + 2 * n)
        BY <3>2, <3>3, PartsOfBoth
      <4>2. CASE i = k
        <5>1. a + 2 * n \in Nat /\ 2 \in Nat \ {0} /\ a + 2 * (k - 1) = a + 2 * n
          BY <3>1
        <5>2. \A i1, n1, a1 : i1 \in Nat /\ n1 \in Nat \ {0} /\ a1 \in Nat =>
                 PartsAt(NthPart(f, i1, n1), a1) = { Placed(f, i1, a1, n1) }
          BY OneLaid
        <5>3. PartsAt(r[k], a + 2 * n) = { Placed(f, id[k], a + 2 * n, 2) }
          BY <3>2, <5>1, <5>2, Zenon
        <5> QED
          BY <4>1, <4>2, <5>1, <5>3
      <4>3. CASE i # k
        <5>1. i \in 1 .. n
          BY <3>1, <4>3
        <5> QED
          BY <3>2, <4>1, <5>1
      <4> QED
        BY <4>2, <4>3
    <3>6. Lie(k)
      BY <3>4, <3>5
    <3> HIDE DEF Lie
    <3> QED
      BY <3>1, <3>6
  <2>2. CASE ~(n + 1 <= m)
    BY <2>2
  <2> QED
    BY <2>1, <2>2
<1> HIDE DEF H
<1>7. Nat \subseteq H
  BY <1>5, <1>6, Induction
<1>8. m \in H
  BY <1>7
<1>9. Lie(m)
  BY <1>8 DEF H
<1> QED
  BY <1>4, <1>9

(* A list of doors in the order of their bits is read in the order in which it is written. *)
InOrder(o, m, id) ==
  /\ m \in Nat /\ \A i \in 1 .. m : id[i] \in 0 .. 7
  /\ \A i, j \in 1 .. m : i < j => id[i] < id[j]
  /\ \A b \in 0 .. 7 : Bit(o, "door", b) <=> \E i \in 1 .. m : id[i] = b

LEMMA DoorsMirror ==
  ASSUME NEW o, NEW m, NEW id, NEW f \in Names, InOrder(o, m, id)
  PROVE  Mirrors(FlattenSeq([ i \in 1 .. 8 |-> When(Bit(o, "door", i - 1), NthRead(f, i - 1, 2)) ]),
                 FlattenSeq([ i \in 1 .. m |-> NthPart(f, id[i], 2) ]))
<1>0. /\ m \in Nat /\ \A i \in 1 .. m : id[i] \in 0 .. 7
      /\ \A i, j \in 1 .. m : i < j => id[i] < id[j]
      /\ \A b \in 0 .. 7 : Bit(o, "door", b) <=> \E i \in 1 .. m : id[i] = b
  BY DEF InOrder
<1> USE <1>0
<1> DEFINE q == [ i \in 1 .. 8 |-> When(Bit(o, "door", i - 1), NthRead(f, i - 1, 2)) ]
           r == [ i \in 1 .. m |-> NthPart(f, id[i], 2) ]
<1>1. /\ DOMAIN q = 1 .. 8 /\ DOMAIN r = 1 .. m
      /\ \A i \in 1 .. 8 : q[i] = When(Bit(o, "door", i - 1), NthRead(f, i - 1, 2))
      /\ \A i \in 1 .. m : r[i] = NthPart(f, id[i], 2)
      /\ q = [ i \in 1 .. 8 |-> q[i] ] /\ r = [ i \in 1 .. m |-> r[i] ]
  OBVIOUS
<1> HIDE DEF q, r
<1>2. \A b \in Nat : Mirrors(NthRead(f, b, 2), NthPart(f, b, 2)) /\ Mirrors(<< >>, << >>)
  BY MirrorRules
<1>3. q \in Seq(Seq(ItemSet)) /\ Len(q) = 8
  BY DoorItems, Zenon DEF q
<1>4. r \in Seq(Seq(PartSet)) /\ Len(r) = m
  <2>1. ASSUME NEW i \in 1 .. m
        PROVE  r[i] \in Seq(PartSet)
    <3>1. id[i] \in Nat
      OBVIOUS
    <3>2. NthPart(f, id[i], 2) \in Seq(PartSet)
      BY <1>2, <3>1 DEF Mirrors
    <3> QED
      BY <1>1, <3>2
  <2>2. r \in [1 .. m -> Seq(PartSet)]
    BY <1>1, <2>1
  <2> QED
    BY <2>2, Listed
<1>5. (\E u : IsJoined(u, q)) /\ (\E u : IsJoined(u, r))
  BY <1>3, <1>4, Joined, Zenon
<1>6. PICK s : s[0] = << >> /\ s[8] = FlattenSeq(q) /\ \A k \in 1 .. 8 : s[k] = s[k - 1] \o q[k]
  BY <1>3, <1>5 DEF IsJoined
<1>7. PICK t : t[0] = << >> /\ t[m] = FlattenSeq(r) /\ \A k \in 1 .. m : t[k] = t[k - 1] \o r[k]
  BY <1>4, <1>5 DEF IsJoined
<1> DEFINE Up(b, k) == /\ Mirrors(s[b], t[k])
                       /\ \A i \in 1 .. k : id[i] < b
                       /\ \A i \in k + 1 .. m : id[i] >= b
           H == { b \in Nat : b <= 8 => \E k \in 0 .. m : Up(b, k) }
<1>8. 0 \in H
  <2>1. Mirrors(s[0], t[0])
    BY <1>2, <1>6, <1>7
  <2>2. 1 .. 0 = {} /\ 0 + 1 = 1 /\ \A i \in 1 .. m : id[i] >= 0
    OBVIOUS
  <2>3. Up(0, 0)
    BY <2>1, <2>2
  <2>4. 0 \in 0 .. m
    OBVIOUS
  <2> HIDE DEF Up
  <2> QED
    BY <2>3, <2>4
<1>9. ASSUME NEW b \in Nat, b \in H
      PROVE  b + 1 \in H
  <2>1. CASE b + 1 <= 8
    <3>1. PICK c \in 1 .. 8 : c = b + 1 /\ c - 1 = b /\ b \in 0 .. 7
      BY <2>1
    <3>2. \E k \in 0 .. m : Up(b, k)
      <4>1. b <= 8
        BY <2>1
      <4> HIDE DEF Up
      <4> QED
        BY <1>9, <4>1
    <3>3. PICK k \in 0 .. m : Up(b, k)
      <4> HIDE DEF Up
      <4> QED
        BY <3>2
    <3>4. s[c] = s[b] \o When(Bit(o, "door", b), NthRead(f, b, 2))
      BY <1>1, <1>6, <3>1
    <3>5. CASE Bit(o, "door", b)
      <4>1. PICK j \in 1 .. m : id[j] = b
        BY <3>1, <3>5
      <4>2. j \notin 1 .. k
        BY <3>3, <4>1
      <4>3. k + 1 \in 1 .. m /\ k + 1 <= j /\ j \in k + 1 .. m
        BY <4>2
      <4>4. id[k + 1] >= b /\ id[k + 1] \in 0 .. 7
        BY <3>3, <4>3
      <4>5. j = k + 1
        BY <4>1, <4>3, <4>4
      <4>6. Up(c, k + 1)
        <5>1. t[k + 1] = t[k] \o NthPart(f, b, 2)
          <6>1. r[k + 1] = NthPart(f, b, 2)
            BY <1>1, <4>1, <4>3, <4>5
          <6>2. (k + 1) - 1 = k
            OBVIOUS
          <6>3. t[k + 1] = t[(k + 1) - 1] \o r[k + 1]
            BY <1>7, <4>3
          <6> QED
            BY <6>1, <6>2, <6>3
        <5>2. s[c] = s[b] \o NthRead(f, b, 2)
          BY <3>4, <3>5 DEF When
        <5>3. Mirrors(s[c], t[k + 1])
          BY <1>2, <3>3, <5>1, <5>2, MirrorsBoth
        <5>4. \A i \in 1 .. k + 1 : id[i] < c
          <6>1. \A i \in 1 .. k + 1 : i \in 1 .. k \/ i = j
            BY <4>5
          <6>2. \A i \in 1 .. k : i \in 1 .. m /\ id[i] < b
            BY <3>3
          <6> QED
            BY <3>1, <4>1, <6>1, <6>2
        <5>5. \A i \in (k + 1) + 1 .. m : id[i] >= c
          <6> SUFFICES ASSUME NEW i \in (k + 1) + 1 .. m
                       PROVE  id[i] >= c
            OBVIOUS
          <6>1. i \in 1 .. m /\ j < i
            BY <4>5
          <6>2. id[j] < id[i] /\ id[i] \in 0 .. 7
            BY <6>1
          <6> QED
            BY <3>1, <4>1, <6>2
        <5> QED
          BY <5>3, <5>4, <5>5
      <4>7. k + 1 \in 0 .. m
        BY <4>3
      <4> HIDE DEF Up
      <4> QED
        BY <3>1, <4>6, <4>7
    <3>6. CASE ~Bit(o, "door", b)
      <4>1. s[c] = s[b]
        <5>1. s[b] \in Seq(ItemSet)
          BY <3>3 DEF Mirrors
        <5> QED
          BY <3>4, <3>6, <5>1 DEF When
      <4>2. \A i \in 1 .. m : id[i] # b
        BY <3>1, <3>6
      <4>3. \A i \in k + 1 .. m : i \in 1 .. m /\ id[i] >= b /\ id[i] \in 0 .. 7
        BY <3>3
      <4>4. \A i \in 1 .. k : i \in 1 .. m /\ id[i] < b /\ id[i] \in 0 .. 7
        BY <3>3
      <4>5. \A i \in k + 1 .. m : id[i] >= c
        BY <3>1, <4>2, <4>3
      <4>6. \A i \in 1 .. k : id[i] < c
        BY <3>1, <4>4
      <4>7. Up(c, k)
        BY <3>3, <4>1, <4>5, <4>6
      <4> HIDE DEF Up
      <4> QED
        BY <3>1, <4>7
    <3> QED
      BY <3>5, <3>6
  <2>2. CASE ~(b + 1 <= 8)
    BY <2>2
  <2> QED
    BY <2>1, <2>2
<1> HIDE DEF H
<1>10. Nat \subseteq H
  BY <1>8, <1>9, Induction
<1>11. 8 \in H
  BY <1>10
<1>12. PICK k \in 0 .. m : Up(8, k)
  <2> HIDE DEF Up
  <2> QED
    BY <1>11 DEF H
<1>13. k = m
  <2>1. CASE k < m
    <3>1. k + 1 \in 1 .. m /\ k + 1 \in k + 1 .. m
      BY <2>1
    <3>2. id[k + 1] >= 8 /\ id[k + 1] \in 0 .. 7
      BY <1>12, <3>1
    <3> QED
      BY <3>2
  <2> QED
    BY <2>1
<1>14. Mirrors(FlattenSeq(q), FlattenSeq(r))
  BY <1>6, <1>7, <1>12, <1>13
<1> QED
  BY <1>14 DEF q, r

LEMMA TPassengers_Back ==
  ASSUME NEW o, NEW n, Sound(o, n), o.class = "TPassengers"
  PROVE  Back(o, n) <=> ~Lossy(o)
<1> DEFINE m == Len(o.list)
           id == [ i \in 1 .. m |-> o.list[i].id ]
           q == [ i \in 1 .. 8 |-> When(Bit(o, "door", i - 1), NthRead("door", i - 1, 2)) ]
           r == [ i \in 1 .. m |-> NthPart("door", id[i], 2) ]
           c == BitCnt(o, "door") * 2
           h == Read("head", 5) \o Check(c)
<1>1. m \in Nat /\ DOMAIN o.list = 1 .. m
      /\ \A i \in 1 .. m : id[i] = o.list[i].id /\ id[i] \in 0 .. 7 /\ "door" \in o.list[i].flags
  <2>1. IsObject(o)
    BY DEF Sound
  <2>2. m \in Nat /\ DOMAIN o.list = 1 .. m /\ o.list \in Seq(Elements)
    BY <2>1, ObjectHas
  <2>3. \A i \in 1 .. m : o.list[i] \in Elements
    BY <2>2
  <2>4. \A i \in 1 .. m : o.list[i].id \in 0 .. 7
    BY <2>3 DEF Elements
  <2>5. \A i \in 1 .. m : "door" \in o.list[i].flags
    BY <2>1, <2>2 DEF IsObject
  <2> QED
    BY <2>2, <2>4, <2>5
<1>2. /\ "door" \in Names /\ "door" \in Names \ {"none"} /\ "head" \in Names /\ "head" # "door"
      /\ 5 \in Nat /\ 0 \in Nat /\ 2 \in Nat /\ 2 # 0
  BY DEF Names
<1>3. c \in Nat
  BY BitCntNat
<1>4. GetData(o).parts = Part("head", 5) \o FlattenSeq(r)
  <2>1. GetData(o).parts = Part("head", 5)
          \o FlattenSeq([ i \in DOMAIN o.list |-> NthPart("door", o.list[i].id, 2) ])
    BY DEF GetData, TPassengers_GetData, Wrote, Each
  <2>2. [ i \in DOMAIN o.list |-> NthPart("door", o.list[i].id, 2) ] = r
    BY <1>1
  <2> QED
    BY <2>1, <2>2
<1>5. SetSRD(o, n).items = h \o FlattenSeq(q)
  BY DEF SetSRD, TPassengers_SetSRD, ReadsAll, EachBit
<1>6. /\ Lossy(o) <=> \E i, j \in 1 .. m : i < j /\ id[i] >= id[j]
      /\ Held(o) = {}
  <2>1. Lossy(o) <=> \E i, j \in DOMAIN o.list : i < j /\ o.list[i].id >= o.list[j].id
    BY DEF Lossy, Overfull
  <2>2. Held(o) = {}
    BY DEF Held
  <2> QED
    BY <1>1, <2>1, <2>2
<1> HIDE DEF id, m
<1>7. Mirrors(h, Part("head", 5))
  <2> HIDE DEF c
  <2>1. Mirrors(Read("head", 5), Part("head", 5)) /\ Mirrors(Check(c), << >>)
    BY <1>2, <1>3, MirrorRules, Zenon
  <2> QED
    BY <2>1, MirrorsMore, Zenon
<1>8. CASE ~\E i, j \in 1 .. m : i < j /\ id[i] >= id[j]
  <2>1. ASSUME NEW i \in 1 .. m, NEW j \in 1 .. m, i < j
        PROVE  id[i] < id[j]
    <3>1. id[i] \in 0 .. 7 /\ id[j] \in 0 .. 7
      BY <1>1
    <3>2. ~(id[i] >= id[j])
      BY <1>8, <2>1
    <3> QED
      BY <3>1, <3>2
  <2>2. \A b \in 0 .. 7 : Bit(o, "door", b) <=> \E i \in 1 .. m : id[i] = b
    BY <1>1 DEF Bit
  <2> HIDE DEF h
  <2>3. Mirrors(FlattenSeq(q), FlattenSeq(r))
    <3>1. \A i \in 1 .. m : id[i] \in 0 .. 7
      BY <1>1
    <3>2. \A i, j \in 1 .. m : i < j => id[i] < id[j]
      BY <2>1
    <3>3. InOrder(o, m, id)
      BY <1>1, <2>2, <3>1, <3>2 DEF InOrder
    <3> QED
      BY <1>2, <3>3, DoorsMirror
  <2>4. Mirrors(SetSRD(o, n).items, GetData(o).parts)
    BY <1>4, <1>5, <1>7, <2>3, MirrorsBoth
  <2> QED
    BY <1>6, <1>8, <2>4, MirrorsBack
<1>9. CASE \E i, j \in 1 .. m : i < j /\ id[i] >= id[j]
  <2> DEFINE F == FieldsAt(SetSRD(o, n).items, 0)
             P == PartsAt(GetData(o).parts, 0)
  <2>1. PICK i \in 1 .. m, j \in 1 .. m : i < j /\ id[i] >= id[j]
    <3> QED
      BY <1>9
  <2> DEFINE x == Placed("door", id[i], 5 + 2 * (i - 1), 2)
             y == Placed("door", id[j], 5 + 2 * (j - 1), 2)
  <2>2. x \in P /\ y \in P
    <3>1. \A a \in Nat : \A k \in 1 .. m : Placed("door", id[k], a + 2 * (k - 1), 2) \in PartsAt(FlattenSeq(r), a)
      <4>1. DOMAIN r = 1 .. m /\ r = [ k \in 1 .. m |-> r[k] ]
            /\ \A k \in 1 .. m : id[k] \in Nat /\ r[k] = NthPart("door", id[k], 2)
        BY <1>1
      <4> HIDE DEF r
      <4> QED
        BY <1>1, <1>2, <4>1, DoorsLie
    <3>2. FlattenSeq(r) \in Seq(PartSet)
      <4>1. \A k \in 1 .. m : r[k] \in Seq(PartSet)
        <5> SUFFICES ASSUME NEW k \in 1 .. m
                     PROVE  NthPart("door", id[k], 2) \in Seq(PartSet)
          OBVIOUS
        <5>1. id[k] \in Nat
          BY <1>1
        <5> QED
          BY <1>2, <5>1, PartRules, Zenon
      <4>2. r \in [1 .. m -> Seq(PartSet)]
        BY <4>1
      <4> HIDE DEF r
      <4>3. r \in Seq(Seq(PartSet))
        BY <1>1, <4>2, Listed
      <4> QED
        BY <4>3, FlatParts
    <3>3. Part("head", 5) \in Seq(PartSet) /\ Bytes(Part("head", 5)) = 5
      BY <1>2, PartRules, Zenon
    <3> HIDE DEF r
    <3>4. P = PartsAt(Part("head", 5), 0) \cup PartsAt(FlattenSeq(r), 5)
      <4>1. 0 + 5 = 5
        OBVIOUS
      <4> QED
        BY <1>2, <1>4, <3>2, <3>3, <4>1, PartsOfBoth
    <3> QED
      BY <1>2, <3>1, <3>4
  <2>3. /\ x.field = "door" /\ x.nth = id[i] /\ x.at = 5 + 2 * (i - 1) /\ x.bytes = 2
        /\ y.field = "door" /\ y.nth = id[j] /\ y.at = 5 + 2 * (j - 1) /\ y.bytes = 2
    <3> QED
      BY DEF Placed
  <2>4. ~(y.at <= x.at) /\ y.nth <= x.nth
    <3>1. id[i] \in 0 .. 7 /\ id[j] \in 0 .. 7
      BY <1>1
    <3> HIDE DEF x, y
    <3> QED
      BY <1>1, <2>1, <2>3, <3>1
  <2> HIDE DEF x, y, r, q
  <2>5. Rising(FlattenSeq(q), 8)
    BY <1>2, DoorsRise DEF q
  <2>6. Skipped(h) = 5 /\ h \in Seq(ItemSet)
    <3>1. Skipped(h) = Bytes(Part("head", 5)) /\ h \in Seq(ItemSet)
      BY <1>7 DEF Mirrors
    <3>2. Bytes(Part("head", 5)) = 5
      BY <1>2, PartRules, Zenon
    <3> QED
      BY <3>1, <3>2
  <2>7. F = FieldsAt(h, 0) \cup FieldsAt(FlattenSeq(q), 5)
    <3>1. FlattenSeq(q) \in Seq(ItemSet) /\ 0 + 5 = 5
      BY <2>5 DEF Rising
    <3> HIDE DEF h
    <3> QED
      BY <1>2, <1>5, <2>6, <3>1, FieldsOfBoth
  <2>8. \A z \in FieldsAt(h, 0) : z.field # "door" \/ z.bytes # 2
    <3> SUFFICES ASSUME NEW z \in FieldsAt(h, 0), z.field = "door", z.bytes = 2
                 PROVE  FALSE
      OBVIOUS
    <3>1. z = Placed("head", 0, 0, 5)
      <4>1. FieldsAt(h, 0) = PartsAt(Part("head", 5), 0)
        BY <1>2, <1>7 DEF Mirrors
      <4>2. PartsAt(Part("head", 5), 0) = { Placed("head", 0, 0, 5) }
        <5>1. 5 \in Nat \ {0}
          OBVIOUS
        <5> QED
          BY <1>2, <5>1, OneLaid DEF Part
      <4> QED
        BY <4>1, <4>2
    <3>2. z.field = "head"
      BY <3>1 DEF Placed
    <3> QED
      BY <3>2
  <2>9. F # P
    <3> SUFFICES ASSUME F = P
                 PROVE  FALSE
      OBVIOUS
    <3>1. x \in F /\ y \in F
      BY <2>2
    <3> HIDE DEF F, P, h
    <3>2. x \in FieldsAt(FlattenSeq(q), 5) /\ y \in FieldsAt(FlattenSeq(q), 5)
      BY <2>3, <2>7, <2>8, <3>1
    <3>3. y.at <= x.at
      BY <1>2, <2>4, <2>5, <3>2 DEF Rising
    <3> QED
      BY <2>4, <3>3
  <2>10. Lossy(o)
    <3> QED
      BY <1>6, <1>9
  <2> QED
    BY <2>9, <2>10 DEF Back
<1> QED
  BY <1>8, <1>9

(* The classes whose size is the sum of their parts. *)
Summed == Classes \ {"TEPMainData", "TInsAccel", "TPosData"}

LEMMA SummedFull ==
  ASSUME NEW o, IsObject(o), o.class \in Summed
  PROVE  Full(o)
<1>1. 0 \in Nat
  OBVIOUS
<1>2. o.class \in DOMAIN BodySize => Full(o)
  BY <1>1, Body_Lays
<1>3. /\ o.class \in {"TCommandData", "TECallRawMSD", "TECallMSD", "TEPCompData"} => Full(o)
      /\ o.class \in {"TEPSignature", "TEPAccelData3", "TEPTrackData", "TTermIdent"} => Full(o)
  BY TCommandData_Writes, TECallRawMSD_Writes, TECallMSD_Writes, TEPCompData_Writes,
     TEPSignature_Writes, TEPAccelData3_Writes, TEPTrackData_Writes, TTermIdent_Writes
<1>4. /\ o.class \in {"TTermIdent2", "TDispIdent", "TAuthInfo", "TPlusData", "TExtPosData"} => Full(o)
      /\ o.class \in {"TAdSensors", "TCounters", "TLiquidLevel", "TPassengers"} => Full(o)
  BY TTermIdent2_Writes, TDispIdent_Writes, TAuthInfo_Writes, TPlusData_Writes, TExtPosData_Writes,
     TAdSensors_Writes, TCounters_Writes, TLiquidLevel_Writes, TPassengers_Writes
<1>5. \/ o.class \in {"TCommandData", "TECallRawMSD", "TECallMSD", "TEPCompData"}
      \/ o.class \in {"TEPSignature", "TEPAccelData3", "TEPTrackData", "TTermIdent"}
      \/ o.class \in {"TTermIdent2", "TDispIdent", "TAuthInfo", "TPlusData", "TExtPosData"}
      \/ o.class \in {"TAdSensors", "TCounters", "TLiquidLevel", "TPassengers"}
      \/ o.class \in DOMAIN BodySize
  BY DEF Summed, Classes
<1> QED
  BY <1>2, <1>3, <1>4, <1>5, Zenon

LEMMA PlainSound ==
  ASSUME NEW o, IsObject(o), o.class \in Summed, NEW n \in 0 .. MaxU16 - 1, ~Spills(o), ~Unwritable(o)
  PROVE  n = GetData(o).size => Sound(o, n)
<1>1. Full(o) /\ o.class # "TEPMainData" /\ o.class # "TInsAccel"
  BY SummedFull DEF Summed
<1>2. GetData(o).size = Bytes(GetData(o).parts) /\ GetData(o).parts \in Seq(PartSet)
  BY <1>1, FullRoom DEF Full
<1>3. Fair(o, n)
  BY ObjectFair
<1>4. n \in Nat
  BY U16Rules
<1> QED
  BY <1>2, <1>3, <1>4 DEF Sound

(* An object comes back from what GetData wrote for it, unless it is lossy. *)
LEMMA ObjectBack ==
  ASSUME NEW o, IsObject(o), NEW n \in 0 .. MaxU16 - 1, ~Spills(o), ~Unwritable(o)
  PROVE  n = GetData(o).size => (Back(o, n) <=> ~Lossy(o))
<1> SUFFICES ASSUME n = GetData(o).size
             PROVE  Back(o, n) <=> ~Lossy(o)
  OBVIOUS
<1>1. CASE o.class \in Summed
  <2>1. Sound(o, n)
    BY <1>1, PlainSound
  <2>2. n = Bytes(GetData(o).parts)
    BY <2>1 DEF Sound
  <2>3. CASE o.class \in DOMAIN BodySize
    BY <2>3, Body_Back
  <2>4. CASE o.class \in {"TCommandData", "TECallRawMSD", "TEPCompData", "TPlusData", "TLiquidLevel"}
    BY <2>2, <2>4, TCommandData_Back, TECallRawMSD_Back, TEPCompData_Back, TPlusData_Back, TLiquidLevel_Back
  <2>5. CASE o.class \in {"TDispIdent", "TAuthInfo", "TTermIdent", "TTermIdent2"}
    BY <2>2, <2>5, TDispIdent_Back, TAuthInfo_Back, TTermIdent_Back, TTermIdent2_Back
  <2>6. CASE o.class \in {"TAdSensors", "TCounters", "TExtPosData"}
    BY <2>6, TAdSensors_Back, TCounters_Back, TExtPosData_Back
  <2>7. CASE o.class \in {"TECallMSD", "TEPSignature", "TEPAccelData3", "TEPTrackData", "TPassengers"}
    BY <2>1, <2>7, TECallMSD_Back, TEPSignature_Back, TEPAccelData3_Back, TEPTrackData_Back, TPassengers_Back
  <2>8. \/ o.class \in DOMAIN BodySize
        \/ o.class \in {"TCommandData", "TECallRawMSD", "TEPCompData", "TPlusData", "TLiquidLevel"}
        \/ o.class \in {"TDispIdent", "TAuthInfo", "TTermIdent", "TTermIdent2"}
        \/ o.class \in {"TAdSensors", "TCounters", "TExtPosData"}
        \/ o.class \in {"TECallMSD", "TEPSignature", "TEPAccelData3", "TEPTrackData", "TPassengers"}
    BY <1>1 DEF Summed, Classes
  <2> QED
    BY <2>3, <2>4, <2>5, <2>6, <2>7, <2>8, Zenon
<1>2. CASE o.class \in {"TEPMainData", "TInsAccel", "TPosData"}
  BY <1>2, TEPMainData_Back, TInsAccel_Back, TPosData_Back
<1>3. o.class \in Classes
  BY DEF IsObject
<1> QED
  BY <1>1, <1>2, <1>3 DEF Summed

(* What was copied out are the fields that the items fill, *)
LEMMA FieldsTaken ==
  ASSUME NEW s \in Seq(ItemSet), NEW fs \in Seq(FieldSet), NEW n, Taken(fs, s, n), Kept(fs, s, Len(s))
  PROVE  { fs[i] : i \in DOMAIN fs } = FieldsAt(s, 0)
<1>1. DOMAIN fs = 1 .. Len(fs) /\ s \in Items(ItemSet) /\ 0 \in Nat
  BY DEF Items
<1>2. \A i \in 1 .. Len(s) : 0 + At(s, i - 1) = At(s, i - 1) /\ 0 + UpTo(s, SkipOf, i - 1) = At(s, i - 1)
  <2> SUFFICES ASSUME NEW i \in 1 .. Len(s)
               PROVE  0 + At(s, i - 1) = At(s, i - 1)
    BY DEF At
  <2>1. i - 1 \in 0 .. Len(s)
    OBVIOUS
  <2>2. At(s, i - 1) \in Nat
    BY <2>1, AtDefined
  <2> QED
    BY <2>2
<1>3. ASSUME NEW j \in 1 .. Len(fs)
      PROVE  fs[j] \in FieldsAt(s, 0)
  <2>1. PICK i \in 1 .. Len(s) : s[i].keep > 0 /\ fs[j] = Placed(s[i].field, s[i].nth, At(s, i - 1), s[i].keep)
    BY DEF Taken, FromItem
  <2> DEFINE x == <<s[i], 0 + UpTo(s, SkipOf, i - 1)>>
  <2>2. x \in Spots(s, SkipOf, 0) /\ x[1] = s[i] /\ x[2] = At(s, i - 1)
    BY <1>2 DEF Spots
  <2> HIDE DEF x
  <2>3. x \in { y \in Spots(s, SkipOf, 0) : y[1].keep > 0 }
    BY <2>1, <2>2
  <2>4. fs[j] = Placed(x[1].field, x[1].nth, x[2], x[1].keep)
    BY <2>1, <2>2
  <2> QED
    BY <2>3, <2>4, Zenon DEF FieldsAt, Filled
<1>4. ASSUME NEW x \in FieldsAt(s, 0)
      PROVE  \E j \in 1 .. Len(fs) : x = fs[j]
  <2>1. PICK i \in 1 .. Len(s) : s[i].keep > 0 /\ x = Placed(s[i].field, s[i].nth, 0 + At(s, i - 1), s[i].keep)
    BY <1>1, FieldsOfKind
  <2>2. x = Placed(s[i].field, s[i].nth, At(s, i - 1), s[i].keep)
    BY <1>2, <2>1
  <2> QED
    BY <2>1, <2>2 DEF Kept
<1> QED
  BY <1>1, <1>3, <1>4

(* and what was copied in are the parts that have bytes. *)
LEMMA PartsCopied ==
  ASSUME object \in Objects, Copied(Len(Sent))
  PROVE  { buffer[i] : i \in { j \in DOMAIN buffer : buffer[j].bytes > 0 } } = PartsAt(Sent, 0)
<1>1. Len(Sent) \in Nat /\ \A i \in 0 .. Len(Sent) : UpTo(Sent, BytesOf, i) \in Nat
  <2>1. Sent \in Seq(PartSet) /\ \A i \in 0 .. Len(Sent) : UpTo(Sent, BytesOf, i) \in Nat
    BY SentParts
  <2> HIDE DEF Sent
  <2> QED
    BY <2>1
<1> HIDE DEF Sent
<1>2. /\ DOMAIN buffer = 1 .. Len(Sent)
      /\ \A i \in 1 .. Len(Sent) :
           buffer[i] = Placed(Sent[i].field, Sent[i].nth, UpTo(Sent, BytesOf, i - 1), Sent[i].bytes)
  BY DEF Copied
<1>3. \A i \in 1 .. Len(Sent) : buffer[i].bytes = Sent[i].bytes
  BY <1>2 DEF Placed
<1>4. \A i \in 1 .. Len(Sent) : 0 + UpTo(Sent, BytesOf, i - 1) = UpTo(Sent, BytesOf, i - 1)
  <2> SUFFICES ASSUME NEW i \in 1 .. Len(Sent)
               PROVE  0 + UpTo(Sent, BytesOf, i - 1) = UpTo(Sent, BytesOf, i - 1)
    OBVIOUS
  <2>1. i - 1 \in 0 .. Len(Sent)
    BY <1>1
  <2>2. UpTo(Sent, BytesOf, i - 1) \in Nat
    BY <1>1, <2>1
  <2> QED
    BY <2>2
<1>5. ASSUME NEW i \in 1 .. Len(Sent), buffer[i].bytes > 0
      PROVE  buffer[i] \in PartsAt(Sent, 0)
  <2> DEFINE x == <<Sent[i], 0 + UpTo(Sent, BytesOf, i - 1)>>
  <2>1. x \in Spots(Sent, BytesOf, 0) /\ x[1] = Sent[i] /\ x[2] = UpTo(Sent, BytesOf, i - 1)
    BY <1>4 DEF Spots
  <2> HIDE DEF x
  <2>2. x \in { y \in Spots(Sent, BytesOf, 0) : y[1].bytes > 0 }
    BY <1>3, <1>5, <2>1
  <2>3. buffer[i] = Placed(x[1].field, x[1].nth, x[2], x[1].bytes)
    BY <1>2, <2>1
  <2> QED
    BY <2>2, <2>3, Zenon DEF PartsAt, Laid
<1>6. ASSUME NEW x \in PartsAt(Sent, 0)
      PROVE  \E i \in 1 .. Len(Sent) : buffer[i].bytes > 0 /\ x = buffer[i]
  <2>1. PICK y \in Spots(Sent, BytesOf, 0) : y[1].bytes > 0 /\ x = Placed(y[1].field, y[1].nth, y[2], y[1].bytes)
    BY Zenon DEF PartsAt, Laid
  <2>2. PICK i \in 1 .. Len(Sent) : y = <<Sent[i], 0 + UpTo(Sent, BytesOf, i - 1)>>
    BY DEF Spots
  <2>3. y[1] = Sent[i] /\ y[2] = UpTo(Sent, BytesOf, i - 1)
    BY <1>4, <2>2
  <2> QED
    BY <1>2, <1>3, <2>1, <2>3
<1> QED
  BY <1>2, <1>5, <1>6

(* So an object is restored if it comes back. *)
LEMMA IInv_RoundTrip == IInv => RoundTrip
<1> SUFFICES ASSUME IInv, Undamaged
             PROVE  ok = 1 /\ (Restored <=> ~Lossy(object))
  BY DEF RoundTrip
<1>1. ok = 1
  BY EncodedAccepted
<1>2. /\ object \in Objects /\ offered \in 0 .. MaxU16 - 1 /\ fields \in Seq(FieldSet)
      /\ Taken(fields, Wanted, offered) /\ Arrived /\ Returned /\ offered = room
  BY DEF IInv, Undamaged
<1>3. /\ IsObject(object) /\ ~Spills(object) /\ ~Unwritable(object) /\ offered = GetData(object).size
      /\ Copied(Len(Sent)) /\ Kept(fields, Wanted, Len(Wanted))
  BY <1>1, <1>2, TheObject DEF Arrived, Encoded, Returned, Still
<1>4. Back(object, offered) <=> ~Lossy(object)
  BY <1>2, <1>3, ObjectBack
<1>5. { fields[i] : i \in DOMAIN fields } = FieldsAt(Wanted, 0)
  <2>1. Wanted \in Seq(ItemSet)
    BY <1>2, WantedItems
  <2> HIDE DEF Wanted
  <2> QED
    BY <1>2, <1>3, <2>1, FieldsTaken
<1>6. { buffer[i] : i \in { j \in DOMAIN buffer : buffer[j].bytes > 0 } } = PartsAt(Sent, 0)
  BY <1>2, <1>3, PartsCopied
<1>7. (\A h \in Held(object) : \E i \in DOMAIN fields : h = <<fields[i].field, fields[i].nth, fields[i].bytes>>)
        <=> \A h \in Held(object) : \E x \in FieldsAt(Wanted, 0) : h = <<x.field, x.nth, x.bytes>>
  <2>1. /\ \A i \in DOMAIN fields : fields[i] \in FieldsAt(Wanted, 0)
        /\ \A x \in FieldsAt(Wanted, 0) : \E i \in DOMAIN fields : x = fields[i]
    BY <1>5
  <2> HIDE DEF Wanted
  <2> QED
    BY <2>1
<1>8. Restored <=> Back(object, offered)
  <2>1. Back(object, offered) <=>
          /\ FieldsAt(Wanted, 0) = PartsAt(Sent, 0)
          /\ \A h \in Held(object) : \E x \in FieldsAt(Wanted, 0) : h = <<x.field, x.nth, x.bytes>>
    BY DEF Back, Wanted, Sent
  <2> HIDE DEF Wanted, Sent
  <2> QED
    BY <1>5, <1>6, <1>7, <2>1 DEF Restored
<1> QED
  BY <1>1, <1>4, <1>8

-----------------------------------------------------------------------------
(* The sizes, the length and the phase are what the code takes them for.    *)
THEOREM TypeCorrect == Spec => []TypeOK
BY InvariantHolds, ReportHolds, IInv_TypeOK, PTL

(* GetData copies nothing behind the buffer that PrepareGetData allocated,  *)
(* unless the object is one of those that spill; and those do.              *)
THEOREM WritesStayInside == Spec => []WritesInsideBuffer
BY InvariantHolds, IInv_WritesInsideBuffer, PTL

(* However few bytes arrive, SetSRD copies none from behind them, except    *)
(* TECallRawMSD when nothing arrives at all.                                *)
THEOREM ReadsStayInside == Spec => []ReadsInsideData
BY InvariantHolds, IInv_ReadsInsideData, PTL

(* A subrecord that was cut is refused by every class that is not elastic.  *)
THEOREM CutsAreNoticed == Spec => []CutDataNoticed
BY InvariantHolds, IInv_CutDataNoticed, PTL

(* A subrecord that arrives as it was written takes its length, which is    *)
(* where TRecord::SetData looks for the next one, and with the header what  *)
(* GetData reported - unless it is read in part, or what is reported turns. *)
THEOREM LengthIsTaken == Spec => []TakesItsLength
BY InvariantHolds, ReportHolds, IInv_TakesItsLength, PTL

(* Of any bytes *ppos exceeds the data by 19 at most: the bound that the    *)
(* walk over a record relies on.                                            *)
THEOREM OvershootIsBounded == Spec => []OvershootBounded
BY InvariantHolds, IInv_OvershootBounded, PTL

(* An object that arrives as it was written is accepted, and every field of *)
(* it comes back, exactly unless it is one of those that the code loses     *)
(* something of.                                                            *)
THEOREM ObjectsSurvive == Spec => []RoundTrip
BY InvariantHolds, IInv_RoundTrip, PTL

=============================================================================
