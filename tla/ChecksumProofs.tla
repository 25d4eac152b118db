--------------------------- MODULE ChecksumProofs ---------------------------
(***************************************************************************)
(* That a damage alone decides whether it is noticed, whatever the sender  *)
(* sends; that one damaged byte is noticed; that a burst is; and which two *)
(* bits are. Both checksums are linear, because their tables are: xor goes *)
(* through every part of a step. TLC evaluates the facts about the tables  *)
(* (Polynomials, TablesTyped, TablesLinear, TablesFaithful, TablesSpread,  *)
(* DivisionTyped) entry by entry, and Orders in a few hundred steps.       *)
(*                                                                         *)
(* BurstInv says how far the registers are apart as long as the damage     *)
(* lies at most two bytes back (ApartInv), and that the checksum's bytes   *)
(* arrived with the damage that hits names (GotInv): a message is accepted *)
(* exactly if they are damaged by as much as the registers are apart.      *)
(*                                                                         *)
(* A single bit is a power of x, a byte behind it eight more (PowerByte),  *)
(* and two bits hide each other if they are the same power: that is, if    *)
(* they lie a multiple of the order of x apart (SamePower), which is 127   *)
(* or 32767 because no smaller power that divides either is 1 (AgainPrime).*)
(***************************************************************************)
EXTENDS Checksum, FiniteSetTheorems, NaturalsInduction, WellFoundedInduction, TLAPS

Register(s) == SUBSET Ones(s)

(***************************************************************************)
(* Xor.                                                                    *)
(***************************************************************************)
LEMMA XorSubset ==
  ASSUME NEW S, NEW a \in SUBSET S, NEW b \in SUBSET S
  PROVE  Xor(a, b) \in SUBSET S
BY DEF Xor

LEMMA XorSame ==
  ASSUME NEW a, NEW b
  PROVE  Xor(a, b) = {} <=> a = b
BY DEF Xor

LEMMA XorNothing ==
  ASSUME NEW a
  PROVE  Xor(a, {}) = a /\ Xor({}, a) = a
BY DEF Xor

LEMMA XorExchange ==
  ASSUME NEW a, NEW b, NEW x, NEW y
  PROVE  Xor(Xor(a, x), Xor(b, y)) = Xor(Xor(a, b), Xor(x, y))
BY DEF Xor

(* What was damaged and xored back: the damage. *)
LEMMA XorOfDamaged ==
  ASSUME NEW b, NEW d
  PROVE  Xor(b, Xor(b, d)) = d
BY DEF Xor

(***************************************************************************)
(* The parts of a register.                                                *)
(***************************************************************************)
LEMMA PartsTyped ==
  ASSUME NEW c \in SUBSET (0 .. 15)
  PROVE  Low(c) \in Byte /\ High(c) \in Byte
<1>1. Low(c) \in Byte
  BY DEF Low, Byte
<1>2. ASSUME NEW i \in High(c)
      PROVE  i \in 0 .. 7
  BY <1>2 DEF High
<1> QED
  BY <1>1, <1>2 DEF Byte

LEMMA PartsLinear ==
  ASSUME NEW a \in SUBSET (0 .. 15), NEW x \in SUBSET (0 .. 15)
  PROVE  /\ Low(Xor(a, x)) = Xor(Low(a), Low(x))
         /\ High(Xor(a, x)) = Xor(High(a), High(x))
<1>1. Low(Xor(a, x)) = Xor(Low(a), Low(x))
  BY DEF Low, Xor
<1>2. ASSUME NEW c \in SUBSET (0 .. 15), NEW j
      PROVE  j \in High(c) <=> j \in 0 .. 7 /\ j + 8 \in c
  BY <1>2 DEF High
<1>3. Xor(a, x) \in SUBSET (0 .. 15)
  BY DEF Xor
<1>4. ASSUME NEW j
      PROVE  j \in High(Xor(a, x)) <=> j \in Xor(High(a), High(x))
  <2>1. j \in High(Xor(a, x)) <=> j \in 0 .. 7 /\ j + 8 \in Xor(a, x)
    BY <1>2, <1>3
  <2>2. /\ j \in High(a) <=> j \in 0 .. 7 /\ j + 8 \in a
        /\ j \in High(x) <=> j \in 0 .. 7 /\ j + 8 \in x
    BY <1>2
  <2> QED
    BY <2>1, <2>2 DEF Xor
<1> QED
  BY <1>1, <1>4

LEMMA RaiseLinear ==
  ASSUME NEW a \in Byte, NEW x \in Byte
  PROVE  /\ Raise(a) \in SUBSET (0 .. 15)
         /\ Raise(Xor(a, x)) = Xor(Raise(a), Raise(x))
<1>1. ASSUME NEW c \in Byte, NEW j
      PROVE  j \in Raise(c) <=> j \in 8 .. 15 /\ j - 8 \in c
  BY <1>1 DEF Raise, Byte
<1>2. Xor(a, x) \in Byte
  BY XorSubset DEF Byte
<1>3. ASSUME NEW j
      PROVE  j \in Raise(Xor(a, x)) <=> j \in Xor(Raise(a), Raise(x))
  <2>1. j \in Raise(Xor(a, x)) <=> j \in 8 .. 15 /\ j - 8 \in Xor(a, x)
    BY <1>1, <1>2
  <2>2. /\ j \in Raise(a) <=> j \in 8 .. 15 /\ j - 8 \in a
        /\ j \in Raise(x) <=> j \in 8 .. 15 /\ j - 8 \in x
    BY <1>1
  <2> QED
    BY <2>1, <2>2 DEF Xor
<1>4. \A j \in Raise(a) : j \in 0 .. 15
  BY <1>1
<1> QED
  BY <1>3, <1>4

(***************************************************************************)
(* One step of a register.                                                 *)
(***************************************************************************)
LEMMA StepTyped ==
  ASSUME NEW s \in Sums, NEW c \in Register(s), NEW b \in Byte
  PROVE  Step(s, c, b) \in Register(s)
<1>1. CASE s = "crc8"
  <2>1. Xor(c, b) \in Byte
    BY <1>1, XorSubset DEF Register, Ones, Byte
  <2>2. Table8[Xor(c, b)] \in Byte
    BY <2>1, TablesTyped
  <2> QED
    BY <1>1, <2>2 DEF Step, Step8, Register, Ones, Byte
<1>2. CASE s = "crc16"
  <2>1. Low(c) \in Byte /\ High(c) \in Byte
    BY <1>2, PartsTyped DEF Register, Ones
  <2>2. Raise(Low(c)) \in SUBSET (0 .. 15)
    BY <2>1, RaiseLinear
  <2>3. Xor(High(c), b) \in Byte
    BY <2>1, XorSubset DEF Byte
  <2>4. Table16[Xor(High(c), b)] \in SUBSET (0 .. 15)
    BY <2>3, TablesTyped
  <2>5. Xor(Raise(Low(c)), Table16[Xor(High(c), b)]) \in SUBSET (0 .. 15)
    <3> DEFINE a == Raise(Low(c))
               x == Table16[Xor(High(c), b)]
    <3>1. a \in SUBSET (0 .. 15) /\ x \in SUBSET (0 .. 15)
      BY <2>2, <2>4
    <3> HIDE DEF a, x
    <3>2. Xor(a, x) \in SUBSET (0 .. 15)
      BY <3>1, XorSubset
    <3> QED
      BY <3>2 DEF a, x
  <2> QED
    BY <1>2, <2>5 DEF Step, Step16, Register, Ones
<1> QED
  BY <1>1, <1>2 DEF Sums

LEMMA StepLinear ==
  ASSUME NEW s \in Sums, NEW a \in Register(s), NEW x \in Register(s),
         NEW b \in Byte, NEW y \in Byte
  PROVE  Step(s, Xor(a, x), Xor(b, y)) = Xor(Step(s, a, b), Step(s, x, y))
<1>1. CASE s = "crc8"
  <2>1. a \in Byte /\ x \in Byte
    BY <1>1 DEF Register, Ones, Byte
  <2>2. Xor(a, b) \in Byte /\ Xor(x, y) \in Byte
    BY <2>1, XorSubset DEF Byte
  <2>3. Table8[Xor(Xor(a, b), Xor(x, y))] = Xor(Table8[Xor(a, b)], Table8[Xor(x, y)])
    BY <2>2, TablesLinear
  <2>4. Xor(Xor(a, x), Xor(b, y)) = Xor(Xor(a, b), Xor(x, y))
    BY XorExchange
  <2> QED
    BY <1>1, <2>3, <2>4 DEF Step, Step8
<1>2. CASE s = "crc16"
  <2>1. a \in SUBSET (0 .. 15) /\ x \in SUBSET (0 .. 15)
    BY <1>2 DEF Register, Ones
  <2>2. /\ Low(a) \in Byte /\ High(a) \in Byte
        /\ Low(x) \in Byte /\ High(x) \in Byte
    BY <2>1, PartsTyped
  <2>3. /\ Low(Xor(a, x)) = Xor(Low(a), Low(x))
        /\ High(Xor(a, x)) = Xor(High(a), High(x))
    BY <2>1, PartsLinear
  <2>4. Raise(Xor(Low(a), Low(x))) = Xor(Raise(Low(a)), Raise(Low(x)))
    BY <2>2, RaiseLinear
  <2>5. Xor(High(a), b) \in Byte /\ Xor(High(x), y) \in Byte
    BY <2>2, XorSubset DEF Byte
  <2>6. Table16[Xor(Xor(High(a), b), Xor(High(x), y))]
          = Xor(Table16[Xor(High(a), b)], Table16[Xor(High(x), y)])
    BY <2>5, TablesLinear
  <2>7. Xor(Xor(High(a), High(x)), Xor(b, y)) = Xor(Xor(High(a), b), Xor(High(x), y))
    BY XorExchange
  <2>8. Step16(Xor(a, x), Xor(b, y))
          = Xor(Xor(Raise(Low(a)), Raise(Low(x))),
                Xor(Table16[Xor(High(a), b)], Table16[Xor(High(x), y)]))
    BY <2>3, <2>4, <2>6, <2>7 DEF Step16
  <2>9. Step16(Xor(a, x), Xor(b, y)) = Xor(Step16(a, b), Step16(x, y))
    BY <2>8, XorExchange DEF Step16
  <2> QED
    BY <1>2, <2>9 DEF Step
<1> QED
  BY <1>1, <1>2 DEF Sums

(* An undamaged byte neither hides a difference nor makes one.              *)
LEMMA UndamagedByteChangesNothing ==
  ASSUME NEW s \in Sums, NEW x \in Register(s)
  PROVE  Step(s, x, {}) = {} <=> x = {}
<1>1. {} \in Byte
  BY DEF Byte
<1>2. Xor({}, {}) = {}
  BY XorNothing
<1>3. Table8[{}] = {} /\ Table16[{}] = {}
  <2>1. Table8[Xor({}, {})] = Xor(Table8[{}], Table8[{}])
    BY <1>1, TablesLinear
  <2>2. Table16[Xor({}, {})] = Xor(Table16[{}], Table16[{}])
    BY <1>1, TablesLinear
  <2> QED
    BY <1>2, <2>1, <2>2, XorSame
<1>4. CASE s = "crc8"
  <2>1. x \in Byte
    BY <1>4 DEF Register, Ones, Byte
  <2>2. Step(s, x, {}) = Table8[x]
    BY <1>4, XorNothing DEF Step, Step8
  <2> QED
    BY <2>1, <2>2, <1>3, TablesFaithful
<1>5. CASE s = "crc16"
  <2>1. x \in SUBSET (0 .. 15)
    BY <1>5 DEF Register, Ones
  <2>2. Low(x) \in Byte /\ High(x) \in Byte
    BY <2>1, PartsTyped
  <2>3. Step(s, x, {}) = Xor(Raise(Low(x)), Table16[High(x)])
    BY <1>5, XorNothing DEF Step, Step16
  <2>4. ASSUME x = {}
        PROVE  Step(s, x, {}) = {}
    <3>1. Raise(Low(x)) = {} /\ High(x) = {}
      BY <2>4 DEF Raise, Low, High
    <3> QED
      BY <3>1, <2>3, <1>3, <1>2
  <2>5. ASSUME Step(s, x, {}) = {}
        PROVE  x = {}
    <3>1. Raise(Low(x)) = Table16[High(x)]
      BY <2>3, <2>5, XorSame
    <3>2. Low(Raise(Low(x))) = {}
      BY <2>2 DEF Low, Raise, Byte
    <3>3. High(x) = {}
      BY <3>1, <3>2, <2>2, TablesFaithful
    <3>4. Raise(Low(x)) = {}
      BY <3>1, <3>3, <1>3
    <3>5. Low(x) = {}
      BY <3>4 DEF Raise
    <3>6. \A i \in x : i \in 0 .. 7
      BY <3>3, <2>1 DEF High
    <3> QED
      BY <3>5, <3>6 DEF Low
  <2> QED
    BY <2>4, <2>5
<1> QED
  BY <1>4, <1>5 DEF Sums
-----------------------------------------------------------------------------
(* The types of the state. *)
Registers ==
  /\ sum \in Sums /\ n \in Nat
  /\ sent \in Register(sum) /\ read \in Register(sum)
  /\ hits \in Seq([ at : Nat, bits : Byte ])
  /\ got \in Seq(Byte)

LEMMA HitTyped ==
  ASSUME hits \in Seq([ at : Nat, bits : Byte ]), NEW k \in Nat, NEW d \in Byte
  PROVE  /\ Hit(k, d) \in Seq([ at : Nat, bits : Byte ])
         /\ (IF Hit(k, d) = hits THEN {} ELSE Last(Hit(k, d)).bits) = d
<1>1. CASE d = {}
  BY <1>1 DEF Hit
<1>2. CASE d # {}
  <2> DEFINE h == [ at |-> k, bits |-> d ]
  <2>1. h \in [ at : Nat, bits : Byte ]
    OBVIOUS
  <2> HIDE DEF h
  <2>2. Hit(k, d) = Append(hits, h)
    BY <1>2 DEF Hit, h
  <2>3. /\ Append(hits, h) \in Seq([ at : Nat, bits : Byte ])
        /\ Len(Append(hits, h)) = Len(hits) + 1
        /\ Append(hits, h)[Len(hits) + 1] = h
        /\ Len(hits) \in Nat
    BY <2>1
  <2>4. Append(hits, h) # hits /\ Last(Append(hits, h)) = h
    BY <2>3 DEF Last
  <2>5. h.bits = d
    BY DEF h
  <2> QED
    BY <2>2, <2>3, <2>4, <2>5
<1> QED
  BY <1>1, <1>2

LEMMA RegistersStep == Registers /\ [Next]_vars => Registers'
<1> SUFFICES ASSUME Registers, [Next]_vars
             PROVE  Registers'
  OBVIOUS
<1>1. CASE UNCHANGED vars
  BY <1>1 DEF Registers, vars
<1>2. ASSUME NEW d \in Damage \cup {{}}, SendByte(d)
      PROVE  Registers'
  <2>1. d \in Byte
    BY DataAssumption DEF Byte
  <2>2. PICK b \in Data : /\ sent' = Step(sum, sent, b)
                          /\ read' = Step(sum, read, Xor(b, d))
    BY <1>2 DEF SendByte
  <2>3. b \in Byte /\ Xor(b, d) \in Byte
    BY <2>1, DataAssumption, XorSubset DEF Byte
  <2>4. sent' \in Register(sum) /\ read' \in Register(sum)
    BY <2>2, <2>3, StepTyped DEF Registers
  <2>5. hits' \in Seq([ at : Nat, bits : Byte ])
    BY <1>2, <2>1, HitTyped DEF SendByte, Registers
  <2> QED
    BY <1>2, <2>4, <2>5 DEF SendByte, Registers
<1>3. ASSUME NEW d \in Damage \cup {{}}, SendSum(d)
      PROVE  Registers'
  <2>1. d \in Byte
    BY DataAssumption DEF Byte
  <2>2. hits' \in Seq([ at : Nat, bits : Byte ])
    <3>1. n + Len(got) \in Nat
      BY DEF Registers
    <3> QED
      BY <1>3, <2>1, <3>1, HitTyped DEF SendSum, Registers
  <2>3. InBytes(sum, sent) \in Seq(Byte)
    <3>1. CASE sum = "crc8"
      BY <3>1 DEF InBytes, Registers, Register, Ones, Byte
    <3>2. CASE sum = "crc16"
      <4>1. Low(sent) \in Byte /\ High(sent) \in Byte
        BY <3>2, PartsTyped DEF Registers, Register, Ones
      <4> QED
        BY <3>2, <4>1 DEF InBytes
    <3> QED
      BY <3>1, <3>2 DEF Registers, Sums
  <2>4. InBytes(sum, sent)[Len(got) + 1] \in Byte
    <3>1. Len(got) + 1 \in 1 .. Len(InBytes(sum, sent))
      BY <1>3, <2>3 DEF SendSum, Registers
    <3> QED
      BY <2>3, <3>1
  <2>5. Xor(InBytes(sum, sent)[Len(got) + 1], d) \in Byte
    <3> DEFINE x == InBytes(sum, sent)[Len(got) + 1]
    <3>1. x \in Byte
      BY <2>4
    <3> HIDE DEF x
    <3>2. Xor(x, d) \in Byte
      BY <2>1, <3>1, XorSubset DEF Byte
    <3> QED
      BY <3>2 DEF x
  <2>6. got' \in Seq(Byte)
    BY <1>3, <2>5 DEF SendSum, Registers
  <2> QED
    BY <1>3, <2>2, <2>6 DEF SendSum, Registers
<1> QED
  BY <1>1, <1>2, <1>3 DEF Next

LEMMA RegistersAlways == Spec => []Registers
<1>1. Init => Registers
  BY DEF Init, Registers, Register
<1> QED
  BY <1>1, RegistersStep, PTL DEF Spec

LEMMA StepDecides ==
  ASSUME Registers, [Next]_vars
  PROVE  [n' # n =>
            LET d == IF hits' = hits THEN {} ELSE Last(hits').bits
            IN  /\ Xor(sent', read') = Step(sum, Xor(sent, read), d)
                /\ d = {} => (sent' = read' <=> sent = read)]_vars
<1> SUFFICES ASSUME n' # n
             PROVE  LET d == IF hits' = hits THEN {} ELSE Last(hits').bits
                    IN  /\ Xor(sent', read') = Step(sum, Xor(sent, read), d)
                        /\ d = {} => (sent' = read' <=> sent = read)
  OBVIOUS
<1>1. PICK d \in Damage \cup {{}} : SendByte(d)
  BY DEF Next, vars, SendSum
<1>2. d \in Byte
  BY DataAssumption DEF Byte
<1>3. PICK b \in Data : sent' = Step(sum, sent, b) /\ read' = Step(sum, read, Xor(b, d))
  BY <1>1 DEF SendByte
<1>4. b \in Byte /\ Xor(b, d) \in Byte
  BY <1>2, DataAssumption, XorSubset DEF Byte
<1>5. Xor(sent', read') = Step(sum, Xor(sent, read), Xor(b, Xor(b, d)))
  BY <1>3, <1>4, StepLinear DEF Registers
<1>6. Xor(sent', read') = Step(sum, Xor(sent, read), d)
  BY <1>5, XorOfDamaged
<1>7. d = {} => (sent' = read' <=> sent = read)
  <2>1. Xor(sent, read) \in Register(sum)
    BY XorSubset DEF Registers, Register
  <2>2. Step(sum, Xor(sent, read), {}) = {} <=> Xor(sent, read) = {}
    BY <2>1, UndamagedByteChangesNothing DEF Registers
  <2>3. /\ Xor(sent', read') = {} <=> sent' = read'
        /\ Xor(sent, read) = {} <=> sent = read
    BY XorSame
  <2> QED
    BY <1>6, <2>2, <2>3
<1>8. (IF hits' = hits THEN {} ELSE Last(hits').bits) = d
  BY <1>1, <1>2, HitTyped DEF SendByte, Registers
<1> QED
  BY <1>6, <1>7, <1>8

(* How far the registers are apart depends on the damage alone, and bytes   *)
(* that arrive as they were sent change nothing about it: for all data.    *)
THEOREM DamageAloneDecides == Spec => DamageDecides
<1> QED
  BY RegistersAlways, StepDecides, PTL DEF Spec, DamageDecides

(***************************************************************************)
(* One damaged byte.                                                       *)
(***************************************************************************)
LEMMA DamagedByteParts ==
  ASSUME NEW s \in Sums, NEW d \in Byte, d # {}
  PROVE  Step(s, {}, d) # {}
<1>1. CASE s = "crc8"
  BY <1>1, XorNothing, TablesFaithful DEF Step, Step8
<1>2. CASE s = "crc16"
  <2>1. Raise(Low({})) = {} /\ High({}) = {}
    BY DEF Raise, Low, High
  <2>2. Step(s, {}, d) = Table16[d]
    BY <1>2, <2>1, XorNothing DEF Step, Step16
  <2>3. Low({}) = {}
    BY DEF Low
  <2> QED
    BY <2>2, <2>3, TablesFaithful
<1> QED
  BY <1>1, <1>2 DEF Sums

(* The registers are together until a byte is damaged, and then, until a    *)
(* second one is, apart.                                                   *)
OneByteNoticed ==
  got = << >> => /\ hits = << >> => sent = read
                 /\ Len(hits) = 1 => sent # read

LEMMA OneByteStep == Registers /\ OneByteNoticed /\ [Next]_vars => OneByteNoticed'
<1> SUFFICES ASSUME Registers, OneByteNoticed, [Next]_vars
             PROVE  OneByteNoticed'
  OBVIOUS
<1>1. CASE UNCHANGED vars
  BY <1>1 DEF OneByteNoticed, vars
<1>2. ASSUME NEW d \in Damage \cup {{}}, SendByte(d)
      PROVE  OneByteNoticed'
  <2>1. d \in Byte /\ Xor(sent, read) \in Register(sum) /\ n \in Nat /\ got = << >>
    BY <1>2, DataAssumption, XorSubset DEF SendByte, Registers, Register, Byte
  <2>2. PICK b \in Data : sent' = Step(sum, sent, b) /\ read' = Step(sum, read, Xor(b, d))
    BY <1>2 DEF SendByte
  <2>3. b \in Byte /\ Xor(b, d) \in Byte
    BY <2>1, DataAssumption, XorSubset DEF Byte
  <2>4. Xor(sent', read') = Step(sum, Xor(sent, read), d)
    BY <2>2, <2>3, StepLinear, XorOfDamaged DEF Registers
  <2>5. /\ Xor(sent', read') = {} <=> sent' = read'
        /\ Xor(sent, read) = {} <=> sent = read
    BY XorSame
  <2>6. CASE d = {}
    <3>1. sent' = read' <=> sent = read
      BY <2>1, <2>4, <2>5, <2>6, UndamagedByteChangesNothing DEF Registers
    <3> QED
      BY <1>2, <2>1, <2>6, <3>1 DEF SendByte, Hit, OneByteNoticed
  <2>7. CASE d # {}
    <3>1. hits' = Append(hits, [ at |-> n, bits |-> d ])
      BY <1>2, <2>7 DEF SendByte, Hit
    <3>2. hits' # << >> /\ (Len(hits') = 1 => hits = << >>)
      <4> DEFINE h == [ at |-> n, bits |-> d ]
      <4>1. h \in [ at : Nat, bits : Byte ]
        BY <2>1
      <4> HIDE DEF h
      <4>2. Len(Append(hits, h)) = Len(hits) + 1 /\ Len(hits) \in Nat
        BY <4>1 DEF Registers
      <4>3. Len(hits) = 0 => hits = << >>
        BY DEF Registers
      <4> QED
        BY <3>1, <4>2, <4>3 DEF h
    <3>3. hits = << >> => sent' # read'
      BY <2>1, <2>4, <2>5, <2>7, DamagedByteParts DEF Registers, OneByteNoticed
    <3> QED
      BY <3>2, <3>3 DEF OneByteNoticed
  <2> QED
    BY <2>6, <2>7
<1>3. ASSUME NEW d \in Damage \cup {{}}, SendSum(d)
      PROVE  OneByteNoticed'
  <2>1. got' # << >>
    BY <1>3 DEF SendSum, Registers
  <2> QED
    BY <2>1 DEF OneByteNoticed
<1> QED
  BY <1>1, <1>2, <1>3 DEF Next

(* A single damaged byte of data is noticed by both checksums, whatever the *)
(* data, wherever the byte, however it was damaged.                        *)
THEOREM OneDamagedByteIsNoticed == Spec => []OneByteNoticed
<1>1. Init => OneByteNoticed
  BY DEF Init, OneByteNoticed
<1> QED
  BY <1>1, RegistersAlways, OneByteStep, PTL DEF Spec
-----------------------------------------------------------------------------
(***************************************************************************)
(* Bursts. First the bits: that a burst ends one byte behind its first one, *)
(* or two with egts_crc16, and what such damage does to the registers.     *)
(***************************************************************************)
LEMMA Extremes ==
  ASSUME NEW b \in Byte, b # {}
  PROVE  /\ Max(b) \in b /\ \A i \in b : Max(b) >= i
         /\ Min(b) \in b /\ \A i \in b : Min(b) <= i
         /\ Max(b) \in 0 .. 7 /\ Min(b) \in 0 .. 7
<1>1. b \subseteq 0 .. 7
  BY DEF Byte
<1>2. \E x \in b : \A y \in b : x >= y
  <2> SUFFICES ASSUME \A x \in b : \E y \in b : ~(x >= y)
               PROVE  b = {}
    OBVIOUS
  <2>1. 7 \notin b
    BY <1>1
  <2>2. 6 \notin b
    BY <1>1, <2>1
  <2>3. 5 \notin b
    BY <1>1, <2>1, <2>2
  <2>4. 4 \notin b
    BY <1>1, <2>1, <2>2, <2>3
  <2>5. 3 \notin b
    BY <1>1, <2>1, <2>2, <2>3, <2>4
  <2>6. 2 \notin b
    BY <1>1, <2>1, <2>2, <2>3, <2>4, <2>5
  <2>7. 1 \notin b
    BY <1>1, <2>1, <2>2, <2>3, <2>4, <2>5, <2>6
  <2>8. 0 \notin b
    BY <1>1, <2>1, <2>2, <2>3, <2>4, <2>5, <2>6, <2>7
  <2> QED
    BY <1>1, <2>1, <2>2, <2>3, <2>4, <2>5, <2>6, <2>7, <2>8
<1>3. \E x \in b : \A y \in b : x =< y
  <2> SUFFICES ASSUME \A x \in b : \E y \in b : ~(x =< y)
               PROVE  b = {}
    OBVIOUS
  <2>1. 0 \notin b
    BY <1>1
  <2>2. 1 \notin b
    BY <1>1, <2>1
  <2>3. 2 \notin b
    BY <1>1, <2>1, <2>2
  <2>4. 3 \notin b
    BY <1>1, <2>1, <2>2, <2>3
  <2>5. 4 \notin b
    BY <1>1, <2>1, <2>2, <2>3, <2>4
  <2>6. 5 \notin b
    BY <1>1, <2>1, <2>2, <2>3, <2>4, <2>5
  <2>7. 6 \notin b
    BY <1>1, <2>1, <2>2, <2>3, <2>4, <2>5, <2>6
  <2>8. 7 \notin b
    BY <1>1, <2>1, <2>2, <2>3, <2>4, <2>5, <2>6, <2>7
  <2> QED
    BY <1>1, <2>1, <2>2, <2>3, <2>4, <2>5, <2>6, <2>7, <2>8
<1>4. Max(b) \in b /\ \A i \in b : Max(b) >= i
  BY <1>2 DEF Max
<1>5. Min(b) \in b /\ \A i \in b : Min(b) =< i
  BY <1>3 DEF Min
<1> QED
  BY <1>1, <1>4, <1>5

LEMMA OneBit ==
  ASSUME NEW b \in Byte, Single(b)
  PROVE  \E i \in 0 .. 7 : b = {i}
<1>1. IsFiniteSet(0 .. 7)
  <2>1. 0 \in Int /\ 7 \in Int
    OBVIOUS
  <2> QED
    BY <2>1, FS_Interval, Zenon
<1>2. IsFiniteSet(b)
  BY <1>1, FS_Subset, Zenon DEF Byte
<1>3. PICK i : b = {i}
  BY <1>2, FS_Singleton DEF Single
<1> QED
  BY <1>3 DEF Byte

LEMMA Widths == Cardinality(Ones("crc8")) = 8 /\ Cardinality(Ones("crc16")) = 16
<1>1. Ones("crc8") = 0 .. 7 /\ Ones("crc16") = 0 .. 15
  BY DEF Ones
<1>2. /\ Cardinality(0 .. 7) = IF 0 > 7 THEN 0 ELSE 7 - 0 + 1
      /\ Cardinality(0 .. 15) = IF 0 > 15 THEN 0 ELSE 15 - 0 + 1
  <2>1. 0 \in Int /\ 7 \in Int /\ 15 \in Int
    OBVIOUS
  <2> QED
    BY <2>1, FS_Interval, Zenon
<1> QED
  BY <1>1, <1>2

LEMMA BurstIsShort ==
  ASSUME NEW s \in Sums, NEW k \in Nat, NEW d \in Byte \ {{}}, NEW m \in Nat, NEW e \in Byte \ {{}},
         k < m, (8 * m + 7 - Min(e)) - (8 * k + 7 - Max(d)) < Cardinality(Ones(s))
  PROVE  /\ s = "crc8" => m = k + 1 /\ Max(d) < Min(e)
         /\ s = "crc16" => m \in {k + 1, k + 2}
<1>1. Min(e) \in 0 .. 7 /\ Max(d) \in 0 .. 7
  BY Extremes
<1>2. PICK x, y : x = Max(d) /\ y = Min(e)
  OBVIOUS
<1>3. x \in 0 .. 7 /\ y \in 0 .. 7
  BY <1>1, <1>2
<1>4. CASE s = "crc8"
  <2>1. (8 * m + 7 - y) - (8 * k + 7 - x) < 8
    BY <1>2, <1>4, Widths
  <2> QED
    BY <1>2, <1>3, <1>4, <2>1
<1>5. CASE s = "crc16"
  <2>1. (8 * m + 7 - y) - (8 * k + 7 - x) < 16
    BY <1>2, <1>5, Widths
  <2> QED
    BY <1>3, <1>5, <2>1
<1> QED
  BY <1>4, <1>5 DEF Sums

(* A byte that begins lower than another does not become it. *)
LEMMA Entry8Differs ==
  ASSUME NEW d \in Byte \ {{}}, NEW e \in Byte \ {{}}, Max(d) < Min(e)
  PROVE  Table8[d] # e
<1>1. PICK i \in d, j \in Table8[d] : i >= j
  BY TablesSpread
<1>2. Max(d) >= i /\ Max(d) \in 0 .. 7 /\ Min(e) \in 0 .. 7 /\ i \in 0 .. 7
  BY Extremes DEF Byte
<1>3. j \in e => Min(e) <= j /\ j \in 0 .. 7
  BY Extremes DEF Byte
<1> QED
  BY <1>1, <1>2, <1>3

(* What the registers are apart behind one damaged byte. *)
LEMMA FirstStep ==
  ASSUME NEW d \in Byte
  PROVE  /\ Step("crc8", {}, d) = Table8[d]
         /\ Step("crc16", {}, d) = Table16[d]
<1>1. Raise(Low({})) = {} /\ High({}) = {}
  BY DEF Raise, Low, High
<1> QED
  BY <1>1, XorNothing DEF Step, Step8, Step16

LEMMA EntryOfNothing == Table8[{}] = {} /\ Table16[{}] = {}
<1>1. {} \in Byte /\ Xor({}, {}) = {}
  BY XorNothing DEF Byte
<1>2. /\ Table8[Xor({}, {})] = Xor(Table8[{}], Table8[{}])
      /\ Table16[Xor({}, {})] = Xor(Table16[{}], Table16[{}])
  BY <1>1, TablesLinear
<1> QED
  BY <1>1, <1>2, XorSame

(* The registers come together only if what is fed in is what they are      *)
(* apart in their first byte, and they are no further apart.               *)
LEMMA ComeTogether ==
  ASSUME NEW d \in Byte
  PROVE  /\ \A x \in Byte : Step("crc8", x, d) = {} => x = d
         /\ \A x \in SUBSET (0 .. 15) : Step("crc16", x, d) = {} => Low(x) = {} /\ High(x) = d
<1>1. ASSUME NEW x \in Byte, Step("crc8", x, d) = {}
      PROVE  x = d
  <2>1. Xor(x, d) \in Byte
    BY XorSubset DEF Byte
  <2>2. Table8[Xor(x, d)] = {}
    BY <1>1 DEF Step, Step8
  <2> QED
    BY <2>1, <2>2, TablesFaithful, XorSame
<1>2. ASSUME NEW x \in SUBSET (0 .. 15), Step("crc16", x, d) = {}
      PROVE  Low(x) = {} /\ High(x) = d
  <2>1. Low(x) \in Byte /\ High(x) \in Byte
    BY PartsTyped
  <2>2. Xor(High(x), d) \in Byte
    BY <2>1, XorSubset DEF Byte
  <2>3. Raise(Low(x)) = Table16[Xor(High(x), d)]
    BY <1>2, XorSame DEF Step, Step16
  <2>4. Low(Raise(Low(x))) = {}
    BY <2>1 DEF Low, Raise, Byte
  <2>5. Xor(High(x), d) = {}
    BY <2>2, <2>3, <2>4, TablesFaithful
  <2>6. Raise(Low(x)) = {}
    BY <2>3, <2>5, EntryOfNothing
  <2>7. Low(x) = {}
    BY <2>6 DEF Raise
  <2> QED
    BY <2>5, <2>7, XorSame
<1> QED
  BY <1>1, <1>2

(* Two bytes of 16 bits, of which one is empty. *)
LEMMA BytesOfRegister ==
  ASSUME NEW x \in SUBSET (0 .. 15)
  PROVE  /\ \A e \in Byte : (Low(x) = e /\ High(x) = {}) <=> x = e
         /\ Low(x) = {} => x = Raise(High(x))
<1>1. \A j : j \in High(x) <=> j \in 0 .. 7 /\ j + 8 \in x
  BY DEF High
<1>2. High(x) = {} <=> x \subseteq 0 .. 7
  <2>1. ASSUME High(x) = {}, NEW j \in x
        PROVE  j \in 0 .. 7
    <3>1. j \in 0 .. 15
      OBVIOUS
    <3>2. CASE j \in 8 .. 15
      <4>1. j - 8 \in 0 .. 7 /\ (j - 8) + 8 = j
        BY <3>2
      <4> QED
        BY <1>1, <2>1, <4>1
    <3> QED
      BY <3>1, <3>2
  <2>2. ASSUME x \subseteq 0 .. 7, NEW j \in High(x)
        PROVE  FALSE
    BY <1>1, <2>2
  <2> QED
    BY <2>1, <2>2
<1>3. ASSUME NEW e \in Byte
      PROVE  (Low(x) = e /\ High(x) = {}) <=> x = e
  BY <1>2 DEF Low, Byte
<1>4. ASSUME Low(x) = {}
      PROVE  x = Raise(High(x))
  <2>1. \A j \in x : j \in 8 .. 15
    BY <1>4 DEF Low
  <2>2. ASSUME NEW j \in x
        PROVE  j \in Raise(High(x))
    <3>1. j - 8 \in 0 .. 7 /\ (j - 8) + 8 = j
      BY <2>1
    <3>2. j - 8 \in High(x)
      BY <1>1, <3>1
    <3> QED
      BY <3>1, <3>2 DEF Raise
  <2>3. ASSUME NEW j \in Raise(High(x))
        PROVE  j \in x
    BY <1>1, <2>3 DEF Raise
  <2> QED
    BY <2>2, <2>3
<1> QED
  BY <1>3, <1>4

(* Nor does a single bit, two bytes on. *)
LEMMA BitSpreads ==
  ASSUME NEW i \in 0 .. 7, NEW j \in 0 .. 7
  PROVE  LET x == Step("crc16", Step("crc16", {}, {i}), {})
         IN  /\ ~(Low(x) = {} /\ High(x) = {j})
             /\ ~(Low(x) = {j} /\ High(x) = {})
<1> DEFINE x == Step("crc16", Step("crc16", {}, {i}), {})
<1>1. {i} \in Byte /\ {j} \in Byte /\ {} \in Byte
  BY DEF Byte
<1>2. x = Step16(Table16[{i}], {})
  BY <1>1, FirstStep DEF Step
<1>3. x \in SUBSET (0 .. 15)
  <2>1. Step("crc16", {}, {i}) \in Register("crc16")
    BY <1>1, FirstStep, TablesTyped DEF Register, Ones
  <2>2. Step("crc16", Step("crc16", {}, {i}), {}) \in Register("crc16")
    BY <1>1, <2>1, StepTyped DEF Sums
  <2> QED
    BY <2>2 DEF Register, Ones
<1>4. j \in 0 .. 15 /\ j + 8 \in 0 .. 15
  OBVIOUS
<1>5. x # {j} /\ x # {j + 8}
  BY <1>2, <1>4, TablesSpread
<1>6. Raise({j}) = {j + 8}
  BY DEF Raise
<1> HIDE DEF x
<1>7. /\ ~(Low(x) = {} /\ High(x) = {j})
      /\ ~(Low(x) = {j} /\ High(x) = {})
  BY <1>1, <1>3, <1>5, <1>6, BytesOfRegister
<1> QED
  BY <1>7 DEF x

(***************************************************************************)
(* Then the damage. The damaged bytes come in order, and the two are        *)
(* neighbours or single bits.                                              *)
(***************************************************************************)
IsHit(h) == h.at \in Nat /\ h.bits \in Byte \ {{}}

Neighbours(g, h) ==
  \/ h.at = g.at + 1
  \/ g.at < h.at /\ \E i, j \in 0 .. 7 : g.bits = {i} /\ h.bits = {j}

(* What is damaged in byte k. *)
DamageAt(k) ==
  IF hits # << >> /\ hits[1].at = k THEN hits[1].bits
  ELSE IF Len(hits) = 2 /\ hits[2].at = k THEN hits[2].bits ELSE {}

HitsInv ==
  /\ Len(hits) \in 0 .. 2
  /\ hits # << >> => IsHit(hits[1]) /\ hits[1].at < n + Len(got)
  /\ Len(hits) = 2 => /\ IsHit(hits[2]) /\ hits[2].at < n + Len(got)
                      /\ Neighbours(hits[1], hits[2])

Apart == Xor(sent, read)

(* How far the registers are apart, by the bytes of data that are damaged.  *)
ApartInv ==
  /\ hits = << >> \/ hits[1].at >= n => Apart = {}
  /\ /\ hits # << >> /\ hits[1].at < n
     /\ Len(hits) = 2 => hits[2].at >= n
     => /\ Apart # {}
        /\ n = hits[1].at + 1 => Apart = Step(sum, {}, hits[1].bits)
        /\ n = hits[1].at + 2 => Apart = Step(sum, Step(sum, {}, hits[1].bits), {})
  /\ Len(hits) = 2 /\ hits[2].at < n /\ Burst => Apart # {}

(* The checksum arrives as it was sent but for its damage. *)
GotInv ==
  /\ Len(got) <= Len(InBytes(sum, sent))
  /\ \A i \in DOMAIN got : got[i] = Xor(InBytes(sum, sent)[i], DamageAt(n + i - 1))

BurstInv == Registers /\ HitsInv /\ ApartInv /\ GotInv

(* A message is accepted if the checksum is damaged by as much as the        *)
(* registers are apart.                                                    *)
LEMMA XorSolved ==
  ASSUME NEW a, NEW b, NEW d
  PROVE  Xor(a, d) = b <=> Xor(a, b) = d
BY DEF Xor

LEMMA AcceptedIf ==
  ASSUME BurstInv, Over
  PROVE  /\ sum = "crc8" => (Accepted <=> DamageAt(n) = Apart)
         /\ sum = "crc16" => (Accepted <=> /\ DamageAt(n) = Low(Apart)
                                           /\ DamageAt(n + 1) = High(Apart))
<1>1. n \in Nat /\ n + 1 - 1 = n /\ n + 2 - 1 = n + 1
  BY DEF BurstInv, Registers
<1>2. got \in Seq(Byte)
  BY DEF BurstInv, Registers
<1>3. CASE sum = "crc8"
  <2>1. Len(got) = 1 /\ InBytes(sum, sent)[1] = sent /\ InBytes(sum, read) = << read >>
    BY <1>3 DEF Over, InBytes
  <2>2. got[1] = Xor(sent, DamageAt(n))
    BY <1>1, <1>2, <2>1 DEF BurstInv, GotInv
  <2>3. Accepted <=> got[1] = read
    BY <1>2, <2>1 DEF Accepted
  <2>4. Accepted <=> Apart = DamageAt(n)
    BY <2>2, <2>3, XorSolved DEF Apart
  <2> QED
    BY <1>3, <2>4
<1>4. CASE sum = "crc16"
  <2>1. /\ Len(got) = 2 /\ InBytes(sum, sent)[1] = Low(sent) /\ InBytes(sum, sent)[2] = High(sent)
        /\ InBytes(sum, read) = << Low(read), High(read) >>
    BY <1>4 DEF Over, InBytes
  <2>2. 1 \in DOMAIN got /\ 2 \in DOMAIN got
    BY <1>2, <2>1
  <2>3. got[1] = Xor(Low(sent), DamageAt(n)) /\ got[2] = Xor(High(sent), DamageAt(n + 1))
    BY <1>1, <2>1, <2>2 DEF BurstInv, GotInv
  <2>4. Accepted <=> got[1] = Low(read) /\ got[2] = High(read)
    BY <1>2, <2>1 DEF Accepted
  <2>5. sent \in SUBSET (0 .. 15) /\ read \in SUBSET (0 .. 15)
    BY <1>4 DEF BurstInv, Registers, Register, Ones
  <2>6. Low(Apart) = Xor(Low(sent), Low(read)) /\ High(Apart) = Xor(High(sent), High(read))
    BY <2>5, PartsLinear DEF Apart
  <2>7. Accepted <=> Low(Apart) = DamageAt(n) /\ High(Apart) = DamageAt(n + 1)
    BY <2>3, <2>4, <2>6, XorSolved
  <2> QED
    BY <1>4, <2>7
<1> QED
  BY <1>3, <1>4 DEF BurstInv, Registers, Sums

(* Two damaged bytes that are a burst. *)
LEMMA BurstOfTwo ==
  ASSUME NEW s \in Sums, NEW g, NEW h, IsHit(g), IsHit(h), Neighbours(g, h),
         (8 * h.at + 7 - Min(h.bits)) - (8 * g.at + 7 - Max(g.bits)) < Cardinality(Ones(s))
  PROVE  /\ s = "crc8" => h.at = g.at + 1 /\ Table8[g.bits] # h.bits
         /\ s = "crc16" => h.at \in {g.at + 1, g.at + 2}
<1>1. g.at < h.at
  BY DEF Neighbours, IsHit
<1>2. /\ s = "crc8" => h.at = g.at + 1 /\ Max(g.bits) < Min(h.bits)
      /\ s = "crc16" => h.at \in {g.at + 1, g.at + 2}
  BY <1>1, BurstIsShort DEF IsHit
<1>3. Max(g.bits) < Min(h.bits) => Table8[g.bits] # h.bits
  BY Entry8Differs DEF IsHit
<1> QED
  BY <1>2, <1>3

LEMMA InvIsBurstNoticed == BurstInv => BurstNoticed
<1> SUFFICES ASSUME BurstInv, Over, hits # << >>, Burst
             PROVE  Accepted <=> /\ sum = "crc16" /\ Len(hits) = 2 /\ hits[2].at = n
                                 /\ Table16[hits[1].bits] = hits[2].bits
  BY DEF BurstNoticed
<1>1. /\ n \in Nat /\ sum \in Sums /\ HitsInv /\ ApartInv /\ hits \in Seq([ at : Nat, bits : Byte ])
  BY DEF BurstInv, Registers
<1>2. Len(hits) \in {1, 2} /\ IsHit(hits[1])
  BY <1>1 DEF HitsInv
<1>3. Apart \in Register(sum)
  BY <1>1, XorSubset DEF Apart, BurstInv, Registers, Register
<1>4. CASE Len(hits) = 1
  <2>1. CASE hits[1].at >= n
    <3>1. Apart = {}
      BY <1>1, <2>1 DEF ApartInv
    <3>2. hits[1].at = n \/ (sum = "crc16" /\ hits[1].at = n + 1)
      <4>1. (sum = "crc8" => Len(got) = 1) /\ (sum = "crc16" => Len(got) = 2)
        BY DEF Over, InBytes
      <4>2. PICK a : a = hits[1].at
        OBVIOUS
      <4>3. a \in Nat /\ a < n + Len(got) /\ a >= n
        BY <1>1, <1>2, <2>1, <4>2 DEF HitsInv, IsHit
      <4>4. a = n \/ (sum = "crc16" /\ a = n + 1)
        <5>1. CASE sum = "crc8"
          <6>1. a < n + 1
            BY <4>1, <4>3, <5>1
          <6> QED
            BY <1>1, <4>3, <6>1
        <5>2. CASE sum = "crc16"
          <6>1. a < n + 2
            BY <4>1, <4>3, <5>2
          <6> QED
            BY <1>1, <4>3, <5>2, <6>1
        <5> QED
          BY <1>1, <5>1, <5>2 DEF Sums
      <4> QED
        BY <4>2, <4>4
    <3>3. Low({}) = {} /\ High({}) = {}
      BY DEF Low, High
    <3>4. DamageAt(hits[1].at) # {}
      BY <1>2 DEF DamageAt, IsHit
    <3> QED
      BY <1>1, <1>4, <3>1, <3>2, <3>3, <3>4, AcceptedIf DEF Sums
  <2>2. CASE hits[1].at < n
    <3>1. Apart # {}
      BY <1>1, <1>4, <2>2 DEF ApartInv
    <3>2. DamageAt(n) = {} /\ DamageAt(n + 1) = {}
      BY <1>1, <1>2, <1>4, <2>2 DEF DamageAt, IsHit
    <3>3. sum = "crc16" => ~(Low(Apart) = {} /\ High(Apart) = {})
      BY <1>3, <3>1, BytesOfRegister DEF Register, Ones, Raise
    <3> QED
      BY <1>1, <1>4, <3>1, <3>2, <3>3, AcceptedIf DEF Sums
  <2> QED
    BY <1>1, <1>2, <2>1, <2>2 DEF IsHit
<1>5. CASE Len(hits) = 2
  <2>1. /\ IsHit(hits[2]) /\ hits[2].at < n + Len(got) /\ hits[1].at < hits[2].at
        /\ Neighbours(hits[1], hits[2])
    <3>1. IsHit(hits[2]) /\ hits[2].at < n + Len(got) /\ Neighbours(hits[1], hits[2])
      BY <1>1, <1>5 DEF HitsInv
    <3>2. hits[1].at < hits[2].at
      BY <1>2, <3>1 DEF Neighbours, IsHit
    <3> QED
      BY <3>1, <3>2
  <2>2. PICK a, b, d, e : a = hits[1].at /\ b = hits[2].at /\ d = hits[1].bits /\ e = hits[2].bits
    OBVIOUS
  <2>3. a \in Nat /\ b \in Nat /\ d \in Byte \ {{}} /\ e \in Byte \ {{}} /\ a < b
    BY <1>2, <2>1, <2>2 DEF IsHit
  <2>4. \A k : DamageAt(k) = IF k = a THEN d ELSE IF k = b THEN e ELSE {}
    BY <1>5, <2>2 DEF DamageAt
  <2>5. /\ sum = "crc8" => b = a + 1 /\ Table8[d] # e
        /\ sum = "crc16" => b \in {a + 1, a + 2}
    <3>1. Last(hits) = hits[2]
      BY <1>5 DEF Last
    <3>2. (8 * b + 7 - Min(e)) - (8 * a + 7 - Max(d)) < Cardinality(Ones(sum))
      BY <2>2, <3>1 DEF Burst
    <3> QED
      BY <1>1, <1>2, <2>1, <2>2, <3>2, BurstOfTwo
  <2>6. CASE b < n
    <3>1. Apart # {}
      BY <1>1, <1>5, <2>2, <2>6 DEF ApartInv
    <3>2. DamageAt(n) = {} /\ DamageAt(n + 1) = {}
      BY <1>1, <2>3, <2>4, <2>6
    <3>3. sum = "crc16" => ~(Low(Apart) = {} /\ High(Apart) = {})
      BY <1>3, <3>1, BytesOfRegister DEF Register, Ones, Raise
    <3> QED
      BY <1>1, <2>2, <2>3, <2>6, <3>1, <3>2, <3>3, AcceptedIf DEF Sums
  <2>7. CASE a >= n
    <3>1. Apart = {}
      BY <1>1, <2>2, <2>7 DEF ApartInv
    <3>2. a = n /\ b = n + 1 /\ sum = "crc16"
      BY <1>1, <2>1, <2>2, <2>3, <2>7 DEF Over, InBytes, Sums
    <3>3. Low({}) = {}
      BY DEF Low
    <3>4. ~Accepted
      BY <2>3, <2>4, <3>1, <3>2, <3>3, AcceptedIf
    <3> QED
      BY <1>1, <2>2, <3>2, <3>4
  <2>8. CASE a < n /\ b >= n
    <3>1. /\ n = a + 1 => Apart = Step(sum, {}, d)
          /\ n = a + 2 => Apart = Step(sum, Step(sum, {}, d), {})
      BY <1>1, <1>5, <2>2, <2>8 DEF ApartInv
    <3>2. CASE sum = "crc8"
      <4>1. b = a + 1 /\ Table8[d] # e
        BY <2>5, <3>2
      <4>2. n = a + 1 /\ b = n
        BY <1>1, <2>3, <2>8, <4>1
      <4>3. Apart = Table8[d] /\ DamageAt(n) = e
        BY <2>3, <2>4, <3>1, <3>2, <4>2, FirstStep
      <4> QED
        BY <3>2, <4>1, <4>3, AcceptedIf
    <3>3. CASE sum = "crc16"
      <4>1. b = a + 1 \/ b = a + 2
        BY <2>5, <3>3
      <4>2. b = n \/ b = n + 1
        BY <1>1, <2>1, <2>2, <2>3, <2>8, <3>3 DEF Over, InBytes
      <4>3. Accepted <=> DamageAt(n) = Low(Apart) /\ DamageAt(n + 1) = High(Apart)
        BY <3>3, AcceptedIf
      <4>4. Table16[d] \in SUBSET (0 .. 15)
        BY <2>3, TablesTyped
      <4>5. CASE n = a + 1 /\ b = n
        <5>1. Apart = Table16[d]
          BY <2>3, <3>1, <3>3, <4>5, FirstStep
        <5>2. DamageAt(n) = e /\ DamageAt(n + 1) = {}
          BY <1>1, <2>3, <2>4, <4>5
        <5>3. Low(Table16[d]) = e /\ High(Table16[d]) = {} <=> Table16[d] = e
          BY <2>3, <4>4, BytesOfRegister
        <5> QED
          BY <1>5, <2>2, <3>3, <4>3, <4>5, <5>1, <5>2, <5>3
      <4>6. CASE n = a + 1 /\ b = n + 1
        <5>1. Apart = Table16[d]
          BY <2>3, <3>1, <3>3, <4>6, FirstStep
        <5>2. DamageAt(n) = {}
          BY <1>1, <2>3, <2>4, <4>6
        <5>3. Low(Table16[d]) # {}
          BY <2>3, TablesFaithful
        <5> QED
          BY <1>1, <2>2, <4>3, <4>6, <5>1, <5>2, <5>3
      <4>7. CASE n = a + 2 /\ b = n
        <5>1. PICK i, j \in 0 .. 7 : d = {i} /\ e = {j}
          <6>1. hits[2].at # hits[1].at + 1
            BY <2>2, <2>3, <4>7
          <6> QED
            BY <2>1, <2>2, <6>1, Zenon DEF Neighbours
        <5>2. Apart = Step("crc16", Step("crc16", {}, {i}), {})
          BY <3>1, <3>3, <4>7, <5>1
        <5>3. ~(Low(Apart) = {j} /\ High(Apart) = {})
          BY <5>2, BitSpreads
        <5>4. DamageAt(n) = {j} /\ DamageAt(n + 1) = {}
          BY <1>1, <2>3, <2>4, <4>7, <5>1
        <5>5. Table16[d] # e
          <6>1. j \in 0 .. 15
            OBVIOUS
          <6> QED
            BY <5>1, <6>1, TablesSpread
        <5> QED
          BY <2>2, <4>3, <5>3, <5>4, <5>5
      <4> QED
        BY <1>1, <2>3, <2>8, <4>1, <4>2, <4>5, <4>6, <4>7
    <3> QED
      BY <1>1, <3>2, <3>3 DEF Sums
  <2> QED
    BY <1>1, <2>3, <2>6, <2>7, <2>8
<1> QED
  BY <1>2, <1>4, <1>5

(* A step of the sender makes Hit of the damage, and the damage is of the    *)
(* kinds that HitsInv names.                                               *)
LEMMA HitMakes ==
  ASSUME Registers, HitsInv, NEW k \in Nat, NEW d \in Byte, d # {} => MayHit(k, d),
         k = n + Len(got), hits' = Hit(k, d)
  PROVE  /\ d = {} => hits' = hits
         /\ d # {} /\ hits = << >> => Len(hits') = 1 /\ hits'[1] = [ at |-> k, bits |-> d ]
         /\ d # {} /\ hits # << >> =>
              /\ Len(hits) = 1 /\ Len(hits') = 2
              /\ hits'[1] = hits[1] /\ hits'[2] = [ at |-> k, bits |-> d ]
              /\ Neighbours(hits[1], [ at |-> k, bits |-> d ])
<1>1. PICK h : h = [ at |-> k, bits |-> d ]
  OBVIOUS
<1>2. h \in [ at : Nat, bits : Byte ] /\ hits \in Seq([ at : Nat, bits : Byte ])
  BY <1>1 DEF Registers
<1>3. /\ Len(Append(hits, h)) = Len(hits) + 1 /\ Append(hits, h)[Len(hits) + 1] = h
      /\ hits # << >> => Append(hits, h)[1] = hits[1]
  BY <1>2
<1>4. d # {} => hits' = Append(hits, h)
  BY <1>1 DEF Hit
<1>5. d # {} /\ hits # << >> => Len(hits) = 1 /\ Neighbours(hits[1], h)
  <2> SUFFICES ASSUME d # {}, hits # << >>
               PROVE  Len(hits) = 1 /\ Neighbours(hits[1], h)
    OBVIOUS
  <2>1. Len(hits) = 1 /\ (k = hits[1].at + 1 \/ (Single(d) /\ Far))
    BY DEF MayHit
  <2>2. IsHit(hits[1]) /\ hits[1].at < k
    BY DEF HitsInv
  <2>3. h.at = k /\ h.bits = d
    BY <1>1
  <2>4. ASSUME Single(d), Far
        PROVE  \E i, j \in 0 .. 7 : hits[1].bits = {i} /\ h.bits = {j}
    <3>1. PICK j \in 0 .. 7 : d = {j}
      BY <2>4, OneBit
    <3>2. PICK i : hits[1].bits = {i}
      BY <2>4 DEF Far
    <3>3. i \in 0 .. 7
      BY <2>2, <3>2 DEF IsHit, Byte
    <3> QED
      BY <2>3, <3>1, <3>2, <3>3
  <2> QED
    BY <2>1, <2>2, <2>3, <2>4 DEF Neighbours
<1>6. d = {} => hits' = hits
  BY DEF Hit
<1>7. /\ hits = << >> => Len(Append(hits, h)) = 1 /\ Append(hits, h)[1] = h
      /\ hits # << >> /\ Len(hits) = 1 =>
           /\ Len(Append(hits, h)) = 2 /\ Append(hits, h)[1] = hits[1] /\ Append(hits, h)[2] = h
  <2>1. hits = << >> => Len(hits) = 0
    OBVIOUS
  <2>2. PICK t, l : t = Append(hits, h) /\ l = Len(hits)
    OBVIOUS
  <2>3. Len(t) = l + 1 /\ t[l + 1] = h /\ (hits # << >> => t[1] = hits[1])
    BY <1>3, <2>2
  <2>4. /\ l = 0 => Len(t) = 1 /\ t[1] = h
        /\ l = 1 => Len(t) = 2 /\ t[2] = h
    BY <2>3
  <2> QED
    BY <2>1, <2>2, <2>3, <2>4, Zenon
<1> QED
  BY <1>1, <1>4, <1>5, <1>6, <1>7, Zenon

LEMMA HitsStep ==
  ASSUME Registers, HitsInv, NEW k \in Nat, NEW d \in Byte, d # {} => MayHit(k, d),
         k = n + Len(got), hits' = Hit(k, d), n' + Len(got') = k + 1
  PROVE  HitsInv'
<1>1. /\ d = {} => hits' = hits
      /\ d # {} /\ hits = << >> => Len(hits') = 1 /\ hits'[1] = [ at |-> k, bits |-> d ]
      /\ d # {} /\ hits # << >> =>
           /\ Len(hits) = 1 /\ Len(hits') = 2
           /\ hits'[1] = hits[1] /\ hits'[2] = [ at |-> k, bits |-> d ]
           /\ Neighbours(hits[1], [ at |-> k, bits |-> d ])
  BY HitMakes
<1>2. PICK h : h = [ at |-> k, bits |-> d ]
  OBVIOUS
<1>3. h.at = k /\ h.bits = d /\ (d # {} => IsHit(h))
  BY <1>2 DEF IsHit
<1>4. CASE d = {}
  BY <1>1, <1>4 DEF HitsInv, IsHit
<1>5. CASE d # {} /\ hits = << >>
  BY <1>1, <1>2, <1>3, <1>5 DEF HitsInv
<1>6. CASE d # {} /\ hits # << >>
  BY <1>1, <1>2, <1>3, <1>6 DEF HitsInv, IsHit
<1> QED
  BY <1>4, <1>5, <1>6

(* A byte of data brings the registers together only behind a damage that    *)
(* is no burst.                                                            *)
LEMMA ApartStep ==
  ASSUME BurstInv, NEW d \in Damage \cup {{}}, SendByte(d)
  PROVE  ApartInv'
<1>1. /\ d \in Byte /\ n \in Nat /\ got = << >> /\ sum \in Sums /\ n' = n + 1
      /\ sum' = sum /\ got' = got /\ Len(hits) < 2 /\ hits' = Hit(n, d)
  BY DataAssumption DEF SendByte, BurstInv, Registers, Byte
<1>2. n + Len(got) = n /\ (d # {} => MayHit(n, d))
  BY <1>1 DEF SendByte
<1>3. /\ d = {} => hits' = hits
      /\ d # {} /\ hits = << >> => Len(hits') = 1 /\ hits'[1] = [ at |-> n, bits |-> d ]
      /\ d # {} /\ hits # << >> =>
           /\ Len(hits) = 1 /\ Len(hits') = 2
           /\ hits'[1] = hits[1] /\ hits'[2] = [ at |-> n, bits |-> d ]
           /\ Neighbours(hits[1], [ at |-> n, bits |-> d ])
  BY <1>1, <1>2, HitMakes DEF BurstInv
<1>4. Apart \in Register(sum)
  BY XorSubset DEF Apart, BurstInv, Registers, Register
<1>5. Apart' = Step(sum, Apart, d)
  <2>1. PICK b \in Data : sent' = Step(sum, sent, b) /\ read' = Step(sum, read, Xor(b, d))
    BY DEF SendByte
  <2>2. b \in Byte /\ Xor(b, d) \in Byte
    BY <1>1, DataAssumption, XorSubset DEF Byte
  <2> QED
    BY <2>1, <2>2, StepLinear, XorOfDamaged DEF BurstInv, Registers, Apart
<1>6. Step(sum, {}, {}) = {} /\ (Apart # {} => Step(sum, Apart, {}) # {})
  <2>1. {} \in Register(sum)
    BY DEF Register
  <2> QED
    BY <1>1, <1>4, <2>1, UndamagedByteChangesNothing
<1>7. /\ hits # << >> => IsHit(hits[1]) /\ hits[1].at < n /\ Len(hits) = 1
      /\ hits = << >> => Len(hits) = 0
  BY <1>1, <1>2 DEF BurstInv, HitsInv
<1>8. CASE d = {} /\ hits = << >>
  <2>1. Apart' = {}
    BY <1>5, <1>6, <1>8 DEF BurstInv, ApartInv
  <2> QED
    BY <1>3, <1>8, <2>1 DEF ApartInv
<1>9. CASE d = {} /\ hits # << >>
  <2>1. /\ Apart # {}
        /\ n = hits[1].at + 1 => Apart = Step(sum, {}, hits[1].bits)
    BY <1>7, <1>9 DEF BurstInv, ApartInv
  <2>2. hits[1].at \in Nat
    BY <1>7, <1>9 DEF IsHit
  <2>3. n + 1 # hits[1].at + 1
    BY <1>1, <1>7, <1>9, <2>2
  <2>4. n + 1 = hits[1].at + 2 => n = hits[1].at + 1
    BY <1>1, <2>2
  <2>5. ~(hits[1].at >= n + 1)
    BY <1>1, <1>7, <1>9, <2>2
  <2>6. /\ hits' = hits /\ Len(hits) = 1 /\ n' = n + 1 /\ sum' = sum
        /\ Apart' = Step(sum, Apart, {}) /\ Apart' # {}
    BY <1>1, <1>3, <1>5, <1>6, <1>7, <1>9, <2>1
  <2> QED
    BY <1>9, <2>1, <2>3, <2>4, <2>5, <2>6 DEF ApartInv
<1>10. CASE d # {} /\ hits = << >>
  <2>1. Apart' = Step(sum, {}, d)
    BY <1>5, <1>10 DEF BurstInv, ApartInv
  <2>2. Apart' # {}
    BY <1>1, <1>10, <2>1, DamagedByteParts
  <2>3. Len(hits') = 1 /\ hits'[1].at = n /\ hits'[1].bits = d /\ hits' # << >>
    BY <1>3, <1>10
  <2>4. n' = n + 1 /\ n + 1 # n + 2 /\ ~(n >= n + 1)
    BY <1>1
  <2> QED
    BY <1>1, <2>1, <2>2, <2>3, <2>4 DEF ApartInv
<1>11. CASE d # {} /\ hits # << >>
  <2>1. /\ Len(hits') = 2 /\ hits'[1] = hits[1] /\ hits'[2].at = n /\ hits'[2].bits = d
        /\ hits' # << >>
    BY <1>3, <1>11
  <2>2. hits[1].at < n /\ hits[1].at \in Nat /\ n < n' /\ n' = n + 1
    BY <1>1, <1>7, <1>11 DEF IsHit
  <2>3. HitsInv'
    <3>1. n' + Len(got') = n + 1
      BY <1>1, <1>2
    <3> QED
      BY <1>1, <1>2, <3>1, HitsStep DEF BurstInv
  <2>4. ASSUME Burst'
        PROVE  Apart' # {}
    <3>1. /\ sum = "crc8" => n = hits[1].at + 1 /\ Table8[hits[1].bits] # d
          /\ sum = "crc16" => n \in {hits[1].at + 1, hits[1].at + 2}
      <4>1. PICK h : h = [ at |-> n, bits |-> d ]
        OBVIOUS
      <4>2. h.at = n /\ h.bits = d /\ IsHit(h) /\ Neighbours(hits[1], h) /\ IsHit(hits[1])
        BY <1>1, <1>3, <1>7, <1>11, <4>1 DEF IsHit
      <4>3. Last(hits') = h
        BY <1>3, <1>11, <4>1 DEF Last
      <4>4. (8 * h.at + 7 - Min(h.bits)) - (8 * hits[1].at + 7 - Max(hits[1].bits))
              < Cardinality(Ones(sum))
        BY <1>1, <2>1, <2>4, <4>3 DEF Burst
      <4> QED
        BY <1>1, <4>2, <4>4, BurstOfTwo
    <3>2. /\ n = hits[1].at + 1 => Apart = Step(sum, {}, hits[1].bits)
          /\ n = hits[1].at + 2 => Apart = Step(sum, Step(sum, {}, hits[1].bits), {})
      BY <1>7, <1>11 DEF BurstInv, ApartInv
    <3>3. hits[1].bits \in Byte \ {{}}
      BY <1>7, <1>11 DEF IsHit
    <3>4. CASE sum = "crc8"
      <4>1. Apart = Table8[hits[1].bits]
        BY <3>1, <3>2, <3>3, <3>4, FirstStep
      <4>2. Apart \in Byte
        BY <1>4, <3>4 DEF Register, Ones, Byte
      <4> QED
        BY <1>1, <1>5, <3>1, <3>4, <4>1, <4>2, ComeTogether
    <3>5. CASE sum = "crc16" /\ n = hits[1].at + 1
      <4>1. Apart = Table16[hits[1].bits]
        BY <3>2, <3>3, <3>5, FirstStep
      <4>2. Apart \in SUBSET (0 .. 15)
        BY <1>4, <3>5 DEF Register, Ones
      <4>3. Low(Apart) # {}
        BY <3>3, <4>1, TablesFaithful
      <4> QED
        BY <1>1, <1>5, <3>5, <4>2, <4>3, ComeTogether
    <3>6. CASE sum = "crc16" /\ n = hits[1].at + 2
      <4>1. Apart \in SUBSET (0 .. 15)
        BY <1>4, <3>6 DEF Register, Ones
      <4>2. PICK i, j \in 0 .. 7 : hits[1].bits = {i} /\ d = {j}
        <5>1. n # hits[1].at + 1
          BY <2>2, <3>6
        <5>2. PICK h : h = [ at |-> n, bits |-> d ]
          OBVIOUS
        <5>3. h.at = n /\ h.bits = d /\ Neighbours(hits[1], h)
          BY <1>3, <1>11, <5>2
        <5> QED
          BY <5>1, <5>3, Zenon DEF Neighbours
      <4>3. Apart = Step("crc16", Step("crc16", {}, {i}), {})
        BY <3>2, <3>6, <4>2
      <4>4. ~(Low(Apart) = {} /\ High(Apart) = {j})
        BY <4>3, BitSpreads
      <4> QED
        BY <1>1, <1>5, <3>6, <4>1, <4>2, <4>4, ComeTogether
    <3> QED
      BY <1>1, <3>1, <3>4, <3>5, <3>6 DEF Sums
  <2>5. ~(hits[1].at >= n') /\ ~(n >= n')
    BY <1>1, <2>2
  <2> QED
    BY <2>1, <2>4, <2>5 DEF ApartInv
<1> QED
  BY <1>8, <1>9, <1>10, <1>11

(* The checksum's bytes change nothing about it. *)
LEMMA ApartStays ==
  ASSUME BurstInv, NEW d \in Damage \cup {{}}, SendSum(d)
  PROVE  ApartInv'
<1>1. /\ d \in Byte /\ n \in Nat /\ sum \in Sums /\ n' = n /\ sum' = sum /\ Apart' = Apart
      /\ n + Len(got) \in Nat /\ hits' = Hit(n + Len(got), d) /\ (d # {} => MayHit(n + Len(got), d))
  BY DataAssumption DEF SendSum, BurstInv, Registers, Byte, Apart
<1>2. PICK k : k = n + Len(got)
  OBVIOUS
<1>3. k \in Nat /\ k >= n
  <2>1. Len(got) \in Nat
    BY DEF BurstInv, Registers
  <2> QED
    BY <1>1, <1>2, <2>1
<1>4. /\ d = {} => hits' = hits
      /\ d # {} /\ hits = << >> => Len(hits') = 1 /\ hits'[1] = [ at |-> k, bits |-> d ]
      /\ d # {} /\ hits # << >> =>
           /\ Len(hits) = 1 /\ Len(hits') = 2
           /\ hits'[1] = hits[1] /\ hits'[2] = [ at |-> k, bits |-> d ]
           /\ Neighbours(hits[1], [ at |-> k, bits |-> d ])
  BY <1>1, <1>2, <1>3, HitMakes DEF BurstInv
<1>5. CASE d = {}
  <2>1. hits' = hits
    BY <1>4, <1>5
  <2> QED
    BY <1>1, <2>1 DEF BurstInv, ApartInv, Burst
<1>6. CASE d # {} /\ hits = << >>
  <2>1. Len(hits') = 1 /\ hits'[1].at = k
    BY <1>4, <1>6
  <2>2. Apart = {}
    BY <1>6 DEF BurstInv, ApartInv
  <2>3. ~(k < n)
    BY <1>1, <1>3
  <2> QED
    BY <1>1, <1>3, <2>1, <2>2, <2>3 DEF ApartInv
<1>7. CASE d # {} /\ hits # << >>
  <2>1. Len(hits) = 1 /\ Len(hits') = 2 /\ hits'[1] = hits[1] /\ hits'[2].at = k /\ hits' # << >>
    BY <1>4, <1>7
  <2>2. ~(k < n)
    BY <1>1, <1>3
  <2> QED
    BY <1>1, <1>7, <2>1, <2>2 DEF BurstInv, ApartInv
<1> QED
  BY <1>5, <1>6, <1>7

(* What arrived before is not damaged by what is damaged now. *)
LEMMA GotStep ==
  ASSUME BurstInv, NEW d \in Damage \cup {{}}, SendSum(d)
  PROVE  GotInv'
<1>1. /\ d \in Byte /\ n \in Nat /\ n' = n /\ sum' = sum /\ sent' = sent
      /\ got \in Seq(Byte) /\ HitsInv
  BY DataAssumption DEF SendSum, BurstInv, Registers, Byte
<1>2. PICK m \in Nat : m = Len(got)
  BY <1>1
<1>3. PICK k \in Nat : k = n + m
  BY <1>1
<1>4. PICK g : g = Xor(InBytes(sum, sent)[m + 1], d)
  OBVIOUS
<1>5. /\ got' = Append(got, g) /\ hits' = Hit(k, d) /\ (d # {} => MayHit(k, d))
      /\ m < Len(InBytes(sum, sent))
  BY <1>2, <1>3, <1>4 DEF SendSum
<1>6. /\ d = {} => hits' = hits
      /\ d # {} /\ hits = << >> => Len(hits') = 1 /\ hits'[1] = [ at |-> k, bits |-> d ]
      /\ d # {} /\ hits # << >> =>
           /\ Len(hits) = 1 /\ Len(hits') = 2
           /\ hits'[1] = hits[1] /\ hits'[2] = [ at |-> k, bits |-> d ]
           /\ Neighbours(hits[1], [ at |-> k, bits |-> d ])
  BY <1>1, <1>2, <1>3, <1>5, HitMakes DEF BurstInv
<1>7. /\ hits # << >> => hits[1].at \in Nat /\ hits[1].at < k
      /\ Len(hits) = 2 => hits[2].at \in Nat /\ hits[2].at < k
      /\ hits = << >> => Len(hits) = 0
  BY <1>1, <1>2, <1>3 DEF HitsInv, IsHit
<1>8. /\ \A i \in Nat : i < k => DamageAt(i)' = DamageAt(i)
      /\ DamageAt(k)' = d
  <2>1. CASE d = {}
    BY <1>6, <1>7, <2>1 DEF DamageAt
  <2>2. CASE d # {} /\ hits = << >>
    <3>1. Len(hits') = 1 /\ hits'[1].at = k /\ hits'[1].bits = d /\ hits' # << >>
      BY <1>6, <2>2
    <3> QED
      BY <1>7, <2>2, <3>1 DEF DamageAt
  <2>3. CASE d # {} /\ hits # << >>
    <3>1. /\ Len(hits) = 1 /\ Len(hits') = 2 /\ hits'[1] = hits[1]
          /\ hits'[2].at = k /\ hits'[2].bits = d /\ hits' # << >>
      BY <1>6, <2>3
    <3> QED
      BY <1>7, <2>3, <3>1 DEF DamageAt
  <2> QED
    BY <2>1, <2>2, <2>3
<1>9. /\ Len(got') = m + 1 /\ got'[m + 1] = g /\ DOMAIN got' = 1 .. m + 1
      /\ \A i \in 1 .. m : got'[i] = got[i]
  <2>1. InBytes(sum, sent)[m + 1] \in Byte /\ g \in Byte
    <3>1. InBytes(sum, sent) \in Seq(Byte)
      <4>1. CASE sum = "crc8"
        BY <4>1 DEF InBytes, BurstInv, Registers, Register, Ones, Byte
      <4>2. CASE sum = "crc16"
        <5>1. Low(sent) \in Byte /\ High(sent) \in Byte
          BY <4>2, PartsTyped DEF BurstInv, Registers, Register, Ones
        <5> QED
          BY <4>2, <5>1 DEF InBytes
      <4> QED
        BY <4>1, <4>2 DEF BurstInv, Registers, Sums
    <3>2. PICK x : x = InBytes(sum, sent)[m + 1]
      OBVIOUS
    <3>3. x \in Byte
      BY <1>5, <3>1, <3>2
    <3>4. Xor(x, d) \in Byte
      BY <1>1, <3>3, XorSubset DEF Byte
    <3> QED
      BY <1>4, <3>2, <3>3, <3>4
  <2> QED
    BY <1>1, <1>2, <1>5, <2>1
<1>10. ASSUME NEW i \in 1 .. m + 1
       PROVE  got'[i] = Xor(InBytes(sum, sent)[i], DamageAt(n + i - 1)')
  <2>1. PICK c : c = n + i - 1
    OBVIOUS
  <2>2. DamageAt(n + i - 1)' = DamageAt(c)'
    BY <1>1, <2>1 DEF DamageAt
  <2>3. CASE i = m + 1
    <3>1. c = k
      BY <1>1, <1>3, <2>3, <2>1
    <3> QED
      BY <1>4, <1>8, <1>9, <2>3, <2>2, <3>1
  <2>4. CASE i \in 1 .. m
    <3>1. c \in Nat /\ c < k
      BY <1>1, <1>3, <2>4, <2>1
    <3>2. i \in DOMAIN got
      BY <1>1, <1>2, <2>4
    <3>3. got[i] = Xor(InBytes(sum, sent)[i], DamageAt(c))
      BY <2>1, <3>2 DEF BurstInv, GotInv
    <3> QED
      BY <1>8, <1>9, <2>4, <2>2, <3>1, <3>3
  <2> QED
    BY <2>3, <2>4
<1>11. m + 1 <= Len(InBytes(sum, sent))
  <2>1. Len(InBytes(sum, sent)) \in Nat
    BY DEF InBytes
  <2> QED
    BY <1>5, <2>1
<1> QED
  BY <1>1, <1>9, <1>10, <1>11 DEF GotInv

LEMMA BurstStep == BurstInv /\ [Next]_vars => BurstInv'
<1> SUFFICES ASSUME BurstInv, [Next]_vars
             PROVE  BurstInv'
  OBVIOUS
<1>1. Registers'
  BY RegistersStep DEF BurstInv
<1>2. CASE UNCHANGED vars
  BY <1>1, <1>2 DEF BurstInv, HitsInv, ApartInv, GotInv, Apart, Burst, DamageAt, vars
<1>3. ASSUME NEW d \in Damage \cup {{}}, SendByte(d)
      PROVE  BurstInv'
  <2>1. d \in Byte /\ n \in Nat /\ got = << >> /\ n' = n + 1 /\ got' = got /\ hits' = Hit(n, d)
    BY <1>3, DataAssumption DEF SendByte, BurstInv, Registers, Byte
  <2>2. n + Len(got) = n /\ n' + Len(got') = n + 1 /\ (d # {} => MayHit(n, d))
    BY <1>3, <2>1 DEF SendByte
  <2>3. HitsInv'
    BY <2>1, <2>2, HitsStep DEF BurstInv
  <2>4. GotInv'
    BY <2>1 DEF GotInv, InBytes
  <2> QED
    BY <1>1, <1>3, <2>3, <2>4, ApartStep DEF BurstInv
<1>4. ASSUME NEW d \in Damage \cup {{}}, SendSum(d)
      PROVE  BurstInv'
  <2>1. PICK k \in Nat : k = n + Len(got)
    BY DEF BurstInv, Registers
  <2>2. /\ d \in Byte /\ n \in Nat /\ n' = n /\ hits' = Hit(k, d) /\ (d # {} => MayHit(k, d))
        /\ got \in Seq(Byte) /\ got' \in Seq(Byte)
    BY <1>1, <1>4, <2>1, DataAssumption DEF SendSum, BurstInv, Registers, Byte
  <2>3. Len(got') = Len(got) + 1
    BY <1>4, <2>2 DEF SendSum
  <2>4. n' + Len(got') = k + 1
    BY <2>1, <2>2, <2>3
  <2>5. HitsInv'
    BY <2>1, <2>2, <2>4, HitsStep DEF BurstInv
  <2> QED
    BY <1>1, <1>4, <2>5, ApartStays, GotStep DEF BurstInv
<1> QED
  BY <1>2, <1>3, <1>4 DEF Next

LEMMA BurstInvFirst == Init => BurstInv
<1> SUFFICES ASSUME Init
             PROVE  BurstInv
  OBVIOUS
<1>1. Registers
  BY DEF Init, Registers, Register
<1>2. Xor(sent, read) = {}
  BY XorSame DEF Init
<1> QED
  BY <1>1, <1>2 DEF Init, BurstInv, HitsInv, ApartInv, GotInv, Apart, InBytes

(* Damage that lies in as many bits as the register has is noticed, in      *)
(* messages of any length with any data in front of it, between and behind, *)
(* but for the one kind at the border of frame and checksum.               *)
THEOREM BurstsAreNoticed == Spec => []BurstNoticed
BY BurstInvFirst, BurstStep, InvIsBurstNoticed, PTL DEF Spec
-----------------------------------------------------------------------------
(***************************************************************************)
(* The powers of x: what 1 becomes when it is divided on and on.            *)
(***************************************************************************)
LEMMA ShiftTyped ==
  ASSUME NEW s \in Sums, NEW c \in Register(s)
  PROVE  Shift(s, c) \in Register(s)
<1>1. CASE s = "crc8"
  <2>1. { i + 1 : i \in c \ {7} } \in SUBSET (0 .. 7)
    BY <1>1 DEF Register, Ones
  <2>2. Divisor(s) \in SUBSET (0 .. 7)
    BY <1>1, DivisionTyped DEF Byte
  <2>3. PICK a, d : a = { i + 1 : i \in c \ {7} } /\ d = Divisor(s)
    OBVIOUS
  <2>4. a \in SUBSET (0 .. 7) /\ d \in SUBSET (0 .. 7)
    BY <2>1, <2>2, <2>3
  <2>5. Xor(a, d) \in SUBSET (0 .. 7)
    BY <2>4, XorSubset
  <2> QED
    BY <1>1, <2>3, <2>4, <2>5 DEF Shift, Register, Ones
<1>2. CASE s = "crc16"
  <2>1. { i + 1 : i \in c \ {15} } \in SUBSET (0 .. 15)
    BY <1>2 DEF Register, Ones
  <2>2. Divisor(s) \in SUBSET (0 .. 15)
    BY DEF Divisor, Bits
  <2>3. PICK a, d : a = { i + 1 : i \in c \ {15} } /\ d = Divisor(s)
    OBVIOUS
  <2>4. a \in SUBSET (0 .. 15) /\ d \in SUBSET (0 .. 15)
    BY <2>1, <2>2, <2>3
  <2>5. Xor(a, d) \in SUBSET (0 .. 15)
    BY <2>4, XorSubset
  <2> QED
    BY <1>2, <2>3, <2>4, <2>5 DEF Shift, Register, Ones
<1> QED
  BY <1>1, <1>2 DEF Sums

LEMMA ShiftLinear ==
  ASSUME NEW s \in Sums, NEW a \in Register(s), NEW b \in Register(s)
  PROVE  Shift(s, Xor(a, b)) = Xor(Shift(s, a), Shift(s, b))
<1> DEFINE last == IF s = "crc8" THEN 7 ELSE 15
           Moved(c) == { i + 1 : i \in c \ {last} }
           d == Divisor(s)
<1>1. last \in Nat /\ a \in SUBSET Nat /\ b \in SUBSET Nat
  BY DEF Register, Ones, Sums
<1>2. \A c : Shift(s, c) = IF last \in c THEN Xor(Moved(c), d) ELSE Moved(c)
  BY DEF Shift
<1>3. \A c \in SUBSET Nat : \A j : j \in Moved(c) <=> j \in Nat /\ j > 0 /\ j - 1 \in c /\ j - 1 # last
  BY <1>1
<1>4. Xor(a, b) \in SUBSET Nat
  BY <1>1, XorSubset
<1>5. Moved(Xor(a, b)) = Xor(Moved(a), Moved(b))
  <2>1. \A j : j \in Moved(Xor(a, b)) <=> j \in Xor(Moved(a), Moved(b))
    <3> HIDE DEF Moved, last
    <3> QED
      BY <1>1, <1>3, <1>4 DEF Xor
  <2> HIDE DEF Moved
  <2> QED
    BY <2>1
<1>6. last \in Xor(a, b) <=> ~(last \in a <=> last \in b)
  BY DEF Xor
<1> HIDE DEF Moved, last, d
<1>7. /\ Xor(Xor(Moved(a), Moved(b)), d) = Xor(Xor(Moved(a), d), Moved(b))
      /\ Xor(Xor(Moved(a), Moved(b)), d) = Xor(Moved(a), Xor(Moved(b), d))
      /\ Xor(Moved(a), Moved(b)) = Xor(Xor(Moved(a), d), Xor(Moved(b), d))
  BY DEF Xor
<1>8. PICK x : x = Xor(a, b)
  OBVIOUS
<1>9. /\ Shift(s, x) = IF last \in x THEN Xor(Moved(x), d) ELSE Moved(x)
      /\ Shift(s, a) = IF last \in a THEN Xor(Moved(a), d) ELSE Moved(a)
      /\ Shift(s, b) = IF last \in b THEN Xor(Moved(b), d) ELSE Moved(b)
  BY <1>2
<1>10. CASE last \in a /\ last \in b
  BY <1>5, <1>6, <1>7, <1>8, <1>9, <1>10
<1>11. CASE last \in a /\ last \notin b
  BY <1>5, <1>6, <1>7, <1>8, <1>9, <1>11
<1>12. CASE last \notin a /\ last \in b
  BY <1>5, <1>6, <1>7, <1>8, <1>9, <1>12
<1>13. CASE last \notin a /\ last \notin b
  BY <1>5, <1>6, <1>7, <1>8, <1>9, <1>13
<1> QED
  BY <1>10, <1>11, <1>12, <1>13

(* Eight of them. *)
LEMMA ShiftsOfNothing ==
  ASSUME NEW s \in Sums
  PROVE  Shift(s, {}) = {}
BY DEF Shift

LEMMA EightShifts ==
  ASSUME NEW s \in Sums, NEW c
  PROVE  Shift8(s, c) =
           Shift(s, Shift(s, Shift(s, Shift(s, Shift(s, Shift(s, Shift(s, Shift(s, c))))))))
BY ShiftsOfNothing DEF Shift8, Eight

LEMMA Shift8Linear ==
  ASSUME NEW s \in Sums, NEW a \in Register(s), NEW b \in Register(s)
  PROVE  Shift8(s, Xor(a, b)) = Xor(Shift8(s, a), Shift8(s, b))
<1> DEFINE f(c) == Shift(s, c)
<1>1. \A c \in Register(s) : f(c) \in Register(s)
  BY ShiftTyped
<1>2. \A c, d \in Register(s) : f(Xor(c, d)) = Xor(f(c), f(d))
  BY ShiftLinear
<1>3. \A c : Shift8(s, c) = f(f(f(f(f(f(f(f(c))))))))
  BY EightShifts
<1> HIDE DEF f
<1>4. \A c, d \in Register(s) : f(f(Xor(c, d))) = Xor(f(f(c)), f(f(d))) /\ f(f(c)) \in Register(s)
  BY <1>1, <1>2
<1>5. \A c, d \in Register(s) :
        f(f(f(f(Xor(c, d))))) = Xor(f(f(f(f(c)))), f(f(f(f(d))))) /\ f(f(f(f(c)))) \in Register(s)
  BY <1>4
<1>6. f(f(f(f(f(f(f(f(Xor(a, b)))))))))
        = Xor(f(f(f(f(f(f(f(f(a)))))))), f(f(f(f(f(f(f(f(b)))))))))
  BY <1>5
<1> QED
  BY <1>3, <1>6

(* A byte that is not damaged divides the register eight times. *)
LEMMA StepDivides ==
  ASSUME NEW s \in Sums, NEW c \in Register(s)
  PROVE  Step(s, c, {}) = Shift8(s, c)
<1>1. CASE s = "crc8"
  <2>1. c \in Byte
    BY <1>1 DEF Register, Ones, Byte
  <2>2. Xor(c, {}) = c
    BY XorNothing
  <2>3. Step(s, c, {}) = Table8[c]
    BY <1>1, <2>2 DEF Step, Step8
  <2> QED
    BY <1>1, <2>1, <2>3, Polynomials
<1>2. CASE s = "crc16"
  <2>1. c \in SUBSET (0 .. 15)
    BY <1>2 DEF Register, Ones
  <2>2. PICK l, h : l = Low(c) /\ h = High(c)
    OBVIOUS
  <2>3. l \in Byte /\ h \in Byte
    BY <2>1, <2>2, PartsTyped
  <2>4. Step(s, c, {}) = Xor(Raise(l), Table16[h])
    BY <1>2, <2>2, XorNothing DEF Step, Step16
  <2>5. Raise(l) = Shift8(s, l) /\ Table16[h] = Shift8(s, Raise(h))
    BY <1>2, <2>3, Polynomials, DivisionTyped
  <2>6. l \in Register(s) /\ Raise(h) \in Register(s)
    <3>1. Raise(h) \in SUBSET (0 .. 15)
      BY <2>3, RaiseLinear
    <3>2. l \in SUBSET (0 .. 15)
      BY <2>3 DEF Byte
    <3> QED
      BY <1>2, <3>1, <3>2 DEF Register, Ones
  <2>7. c = Xor(l, Raise(h))
    <3>1. ASSUME NEW i
          PROVE  i \in Raise(h) <=> i \in c /\ i \notin 0 .. 7
      <4>1. \A j : j \in h <=> j \in 0 .. 7 /\ j + 8 \in c
        <5>1. \A j : j \in High(c) <=> \E k \in c \ (0 .. 7) : j = k - 8
          BY DEF High
        <5>2. ASSUME NEW j, NEW k \in c \ (0 .. 7), j = k - 8
              PROVE  j \in 0 .. 7 /\ j + 8 \in c
          BY <2>1, <5>2
        <5>3. ASSUME NEW j \in 0 .. 7, j + 8 \in c
              PROVE  j + 8 \in c \ (0 .. 7) /\ j = (j + 8) - 8
          BY <5>3
        <5> QED
          BY <2>2, <5>1, <5>2, <5>3
      <4>2. i \in Raise(h) <=> \E j \in h : i = j + 8
        BY DEF Raise
      <4>3. i \in c /\ i \notin 0 .. 7 => i - 8 \in 0 .. 7 /\ (i - 8) + 8 = i
        BY <2>1
      <4>4. ASSUME NEW j \in h, i = j + 8
            PROVE  i \in c /\ i \notin 0 .. 7
        BY <4>1, <4>4
      <4> QED
        BY <4>1, <4>2, <4>3, <4>4
    <3>2. \A i : i \in l <=> i \in c /\ i \in 0 .. 7
      BY <2>2 DEF Low
    <3> QED
      BY <3>1, <3>2 DEF Xor
  <2> QED
    BY <2>4, <2>5, <2>6, <2>7, Shift8Linear
<1> QED
  BY <1>1, <1>2 DEF Sums
(* Induction over numbers. *)
LEMMA HasLeast ==
  ASSUME NEW T \in SUBSET Nat, T # {}
  PROVE  \E x \in T : \A y \in T : x <= y
<1> DEFINE Less == { p \in Nat \X Nat : p[1] < p[2] }
<1>1. IsWellFoundedOn(Less, Nat)
  BY NatLessThanWellFounded DEF OpToRel
<1>2. PICK x \in T : \A y \in T : ~(<<y, x>> \in Less)
  BY <1>1, WFMin
<1>3. \A y \in T : ~(y < x)
  BY <1>2
<1> QED
  BY <1>3

LEMMA Induction ==
  ASSUME NEW H, 0 \in H, \A m \in Nat : m \in H => m + 1 \in H
  PROVE  Nat \subseteq H
<1> SUFFICES ASSUME ~(Nat \subseteq H)
             PROVE  FALSE
  OBVIOUS
<1>1. PICK x \in Nat \ H : \A y \in Nat \ H : x <= y
  BY HasLeast
<1>2. x # 0 /\ x - 1 \in Nat
  BY <1>1
<1>3. x - 1 \in H
  BY <1>1, <1>2
<1> QED
  BY <1>1, <1>2, <1>3

(* The rest of x ^ m. *)
ArePowers(s, f, m) == f = [ k \in 0 .. m |-> IF k = 0 THEN {0} ELSE Shift(s, f[k - 1]) ]

Power(s, m) == (CHOOSE f : ArePowers(s, f, m))[m]

LEMMA PowersExist ==
  ASSUME NEW s \in Sums
  PROVE  \A m \in Nat : \E f : ArePowers(s, f, m)
<1> DEFINE H == { m \in Nat : \E f : ArePowers(s, f, m) }
<1>1. 0 \in H
  <2>1. ArePowers(s, [ k \in 0 .. 0 |-> {0} ], 0)
    BY DEF ArePowers
  <2> QED
    BY <2>1
<1>2. ASSUME NEW m \in Nat, m \in H
      PROVE  m + 1 \in H
  <2>1. PICK f : ArePowers(s, f, m)
    BY <1>2
  <2>2. PICK c : c = Shift(s, f[m])
    OBVIOUS
  <2>3. PICK g : g = [ k \in 0 .. m + 1 |-> IF k = m + 1 THEN c ELSE f[k] ]
    OBVIOUS
  <2>4. ASSUME NEW k \in 0 .. m + 1
        PROVE  g[k] = IF k = 0 THEN {0} ELSE Shift(s, g[k - 1])
    <3>1. CASE k = m + 1
      <4>1. g[k] = c /\ m \in 0 .. m + 1 /\ m # m + 1 /\ k # 0
        BY <2>3, <3>1
      <4>2. g[m] = f[m] /\ k - 1 = m
        BY <2>3, <3>1, <4>1
      <4> QED
        BY <2>2, <4>1, <4>2
    <3>2. CASE k \in 0 .. m
      <4>1. f[k] = IF k = 0 THEN {0} ELSE Shift(s, f[k - 1])
        BY <2>1, <3>2 DEF ArePowers
      <4>2. g[k] = f[k] /\ (k # 0 => g[k - 1] = f[k - 1])
        BY <2>3, <3>2
      <4> QED
        BY <4>1, <4>2
    <3> QED
      BY <3>1, <3>2
  <2>5. ArePowers(s, g, m + 1)
    <3>1. g = [ k \in 0 .. m + 1 |-> g[k] ]
      BY <2>3
    <3> QED
      BY <2>4, <3>1 DEF ArePowers
  <2> QED
    BY <2>5
<1> HIDE DEF H
<1>3. Nat \subseteq H
  BY <1>1, <1>2, Induction
<1> QED
  BY <1>3 DEF H

LEMMA PowersAgree ==
  ASSUME NEW s \in Sums, NEW m \in Nat, NEW f, NEW g, ArePowers(s, f, m), ArePowers(s, g, m + 1)
  PROVE  f[m] = g[m]
<1> DEFINE H == { k \in Nat : k <= m => f[k] = g[k] }
<1>1. \A k \in 0 .. m : f[k] = IF k = 0 THEN {0} ELSE Shift(s, f[k - 1])
  BY DEF ArePowers
<1>2. \A k \in 0 .. m + 1 : g[k] = IF k = 0 THEN {0} ELSE Shift(s, g[k - 1])
  BY DEF ArePowers
<1>3. 0 \in H
  <2>1. f[0] = {0} /\ g[0] = {0}
    BY <1>1, <1>2
  <2> QED
    BY <2>1
<1>4. ASSUME NEW k \in Nat, k \in H
      PROVE  k + 1 \in H
  <2> SUFFICES ASSUME k + 1 <= m
               PROVE  f[k + 1] = g[k + 1]
    OBVIOUS
  <2>1. f[k] = g[k]
    BY <1>4
  <2>2. k + 1 \in 0 .. m /\ k + 1 \in 0 .. m + 1 /\ k + 1 # 0 /\ (k + 1) - 1 = k
    OBVIOUS
  <2>3. f[k + 1] = Shift(s, f[k]) /\ g[k + 1] = Shift(s, g[k])
    BY <1>1, <1>2, <2>2
  <2> QED
    BY <2>1, <2>3
<1> HIDE DEF H
<1>5. Nat \subseteq H
  BY <1>3, <1>4, Induction
<1>6. m \in H
  BY <1>5
<1> QED
  BY <1>6 DEF H

LEMMA PowerStep ==
  ASSUME NEW s \in Sums
  PROVE  /\ Power(s, 0) = {0}
         /\ \A m \in Nat : Power(s, m + 1) = Shift(s, Power(s, m))
<1>1. ASSUME NEW m \in Nat
      PROVE  \E f : ArePowers(s, f, m) /\ Power(s, m) = f[m]
  <2>1. ArePowers(s, CHOOSE f : ArePowers(s, f, m), m)
    BY PowersExist
  <2> QED
    BY <2>1 DEF Power
<1>2. Power(s, 0) = {0}
  <2>1. PICK f : ArePowers(s, f, 0) /\ Power(s, 0) = f[0]
    BY <1>1
  <2> QED
    BY <2>1 DEF ArePowers
<1>3. ASSUME NEW m \in Nat
      PROVE  Power(s, m + 1) = Shift(s, Power(s, m))
  <2>1. PICK f : ArePowers(s, f, m) /\ Power(s, m) = f[m]
    BY <1>1
  <2>2. PICK g : ArePowers(s, g, m + 1) /\ Power(s, m + 1) = g[m + 1]
    BY <1>1
  <2>3. f[m] = g[m]
    BY <2>1, <2>2, PowersAgree
  <2>4. m + 1 \in 0 .. m + 1 /\ m + 1 # 0 /\ (m + 1) - 1 = m
    OBVIOUS
  <2>5. g[m + 1] = Shift(s, g[m])
    BY <2>2, <2>4 DEF ArePowers
  <2> QED
    BY <2>1, <2>2, <2>3, <2>5
<1> QED
  BY <1>2, <1>3

LEMMA PowerTyped ==
  ASSUME NEW s \in Sums
  PROVE  \A m \in Nat : Power(s, m) \in Register(s)
<1> DEFINE H == { m \in Nat : Power(s, m) \in Register(s) }
<1>1. 0 \in H
  BY PowerStep DEF Register, Ones
<1>2. ASSUME NEW m \in Nat, m \in H
      PROVE  m + 1 \in H
  BY <1>2, PowerStep, ShiftTyped
<1> HIDE DEF H
<1>3. Nat \subseteq H
  BY <1>1, <1>2, Induction
<1> QED
  BY <1>3 DEF H

(* Eight powers on: a byte that is not damaged. *)
LEMMA PowerByte ==
  ASSUME NEW s \in Sums, NEW m \in Nat
  PROVE  Step(s, Power(s, m), {}) = Power(s, m + 8)
<1> DEFINE P(k) == Power(s, k)
           f(c) == Shift(s, c)
<1>1. \A k \in Nat : P(k + 1) = f(P(k))
  BY PowerStep
<1>2. Step(s, P(m), {}) = f(f(f(f(f(f(f(f(P(m)))))))))
  BY PowerTyped, StepDivides, EightShifts
<1> HIDE DEF P, f
<1>3. \A k \in Nat : P(k + 2) = f(f(P(k)))
  <2> TAKE k \in Nat
  <2>1. k + 1 \in Nat /\ (k + 1) + 1 = k + 2
    OBVIOUS
  <2> QED
    BY <1>1, <2>1
<1>4. \A k \in Nat : P(k + 4) = f(f(f(f(P(k)))))
  <2> TAKE k \in Nat
  <2>1. k + 2 \in Nat /\ (k + 2) + 2 = k + 4
    OBVIOUS
  <2> QED
    BY <1>3, <2>1
<1>5. m + 4 \in Nat /\ (m + 4) + 4 = m + 8
  OBVIOUS
<1>6. P(m + 8) = f(f(f(f(f(f(f(f(P(m)))))))))
  BY <1>4, <1>5
<1> QED
  BY <1>2, <1>6 DEF P

LEMMA LowPowers ==
  ASSUME NEW s \in Sums
  PROVE  \A i \in Ones(s) : Power(s, i) = {i}
<1> DEFINE last == IF s = "crc8" THEN 7 ELSE 15
           H == { m \in Nat : m <= last => Power(s, m) = {m} }
<1>1. Ones(s) = 0 .. last /\ last \in Nat
  BY DEF Ones
<1>2. \A c : last \notin c => Shift(s, c) = { i + 1 : i \in c \ {last} }
  BY DEF Shift
<1> HIDE DEF last
<1>3. 0 \in H
  BY PowerStep
<1>4. ASSUME NEW m \in Nat, m \in H
      PROVE  m + 1 \in H
  <2> SUFFICES ASSUME m + 1 <= last
               PROVE  Power(s, m + 1) = {m + 1}
    OBVIOUS
  <2>1. m # last /\ m <= last
    BY <1>1
  <2>2. Power(s, m) = {m}
    BY <1>4, <2>1
  <2>3. Shift(s, {m}) = { i + 1 : i \in {m} \ {last} }
    BY <1>2, <2>1
  <2>4. { i + 1 : i \in {m} \ {last} } = {m + 1}
    BY <2>1
  <2> QED
    BY <2>2, <2>3, <2>4, PowerStep
<1> HIDE DEF H
<1>5. Nat \subseteq H
  BY <1>3, <1>4, Induction
<1>6. ASSUME NEW i \in Ones(s)
      PROVE  Power(s, i) = {i}
  <2>1. i \in Nat /\ i <= last
    BY <1>1
  <2> QED
    BY <1>5, <2>1 DEF H
<1> QED
  BY <1>6

Width(s) == IF s = "crc8" THEN 8 ELSE 16

(* A damaged bit, behind its byte. *)
LEMMA BitBecomes ==
  ASSUME NEW s \in Sums, NEW i \in 0 .. 7
  PROVE  Step(s, {}, {i}) = Power(s, Width(s) + i)
<1>1. {i} \in Byte
  BY DEF Byte
<1>2. CASE s = "crc8"
  <2>1. {i} = Power(s, i) /\ Xor({i}, {}) = {i}
    BY <1>2, LowPowers, XorNothing DEF Ones
  <2>2. Step(s, {}, {i}) = Table8[{i}] /\ Step(s, {i}, {}) = Table8[{i}]
    BY <1>1, <1>2, <2>1, FirstStep DEF Step, Step8
  <2>3. Step(s, Power(s, i), {}) = Power(s, i + 8)
    BY PowerByte
  <2>4. Width(s) + i = i + 8
    BY <1>2 DEF Width
  <2> QED
    BY <2>1, <2>2, <2>3, <2>4
<1>3. CASE s = "crc16"
  <2>1. i + 8 \in 0 .. 15 /\ i + 8 \in Nat /\ (i + 8) + 8 = i + 16
    OBVIOUS
  <2>2. {i + 8} = Power(s, i + 8)
    BY <1>3, <2>1, LowPowers DEF Ones
  <2>3. Low({i + 8}) = {} /\ High({i + 8}) = {i}
    BY DEF Low, High
  <2>4. Raise(Low({i + 8})) = {} /\ Xor(High({i + 8}), {}) = {i}
    BY <2>3, XorNothing DEF Raise
  <2>5. Step(s, {i + 8}, {}) = Table16[{i}]
    BY <1>3, <2>4, XorNothing DEF Step, Step16
  <2>6. Step(s, {}, {i}) = Table16[{i}]
    BY <1>1, <1>3, FirstStep
  <2>7. Step(s, Power(s, i + 8), {}) = Power(s, (i + 8) + 8)
    BY <2>1, PowerByte
  <2>8. Width(s) + i = (i + 8) + 8
    BY <1>3 DEF Width
  <2> QED
    BY <2>2, <2>5, <2>6, <2>7, <2>8
<1> QED
  BY <1>2, <1>3 DEF Sums

(* 8, 64 and 512 bytes that are not damaged. *)
LEMMA EightOf ==
  ASSUME NEW s \in Sums, NEW c, c # {}
  PROVE  /\ Step8Bytes(s, c) =
              Step(s, Step(s, Step(s, Step(s, Step(s, Step(s, Step(s, Step(s,
                c, {}), {}), {}), {}), {}), {}), {}), {})
         /\ Step64Bytes(s, c) =
              Step8Bytes(s, Step8Bytes(s, Step8Bytes(s, Step8Bytes(s,
                Step8Bytes(s, Step8Bytes(s, Step8Bytes(s, Step8Bytes(s, c))))))))
         /\ Step512Bytes(s, c) =
              Step64Bytes(s, Step64Bytes(s, Step64Bytes(s, Step64Bytes(s,
                Step64Bytes(s, Step64Bytes(s, Step64Bytes(s, Step64Bytes(s, c))))))))
<1>1. Step8Bytes(s, c) =
        Step(s, Step(s, Step(s, Step(s, Step(s, Step(s, Step(s, Step(s,
          c, {}), {}), {}), {}), {}), {}), {}), {})
  BY DEF Step8Bytes, Eight
<1>2. Step64Bytes(s, c) =
        Step8Bytes(s, Step8Bytes(s, Step8Bytes(s, Step8Bytes(s,
          Step8Bytes(s, Step8Bytes(s, Step8Bytes(s, Step8Bytes(s, c))))))))
  BY DEF Step64Bytes, Eight
<1>3. Step512Bytes(s, c) =
        Step64Bytes(s, Step64Bytes(s, Step64Bytes(s, Step64Bytes(s,
          Step64Bytes(s, Step64Bytes(s, Step64Bytes(s, Step64Bytes(s, c))))))))
  BY DEF Step512Bytes, Eight
<1> QED
  BY <1>1, <1>2, <1>3

LEMMA ShiftOneToOne ==
  ASSUME NEW s \in Sums, NEW a \in Register(s), NEW b \in Register(s), Shift(s, a) = Shift(s, b)
  PROVE  a = b
<1>1. PICK x : x = Xor(a, b)
  OBVIOUS
<1>2. x \in Register(s)
  BY <1>1, XorSubset DEF Register
<1>3. Shift(s, x) = {}
  BY <1>1, ShiftLinear, XorSame
<1>4. Shift8(s, x) = {}
  BY <1>3, EightShifts, ShiftsOfNothing
<1>5. x = {}
  BY <1>2, <1>4, StepDivides, UndamagedByteChangesNothing
<1> QED
  BY <1>1, <1>5, XorSame

LEMMA PowerNotNothing ==
  ASSUME NEW s \in Sums
  PROVE  \A m \in Nat : Power(s, m) # {}
<1> DEFINE H == { m \in Nat : Power(s, m) # {} }
<1>1. 0 \in H
  BY PowerStep
<1>2. ASSUME NEW m \in Nat, m \in H
      PROVE  m + 1 \in H
  <2>1. {} \in Register(s) /\ Power(s, m) \in Register(s) /\ Power(s, m) # {}
    BY <1>2, PowerTyped DEF Register
  <2>2. Power(s, m + 1) # {}
    BY <2>1, PowerStep, ShiftsOfNothing, ShiftOneToOne
  <2> QED
    BY <2>2
<1> HIDE DEF H
<1>3. Nat \subseteq H
  BY <1>1, <1>2, Induction
<1> QED
  BY <1>3 DEF H

(* Powers that agree have agreed as often before, and agree from then on. *)
LEMMA PowersFurther ==
  ASSUME NEW s \in Sums, NEW a \in Nat, NEW b \in Nat
  PROVE  \A k \in Nat : Power(s, a + k) = Power(s, b + k) <=> Power(s, a) = Power(s, b)
<1> DEFINE H == { k \in Nat : Power(s, a + k) = Power(s, b + k) <=> Power(s, a) = Power(s, b) }
<1>1. 0 \in H
  OBVIOUS
<1>2. ASSUME NEW k \in Nat, k \in H
      PROVE  k + 1 \in H
  <2>1. a + k \in Nat /\ b + k \in Nat /\ a + (k + 1) = (a + k) + 1 /\ b + (k + 1) = (b + k) + 1
    OBVIOUS
  <2>2. /\ Power(s, a + (k + 1)) = Shift(s, Power(s, a + k))
        /\ Power(s, b + (k + 1)) = Shift(s, Power(s, b + k))
    BY <2>1, PowerStep
  <2>3. Power(s, a + k) \in Register(s) /\ Power(s, b + k) \in Register(s)
    BY <2>1, PowerTyped
  <2>4. Power(s, a + (k + 1)) = Power(s, b + (k + 1)) <=> Power(s, a + k) = Power(s, b + k)
    BY <2>2, <2>3, ShiftOneToOne
  <2> QED
    BY <1>2, <2>4
<1> HIDE DEF H
<1>3. Nat \subseteq H
  BY <1>1, <1>2, Induction
<1> QED
  BY <1>3 DEF H

LEMMA PowerBytes ==
  ASSUME NEW s \in Sums
  PROVE  /\ \A m \in Nat : Step8Bytes(s, Power(s, m)) = Power(s, m + 64)
         /\ \A m \in Nat : Step64Bytes(s, Power(s, m)) = Power(s, m + 512)
         /\ \A m \in Nat : Step512Bytes(s, Power(s, m)) = Power(s, m + 4096)
<1> DEFINE P(k) == Power(s, k)
<1>1. \A m \in Nat : Step8Bytes(s, P(m)) = P(m + 64)
  <2> DEFINE f(c) == Step(s, c, {})
  <2>1. \A k \in Nat : f(P(k)) = P(k + 8)
    BY PowerByte
  <2>2. \A k \in Nat : Step8Bytes(s, P(k)) = f(f(f(f(f(f(f(f(P(k)))))))))
    BY EightOf, PowerNotNothing
  <2> HIDE DEF f, P
  <2> TAKE m \in Nat
  <2>3. /\ m + 8 \in Nat /\ m + 16 \in Nat /\ m + 24 \in Nat /\ m + 32 \in Nat /\ m + 40 \in Nat
        /\ m + 48 \in Nat /\ m + 56 \in Nat
        /\ (m + 8) + 8 = m + 16 /\ (m + 16) + 8 = m + 24 /\ (m + 24) + 8 = m + 32
        /\ (m + 32) + 8 = m + 40 /\ (m + 40) + 8 = m + 48 /\ (m + 48) + 8 = m + 56
        /\ (m + 56) + 8 = m + 64
    OBVIOUS
  <2>4. /\ f(P(m)) = P(m + 8) /\ f(P(m + 8)) = P(m + 16) /\ f(P(m + 16)) = P(m + 24)
        /\ f(P(m + 24)) = P(m + 32) /\ f(P(m + 32)) = P(m + 40) /\ f(P(m + 40)) = P(m + 48)
        /\ f(P(m + 48)) = P(m + 56) /\ f(P(m + 56)) = P(m + 64)
    BY <2>1, <2>3
  <2> QED
    BY <2>2, <2>4
<1>2. \A m \in Nat : Step64Bytes(s, P(m)) = P(m + 512)
  <2> DEFINE f(c) == Step8Bytes(s, c)
  <2>1. \A k \in Nat : f(P(k)) = P(k + 64)
    BY <1>1
  <2>2. \A k \in Nat : Step64Bytes(s, P(k)) = f(f(f(f(f(f(f(f(P(k)))))))))
    BY EightOf, PowerNotNothing
  <2> HIDE DEF f, P
  <2> TAKE m \in Nat
  <2>3. /\ m + 64 \in Nat /\ m + 128 \in Nat /\ m + 192 \in Nat /\ m + 256 \in Nat /\ m + 320 \in Nat
        /\ m + 384 \in Nat /\ m + 448 \in Nat
        /\ (m + 64) + 64 = m + 128 /\ (m + 128) + 64 = m + 192 /\ (m + 192) + 64 = m + 256
        /\ (m + 256) + 64 = m + 320 /\ (m + 320) + 64 = m + 384 /\ (m + 384) + 64 = m + 448
        /\ (m + 448) + 64 = m + 512
    OBVIOUS
  <2>4. /\ f(P(m)) = P(m + 64) /\ f(P(m + 64)) = P(m + 128) /\ f(P(m + 128)) = P(m + 192)
        /\ f(P(m + 192)) = P(m + 256) /\ f(P(m + 256)) = P(m + 320) /\ f(P(m + 320)) = P(m + 384)
        /\ f(P(m + 384)) = P(m + 448) /\ f(P(m + 448)) = P(m + 512)
    BY <2>1, <2>3
  <2> QED
    BY <2>2, <2>4
<1>3. \A m \in Nat : Step512Bytes(s, P(m)) = P(m + 4096)
  <2> DEFINE f(c) == Step64Bytes(s, c)
  <2>1. \A k \in Nat : f(P(k)) = P(k + 512)
    BY <1>2
  <2>2. \A k \in Nat : Step512Bytes(s, P(k)) = f(f(f(f(f(f(f(f(P(k)))))))))
    BY EightOf, PowerNotNothing
  <2> HIDE DEF f, P
  <2> TAKE m \in Nat
  <2>3. /\ m + 512 \in Nat /\ m + 1024 \in Nat /\ m + 1536 \in Nat /\ m + 2048 \in Nat
        /\ m + 2560 \in Nat /\ m + 3072 \in Nat /\ m + 3584 \in Nat
        /\ (m + 512) + 512 = m + 1024 /\ (m + 1024) + 512 = m + 1536 /\ (m + 1536) + 512 = m + 2048
        /\ (m + 2048) + 512 = m + 2560 /\ (m + 2560) + 512 = m + 3072
        /\ (m + 3072) + 512 = m + 3584 /\ (m + 3584) + 512 = m + 4096
    OBVIOUS
  <2>4. /\ f(P(m)) = P(m + 512) /\ f(P(m + 512)) = P(m + 1024) /\ f(P(m + 1024)) = P(m + 1536)
        /\ f(P(m + 1536)) = P(m + 2048) /\ f(P(m + 2048)) = P(m + 2560)
        /\ f(P(m + 2560)) = P(m + 3072) /\ f(P(m + 3072)) = P(m + 3584)
        /\ f(P(m + 3584)) = P(m + 4096)
    BY <2>1, <2>3
  <2> QED
    BY <2>2, <2>4
<1> QED
  BY <1>1, <1>2, <1>3

(***************************************************************************)
(* When the powers come again: at the multiples of the period alone.        *)
(***************************************************************************)
Again(s) == { m \in Nat : Power(s, m) = {0} }

LEMMA AgainFrom ==
  ASSUME NEW s \in Sums, NEW a \in Nat, NEW m \in Nat
  PROVE  Power(s, a + m) = Power(s, a) <=> m \in Again(s)
<1>1. Power(s, m + a) = Power(s, 0 + a) <=> Power(s, m) = Power(s, 0)
  <2>1. 0 \in Nat
    OBVIOUS
  <2> QED
    BY <2>1, PowersFurther, Zenon
<1>2. m + a = a + m /\ 0 + a = a
  OBVIOUS
<1> QED
  BY <1>1, <1>2, PowerStep DEF Again

LEMMA AgainMultiple ==
  ASSUME NEW s \in Sums, NEW m \in Again(s)
  PROVE  \A k \in Nat : k * m \in Again(s)
<1> DEFINE H == { k \in Nat : k * m \in Again(s) }
<1>1. m \in Nat
  BY DEF Again
<1>2. 0 \in H
  <2>1. 0 * m = 0
    BY <1>1
  <2> QED
    BY <2>1, PowerStep DEF Again
<1>3. ASSUME NEW k \in Nat, k \in H
      PROVE  k + 1 \in H
  <2>1. PICK x : x = k * m
    OBVIOUS
  <2>2. x \in Nat /\ x \in Again(s) /\ (k + 1) * m = x + m
    BY <1>1, <1>3, <2>1 DEF Again
  <2>3. Power(s, x + m) = Power(s, x)
    BY <1>1, <2>2, AgainFrom
  <2>4. x + m \in Again(s)
    BY <1>1, <2>2, <2>3 DEF Again
  <2> QED
    BY <2>2, <2>4
<1> HIDE DEF H
<1>4. Nat \subseteq H
  BY <1>2, <1>3, Induction
<1> QED
  BY <1>4 DEF H

LEMMA Quotient ==
  ASSUME NEW k \in Nat, NEW r \in Nat \ {0}
  PROVE  \E x, y \in Nat : k % r = y /\ y < r /\ k = x * r + y
<1> DEFINE x == k \div r
           y == k % r
<1>1. y \in Nat /\ y < r /\ x \in Nat
  OBVIOUS
<1>2. y = k - r * x
  OBVIOUS
<1> HIDE DEF x, y
<1>3. r * x = x * r /\ x * r \in Nat
  BY <1>1
<1>4. k = x * r + y
  BY <1>1, <1>2, <1>3
<1>5. k % r = y
  BY DEF y
<1> QED
  BY <1>1, <1>4, <1>5

(* If c divisions do not bring 1 back, but q times as many do, for a prime q, *)
(* then none do whose number is no multiple of q.                          *)
Prime(q) == q > 1 /\ \A d \in 2 .. q - 1 : q % d # 0

LEMMA AgainPrime ==
  ASSUME NEW s \in Sums, NEW q \in Nat, Prime(q),
         NEW c \in Nat, c \notin Again(s), q * c \in Again(s), NEW m \in Again(s)
  PROVE  m % q = 0
<1> DEFINE R == { r \in Nat \ {0} : r * c \in Again(s) }
<1>1. R \in SUBSET Nat /\ R # {} /\ q \in R
  <2>1. q \in Nat \ {0}
    BY DEF Prime
  <2> QED
    BY <2>1
<1>2. PICK r \in R : \A y \in R : r <= y
  BY <1>1, HasLeast
<1>3. r \in Nat \ {0} /\ r * c \in Again(s)
  OBVIOUS
<1>4. ASSUME NEW k \in Nat, k * c \in Again(s)
      PROVE  k % r = 0
  <2>1. PICK x, y \in Nat : k % r = y /\ y < r /\ k = x * r + y
    BY <1>3, Quotient
  <2>2. x \in Nat /\ y \in Nat /\ y < r /\ k = x * r + y
    BY <2>1
  <2>3. PICK z : z = r * c
    OBVIOUS
  <2>4. z \in Nat /\ x * z \in Again(s) /\ x * z \in Nat /\ y * c \in Nat
    <3>1. x * z \in Again(s)
      BY <1>3, <2>2, <2>3, AgainMultiple
    <3> QED
      BY <1>3, <2>2, <2>3, <3>1 DEF Again
  <2>5. k * c = (y * c) + x * z
    BY <1>3, <2>2, <2>3
  <2>6. PICK u, v : u = y * c /\ v = x * z
    OBVIOUS
  <2>7. Power(s, u + v) = Power(s, u)
    BY <2>4, <2>6, AgainFrom
  <2>8. y * c \in Again(s)
    BY <1>4, <2>4, <2>5, <2>6, <2>7 DEF Again
  <2>9. y \notin R
    BY <1>2, <1>3, <2>2
  <2> QED
    BY <2>1, <2>2, <2>8, <2>9
<1>5. r # 1
  <2>1. 1 * c = c
    OBVIOUS
  <2> QED
    BY <1>3, <2>1
<1>6. r <= q
  BY <1>1, <1>2
<1>7. q % r = 0
  BY <1>4
<1>8. r = q
  <2>1. r # q => r \in 2 .. q - 1
    BY <1>3, <1>5, <1>6
  <2> QED
    BY <1>7, <2>1 DEF Prime
<1>10. m \in Nat /\ c * m \in Again(s)
  BY AgainMultiple DEF Again
<1>11. m * c = c * m
  BY <1>10
<1> QED
  BY <1>4, <1>8, <1>10, <1>11

Repeats(s) == IF s = "crc8" THEN 127 ELSE 32767

LEMMA Again8 == 127 \in Again("crc8") /\ 1 \notin Again("crc8")
<1>1. "crc8" \in Sums /\ 1 \in Ones("crc8")
  BY DEF Sums, Ones
<1>2. Step8Bytes("crc8", Step8Bytes("crc8", {0})) = {1}
  BY Orders
<1>3. Power("crc8", 0) = {0} /\ Power("crc8", 1) = {1}
  BY <1>1, PowerStep, LowPowers
<1>4. /\ Step8Bytes("crc8", Power("crc8", 0)) = Power("crc8", 0 + 64)
      /\ Step8Bytes("crc8", Power("crc8", 64)) = Power("crc8", 64 + 64)
  BY <1>1, PowerBytes
<1>5. Power("crc8", 1 + 127) = Power("crc8", 1)
  <2>1. 0 + 64 = 64 /\ 64 + 64 = 1 + 127
    OBVIOUS
  <2> QED
    BY <1>2, <1>3, <1>4, <2>1
<1>6. Power("crc8", 1 + 127) = Power("crc8", 1) <=> 127 \in Again("crc8")
  BY <1>1, AgainFrom
<1>7. 1 \notin Again("crc8")
  BY <1>3 DEF Again
<1> QED
  BY <1>5, <1>6, <1>7

LEMMA Again16 ==
  /\ 32767 \in Again("crc16")
  /\ 4681 \notin Again("crc16") /\ 1057 \notin Again("crc16") /\ 217 \notin Again("crc16")
<1> DEFINE P(k) == Power("crc16", k)
           f(c) == Step("crc16", c, {})
           f8(c) == Step8Bytes("crc16", c)
           f64(c) == Step64Bytes("crc16", c)
           f512(c) == Step512Bytes("crc16", c)
<1>1. "crc16" \in Sums /\ 1 \in Ones("crc16")
  BY DEF Sums, Ones
<1>2. P(0) = {0} /\ P(1) = {1}
  BY <1>1, PowerStep, LowPowers
<1>3. \A m \in Nat : f(P(m)) = P(m + 8) /\ f8(P(m)) = P(m + 64)
                     /\ f64(P(m)) = P(m + 512) /\ f512(P(m)) = P(m + 4096)
  BY <1>1, PowerByte, PowerBytes
<1>4. /\ f512(f512(f512(f512(f512(f512(f512(f512({0})))))))) = {1}
      /\ f512(f64(f8(f({1})))) # {0}
      /\ f64(f64(f(f(f(f({1})))))) # {0}
      /\ f8(f8(f8(f(f(f({1})))))) # {0}
  BY Orders DEF Eight
<1> HIDE DEF P, f, f8, f64, f512
<1>5. P(32768) = P(1)
  <2>1. /\ f512(P(0)) = P(4096) /\ f512(P(4096)) = P(8192) /\ f512(P(8192)) = P(12288)
        /\ f512(P(12288)) = P(16384) /\ f512(P(16384)) = P(20480) /\ f512(P(20480)) = P(24576)
        /\ f512(P(24576)) = P(28672) /\ f512(P(28672)) = P(32768)
    BY <1>3
  <2> QED
    BY <1>2, <1>4, <2>1
<1>6. P(4681) # {0}
  <2>1. f(P(1)) = P(9) /\ f8(P(9)) = P(73) /\ f64(P(73)) = P(585) /\ f512(P(585)) = P(4681)
    BY <1>3
  <2> QED
    BY <1>2, <1>4, <2>1
<1>7. P(1057) # {0}
  <2>1. /\ f(P(1)) = P(9) /\ f(P(9)) = P(17) /\ f(P(17)) = P(25) /\ f(P(25)) = P(33)
        /\ f64(P(33)) = P(545) /\ f64(P(545)) = P(1057)
    BY <1>3
  <2> QED
    BY <1>2, <1>4, <2>1
<1>8. P(217) # {0}
  <2>1. /\ f(P(1)) = P(9) /\ f(P(9)) = P(17) /\ f(P(17)) = P(25)
        /\ f8(P(25)) = P(89) /\ f8(P(89)) = P(153) /\ f8(P(153)) = P(217)
    BY <1>3
  <2> QED
    BY <1>2, <1>4, <2>1
<1>9. 32767 \in Again("crc16")
  <2>1. Power("crc16", 1 + 32767) = Power("crc16", 1) <=> 32767 \in Again("crc16")
    BY <1>1, AgainFrom
  <2>2. 1 + 32767 = 32768
    OBVIOUS
  <2> QED
    BY <1>5, <2>1, <2>2 DEF P
<1> QED
  BY <1>6, <1>7, <1>8, <1>9 DEF P, Again

LEMMA AgainIs ==
  ASSUME NEW s \in Sums, NEW m \in Nat
  PROVE  m \in Again(s) <=> m % Repeats(s) = 0
<1>1. Repeats(s) \in Again(s)
  BY Again8, Again16 DEF Repeats, Sums
<1>2. ASSUME m % Repeats(s) = 0
      PROVE  m \in Again(s)
  <2>1. Repeats(s) \in Nat \ {0}
    BY DEF Repeats
  <2>2. PICK p : p = Repeats(s)
    OBVIOUS
  <2>3. PICK k \in Nat : m = k * Repeats(s)
    <3>1. p \in Nat \ {0} /\ m % p = 0
      BY <1>2, <2>1, <2>2
    <3>2. PICK x, y \in Nat : m % p = y /\ y < p /\ m = x * p + y
      BY <3>1, Quotient
    <3>3. x * p \in Nat
      BY <3>1
    <3>4. m = x * p
      BY <3>1, <3>2, <3>3
    <3> QED
      BY <2>2, <3>4
  <2>4. k * Repeats(s) \in Again(s)
    BY <1>1, <2>3, AgainMultiple
  <2> QED
    BY <2>3, <2>4
<1>3. ASSUME s = "crc8", m \in Again(s)
      PROVE  m % 127 = 0
  <2>1. Prime(127)
    BY DEF Prime
  <2>2. 127 * 1 = 127
    OBVIOUS
  <2>3. 127 * 1 \in Again(s) /\ 1 \notin Again(s)
    BY <1>3, <2>2, Again8
  <2> QED
    BY <1>3, <2>1, <2>3, AgainPrime
<1>4. ASSUME s = "crc16", m \in Again(s)
      PROVE  m % 32767 = 0
  <2>1. Prime(7) /\ Prime(31)
    BY DEF Prime
  <2>2. Prime(151)
    BY DEF Prime
  <2>3. 7 * 4681 = 32767 /\ 31 * 1057 = 32767 /\ 151 * 217 = 32767
    OBVIOUS
  <2>4. /\ 7 * 4681 \in Again(s) /\ 4681 \notin Again(s)
        /\ 31 * 1057 \in Again(s) /\ 1057 \notin Again(s)
        /\ 151 * 217 \in Again(s) /\ 217 \notin Again(s)
    BY <1>4, <2>3, Again16
  <2>5. m % 7 = 0
    BY <1>4, <2>1, <2>4, AgainPrime
  <2>6. m % 31 = 0
    BY <1>4, <2>1, <2>4, AgainPrime
  <2>7. m % 151 = 0
    BY <1>4, <2>2, <2>4, AgainPrime
  <2>8. m % 217 = 0
    BY <2>5, <2>6
  <2>9. m \in Nat
    OBVIOUS
  <2>10. PICK x, y \in Nat : m = 151 * x /\ m = 217 * y
    BY <2>7, <2>8, <2>9, Quotient
  <2>11. m = 32767 * (23 * y - 16 * x)
    BY <2>10
  <2> QED
    BY <2>9, <2>11
<1> QED
  BY <1>2, <1>3, <1>4 DEF Repeats, Sums

(* Which powers are the same. *)
LEMMA SamePower ==
  ASSUME NEW s \in Sums, NEW a \in Nat, NEW b \in Nat
  PROVE  Power(s, a) = Power(s, b) <=> (b - a) % Repeats(s) = 0
<1>1. ASSUME NEW x \in Nat, NEW y \in Nat, x <= y
      PROVE  Power(s, y) = Power(s, x) <=> (y - x) % Repeats(s) = 0
  <2>1. y - x \in Nat /\ x + (y - x) = y
    BY <1>1
  <2>2. Power(s, x + (y - x)) = Power(s, x) <=> (y - x) \in Again(s)
    BY <2>1, AgainFrom
  <2> QED
    BY <2>1, <2>2, AgainIs
<1>2. (b - a) % Repeats(s) = 0 <=> (a - b) % Repeats(s) = 0
  <2>1. Repeats(s) \in {127, 32767}
    BY DEF Repeats
  <2> QED
    BY <2>1
<1> QED
  BY <1>1, <1>2

(***************************************************************************)
(* Two bits. The first is divided once for each bit behind it: PairInv. The *)
(* second brings the registers together if it is the same power by then.   *)
(***************************************************************************)
PairInv ==
  /\ hits # << >> /\ hits[1].at < n /\ (Len(hits) = 2 => hits[2].at >= n) =>
       \A i \in 0 .. 7 : hits[1].bits = {i} =>
         Apart = Power(sum, Width(sum) + i + 8 * (n - hits[1].at - 1))
  /\ Len(hits) = 2 /\ hits[2].at < n =>
       \A i, j \in 0 .. 7 : hits[1].bits = {i} /\ hits[2].bits = {j} =>
         (Apart = {} <=> (8 * (hits[2].at - hits[1].at) + i - j) % Repeats(sum) = 0)

LEMMA PairStep ==
  ASSUME BurstInv, PairInv, NEW d \in Damage \cup {{}}, SendByte(d)
  PROVE  PairInv'
<1>1. /\ d \in Byte /\ n \in Nat /\ got = << >> /\ sum \in Sums /\ n' = n + 1
      /\ sum' = sum /\ got' = got /\ Len(hits) < 2 /\ hits' = Hit(n, d)
  BY DataAssumption DEF SendByte, BurstInv, Registers, Byte
<1>2. n + Len(got) = n /\ (d # {} => MayHit(n, d))
  BY <1>1 DEF SendByte
<1>3. /\ d = {} => hits' = hits
      /\ d # {} /\ hits = << >> => Len(hits') = 1 /\ hits'[1] = [ at |-> n, bits |-> d ]
      /\ d # {} /\ hits # << >> =>
           /\ Len(hits) = 1 /\ Len(hits') = 2
           /\ hits'[1] = hits[1] /\ hits'[2] = [ at |-> n, bits |-> d ]
           /\ Neighbours(hits[1], [ at |-> n, bits |-> d ])
  BY <1>1, <1>2, HitMakes DEF BurstInv
<1>4. Apart \in Register(sum)
  BY XorSubset DEF Apart, BurstInv, Registers, Register
<1>5. Apart' = Step(sum, Apart, d)
  <2>1. PICK b \in Data : sent' = Step(sum, sent, b) /\ read' = Step(sum, read, Xor(b, d))
    BY DEF SendByte
  <2>2. b \in Byte /\ Xor(b, d) \in Byte
    BY <1>1, DataAssumption, XorSubset DEF Byte
  <2> QED
    BY <2>1, <2>2, StepLinear, XorOfDamaged DEF BurstInv, Registers, Apart
<1>6. /\ hits # << >> => hits[1].at \in Nat /\ hits[1].at < n /\ Len(hits) = 1
      /\ hits = << >> => Len(hits) = 0
  BY <1>1, <1>2 DEF BurstInv, HitsInv, IsHit
<1>7. PICK w \in Nat : w = Width(sum)
  BY DEF Width
(* What the first damage has become behind this byte, if it is not damaged. *)
<1>8. ASSUME hits # << >>, NEW i \in 0 .. 7, hits[1].bits = {i}
      PROVE  Step(sum, Apart, {}) = Power(sum, w + i + 8 * (n - hits[1].at))
  <2>1. PICK a \in Nat : a = hits[1].at /\ a < n
    BY <1>6, <1>8
  <2>2. Apart = Power(sum, w + i + 8 * (n - a - 1))
    <3>1. Len(hits) # 2 /\ hits[1].at < n
      BY <1>6, <1>8
    <3>2. Apart = Power(sum, Width(sum) + i + 8 * (n - hits[1].at - 1))
      BY <1>8, <3>1 DEF PairInv
    <3> QED
      BY <1>7, <2>1, <3>2
  <2>6. PICK k \in Nat : k = n - a - 1 /\ n - a = k + 1
    BY <1>1, <2>1
  <2>3. PICK m \in Nat : m = w + i + 8 * k
    OBVIOUS
  <2>4. Step(sum, Power(sum, m), {}) = Power(sum, m + 8)
    BY <1>1, PowerByte
  <2>5. m + 8 = w + i + 8 * (k + 1)
    BY <2>3
  <2> QED
    BY <2>1, <2>2, <2>3, <2>4, <2>5, <2>6
<1>9. CASE d = {} /\ hits = << >>
  BY <1>3, <1>6, <1>9 DEF PairInv
<1>10. CASE d = {} /\ hits # << >>
  <2>1. /\ hits' = hits /\ Len(hits) = 1 /\ n' = n + 1 /\ sum' = sum
        /\ Apart' = Step(sum, Apart, {})
    BY <1>1, <1>3, <1>5, <1>6, <1>10
  <2>2. (n + 1) - hits[1].at - 1 = n - hits[1].at
    BY <1>1, <1>6, <1>10
  <2> QED
    BY <1>7, <1>8, <1>10, <2>1, <2>2 DEF PairInv
<1>11. CASE d # {} /\ hits = << >>
  <2>1. Apart' = Step(sum, {}, d)
    BY <1>5, <1>11 DEF BurstInv, ApartInv
  <2>2. Len(hits') = 1 /\ hits'[1].at = n /\ hits'[1].bits = d
    BY <1>3, <1>11
  <2>3. n' = n + 1 /\ (n + 1) - n - 1 = 0 /\ sum' = sum
    BY <1>1
  <2>4. ASSUME NEW i \in 0 .. 7, d = {i}
        PROVE  Apart' = Power(sum, w + i + 8 * 0)
    <3>1. w + i = w + i + 8 * 0
      OBVIOUS
    <3> QED
      BY <1>1, <1>7, <2>1, <2>4, <3>1, BitBecomes
  <2> QED
    BY <1>7, <2>2, <2>3, <2>4 DEF PairInv
<1>12. CASE d # {} /\ hits # << >>
  <2>1. /\ Len(hits') = 2 /\ hits'[1] = hits[1] /\ hits'[2].at = n /\ hits'[2].bits = d
    BY <1>3, <1>12
  <2>2. sum' = sum /\ n' = n + 1 /\ ~(n >= n + 1)
    BY <1>1
  <2>3. ASSUME NEW i \in 0 .. 7, NEW j \in 0 .. 7, hits[1].bits = {i}, d = {j}
        PROVE  Apart' = {} <=> (8 * (n - hits[1].at) + i - j) % Repeats(sum) = 0
    <3>1. PICK p : p = Step(sum, Apart, {})
      OBVIOUS
    <3>2. PICK a \in Nat : a = hits[1].at /\ a < n
      BY <1>6, <1>12
    <3>3. PICK m \in Nat : m = w + i + 8 * (n - a)
      BY <1>1, <3>2
    <3>4. p = Power(sum, m)
      BY <1>8, <1>12, <2>3, <3>1, <3>2, <3>3
    <3>5. Apart' = Xor(p, Step(sum, {}, d))
      <4>1. {} \in Register(sum) /\ {} \in Byte
        BY DEF Register, Byte
      <4>2. Step(sum, Xor(Apart, {}), Xor({}, d)) = Xor(Step(sum, Apart, {}), Step(sum, {}, d))
        BY <1>1, <1>4, <4>1, StepLinear
      <4> QED
        BY <1>5, <3>1, <4>2, XorNothing
    <3>6. Step(sum, {}, d) = Power(sum, w + j)
      BY <1>1, <1>7, <2>3, BitBecomes
    <3>7. Apart' = {} <=> Power(sum, w + j) = Power(sum, m)
      BY <3>4, <3>5, <3>6, XorSame
    <3>8. PICK k \in Nat : k = w + j
      OBVIOUS
    <3>9. Power(sum, k) = Power(sum, m) <=> (m - k) % Repeats(sum) = 0
      BY <1>1, SamePower
    <3>10. m - k = 8 * (n - a) + i - j
      <4>1. PICK z \in Nat : z = 8 * (n - a)
        <5>1. PICK q \in Nat : q = n - a
          BY <1>1, <3>2
        <5> QED
          BY <5>1
      <4>2. m = w + i + z /\ k = w + j
        BY <3>3, <3>8, <4>1
      <4>3. m - k = z + i - j
        BY <4>2
      <4> QED
        BY <4>1, <4>3
    <3> QED
      BY <3>2, <3>7, <3>8, <3>9, <3>10
  <2> QED
    BY <2>1, <2>2, <2>3 DEF PairInv
<1> QED
  BY <1>9, <1>10, <1>11, <1>12

LEMMA PairStays ==
  ASSUME BurstInv, PairInv, NEW d \in Damage \cup {{}}, SendSum(d)
  PROVE  PairInv'
<1>1. /\ d \in Byte /\ n \in Nat /\ sum \in Sums /\ n' = n /\ sum' = sum /\ Apart' = Apart
      /\ n + Len(got) \in Nat /\ hits' = Hit(n + Len(got), d) /\ (d # {} => MayHit(n + Len(got), d))
  BY DataAssumption DEF SendSum, BurstInv, Registers, Byte, Apart
<1>2. PICK k : k = n + Len(got)
  OBVIOUS
<1>3. k \in Nat /\ k >= n
  <2>1. Len(got) \in Nat
    BY DEF BurstInv, Registers
  <2> QED
    BY <1>1, <1>2, <2>1
<1>4. /\ d = {} => hits' = hits
      /\ d # {} /\ hits = << >> => Len(hits') = 1 /\ hits'[1] = [ at |-> k, bits |-> d ]
      /\ d # {} /\ hits # << >> =>
           /\ Len(hits) = 1 /\ Len(hits') = 2
           /\ hits'[1] = hits[1] /\ hits'[2] = [ at |-> k, bits |-> d ]
           /\ Neighbours(hits[1], [ at |-> k, bits |-> d ])
  BY <1>1, <1>2, <1>3, HitMakes DEF BurstInv
<1>5. ~(k < n)
  BY <1>1, <1>3
<1>6. CASE d = {}
  BY <1>1, <1>4, <1>6 DEF PairInv
<1>7. CASE d # {} /\ hits = << >>
  <2>1. Len(hits') = 1 /\ hits'[1].at = k
    BY <1>4, <1>7
  <2> QED
    BY <1>1, <1>5, <2>1 DEF PairInv
<1>8. CASE d # {} /\ hits # << >>
  <2>1. Len(hits) = 1 /\ Len(hits') = 2 /\ hits'[1] = hits[1] /\ hits'[2].at = k
    BY <1>4, <1>8
  <2> QED
    BY <1>1, <1>5, <1>8, <2>1 DEF PairInv
<1> QED
  BY <1>6, <1>7, <1>8

(* Places, and what they are apart. *)
LEMMA PlaceOf ==
  ASSUME BurstInv, NEW h, NEW i \in 0 .. 7, h.bits = {i}, h.at \in Nat
  PROVE  Place(h) = IF sum = "crc16" /\ h.at >= n
                    THEN 8 * (2 * n + 1 - h.at) + 7 - i ELSE 8 * h.at + 7 - i
<1>1. (CHOOSE k \in h.bits : TRUE) = i
  OBVIOUS
<1> QED
  BY <1>1 DEF Place

LEMMA InvIsBitPairNoticed == BurstInv /\ PairInv => BitPairNoticed
<1>0. SUFFICES ASSUME BurstInv, PairInv, Over, Len(hits) = 2,
                    Single(hits[1].bits), Single(hits[2].bits)
             PROVE  Accepted <=> (Place(hits[2]) - Place(hits[1])) % Period = 0
  BY DEF BitPairNoticed
<1>1. /\ n \in Nat /\ sum \in Sums /\ HitsInv /\ ApartInv /\ hits \in Seq([ at : Nat, bits : Byte ])
  BY <1>0 DEF BurstInv, Registers
<1>2. /\ IsHit(hits[1]) /\ IsHit(hits[2]) /\ hits[1].at < hits[2].at
      /\ hits[2].at < n + Len(got) /\ hits # << >>
  <2>1. /\ IsHit(hits[1]) /\ IsHit(hits[2]) /\ hits[2].at < n + Len(got)
        /\ Neighbours(hits[1], hits[2]) /\ hits # << >>
    <3>1. hits # << >>
      BY <1>0
    <3> QED
      BY <1>0, <1>1, <3>1, Zenon DEF HitsInv
  <2> QED
    BY <2>1 DEF Neighbours, IsHit
<1>3. PICK a \in Nat, b \in Nat, i \in 0 .. 7, j \in 0 .. 7 :
        /\ a = hits[1].at /\ b = hits[2].at /\ a < b
        /\ hits[1].bits = {i} /\ hits[2].bits = {j}
  <2>1. PICK i \in 0 .. 7 : hits[1].bits = {i}
    BY <1>0, <1>2, OneBit DEF IsHit
  <2>2. PICK j \in 0 .. 7 : hits[2].bits = {j}
    BY <1>0, <1>2, OneBit DEF IsHit
  <2>3. hits[1].at \in Nat /\ hits[2].at \in Nat /\ hits[1].at < hits[2].at
    BY <1>2 DEF IsHit
  <2> QED
    BY <2>1, <2>2, <2>3
<1>4. \A k : DamageAt(k) = IF k = a THEN {i} ELSE IF k = b THEN {j} ELSE {}
  BY <1>0, <1>2, <1>3 DEF DamageAt
<1>5. PICK p \in Nat : p = Repeats(sum) /\ p = Period
  BY DEF Repeats, Period
<1>6. PICK x, y : x = Place(hits[1]) /\ y = Place(hits[2])
  OBVIOUS
<1>7. /\ x = IF sum = "crc16" /\ a >= n THEN 8 * (2 * n + 1 - a) + 7 - i ELSE 8 * a + 7 - i
      /\ y = IF sum = "crc16" /\ b >= n THEN 8 * (2 * n + 1 - b) + 7 - j ELSE 8 * b + 7 - j
  BY <1>0, <1>3, <1>6, PlaceOf
<1>15. /\ a < n => x = 8 * a + 7 - i
       /\ b < n => y = 8 * b + 7 - j
       /\ a = n /\ b = n + 1 /\ sum = "crc16" => x = 8 * (n + 1) + 7 - i /\ y = 8 * n + 7 - j
       /\ b = n /\ sum = "crc16" => y = 8 * (n + 1) + 7 - j
       /\ b = n + 1 /\ sum = "crc16" => y = 8 * n + 7 - j
       /\ sum = "crc8" => y = 8 * b + 7 - j
  <2>1. /\ a < n => ~(a >= n)
        /\ b < n => ~(b >= n)
        /\ b = n => 2 * n + 1 - b = n + 1 /\ b >= n
        /\ b = n + 1 => 2 * n + 1 - b = n /\ b >= n
        /\ a = n => 2 * n + 1 - a = n + 1 /\ a >= n
    BY <1>1
  <2> QED
    BY <1>7, <2>1
<1>8. Apart \in Register(sum)
  BY <1>0, <1>1, XorSubset DEF Apart, BurstInv, Registers, Register
<1>9. Low({}) = {} /\ High({}) = {}
  BY DEF Low, High
<1>10. b = n \/ b < n \/ (sum = "crc16" /\ b = n + 1)
  <2>1. (sum = "crc8" => Len(got) = 1) /\ (sum = "crc16" => Len(got) = 2)
    BY <1>0 DEF Over, InBytes
  <2>2. /\ sum = "crc8" => b < n + 1
        /\ sum = "crc16" => b < n + 2
    <3>1. b < n + Len(got)
      BY <1>2, <1>3
    <3> QED
      BY <2>1, <3>1
  <2>3. sum = "crc8" \/ sum = "crc16"
    BY <1>1 DEF Sums
  <2> QED
    BY <1>1, <2>2, <2>3
<1>11. CASE b < n
  <2>1. DamageAt(n) = {} /\ DamageAt(n + 1) = {}
    <3>1. n # a /\ n # b /\ n + 1 # a /\ n + 1 # b
      BY <1>1, <1>3, <1>11
    <3> QED
      BY <1>4, <3>1
  <2>2. ASSUME sum = "crc16"
        PROVE  Low(Apart) = {} /\ High(Apart) = {} <=> Apart = {}
    <3>1. Apart \in SUBSET (0 .. 15) /\ {} \in Byte
      BY <1>8, <2>2 DEF Register, Ones, Byte
    <3>2. PICK r, e : r = Apart /\ e = {}
      OBVIOUS
    <3>3. Low(r) = e /\ High(r) = {} <=> r = e
      BY <3>1, <3>2, BytesOfRegister
    <3> QED
      BY <3>2, <3>3
  <2>3. Accepted <=> Apart = {}
    <3>1. CASE sum = "crc8"
      BY <2>1, <3>1, <1>0, AcceptedIf
    <3>2. CASE sum = "crc16"
      BY <2>1, <2>2, <3>2, <1>0, AcceptedIf
    <3> QED
      BY <1>1, <3>1, <3>2 DEF Sums
  <2>4. Apart = {} <=> (8 * (b - a) + i - j) % p = 0
    <3>1. hits[2].at < n
      BY <1>3, <1>11
    <3>2. Apart = {} <=> (8 * (hits[2].at - hits[1].at) + i - j) % Repeats(sum) = 0
      <4>1. \A k, l \in 0 .. 7 : hits[1].bits = {k} /\ hits[2].bits = {l} =>
              (Apart = {} <=> (8 * (hits[2].at - hits[1].at) + k - l) % Repeats(sum) = 0)
        BY <1>0, <3>1 DEF PairInv
      <4> QED
        BY <1>3, <4>1, Zenon
    <3> QED
      BY <1>3, <1>5, <3>2
  <2>5. y - x = 8 * (b - a) + i - j
    <3>1. x = 8 * a + 7 - i /\ y = 8 * b + 7 - j
      <4>1. a < b
        BY <1>3
      <4>2. a < n /\ b < n
        BY <1>1, <1>11, <4>1
      <4> QED
        BY <1>15, <4>2
    <3> QED
      BY <3>1
  <2> QED
    BY <1>5, <1>6, <2>3, <2>4, <2>5
<1>12. CASE a >= n
  <2>1. a = n /\ b = n + 1 /\ sum = "crc16"
    BY <1>1, <1>3, <1>10, <1>12
  <2>2. Apart = {}
    BY <1>0, <1>1, <1>3, <1>12 DEF ApartInv
  <2>3. DamageAt(n) = {i}
    BY <1>4, <2>1
  <2>4. ~Accepted
    BY <1>9, <2>1, <2>2, <2>3, <1>0, AcceptedIf
  <2>5. y - x = i - j - 8
    BY <1>1, <1>15, <2>1
  <2>6. p = 32767
    BY <1>5, <2>1 DEF Repeats
  <2>7. (y - x) % p # 0
    BY <2>5, <2>6
  <2> QED
    BY <1>5, <1>6, <2>4, <2>7
<1>13. CASE a < n /\ b >= n
  <2>1. PICK m \in Nat : m = Width(sum) + i + 8 * (n - a - 1)
    <3>1. Width(sum) \in Nat /\ n - a - 1 \in Nat
      BY <1>1, <1>13 DEF Width
    <3> QED
      BY <3>1
  <2>2. Apart = Power(sum, m)
    <3>1. hits[1].at < n /\ hits[2].at >= n
      BY <1>3, <1>13
    <3>2. Apart = Power(sum, Width(sum) + i + 8 * (n - hits[1].at - 1))
      BY <1>0, <1>2, <1>3, <3>1 DEF PairInv
    <3> QED
      BY <1>3, <2>1, <3>2
  <2>6. x = 8 * a + 7 - i
    BY <1>13, <1>15
  <2>3. CASE sum = "crc8"
    <3>1. b = n /\ DamageAt(n) = {j}
      <4>1. b = n /\ n # a
        BY <1>1, <1>10, <1>13, <2>3
      <4> QED
        BY <1>4, <4>1
    <3>2. Accepted <=> Power(sum, m) = Power(sum, j)
      <4>1. Power(sum, j) = {j}
        BY <2>3, LowPowers DEF Ones, Sums
      <4>2. Accepted <=> Apart = {j}
        BY <2>3, <3>1, <1>0, AcceptedIf
      <4> QED
        BY <2>2, <4>1, <4>2
    <3>3. Power(sum, j) = Power(sum, m) <=> (m - j) % p = 0
      <4>1. j \in Nat
        OBVIOUS
      <4>2. Power(sum, j) = Power(sum, m) <=> (m - j) % Repeats(sum) = 0
        BY <1>1, <4>1, SamePower, Zenon
      <4> QED
        BY <1>5, <4>2, Zenon
    <3>4. m - j = y - x
      <4>1. y = 8 * n + 7 - j /\ m = 8 + i + 8 * (n - a - 1)
        BY <1>15, <2>1, <2>3, <3>1 DEF Width
      <4> QED
        BY <1>1, <2>6, <4>1
    <3> QED
      BY <1>5, <1>6, <3>2, <3>3, <3>4
  <2>4. CASE sum = "crc16" /\ b = n
    <3>1. DamageAt(n) = {j} /\ DamageAt(n + 1) = {}
      BY <1>1, <1>3, <1>4, <1>13, <2>4
    <3>2. Accepted <=> Power(sum, m) = Power(sum, j)
      <4>1. Power(sum, j) = {j}
        BY <2>4, LowPowers DEF Ones, Sums
      <4>2. Accepted <=> Low(Apart) = {j} /\ High(Apart) = {}
        BY <2>4, <3>1, <1>0, AcceptedIf
      <4>3. {j} \in Byte /\ Apart \in SUBSET (0 .. 15)
        BY <1>8, <2>4 DEF Byte, Register, Ones
      <4>4. Low(Apart) = {j} /\ High(Apart) = {} <=> Apart = {j}
        <5>1. PICK r, e : r = Apart /\ e = {j}
          OBVIOUS
        <5>2. Low(r) = e /\ High(r) = {} <=> r = e
          BY <4>3, <5>1, BytesOfRegister
        <5> QED
          BY <5>1, <5>2
      <4> QED
        BY <2>2, <4>1, <4>2, <4>4, Zenon
    <3>3. Power(sum, j) = Power(sum, m) <=> (m - j) % p = 0
      <4>1. j \in Nat
        OBVIOUS
      <4>2. Power(sum, j) = Power(sum, m) <=> (m - j) % Repeats(sum) = 0
        BY <1>1, <4>1, SamePower, Zenon
      <4> QED
        BY <1>5, <4>2, Zenon
    <3>4. m - j = y - x
      <4>1. y = 8 * (n + 1) + 7 - j /\ m = 16 + i + 8 * (n - a - 1)
        BY <1>15, <2>1, <2>4 DEF Width
      <4> QED
        BY <1>1, <2>6, <4>1
    <3> QED
      BY <1>5, <1>6, <3>2, <3>3, <3>4
  <2>5. CASE sum = "crc16" /\ b = n + 1
    <3>1. DamageAt(n) = {} /\ DamageAt(n + 1) = {j}
      BY <1>1, <1>3, <1>4, <1>13, <2>5
    <3>2. Accepted <=> Power(sum, m) = Power(sum, j + 8)
      <4>1. Power(sum, j + 8) = {j + 8}
        <5>1. j + 8 \in Ones("crc16")
          BY DEF Ones
        <5> QED
          BY <2>5, <5>1, LowPowers DEF Sums
      <4>2. Accepted <=> Low(Apart) = {} /\ High(Apart) = {j}
        BY <2>5, <3>1, <1>0, AcceptedIf
      <4>3. Low(Apart) = {} /\ High(Apart) = {j} <=> Apart = {j + 8}
        <5>1. Apart \in SUBSET (0 .. 15)
          BY <1>8, <2>5 DEF Register, Ones
        <5>2. Low({j + 8}) = {} /\ High({j + 8}) = {j} /\ Raise({j}) = {j + 8}
          BY DEF Low, High, Raise
        <5>3. Low(Apart) = {} => Apart = Raise(High(Apart))
          BY <5>1, BytesOfRegister
        <5> QED
          BY <5>2, <5>3
      <4> QED
        BY <2>2, <4>1, <4>2, <4>3
    <3>3. PICK k \in Nat : k = j + 8
      OBVIOUS
    <3>4. Power(sum, k) = Power(sum, m) <=> (m - k) % p = 0
      <4>1. Power(sum, k) = Power(sum, m) <=> (m - k) % Repeats(sum) = 0
        BY <1>1, SamePower, Zenon
      <4> QED
        BY <1>5, <4>1, Zenon
    <3>5. m - k = y - x
      <4>1. y = 8 * n + 7 - j /\ m = 16 + i + 8 * (n - a - 1)
        BY <1>15, <2>1, <2>5 DEF Width
      <4> QED
        BY <1>1, <2>6, <3>3, <4>1
    <3> QED
      BY <1>5, <1>6, <3>2, <3>3, <3>4, <3>5
  <2> QED
    BY <1>1, <1>10, <1>13, <2>3, <2>4, <2>5 DEF Sums
<1> QED
  BY <1>1, <1>3, <1>11, <1>12, <1>13

(* Two bits that change anywhere in a message of any length are noticed     *)
(* unless a multiple of 127 places (egts_crc8) or of 32767 (egts_crc16)    *)
(* lies between them, and then they are not: whatever the data.            *)
THEOREM BitPairsAreNoticed == Spec => []BitPairNoticed
<1>1. Init => BurstInv /\ PairInv
  BY BurstInvFirst DEF Init, PairInv
<1>2. BurstInv /\ PairInv /\ [Next]_vars => (BurstInv /\ PairInv)'
  <2> SUFFICES ASSUME BurstInv, PairInv, [Next]_vars
               PROVE  (BurstInv /\ PairInv)'
    OBVIOUS
  <2>1. BurstInv'
    BY BurstStep
  <2>2. CASE UNCHANGED vars
    BY <2>1, <2>2 DEF PairInv, Apart, vars
  <2>3. CASE Next
    BY <2>1, <2>3, PairStep, PairStays DEF Next
  <2> QED
    BY <2>2, <2>3
<1> QED
  BY <1>1, <1>2, InvIsBitPairNoticed, PTL DEF Spec
=============================================================================
