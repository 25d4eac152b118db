-------------------------- MODULE RecordWalkProofs --------------------------
(***************************************************************************)
(* What holds of RecordWalk for every set of frames: the walk never leaves *)
(* the frame by more than a subrecord header and the overshoot, gets on    *)
(* with every step until pos wraps, and decodes nothing twice up to there. *)
(* pos can wrap in frames only that leave less room below 2^16, because a  *)
(* subrecord is only read while pos is in front of the end of the frame.   *)
(* And damage in a frame does not reach what stands in front of it.        *)
(***************************************************************************)
EXTENDS RecordWalk, SequenceTheorems, TLAPS

(* The end that the walk never passes. *)
Limit == frame.size + SubHead + Overshoot

(* Inside a record, until pos has wrapped: rl is what was read behind the  *)
(* head, and every subrecord kept ends in front of pos.                    *)
InRecord ==
  /\ HeadLen(Rec) <= pos /\ rl = pos - HeadLen(Rec)
  /\ \A i \in DOMAIN sbrs : sbrs[i] + SubHead <= base + pos

WalkInv ==
  /\ base <= Limit
  /\ pc = "record" => base < frame.size /\ base + pos <= Limit
  /\ pc = "record" /\ ~turned => InRecord
  /\ turned => Long(frame)
-----------------------------------------------------------------------------
LEMMA CutTo ==
  ASSUME NEW n \in Nat, NEW m \in Nat, m > 0
  PROVE  /\ n % m \in 0 .. m - 1
         /\ n % m <= n
         /\ n < m => n % m = n
OBVIOUS

LEMMA NotFurther ==
  ASSUME NEW a \in Nat, NEW m \in Nat, NEW n \in Nat, NEW l \in Nat, m <= n, a + n <= l
  PROVE  a + m <= l
OBVIOUS

LEMMA LeadsOn ==
  ASSUME NEW a \in Nat, NEW m \in Nat, NEW n \in Nat, m + 3 <= n
  PROVE  a + m < a + n /\ a + m + 3 <= a + n
OBVIOUS

(* Data that ends in front of what is left ends a header behind it at most.  *)
LEMMA EndOfData ==
  ASSUME NEW b \in Nat, NEW p \in Nat, NEW s \in Nat, NEW n \in Nat, n <= (s - b) - p
  PROVE  b + p + 3 + n <= s + 3
OBVIOUS

(* What the frame shows at the offsets the walk looks at.                    *)
LEMMA Views ==
  ASSUME TypeOK, base < frame.size
  PROVE  /\ frame.size \in Nat /\ frame.start \in 0 .. frame.size
         /\ frame.size < Modulus /\ Limit \in Nat /\ frame.size <= Limit
         /\ Left \in Nat /\ Left = frame.size - base /\ Left > 0
         /\ Rec.rl \in Nat /\ HeadLen(Rec) \in Nat /\ 7 <= HeadLen(Rec)
<1>1. IsFrame(frame)
  BY FramesAssumption DEF TypeOK
<1>2. /\ frame.size \in Nat /\ frame.start \in 0 .. frame.size
      /\ frame.size < Modulus /\ base \in Nat
  BY <1>1, SizesAssumption DEF IsFrame, TypeOK
<1>3. Rec \in RecHead
  BY <1>1, <1>2 DEF IsFrame, Rec
<1>4. Rec.rl \in Nat /\ Rec.opt \in 0 .. 3
  BY <1>3 DEF RecHead
<1> QED
  BY <1>2, <1>4, SizesAssumption DEF Limit, Left, HeadLen, SubHead

(* Behind one subrecord the walk is not over the limit, and has led on       *)
(* unless pos was cut.                                                      *)
LEMMA OneSubrecord ==
  ASSUME TypeOK, base < frame.size, ReadSubrecord, pos' = Behind % Modulus
  PROVE  /\ Behind \in Nat /\ pos + SubHead <= Behind /\ base + Behind <= Limit
         /\ pos' \in 0 .. Modulus - 1 /\ pos' \in Nat /\ pos' <= Behind
         /\ Behind < Modulus => pos' = Behind
         /\ Modulus <= Behind => Long(frame)
         /\ turned' = (turned \/ Modulus <= Behind)
         /\ base + pos + SubHead < frame.size
<1>0. pos \in Nat /\ base \in Nat /\ Modulus \in Nat /\ Overshoot \in Nat
  BY SizesAssumption DEF TypeOK
<1>1. pos + SubHead < Left /\ Sub.len <= Left - pos
  BY DEF ReadSubrecord, MoreSubrecords, DataFits
<1>2. base + pos \in 0 .. frame.size
  BY <1>0, <1>1, Views DEF SubHead
<1>3. Sub.len \in Nat /\ Sub.takes \in 0 .. Sub.len + Overshoot
  BY <1>2, FramesAssumption DEF TypeOK, IsFrame, Sub
<1>4. Sub.takes \in Nat /\ Sub.takes <= Sub.len + Overshoot
  BY <1>3, SizesAssumption
<1>5. Behind \in Nat /\ base + Behind <= Limit /\ pos + SubHead <= Behind
  BY <1>0, <1>1, <1>3, <1>4, Views DEF Limit, SubHead, Behind
<1>6. Modulus > 0
  BY <1>0, Views
<1>7. pos' = Behind % Modulus /\ turned' = (turned \/ Modulus <= Behind)
  BY DEF ReadSubrecord
<1>8. Modulus <= Behind => Long(frame)
  <2> HIDE DEF Behind
  <2> QED
    BY <1>0, <1>5, Views DEF Long, Limit
<1>9. base + pos + SubHead < frame.size
  BY <1>0, <1>1, Views DEF SubHead
<1> HIDE DEF Behind
<1>10. pos' \in 0 .. Modulus - 1 /\ pos' <= Behind /\ (Behind < Modulus => pos' = Behind)
  BY <1>0, <1>5, <1>6, <1>7, CutTo
<1> QED
  BY <1>0, <1>5, <1>7, <1>8, <1>9, <1>10

(* Where pos was not cut, rl was not either: it is less than pos.            *)
LEMMA OneSubrecordMore ==
  ASSUME TypeOK, base < frame.size, InRecord, KeepSubrecord, Behind < Modulus
  PROVE  rl' = pos' - HeadLen(Rec) /\ HeadLen(Rec) <= pos'
<1> DEFINE more == rl + Sub.takes + SubHead
           h == HeadLen(Rec)
<1>1. /\ Behind \in Nat /\ pos + SubHead <= Behind /\ pos' = Behind
  BY OneSubrecord DEF KeepSubrecord
<1>2. h \in Nat /\ h <= pos /\ rl = pos - h /\ pos \in Nat /\ Modulus \in Nat
  BY Views, SizesAssumption DEF InRecord, TypeOK
<1>3. rl' = more % Modulus
  BY DEF KeepSubrecord
<1>4. more = Behind - h
  <2>1. Sub.takes \in Int
    <3>1. base \in Nat /\ base + pos + SubHead < frame.size /\ frame.size \in Nat
      BY OneSubrecord, Views DEF KeepSubrecord, TypeOK
    <3>2. base + pos \in 0 .. frame.size
      BY <1>2, <3>1 DEF SubHead
    <3>3. Sub.len \in Nat /\ Sub.takes \in 0 .. Sub.len + Overshoot
      BY <3>2, FramesAssumption DEF TypeOK, IsFrame, Sub
    <3> QED
      BY <3>3
  <2> QED
    BY <1>2, <2>1 DEF Behind, SubHead
<1> HIDE DEF more, h, Behind
<1>5. more \in Nat /\ more < Modulus /\ Modulus > 0
  BY <1>1, <1>2, <1>4 DEF SubHead
<1>6. rl' = more
  BY <1>2, <1>3, <1>5, CutTo
<1> QED
  BY <1>1, <1>2, <1>4, <1>6 DEF h, SubHead

(* The type invariant and the bounds of the walk are kept together: the      *)
(* offsets are typed because they stay in the frame.                         *)
LEMMA WalkPreserved == TypeOK /\ WalkInv /\ [Next]_vars => TypeOK' /\ WalkInv'
<1> SUFFICES ASSUME TypeOK, WalkInv, [Next]_vars PROVE TypeOK' /\ WalkInv'
  OBVIOUS
<1>0. base \in Nat /\ pos \in Nat /\ Modulus \in Nat /\ Overshoot \in Nat
  BY SizesAssumption DEF TypeOK
<1>1. CASE OpenRecord
  <2>1. /\ base < frame.size /\ HeadLen(Rec) <= Left
        /\ frame' = frame /\ base' = base /\ turned' = turned
    BY <1>1 DEF OpenRecord, HeadFits
  <2>2. /\ pos' = HeadLen(Rec) /\ rl' = 0 /\ sbrs' = << >> /\ count' = 0
        /\ recs' = recs /\ pc' = "record"
    BY <1>1 DEF OpenRecord
  <2>3. HeadLen(Rec) < Modulus /\ base + HeadLen(Rec) <= Limit
    BY <1>0, <2>1, Views
  <2>4. pos' \in 0 .. Modulus - 1 /\ rl' \in 0 .. Modulus - 1
    BY <1>0, <2>1, <2>2, <2>3, Views
  <2>5. TypeOK'
    BY <1>0, <2>1, <2>2, <2>4, EmptySeq DEF TypeOK
  <2>6. Rec' = Rec /\ Limit' = Limit /\ Long(frame)' = Long(frame)
    BY <2>1 DEF Rec, Limit
  <2>7. InRecord'
    <3>1. rl' = pos' - HeadLen(Rec) /\ HeadLen(Rec) \in Nat
      BY <2>1, <2>2, Views
    <3>2. DOMAIN sbrs' = {}
      BY <2>2
    <3> QED
      BY <2>2, <2>6, <3>1, <3>2 DEF InRecord
  <2> QED
    BY <2>1, <2>2, <2>3, <2>5, <2>6, <2>7 DEF WalkInv
<1>2. CASE KeepSubrecord
  <2>1. /\ pc = "record" /\ base < frame.size
        /\ ReadSubrecord /\ pos' = Behind % Modulus
    BY <1>2 DEF KeepSubrecord, ReadSubrecord, MoreSubrecords, WalkInv
  <2>2. /\ frame' = frame /\ base' = base /\ pc' = pc /\ recs' = recs
        /\ Rec' = Rec /\ Limit' = Limit /\ Long(frame)' = Long(frame)
    BY <1>2 DEF KeepSubrecord, Rec, Limit
  <2>3. /\ Behind \in Nat /\ pos + SubHead <= Behind /\ base + Behind <= Limit
        /\ pos' \in 0 .. Modulus - 1 /\ pos' \in Nat /\ pos' <= Behind
        /\ Behind < Modulus => pos' = Behind
        /\ Modulus <= Behind => Long(frame)
        /\ turned' = (turned \/ Modulus <= Behind)
    BY <2>1, OneSubrecord
  <2>4. rl' \in 0 .. Modulus - 1
    <3>1. rl + Sub.takes + SubHead \in Nat
      <4>1. base + pos + SubHead < frame.size /\ frame.size \in Nat
        BY <2>1, OneSubrecord, Views
      <4>2. base + pos \in 0 .. frame.size
        BY <1>0, <4>1 DEF SubHead
      <4>3. Sub.len \in Nat /\ Sub.takes \in 0 .. Sub.len + Overshoot
        BY <4>2, FramesAssumption DEF TypeOK, IsFrame, Sub
      <4>4. rl \in Nat
        BY <1>0 DEF TypeOK
      <4> QED
        BY <4>3, <4>4 DEF SubHead
    <3>2. Modulus > 0
      BY <1>0, <2>1, Views
    <3> QED
      BY <1>0, <1>2, <3>1, <3>2, CutTo DEF KeepSubrecord
  <2>5. sbrs' = (IF turned THEN sbrs ELSE Append(sbrs, base + pos))
        /\ count' = (count + 1) % 256
    BY <2>1 DEF ReadSubrecord
  <2>6. sbrs \in Seq(Nat) /\ base + pos \in Nat /\ count \in 0 .. 255
    BY <1>0 DEF TypeOK
  <2>7. sbrs' \in Seq(Nat) /\ count' \in 0 .. 255
    BY <2>5, <2>6, AppendProperties
  <2>8. turned' \in BOOLEAN
    BY <2>3
  <2>9. TypeOK'
    BY <2>2, <2>3, <2>4, <2>7, <2>8 DEF TypeOK
  <2>10. base + pos' <= Limit
    <3>1. Limit \in Nat
      BY <2>1, Views
    <3> HIDE DEF Behind, Limit
    <3> QED
      BY <1>0, <2>3, <3>1, NotFurther
  <2>11. ASSUME ~turned'
         PROVE  InRecord'
    <3>1. ~turned /\ InRecord /\ Behind < Modulus
      <4>1. ~turned /\ ~(Modulus <= Behind)
        BY <2>3, <2>11
      <4> HIDE DEF Behind
      <4> QED
        BY <1>0, <2>1, <2>3, <4>1 DEF WalkInv
    <3>2. rl' = pos' - HeadLen(Rec) /\ HeadLen(Rec) <= pos'
      BY <1>2, <2>1, <3>1, OneSubrecordMore
    <3>3. pos' = Behind /\ sbrs' = Append(sbrs, base + pos)
      BY <2>3, <2>5, <3>1
    <3>4. pos + SubHead <= pos'
      BY <2>3, <3>3
    <3>5. \A i \in DOMAIN sbrs : sbrs[i] \in Nat /\ sbrs[i] + SubHead <= base + pos
      BY <2>6, <3>1, LenProperties, ElementOfSeq DEF InRecord
    <3>6. \A i \in DOMAIN sbrs' : (i \in DOMAIN sbrs /\ sbrs'[i] = sbrs[i])
                                    \/ sbrs'[i] = base + pos
      BY <2>6, <3>3, AppendProperties, LenProperties
    <3>7. \A i \in DOMAIN sbrs' : sbrs'[i] + SubHead <= base + pos'
      <4>1. pos' \in Nat /\ pos + 3 <= pos'
        BY <2>3, <3>4 DEF SubHead
      <4> QED
        BY <1>0, <3>5, <3>6, <4>1 DEF SubHead
    <3> QED
      BY <2>2, <3>2, <3>7 DEF InRecord
  <2>12. turned' => Long(frame)
    BY <2>3 DEF WalkInv
  <2> QED
    BY <2>1, <2>2, <2>9, <2>10, <2>11, <2>12 DEF WalkInv
<1>3. CASE GiveUp
  <2>1. TypeOK'
    BY <1>3, EmptySeq DEF GiveUp, TypeOK
  <2> QED
    BY <1>3, <2>1 DEF GiveUp, WalkInv, Limit
<1>4. CASE CloseRecord /\ ~GiveUp
  <2>1. /\ pc = "record" /\ base < frame.size /\ base + pos <= Limit
        /\ recs' = (IF turned THEN recs ELSE Append(recs, [ at |-> base, sbrs |-> sbrs ]))
        /\ base' = base + pos /\ pc' = "packet"
        /\ UNCHANGED <<frame, pos, rl, sbrs, count, turned>>
    BY <1>4 DEF CloseRecord, WalkInv
  <2>2. [ at |-> base, sbrs |-> sbrs ] \in Record
    BY DEF TypeOK, Record
  <2>3. recs' \in Seq(Record)
    BY <2>1, <2>2, AppendProperties DEF TypeOK
  <2>4. TypeOK'
    BY <1>0, <2>1, <2>3 DEF TypeOK
  <2> QED
    BY <2>1, <2>4 DEF WalkInv, Limit
<1>5. CASE Finish
  <2>1. pc' = "done" /\ UNCHANGED <<frame, base, pos, rl, sbrs, count, recs, turned>>
    BY <1>5 DEF Finish
  <2>2. TypeOK'
    BY <2>1 DEF TypeOK
  <2> QED
    BY <2>1, <2>2 DEF WalkInv, Limit
<1>6. CASE UNCHANGED vars
  BY <1>6 DEF vars, TypeOK, WalkInv, InRecord, Limit, Rec
<1> QED
  BY <1>1, <1>2, <1>3, <1>4, <1>5, <1>6 DEF Next, RefuseRecord, LoseRecord

(* The type invariant together with the bounds it needs.                     *)
LEMMA WalkInvariant == Spec => [](TypeOK /\ WalkInv)
<1>1. Init => TypeOK /\ WalkInv
  <2> SUFFICES ASSUME Init PROVE TypeOK /\ WalkInv
    OBVIOUS
  <2>1. IsFrame(frame) /\ base = frame.start /\ pc = "packet"
    BY FramesAssumption DEF Init
  <2>2. base \in 0 .. frame.size /\ frame.size \in Nat /\ frame.size < Modulus
    BY <2>1, SizesAssumption DEF IsFrame, SubHead
  <2>3. 0 \in 0 .. Modulus - 1
    BY <2>2, SizesAssumption
  <2>4. TypeOK
    <3>1. << >> \in Seq(Nat) /\ << >> \in Seq(Record) /\ 0 \in 0 .. 255 /\ base \in Nat
      BY <2>2, EmptySeq
    <3> QED
      BY <2>3, <3>1 DEF Init, TypeOK
  <2>5. turned = FALSE
    BY DEF Init
  <2> QED
    BY <2>1, <2>2, <2>4, <2>5, SizesAssumption DEF WalkInv, Limit, SubHead
<1> QED
  BY <1>1, WalkPreserved, PTL DEF Spec

(* Types, for every set of frames that fdl can give the length of.           *)
THEOREM TypeCorrect == Spec => []TypeOK
  BY WalkInvariant, PTL

(* pos, and rl with it, is cut to 16 bits in long frames only: those of more *)
(* than 65513 bytes.                                                        *)
TurnsInLongFramesOnly == turned => Long(frame)

THEOREM ShortFramesDoNotTurn == Spec => []TurnsInLongFramesOnly
<1>1. WalkInv => TurnsInLongFramesOnly
  BY DEF WalkInv, TurnsInLongFramesOnly
<1> QED
  BY <1>1, WalkInvariant, PTL
-----------------------------------------------------------------------------
(* Every step leads on, but one that cuts pos, and only a long frame has     *)
(* such a step. In all others SetData cannot read the same bytes again.     *)
THEOREM WalkLeadsOn == Spec => WalksOn
<1> DEFINE On == \/ pc' = "done"
                 \/ Here < Here'
                 \/ Here = Here' /\ pc # pc'
                 \/ pc = "record" /\ Modulus <= Behind /\ Long(frame)
<1>1. TypeOK /\ WalkInv /\ [Next]_vars => [On]_vars
  <2> SUFFICES ASSUME TypeOK, WalkInv, Next PROVE On
    OBVIOUS
  <2>0. base \in Nat /\ pos \in Nat /\ Modulus \in Nat
    BY SizesAssumption DEF TypeOK
  <2>1. CASE OpenRecord
    <3>1. base < frame.size /\ base' = base /\ pos' = HeadLen(Rec)
          /\ pc = "packet" /\ pc' = "record"
      BY <2>1 DEF OpenRecord
    <3> QED
      BY <2>0, <3>1, Views DEF Here
  <2>2. CASE KeepSubrecord
    <3>1. /\ pc = "record" /\ base < frame.size /\ pc' = pc /\ base' = base
          /\ ReadSubrecord /\ pos' = Behind % Modulus
      BY <2>2 DEF KeepSubrecord, ReadSubrecord, MoreSubrecords, WalkInv
    <3>2. /\ Behind \in Nat /\ pos + 3 <= Behind /\ pos' \in Nat
          /\ Behind < Modulus => pos' = Behind
          /\ Modulus <= Behind => Long(frame)
      BY <3>1, OneSubrecord DEF SubHead
    <3>3. CASE Modulus <= Behind
      BY <3>1, <3>2, <3>3
    <3>4. CASE Behind < Modulus
      <4>1. Here = base + pos /\ Here' = base + pos'
        BY <3>1 DEF Here
      <4>2. base + pos < base + pos'
        <5>1. pos + 3 <= pos' /\ pos' \in Nat
          BY <3>2, <3>4
        <5> QED
          BY <2>0, <5>1, LeadsOn
      <4> QED
        BY <4>1, <4>2
    <3>5. Modulus <= Behind \/ Behind < Modulus
      <4> HIDE DEF Behind
      <4> QED
        BY <2>0, <3>2
    <3> QED
      BY <3>3, <3>4, <3>5
  <2>3. CASE CloseRecord /\ ~GiveUp
    BY <2>0, <2>3 DEF CloseRecord, Here
  <2>4. CASE GiveUp \/ Finish
    BY <2>4 DEF GiveUp, Finish
  <2> QED
    BY <2>1, <2>2, <2>3, <2>4 DEF Next, RefuseRecord, LoseRecord
<1> QED
  BY <1>1, WalkInvariant, PTL DEF Spec, WalksOn

(* What a call may still do: two steps for each byte up to the limit, since  *)
(* closing a record leads no further, and one to return.                   *)
Budget ==
  IF pc = "done" THEN 0
  ELSE 2 * (Limit - Here) + (IF pc = "record" THEN 2 ELSE 1)

BudgetShrinks == [][turned' \/ Budget' < Budget]_vars

LEMMA LessLeft ==
  ASSUME NEW a \in Nat, NEW b \in Nat, NEW l \in Nat, a + 3 <= b, b <= l
  PROVE  /\ 2 * (l - b) + 2 < 2 * (l - a) + 1
         /\ 2 * (l - b) + 2 < 2 * (l - a) + 2
OBVIOUS

HereInLimit == Here \in Nat /\ Limit \in Nat /\ Here <= Limit

LEMMA StaysInLimit == TypeOK /\ WalkInv => HereInLimit
<1> SUFFICES ASSUME TypeOK, WalkInv PROVE HereInLimit
  OBVIOUS
<1>1. IsFrame(frame) /\ base \in Nat /\ pos \in Nat
  BY FramesAssumption DEF TypeOK
<1>2. Limit \in Nat
  BY <1>1, SizesAssumption DEF IsFrame, Limit, SubHead
<1> QED
  BY <1>1, <1>2 DEF WalkInv, Here, HereInLimit

(* What WalkEnds rests on: as long as pos has not wrapped, SetData does at   *)
(* most two steps for each byte of the frame and of the 22 behind it. With   *)
(* ShortFramesDoNotTurn: so it does in every frame that is not long.        *)
THEOREM WalkIsBounded == Spec => [](Budget \in Nat) /\ BudgetShrinks
<1>1. HereInLimit => Budget \in Nat
  BY DEF HereInLimit, Budget
<1>2. TypeOK /\ WalkInv /\ HereInLimit /\ HereInLimit' /\ [Next]_vars
        => [turned' \/ Budget' < Budget]_vars
  <2> SUFFICES ASSUME TypeOK, WalkInv, HereInLimit, HereInLimit', Next, ~turned'
               PROVE  Budget' < Budget
    OBVIOUS
  <2>0. base \in Nat /\ pos \in Nat /\ Modulus \in Nat /\ Limit' = Limit
    BY SizesAssumption
       DEF TypeOK, Next, OpenRecord, RefuseRecord, KeepSubrecord, LoseRecord, CloseRecord,
           Finish, GiveUp, Limit
  <2>1. CASE GiveUp \/ Finish
    <3>1. pc # "done" /\ pc' = "done"
      BY <2>1 DEF Next, OpenRecord, RefuseRecord, KeepSubrecord, ReadSubrecord, LoseRecord,
                  CloseRecord, GiveUp, Finish, MoreSubrecords
    <3> HIDE DEF Here, Limit
    <3> QED
      BY <3>1 DEF Budget, HereInLimit
  <2>2. CASE CloseRecord /\ ~GiveUp
    <3>1. pc = "record" /\ pc' = "packet" /\ Here' = Here
      BY <2>0, <2>2 DEF CloseRecord, Here
    <3> HIDE DEF Here, Limit
    <3> QED
      BY <2>0, <3>1 DEF Budget, HereInLimit
  <2>3. CASE OpenRecord
    <3>1. base < frame.size /\ base' = base /\ pos' = HeadLen(Rec)
          /\ pc = "packet" /\ pc' = "record"
      BY <2>3 DEF OpenRecord
    <3>2. Here + 7 <= Here'
      BY <2>0, <3>1, Views DEF Here
    <3> HIDE DEF Here, Limit
    <3>3. /\ Here \in Nat /\ Here' \in Nat /\ Limit \in Nat
          /\ Here + 3 <= Here' /\ Here' <= Limit
      BY <2>0, <3>2 DEF HereInLimit
    <3>4. Budget = 2 * (Limit - Here) + 1 /\ Budget' = 2 * (Limit - Here') + 2
      BY <2>0, <3>1 DEF Budget
    <3> QED
      BY <3>3, <3>4, LessLeft
  <2>4. CASE KeepSubrecord
    <3>1. /\ pc = "record" /\ base < frame.size /\ pc' = "record" /\ base' = base
          /\ ReadSubrecord /\ pos' = Behind % Modulus
      BY <2>4 DEF KeepSubrecord, ReadSubrecord, MoreSubrecords, WalkInv
    <3>2. pos + SubHead <= pos' /\ pos' \in Nat
      <4>1. /\ Behind \in Nat /\ pos + SubHead <= Behind /\ pos' \in Nat
            /\ Behind < Modulus => pos' = Behind
            /\ turned' = (turned \/ Modulus <= Behind)
        BY <3>1, OneSubrecord
      <4>2. ~(Modulus <= Behind)
        BY <4>1, Zenon
      <4> HIDE DEF Behind
      <4>3. pos' = Behind
        BY <2>0, <4>1, <4>2
      <4> QED
        BY <4>1, <4>3
    <3>3. Here = base + pos /\ Here' = base + pos' /\ pos + 3 <= pos'
      <4>1. Here = base + pos /\ Here' = base + pos'
        BY <3>1 DEF Here
      <4>2. pos + 3 <= pos'
        BY <3>2 DEF SubHead
      <4> QED
        BY <4>1, <4>2
    <3>4. Here + 3 <= Here'
      <4>1. (base + pos) + 3 <= base + pos'
        BY <2>0, <3>2, <3>3, LeadsOn
      <4> QED
        BY <3>3, <4>1
    <3> HIDE DEF Here, Limit
    <3>5. /\ Here \in Nat /\ Here' \in Nat /\ Limit \in Nat /\ Here' <= Limit
      BY <2>0 DEF HereInLimit
    <3>6. Budget = 2 * (Limit - Here) + 2 /\ Budget' = 2 * (Limit - Here') + 2
      BY <2>0, <3>1 DEF Budget
    <3> QED
      BY <3>4, <3>5, <3>6, LessLeft
  <2> QED
    BY <2>1, <2>2, <2>3, <2>4 DEF Next, RefuseRecord, LoseRecord
<1> QED
  BY <1>1, <1>2, StaysInLimit, WalkInvariant, PTL DEF Spec, BudgetShrinks

(* Nothing handed to SetSRD, and nothing the walk steps to, is further       *)
(* behind the frame than one subrecord header and the overshoot.             *)
KeptInFrame ==
  \A i \in DOMAIN sbrs :
    /\ sbrs[i] + SubHead < frame.size
    /\ sbrs[i] + SubHead + SubAt(frame, sbrs[i]).len <= frame.size + SubHead

THEOREM WalkStaysNearFrame == Spec => []StaysNearFrame
<1>1. Init => KeptInFrame
  BY DEF Init, KeptInFrame
<1>2. TypeOK /\ WalkInv /\ KeptInFrame /\ [Next]_vars => KeptInFrame'
  <2> SUFFICES ASSUME TypeOK, WalkInv, KeptInFrame, [Next]_vars PROVE KeptInFrame'
    OBVIOUS
  <2>1. CASE KeepSubrecord
    <3>1. /\ frame' = frame /\ Sub.len <= Left - pos /\ base < frame.size
          /\ ReadSubrecord /\ pos' = Behind % Modulus
      BY <2>1 DEF KeepSubrecord, ReadSubrecord, MoreSubrecords, DataFits, WalkInv
    <3>2. /\ sbrs' = sbrs \/ sbrs' = Append(sbrs, base + pos)
          /\ base + pos + SubHead < frame.size
      BY <3>1, OneSubrecord DEF ReadSubrecord
    <3>3. base \in Nat /\ pos \in Nat /\ sbrs \in Seq(Nat) /\ base + pos \in Nat
      BY DEF TypeOK
    <3>4. \A i \in DOMAIN sbrs' : (i \in DOMAIN sbrs /\ sbrs'[i] = sbrs[i])
                                    \/ sbrs'[i] = base + pos
      <4>1. CASE sbrs' = sbrs
        BY <4>1
      <4>2. CASE sbrs' = Append(sbrs, base + pos)
        BY <3>3, <4>2, AppendProperties, LenProperties
      <4> QED
        BY <3>2, <4>1, <4>2
    <3>5. SubAt(frame, base + pos).len \in Nat
      <4>1. base + pos \in 0 .. frame.size
        BY <3>1, <3>2, <3>3, Views DEF SubHead
      <4> QED
        BY <4>1, FramesAssumption DEF TypeOK, IsFrame
    <3>6. base + pos + SubHead + SubAt(frame, base + pos).len <= frame.size + SubHead
      <4>1. SubAt(frame, base + pos).len <= Left - pos
        BY <3>1 DEF Sub
      <4>2. frame.size \in Nat /\ Left = frame.size - base /\ SubHead = 3
        BY <3>1, Views DEF SubHead
      <4>3. PICK n \in Nat : n = SubAt(frame, base + pos).len
        BY <3>5
      <4>4. n <= (frame.size - base) - pos
        BY <4>1, <4>2, <4>3
      <4> QED
        BY <3>3, <4>2, <4>3, <4>4, EndOfData
    <3> QED
      BY <3>1, <3>2, <3>4, <3>6 DEF KeptInFrame
  <2>2. CASE sbrs' = << >>
    BY <2>2 DEF KeptInFrame
  <2>3. CASE UNCHANGED <<frame, sbrs>>
    BY <2>3 DEF KeptInFrame
  <2> QED
    BY <2>1, <2>2, <2>3
       DEF Next, vars, OpenRecord, RefuseRecord, LoseRecord, CloseRecord, GiveUp, Finish
<1>3. WalkInv /\ KeptInFrame => StaysNearFrame
  BY DEF WalkInv, KeptInFrame, StaysNearFrame, Here, Limit
<1> QED
  BY <1>1, <1>2, <1>3, WalkInvariant, PTL DEF Spec
-----------------------------------------------------------------------------
(* r and its subrecords lie in front of offset at. *)
Closed(r, at) == r.at < at /\ \A k \in DOMAIN r.sbrs : r.sbrs[k] < at

LEMMA OrderPreserved ==
  ASSUME TypeOK, WalkInv, DecodedInOrder, [Next]_vars
  PROVE  DecodedInOrder'
<1>0. /\ base \in Nat /\ pos \in Nat /\ sbrs \in Seq(Nat) /\ recs \in Seq(Record)
      /\ DOMAIN sbrs = 1 .. Len(sbrs) /\ Len(sbrs) \in Nat
      /\ DOMAIN recs = 1 .. Len(recs) /\ Len(recs) \in Nat
      /\ \A k \in DOMAIN sbrs : sbrs[k] \in Nat
  BY LenProperties, ElementOfSeq DEF TypeOK
<1>1. /\ \A i \in DOMAIN recs :
           /\ Ordered(recs[i].at, recs[i].sbrs) /\ Closed(recs[i], base)
           /\ \A j \in DOMAIN recs : i < j => Closed(recs[i], recs[j].at)
      /\ pc = "record" => Ordered(base, sbrs)
  BY DEF DecodedInOrder, Closed
<1>2. CASE KeepSubrecord /\ ~turned
  <2>1. /\ pc = "record" /\ InRecord /\ base < frame.size
        /\ base' = base /\ recs' = recs /\ pc' = pc
    BY <1>2 DEF KeepSubrecord, ReadSubrecord, MoreSubrecords, WalkInv
  <2>2. sbrs' = Append(sbrs, base + pos)
    BY <1>2 DEF KeepSubrecord, ReadSubrecord
  <2>3. base < base + pos
    BY <1>0, <2>1, Views DEF InRecord
  <2>4. /\ DOMAIN sbrs' = 1 .. Len(sbrs) + 1 /\ sbrs'[Len(sbrs) + 1] = base + pos
        /\ \A i \in DOMAIN sbrs : sbrs'[i] = sbrs[i]
    BY <1>0, <2>2, AppendProperties, LenProperties
  <2>5. \A i \in DOMAIN sbrs : sbrs[i] + SubHead <= base + pos
    BY <2>1 DEF InRecord
  <2>6. Ordered(base, sbrs')
    <3>1. /\ \A i \in DOMAIN sbrs : base < sbrs[i]
          /\ \A i, j \in DOMAIN sbrs : i < j => sbrs[i] + SubHead <= sbrs[j]
      BY <1>1, <2>1 DEF Ordered
    <3>2. \A i \in DOMAIN sbrs' : i \in DOMAIN sbrs \/ i = Len(sbrs) + 1
      BY <1>0, <2>4
    <3>3. \A i \in DOMAIN sbrs' : base < sbrs'[i]
      BY <2>3, <2>4, <3>1, <3>2
    <3>4. ASSUME NEW i \in DOMAIN sbrs', NEW j \in DOMAIN sbrs', i < j
          PROVE  sbrs'[i] + SubHead <= sbrs'[j]
      <4>1. i \in DOMAIN sbrs
        BY <1>0, <2>4, <3>2, <3>4
      <4>2. CASE j \in DOMAIN sbrs
        BY <2>4, <3>1, <3>4, <4>1, <4>2
      <4>3. CASE j = Len(sbrs) + 1
        BY <2>4, <2>5, <4>1, <4>3
      <4> QED
        BY <3>2, <4>2, <4>3
    <3> QED
      BY <3>3, <3>4 DEF Ordered
  <2> QED
    BY <1>1, <2>1, <2>6 DEF DecodedInOrder, Closed
<1>3. CASE CloseRecord /\ ~GiveUp /\ ~turned
  <2> DEFINE new == [ at |-> base, sbrs |-> sbrs ]
  <2>1. /\ pc = "record" /\ InRecord /\ base < frame.size /\ recs' = Append(recs, new)
        /\ base' = base + pos /\ pc' = "packet"
    BY <1>3 DEF CloseRecord, WalkInv
  <2>2. new \in Record
    BY DEF TypeOK, Record
  <2>3. /\ DOMAIN recs' = 1 .. Len(recs) + 1 /\ recs'[Len(recs) + 1] = new
        /\ \A i \in DOMAIN recs : recs'[i] = recs[i]
    BY <1>0, <2>1, <2>2, AppendProperties, LenProperties
  <2>4. base < base + pos /\ base + pos \in Nat
    BY <1>0, <2>1, Views DEF InRecord
  <2>5. Closed(new, base + pos)
    <3>1. \A k \in DOMAIN sbrs : sbrs[k] + SubHead <= base + pos
      BY <2>1 DEF InRecord
    <3>2. \A k \in DOMAIN sbrs : sbrs[k] < base + pos
      BY <1>0, <2>4, <3>1 DEF SubHead
    <3>3. new.at = base /\ new.sbrs = sbrs
      OBVIOUS
    <3> HIDE DEF new
    <3> QED
      BY <2>4, <3>2, <3>3 DEF Closed
  <2>6. \A i \in DOMAIN recs : Closed(recs[i], base + pos)
    <3> SUFFICES ASSUME NEW i \in DOMAIN recs PROVE Closed(recs[i], base + pos)
      OBVIOUS
    <3>1. recs[i] \in Record
      BY <1>0, ElementOfSeq
    <3>2. /\ recs[i].at \in Nat
          /\ \A k \in DOMAIN recs[i].sbrs : recs[i].sbrs[k] \in Nat
      BY <3>1, LenProperties, ElementOfSeq DEF Record
    <3> QED
      BY <1>0, <1>1, <2>4, <3>2 DEF Closed
  <2>7. Ordered(new.at, new.sbrs) /\ new.at = base
    BY <1>1, <2>1
  <2> HIDE DEF new
  <2>8. \A i \in DOMAIN recs' :
          /\ Ordered(recs'[i].at, recs'[i].sbrs) /\ Closed(recs'[i], base')
          /\ \A j \in DOMAIN recs' : i < j => Closed(recs'[i], recs'[j].at)
    <3> SUFFICES ASSUME NEW i \in DOMAIN recs'
                 PROVE  /\ Ordered(recs'[i].at, recs'[i].sbrs) /\ Closed(recs'[i], base')
                        /\ \A j \in DOMAIN recs' : i < j => Closed(recs'[i], recs'[j].at)
      OBVIOUS
    <3>1. CASE i \in DOMAIN recs
      <4>1. \A j \in DOMAIN recs' : j \in DOMAIN recs \/ recs'[j] = new
        BY <1>0, <2>3
      <4> QED
        BY <1>1, <2>1, <2>3, <2>6, <2>7, <3>1, <4>1
    <3>2. CASE i = Len(recs) + 1
      <4>1. \A j \in DOMAIN recs' : ~(i < j)
        BY <1>0, <2>3, <3>2
      <4> QED
        BY <2>1, <2>3, <2>5, <2>7, <3>2, <4>1
    <3> QED
      BY <1>0, <2>3, <3>1, <3>2
  <2> QED
    BY <2>1, <2>8 DEF DecodedInOrder, Closed
<1>4. CASE OpenRecord
  <2>1. base' = base /\ recs' = recs /\ sbrs' = << >>
    BY <1>4 DEF OpenRecord
  <2>2. Ordered(base, << >>)
    BY DEF Ordered
  <2> QED
    BY <1>1, <2>1, <2>2 DEF DecodedInOrder, Closed
<1>5. CASE UNCHANGED <<base, recs>> /\ (pc' # "record" \/ UNCHANGED <<pc, sbrs>>)
  BY <1>1, <1>5 DEF DecodedInOrder, Closed
<1>6. CASE KeepSubrecord /\ turned
  BY <1>5, <1>6 DEF KeepSubrecord, ReadSubrecord
<1>7. CASE CloseRecord /\ ~GiveUp /\ turned
  <2>1. /\ pc' = "packet" /\ recs' = recs /\ base' = base + pos
    BY <1>7 DEF CloseRecord
  <2>2. \A i \in DOMAIN recs : Closed(recs[i], base + pos)
    <3> SUFFICES ASSUME NEW i \in DOMAIN recs PROVE Closed(recs[i], base + pos)
      OBVIOUS
    <3>1. recs[i] \in Record
      BY <1>0, ElementOfSeq
    <3>2. /\ recs[i].at \in Nat
          /\ \A k \in DOMAIN recs[i].sbrs : recs[i].sbrs[k] \in Nat
      BY <3>1, LenProperties, ElementOfSeq DEF Record
    <3> QED
      BY <1>0, <1>1, <3>2 DEF Closed
  <2> QED
    BY <1>1, <2>1, <2>2 DEF DecodedInOrder, Closed
<1> QED
  BY <1>2, <1>3, <1>4, <1>5, <1>6, <1>7
     DEF Next, vars, RefuseRecord, LoseRecord, GiveUp, Finish

(* The lists of the packet hold what the frame holds, in its order, and      *)
(* nothing of it twice, as far as pos has not wrapped.                       *)
THEOREM NothingDecodedTwice == Spec => []DecodedInOrder
<1>1. Init => DecodedInOrder
  BY DEF Init, DecodedInOrder
<1>2. TypeOK /\ WalkInv /\ DecodedInOrder /\ [Next]_vars => DecodedInOrder'
  BY OrderPreserved
<1> QED
  BY <1>1, <1>2, WalkInvariant, PTL DEF Spec
-----------------------------------------------------------------------------
(* Damage: the records in front of the first damaged one are decoded as    *)
(* they were sent. The argument follows one record: as long as it is       *)
(* intact, rl counts exactly what its subrecords take, and so the loop     *)
(* stops behind the last of them and nowhere else.                         *)

(* The record that was sent behind those that are closed. *)
Expected == frame.sent[Len(recs) + 1]

(* What the frame shows of the i-th subrecord of r. *)
Nth(r, i) == frame.sub[r.sbrs[i]]

(* All k first records are intact: k is in the prefix, or there are none. *)
AllIntact(k) == k = 0 \/ k \in IntactPrefix(frame)

(* In an intact record the walk stands behind as many of its subrecords as  *)
(* it has kept.                                                            *)
Following(r) ==
  /\ Len(sbrs) <= Len(r.sbrs)
  /\ \A i \in DOMAIN sbrs : sbrs[i] = r.sbrs[i]
  /\ base + pos = EndOf(frame, r, Len(sbrs))

PrefixInv ==
  /\ \A k \in IntactPrefix(frame) : k \in DOMAIN recs => recs[k] = frame.sent[k]
  /\ pc = "done" \/ turned => IntactPrefix(frame) \subseteq DOMAIN recs
  /\ pc # "done" /\ ~turned /\ AllIntact(Len(recs)) =>
       Len(recs) <= Len(frame.sent) /\ base = NextAt(frame, Len(recs))
  /\ pc = "record" /\ ~turned /\ Len(recs) + 1 \in IntactPrefix(frame) =>
       Following(Expected)
  /\ IntactPrefix(frame) = DOMAIN frame.sent => Len(recs) <= Len(frame.sent)
-----------------------------------------------------------------------------
(* The prefix has no gaps. *)
LEMMA PrefixClosed ==
  ASSUME TypeOK
  PROVE  /\ Len(frame.sent) \in Nat /\ DOMAIN frame.sent = 1 .. Len(frame.sent)
         /\ Len(recs) \in Nat /\ DOMAIN recs = 1 .. Len(recs)
         /\ \A k \in IntactPrefix(frame) :
              /\ k \in DOMAIN frame.sent
              /\ \A j \in 1 .. k : j \in IntactPrefix(frame)
<1>1. frame.sent \in Seq(Record) /\ recs \in Seq(Record)
  BY SentAssumption DEF TypeOK, IsSent
<1>2. /\ Len(frame.sent) \in Nat /\ DOMAIN frame.sent = 1 .. Len(frame.sent)
      /\ Len(recs) \in Nat /\ DOMAIN recs = 1 .. Len(recs)
  BY <1>1, LenProperties
<1> QED
  BY <1>2 DEF IntactPrefix

(* An intact record of the prefix is one of those that were sent.           *)
LEMMA IntactFacts ==
  ASSUME TypeOK, NEW k \in IntactPrefix(frame), NEW r, r = frame.sent[k]
  PROVE  /\ r \in Record /\ r.at \in Nat /\ r.sbrs \in Seq(Nat)
         /\ Len(r.sbrs) \in Nat /\ DOMAIN r.sbrs = 1 .. Len(r.sbrs)
         /\ \A i \in DOMAIN r.sbrs : r.sbrs[i] \in Nat
         /\ IntactRecord(frame, r) /\ Ordered(r.at, r.sbrs)
         /\ RecAt(frame, r.at) = frame.rec[r.at] /\ frame.rec[r.at] \in RecHead
         /\ \A i \in DOMAIN r.sbrs : /\ SubAt(frame, r.sbrs[i]) = frame.sub[r.sbrs[i]]
                                     /\ frame.sub[r.sbrs[i]].len \in Nat
         /\ EndOf(frame, r, Len(r.sbrs)) = NextAt(frame, k)
<1>1. IsSent(frame) /\ k \in DOMAIN frame.sent /\ frame.sent \in Seq(Record)
  BY SentAssumption DEF TypeOK, IsSent, IntactPrefix
<1>2. k \in 1 .. k
  BY <1>1, LenProperties
<1>3. IntactRecord(frame, r)
  BY <1>2 DEF IntactPrefix
<1>4. r \in Record
  BY <1>1, ElementOfSeq, LenProperties
<1>5. r.at \in Nat /\ r.sbrs \in Seq(Nat)
  BY <1>4 DEF Record
<1>6. /\ Len(r.sbrs) \in Nat /\ DOMAIN r.sbrs = 1 .. Len(r.sbrs)
      /\ \A i \in DOMAIN r.sbrs : r.sbrs[i] \in Nat
  BY <1>5, LenProperties, ElementOfSeq
<1>7. /\ r.at \in DOMAIN frame.rec /\ frame.rec[r.at] \in RecHead
      /\ Ordered(r.at, r.sbrs)
      /\ \A i \in DOMAIN r.sbrs :
           r.sbrs[i] \in DOMAIN frame.sub /\ frame.sub[r.sbrs[i]].len \in Nat
      /\ IntactRecord(frame, r) => EndOf(frame, r, Len(r.sbrs)) = NextAt(frame, k)
  BY <1>1 DEF IsSent
<1> QED
  BY <1>3, <1>4, <1>5, <1>6, <1>7 DEF RecAt, SubAt

(* The subrecords of an intact record lie behind each other, and the end of  *)
(* each is at most that of the record.                                      *)
LEMMA IntactSubrecords ==
  ASSUME TypeOK, NEW k \in IntactPrefix(frame), NEW r, r = frame.sent[k],
         NEW i \in 0 .. Len(r.sbrs) - 1
  PROVE  /\ r.sbrs[i + 1] = EndOf(frame, r, i) /\ r.sbrs[i + 1] \in Nat
         /\ SubAt(frame, r.sbrs[i + 1]) = Nth(r, i + 1)
         /\ Nth(r, i + 1).len \in Nat /\ Nth(r, i + 1).len > 0
         /\ Nth(r, i + 1).takes = Nth(r, i + 1).len /\ Nth(r, i + 1).reads = "ok"
         /\ frame.rec[r.at].rst \in Nth(r, i + 1).services
         /\ EndOf(frame, r, i) + SubHead + Nth(r, i + 1).len = EndOf(frame, r, i + 1)
         /\ EndOf(frame, r, i + 1) <= EndOf(frame, r, Len(r.sbrs))
<1> DEFINE n == Len(r.sbrs)
           at(j) == r.sbrs[j]
           s(j) == frame.sub[at(j)]
           len(j) == s(j).len
           end(j) == EndOf(frame, r, j)
<1>1. n \in Nat /\ DOMAIN r.sbrs = 1 .. n
      /\ \A j \in 1 .. n : at(j) \in Nat /\ len(j) \in Nat /\ SubAt(frame, at(j)) = s(j)
  BY IntactFacts
<1>2. \A j \in 1 .. n : /\ frame.rec[r.at].rst \in s(j).services
                        /\ len(j) > 0 /\ s(j).reads = "ok" /\ s(j).takes = len(j)
                        /\ at(j) = end(j - 1)
  <2>1. IntactRecord(frame, r)
    BY IntactFacts
  <2> QED
    BY <2>1 DEF IntactRecord
<1>3. \A j \in 1 .. n : end(j) = at(j) + 3 + len(j)
  BY <1>1 DEF EndOf, SubHead
<1>4. \A a, b \in 1 .. n : a < b => at(a) + 3 <= at(b)
  BY <1>1, IntactFacts DEF Ordered, SubHead
<1>5. i \in Nat /\ i + 1 \in 1 .. n
  BY <1>1
<1> HIDE DEF n, at, len, end, s
<1>6. at(i + 1) = end(i)
  <2>1. i + 1 - 1 = i
    BY <1>5
  <2> QED
    BY <1>2, <1>5, <2>1
<1>7. end(i + 1) <= end(n)
  <2>1. end(i + 1) \in Nat
    BY SMTT(30), <1>1, <1>3, <1>5
  <2>2. CASE i + 1 = n
    BY <2>1, <2>2
  <2>3. CASE i + 1 < n
    <3>1. i + 2 \in 1 .. n /\ n \in 1 .. n /\ i + 2 - 1 = i + 1
      BY <1>1, <1>5, <2>3
    <3>2. at(i + 2) = end(i + 1)
      BY <1>2, <3>1
    <3>3. at(n) \in Nat /\ at(n) <= end(n) /\ end(n) \in Nat
      BY <1>1, <1>3, <3>1
    <3>4. i + 2 = n \/ i + 2 < n
      BY <1>1, <1>5, <2>3
    <3>5. at(i + 2) <= at(n)
      BY <1>1, <1>4, <3>1, <3>4
    <3> QED
      BY <2>1, <3>2, <3>3, <3>5
  <2> QED
    BY <1>1, <1>5, <2>2, <2>3
<1>8. end(i) + 3 + len(i + 1) = end(i + 1)
  BY <1>3, <1>5, <1>6
<1> QED
  BY <1>1, <1>2, <1>5, <1>6, <1>7, <1>8 DEF SubHead, n, at, len, end, s, Nth

(* An intact record lies in the frame, and rl says where it ends.            *)
LEMMA IntactHead ==
  ASSUME TypeOK, NEW k \in IntactPrefix(frame), NEW r, r = frame.sent[k]
  PROVE  /\ frame.size \in Nat /\ r.at \in Nat
         /\ frame.rec[r.at].rl \in Nat /\ HeadLen(frame.rec[r.at]) \in Nat
         /\ HeadLen(frame.rec[r.at]) > 0
         /\ EndOf(frame, r, 0) = r.at + HeadLen(frame.rec[r.at])
         /\ EndOf(frame, r, Len(r.sbrs)) = EndOf(frame, r, 0) + frame.rec[r.at].rl
         /\ EndOf(frame, r, Len(r.sbrs)) <= frame.size
<1>1. frame.size \in Nat
  BY FramesAssumption DEF TypeOK, IsFrame
<1>2. frame.rec[r.at] \in RecHead /\ r.at \in Nat /\ r.sbrs \in Seq(Nat)
      /\ Len(r.sbrs) \in Nat
  BY IntactFacts
<1>3. frame.rec[r.at].rl \in Nat /\ frame.rec[r.at].opt \in 0 .. 3
  BY <1>2 DEF RecHead
<1>4. HeadLen(frame.rec[r.at]) \in Nat /\ HeadLen(frame.rec[r.at]) > 0
  BY <1>3 DEF HeadLen
<1>5. EndOf(frame, r, 0) = r.at + HeadLen(frame.rec[r.at])
  BY DEF EndOf
<1>6. /\ frame.rec[r.at].rl = EndOf(frame, r, Len(r.sbrs)) - EndOf(frame, r, 0)
      /\ EndOf(frame, r, Len(r.sbrs)) <= frame.size
  BY IntactFacts DEF IntactRecord
<1>7. EndOf(frame, r, Len(r.sbrs)) \in Nat
  <2>1. CASE Len(r.sbrs) = 0
    BY <1>2, <1>4, <1>5, <2>1
  <2>2. CASE Len(r.sbrs) > 0
    <3>1. Len(r.sbrs) \in DOMAIN r.sbrs
      BY <1>2, <2>2, IntactFacts
    <3>2. r.sbrs[Len(r.sbrs)] \in Nat /\ frame.sub[r.sbrs[Len(r.sbrs)]].len \in Nat
      BY <3>1, IntactFacts
    <3> DEFINE at == r.sbrs[Len(r.sbrs)]
               len == frame.sub[at].len
    <3>3. EndOf(frame, r, Len(r.sbrs)) = at + 3 + len
      BY <2>2 DEF EndOf, SubHead
    <3>4. at \in Nat /\ len \in Nat
      BY <3>2
    <3> HIDE DEF at, len
    <3> QED
      BY <3>3, <3>4
  <2> QED
    BY <1>2, <2>1, <2>2
<1> QED
  BY <1>1, <1>2, <1>3, <1>4, <1>5, <1>6, <1>7
-----------------------------------------------------------------------------
(* If the next record is intact, the walk stands at it and can open it.      *)
LEMMA Reached ==
  ASSUME TypeOK, PrefixInv, pc # "done", ~turned, NEW k, k = Len(recs) + 1,
         k \in IntactPrefix(frame)
  PROVE  /\ AllIntact(Len(recs))
         /\ base = Expected.at /\ Rec = frame.rec[Expected.at]
         /\ base < frame.size /\ HeadFits
<1>1. Len(recs) \in Nat /\ k \in DOMAIN frame.sent /\ DOMAIN frame.sent = 1 .. Len(frame.sent)
  BY PrefixClosed
<1>2. AllIntact(Len(recs))
  <2>1. Len(recs) = 0 \/ Len(recs) \in 1 .. k
    BY <1>1
  <2> QED
    BY <2>1, PrefixClosed DEF AllIntact
<1>3. base = Expected.at
  <2>1. base = NextAt(frame, Len(recs))
    BY <1>2 DEF PrefixInv
  <2>2. Len(frame.sent) \in Nat /\ Len(recs) # Len(frame.sent)
    BY <1>1, PrefixClosed
  <2> QED
    BY <2>1, <2>2 DEF NextAt, Expected
<1>4. Rec = frame.rec[Expected.at]
  BY <1>3, IntactFacts DEF Expected, Rec
<1> DEFINE h == HeadLen(Rec)
           end == EndOf(frame, Expected, Len(Expected.sbrs))
<1>5. /\ frame.size \in Nat /\ base \in Nat /\ Rec.rl \in Nat /\ h \in Nat /\ h > 0
      /\ end = base + h + Rec.rl /\ end <= frame.size
  BY <1>3, <1>4, IntactHead DEF Expected
<1> HIDE DEF h, end
<1>6. base < frame.size /\ h <= frame.size - base /\ (Rec.rl > 0 => h < frame.size - base)
  BY <1>5
<1> QED
  BY <1>2, <1>3, <1>4, <1>6 DEF HeadFits, Left, h

(* Inside it the loop runs exactly as long as there are subrecords, and      *)
(* keeps each of them.                                                      *)
LEMMA KeepsAll ==
  ASSUME TypeOK, WalkInv, PrefixInv, pc = "record", ~turned, NEW k, k = Len(recs) + 1,
         k \in IntactPrefix(frame), NEW r, r = Expected
  PROVE  LET n == Len(sbrs)
         IN  /\ n \in Nat /\ Len(r.sbrs) \in Nat /\ Following(r)
             /\ n < Len(r.sbrs) =>
                  /\ MoreSubrecords /\ HasClass /\ DataFits /\ Sub.reads = "ok"
                  /\ r.sbrs[n + 1] = base + pos
                  /\ base + pos + Sub.takes + SubHead = EndOf(frame, r, n + 1)
                  /\ EndOf(frame, r, n + 1) <= frame.size
             /\ n = Len(r.sbrs) => ~MoreSubrecords
<1> DEFINE n == Len(sbrs)
           all == Len(r.sbrs)
           h == HeadLen(Rec)
           end(i) == EndOf(frame, r, i)
<1>1. /\ base = r.at /\ Rec = frame.rec[r.at] /\ base < frame.size
      /\ n \in Nat /\ all \in Nat /\ Following(r)
  <2>1. Following(r)
    BY DEF PrefixInv
  <2>2. n \in Nat
    BY LenProperties DEF TypeOK
  <2>3. all \in Nat
    BY IntactFacts DEF Expected
  <2> QED
    BY <2>1, <2>2, <2>3, Reached
<1>2. /\ rl = pos - h /\ h \in Nat /\ h <= pos /\ pos \in Nat /\ base \in Nat
      /\ Rec.rl \in Nat /\ Left = frame.size - base
  BY <1>1, Views DEF WalkInv, InRecord, TypeOK
<1>3. /\ end(0) = base + h /\ end(all) = end(0) + Rec.rl /\ end(all) <= frame.size
      /\ frame.size \in Nat
  BY <1>1, IntactHead DEF Expected
<1>4. base + pos = end(n)
  BY <1>1 DEF Following
<1>5. CASE n < all
  <2> DEFINE s == Nth(r, n + 1)
             len == s.len
  <2>1. n \in 0 .. all - 1
    BY <1>1, <1>5
  <2>2. /\ r.sbrs[n + 1] = end(n) /\ SubAt(frame, r.sbrs[n + 1]) = s
        /\ len \in Nat /\ len > 0 /\ s.takes = len /\ s.reads = "ok"
        /\ frame.rec[r.at].rst \in s.services
        /\ end(n) + 3 + len = end(n + 1) /\ end(n + 1) <= end(all)
    <3>1. r = frame.sent[k] /\ k \in IntactPrefix(frame)
      BY DEF Expected
    <3> QED
      BY SMTT(30), <2>1, <3>1, IntactSubrecords DEF SubHead
  <2>3. Sub = s
    BY <1>4, <2>2 DEF Sub
  <2> HIDE DEF s, len, all, n, h, end
  <2>4. /\ rl < Rec.rl /\ pos + 3 < Left /\ len <= Left - pos
        /\ base + pos + len + 3 = end(n + 1) /\ end(n + 1) <= frame.size
    <3> DEFINE x == end(n + 1)
               y == end(all)
    <3>1. /\ len \in Nat /\ len > 0 /\ x = base + pos + 3 + len /\ x <= y
          /\ y = base + h + Rec.rl /\ y <= frame.size
      BY <1>3, <1>4, <2>2
    <3> HIDE DEF x, y
    <3>2. base + pos + len + 3 = x
      BY <1>2, <3>1
    <3>3. rl < Rec.rl
      BY <1>2, <3>1
    <3>4. pos + 3 < Left /\ len <= Left - pos
      BY SMTT(30), <1>2, <1>3, <3>1
    <3>5. x <= frame.size
      BY <1>2, <1>3, <3>1
    <3> QED
      BY <3>2, <3>3, <3>4, <3>5 DEF x
  <2>5. MoreSubrecords /\ HasClass /\ DataFits /\ Sub.reads = "ok"
    BY <1>1, <2>2, <2>3, <2>4 DEF MoreSubrecords, HasClass, DataFits, SubHead, len, s
  <2>6. base + pos + Sub.takes + SubHead = end(n + 1)
    BY <2>2, <2>3, <2>4 DEF SubHead, len
  <2>7. r.sbrs[n + 1] = base + pos
    BY <1>4, <2>2
  <2> QED
    BY <1>1, <1>2, <1>5, <2>4, <2>5, <2>6, <2>7 DEF all, n, end
<1>6. CASE n = all
  <2>1. rl = Rec.rl
    <3> HIDE DEF all, n, h, end
    <3> QED
      BY <1>2, <1>3, <1>4, <1>6
  <2>2. ~MoreSubrecords
    BY <1>2, <2>1 DEF MoreSubrecords
  <2> QED
    BY <1>1, <1>6, <2>2
<1>7. n <= all
  BY <1>1 DEF Following
<1> HIDE DEF n, all
<1> QED
  BY <1>1, <1>5, <1>6, <1>7
-----------------------------------------------------------------------------
(* If the next record was not intact, all intact ones are closed.            *)
LEMMA NoMoreIntact ==
  ASSUME TypeOK, Len(recs) + 1 \notin IntactPrefix(frame)
  PROVE  IntactPrefix(frame) \subseteq DOMAIN recs
<1> SUFFICES ASSUME NEW k \in IntactPrefix(frame), k \notin DOMAIN recs PROVE FALSE
  OBVIOUS
<1>1. k \in Nat /\ k > Len(recs) /\ Len(recs) \in Nat
  BY PrefixClosed
<1>2. Len(recs) + 1 \in 1 .. k
  BY <1>1
<1> QED
  BY <1>2, PrefixClosed

(* The walk ends at a record that it cannot read: this one was not intact.   *)
LEMMA GiveUpPreserves ==
  ASSUME TypeOK, PrefixInv, pc # "done", GiveUp,
         Len(recs) + 1 \notin IntactPrefix(frame)
  PROVE  PrefixInv'
<1>1. pc' = "done" /\ frame' = frame /\ recs' = recs
  BY DEF GiveUp
<1>2. IntactPrefix(frame) \subseteq DOMAIN recs
  BY NoMoreIntact
<1> QED
  BY <1>1, <1>2 DEF PrefixInv

LEMMA OpenPreserves ==
  ASSUME TypeOK, PrefixInv, OpenRecord, ~turned
  PROVE  PrefixInv'
<1>1. /\ pc = "packet" /\ pc' = "record" /\ turned' = turned /\ frame' = frame /\ recs' = recs /\ base' = base
      /\ pos' = HeadLen(Rec) /\ sbrs' = << >>
  BY DEF OpenRecord
<1>2. ASSUME Len(recs) + 1 \in IntactPrefix(frame)
      PROVE  Following(Expected)'
  <2>1. base = Expected.at /\ Rec = frame.rec[Expected.at]
    BY <1>1, <1>2, Reached
  <2>2. EndOf(frame, Expected, 0) = base + HeadLen(Rec)
    BY <2>1 DEF EndOf
  <2>3. Len(Expected.sbrs) \in Nat
    BY <1>2, IntactFacts DEF Expected
  <2>4. Len(sbrs') = 0 /\ DOMAIN sbrs' = {} /\ Expected' = Expected
    BY <1>1 DEF Expected
  <2> QED
    BY <1>1, <2>2, <2>3, <2>4 DEF Following
<1> QED
  BY <1>1, <1>2 DEF PrefixInv, AllIntact

LEMMA KeepPreserves ==
  ASSUME TypeOK, WalkInv, PrefixInv, KeepSubrecord, ~turned
  PROVE  PrefixInv'
<1>1. /\ pc = "record" /\ pc' = pc /\ frame' = frame /\ recs' = recs /\ base' = base
      /\ base < frame.size /\ MoreSubrecords /\ sbrs' = Append(sbrs, base + pos)
      /\ ReadSubrecord /\ pos' = Behind % Modulus
  BY DEF KeepSubrecord, ReadSubrecord, MoreSubrecords, WalkInv
<1>2. ASSUME Len(recs) + 1 \in IntactPrefix(frame), NEW r, r = Expected
      PROVE  Following(r)' /\ ~turned'
  <2> DEFINE n == Len(sbrs)
  <2>1. /\ n \in Nat /\ Len(r.sbrs) \in Nat /\ Following(r)
        /\ n < Len(r.sbrs) => /\ r.sbrs[n + 1] = base + pos
                              /\ base + pos + Sub.takes + SubHead = EndOf(frame, r, n + 1)
                              /\ EndOf(frame, r, n + 1) <= frame.size
        /\ n = Len(r.sbrs) => ~MoreSubrecords
    BY <1>1, <1>2, KeepsAll
  <2>2. n < Len(r.sbrs)
    BY <1>1, <2>1 DEF Following
  <2>3. /\ base \in Nat /\ pos \in Nat /\ frame.size \in Nat /\ frame.size < Modulus
        /\ base + pos + SubHead < frame.size /\ Behind \in Nat /\ Modulus \in Nat
        /\ Behind < Modulus => pos' = Behind
        /\ turned' = (turned \/ Modulus <= Behind)
    BY SMTT(30), <1>1, OneSubrecord, Views, SizesAssumption DEF TypeOK
  <2>4. base + pos' = EndOf(frame, r, n + 1) /\ ~turned'
    <3> DEFINE e == EndOf(frame, r, n + 1)
    <3>1. base + pos \in 0 .. frame.size
      BY <2>3 DEF SubHead
    <3>2. Sub.takes \in 0 .. Sub.len + Overshoot /\ Sub.len \in Nat
      BY <3>1, FramesAssumption DEF TypeOK, IsFrame, Sub
    <3>3. base + Behind = base + pos + Sub.takes + SubHead
      BY <2>3, <3>2, SizesAssumption DEF SubHead, Behind
    <3>4. base + Behind = e /\ e <= frame.size
      BY <2>1, <2>2, <3>3
    <3> HIDE DEF Behind, e
    <3>5. Behind < Modulus /\ ~(Modulus <= Behind)
      BY <2>3, <3>4
    <3> QED
      BY <2>3, <3>4, <3>5 DEF e
  <2>5. /\ DOMAIN sbrs' = 1 .. n + 1 /\ Len(sbrs') = n + 1 /\ sbrs'[n + 1] = base + pos
        /\ \A i \in 1 .. n : sbrs'[i] = sbrs[i]
        /\ DOMAIN sbrs = 1 .. n
    <3>1. sbrs \in Seq(Nat) /\ base + pos \in Nat
      BY DEF TypeOK
    <3> QED
      BY <1>1, <3>1, AppendProperties, LenProperties
  <2>6. \A i \in DOMAIN sbrs' : sbrs'[i] = r.sbrs[i]
    <3>1. \A i \in 1 .. n : sbrs[i] = r.sbrs[i]
      BY <2>1, <2>5 DEF Following
    <3>2. \A i \in 1 .. n + 1 : i \in 1 .. n \/ i = n + 1
      BY <2>1
    <3> HIDE DEF n
    <3> QED
      BY <2>1, <2>2, <2>5, <3>1, <3>2
  <2>7. n + 1 <= Len(r.sbrs)
    BY <2>1, <2>2
  <2> HIDE DEF n
  <2> QED
    BY <1>1, <2>4, <2>5, <2>6, <2>7 DEF Following
<1>3. Len(recs) + 1 \in IntactPrefix(frame) => Following(Expected)' /\ ~turned'
  <2> SUFFICES ASSUME Len(recs) + 1 \in IntactPrefix(frame)
               PROVE  Following(Expected)' /\ ~turned'
    OBVIOUS
  <2>1. PICK r : r = Expected
    OBVIOUS
  <2>2. Following(r)' /\ Expected' = r /\ ~turned'
    BY <1>1, <1>2, <2>1 DEF Expected
  <2> QED
    BY <2>2 DEF Following
<1>4. turned' => IntactPrefix(frame) \subseteq DOMAIN recs
  BY <1>3, NoMoreIntact
<1> QED
  BY <1>1, <1>3, <1>4 DEF PrefixInv, AllIntact

LEMMA ClosePreserves ==
  ASSUME TypeOK, TypeOK', WalkInv, PrefixInv, CloseRecord, ~turned
  PROVE  PrefixInv'
<1>1. /\ pc = "record" /\ InRecord /\ base < frame.size
      /\ MoreSubrecords => HasClass /\ (~DataFits \/ Sub.reads = "fails")
  BY DEF CloseRecord, WalkInv
<1>2. pos # 0
  BY <1>1, Views DEF InRecord, TypeOK
<1>3. /\ recs' = Append(recs, [ at |-> base, sbrs |-> sbrs ])
      /\ base' = base + pos /\ pc' = "packet" /\ frame' = frame /\ turned' = turned
  BY <1>2 DEF CloseRecord
<1> DEFINE m == Len(recs)
           new == [ at |-> base, sbrs |-> sbrs ]
<1>4. /\ m \in Nat /\ DOMAIN recs = 1 .. m /\ Len(recs') = m + 1 /\ DOMAIN recs' = 1 .. m + 1
      /\ recs'[m + 1] = new /\ \A i \in 1 .. m : recs'[i] = recs[i]
  <2>1. recs \in Seq(Record) /\ new \in Record
    BY DEF TypeOK, Record
  <2> HIDE DEF new
  <2> QED
    BY <1>3, <2>1, AppendProperties, LenProperties DEF new
<1>5. ASSUME m + 1 \in IntactPrefix(frame)
      PROVE  /\ new = frame.sent[m + 1] /\ base + pos = NextAt(frame, m + 1)
             /\ m + 1 <= Len(frame.sent)
  <2>1. PICK r : r = Expected
    OBVIOUS
  <2>2. /\ Len(sbrs) \in Nat /\ Len(r.sbrs) \in Nat /\ Following(r)
        /\ Len(sbrs) < Len(r.sbrs) =>
             MoreSubrecords /\ HasClass /\ DataFits /\ Sub.reads = "ok"
    BY <1>1, <1>5, <2>1, KeepsAll
  <2>3. Len(sbrs) = Len(r.sbrs)
    BY <1>1, <2>2 DEF Following
  <2>4. /\ r \in Record /\ r.sbrs \in Seq(Nat) /\ base = r.at
        /\ EndOf(frame, r, Len(r.sbrs)) = NextAt(frame, m + 1)
    BY <1>1, <1>5, <2>1, IntactFacts, Reached DEF Expected
  <2>5. sbrs = r.sbrs
    <3>1. sbrs \in Seq(Nat) /\ \A i \in 1 .. Len(sbrs) : sbrs[i] = r.sbrs[i]
      BY <2>2, LenProperties DEF TypeOK, Following
    <3> QED
      BY <2>3, <2>4, <3>1, SeqEqual
  <2>6. new = r
    BY <2>4, <2>5 DEF Record
  <2>7. m + 1 <= Len(frame.sent)
    BY <1>4, <1>5, PrefixClosed
  <2> QED
    BY <2>1, <2>2, <2>3, <2>4, <2>6, <2>7 DEF Following, Expected
<1>6. AllIntact(m + 1) => m + 1 \in IntactPrefix(frame)
  BY <1>4 DEF AllIntact
<1>7. ASSUME IntactPrefix(frame) = DOMAIN frame.sent
      PROVE  m + 1 <= Len(frame.sent)
  <2>1. m <= Len(frame.sent)
    BY <1>7 DEF PrefixInv
  <2>2. AllIntact(m)
    BY <1>4, <1>7, <2>1, PrefixClosed DEF AllIntact
  <2>3. base = NextAt(frame, m)
    BY <1>1, <2>2 DEF PrefixInv
  <2>4. m # Len(frame.sent)
    <3>1. base < frame.size /\ base \in Nat /\ frame.size \in Nat
      BY <1>1, Views DEF InRecord, TypeOK
    <3> QED
      BY <2>3, <3>1 DEF NextAt
  <2> QED
    BY <1>4, <2>1, <2>4, PrefixClosed
<1>8. \A k \in IntactPrefix(frame) : k \in 1 .. m + 1 => recs'[k] = frame.sent[k]
  <2>1. \A k \in 1 .. m + 1 : k \in 1 .. m \/ k = m + 1
    BY <1>4
  <2>2. \A k \in IntactPrefix(frame) : k \in 1 .. m => recs[k] = frame.sent[k]
    BY <1>4 DEF PrefixInv
  <2> HIDE DEF m, new
  <2> QED
    BY <1>4, <1>5, <2>1, <2>2
<1> HIDE DEF m, new
<1> QED
  BY <1>3, <1>4, <1>5, <1>6, <1>7, <1>8 DEF PrefixInv, AllIntact

LEMMA PrefixPreserved ==
  TypeOK /\ TypeOK' /\ WalkInv /\ PrefixInv /\ [Next]_vars => PrefixInv'
<1> SUFFICES ASSUME TypeOK, TypeOK', WalkInv, PrefixInv, [Next]_vars PROVE PrefixInv'
  OBVIOUS
<1>0. CASE turned
  <2>1. frame' = frame /\ recs' = recs /\ turned'
    BY <1>0 DEF Next, OpenRecord, RefuseRecord, KeepSubrecord, ReadSubrecord, LoseRecord,
                CloseRecord, Finish, GiveUp, vars
  <2> QED
    BY <1>0, <2>1 DEF PrefixInv
<1> SUFFICES ASSUME ~turned PROVE PrefixInv'
  BY <1>0
<1>1. CASE RefuseRecord
  <2>1. pc # "done" /\ GiveUp /\ ~HeadFits
    BY <1>1 DEF RefuseRecord
  <2> QED
    BY <2>1, Reached, GiveUpPreserves
<1>2. CASE LoseRecord
  <2>1. /\ pc = "record" /\ GiveUp /\ MoreSubrecords
        /\ ~HasClass \/ (DataFits /\ Sub.reads = "throws")
    BY <1>2 DEF LoseRecord, MoreSubrecords
  <2>2. Len(recs) + 1 \notin IntactPrefix(frame)
    <3> SUFFICES ASSUME Len(recs) + 1 \in IntactPrefix(frame) PROVE FALSE
      OBVIOUS
    <3>1. PICK r : r = Expected
      OBVIOUS
    <3>2. /\ Len(sbrs) \in Nat /\ Len(r.sbrs) \in Nat /\ Following(r)
          /\ Len(sbrs) < Len(r.sbrs) => HasClass /\ Sub.reads = "ok"
          /\ Len(sbrs) = Len(r.sbrs) => ~MoreSubrecords
      BY <2>1, <3>1, KeepsAll
    <3> QED
      BY <2>1, <3>2 DEF Following
  <2> QED
    BY <2>1, <2>2, GiveUpPreserves
<1>3. CASE Finish
  <2>1. /\ pc = "packet" /\ pc' = "done" /\ UNCHANGED <<frame, recs>>
        /\ base >= frame.size /\ turned' = turned
    BY <1>3 DEF Finish
  <2>2. Len(recs) + 1 \notin IntactPrefix(frame)
    <3> SUFFICES ASSUME Len(recs) + 1 \in IntactPrefix(frame) PROVE FALSE
      OBVIOUS
    <3>1. base < frame.size
      BY <2>1, Reached
    <3>2. frame.size \in Nat /\ base \in Nat
      BY FramesAssumption DEF TypeOK, IsFrame
    <3> QED
      BY <2>1, <3>1, <3>2
  <2>3. IntactPrefix(frame) \subseteq DOMAIN recs
    BY <2>2, NoMoreIntact
  <2> QED
    BY <2>1, <2>3 DEF PrefixInv
<1>4. CASE UNCHANGED vars
  BY <1>4 DEF vars, PrefixInv, AllIntact, Following, Expected
<1> QED
  BY <1>1, <1>2, <1>3, <1>4, OpenPreserves, KeepPreserves, ClosePreserves DEF Next

LEMMA PrefixInvariant == Spec => []PrefixInv
<1>1. Init => PrefixInv
  <2> SUFFICES ASSUME Init PROVE PrefixInv
    OBVIOUS
  <2>1. /\ IsSent(frame) /\ recs = << >> /\ pc = "packet" /\ base = frame.start
        /\ turned = FALSE
    BY SentAssumption DEF Init
  <2>2. Len(recs) = 0 /\ DOMAIN recs = {} /\ Len(frame.sent) \in Nat
    BY <2>1, LenProperties DEF IsSent
  <2> QED
    BY <2>1, <2>2 DEF PrefixInv, IsSent
<1> QED
  BY <1>1, PrefixPreserved, WalkInvariant, PTL DEF Spec

(* Damage in one record does not reach those in front of it.                 *)
THEOREM DamageStaysBehind == Spec => []IntactPrefixDecoded
<1>1. PrefixInv => IntactPrefixDecoded
  BY DEF PrefixInv, IntactPrefixDecoded
<1> QED
  BY <1>1, PrefixInvariant, PTL

(* What was sent without damage is decoded as it was sent, and nothing more. *)
THEOREM CleanFramesAreDecoded == Spec => []CleanFrameDecoded
<1>1. TypeOK /\ PrefixInv => CleanFrameDecoded
  <2> SUFFICES ASSUME TypeOK, PrefixInv, pc = "done",
                      IntactPrefix(frame) = DOMAIN frame.sent
               PROVE  recs = frame.sent
    BY DEF CleanFrameDecoded
  <2>1. /\ recs \in Seq(Record) /\ frame.sent \in Seq(Record)
        /\ DOMAIN frame.sent \subseteq DOMAIN recs /\ Len(recs) <= Len(frame.sent)
        /\ \A k \in DOMAIN frame.sent : recs[k] = frame.sent[k]
    BY SentAssumption DEF PrefixInv, TypeOK, IsSent
  <2>2. Len(recs) = Len(frame.sent)
    <3>1. /\ Len(recs) \in Nat /\ Len(frame.sent) \in Nat
          /\ 1 .. Len(frame.sent) \subseteq 1 .. Len(recs)
      BY <2>1, LenProperties
    <3> QED
      BY <2>1, <3>1
  <2> QED
    BY <2>1, <2>2, SeqEqual, LenProperties
<1> QED
  BY <1>1, TypeCorrect, PrefixInvariant, PTL
=============================================================================
