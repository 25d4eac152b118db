------------------------ MODULE PacketObjectsProofs ------------------------
(***************************************************************************)
(* Proofs about PacketObjects, for every set of packets and records and    *)
(* every sequence of operations: no order of filling, encoding, decoding   *)
(* and copying loses the encryption of a packet that no copy touched; a    *)
(* copy of what can be copied has every record in front of the first that  *)
(* SetData does not read back; a packet that is not excused holds what was *)
(* put into it, sent to it or assigned to it; and a loop of First, Next    *)
(* and Erase that is alone with its list visits every record once.         *)
(*                                                                         *)
(* The packets are records of the right fields, the size of a signature is *)
(* a number, and a message without a frame has no records (PacksInv): so a *)
(* copy for which SetData stops at fdl = 0 loses none. AskedInv adds       *)
(* the message on the wire to EncryptionAsAsked, since Decode takes the    *)
(* header from there, and so does MeantInv to ContentAsMeant; it adds that *)
(* signatures are whole, since GetData copies as much as they say. LoopInv *)
(* says what EVERY state of a loop has: what it has seen, and what is left *)
(* behind the cursor, are all of the records.                              *)
(***************************************************************************)
EXTENDS PacketObjects, SequenceTheorems, WellFoundedInduction, TLAPS

(* All that can be in a list. *)
Items == Records \cup {Phantom, Junk}

IsList(l) == \E s \in Seq(Items) : \E i : l = [ items |-> s, it |-> i ]

IsPack(p) ==
  \E h \in Heads : \E k, r, g, l :
    /\ IsList(l) /\ g.size \in Nat
    /\ p = [ head |-> h, key |-> k, resp |-> r, sig |-> g, recs |-> l ]

IsMessage(m) ==
  /\ m.head \in Heads /\ m.recs \in Seq(Items) /\ m.sig.size \in Nat
  /\ m.fdl \in Nat /\ (m.fdl = 0 => m.recs = << >>)

(* The packets, and the message, are of their types. *)
PacksInv ==
  /\ packs = [ p \in Packets |-> packs[p] ]
  /\ \A p \in Packets : IsPack(packs[p])
  /\ wire # NoMessage => IsMessage(wire.message)

(* The encryption of the packets, and of the message. *)
AskedInv ==
  /\ asked = [ p \in Packets |-> asked[p] ]
  /\ EncryptionAsAsked
  /\ wire # NoMessage /\ ~wire.excused /\ ~wire.stripped
       => wire.message.head.ena = wire.asked
-----------------------------------------------------------------------------
(* A list that was just constructed.                                        *)
LEMMA EmptyIsList == IsList(List!Empty) /\ List!Empty.items = << >>
<1>1. List!Empty = [ items |-> << >>, it |-> 1 ] /\ << >> \in Seq(Items)
  BY EmptySeq DEF List!Empty
<1> QED
  BY <1>1 DEF IsList

(* A record with the fields of a packet is one, and its fields are those.   *)
LEMMA PackFields ==
  ASSUME NEW h \in Heads, NEW k, NEW r, NEW g, g.size \in Nat, NEW l, IsList(l),
         NEW p, p = [ head |-> h, key |-> k, resp |-> r, sig |-> g, recs |-> l ]
  PROVE  IsPack(p) /\ p.head = h /\ p.key = k /\ p.resp = r /\ p.sig = g /\ p.recs = l
BY DEF IsPack

(* A packet taken apart.                                                    *)
LEMMA Opens ==
  ASSUME NEW p, IsPack(p)
  PROVE  \E h \in Heads : \E k, r, g, l :
           /\ IsList(l) /\ g.size \in Nat
           /\ p = [ head |-> h, key |-> k, resp |-> r, sig |-> g, recs |-> l ]
           /\ p.head = h /\ p.key = k /\ p.resp = r /\ p.sig = g /\ p.recs = l
<1>1. PICK h \in Heads : \E k, r, g, l :
           /\ IsList(l) /\ g.size \in Nat
           /\ p = [ head |-> h, key |-> k, resp |-> r, sig |-> g, recs |-> l ]
  BY Zenon DEF IsPack
<1>2. PICK k, r, g, l :
           /\ IsList(l) /\ g.size \in Nat
           /\ p = [ head |-> h, key |-> k, resp |-> r, sig |-> g, recs |-> l ]
  BY <1>1, Zenon
<1>3. p.head = h /\ p.key = k /\ p.resp = r /\ p.sig = g /\ p.recs = l
  BY <1>2
<1> QED
  BY <1>2, <1>3, Zenon

(* A packet that was just constructed has no records and no encryption.     *)
LEMMA FreshIsPack ==
  IsPack(Fresh) /\ Fresh.head.ena = 0 /\ Fresh.head.pt = PT_APPDATA /\ Fresh.recs.items = << >>
<1> DEFINE h == [ prv |-> 1, pt |-> PT_APPDATA, rte |-> FALSE, ena |-> 0 ]
<1>1. h \in Heads /\ h.ena = 0 /\ h.pt = PT_APPDATA
  BY DEF Heads, U8, PT_APPDATA
<1>2. Fresh = [ head |-> h, key |-> ZeroKey, resp |-> 0, sig |-> [ size |-> 0, data |-> 0 ],
                recs |-> List!Empty ]
  BY DEF Fresh
<1>3. [ size |-> 0, data |-> 0 ].size \in Nat
  OBVIOUS
<1> HIDE DEF h
<1> QED
  BY <1>1, <1>2, <1>3, EmptyIsList, PackFields

(* Nor has one after Init.                                                  *)
LEMMA ClearedIsPack ==
  ASSUME NEW p, IsPack(p)
  PROVE  /\ IsPack(Cleared(p)) /\ Cleared(p).recs.items = << >>
         /\ Cleared(p).head.ena = 0 /\ Cleared(p).head.pt = PT_APPDATA
<1> DEFINE h == [ prv |-> 1, pt |-> PT_APPDATA, rte |-> FALSE, ena |-> 0 ]
<1>1. h \in Heads /\ h.ena = 0 /\ h.pt = PT_APPDATA
  BY DEF Heads, U8, PT_APPDATA
<1>2. Cleared(p) = [ head |-> h, key |-> ZeroKey, resp |-> 0, sig |-> p.sig,
                     recs |-> List!Empty ]
  BY DEF Cleared, List!Clear
<1>3. p.sig.size \in Nat
  BY Opens
<1> HIDE DEF h
<1> QED
  BY <1>1, <1>2, <1>3, EmptyIsList, PackFields

(* The source of a copy without its encryption: all else is as it was.      *)
LEMMA StrippedFacts ==
  ASSUME NEW p, IsPack(p)
  PROVE  /\ IsPack(Stripped(p)) /\ Stripped(p).head.ena = 0 /\ Stripped(p).recs = p.recs
         /\ Stripped(p).head.prv = p.head.prv /\ Stripped(p).head.pt = p.head.pt
         /\ Stripped(p).sig = p.sig /\ Stripped(p).resp = p.resp
         /\ p.head.ena = 0 => Stripped(p).head = p.head
<1>1. PICK h \in Heads : \E k, r, g, l :
        /\ IsList(l) /\ g.size \in Nat
        /\ p = [ head |-> h, key |-> k, resp |-> r, sig |-> g, recs |-> l ]
  BY DEF IsPack
<1>2. PICK k, r, g, l :
        /\ IsList(l) /\ g.size \in Nat
        /\ p = [ head |-> h, key |-> k, resp |-> r, sig |-> g, recs |-> l ]
  BY <1>1
<1>3. PICK x : x = [ h EXCEPT !.ena = 0 ]
  OBVIOUS
<1>4. /\ x \in Heads /\ x.ena = 0 /\ x.prv = h.prv /\ x.pt = h.pt
      /\ h.ena = 0 => x = h
  BY <1>3 DEF Heads
<1>5. Stripped(p) = [ head |-> x, key |-> k, resp |-> r, sig |-> g, recs |-> l ]
  BY <1>2, <1>3 DEF Stripped
<1> QED
  BY <1>2, <1>4, <1>5, PackFields

(* GetData changes nothing of a packet but the cursor of its records.       *)
LEMMA WalkedFacts ==
  ASSUME NEW p, IsPack(p)
  PROVE  /\ IsPack(Walked(p)) /\ Walked(p).head = p.head
         /\ Walked(p).resp = p.resp /\ Walked(p).sig = p.sig
         /\ Walked(p).recs.items = p.recs.items
         /\ Encodes(p) => Walked(p).recs.it = List!End(p.recs)
<1> DEFINE at == IF Encodes(p) THEN List!End(p.recs)
                 ELSE CHOOSE n \in DOMAIN p.recs.items : GaveUpAt(p, n)
<1>1. PICK h \in Heads : \E k, r, g, l :
        /\ IsList(l) /\ g.size \in Nat
        /\ p = [ head |-> h, key |-> k, resp |-> r, sig |-> g, recs |-> l ]
  BY DEF IsPack
<1>2. PICK k, r, g, l :
        /\ IsList(l) /\ g.size \in Nat
        /\ p = [ head |-> h, key |-> k, resp |-> r, sig |-> g, recs |-> l ]
  BY <1>1
<1>3. PICK s \in Seq(Items) : \E i : l = [ items |-> s, it |-> i ]
  BY <1>2 DEF IsList
<1>4. PICK n : n = at
  OBVIOUS
<1>5. IsList([ items |-> s, it |-> n ])
  BY DEF IsList
<1>6. Walked(p) = IF ~Typed(p) THEN p ELSE [ p EXCEPT !.recs = List!LeftAt(@, n) ]
  BY <1>4 DEF Walked
<1>7. List!LeftAt(l, n) = [ items |-> s, it |-> n ]
  BY <1>3 DEF List!LeftAt
<1>8. Walked(p) = IF ~Typed(p) THEN p
                  ELSE [ head |-> h, key |-> k, resp |-> r, sig |-> g,
                         recs |-> [ items |-> s, it |-> n ] ]
  BY <1>2, <1>6, <1>7
<1>9. Encodes(p) => Typed(p) /\ n = List!End(p.recs)
  BY <1>4 DEF Encodes
<1> HIDE DEF at
<1> QED
  BY SMTT(30), <1>2, <1>3, <1>5, <1>8, <1>9, PackFields

(* A packet stays one when its head, its key or its list is assigned.       *)
LEMMA AssignedFields ==
  ASSUME NEW p, IsPack(p), NEW h \in Heads, NEW k, NEW l, IsList(l)
  PROVE  /\ \A q : q = [ p EXCEPT !.head = h ] =>
              IsPack(q) /\ q.head = h /\ q.resp = p.resp /\ q.sig = p.sig /\ q.recs = p.recs
         /\ \A q : q = [ p EXCEPT !.key = k ] =>
              IsPack(q) /\ q.head = p.head /\ q.resp = p.resp /\ q.sig = p.sig /\ q.recs = p.recs
         /\ \A q : q = [ p EXCEPT !.recs = l ] =>
              IsPack(q) /\ q.head = p.head /\ q.resp = p.resp /\ q.sig = p.sig /\ q.recs = l
<1>1. PICK x \in Heads : \E y, z, v, w :
        /\ IsList(w) /\ v.size \in Nat
        /\ p = [ head |-> x, key |-> y, resp |-> z, sig |-> v, recs |-> w ]
        /\ p.head = x /\ p.key = y /\ p.resp = z /\ p.sig = v /\ p.recs = w
  BY Opens
<1>2. PICK y, z, v, w :
        /\ IsList(w) /\ v.size \in Nat
        /\ p = [ head |-> x, key |-> y, resp |-> z, sig |-> v, recs |-> w ]
        /\ p.head = x /\ p.key = y /\ p.resp = z /\ p.sig = v /\ p.recs = w
  BY <1>1
<1>3. \A q : q = [ p EXCEPT !.head = h ] =>
        IsPack(q) /\ q.head = h /\ q.resp = p.resp /\ q.sig = p.sig /\ q.recs = p.recs
  BY <1>2, PackFields
<1>4. \A q : q = [ p EXCEPT !.key = k ] =>
        IsPack(q) /\ q.head = p.head /\ q.resp = p.resp /\ q.sig = p.sig /\ q.recs = p.recs
  BY <1>2, PackFields
<1>5. \A q : q = [ p EXCEPT !.recs = l ] =>
        IsPack(q) /\ q.head = p.head /\ q.resp = p.resp /\ q.sig = p.sig /\ q.recs = l
  BY <1>2, PackFields
<1> QED
  BY <1>3, <1>4, <1>5

(* The same of the key alone.                                               *)
LEMMA Rekeyed ==
  ASSUME NEW p, IsPack(p), NEW k, NEW q, q = [ p EXCEPT !.key = k ]
  PROVE  /\ IsPack(q) /\ q.head = p.head /\ q.resp = p.resp
         /\ q.sig = p.sig /\ q.recs = p.recs
<1>1. p.head \in Heads /\ IsList(p.recs)
  BY Opens
<1> QED
  BY <1>1, AssignedFields

(* And of the head alone.                                                   *)
LEMMA Reheaded ==
  ASSUME NEW p, IsPack(p), NEW h \in Heads, NEW q, q = [ p EXCEPT !.head = h ]
  PROVE  IsPack(q) /\ q.head = h /\ q.resp = p.resp /\ q.sig = p.sig /\ q.recs = p.recs
<1>1. IsList(p.recs)
  BY Opens
<1> QED
  BY <1>1, AssignedFields

(* So it does when SetData assigns what a frame has.                        *)
LEMMA TakenFields ==
  ASSUME NEW p, IsPack(p), NEW r, NEW g, g.size \in Nat, NEW l, IsList(l)
  PROVE  /\ IsPack(Taken(p, r, g, l)) /\ Taken(p, r, g, l).head = p.head
         /\ Taken(p, r, g, l).resp = r /\ Taken(p, r, g, l).sig = g /\ Taken(p, r, g, l).recs = l
<1>1. PICK x \in Heads : \E y, z, v, w :
        p = [ head |-> x, key |-> y, resp |-> z, sig |-> v, recs |-> w ] /\ p.head = x
  BY Opens
<1>2. PICK y, z, v, w :
        p = [ head |-> x, key |-> y, resp |-> z, sig |-> v, recs |-> w ] /\ p.head = x
  BY <1>1
<1>3. PICK a : a = [ p EXCEPT !.resp = r ]
  OBVIOUS
<1>4. a = [ head |-> x, key |-> y, resp |-> r, sig |-> v, recs |-> w ]
  BY <1>2, <1>3
<1>5. PICK b : b = [ a EXCEPT !.sig = g ]
  OBVIOUS
<1>6. b = [ head |-> x, key |-> y, resp |-> r, sig |-> g, recs |-> w ]
  BY <1>4, <1>5
<1>7. Taken(p, r, g, l) = [ b EXCEPT !.recs = l ]
  BY <1>3, <1>5, Zenon DEF Taken
<1>8. [ b EXCEPT !.recs = l ] = [ head |-> x, key |-> y, resp |-> r, sig |-> g, recs |-> l ]
  BY <1>6
<1> QED
  BY <1>2, <1>7, <1>8, PackFields

(* The records of a message behind those that are there.                    *)
LEMMA AddAllFacts ==
  ASSUME NEW l, IsList(l), NEW s \in Seq(Items)
  PROVE  /\ IsList(AddAll(l, s))
         /\ l.items = << >> => AddAll(l, s).items = s
<1>1. PICK t \in Seq(Items) : \E i : l = [ items |-> t, it |-> i ]
  BY DEF IsList
<1>2. l.items = t
  BY <1>1
<1>3. CASE s = << >>
  BY <1>3 DEF AddAll
<1>4. CASE s # << >>
  <2>1. AddAll(l, s) = [ items |-> t \o s, it |-> List!Stale ]
    BY <1>2, <1>4 DEF AddAll
  <2>2. t \o s \in Seq(Items)
    BY ConcatProperties
  <2>3. AddAll(l, s).items = t \o s
    BY <2>1
  <2>4. t = << >> => t \o s = s
    BY ConcatEmptySeq
  <2> QED
    BY <1>2, <2>1, <2>2, <2>3, <2>4 DEF IsList
<1> QED
  BY <1>3, <1>4

(* What the walk finds in a frame: the records that were sent, but for      *)
(* padding, or those in front of the first that it does not read back.      *)
LEMMA FoundFacts ==
  ASSUME NEW m, IsMessage(m), NEW f \in Found(m)
  PROVE  /\ f \in Seq(Items)
         /\ Whole(m.recs) => f = m.recs \/ f = Append(m.recs, Phantom)
         /\ m.zeroes = 0 => KeepsFront(m.recs, f)
<1>1. PICK s \in Seq(Items) : s = m.recs
  BY DEF IsMessage
<1>2. Phantom \in Items /\ Junk \in Items /\ << >> \in Seq(Items) /\ Len(s) \in Nat
  BY EmptySeq, LenProperties DEF Items
<1>3. CASE Whole(s)
  <2>1. f = s \o (IF m.zeroes >= Phantom.size THEN << Phantom >> ELSE << >>)
    BY <1>1, <1>3 DEF Found
  <2>2. s \o << Phantom >> = Append(s, Phantom) /\ s \o << >> = s
    BY <1>2, AppendIsConcat, ConcatEmptySeq
  <2>3. f = s \/ f = Append(s, Phantom)
    BY <2>1, <2>2
  <2>4. f \in Seq(Items)
    BY <1>2, <2>3, AppendProperties
  <2>5. m.zeroes = 0 => f = s
    BY <2>1, <2>2 DEF Phantom
  <2>6. KeepsFront(s, s)
    BY <1>2 DEF KeepsFront
  <2> QED
    BY <1>1, <2>3, <2>4, <2>5, <2>6
<1>4. CASE ~Whole(s)
  <2>1. PICK k \in DOMAIN s :
          /\ s[k].back # "whole" /\ WholeUpTo(s, k - 1)
          /\ \E y \in FoundBehind(s[k]) : f = SubSeq(s, 1, k - 1) \o y
    BY <1>1, <1>4, Zenon DEF Found
  <2>2. PICK x \in FoundBehind(s[k]) : f = SubSeq(s, 1, k - 1) \o x
    BY <2>1
  <2>3. k \in 1 .. Len(s) /\ s[k] \in Items
    BY <1>2, LenProperties, ElementOfSeq
  <2>4. x \in Seq(Items)
    <3>1. PICK r \in Items : r = s[k]
      BY <2>3
    <3>2. <<r>> \in Seq(Items) /\ <<Junk>> \in Seq(Items) /\ <<r, Junk>> \in Seq(Items)
      BY <1>2
    <3>3. x \in { << >>, <<r>>, <<Junk>>, <<r, Junk>> }
      BY <2>2, <3>1, Zenon DEF FoundBehind
    <3> QED
      BY <1>2, <3>2, <3>3
  <2>5. PICK u \in Seq(Items) : /\ u = SubSeq(s, 1, k - 1) /\ Len(u) = k - 1
                                /\ \A i \in 1 .. k - 1 : u[i] = s[i]
    <3>1. PICK n \in Int : n = k - 1
      BY <1>2, <2>3
    <3>2. \A i \in 1 .. n : s[i] \in Items
      BY <1>2, <2>3, <3>1, ElementOfSeq
    <3>3. PICK u : u = SubSeq(s, 1, n)
      OBVIOUS
    <3>4. /\ u \in Seq(Items) /\ Len(u) = IF 1 <= n THEN n - 1 + 1 ELSE 0
          /\ \A i \in 1 .. n - 1 + 1 : u[i] = s[1 + i - 1]
      BY <3>1, <3>2, <3>3, SubSeqProperties
    <3>5. Len(u) = n /\ \A i \in 1 .. n : u[i] = s[i]
      BY <1>2, <2>3, <3>1, <3>4
    <3> QED
      BY <3>1, <3>3, <3>4, <3>5
  <2>6. /\ f \in Seq(Items) /\ Len(f) = Len(u) + Len(x)
        /\ \A i \in 1 .. Len(u) : f[i] = u[i]
    BY <2>2, <2>4, <2>5, ConcatProperties
  <2>7. Len(x) \in Nat
    BY <2>4, LenProperties
  <2>8. ASSUME NEW j \in 0 .. Len(s), WholeUpTo(s, j)
        PROVE  j <= Len(f) /\ \A i \in 1 .. j : f[i] = s[i]
    <3>1. j <= k - 1
      BY <1>2, <2>1, <2>3, <2>8 DEF WholeUpTo
    <3> QED
      BY <1>2, <2>3, <2>5, <2>6, <2>7, <3>1
  <2> QED
    BY <1>1, <1>4, <2>6, <2>8 DEF KeepsFront
<1> QED
  BY <1>3, <1>4

(* A frame that shows what was written gives a packet the records found.    *)
LEMMA OpenedFacts ==
  ASSUME NEW p, IsPack(p), NEW m, IsMessage(m), NEW f \in Found(m)
  PROVE  /\ IsPack(Opened(p, m, f)) /\ Opened(p, m, f).head = p.head
         /\ p.recs.items = << >> => Opened(p, m, f).recs.items = f
<1>1. IsList(p.recs) /\ p.sig.size \in Nat
  BY Opens
<1>2. PICK l : l = AddAll(p.recs, f)
  OBVIOUS
<1>3. IsList(l) /\ (p.recs.items = << >> => l.items = f)
  BY <1>1, <1>2, FoundFacts, AddAllFacts
<1>4. PICK g : g = IF m.head.pt = PT_SIGNED_APPDATA
                   THEN [ size |-> m.sig.size, data |-> m.sig.size ] ELSE p.sig
  OBVIOUS
<1>5. g.size \in Nat
  BY <1>1, <1>4 DEF IsMessage
<1>6. \E r : Opened(p, m, f) = Taken(p, r, g, l)
  BY <1>2, <1>4, Zenon DEF Opened
<1> QED
  BY <1>3, <1>5, <1>6, TakenFields

(* One that shows anything leaves some packet, with the header that was read. *)
LEMMA GarbledFacts ==
  ASSUME NEW p, IsPack(p), NEW m, IsMessage(m), NEW o \in Garbled(p, m)
  PROVE  IsPack(o.pack) /\ o.pack.head = p.head
<1>1. IsList(p.recs)
  BY Opens
<1>2. CASE m.head.pt = PT_SIGNED_APPDATA
  <2>1. \E g : g.size \in Nat /\ o.pack = Taken(p, p.resp, g, p.recs)
    BY <1>2 DEF Garbled, IsMessage
  <2> QED
    BY <1>1, <2>1, TakenFields
<1>3. CASE m.head.pt # PT_SIGNED_APPDATA
  <2>1. PICK s \in { << >>, << Junk >> } : \E r : o.pack = Taken(p, r, p.sig, AddAll(p.recs, s))
    BY <1>3 DEF Garbled
  <2>2. << >> \in Seq(Items) /\ << Junk >> \in Seq(Items)
    BY EmptySeq DEF Items
  <2>3. s \in Seq(Items)
    BY <2>2
  <2>4. IsList(AddAll(p.recs, s)) /\ p.sig.size \in Nat
    BY <1>1, <2>3, AddAllFacts, Opens
  <2> QED
    BY <2>1, <2>4, TakenFields
<1> QED
  BY <1>2, <1>3

-----------------------------------------------------------------------------
(***************************************************************************)
(* Frames. What a recursion over a list says of it, by induction over its  *)
(* length: a set that holds 0, and the next of each of its numbers, holds *)
(* all numbers, because what it lacks would have a least element.          *)
(***************************************************************************)
LEMMA HasLeast ==
  ASSUME NEW T \in SUBSET Nat, T # {}
  PROVE  \E x \in T : \A y \in T : x <= y
<1> DEFINE Less == { p \in Nat \X Nat : p[1] < p[2] }
<1>1. IsWellFoundedOn(Less, Nat)
  BY NatLessThanWellFounded DEF OpToRel
<1>2. PICK x \in T : \A y \in T : ~(<<y, x>> \in Less)
  BY <1>1, WFMin
<1>3. \A y \in T : ~(y < x)
  BY <1>2
<1> QED
  BY <1>3

(* A set that holds 0, and the successor of all it holds, holds every number. *)
LEMMA Induction ==
  ASSUME NEW H, 0 \in H, \A n \in Nat : n \in H => n + 1 \in H
  PROVE  Nat \subseteq H
<1> SUFFICES ASSUME ~(Nat \subseteq H)
             PROVE  FALSE
  OBVIOUS
<1>1. PICK x \in Nat \ H : \A y \in Nat \ H : x <= y
  BY HasLeast
<1>2. x # 0 /\ x - 1 \in Nat
  BY <1>1
<1>3. x - 1 \in H
  BY <1>1, <1>2
<1> QED
  BY <1>1, <1>2, <1>3

(***************************************************************************)
(* Sums.                                                                   *)
(***************************************************************************)
IsSum(f, s, n) == f = [ i \in 0 .. n |-> IF i = 0 THEN 0 ELSE f[i - 1] + s[i] ]

(* The function that SumsUpTo describes exists. *)
LEMMA SumExists ==
  ASSUME NEW s \in Seq(Int)
  PROVE  \E f : IsSum(f, s, Len(s))
<1> DEFINE H == { n \in Nat : n <= Len(s) => \E f : IsSum(f, s, n) }
<1>1. 0 \in H
  <2>1. IsSum([ i \in 0 .. 0 |-> 0 ], s, 0)
    BY DEF IsSum
  <2> QED
    BY <2>1
<1>2. ASSUME NEW n \in Nat, n \in H
      PROVE  n + 1 \in H
  <2> SUFFICES ASSUME n + 1 <= Len(s)
               PROVE  \E f : IsSum(f, s, n + 1)
    OBVIOUS
  <2>1. PICK f : IsSum(f, s, n)
    BY <1>2
  <2>2. IsSum([ i \in 0 .. n + 1 |-> IF i = n + 1 THEN f[n] + s[n + 1] ELSE f[i] ], s, n + 1)
    BY <2>1 DEF IsSum
  <2> QED
    BY <2>2
<1>3. Nat \subseteq H
  BY <1>1, <1>2, Induction
<1> QED
  BY <1>3

(* So the sums are what their recursion says. *)
LEMMA SumsDefined ==
  ASSUME NEW s \in Seq(Int)
  PROVE  /\ SumsUpTo(s)[0] = 0
         /\ \A i \in 1 .. Len(s) : SumsUpTo(s)[i] = SumsUpTo(s)[i - 1] + s[i]
<1>1. SumsUpTo(s) = CHOOSE f : IsSum(f, s, Len(s))
  BY DEF SumsUpTo, IsSum
<1>2. IsSum(SumsUpTo(s), s, Len(s))
  BY <1>1, SumExists
<1>3. \A i \in 0 .. Len(s) :
        SumsUpTo(s)[i] = IF i = 0 THEN 0 ELSE SumsUpTo(s)[i - 1] + s[i]
  BY <1>2 DEF IsSum
<1> QED
  BY <1>3

(* As many summands above zero have no sum of zero, unless there are none.  *)
LEMMA TotalIsAbove ==
  ASSUME NEW s \in Seq(Nat), \A i \in 1 .. Len(s) : s[i] > 0
  PROVE  Total(s) \in Nat /\ (Total(s) = 0 => s = << >>)
<1>1. /\ SumsUpTo(s)[0] = 0
      /\ \A i \in 1 .. Len(s) : SumsUpTo(s)[i] = SumsUpTo(s)[i - 1] + s[i]
  BY SumsDefined
<1>2. \A i \in 1 .. Len(s) : s[i] \in Nat
  BY ElementOfSeq
<1> DEFINE H == { n \in Nat : n <= Len(s) =>
                    SumsUpTo(s)[n] \in Nat /\ (SumsUpTo(s)[n] = 0 => n = 0) }
<1>3. 0 \in H
  BY <1>1
<1>4. ASSUME NEW n \in Nat, n \in H
      PROVE  n + 1 \in H
  <2> SUFFICES ASSUME n + 1 <= Len(s)
               PROVE  SumsUpTo(s)[n + 1] \in Nat /\ SumsUpTo(s)[n + 1] # 0
    OBVIOUS
  <2>1. n + 1 \in 1 .. Len(s) /\ n + 1 - 1 = n /\ SumsUpTo(s)[n] \in Nat
    BY <1>4
  <2>2. SumsUpTo(s)[n + 1] = SumsUpTo(s)[n] + s[n + 1] /\ s[n + 1] \in Nat /\ s[n + 1] > 0
    BY <1>1, <1>2, <2>1
  <2> QED
    BY <2>1, <2>2
<1>5. Nat \subseteq H
  BY <1>3, <1>4, Induction
<1>6. Len(s) \in Nat /\ (Len(s) = 0 => s = << >>)
  BY LenProperties, EmptySeq
<1>7. Len(s) \in H
  BY <1>5, <1>6
<1> QED
  BY <1>6, <1>7 DEF Total

(* A frame is as long as it is, and empty only without preamble and records. *)
LEMMA EmptyFrame ==
  ASSUME NEW p, IsPack(p), Encodes(p)
  PROVE  /\ Encoded(p).fdl \in Nat
         /\ Encoded(p).fdl = 0 => p.recs.items = << >> /\ p.head.pt = PT_APPDATA
<1>1. PICK s \in Seq(Items) : s = p.recs.items
  BY Opens DEF IsList
<1>2. PICK n \in Nat : n = Len(s) /\ DOMAIN s = 1 .. n
  BY LenProperties
<1>3. \A i \in 1 .. n : s[i].size # NoData /\ s[i] \in Items
  BY <1>1, <1>2, ElementOfSeq DEF Encodes, Fits
<1>4. \A i \in 1 .. n : s[i].size \in Nat /\ s[i].size > 0
  BY <1>3, RecordsAssumption DEF Items, Phantom, Junk
<1>5. PICK t : t = [ i \in DOMAIN s |-> s[i].size ]
  OBVIOUS
<1>6. t \in Seq(Nat) /\ Len(t) = n /\ \A i \in 1 .. Len(t) : t[i] > 0
  BY <1>2, <1>4, <1>5
<1>7. Total(t) \in Nat /\ (Total(t) = 0 => t = << >>)
  BY <1>6, TotalIsAbove
<1>8. p.head \in Heads
  BY Opens
<1>9. PICK h : h = Preamble([ pt |-> p.head.pt, sig |-> p.sig.size ])
  OBVIOUS
<1>10. h \in Nat /\ (h = 0 => p.head.pt = PT_APPDATA)
  <2>1. p.head.pt \in {PT_RESPONCE, PT_APPDATA, PT_SIGNED_APPDATA}
    <3>1. PICK t0 \in 0 .. 255 : t0 = p.head.pt
      BY <1>8 DEF Heads, U8
    <3>2. t0 <= 2
      BY <3>1 DEF Encodes, Typed, PT_SIGNED_APPDATA
    <3>3. t0 = 0 \/ t0 = 1 \/ t0 = 2
      BY <3>2
    <3> QED
      BY <3>1, <3>3 DEF PT_RESPONCE, PT_APPDATA, PT_SIGNED_APPDATA
  <2>2. CASE p.head.pt = PT_RESPONCE
    BY <1>9, <2>2 DEF Preamble, PT_RESPONCE, PT_SIGNED_APPDATA
  <2>3. CASE p.head.pt = PT_SIGNED_APPDATA
    <3>1. p.sig.size \in Nat
      BY Opens
    <3>2. h = 2 + p.sig.size
      BY <1>9, <2>3 DEF Preamble, PT_SIGNED_APPDATA, PT_RESPONCE
    <3> QED
      BY <3>1, <3>2
  <2>4. CASE p.head.pt = PT_APPDATA
    BY <1>9, <2>4 DEF Preamble, PT_APPDATA, PT_RESPONCE, PT_SIGNED_APPDATA
  <2> QED
    BY <2>1, <2>2, <2>3, <2>4
<1>11. Frame(p, p.recs.items) = h + Total(t)
  BY <1>1, <1>5, <1>9 DEF Frame
<1>12. PICK f \in Nat : f = h + Total(t)
  BY <1>7, <1>10
<1>13. Padding(f) \in Nat
  BY DEF Padding
<1>14. PICK z \in Nat : Encoded(p).fdl = f + z
  <2>1. Encoded(p).fdl = f + (IF p.head.ena = 1 THEN Padding(f) ELSE 0)
    BY <1>11, <1>12 DEF Encoded
  <2> QED
    BY <1>13, <2>1
<1>15. Encoded(p).fdl \in Nat /\ (Encoded(p).fdl = 0 => h = 0 /\ Total(t) = 0)
  BY <1>7, <1>10, <1>12, <1>14
<1>16. Encoded(p).fdl = 0 => n = 0
  BY <1>6, <1>7, <1>15
<1>17. n = 0 => s = << >>
  BY <1>2, EmptySeq
<1> QED
  BY <1>1, <1>10, <1>15, <1>16, <1>17
-----------------------------------------------------------------------------
(* A call of SetData leaves a packet with the header that it read; one that *)
(* had no records gets those in front of the first that is not read back.   *)
LEMMA OutcomeFacts ==
  ASSUME NEW p, IsPack(p), NEW m, m # NoMessage => IsMessage(m), NEW o \in Outcomes(p, m)
  PROVE  /\ IsPack(o.pack)
         /\ o.ok = 1 => m # NoMessage /\ o.pack.head = m.head
         /\ m # NoMessage /\ m.head.prv = 1 => o.pack.head = m.head
         /\ m = NoMessage => o.pack = p
         /\ p.recs.items = << >> /\ (m # NoMessage => m.zeroes = 0 /\ m.head.ena # 1)
              => IF o.ok = 1 THEN KeepsFront(m.recs, o.pack.recs.items)
                             ELSE o.pack.recs.items = << >>
<1>1. CASE m = NoMessage
  BY <1>1 DEF Outcomes
<1>2. CASE m # NoMessage /\ m.head.prv # 1
  <2>1. PICK h \in NoiseHeads : o.pack = [ p EXCEPT !.head = h ] /\ o.ok = 0
    BY <1>2 DEF Outcomes
  <2>2. h \in Heads /\ IsList(p.recs)
    BY HeadsAssumption, Opens
  <2> QED
    BY <1>2, <2>1, <2>2, AssignedFields
<1>3. CASE m # NoMessage /\ m.head.prv = 1
  <2>1. PICK q : q = [ p EXCEPT !.head = m.head ]
    OBVIOUS
  <2>2. IsMessage(m) /\ m.head \in Heads /\ IsList(p.recs)
    BY <1>3, Opens DEF IsMessage
  <2>3. IsPack(q) /\ q.head = m.head /\ q.recs = p.recs
    BY <2>1, <2>2, AssignedFields
  <2>4. \/ o.pack = q /\ (o.ok = 0 \/ m.fdl = 0)
        \/ m.head.ena = 1 /\ o \in Garbled(q, m)
        \/ o.ok = 1 /\ \E f \in Found(m) : o.pack = Opened(q, m, f)
    BY <1>3, <2>1 DEF Outcomes, Deciphered
  <2>5. CASE o.pack = q /\ (o.ok = 0 \/ m.fdl = 0)
    <3>1. m.fdl = 0 => m.recs = << >>
      BY <2>2 DEF IsMessage
    <3>2. KeepsFront(<< >>, << >>)
      BY DEF KeepsFront
    <3> QED
      BY <1>3, <2>3, <2>5, <3>1, <3>2
  <2>6. CASE m.head.ena = 1 /\ o \in Garbled(q, m)
    BY <1>3, <2>2, <2>3, <2>6, GarbledFacts
  <2>7. ASSUME o.ok = 1, NEW f \in Found(m), o.pack = Opened(q, m, f)
        PROVE  /\ IsPack(o.pack) /\ o.pack.head = m.head
               /\ p.recs.items = << >> /\ m.zeroes = 0 => KeepsFront(m.recs, o.pack.recs.items)
    BY <2>2, <2>3, <2>7, OpenedFacts, FoundFacts
  <2> QED
    BY <1>3, <2>4, <2>5, <2>6, <2>7
<1> QED
  BY <1>1, <1>2, <1>3

(* What GetData returns.                                                    *)
LEMMA EncodedFacts ==
  ASSUME NEW p, IsPack(p)
  PROVE  /\ ~Encodes(p) => Encoded(p) = NoMessage
         /\ Encodes(p) => IsMessage(Encoded(p))
         /\ Encodes(p) => Encoded(p).head = p.head /\ Encoded(p).recs = p.recs.items
         /\ Encodes(p) /\ p.head.ena # 1 => Encoded(p).zeroes = 0
<1>1. p.head \in Heads /\ p.recs.items \in Seq(Items) /\ p.sig.size \in Nat
  BY Opens DEF IsList
<1>2. /\ ~Encodes(p) => Encoded(p) = NoMessage
      /\ Encodes(p) => /\ Encoded(p).head = p.head /\ Encoded(p).recs = p.recs.items
                       /\ Encoded(p).sig = p.sig
      /\ Encodes(p) /\ p.head.ena # 1 => Encoded(p).zeroes = 0
  BY DEF Encoded
<1>3. Encodes(p) => /\ Encoded(p).fdl \in Nat
                    /\ Encoded(p).fdl = 0 => p.recs.items = << >>
  BY EmptyFrame
<1> QED
  BY <1>1, <1>2, <1>3 DEF IsMessage

(* SetData takes the message of a source without encryption if it can be    *)
(* copied, and no other: it waits for a packet with a route.                *)
LEMMA CopyIsTaken ==
  ASSUME NEW p, IsPack(p), p.head.ena = 0, NEW c, NEW o \in Outcomes(c, Encoded(p))
  PROVE  /\ o.ok = 1 <=> Copyable(p)
         /\ Copyable(p) => Encoded(p) # NoMessage /\ Deciphered(c, Encoded(p))
<1>1. PICK m : m = Encoded(p)
  OBVIOUS
<1>2. CASE ~Encodes(p)
  BY <1>1, <1>2, EncodedFacts DEF Outcomes, Copyable
<1>3. CASE Encodes(p)
  <2>1. m.head = p.head /\ m.hl = (IF p.head.rte THEN 16 ELSE 11) /\ m.fdl \in Nat
    BY <1>1, <1>3, EmptyFrame DEF Encoded
  <2>2. m # NoMessage
    BY <2>1 DEF NoMessage
  <2>3. Deciphered(c, m)
    BY <2>1 DEF Deciphered
  <2>4. PICK n \in Nat : n = FrameBytes(m.fdl)
    BY <2>1 DEF FrameBytes, CrcSize
  <2>5. PackSize([ hl |-> m.hl, rte |-> m.head.rte, fdl |-> m.fdl ])
          = m.hl + (IF m.head.rte THEN 5 ELSE 0) + n
    BY <2>4 DEF PackSize, RouteSize
  <2>6. EncodedSize([ hl |-> m.hl, fdl |-> m.fdl ]) = m.hl + n
    BY <2>4 DEF EncodedSize
  <2>7. Complete(m) <=> ~p.head.rte
    BY <2>1, <2>4, <2>5, <2>6 DEF Complete
  <2>8. m.head.prv # 1 => o.ok = 0
    BY <1>1, <2>2 DEF Outcomes
  <2>9. m.head.prv = 1 /\ ~Complete(m) => o.ok = 0
    BY <1>1, <2>2 DEF Outcomes
  <2>10. m.head.prv = 1 /\ Complete(m) => o.ok = 1
    BY <1>1, <2>2, <2>3 DEF Outcomes
  <2> QED
    BY <1>1, <1>3, <2>1, <2>2, <2>3, <2>7, <2>8, <2>9, <2>10 DEF Copyable
<1> QED
  BY <1>2, <1>3
-----------------------------------------------------------------------------
(* What EXCEPT does to a function on the packets.                           *)
LEMMA Updated ==
  ASSUME NEW f, f = [ q \in Packets |-> f[q] ], NEW p \in Packets, NEW x,
         NEW g, g = [ f EXCEPT ![p] = x ]
  PROVE  /\ g = [ q \in Packets |-> g[q] ]
         /\ g[p] = x
         /\ \A q \in Packets \ {p} : g[q] = f[q]
OBVIOUS

(* A step in which only the packet p may lose what it was asked for.        *)
LEMMA KeepsPacks ==
  ASSUME PacksInv, AskedInv, NEW p \in Packets,
         packs' = [ q \in Packets |-> packs'[q] ], asked' = [ q \in Packets |-> asked'[q] ],
         IsPack(packs'[p]),
         \A q \in Packets \ {p} :
           /\ IsPack(packs'[q]) /\ asked'[q] = asked[q]
           /\ q \notin excused' \cup stripped' =>
                q \notin excused \cup stripped /\ packs'[q].head.ena = packs[q].head.ena,
         p \notin excused' \cup stripped' => packs'[p].head.ena = asked'[p],
         wire' # NoMessage =>
           /\ IsMessage(wire'.message)
           /\ ~wire'.excused /\ ~wire'.stripped => wire'.message.head.ena = wire'.asked
  PROVE  PacksInv' /\ AskedInv'
<1>1. PacksInv'
  BY DEF PacksInv
<1>2. \A q \in Packets \ (excused' \cup stripped') : packs'[q].head.ena = asked'[q]
  BY DEF AskedInv, EncryptionAsAsked
<1> QED
  BY <1>1, <1>2 DEF AskedInv, EncryptionAsAsked

(* The same where no other packet changes, nor the message.                 *)
LEMMA KeepsOthers ==
  ASSUME PacksInv, AskedInv, NEW p \in Packets, NEW x, IsPack(x),
         packs' = [ packs EXCEPT ![p] = x ],
         asked' = asked \/ \E n : asked' = [ asked EXCEPT ![p] = n ],
         excused \ {p} \subseteq excused', stripped \ {p} \subseteq stripped',
         p \notin excused' \cup stripped' => x.head.ena = asked'[p],
         wire' = wire
  PROVE  PacksInv' /\ AskedInv'
<1>1. packs = [ q \in Packets |-> packs[q] ] /\ \A q \in Packets : IsPack(packs[q])
  BY DEF PacksInv
<1>2. asked = [ q \in Packets |-> asked[q] ]
  BY DEF AskedInv
<1>3. /\ packs' = [ q \in Packets |-> packs'[q] ]
      /\ packs'[p] = x
      /\ \A q \in Packets \ {p} : packs'[q] = packs[q]
  BY <1>1
<1>4. /\ asked' = [ q \in Packets |-> asked'[q] ]
      /\ \A q \in Packets \ {p} : asked'[q] = asked[q]
  BY <1>2
<1>5. wire' # NoMessage =>
           /\ IsMessage(wire'.message)
           /\ ~wire'.excused /\ ~wire'.stripped => wire'.message.head.ena = wire'.asked
  BY DEF PacksInv, AskedInv
<1> QED
  BY <1>1, <1>3, <1>4, <1>5, KeepsPacks
-----------------------------------------------------------------------------
(* The operations, one by one. Those that fill a packet, and the loop.      *)
LEMMA InitKeeps ==
  ASSUME PacksInv, AskedInv, NEW p \in Packets, InitPacket(p)
  PROVE  PacksInv' /\ AskedInv'
<1>1. PICK x : x = Cleared(packs[p])
  OBVIOUS
<1>2. IsPack(x) /\ x.head.ena = 0
  BY <1>1, ClearedIsPack DEF PacksInv
<1>3. packs' = [ packs EXCEPT ![p] = x ]
  BY <1>1 DEF InitPacket
<1>4. asked' = [ asked EXCEPT ![p] = 0 ] /\ asked'[p] = 0
  BY DEF InitPacket, AskedInv
<1>5. excused \ {p} \subseteq excused' /\ stripped \ {p} \subseteq stripped' /\ wire' = wire
  BY DEF InitPacket
<1> QED
  BY <1>2, <1>3, <1>4, <1>5, KeepsOthers

(* Filling a packet sets its header and leaves its records.                 *)
LEMMA FilledRecords ==
  ASSUME NEW p, IsPack(p), NEW f \in Fills
  PROVE  /\ IsPack(FilledWith(p, f)) /\ FilledWith(p, f).head = f.head
         /\ FilledWith(p, f).recs = p.recs
         /\ f.head.pt = PT_SIGNED_APPDATA => FilledWith(p, f).sig = f.sig
<1>1. PICK h \in Heads : \E k, r, g, l :
        /\ IsList(l) /\ g.size \in Nat
        /\ p = [ head |-> h, key |-> k, resp |-> r, sig |-> g, recs |-> l ]
  BY DEF IsPack
<1>2. PICK k, r, g, l :
        /\ IsList(l) /\ g.size \in Nat
        /\ p = [ head |-> h, key |-> k, resp |-> r, sig |-> g, recs |-> l ]
  BY <1>1
<1>3. PICK q1 : q1 = [ p EXCEPT !.head = f.head ]
  OBVIOUS
<1>4. PICK q2 : q2 = [ q1 EXCEPT !.key = f.key ]
  OBVIOUS
<1>5. PICK q3 : q3 = [ q2 EXCEPT !.resp = f.resp ]
  OBVIOUS
<1>6. PICK y : y = IF f.head.pt = PT_SIGNED_APPDATA THEN f.sig ELSE p.sig
  OBVIOUS
<1>7. PICK x : x = [ q3 EXCEPT !.sig = y ]
  OBVIOUS
<1>8. q1 = [ head |-> f.head, key |-> k, resp |-> r, sig |-> g, recs |-> l ]
  BY <1>2, <1>3
<1>9. q2 = [ head |-> f.head, key |-> f.key, resp |-> r, sig |-> g, recs |-> l ]
  BY <1>4, <1>8
<1>10. q3 = [ head |-> f.head, key |-> f.key, resp |-> f.resp, sig |-> g, recs |-> l ]
  BY <1>5, <1>9
<1>11. x = [ head |-> f.head, key |-> f.key, resp |-> f.resp, sig |-> y, recs |-> l ]
  BY <1>7, <1>10
<1>12. x = FilledWith(p, f)
  BY <1>3, <1>4, <1>5, <1>6, <1>7, Zenon DEF FilledWith
<1>13. y.size \in Nat
  BY <1>2, <1>6, SignaturesAssumption DEF IsSignature
<1>14. IsPack(x) /\ x.head = f.head /\ x.sig = y /\ x.recs = l /\ p.recs = l
  BY <1>2, <1>11, <1>13, HeadsAssumption, PackFields
<1> QED
  BY <1>6, <1>12, <1>14

(* The program fills a packet: its header is what was asked for.            *)
LEMMA FillKeeps ==
  ASSUME PacksInv, AskedInv, NEW p \in Packets, NEW f \in Fills, Fill(p, f)
  PROVE  PacksInv' /\ AskedInv'
<1>1. PICK x : x = FilledWith(packs[p], f)
  OBVIOUS
<1>2. IsPack(x) /\ x.head = f.head
  BY <1>1, FilledRecords DEF PacksInv
<1>3. packs' = [ packs EXCEPT ![p] = x ]
  BY <1>1, Zenon DEF Fill
<1>4. asked' = [ asked EXCEPT ![p] = f.head.ena ] /\ asked'[p] = f.head.ena
  BY DEF Fill, AskedInv
<1>5. excused \ {p} \subseteq excused' /\ stripped \ {p} \subseteq stripped' /\ wire' = wire
  BY DEF Fill
<1> QED
  BY <1>2, <1>3, <1>4, <1>5, KeepsOthers

(* The key steers nothing that was asked for.                               *)
LEMMA SetKeyKeeps ==
  ASSUME PacksInv, AskedInv, NEW p \in Packets, NEW k, SetKey(p, k)
  PROVE  PacksInv' /\ AskedInv'
<1>1. IsPack(packs[p]) /\ IsList(packs[p].recs) /\ packs[p].head \in Heads
  BY Opens DEF PacksInv
<1>2. PICK x : x = [ packs[p] EXCEPT !.key = k ]
  OBVIOUS
<1>3. IsPack(x) /\ x.head = packs[p].head
  BY <1>1, <1>2, AssignedFields
<1>4. packs' = [ packs EXCEPT ![p] = x ]
  BY <1>2, Zenon DEF SetKey
<1>5. /\ asked' = asked /\ excused' = excused /\ stripped' = stripped /\ wire' = wire
  BY DEF SetKey, history
<1>6. p \notin excused' \cup stripped' => x.head.ena = asked'[p]
  BY <1>3, <1>5 DEF AskedInv, EncryptionAsAsked
<1> QED
  BY <1>3, <1>4, <1>5, <1>6, KeepsOthers

(* Another list of records changes neither.                                 *)
LEMMA ListKeeps ==
  ASSUME PacksInv, AskedInv, NEW p \in Packets, NEW l, IsList(l),
         packs' = [ packs EXCEPT ![p].recs = l ],
         asked' = asked, excused \subseteq excused', stripped' = stripped, wire' = wire
  PROVE  PacksInv' /\ AskedInv'
<1>1. IsPack(packs[p]) /\ packs[p].head \in Heads
  BY Opens DEF PacksInv
<1>2. PICK x : x = [ packs[p] EXCEPT !.recs = l ]
  OBVIOUS
<1>3. IsPack(x) /\ x.head = packs[p].head
  BY SMTT(30), <1>1, <1>2, AssignedFields
<1>4. packs' = [ packs EXCEPT ![p] = x ]
  BY <1>2, Zenon
<1>5. p \notin excused' \cup stripped' => x.head.ena = asked'[p]
  BY <1>3 DEF AskedInv, EncryptionAsAsked
<1> QED
  BY <1>3, <1>4, <1>5, KeepsOthers

(* What push_back, First and a loop of the library make of a list.          *)
LEMMA ListFacts ==
  ASSUME NEW l, IsList(l)
  PROVE  /\ l.items \in Seq(Items)
         /\ \A r \in Records : IsList(List!Add(l, r))
         /\ IsList(List!First(l)) /\ List!First(l).items = l.items /\ List!First(l).it = 1
         /\ \A i : IsList(List!LeftAt(l, i))
<1>1. PICK s \in Seq(Items) : \E i : l = [ items |-> s, it |-> i ]
  BY DEF IsList
<1>2. PICK i : l = [ items |-> s, it |-> i ]
  BY <1>1
<1>3. List!First(l) = [ items |-> s, it |-> 1 ]
  BY <1>2 DEF List!First
<1>4. \A j : List!LeftAt(l, j) = [ items |-> s, it |-> j ]
  BY <1>2 DEF List!LeftAt
<1>5. ASSUME NEW r \in Records PROVE IsList(List!Add(l, r))
  <2>1. Append(s, r) \in Seq(Items)
    BY AppendProperties DEF Items
  <2>2. List!Add(l, r) = [ items |-> Append(s, r), it |-> List!Stale ]
    BY <1>2 DEF List!Add
  <2> QED
    BY <2>1, <2>2 DEF IsList
<1>6. \A j : IsList([ items |-> s, it |-> j ])
  BY DEF IsList
<1>7. IsList(List!First(l)) /\ List!First(l).items = l.items /\ List!First(l).it = 1
  BY <1>2, <1>3, <1>6
<1>8. l.items \in Seq(Items)
  BY <1>2
<1>9. \A j : IsList(List!LeftAt(l, j))
  BY <1>4, <1>6
<1> QED
  BY <1>5, <1>7, <1>8, <1>9

(* What Next can make of a list, and what Erase can.                        *)
LEMMA MovedFacts ==
  ASSUME NEW l, IsList(l), NEW n \in List!Next(l) \cup List!Erase(l)
  PROVE  IsList(n)
<1>1. PICK s \in Seq(Items) : \E i : l = [ items |-> s, it |-> i ]
  BY DEF IsList
<1>2. PICK i : l = [ items |-> s, it |-> i ]
  BY <1>1
<1>3. \A j : IsList([ items |-> s, it |-> j ])
  BY DEF IsList
<1>4. \A j : [ l EXCEPT !.it = j ] = [ items |-> s, it |-> j ]
  BY <1>2
<1>5. CASE n \in List!Next(l)
  <2>1. PICK j \in List!Cursor(l) : n = [ l EXCEPT !.it = IF j = List!End(l) THEN j ELSE j + 1 ]
    BY <1>5, Zenon DEF List!Next
  <2>2. PICK k : k = IF j = List!End(l) THEN j ELSE j + 1
    OBVIOUS
  <2>3. n = [ l EXCEPT !.it = k ]
    BY <2>1, <2>2, Zenon
  <2> QED
    BY <1>3, <1>4, <2>3
<1>6. CASE n \in List!Erase(l)
  <2>1. PICK j \in List!Cursor(l) :
          n = IF j = List!End(l) THEN [ l EXCEPT !.it = j ]
              ELSE [ items |-> List!RemoveAt(l.items, j), it |-> j ]
    BY <1>6, Zenon DEF List!Erase
  <2>2. CASE j = List!End(l)
    BY <1>3, <1>4, <2>1, <2>2
  <2>3. CASE j # List!End(l)
    <3>1. l.items = s /\ Len(s) \in Nat
      BY <1>2, LenProperties
    <3>2. j \in 1 .. Len(s)
      BY <1>2, <2>3, <3>1 DEF List!Cursor, List!End
    <3>3. SubSeq(s, 1, j - 1) \in Seq(Items) /\ SubSeq(s, j + 1, Len(s)) \in Seq(Items)
      BY <3>1, <3>2, SubSeqProperties
    <3>4. List!RemoveAt(s, j) \in Seq(Items)
      BY <3>3, ConcatProperties DEF List!RemoveAt
    <3> QED
      BY <2>1, <2>3, <3>1, <3>4 DEF IsList
  <2> QED
    BY <2>2, <2>3
<1> QED
  BY <1>5, <1>6

(* A record is added.                                                       *)
LEMMA AddKeeps ==
  ASSUME PacksInv, AskedInv, NEW p \in Packets, NEW r \in Records, AddRecord(p, r)
  PROVE  PacksInv' /\ AskedInv'
<1>1. IsList(packs[p].recs)
  BY Opens DEF PacksInv
<1>2. PICK l : l = List!Add(packs[p].recs, r)
  OBVIOUS
<1>3. IsList(l)
  BY <1>1, <1>2, ListFacts
<1>4. packs' = [ packs EXCEPT ![p].recs = l ]
  BY <1>2, Zenon DEF AddRecord
<1> QED
  BY <1>3, <1>4, ListKeeps DEF AddRecord

(* A loop starts: First.                                                    *)
LEMMA StartKeeps ==
  ASSUME PacksInv, AskedInv, NEW p \in Packets, StartLoop(p)
  PROVE  PacksInv' /\ AskedInv'
<1>1. IsList(packs[p].recs)
  BY Opens DEF PacksInv
<1>2. PICK l : l = List!First(packs[p].recs)
  OBVIOUS
<1>3. IsList(l)
  BY <1>1, <1>2, ListFacts
<1>4. packs' = [ packs EXCEPT ![p].recs = l ]
  BY <1>2, Zenon DEF StartLoop
<1> QED
  BY <1>3, <1>4, ListKeeps DEF StartLoop, history

(* A loop goes on: Next, or Erase.                                          *)
LEMMA GoOnKeeps ==
  ASSUME PacksInv, AskedInv, NEW p \in Packets, LoopNext(p) \/ LoopErase(p)
  PROVE  PacksInv' /\ AskedInv'
<1>1. IsList(packs[p].recs)
  BY Opens DEF PacksInv
<1>2. PICK l \in List!Next(packs[p].recs) \cup List!Erase(packs[p].recs) :
        packs' = [ packs EXCEPT ![p].recs = l ]
  BY Zenon DEF LoopNext, LoopErase, GoOn
<1>3. IsList(l)
  BY <1>1, <1>2, MovedFacts
<1>4. asked' = asked /\ excused \subseteq excused' /\ stripped' = stripped /\ wire' = wire
  BY DEF LoopNext, LoopErase, GoOn
<1> QED
  BY <1>2, <1>3, <1>4, ListKeeps

(* Bytes of no packet overwrite the header: the packet is excused.          *)
LEMMA NoiseKeeps ==
  ASSUME PacksInv, AskedInv, NEW p \in Packets, DecodeNoise(p)
  PROVE  PacksInv' /\ AskedInv'
<1>1. IsPack(packs[p]) /\ IsList(packs[p].recs)
  BY Opens DEF PacksInv
<1>2. PICK h \in NoiseHeads : packs' = [ packs EXCEPT ![p].head = h ]
  BY DEF DecodeNoise
<1>3. PICK x : x = [ packs[p] EXCEPT !.head = h ]
  OBVIOUS
<1>4. IsPack(x)
  BY <1>1, <1>3, HeadsAssumption, AssignedFields
<1>5. packs' = [ packs EXCEPT ![p] = x ]
  BY <1>2, <1>3, Zenon
<1>6. asked' = asked /\ excused' = excused \cup {p} /\ stripped' = stripped /\ wire' = wire
  BY DEF DecodeNoise
<1> QED
  BY <1>4, <1>5, <1>6, KeepsOthers

(* The message has the header of its packet, and what was asked of that.    *)
LEMMA EncodeKeeps ==
  ASSUME PacksInv, AskedInv, NEW p \in Packets, Encode(p)
  PROVE  PacksInv' /\ AskedInv'
<1>1. IsPack(packs[p]) /\ packs = [ q \in Packets |-> packs[q] ]
      /\ \A q \in Packets : IsPack(packs[q])
  BY DEF PacksInv
<1>2. PICK x : x = Walked(packs[p])
  OBVIOUS
<1>3. IsPack(x) /\ x.head = packs[p].head
  BY <1>1, <1>2, WalkedFacts
<1>4. packs' = [ packs EXCEPT ![p] = x ]
  BY <1>2 DEF Encode
<1>5. /\ packs' = [ q \in Packets |-> packs'[q] ] /\ packs'[p] = x
      /\ \A q \in Packets \ {p} : packs'[q] = packs[q]
  BY <1>1, <1>4
<1>6. asked' = asked /\ excused' = excused /\ stripped' = stripped
  BY DEF Encode, history
<1>7. asked' = [ q \in Packets |-> asked'[q] ]
  BY <1>6 DEF AskedInv
<1>8. p \notin excused \cup stripped => packs[p].head.ena = asked[p]
  BY DEF AskedInv, EncryptionAsAsked
<1>9. ASSUME wire' # NoMessage
      PROVE  /\ IsMessage(wire'.message)
             /\ ~wire'.excused /\ ~wire'.stripped => wire'.message.head.ena = wire'.asked
  <2>1. Encodes(packs[p])
    BY <1>9 DEF Encode
  <2>2. wire'.message = Encoded(packs[p]) /\ wire'.asked = asked[p]
    BY <2>1 DEF Encode
  <2>3. (wire'.excused <=> p \in excused) /\ (wire'.stripped <=> p \in stripped)
    BY <2>1, Zenon DEF Encode
  <2>4. IsMessage(Encoded(packs[p])) /\ Encoded(packs[p]).head = packs[p].head
    BY <1>1, <2>1, EncodedFacts
  <2> QED
    BY <1>8, <2>2, <2>3, <2>4
<1> QED
  BY <1>1, <1>3, <1>5, <1>6, <1>7, <1>8, <1>9, KeepsPacks

(* A packet that was decoded has the header of the message, or is excused.  *)
LEMMA DecodeKeeps ==
  ASSUME PacksInv, AskedInv, NEW p \in Packets, Decode(p)
  PROVE  PacksInv' /\ AskedInv'
<1>1. IsPack(packs[p]) /\ IsMessage(wire.message)
  BY DEF PacksInv, Decode
<1>2. PICK o \in Outcomes(packs[p], wire.message) :
        /\ packs' = [ packs EXCEPT ![p] = o.pack ]
        /\ asked' = [ asked EXCEPT ![p] = IF o.ok = 1 THEN wire.asked ELSE @ ]
        /\ excused' = Put(excused, p,
             \/ o.ok = 0 \/ wire.excused
             \/ ~Deciphered(packs[p], wire.message)
             \/ packs[p].recs.items # << >>
             \/ ~Whole(wire.message.recs))
        /\ stripped' = Put(stripped, p, wire.stripped)
  BY DEF Decode
<1>3. PICK x : x = o.pack
  OBVIOUS
<1>4. IsPack(x) /\ (o.ok = 1 => x.head = wire.message.head)
  BY <1>1, <1>3, OutcomeFacts
<1>5. PICK n : n = IF o.ok = 1 THEN wire.asked ELSE asked[p]
  OBVIOUS
<1>6. asked' = [ asked EXCEPT ![p] = n ] /\ asked'[p] = n
  BY <1>2, <1>5 DEF AskedInv
<1>7. excused \ {p} \subseteq excused' /\ (p \notin excused' => o.ok # 0 /\ ~wire.excused)
  BY <1>2, Zenon DEF Put
<1>8. stripped \ {p} \subseteq stripped' /\ (p \notin stripped' => ~wire.stripped)
  BY <1>2, Zenon DEF Put
<1>9. o.ok \in {0, 1}
  BY <1>2 DEF Outcomes, Garbled
<1>10. wire # NoMessage /\ wire' = wire
  BY DEF Decode
<1>11. p \notin excused' \cup stripped' => x.head.ena = asked'[p]
  BY <1>4, <1>5, <1>6, <1>7, <1>8, <1>9, <1>10 DEF AskedInv
<1> QED
  BY <1>2, <1>3, <1>4, <1>6, <1>7, <1>8, <1>10, <1>11, KeepsOthers
-----------------------------------------------------------------------------
(* Copies. What is made of the target, and of the source of the copy.       *)
LEMMA CopyFacts ==
  ASSUME PacksInv, NEW d \in Packets, NEW s \in Packets,
         NEW target, IsPack(target), target.head.ena = 0, target.recs.items = << >>,
         CopyInto(d, target, s)
  PROVE  \E w, x :
           /\ packs' = [ packs EXCEPT ![s] = w, ![d] = x ]
           /\ IsPack(w) /\ IsPack(x)
           /\ IF d = s \/ ~Copyable(Stripped(packs[s])) THEN x.recs.items = << >>
              ELSE KeepsFront(packs[s].recs.items, x.recs.items)
           /\ s # d => /\ w.recs.items = packs[s].recs.items
                       /\ packs[s].head.ena = 0 => w.head.ena = 0
                       /\ Encodes(packs[s]) => w.recs.it = List!End(w.recs)
           /\ d \notin excused' \cup stripped' => x.head.ena = 0
<1> DEFINE from   == IF s = d THEN target ELSE packs[s]
           source == Stripped(from)
           ena    == IF s = d THEN 0 ELSE packs[s].head.ena
           copy   == IF ena # 0 THEN [ target EXCEPT !.key = source.key, !.head.ena = 1 ]
                     ELSE target
           m      == Encoded(source)
<1>1. IsPack(packs[s]) /\ IsPack(from) /\ packs[s].head \in Heads
  BY Opens DEF PacksInv
<1>2. /\ IsPack(source) /\ source.head.ena = 0 /\ source.recs = from.recs
      /\ source.head.pt = from.head.pt /\ source.sig = from.sig
  BY <1>1, StrippedFacts
<1>3. PICK o \in Outcomes(copy, m) : packs' = [ packs EXCEPT ![s] = Walked(source), ![d] = o.pack ]
  BY DEF CopyInto
<1>4. IsPack(copy) /\ copy.recs.items = << >> /\ (ena = 0 => copy.head.ena = 0)
  <2>1. CASE ena = 0
    BY <2>1
  <2>2. CASE ena # 0
    <3> HIDE DEF from, source, ena, copy, m
    <3>1. PICK k : k = source.key
      OBVIOUS
    <3>2. PICK y : y = [ target EXCEPT !.key = k ]
      OBVIOUS
    <3>3. IsPack(target) /\ target.head \in Heads /\ IsList(target.recs)
      BY Opens
    <3>4. IsPack(y) /\ y.recs = target.recs
      BY <3>2, <3>3, Rekeyed
    <3>5. PICK h : h = [ y.head EXCEPT !.ena = 1 ]
      OBVIOUS
    <3>6. h \in Heads
      BY <3>4, <3>5, Opens DEF Heads
    <3>7. copy = [ y EXCEPT !.head = h ]
      BY <2>2, <3>1, <3>2, <3>5, Zenon DEF copy
    <3> QED
      BY <2>2, <3>4, <3>6, <3>7, <3>3, AssignedFields
  <2> QED
    BY <2>1, <2>2
<1>5. /\ m # NoMessage => Encodes(source)
      /\ Encodes(source) => IsMessage(m) /\ m.head = source.head /\ m.recs = from.recs.items
      /\ Encodes(source) => m.zeroes = 0
  BY <1>2, EncodedFacts
<1>6. /\ IsPack(o.pack)
      /\ m # NoMessage /\ m.head.prv = 1 => o.pack.head = m.head
      /\ m = NoMessage => o.pack = copy
      /\ IF o.ok = 1 THEN KeepsFront(from.recs.items, o.pack.recs.items)
                     ELSE o.pack.recs.items = << >>
  <2>1. m # NoMessage => IsMessage(m) /\ m.zeroes = 0 /\ m.head.ena # 1
    BY <1>2, <1>5
  <2> HIDE DEF from, source, copy, m
  <2>2. /\ IsPack(o.pack)
        /\ m # NoMessage /\ m.head.prv = 1 => o.pack.head = m.head
        /\ m = NoMessage => o.pack = copy
        /\ IF o.ok = 1 THEN KeepsFront(m.recs, o.pack.recs.items)
                       ELSE o.pack.recs.items = << >>
        /\ o.ok = 1 => m # NoMessage
    BY <1>3, <1>4, <2>1, OutcomeFacts
  <2> QED
    BY <1>4, <1>5, <2>2
<1>7. /\ IsPack(Walked(source)) /\ Walked(source).head = source.head
      /\ Walked(source).recs.items = from.recs.items
      /\ Encodes(source) => Walked(source).recs.it = List!End(source.recs)
  BY <1>2, WalkedFacts
<1> HIDE DEF from, source, ena, copy, m
<1>8. ASSUME d \notin excused' \cup stripped' PROVE o.pack.head.ena = 0
  <2>1. Copyable(source) /\ s # d
    BY <1>8, Zenon DEF CopyInto, Put, from, source
  <2>2. ena = 0
    BY <1>8, Zenon DEF CopyInto, ena
  <2>3. m # NoMessage => m.head.prv = 1
    BY <1>5, <2>1 DEF Copyable
  <2> QED
    BY <1>2, <1>4, <1>5, <1>6, <2>2, <2>3
<1>9. s # d => from = packs[s]
  BY DEF from
<1>10. s = d => from.recs.items = << >>
  BY DEF from
<1>11. Encodes(from) => Encodes(source)
  BY <1>2 DEF Encodes, Typed, Fits, Frame
<1>12. List!End(Walked(source).recs) = List!End(source.recs)
  BY <1>2, <1>7 DEF List!End
<1>13. PICK w : w = Walked(source)
  OBVIOUS
<1>14. IF d = s \/ ~Copyable(Stripped(packs[s])) THEN o.pack.recs.items = << >>
       ELSE KeepsFront(packs[s].recs.items, o.pack.recs.items)
  <2>1. CASE d = s
    <3>1. KeepsFront(<< >>, o.pack.recs.items) => o.pack.recs.items = << >>
      BY DEF KeepsFront, Whole, WholeUpTo
    <3> QED
      BY <1>6, <1>10, <2>1, <3>1
  <2>2. CASE d # s
    <3>1. source = Stripped(packs[s]) /\ from = packs[s]
      BY <2>2 DEF source, from
    <3>2. o.ok = 1 <=> Copyable(source)
      BY <1>2, <1>3, CopyIsTaken DEF m
    <3> QED
      BY <1>6, <2>2, <3>1, <3>2
  <2> QED
    BY <2>1, <2>2
<1> QED
  BY <1>2, <1>3, <1>6, <1>7, <1>8, <1>9, <1>11, <1>12, <1>13, <1>14

(* A copy keeps both halves of the invariant.                               *)
LEMMA CopyKeeps ==
  ASSUME PacksInv, AskedInv, NEW d \in Packets, NEW s \in Packets,
         NEW target, IsPack(target), target.head.ena = 0, target.recs.items = << >>,
         CopyInto(d, target, s)
  PROVE  PacksInv' /\ AskedInv'
<1>1. PICK w, x :
        /\ packs' = [ packs EXCEPT ![s] = w, ![d] = x ]
        /\ IsPack(w) /\ IsPack(x)
        /\ s # d => (packs[s].head.ena = 0 => w.head.ena = 0)
        /\ d \notin excused' \cup stripped' => x.head.ena = 0
  BY CopyFacts
<1>2. packs = [ q \in Packets |-> packs[q] ] /\ \A q \in Packets : IsPack(packs[q])
  BY DEF PacksInv
<1>3. /\ packs' = [ q \in Packets |-> packs'[q] ] /\ packs'[d] = x
      /\ s # d => packs'[s] = w
      /\ \A q \in Packets \ {d, s} : packs'[q] = packs[q]
  BY <1>1, <1>2
<1>4. /\ asked = [ q \in Packets |-> asked[q] ]
      /\ \A q \in Packets \ (excused \cup stripped) : packs[q].head.ena = asked[q]
  BY DEF AskedInv, EncryptionAsAsked
<1>5. asked' = [ asked EXCEPT ![d] = asked[s] ]
  BY DEF CopyInto
<1>6. /\ asked' = [ q \in Packets |-> asked'[q] ] /\ asked'[d] = asked[s]
      /\ \A q \in Packets \ {d} : asked'[q] = asked[q]
  BY <1>4, <1>5
<1>7. excused \ {d} \subseteq excused' /\ (d \notin excused' => s # d /\ s \notin excused)
  BY Zenon DEF CopyInto, Put
<1>8. wire' # NoMessage =>
         /\ IsMessage(wire'.message)
         /\ ~wire'.excused /\ ~wire'.stripped => wire'.message.head.ena = wire'.asked
  <2>1. wire' = wire
    BY DEF CopyInto
  <2> QED
    BY <2>1, Zenon DEF PacksInv, AskedInv
<1>9. CASE s # d /\ (packs[s].head.ena # 0 \/ s \in stripped)
  <2>1. stripped' = stripped \cup {s, d}
    BY <1>9 DEF CopyInto
  <2>2. \A q \in Packets \ {d} :
          /\ IsPack(packs'[q]) /\ asked'[q] = asked[q]
          /\ q \notin excused' \cup stripped' =>
               q \notin excused \cup stripped /\ packs'[q].head.ena = packs[q].head.ena
    <3>1. \A q \in Packets \ {d} : IsPack(packs'[q])
      BY <1>1, <1>2, <1>3
    <3>2. \A q \in Packets \ {d} : q \notin excused' \cup stripped' =>
            q # s /\ q \notin excused \cup stripped
      BY <1>7, <2>1
    <3> QED
      BY <1>3, <1>6, <3>1, <3>2
  <2>3. d \in stripped'
    BY <2>1
  <2> QED
    BY <1>1, <1>3, <1>6, <1>8, <2>2, <2>3, KeepsPacks
<1>10. CASE s # d /\ packs[s].head.ena = 0 /\ s \notin stripped
  <2>1. stripped' = stripped \ {d}
    BY <1>10 DEF CopyInto
  <2>2. d \notin excused' => asked[s] = 0
    BY <1>4, <1>7, <1>10
  <2>3. d \notin excused' \cup stripped' => packs'[d].head.ena = asked'[d]
    BY <1>1, <1>3, <1>6, <1>10, <2>2
  <2>4. \A q \in Packets \ {d} :
          /\ IsPack(packs'[q]) /\ asked'[q] = asked[q]
          /\ q \notin excused' \cup stripped' =>
               q \notin excused \cup stripped /\ packs'[q].head.ena = packs[q].head.ena
    <3> SUFFICES ASSUME NEW q \in Packets \ {d}
                 PROVE  /\ IsPack(packs'[q]) /\ asked'[q] = asked[q]
                        /\ q \notin excused' \cup stripped' =>
                             /\ q \notin excused \cup stripped
                             /\ packs'[q].head.ena = packs[q].head.ena
      OBVIOUS
    <3>1. q \notin excused' \cup stripped' => q \notin excused \cup stripped
      BY <1>7, <2>1
    <3>2. CASE q = s
      <4>1. packs'[q] = w /\ w.head.ena = 0 /\ packs[q].head.ena = 0
        BY <1>1, <1>3, <1>10, <3>2
      <4> QED
        BY <1>1, <1>6, <3>1, <4>1
    <3>3. CASE q # s
      <4>1. packs'[q] = packs[q]
        BY <1>3, <3>3
      <4> QED
        BY <1>2, <1>6, <3>1, <4>1
    <3> QED
      BY <3>2, <3>3
  <2> QED
    BY <1>1, <1>3, <1>6, <1>8, <2>3, <2>4, KeepsPacks
<1>11. CASE s = d
  <2>1. stripped \ {d} \subseteq stripped' /\ d \in excused'
    BY <1>7, <1>11, Zenon DEF CopyInto
  <2>2. \A q \in Packets \ {d} :
          /\ IsPack(packs'[q]) /\ asked'[q] = asked[q]
          /\ q \notin excused' \cup stripped' =>
               q \notin excused \cup stripped /\ packs'[q].head.ena = packs[q].head.ena
    BY <1>2, <1>3, <1>6, <1>7, <1>11, <2>1
  <2> QED
    BY <1>1, <1>3, <1>6, <1>8, <2>1, <2>2, KeepsPacks
<1> QED
  BY <1>9, <1>10, <1>11

(* Init of the target is part of an assignment; a constructor makes one.    *)
LEMMA TargetFacts ==
  ASSUME PacksInv, NEW d \in Packets, NEW s \in Packets, Assign(d, s) \/ Construct(d, s)
  PROVE  \E t : /\ IsPack(t) /\ t.head.ena = 0 /\ t.recs.items = << >>
                /\ CopyInto(d, t, s)
<1>1. CASE Assign(d, s)
  <2>1. PICK t : t = Cleared(packs[d])
    OBVIOUS
  <2>2. CopyInto(d, t, s)
    BY <1>1, <2>1 DEF Assign
  <2>3. IsPack(packs[d])
    BY DEF PacksInv
  <2> QED
    BY <2>1, <2>2, <2>3, ClearedIsPack
<1>2. CASE Construct(d, s)
  <2>1. CopyInto(d, Fresh, s)
    BY <1>2 DEF Construct
  <2> QED
    BY <2>1, FreshIsPack
<1> QED
  BY <1>1, <1>2

(* Every step of every program.                                             *)
LEMMA StepKeeps ==
  ASSUME PacksInv, AskedInv, [Next]_vars
  PROVE  PacksInv' /\ AskedInv'
<1>1. CASE UNCHANGED vars
  BY <1>1 DEF vars, PacksInv, AskedInv, EncryptionAsAsked
<1>2. ASSUME NEW p \in Packets, Use(p) PROVE PacksInv' /\ AskedInv'
  <2>1. CASE \E f \in Fills : Fill(p, f) \/ SetKey(p, f.key)
    BY <2>1, FillKeeps, SetKeyKeeps
  <2> QED
    BY <1>2, <2>1, InitKeeps, AddKeeps, EncodeKeeps, DecodeKeeps, NoiseKeeps, StartKeeps,
       GoOnKeeps DEF Use
<1>3. ASSUME NEW p \in Packets, NEW s \in Packets, Assign(p, s) \/ Construct(p, s)
      PROVE  PacksInv' /\ AskedInv'
  BY <1>3, TargetFacts, CopyKeeps
<1> QED
  BY <1>1, <1>2, <1>3 DEF Next

(* In every state the packets are well formed, and each that is neither     *)
(* excused nor stripped, like each such message, is as encrypted as asked.  *)
THEOREM PacketsHold == Spec => [](PacksInv /\ AskedInv)
<1>1. Init => PacksInv /\ AskedInv
  <2>1. ASSUME Init PROVE PacksInv
    BY <2>1, FreshIsPack DEF Init, PacksInv
  <2>2. ASSUME Init PROVE AskedInv
    BY <2>2, FreshIsPack DEF Init, AskedInv, EncryptionAsAsked
  <2> QED
    BY <2>1, <2>2
<1> QED
  BY <1>1, StepKeeps, PTL DEF Spec

(* A packet that was neither copied nor a copy nor sent by one is encrypted *)
(* exactly if it was asked for: no order of the other operations loses it.  *)
THEOREM EncryptionHolds == Spec => []EncryptionAsAsked
<1>1. AskedInv => EncryptionAsAsked
  BY DEF AskedInv
<1> QED
  BY <1>1, PacketsHold, PTL

(* One copy, by either operator.                                            *)
LEMMA CopyHasFront ==
  ASSUME PacksInv, NEW d \in Packets, NEW s \in Packets, Assign(d, s) \/ Construct(d, s)
  PROVE  /\ copied' = <<d, s>>
         /\ IF d = s \/ ~Copyable(Stripped(packs[s])) THEN packs'[d].recs.items = << >>
            ELSE KeepsFront(packs[s].recs.items, packs'[d].recs.items)
         /\ d # s => packs'[s].recs.items = packs[s].recs.items
<1>1. copied' = <<d, s>>
  BY Zenon DEF Assign, Construct, CopyInto
<1>2. PICK t : /\ IsPack(t) /\ t.head.ena = 0 /\ t.recs.items = << >>
               /\ CopyInto(d, t, s)
  BY TargetFacts
<1>3. PICK w, x :
           /\ packs' = [ packs EXCEPT ![s] = w, ![d] = x ]
           /\ IsPack(w) /\ IsPack(x)
           /\ IF d = s \/ ~Copyable(Stripped(packs[s])) THEN x.recs.items = << >>
              ELSE KeepsFront(packs[s].recs.items, x.recs.items)
           /\ s # d => /\ w.recs.items = packs[s].recs.items
                       /\ packs[s].head.ena = 0 => w.head.ena = 0
                       /\ Encodes(packs[s]) => w.recs.it = List!End(w.recs)
           /\ d \notin excused' \cup stripped' => x.head.ena = 0
  BY <1>2, CopyFacts, Zenon
<1>4. packs = [ q \in Packets |-> packs[q] ]
  BY DEF PacksInv
<1>5. packs'[d] = x /\ (s # d => packs'[s] = w)
  BY <1>3, <1>4
<1> QED
  BY <1>1, <1>3, <1>5

(* Whatever the packets hold, a copy of what can be copied has every record *)
(* of its source in front of the first that is not read back, and all if    *)
(* there is no such record; what cannot be copied leaves the copy without   *)
(* records; and the source has its records still.                          *)
THEOREM CopiesKeepFront == Spec => CopyKeepsFront
<1> DEFINE KeptIn(d, s) ==
             /\ IF d = s \/ ~Copyable(Stripped(packs[s])) THEN packs'[d].recs.items = << >>
                ELSE KeepsFront(packs[s].recs.items, packs'[d].recs.items)
             /\ d # s => packs'[s].recs.items = packs[s].recs.items
<1>1. ASSUME PacksInv, [Next]_vars
      PROVE  [copied' # << >> => KeptIn(copied'[1], copied'[2])]_vars
  <2>1. CASE UNCHANGED vars
    BY <2>1
  <2>2. CASE \E p \in Packets : Use(p) /\ copied' = << >>
    BY <2>2
  <2>3. ASSUME NEW d \in Packets, NEW s \in Packets, Assign(d, s) \/ Construct(d, s)
        PROVE  copied' = <<d, s>> /\ KeptIn(d, s)
    BY <1>1, <2>3, CopyHasFront
  <2> HIDE DEF KeptIn
  <2> QED
    BY <1>1, <2>1, <2>2, <2>3 DEF Next
<1> QED
  BY <1>1, PacketsHold, PTL DEF Spec, CopyKeepsFront
-----------------------------------------------------------------------------
(* The records without those that padding looks like.                       *)
IsKept(f, s, n) ==
  f = [ i \in 0 .. n |-> IF i = 0 THEN << >> ELSE Kept(f[i - 1], s[i]) ]

LEMMA KeptExists ==
  ASSUME NEW s, NEW m \in Nat
  PROVE  \E f : IsKept(f, s, m)
<1> DEFINE H == { n \in Nat : \E f : IsKept(f, s, n) }
<1>1. 0 \in H
  <2>1. IsKept([ i \in 0 .. 0 |-> << >> ], s, 0)
    BY DEF IsKept
  <2> QED
    BY <2>1
<1>2. ASSUME NEW n \in Nat, n \in H
      PROVE  n + 1 \in H
  <2>1. PICK f : IsKept(f, s, n)
    BY <1>2
  <2>2. PICK g : g = [ i \in 0 .. n + 1 |-> IF i = n + 1 THEN Kept(f[n], s[n + 1]) ELSE f[i] ]
    OBVIOUS
  <2>3. \A i \in 0 .. n : g[i] = f[i]
    BY <2>2
  <2>4. \A i \in 0 .. n : f[i] = IF i = 0 THEN << >> ELSE Kept(f[i - 1], s[i])
    BY <2>1 DEF IsKept
  <2>5. ASSUME NEW i \in 0 .. n + 1
        PROVE  g[i] = IF i = 0 THEN << >> ELSE Kept(g[i - 1], s[i])
    <3>1. CASE i = n + 1
      BY <2>2, <2>3, <3>1
    <3>2. CASE i = 0
      BY <2>3, <2>4, <3>2
    <3>3. CASE i \in 1 .. n
      BY <2>3, <2>4, <3>3
    <3> QED
      BY <3>1, <3>2, <3>3
  <2>6. g = [ i \in 0 .. n + 1 |-> g[i] ]
    BY <2>2
  <2> HIDE <2>2
  <2>7. IsKept(g, s, n + 1)
    BY <2>5, <2>6 DEF IsKept
  <2> QED
    BY <2>7
<1>3. Nat \subseteq H
  BY <1>1, <1>2, Induction
<1> QED
  BY <1>3

KeptBy(f, s, m) ==
  /\ WithoutPhantoms(s) = f[m]
  /\ f[0] = << >>
  /\ \A i \in 1 .. m : f[i] = Kept(f[i - 1], s[i])

LEMMA KeptDefined ==
  ASSUME NEW s, NEW m \in Nat, m = Len(s)
  PROVE  \E f : KeptBy(f, s, m)
<1>1. PICK f : f = CHOOSE h : IsKept(h, s, Len(s))
  OBVIOUS
<1>2. WithoutPhantoms(s) = f[m]
  BY <1>1 DEF WithoutPhantoms, IsKept
<1>3. IsKept(f, s, m)
  BY <1>1, KeptExists
<1>4. \A i \in 0 .. m : f[i] = IF i = 0 THEN << >> ELSE Kept(f[i - 1], s[i])
  BY <1>3 DEF IsKept
<1>5. f[0] = << >> /\ \A i \in 1 .. m : f[i] = Kept(f[i - 1], s[i])
  BY <1>4
<1> QED
  BY <1>2, <1>5, Zenon DEF KeptBy

LEMMA NoneKept == WithoutPhantoms(<< >>) = << >>
<1>1. PICK m \in Nat : m = 0 /\ m = Len(<< >>)
  OBVIOUS
<1>2. PICK f : WithoutPhantoms(<< >>) = f[m] /\ f[0] = << >>
  BY <1>1, KeptDefined, Zenon DEF KeptBy
<1> QED
  BY <1>1, <1>2

(* One record more is kept, or is padding.                                  *)
LEMMA KeptOfAppend ==
  ASSUME NEW S, NEW s \in Seq(S), NEW e \in S
  PROVE  WithoutPhantoms(Append(s, e)) = Kept(WithoutPhantoms(s), e)
<1>1. PICK n \in Nat : n = Len(s)
  BY LenProperties
<1>2. PICK t : t = Append(s, e)
  OBVIOUS
<1>3. Len(t) = n + 1 /\ t[n + 1] = e /\ \A i \in 1 .. n : t[i] = s[i]
  BY <1>1, <1>2, AppendProperties
<1>4. PICK f : KeptBy(f, s, n)
  BY <1>1, KeptDefined, Zenon
<1>5. PICK m \in Nat : m = n + 1
  OBVIOUS
<1>6. m = Len(t)
  BY <1>3, <1>5
<1>7. PICK g : KeptBy(g, t, m)
  BY <1>6, KeptDefined, Zenon
<1> DEFINE H == { i \in Nat : i <= n => g[i] = f[i] }
<1>8. 0 \in H
  BY <1>4, <1>7 DEF KeptBy
<1>9. ASSUME NEW i \in Nat, i \in H
      PROVE  i + 1 \in H
  <2> SUFFICES ASSUME i + 1 <= n
               PROVE  g[i + 1] = f[i + 1]
    OBVIOUS
  <2>1. i + 1 \in 1 .. n /\ i + 1 \in 1 .. n + 1 /\ i + 1 - 1 = i /\ g[i] = f[i]
    BY <1>9
  <2>2. t[i + 1] = s[i + 1]
    BY <1>3, <2>1
  <2>3. g[i + 1] = Kept(g[i], t[i + 1])
    BY <1>7, <1>5, <2>1 DEF KeptBy
  <2>4. f[i + 1] = Kept(f[i], s[i + 1])
    BY <1>4, <2>1 DEF KeptBy
  <2> QED
    BY <2>1, <2>2, <2>3, <2>4
<1>10. Nat \subseteq H
  BY <1>8, <1>9, Induction
<1>11. g[n] = f[n]
  BY <1>10
<1>12. n + 1 \in 1 .. n + 1 /\ n + 1 - 1 = n
  OBVIOUS
<1>13. g[n + 1] = Kept(g[n], t[n + 1])
  BY <1>7, <1>5, <1>12 DEF KeptBy
<1> QED
  BY <1>2, <1>3, <1>4, <1>7, <1>5, <1>11, <1>13 DEF KeptBy

-----------------------------------------------------------------------------
(* What the fields of a packet or of a message say: its content without     *)
(* what padding looks like.                                                 *)
Says(h, r, g, s) ==
  [ pt   |-> h.pt,
    resp |-> IF h.pt = PT_RESPONCE THEN r ELSE 0,
    sig  |-> IF h.pt = PT_SIGNED_APPDATA THEN g ELSE [ size |-> 0, data |-> 0 ],
    recs |-> WithoutPhantoms(s) ]

(* A packet holds the content v, and its signature is whole. *)
Holds(p, v) ==
  /\ Says(p.head, p.resp, p.sig, p.recs.items) = v
  /\ p.head.pt = PT_SIGNED_APPDATA => IsSignature(p.sig)

(* So does a message; and one without a frame has nothing to carry. *)
Carries(m, v) ==
  /\ Says(m.head, m.resp, m.sig, m.recs) = v
  /\ m.head.pt = PT_SIGNED_APPDATA => IsSignature(m.sig)
  /\ m.fdl = 0 => m.recs = << >> /\ m.head.pt = PT_APPDATA

(* What is meant holds of the packets and of the message on the wire. *)
MeantInv ==
  /\ meant = [ p \in Packets |-> meant[p] ]
  /\ \A p \in Packets \ excused : Holds(packs[p], meant[p])
  /\ wire # NoMessage /\ ~wire.excused => Carries(wire.message, wire.meant)

LEMMA MeantIsContent == MeantInv => ContentAsMeant
<1> SUFFICES ASSUME MeantInv, NEW p \in Packets \ excused
             PROVE  [ Content(packs[p]) EXCEPT !.recs = WithoutPhantoms(@) ] = meant[p]
  BY DEF ContentAsMeant
<1>1. Says(packs[p].head, packs[p].resp, packs[p].sig, packs[p].recs.items) = meant[p]
  BY DEF MeantInv, Holds
<1>2. PICK q : q = packs[p]
  OBVIOUS
<1>3. PICK r : r = IF q.head.pt = PT_RESPONCE THEN q.resp ELSE 0
  OBVIOUS
<1>4. PICK g : g = IF q.head.pt = PT_SIGNED_APPDATA THEN q.sig ELSE [ size |-> 0, data |-> 0 ]
  OBVIOUS
<1>5. Content(q) = [ pt |-> q.head.pt, resp |-> r, sig |-> g, recs |-> q.recs.items ]
  BY <1>3, <1>4, Zenon DEF Content
<1>6. [ Content(q) EXCEPT !.recs = WithoutPhantoms(@) ]
        = [ pt |-> q.head.pt, resp |-> r, sig |-> g, recs |-> WithoutPhantoms(q.recs.items) ]
  BY <1>5
<1>7. Says(q.head, q.resp, q.sig, q.recs.items)
        = [ pt |-> q.head.pt, resp |-> r, sig |-> g, recs |-> WithoutPhantoms(q.recs.items) ]
  BY <1>3, <1>4, Zenon DEF Says
<1> QED
  BY <1>1, <1>2, <1>6, <1>7

(* Only these fields matter. *)
LEMMA SameHolds ==
  ASSUME NEW p, NEW q, NEW v, Holds(p, v), q.head.pt = p.head.pt, q.resp = p.resp,
         q.sig = p.sig, q.recs.items = p.recs.items
  PROVE  Holds(q, v)
BY Zenon DEF Holds, Says

(* A packet as Init leaves it holds what a new one does. *)
LEMMA EmptyHolds ==
  ASSUME NEW p, p.head.pt = PT_APPDATA, p.recs.items = << >>
  PROVE  Holds(p, Content(Fresh))
<1>1. PT_APPDATA # PT_RESPONCE /\ PT_APPDATA # PT_SIGNED_APPDATA
  BY DEF PT_APPDATA, PT_RESPONCE, PT_SIGNED_APPDATA
<1>2. Fresh.head.pt = PT_APPDATA /\ Fresh.recs.items = << >>
  BY FreshIsPack
<1>3. Content(Fresh) = [ pt |-> PT_APPDATA, resp |-> 0, sig |-> [ size |-> 0, data |-> 0 ],
                         recs |-> << >> ]
  BY <1>1, <1>2, Zenon DEF Content
<1>4. Says(p.head, p.resp, p.sig, p.recs.items)
        = [ pt |-> PT_APPDATA, resp |-> 0, sig |-> [ size |-> 0, data |-> 0 ],
            recs |-> << >> ]
  BY <1>1, NoneKept, Zenon DEF Says
<1> QED
  BY <1>1, <1>3, <1>4 DEF Holds

(* What is there before the first record is added. *)
LEMMA FilledHolds ==
  ASSUME NEW p, p.recs.items = << >>, p.head.pt = PT_SIGNED_APPDATA => IsSignature(p.sig)
  PROVE  Holds(p, Content(p))
<1>1. WithoutPhantoms(p.recs.items) = p.recs.items
  BY NoneKept
<1> QED
  BY <1>1, Zenon DEF Holds, Says, Content

(* One record more in a packet, and in what is meant. *)
LEMMA AddedHolds ==
  ASSUME NEW p, NEW v, Holds(p, v), p.recs.items \in Seq(Items), NEW r \in Records,
         NEW q, q.head = p.head, q.resp = p.resp, q.sig = p.sig,
         q.recs.items = Append(p.recs.items, r)
  PROVE  Holds(q, [ v EXCEPT !.recs = Append(@, r) ])
<1>1. r \in Items /\ r # Phantom
  BY RecordsAssumption DEF Items
<1>2. WithoutPhantoms(q.recs.items) = Append(WithoutPhantoms(p.recs.items), r)
  BY <1>1, KeptOfAppend DEF Kept
<1>3. v = Says(p.head, p.resp, p.sig, p.recs.items)
  BY DEF Holds
<1>4. PICK x, y : Says(p.head, p.resp, p.sig, p.recs.items)
                    = [ pt |-> p.head.pt, resp |-> x, sig |-> y,
                        recs |-> WithoutPhantoms(p.recs.items) ]
                  /\ Says(q.head, q.resp, q.sig, q.recs.items)
                    = [ pt |-> p.head.pt, resp |-> x, sig |-> y,
                        recs |-> WithoutPhantoms(q.recs.items) ]
  BY Zenon DEF Says
<1>5. [ v EXCEPT !.recs = Append(@, r) ]
        = [ pt |-> p.head.pt, resp |-> x, sig |-> y,
            recs |-> Append(WithoutPhantoms(p.recs.items), r) ]
  <2>1. PICK w : w = WithoutPhantoms(p.recs.items)
    OBVIOUS
  <2>2. v = [ pt |-> p.head.pt, resp |-> x, sig |-> y, recs |-> w ]
    BY <1>3, <1>4, <2>1
  <2>3. PICK z : z = Append(v.recs, r)
    OBVIOUS
  <2>4. z = Append(w, r)
    BY <2>2, <2>3
  <2>5. [ v EXCEPT !.recs = Append(@, r) ] = [ v EXCEPT !.recs = z ]
    BY <2>3, Zenon
  <2>6. [ v EXCEPT !.recs = z ] = [ pt |-> p.head.pt, resp |-> x, sig |-> y, recs |-> z ]
    BY <2>2
  <2> QED
    BY <2>1, <2>4, <2>5, <2>6, Zenon
<1>6. Says(q.head, q.resp, q.sig, q.recs.items) = [ v EXCEPT !.recs = Append(@, r) ]
  BY <1>2, <1>4, <1>5
<1> QED
  BY <1>6 DEF Holds

(* What the walk finds behind records that are all read back is padding.    *)
LEMMA FoundMeans ==
  ASSUME NEW m, IsMessage(m), Whole(m.recs), NEW f \in Found(m)
  PROVE  WithoutPhantoms(f) = WithoutPhantoms(m.recs)
<1>1. m.recs \in Seq(Items) /\ Phantom \in Items
  BY DEF IsMessage, Items
<1>2. f = m.recs \/ f = Append(m.recs, Phantom)
  BY FoundFacts
<1>3. WithoutPhantoms(Append(m.recs, Phantom)) = WithoutPhantoms(m.recs)
  BY <1>1, KeptOfAppend DEF Kept
<1> QED
  BY <1>2, <1>3

(* What GetData makes of a packet says what the packet does.                *)
LEMMA EncodedCarries ==
  ASSUME NEW p, IsPack(p), Encodes(p), NEW v, Holds(p, v)
  PROVE  Carries(Encoded(p), v)
<1>1. /\ Encoded(p).head = p.head /\ Encoded(p).resp = p.resp /\ Encoded(p).sig = p.sig
      /\ Encoded(p).recs = p.recs.items
  BY DEF Encoded
<1>2. p.head.pt = PT_SIGNED_APPDATA => IsSignature(p.sig)
  BY DEF Holds
<1>3. Encoded(p).fdl = 0 => p.recs.items = << >> /\ p.head.pt = PT_APPDATA
  BY EmptyFrame
<1> QED
  BY <1>1, <1>3, Zenon DEF Carries, Holds

(* What SetData makes of it in a packet without records, with the right key, *)
(* says the same again.                                                     *)
LEMMA DecodedHolds ==
  ASSUME NEW p, IsPack(p), p.recs.items = << >>, NEW m, IsMessage(m), Whole(m.recs),
         NEW v, Carries(m, v), Deciphered(p, m), NEW o \in Outcomes(p, m), o.ok = 1
  PROVE  Holds(o.pack, v)
<1>1. m.head \in Heads /\ IsList(p.recs)
  BY Opens DEF IsMessage
<1>2. PICK q : q = [ p EXCEPT !.head = m.head ]
  OBVIOUS
<1>3. /\ IsPack(q) /\ q.head = m.head /\ q.resp = p.resp /\ q.sig = p.sig
      /\ q.recs = p.recs
  BY <1>1, <1>2, Reheaded
<1>4. (\E f \in Found(m) : o.pack = Opened(q, m, f)) \/ (m.fdl = 0 /\ o.pack = q)
  BY <1>2 DEF Outcomes
<1>5. CASE m.fdl = 0 /\ o.pack = q
  <2>1. m.recs = << >> /\ m.head.pt = PT_APPDATA
    BY <1>5 DEF Carries
  <2>2. PT_APPDATA # PT_RESPONCE /\ PT_APPDATA # PT_SIGNED_APPDATA
    BY DEF PT_APPDATA, PT_RESPONCE, PT_SIGNED_APPDATA
  <2>3. Says(q.head, q.resp, q.sig, q.recs.items) = Says(m.head, m.resp, m.sig, m.recs)
    BY <1>3, <2>1, <2>2, Zenon DEF Says
  <2> QED
    BY <1>3, <1>5, <2>1, <2>2, <2>3 DEF Holds, Carries
<1>6. ASSUME NEW f \in Found(m), o.pack = Opened(q, m, f)
      PROVE  Holds(o.pack, v)
  <2>1. PICK l : l = AddAll(q.recs, f)
    OBVIOUS
  <2>2. IsList(l) /\ l.items = f
    BY <1>1, <1>3, <2>1, FoundFacts, AddAllFacts
  <2>3. PICK r : r = IF m.head.pt = PT_RESPONCE THEN m.resp ELSE q.resp
    OBVIOUS
  <2>4. PICK g : g = IF m.head.pt = PT_SIGNED_APPDATA
                     THEN [ size |-> m.sig.size, data |-> m.sig.size ] ELSE q.sig
    OBVIOUS
  <2>5. Opened(q, m, f) = Taken(q, r, g, l)
    BY <2>1, <2>3, <2>4, Zenon DEF Opened
  <2>6. /\ o.pack.head = m.head /\ o.pack.resp = r /\ o.pack.sig = g
        /\ o.pack.recs.items = f
    <3>1. g.size \in Nat
      BY <1>3, <2>4, Opens DEF IsMessage
    <3> QED
      BY <1>3, <1>6, <2>2, <2>5, <3>1, TakenFields
  <2>7. m.head.pt = PT_SIGNED_APPDATA => g = m.sig /\ IsSignature(m.sig)
    BY <2>4 DEF Carries, IsSignature
  <2>8. WithoutPhantoms(f) = WithoutPhantoms(m.recs)
    BY FoundMeans
  <2>9. Says(m.head, r, g, f) = Says(m.head, m.resp, m.sig, m.recs)
    BY <2>3, <2>7, <2>8, Zenon DEF Says
  <2> QED
    BY <2>6, <2>7, <2>9 DEF Holds, Carries
<1> QED
  BY <1>4, <1>5, <1>6
-----------------------------------------------------------------------------
(* The operations again. Those of one packet that leave the message as it is. *)
LEMMA KeepsMeant ==
  ASSUME PacksInv, MeantInv, NEW p \in Packets, NEW x,
         packs' = [ packs EXCEPT ![p] = x ],
         meant' = meant \/ \E v : meant' = [ meant EXCEPT ![p] = v ],
         excused \ {p} \subseteq excused',
         p \notin excused' => Holds(x, meant'[p]),
         wire' = wire
  PROVE  MeantInv'
<1>1. packs = [ q \in Packets |-> packs[q] ] /\ meant = [ q \in Packets |-> meant[q] ]
  BY DEF PacksInv, MeantInv
<1>2. packs'[p] = x /\ \A q \in Packets \ {p} : packs'[q] = packs[q]
  BY <1>1
<1>3. /\ meant' = [ q \in Packets |-> meant'[q] ]
      /\ \A q \in Packets \ {p} : meant'[q] = meant[q]
  BY <1>1
<1>4. ASSUME NEW q \in Packets \ excused'
      PROVE  Holds(packs'[q], meant'[q])
  <2>1. CASE q = p
    BY <1>2, <2>1
  <2>2. CASE q # p
    BY <1>2, <1>3, <2>2 DEF MeantInv
  <2> QED
    BY <2>1, <2>2
<1> QED
  BY <1>3, <1>4 DEF MeantInv

(* Init means what a new packet means.                                      *)
LEMMA InitMeans ==
  ASSUME PacksInv, MeantInv, NEW p \in Packets, InitPacket(p)
  PROVE  MeantInv'
<1>1. PICK x : x = Cleared(packs[p])
  OBVIOUS
<1>2. Holds(x, Content(Fresh))
  BY <1>1, ClearedIsPack, EmptyHolds DEF PacksInv
<1>3. /\ packs' = [ packs EXCEPT ![p] = x ] /\ wire' = wire
      /\ meant' = [ meant EXCEPT ![p] = Content(Fresh) ] /\ excused' = excused \ {p}
  BY <1>1 DEF InitPacket
<1>4. meant'[p] = Content(Fresh)
  BY <1>3 DEF MeantInv
<1> QED
  BY <1>2, <1>3, <1>4, KeepsMeant

(* A program means what it fills in.                                        *)
LEMMA FillMeans ==
  ASSUME PacksInv, MeantInv, NEW p \in Packets, NEW f \in Fills, Fill(p, f)
  PROVE  MeantInv'
<1>1. PICK x : x = FilledWith(packs[p], f)
  OBVIOUS
<1>2. /\ packs' = [ packs EXCEPT ![p] = x ] /\ wire' = wire
      /\ meant' = [ meant EXCEPT ![p] = Content(packs'[p]) ] /\ excused' = excused \ {p}
      /\ packs[p].recs.items = << >>
  BY <1>1, Zenon DEF Fill
<1>3. packs'[p] = x /\ meant'[p] = Content(x)
  BY <1>2 DEF MeantInv, PacksInv
<1>4. x.head = f.head /\ x.recs = packs[p].recs /\ (f.head.pt = PT_SIGNED_APPDATA => x.sig = f.sig)
  BY <1>1, FilledRecords DEF PacksInv
<1>5. x.head.pt = PT_SIGNED_APPDATA => IsSignature(x.sig)
  BY <1>4, SignaturesAssumption
<1>6. Holds(x, Content(x))
  BY <1>2, <1>4, <1>5, FilledHolds
<1> QED
  BY <1>2, <1>3, <1>6, KeepsMeant

(* A packet with the same content, of which the same is meant.              *)
LEMMA SameMeans ==
  ASSUME PacksInv, MeantInv, NEW p \in Packets, NEW x,
         packs' = [ packs EXCEPT ![p] = x ], meant' = meant, excused \subseteq excused',
         wire' = wire,
         p \notin excused' => /\ x.head = packs[p].head /\ x.resp = packs[p].resp
                              /\ x.sig = packs[p].sig /\ x.recs.items = packs[p].recs.items
  PROVE  MeantInv'
<1>1. p \notin excused' => Holds(packs[p], meant[p])
  BY DEF MeantInv
<1>2. p \notin excused' => Holds(x, meant'[p])
  BY <1>1, SameHolds
<1> QED
  BY <1>2, KeepsMeant

LEMMA SetKeyMeans ==
  ASSUME PacksInv, MeantInv, NEW p \in Packets, NEW k, SetKey(p, k)
  PROVE  MeantInv'
<1>1. IsPack(packs[p])
  BY DEF PacksInv
<1>2. PICK x : x = [ packs[p] EXCEPT !.key = k ]
  OBVIOUS
<1>3. /\ x.head = packs[p].head /\ x.resp = packs[p].resp
      /\ x.sig = packs[p].sig /\ x.recs = packs[p].recs
  BY <1>1, <1>2, Rekeyed
<1>4. packs' = [ packs EXCEPT ![p] = x ]
  BY <1>2, Zenon DEF SetKey
<1>5. meant' = meant /\ excused' = excused /\ wire' = wire
  BY DEF SetKey, history
<1> QED
  BY <1>3, <1>4, <1>5, SameMeans

(* Bytes of no packet excuse the packet that they were read into.           *)
LEMMA NoiseMeans ==
  ASSUME PacksInv, MeantInv, NEW p \in Packets, DecodeNoise(p)
  PROVE  MeantInv'
<1>1. PICK h \in NoiseHeads : packs' = [ packs EXCEPT ![p].head = h ]
  BY DEF DecodeNoise
<1>2. PICK x : x = [ packs[p] EXCEPT !.head = h ]
  OBVIOUS
<1>3. packs' = [ packs EXCEPT ![p] = x ]
  BY <1>1, <1>2, Zenon
<1>4. meant' = meant /\ excused' = excused \cup {p} /\ wire' = wire
  BY DEF DecodeNoise
<1> QED
  BY <1>3, <1>4, SameMeans

(* Only the cursor moves, or the packet is excused.                         *)
LEMMA ListMeans ==
  ASSUME PacksInv, MeantInv, NEW p \in Packets, NEW l, IsList(l),
         packs' = [ packs EXCEPT ![p].recs = l ],
         p \notin excused' => l.items = packs[p].recs.items,
         meant' = meant, excused \subseteq excused', wire' = wire
  PROVE  MeantInv'
<1>1. IsPack(packs[p]) /\ packs[p].head \in Heads
  BY Opens DEF PacksInv
<1>2. PICK x : x = [ packs[p] EXCEPT !.recs = l ]
  OBVIOUS
<1>3. /\ x.head = packs[p].head /\ x.resp = packs[p].resp
      /\ x.sig = packs[p].sig /\ x.recs = l
  BY <1>1, <1>2, AssignedFields
<1>4. packs' = [ packs EXCEPT ![p] = x ]
  BY <1>2, Zenon
<1> QED
  BY <1>3, <1>4, SameMeans

LEMMA LoopMeans ==
  ASSUME PacksInv, MeantInv, NEW p \in Packets, StartLoop(p) \/ LoopNext(p) \/ LoopErase(p)
  PROVE  MeantInv'
<1>1. IsList(packs[p].recs)
  BY Opens DEF PacksInv
<1>2. CASE StartLoop(p)
  <2>1. PICK l : l = List!First(packs[p].recs)
    OBVIOUS
  <2>2. IsList(l) /\ l.items = packs[p].recs.items
    BY <1>1, <2>1, ListFacts
  <2>3. packs' = [ packs EXCEPT ![p].recs = l ]
    BY <1>2, <2>1, Zenon DEF StartLoop
  <2> QED
    BY <1>2, <2>2, <2>3, ListMeans DEF StartLoop, history
<1>3. CASE LoopNext(p)
  <2>1. PICK l \in List!Next(packs[p].recs) : packs' = [ packs EXCEPT ![p].recs = l ]
    BY <1>3, Zenon DEF LoopNext, GoOn
  <2>2. IsList(l)
    BY <1>1, <2>1, MovedFacts
  <2>3. PICK k : k = packs[p].recs
    OBVIOUS
  <2>4. \E i : l = [ k EXCEPT !.it = i ]
    BY <2>3, Zenon DEF List!Next
  <2>5. l.items = packs[p].recs.items
    BY <1>1, <2>3, <2>4 DEF IsList
  <2>6. meant' = meant /\ excused' = excused /\ wire' = wire
    BY <1>3 DEF LoopNext, GoOn
  <2> QED
    BY <2>1, <2>2, <2>5, <2>6, ListMeans
<1>4. CASE LoopErase(p)
  <2>1. PICK l \in List!Erase(packs[p].recs) : packs' = [ packs EXCEPT ![p].recs = l ]
    BY <1>4, Zenon DEF LoopErase, GoOn
  <2>2. IsList(l)
    BY <1>1, <2>1, MovedFacts
  <2>3. meant' = meant /\ excused' = excused \cup {p} /\ wire' = wire
    BY <1>4 DEF LoopErase, GoOn
  <2> QED
    BY <2>1, <2>2, <2>3, ListMeans
<1> QED
  BY <1>2, <1>3, <1>4

(* A record that is added is meant.                                         *)
LEMMA AddMeans ==
  ASSUME PacksInv, MeantInv, NEW p \in Packets, NEW r \in Records, AddRecord(p, r)
  PROVE  MeantInv'
<1>1. IsPack(packs[p]) /\ IsList(packs[p].recs) /\ packs[p].head \in Heads
  BY Opens DEF PacksInv
<1>2. PICK l : l = List!Add(packs[p].recs, r)
  OBVIOUS
<1>3. IsList(l) /\ packs[p].recs.items \in Seq(Items)
  BY <1>1, <1>2, ListFacts
<1>4. l.items = Append(packs[p].recs.items, r)
  BY <1>2 DEF List!Add
<1>5. PICK x : x = [ packs[p] EXCEPT !.recs = l ]
  OBVIOUS
<1>6. /\ x.head = packs[p].head /\ x.resp = packs[p].resp
      /\ x.sig = packs[p].sig /\ x.recs = l
  BY <1>1, <1>3, <1>5, AssignedFields
<1>7. packs' = [ packs EXCEPT ![p] = x ]
  BY <1>2, <1>5, Zenon DEF AddRecord
<1>8. PICK v : v = [ meant[p] EXCEPT !.recs = Append(@, r) ]
  OBVIOUS
<1>9. meant' = [ meant EXCEPT ![p] = v ]
  BY <1>8, Zenon DEF AddRecord
<1>10. meant'[p] = v
  BY <1>9 DEF MeantInv
<1>11. excused' = excused /\ wire' = wire
  BY DEF AddRecord
<1>12. ASSUME p \notin excused' PROVE Holds(x, v)
  <2>1. Holds(packs[p], meant[p])
    BY <1>11, <1>12 DEF MeantInv
  <2>2. Holds(x, [ meant[p] EXCEPT !.recs = Append(@, r) ])
    BY <1>3, <1>4, <1>6, <2>1, AddedHolds
  <2> QED
    BY <1>8, <2>2, Zenon
<1> QED
  BY <1>7, <1>9, <1>10, <1>11, <1>12, KeepsMeant

(* A message carries what is meant of its packet.                           *)
LEMMA EncodeMeans ==
  ASSUME PacksInv, MeantInv, NEW p \in Packets, Encode(p)
  PROVE  MeantInv'
<1>1. IsPack(packs[p]) /\ packs = [ q \in Packets |-> packs[q] ]
  BY DEF PacksInv
<1>2. PICK x : x = Walked(packs[p])
  OBVIOUS
<1>3. /\ x.head = packs[p].head /\ x.resp = packs[p].resp
      /\ x.sig = packs[p].sig /\ x.recs.items = packs[p].recs.items
  BY <1>1, <1>2, WalkedFacts
<1>4. packs' = [ packs EXCEPT ![p] = x ]
  BY <1>2 DEF Encode
<1>5. packs'[p] = x /\ \A q \in Packets \ {p} : packs'[q] = packs[q]
  BY <1>1, <1>4
<1>6. meant' = meant /\ excused' = excused
  BY DEF Encode, history
<1>7. \A q \in Packets \ excused' : Holds(packs'[q], meant'[q])
  BY <1>3, <1>5, <1>6, SameHolds DEF MeantInv
<1>8. ASSUME wire' # NoMessage, ~wire'.excused
      PROVE  Carries(wire'.message, wire'.meant)
  <2>1. Encodes(packs[p])
    BY <1>8 DEF Encode
  <2>2. wire'.message = Encoded(packs[p]) /\ wire'.meant = meant[p]
    BY <2>1 DEF Encode
  <2>3. wire'.excused <=> p \in excused
    BY <2>1, Zenon DEF Encode
  <2>4. Holds(packs[p], meant[p])
    BY <1>8, <2>3 DEF MeantInv
  <2> QED
    BY <1>1, <2>1, <2>2, <2>4, EncodedCarries
<1> QED
  BY <1>6, <1>7, <1>8 DEF MeantInv

(* What was decoded is what the sender meant, or the packet is excused.     *)
LEMMA DecodeMeans ==
  ASSUME PacksInv, MeantInv, NEW p \in Packets, Decode(p)
  PROVE  MeantInv'
<1>1. IsPack(packs[p]) /\ IsMessage(wire.message) /\ wire # NoMessage
  BY DEF PacksInv, Decode
<1>2. PICK o \in Outcomes(packs[p], wire.message) :
        /\ packs' = [ packs EXCEPT ![p] = o.pack ]
        /\ meant' = [ meant EXCEPT ![p] = IF o.ok = 1 THEN wire.meant ELSE @ ]
        /\ excused' = Put(excused, p,
             \/ o.ok = 0 \/ wire.excused
             \/ ~Deciphered(packs[p], wire.message)
             \/ packs[p].recs.items # << >>
             \/ ~Whole(wire.message.recs))
  BY DEF Decode
<1>3. PICK v : v = IF o.ok = 1 THEN wire.meant ELSE meant[p]
  OBVIOUS
<1>4. meant' = [ meant EXCEPT ![p] = v ] /\ meant'[p] = v
  BY <1>2, <1>3 DEF MeantInv
<1>5. /\ excused \ {p} \subseteq excused'
      /\ p \notin excused' => /\ o.ok # 0 /\ ~wire.excused
                              /\ Deciphered(packs[p], wire.message)
                              /\ packs[p].recs.items = << >>
                              /\ Whole(wire.message.recs)
  BY <1>2, Zenon DEF Put
<1>6. o.ok \in {0, 1}
  BY <1>2 DEF Outcomes, Garbled
<1>7. ASSUME p \notin excused' PROVE Holds(o.pack, v)
  <2>1. o.ok = 1 /\ v = wire.meant /\ ~wire.excused
    BY <1>3, <1>5, <1>6, <1>7
  <2>2. Carries(wire.message, wire.meant)
    BY <1>1, <2>1 DEF MeantInv
  <2> QED
    BY <1>1, <1>2, <1>5, <1>7, <2>1, <2>2, DecodedHolds
<1>8. wire' = wire
  BY DEF Decode
<1> QED
  BY <1>2, <1>4, <1>5, <1>7, <1>8, KeepsMeant

(* A copy means what its source does, or is excused; the source still does. *)
LEMMA CopyMeans ==
  ASSUME PacksInv, MeantInv, NEW d \in Packets, NEW s \in Packets,
         NEW target, IsPack(target), target.recs.items = << >>, CopyInto(d, target, s)
  PROVE  MeantInv'
<1> DEFINE from   == IF s = d THEN target ELSE packs[s]
           source == Stripped(from)
           ena    == IF s = d THEN 0 ELSE packs[s].head.ena
           copy   == IF ena # 0 THEN [ target EXCEPT !.key = source.key, !.head.ena = 1 ]
                     ELSE target
<1>1. PICK o \in Outcomes(copy, Encoded(source)) :
        packs' = [ packs EXCEPT ![s] = Walked(source), ![d] = o.pack ]
  BY DEF CopyInto
<1>2. meant' = [ meant EXCEPT ![d] = meant[s] ] /\ wire' = wire
  BY DEF CopyInto
<1>3. /\ excused \ {d} \subseteq excused'
      /\ d \notin excused' => /\ s # d /\ s \notin excused /\ Copyable(source)
                              /\ Whole(source.recs.items)
      /\ s # d => (s \in excused' <=> s \in excused)
  BY Zenon DEF CopyInto, Put
<1>4. IsPack(copy) /\ copy.recs.items = << >>
  <2>1. CASE ena = 0
    BY <2>1
  <2>2. CASE ena # 0
    <3> HIDE DEF from, source, ena, copy
    <3>1. PICK k : k = source.key
      OBVIOUS
    <3>2. PICK y : y = [ target EXCEPT !.key = k ]
      OBVIOUS
    <3>3. IsPack(y) /\ y.recs = target.recs
      BY <3>2, Rekeyed
    <3>4. PICK h : h = [ y.head EXCEPT !.ena = 1 ]
      OBVIOUS
    <3>5. h \in Heads
      BY <3>3, <3>4, Opens DEF Heads
    <3>6. copy = [ y EXCEPT !.head = h ]
      BY <2>2, <3>1, <3>2, <3>4, Zenon DEF copy
    <3>7. IsPack(copy) /\ copy.recs = y.recs
      BY <3>3, <3>5, <3>6, Reheaded
    <3> QED
      BY <3>3, <3>7
  <2> QED
    BY <2>1, <2>2
<1>5. PICK w, x : w = Walked(source) /\ x = o.pack
  OBVIOUS
<1>6. packs = [ q \in Packets |-> packs[q] ] /\ meant = [ q \in Packets |-> meant[q] ]
      /\ \A q \in Packets : IsPack(packs[q])
  BY DEF PacksInv, MeantInv
<1>7. /\ packs'[d] = x /\ (s # d => packs'[s] = w)
      /\ \A q \in Packets \ {d, s} : packs'[q] = packs[q]
  BY <1>1, <1>5, <1>6
<1>8. /\ meant' = [ q \in Packets |-> meant'[q] ] /\ meant'[d] = meant[s]
      /\ \A q \in Packets \ {d} : meant'[q] = meant[q]
  BY <1>2, <1>6
<1>9. ASSUME s # d, s \notin excused
      PROVE  Holds(source, meant[s]) /\ IsPack(source) /\ source.head.ena = 0 /\ Holds(w, meant[s])
  <2>1. from = packs[s] /\ IsPack(from) /\ Holds(from, meant[s])
    BY <1>6, <1>9 DEF MeantInv
  <2> HIDE DEF from
  <2>2. /\ IsPack(source) /\ source.head.ena = 0 /\ source.recs = from.recs
        /\ source.head.pt = from.head.pt /\ source.sig = from.sig /\ source.resp = from.resp
    BY <2>1, StrippedFacts
  <2> HIDE DEF source
  <2>3. Holds(source, meant[s])
    BY <2>1, <2>2, SameHolds
  <2>4. /\ w.head = source.head /\ w.resp = source.resp /\ w.sig = source.sig
        /\ w.recs.items = source.recs.items
    BY <1>5, <2>2, WalkedFacts
  <2> QED
    BY <2>2, <2>3, <2>4, SameHolds
<1> HIDE DEF from, source, ena, copy
<1>10. ASSUME d \notin excused' PROVE Holds(x, meant[s])
  <2>1. s # d /\ s \notin excused /\ Copyable(source) /\ Whole(source.recs.items)
    BY <1>3, <1>10
  <2>2. Holds(source, meant[s]) /\ IsPack(source) /\ source.head.ena = 0
    BY <1>9, <2>1
  <2>3. Deciphered(copy, Encoded(source)) /\ o.ok = 1
    BY <1>1, <2>1, <2>2, CopyIsTaken
  <2>4. Encodes(source)
    BY <2>1 DEF Copyable
  <2>5. /\ Carries(Encoded(source), meant[s]) /\ IsMessage(Encoded(source))
        /\ Whole(Encoded(source).recs)
    BY <2>1, <2>2, <2>4, EncodedCarries, EncodedFacts
  <2> QED
    BY <1>1, <1>4, <1>5, <2>3, <2>5, DecodedHolds
<1>11. ASSUME NEW q \in Packets \ excused'
       PROVE  Holds(packs'[q], meant'[q])
  <2>1. CASE q = d
    BY <1>7, <1>8, <1>10, <2>1
  <2>2. CASE q = s /\ s # d
    BY <1>3, <1>7, <1>8, <1>9, <2>2
  <2>3. CASE q \notin {s, d}
    BY <1>3, <1>7, <1>8, <2>3 DEF MeantInv
  <2> QED
    BY <2>1, <2>2, <2>3
<1> QED
  BY <1>2, <1>3, <1>8, <1>11 DEF MeantInv

LEMMA StepMeans ==
  ASSUME PacksInv, MeantInv, [Next]_vars
  PROVE  MeantInv'
<1>1. CASE UNCHANGED vars
  BY <1>1 DEF vars, MeantInv
<1>2. ASSUME NEW p \in Packets, Use(p) PROVE MeantInv'
  <2>1. CASE \E f \in Fills : Fill(p, f) \/ SetKey(p, f.key)
    BY <2>1, FillMeans, SetKeyMeans
  <2> QED
    BY <1>2, <2>1, InitMeans, AddMeans, EncodeMeans, DecodeMeans, NoiseMeans, LoopMeans DEF Use
<1>3. ASSUME NEW p \in Packets, NEW s \in Packets, Assign(p, s) \/ Construct(p, s)
      PROVE  MeantInv'
  BY <1>3, TargetFacts, CopyMeans
<1> QED
  BY <1>1, <1>2, <1>3 DEF Next

(* Whatever a program does with packets, in any order and as often as it    *)
(* likes: each that is not excused holds what was put into it, sent to it   *)
(* or assigned to it, but for empty records that padding looks like.        *)
THEOREM PacketsAreValues == Spec => []ContentAsMeant
<1>1. Init => MeantInv
  <2> SUFFICES ASSUME Init PROVE MeantInv
    OBVIOUS
  <2>1. /\ packs = [ p \in Packets |-> Fresh ] /\ wire = NoMessage
        /\ meant = [ p \in Packets |-> Content(Fresh) ]
    BY DEF Init
  <2>2. Holds(Fresh, Content(Fresh))
    BY FreshIsPack, EmptyHolds
  <2> QED
    BY <2>1, <2>2 DEF MeantInv
<1>2. MeantInv /\ PacksInv /\ [Next]_vars => MeantInv'
  BY StepMeans
<1> QED
  BY <1>1, <1>2, MeantIsContent, PacketsHold, PTL DEF Spec
-----------------------------------------------------------------------------
(* The loop. What is left of a list behind its cursor is what the loop has  *)
(* not seen yet.                                                            *)
AtHand(l) == l.it \in 1 .. Len(l.items)
Rest(l) == SubSeq(l.items, l.it + 1, Len(l.items))

(* What is left is a list too.                                              *)
LEMMA RestIsSeq ==
  ASSUME NEW l, l.items \in Seq(Items), AtHand(l)
  PROVE  Rest(l) \in Seq(Items)
<1>1. PICK s \in Seq(Items) : s = l.items
  OBVIOUS
<1>2. Len(s) \in Nat /\ \A i \in 1 .. Len(s) : s[i] \in Items
  BY LenProperties, ElementOfSeq
<1>3. PICK m \in Int : m = l.it + 1 /\ 1 <= m
  BY <1>1, <1>2 DEF AtHand
<1>4. \A i \in m .. Len(s) : s[i] \in Items
  BY <1>2, <1>3
<1>5. SubSeq(s, m, Len(s)) \in Seq(Items)
  BY <1>2, <1>4, SubSeqProperties
<1> QED
  BY <1>1, <1>3, <1>5 DEF Rest

Hows == { "alone", "encoded", "changed" }

LoopShape ==
  \E on \in SUBSET Packets : \E all, seen \in Seq(Items) : \E how \in Hows : \E over \in BOOLEAN :
    loop = [ on |-> on, all |-> all, seen |-> seen, how |-> how, over |-> over ]

LoopInv ==
  /\ LoopShape
  /\ \A p, q \in loop.on : p = q
  /\ loop.how = "alone" /\ loop.over => loop.seen = loop.all
  /\ loop.how = "alone" /\ ~loop.over =>
       \A p \in loop.on : /\ AtHand(packs[p].recs)
                          /\ loop.all = loop.seen \o Rest(packs[p].recs)
  /\ loop.how = "encoded" => IsPrefix(loop.seen, loop.all)
  /\ loop.how = "encoded" /\ ~loop.over =>
       \A p \in loop.on : packs[p].recs.it = List!End(packs[p].recs)

(* What a sequence was before another came behind it is a prefix.           *)
LEMMA PrefixOf ==
  ASSUME NEW s \in Seq(Items), NEW t \in Seq(Items)
  PROVE  IsPrefix(s, s \o t)
<1>1. /\ s \o t \in Seq(Items) /\ Len(s \o t) = Len(s) + Len(t)
      /\ Len(s) \in Nat /\ Len(t) \in Nat
      /\ \A i \in 1 .. Len(s) : (s \o t)[i] = s[i]
  BY ConcatProperties, LenProperties
<1>2. /\ SubSeq(s, 1, Len(s)) \in Seq(Items)
      /\ SubSeq(s \o t, 1, Len(s)) \in Seq(Items)
      /\ Len(SubSeq(s, 1, Len(s))) = Len(s)
      /\ Len(SubSeq(s \o t, 1, Len(s))) = Len(s)
      /\ \A i \in 1 .. Len(s) : SubSeq(s, 1, Len(s))[i] = s[i]
      /\ \A i \in 1 .. Len(s) : SubSeq(s \o t, 1, Len(s))[i] = (s \o t)[i]
  BY <1>1, SubSeqProperties
<1>3. SubSeq(s, 1, Len(s)) = SubSeq(s \o t, 1, Len(s))
  BY <1>1, <1>2, SeqEqual
<1> QED
  BY <1>1, <1>3 DEF IsPrefix

(* NoLoop claims nothing.                                                   *)
LEMMA NoLoopKeeps ==
  ASSUME loop' = NoLoop
  PROVE  LoopInv'
<1>1. << >> \in Seq(Items) /\ {} \in SUBSET Packets /\ "alone" \in Hows /\ FALSE \in BOOLEAN
  BY EmptySeq DEF Hows
<1>2. loop' = [ on |-> {}, all |-> << >>, seen |-> << >>, how |-> "alone", over |-> FALSE ]
  BY DEF NoLoop
<1>3. loop'.on = {} /\ loop'.how = "alone" /\ ~loop'.over
  BY <1>2
<1>4. "alone" # "encoded"
  OBVIOUS
<1> QED
  BY <1>1, <1>2, <1>3, <1>4, Zenon DEF LoopInv, LoopShape

(* A step that uses the packet of the loop in a way that is taken note of.  *)
LEMMA DisturbKeeps ==
  ASSUME LoopInv, PacksInv, NEW p \in Packets, NEW how \in Hows, Disturb(p, how),
         \A q \in loop.on \ {p} : packs'[q].recs = packs[q].recs,
         p \in loop.on =>
           \/ how = "changed"
           \/ how = loop.how /\ packs'[p].recs = packs[p].recs
           \/ how = "encoded" /\ packs'[p].recs.it = List!End(packs'[p].recs)
  PROVE  LoopInv'
<1>1. PICK on \in SUBSET Packets : \E all, seen \in Seq(Items) : \E h \in Hows : \E over \in BOOLEAN :
        loop = [ on |-> on, all |-> all, seen |-> seen, how |-> h, over |-> over ]
  BY DEF LoopInv, LoopShape
<1>2. PICK all \in Seq(Items), seen \in Seq(Items), h \in Hows, over \in BOOLEAN :
        loop = [ on |-> on, all |-> all, seen |-> seen, how |-> h, over |-> over ]
  BY <1>1
<1>3. CASE loop.over
  BY <1>3, NoLoopKeeps DEF Disturb
<1>4. CASE ~loop.over /\ p \in loop.on /\ loop.how # "changed"
  <2>1. loop' = [ on |-> on, all |-> all, seen |-> seen, how |-> how, over |-> over ]
    BY <1>2, <1>4 DEF Disturb
  <2>2. loop'.on = on /\ loop'.all = all /\ loop'.seen = seen /\ loop'.how = how
        /\ loop.on = on /\ loop.all = all /\ loop.seen = seen /\ loop.how = h
        /\ (loop'.over <=> over) /\ (loop.over <=> over)
    BY <1>2, <2>1, Zenon
  <2>3. LoopShape'
    BY <2>1, Zenon DEF LoopShape
  <2>4. on = {p}
    BY <1>4, <2>2 DEF LoopInv
  <2>5. h = "alone" \/ h = "encoded"
    BY <1>4, <2>2 DEF Hows
  <2>6. IsPrefix(seen, all)
    <3>1. CASE h = "encoded"
      BY <2>2, <3>1 DEF LoopInv
    <3>2. CASE h = "alone"
      <4>1. all = seen \o Rest(packs[p].recs) /\ AtHand(packs[p].recs)
        BY <1>4, <2>2, <3>2 DEF LoopInv
      <4>2. packs[p].recs.items \in Seq(Items)
        BY Opens, ListFacts DEF PacksInv
      <4>3. Rest(packs[p].recs) \in Seq(Items)
        BY <4>1, <4>2, RestIsSeq
      <4> QED
        BY <4>1, <4>3, PrefixOf
    <3> QED
      BY <2>5, <3>1, <3>2
  <2>7. CASE how = "changed"
    BY <2>2, <2>4, <2>7, <2>3 DEF LoopInv
  <2>8. CASE how = h /\ packs'[p].recs = packs[p].recs
    BY <1>4, <2>2, <2>4, <2>8, <2>3 DEF LoopInv
  <2>9. CASE how = "encoded" /\ packs'[p].recs.it = List!End(packs'[p].recs)
    BY <1>4, <2>2, <2>4, <2>6, <2>9, <2>3 DEF LoopInv
  <2> QED
    BY <1>4, <2>2, <2>7, <2>8, <2>9
<1>5. CASE ~loop.over /\ ~(p \in loop.on /\ loop.how # "changed")
  <2>1. loop' = loop
    BY <1>5 DEF Disturb
  <2>2. LoopShape'
    BY <2>1 DEF LoopInv, LoopShape
  <2>3. CASE p \notin loop.on
    BY <2>1, <2>3, <2>2 DEF LoopInv
  <2>4. CASE loop.how = "changed"
    BY <2>1, <2>4, <2>2 DEF LoopInv
  <2> QED
    BY <1>5, <2>3, <2>4
<1> QED
  BY <1>3, <1>4, <1>5
-----------------------------------------------------------------------------
(* The steps of a loop that is alone. Next goes on to the record behind,    *)
(* and Erase finds it where the erased one was.                             *)
LEMMA TailSplit ==
  ASSUME NEW s \in Seq(Items), NEW i \in 1 .. Len(s)
  PROVE  SubSeq(s, i, Len(s)) = << s[i] >> \o SubSeq(s, i + 1, Len(s))
<1>1. Len(s) \in Nat /\ s[i] \in Items
  BY LenProperties
<1> DEFINE a == SubSeq(s, i, Len(s))
           b == SubSeq(s, i + 1, Len(s))
           c == << s[i] >>
<1>2. a \in Seq(Items) /\ Len(a) = Len(s) - i + 1 /\ \A j \in 1 .. Len(s) - i + 1 : a[j] = s[i + j - 1]
  BY <1>1, SubSeqProperties
<1>3. b \in Seq(Items) /\ Len(b) = Len(s) - i /\ \A j \in 1 .. Len(s) - i : b[j] = s[i + j]
  BY <1>1, SubSeqProperties
<1>4. c \in Seq(Items) /\ Len(c) = 1 /\ c[1] = s[i]
  BY <1>1
<1> HIDE DEF a, b, c
<1>5. /\ c \o b \in Seq(Items) /\ Len(c \o b) = Len(c) + Len(b)
      /\ \A j \in 1 .. Len(c) + Len(b) : (c \o b)[j] = IF j <= Len(c) THEN c[j] ELSE b[j - Len(c)]
  BY <1>3, <1>4, ConcatProperties
<1>6. Len(c) + Len(b) = Len(s) - i + 1
  BY <1>1, <1>3, <1>4
<1>7. /\ c \o b \in Seq(Items) /\ Len(c \o b) = Len(s) - i + 1
      /\ \A j \in 1 .. Len(s) - i + 1 : (c \o b)[j] = IF j <= 1 THEN c[j] ELSE b[j - 1]
  BY <1>4, <1>5, <1>6
<1>8. \A j \in 1 .. Len(s) - i + 1 : (c \o b)[j] = a[j]
  <2>1. TAKE j \in 1 .. Len(s) - i + 1
  <2>2. CASE j = 1
    BY <1>1, <1>2, <1>4, <1>7, <2>2
  <2>3. CASE j # 1
    <3>1. j - 1 \in 1 .. Len(s) - i
      BY <1>1, <2>3
    <3>2. b[j - 1] = s[i + (j - 1)]
      BY <1>3, <3>1
    <3>3. ~(j <= 1)
      BY <1>1, <2>3
    <3>4. (c \o b)[j] = b[j - 1]
      BY <1>7, <3>3
    <3>5. a[j] = s[i + j - 1] /\ i + j - 1 = i + (j - 1)
      BY <1>1, <1>2
    <3> QED
      BY <3>2, <3>4, <3>5
  <2> QED
    BY <2>2, <2>3
<1> QED
  BY <1>1, <1>2, <1>7, <1>8, SeqEqual DEF a, b, c

(* What came behind it is what starts behind its last element.              *)
LEMMA SuffixOf ==
  ASSUME NEW s \in Seq(Items), NEW t \in Seq(Items)
  PROVE  SubSeq(s \o t, Len(s) + 1, Len(s \o t)) = t
<1>1. /\ s \o t \in Seq(Items) /\ Len(s \o t) = Len(s) + Len(t)
      /\ Len(s) \in Nat /\ Len(t) \in Nat
      /\ \A i \in 1 .. Len(s) + Len(t) : (s \o t)[i] = IF i <= Len(s) THEN s[i] ELSE t[i - Len(s)]
  BY ConcatProperties, LenProperties
<1> DEFINE a == SubSeq(s \o t, Len(s) + 1, Len(s \o t))
<1>2. a \in Seq(Items) /\ Len(a) = Len(t) /\ \A j \in 1 .. Len(t) : a[j] = (s \o t)[Len(s) + j]
  BY <1>1, SubSeqProperties
<1> HIDE DEF a
<1>3. \A j \in 1 .. Len(t) : a[j] = t[j]
  BY <1>1, <1>2
<1> QED
  BY <1>1, <1>2, <1>3, SeqEqual DEF a

(* A list whose cursor is at i of s, or behind it: the tail from i on is    *)
(* the current element, if there is one, and what is left behind it.        *)
LEMMA CurrentSplit ==
  ASSUME NEW s \in Seq(Items), NEW i \in 1 .. Len(s) + 1,
         NEW n, n = [ items |-> s, it |-> i ]
  PROVE  /\ List!Current(n) \in Seq(Items)
         /\ List!Current(n) = << >> => SubSeq(s, i, Len(s)) = << >>
         /\ List!Current(n) # << >> =>
              AtHand(n) /\ SubSeq(s, i, Len(s)) = List!Current(n) \o Rest(n)
<1>1. Len(s) \in Nat /\ DOMAIN s = 1 .. Len(s) /\ n.items = s /\ n.it = i
  BY LenProperties
<1>2. CASE i = Len(s) + 1
  <2>1. List!Current(n) = << >>
    BY <1>1, <1>2 DEF List!Current
  <2>2. SubSeq(s, i, Len(s)) \in Seq(Items) /\ Len(SubSeq(s, i, Len(s))) = 0
    BY <1>1, <1>2, SubSeqProperties
  <2>3. SubSeq(s, i, Len(s)) = << >>
    BY <2>2, EmptySeq
  <2> QED
    BY <2>1, <2>3, EmptySeq
<1>3. CASE i \in 1 .. Len(s)
  <2>1. List!Current(n) = << s[i] >> /\ s[i] \in Items
    BY <1>1, <1>3 DEF List!Current
  <2>2. AtHand(n) /\ Rest(n) = SubSeq(s, i + 1, Len(s))
    BY <1>1, <1>3 DEF AtHand, Rest
  <2>3. << s[i] >> # << >> /\ << s[i] >> \in Seq(Items)
    BY <2>1
  <2> QED
    BY <1>3, <2>1, <2>2, <2>3, TailSplit
<1>4. i = Len(s) + 1 \/ i \in 1 .. Len(s)
  BY <1>1
<1> QED
  BY <1>2, <1>3, <1>4

(* Next and Erase on a cursor at a record: what was left behind the cursor  *)
(* is now the current element and what is left behind that.                 *)
LEMMA MovesOn ==
  ASSUME NEW l, IsList(l), AtHand(l), NEW n \in List!Next(l) \cup List!Erase(l)
  PROVE  /\ List!Current(n) \in Seq(Items)
         /\ List!Current(n) = << >> => Rest(l) = << >>
         /\ List!Current(n) # << >> => AtHand(n) /\ Rest(l) = List!Current(n) \o Rest(n)
<1>1. PICK s \in Seq(Items) : \E i : l = [ items |-> s, it |-> i ]
  BY DEF IsList
<1>2. PICK i : l = [ items |-> s, it |-> i ]
  BY <1>1
<1>3. l.items = s /\ l.it = i /\ Len(s) \in Nat /\ i \in 1 .. Len(s)
  BY <1>2, LenProperties DEF AtHand
<1>4. List!Cursor(l) = {i} /\ i # List!End(l) /\ Rest(l) = SubSeq(s, i + 1, Len(s))
  BY <1>3 DEF List!Cursor, List!End, Rest
<1>5. CASE n \in List!Next(l)
  <2>1. n = [ l EXCEPT !.it = IF i = List!End(l) THEN i ELSE i + 1 ]
    BY <1>4, <1>5, Zenon DEF List!Next
  <2>2. PICK k : k = i + 1
    OBVIOUS
  <2>3. n = [ l EXCEPT !.it = k ]
    BY <1>4, <2>1, <2>2, Zenon
  <2>4. n = [ items |-> s, it |-> k ] /\ k \in 1 .. Len(s) + 1
    BY <1>2, <1>3, <2>2, <2>3
  <2> QED
    BY <1>4, <2>2, <2>4, CurrentSplit
<1>6. CASE n \in List!Erase(l)
  <2>1. n = [ items |-> List!RemoveAt(s, i), it |-> i ]
    BY <1>3, <1>4, <1>6, Zenon DEF List!Erase
  <2>2. PICK a : a = SubSeq(s, 1, i - 1)
    OBVIOUS
  <2>3. PICK b : b = SubSeq(s, i + 1, Len(s))
    OBVIOUS
  <2>4. a \in Seq(Items) /\ Len(a) = i - 1 /\ b \in Seq(Items) /\ Len(b) = Len(s) - i
    BY <1>3, <2>2, <2>3, SubSeqProperties
  <2>5. List!RemoveAt(s, i) = a \o b
    BY <2>2, <2>3 DEF List!RemoveAt
  <2>6. PICK c : c = a \o b
    OBVIOUS
  <2>7. c \in Seq(Items) /\ Len(c) = Len(s) - 1 /\ SubSeq(c, i, Len(c)) = b
    <3>1. c \in Seq(Items) /\ Len(c) = Len(a) + Len(b)
      BY <2>4, <2>6, ConcatProperties
    <3>2. SubSeq(c, Len(a) + 1, Len(c)) = b
      BY <2>4, <2>6, SuffixOf
    <3>3. Len(a) + 1 = i /\ Len(c) = Len(s) - 1
      BY <1>3, <2>4, <3>1
    <3> QED
      BY <3>1, <3>2, <3>3
  <2>8. n = [ items |-> c, it |-> i ] /\ i \in 1 .. Len(c) + 1
    BY <1>3, <2>1, <2>5, <2>6, <2>7
  <2> QED
    BY <1>4, <2>3, <2>7, <2>8, CurrentSplit
<1> QED
  BY <1>5, <1>6

(* An operation on one packet changes only that one.                        *)
LEMMA RecordsUpdated ==
  ASSUME PacksInv, NEW p \in Packets, NEW x, packs' = [ packs EXCEPT ![p] = x ]
  PROVE  /\ packs'[p] = x
         /\ \A q \in Packets \ {p} : packs'[q] = packs[q]
<1>1. packs = [ q \in Packets |-> packs[q] ]
  BY DEF PacksInv
<1> QED
  BY <1>1

(* What First, Next and Erase return is a record of the list or nothing.    *)
LEMMA CurrentIsSeq ==
  ASSUME NEW l, IsList(l)
  PROVE  List!Current(l) \in Seq(Items)
<1>1. l.items \in Seq(Items) /\ DOMAIN l.items = 1 .. Len(l.items)
  BY ListFacts, LenProperties
<1>2. CASE l.it \in DOMAIN l.items
  <2>1. l.items[l.it] \in Items
    BY <1>1, <1>2
  <2> QED
    BY <1>2, <2>1 DEF List!Current
<1>3. CASE l.it \notin DOMAIN l.items
  BY <1>3, EmptySeq DEF List!Current
<1> QED
  BY <1>2, <1>3

(* Behind the last record there is none, and there Next and Erase stay.     *)
LEMMA StaysBehind ==
  ASSUME NEW l, IsList(l), l.it = List!End(l), NEW n \in List!Next(l) \cup List!Erase(l)
  PROVE  List!Current(n) = << >>
<1>1. PICK s \in Seq(Items) : \E i : l = [ items |-> s, it |-> i ]
  BY DEF IsList
<1>2. PICK i : l = [ items |-> s, it |-> i ]
  BY <1>1
<1>3. l.items = s /\ l.it = i /\ Len(s) \in Nat /\ i = Len(s) + 1 /\ DOMAIN s = 1 .. Len(s)
  BY <1>2, LenProperties DEF List!End
<1>4. List!Cursor(l) = {i} /\ i = List!End(l)
  BY <1>3 DEF List!Cursor, List!End
<1>5. n = [ l EXCEPT !.it = i ]
  <2>1. CASE n \in List!Next(l)
    BY <1>4, <2>1, Zenon DEF List!Next
  <2>2. CASE n \in List!Erase(l)
    BY <1>4, <2>2, Zenon DEF List!Erase
  <2> QED
    BY <2>1, <2>2
<1>6. n = [ items |-> s, it |-> i ]
  BY <1>2, <1>5
<1> QED
  BY <1>3, <1>6 DEF List!Current

(* First begins a loop that has seen the first record and not the rest.     *)
LEMMA StartsLoop ==
  ASSUME LoopInv, PacksInv, NEW p \in Packets, StartLoop(p)
  PROVE  LoopInv'
<1>1. IsList(packs[p].recs)
  BY Opens DEF PacksInv
<1>2. PICK l : l = List!First(packs[p].recs)
  OBVIOUS
<1>3. PICK s \in Seq(Items) : l = [ items |-> s, it |-> 1 ]
  <2>1. PICK s \in Seq(Items) : \E i : packs[p].recs = [ items |-> s, it |-> i ]
    BY <1>1 DEF IsList
  <2>2. PICK i : packs[p].recs = [ items |-> s, it |-> i ]
    BY <2>1
  <2> QED
    BY <1>2, <2>2 DEF List!First
<1>4. packs'[p].recs = l
  <2>1. PICK x : x = [ packs[p] EXCEPT !.recs = l ]
    OBVIOUS
  <2>2. packs' = [ packs EXCEPT ![p] = x ]
    BY <1>2, <2>1, Zenon DEF StartLoop
  <2>3. IsPack(packs[p]) /\ packs[p].head \in Heads /\ IsList(l)
    BY <1>1, <1>2, ListFacts, Opens DEF PacksInv
  <2>4. x.recs = l
    BY <2>1, <2>3, AssignedFields
  <2> QED
    BY <2>2, <2>4, RecordsUpdated
<1>5. PICK c : c = List!Current(l)
  OBVIOUS
<1>6. PICK over \in BOOLEAN : over <=> c = << >>
  OBVIOUS
<1>7. l.items = s /\ l.it = 1 /\ Len(s) \in Nat /\ 1 \in 1 .. Len(s) + 1
  BY <1>3, LenProperties
<1>8. loop' = [ on |-> {p}, all |-> s, seen |-> c, how |-> "alone", over |-> over ]
  BY <1>2, <1>5, <1>6, <1>7, Zenon DEF StartLoop
<1>9. SubSeq(s, 1, Len(s)) = s
  BY <1>7, SubSeqProperties, SeqEqual, LenProperties
<1>10. /\ c \in Seq(Items)
       /\ c = << >> => s = << >>
       /\ c # << >> => AtHand(l) /\ s = c \o Rest(l)
  BY <1>3, <1>5, <1>7, <1>9, CurrentSplit
<1>11. /\ loop'.on = {p} /\ loop'.all = s /\ loop'.seen = c /\ loop'.how = "alone"
       /\ "alone" # "encoded" /\ "alone" \in Hows /\ {p} \in SUBSET Packets
  BY <1>8 DEF Hows
<1>12. loop'.over <=> c = << >>
  BY <1>6, <1>8, Zenon
<1>13. LoopShape'
  BY <1>8, <1>10, <1>11, Zenon DEF LoopShape
<1> QED
  BY <1>4, <1>10, <1>11, <1>12, <1>13 DEF LoopInv

(* Next and Erase take a loop one record further, or end it.                *)
LEMMA GoesOn ==
  ASSUME LoopInv, PacksInv, NEW p \in Packets, LoopNext(p) \/ LoopErase(p)
  PROVE  LoopInv'
<1>1. IsList(packs[p].recs)
  BY Opens DEF PacksInv
<1>2. PICK n \in List!Next(packs[p].recs) \cup List!Erase(packs[p].recs) :
        /\ packs' = [ packs EXCEPT ![p].recs = n ]
        /\ loop' = [ loop EXCEPT !.seen = @ \o List!Current(n), !.over = List!Current(n) = << >> ]
  BY Zenon DEF LoopNext, LoopErase, GoOn
<1>3. IsList(n)
  BY <1>1, <1>2, MovedFacts
<1>4. packs'[p].recs = n
  <2>1. PICK x : x = [ packs[p] EXCEPT !.recs = n ]
    OBVIOUS
  <2>2. packs' = [ packs EXCEPT ![p] = x ]
    BY <1>2, <2>1, Zenon
  <2>3. IsPack(packs[p]) /\ packs[p].head \in Heads
    BY Opens DEF PacksInv
  <2>4. x.recs = n
    BY <1>3, <2>1, <2>3, AssignedFields
  <2> QED
    BY <2>2, <2>4, RecordsUpdated
<1>5. PICK on \in SUBSET Packets : \E all, seen \in Seq(Items) : \E h \in Hows : \E over \in BOOLEAN :
        loop = [ on |-> on, all |-> all, seen |-> seen, how |-> h, over |-> over ]
  BY DEF LoopInv, LoopShape
<1>6. PICK all \in Seq(Items), seen \in Seq(Items), h \in Hows, over \in BOOLEAN :
        loop = [ on |-> on, all |-> all, seen |-> seen, how |-> h, over |-> over ]
  BY <1>5
<1>7. /\ loop.on = on /\ loop.all = all /\ loop.seen = seen /\ loop.how = h
      /\ p \in loop.on /\ ~loop.over
  BY <1>6 DEF LoopNext, LoopErase, GoOn
<1>8. on = {p}
  BY <1>7 DEF LoopInv
<1>9. PICK c : c = List!Current(n)
  OBVIOUS
<1>10. c \in Seq(Items)
  BY <1>3, <1>9, CurrentIsSeq
<1>11. PICK now : now = seen \o c
  OBVIOUS
<1>12. now \in Seq(Items) /\ (c = << >> => now = seen)
  BY <1>10, <1>11, ConcatProperties, ConcatEmptySeq
<1>13. PICK over2 \in BOOLEAN : over2 <=> c = << >>
  OBVIOUS
<1>14. loop' = [ on |-> on, all |-> all, seen |-> now, how |-> h, over |-> over2 ]
  <2>1. PICK y : y = [ loop EXCEPT !.seen = now ]
    OBVIOUS
  <2>2. y = [ on |-> on, all |-> all, seen |-> now, how |-> h, over |-> over ]
    BY <1>6, <2>1
  <2>3. over2 = (c = << >>)
    BY <1>13, Zenon
  <2>4. loop' = [ y EXCEPT !.over = over2 ]
    BY <1>2, <1>7, <1>9, <1>11, <2>1, <2>3, Zenon
  <2> QED
    BY <2>2, <2>4, Zenon
<1>15. loop'.on = on /\ loop'.all = all /\ loop'.seen = now /\ loop'.how = h
  BY <1>14
<1>16. loop'.over <=> c = << >>
  BY <1>13, <1>14, Zenon
<1>17. LoopShape'
  BY <1>12, <1>14, Zenon DEF LoopShape
<1>18. CASE h = "alone"
  <2>1. AtHand(packs[p].recs) /\ all = seen \o Rest(packs[p].recs)
    BY <1>7, <1>18 DEF LoopInv
  <2>2. /\ c = << >> => Rest(packs[p].recs) = << >>
        /\ c # << >> => AtHand(n) /\ Rest(packs[p].recs) = c \o Rest(n)
    BY <1>1, <1>2, <1>9, <2>1, MovesOn
  <2>3. c = << >> => now = all
    BY <1>12, <2>1, <2>2, ConcatEmptySeq
  <2>4. c # << >> => AtHand(n) /\ all = now \o Rest(n)
    <3>1. ASSUME c # << >> PROVE all = now \o Rest(n)
      <4>1. n.items \in Seq(Items) /\ AtHand(n)
        BY <1>3, <2>2, <3>1, ListFacts
      <4>2. Rest(n) \in Seq(Items)
        BY <4>1, RestIsSeq
      <4>3. (seen \o c) \o Rest(n) = seen \o (c \o Rest(n))
        BY <1>10, <4>2, ConcatAssociative
      <4> QED
        BY <1>11, <2>1, <2>2, <3>1, <4>3
    <3> QED
      BY <2>2, <3>1
  <2>5. "alone" # "encoded"
    OBVIOUS
  <2> QED
    BY SMTT(30), <1>4, <1>8, <1>15, <1>16, <1>17, <1>18, <2>3, <2>4, <2>5 DEF LoopInv
<1>19. CASE h = "encoded"
  <2>1. packs[p].recs.it = List!End(packs[p].recs) /\ IsPrefix(seen, all)
    BY <1>7, <1>19 DEF LoopInv
  <2>2. c = << >>
    BY <1>1, <1>2, <1>9, <2>1, StaysBehind
  <2>3. "alone" # "encoded"
    OBVIOUS
  <2> QED
    BY <1>8, <1>12, <1>15, <1>16, <1>17, <1>19, <2>1, <2>2, <2>3 DEF LoopInv
<1>20. CASE h = "changed"
  <2>1. "changed" # "encoded" /\ "changed" # "alone"
    OBVIOUS
  <2> QED
    BY <1>8, <1>15, <1>17, <1>20, <2>1 DEF LoopInv
<1> QED
  BY <1>18, <1>19, <1>20 DEF Hows

(* Every operation says of itself what it does to a loop, and is right.     *)
LEMMA HowIsKnown ==
  ASSUME LoopInv
  PROVE  loop.how \in Hows
BY DEF LoopInv, LoopShape

(* What else is done to one packet while a loop runs over it.               *)
LEMMA UseDisturbs ==
  ASSUME LoopInv, PacksInv, NEW p \in Packets,
         \/ InitPacket(p) \/ \E f \in Fills : Fill(p, f) \/ SetKey(p, f.key)
         \/ \E r \in Records : AddRecord(p, r)
         \/ Encode(p) \/ Decode(p) \/ DecodeNoise(p)
  PROVE  LoopInv'
<1>1. IsPack(packs[p]) /\ packs[p].head \in Heads /\ IsList(packs[p].recs)
  BY Opens DEF PacksInv
<1>2. ASSUME NEW x, packs' = [ packs EXCEPT ![p] = x ], Disturb(p, "changed") PROVE LoopInv'
  <2>1. \A q \in loop.on \ {p} : packs'[q].recs = packs[q].recs
    <3>1. loop.on \subseteq Packets
      BY DEF LoopInv, LoopShape
    <3> QED
      BY <1>2, <3>1, RecordsUpdated
  <2>2. "changed" \in Hows
    BY DEF Hows
  <2> QED
    BY <1>2, <2>1, <2>2, DisturbKeeps
<1>3. ASSUME NEW x, packs' = [ packs EXCEPT ![p] = x ], x.recs = packs[p].recs,
             Disturb(p, loop.how)
      PROVE  LoopInv'
  <2>1. packs'[p].recs = packs[p].recs /\ \A q \in loop.on \ {p} : packs'[q].recs = packs[q].recs
    <3>1. loop.on \subseteq Packets
      BY DEF LoopInv, LoopShape
    <3> QED
      BY <1>3, <3>1, RecordsUpdated
  <2>2. PICK h \in Hows : h = loop.how
    BY HowIsKnown
  <2>3. Disturb(p, h)
    BY <1>3, <2>2
  <2> QED
    BY <2>1, <2>2, <2>3, DisturbKeeps
<1>4. CASE InitPacket(p)
  <2>1. PICK x : packs' = [ packs EXCEPT ![p] = x ]
    BY <1>4, Zenon DEF InitPacket
  <2> QED
    BY <1>2, <1>4, <2>1 DEF InitPacket
<1>5. ASSUME NEW f \in Fills, Fill(p, f) PROVE LoopInv'
  <2>1. PICK x : x = FilledWith(packs[p], f)
    OBVIOUS
  <2>2. packs' = [ packs EXCEPT ![p] = x ]
    BY <1>5, <2>1, Zenon DEF Fill
  <2>3. x.recs = packs[p].recs
    BY <1>1, <2>1, FilledRecords
  <2> QED
    BY <1>3, <1>5, <2>2, <2>3 DEF Fill
<1>6. ASSUME NEW k, SetKey(p, k) PROVE LoopInv'
  <2>1. PICK x : x = [ packs[p] EXCEPT !.key = k ]
    OBVIOUS
  <2>2. packs' = [ packs EXCEPT ![p] = x ]
    BY <1>6, <2>1, Zenon DEF SetKey
  <2>3. x.recs = packs[p].recs
    BY <1>1, <2>1, Rekeyed
  <2> QED
    BY <1>3, <1>6, <2>2, <2>3 DEF SetKey
<1>7. ASSUME NEW r \in Records, AddRecord(p, r) PROVE LoopInv'
  <2>1. PICK x : packs' = [ packs EXCEPT ![p] = x ]
    BY <1>7, Zenon DEF AddRecord
  <2> QED
    BY <1>2, <1>7, <2>1 DEF AddRecord
<1>8. CASE Encode(p)
  <2>1. PICK x : x = Walked(packs[p])
    OBVIOUS
  <2>2. packs' = [ packs EXCEPT ![p] = x ]
    BY <1>8, <2>1 DEF Encode
  <2>3. CASE ~Encodes(packs[p])
    BY <1>2, <1>8, <2>2, <2>3 DEF Encode, Touch
  <2>4. CASE Encodes(packs[p])
    <3>1. Disturb(p, "encoded") /\ "encoded" \in Hows
      BY <1>8, <2>4 DEF Encode, Touch, Hows
    <3>2. x.recs.it = List!End(x.recs)
      BY <1>1, <2>1, <2>4, WalkedFacts DEF List!End
    <3>3. packs'[p] = x /\ \A q \in Packets \ {p} : packs'[q] = packs[q]
      BY <2>2, RecordsUpdated
    <3>4. loop.on \subseteq Packets
      BY DEF LoopInv, LoopShape
    <3> QED
      BY <3>1, <3>2, <3>3, <3>4, DisturbKeeps
  <2> QED
    BY <2>3, <2>4
<1>9. CASE Decode(p)
  <2>1. PICK x : packs' = [ packs EXCEPT ![p] = x ]
    BY <1>9, Zenon DEF Decode
  <2> QED
    BY <1>2, <1>9, <2>1 DEF Decode
<1>10. CASE DecodeNoise(p)
  <2>1. PICK h \in NoiseHeads : packs' = [ packs EXCEPT ![p].head = h ]
    BY <1>10 DEF DecodeNoise
  <2>2. PICK x : x = [ packs[p] EXCEPT !.head = h ]
    OBVIOUS
  <2>3. packs' = [ packs EXCEPT ![p] = x ]
    BY <2>1, <2>2, Zenon
  <2>4. x.recs = packs[p].recs
    BY <1>1, <2>2, HeadsAssumption, AssignedFields
  <2> QED
    BY <1>3, <1>10, <2>3, <2>4 DEF DecodeNoise
<1> QED
  BY <1>4, <1>5, <1>6, <1>7, <1>8, <1>9, <1>10

(* A copy changes the list of its target, and the cursor of its source.     *)
LEMMA CopyDisturbs ==
  ASSUME LoopInv, PacksInv, NEW d \in Packets, NEW s \in Packets, Assign(d, s) \/ Construct(d, s)
  PROVE  LoopInv'
<1>1. PICK t : /\ IsPack(t) /\ t.head.ena = 0 /\ t.recs.items = << >>
               /\ CopyInto(d, t, s)
  BY TargetFacts
<1>2. PICK w, x :
           /\ packs' = [ packs EXCEPT ![s] = w, ![d] = x ]
           /\ IsPack(w) /\ IsPack(x)
           /\ IF d = s \/ ~Copyable(Stripped(packs[s])) THEN x.recs.items = << >>
              ELSE KeepsFront(packs[s].recs.items, x.recs.items)
           /\ s # d => /\ w.recs.items = packs[s].recs.items
                       /\ packs[s].head.ena = 0 => w.head.ena = 0
                       /\ Encodes(packs[s]) => w.recs.it = List!End(w.recs)
           /\ d \notin excused' \cup stripped' => x.head.ena = 0
  BY <1>1, CopyFacts, Zenon
<1>3. packs = [ q \in Packets |-> packs[q] ] /\ loop.on \subseteq Packets
  BY DEF PacksInv, LoopInv, LoopShape
<1>4. /\ s # d => packs'[s] = w
      /\ \A q \in Packets \ {d, s} : packs'[q] = packs[q]
  BY <1>2, <1>3
<1>5. \A p, q \in loop.on : p = q
  BY DEF LoopInv
<1>6. CASE d \in loop.on
  <2>1. Disturb(d, "changed") /\ "changed" \in Hows
    BY <1>1, <1>6 DEF CopyInto, Hows
  <2> QED
    BY <1>5, <1>6, <2>1, DisturbKeeps
<1>7. CASE d \notin loop.on
  <2>1. Touch(s)
    BY <1>1, <1>7 DEF CopyInto
  <2>2. PICK how \in Hows : /\ Disturb(s, how)
                            /\ how = "changed" \/ (how = "encoded" /\ Encodes(packs[s]))
    BY <2>1 DEF Touch, Hows
  <2>3. \A q \in loop.on \ {s} : packs'[q].recs = packs[q].recs
    BY <1>3, <1>4, <1>7
  <2>4. s \in loop.on => how = "changed" \/ (how = "encoded" /\ packs'[s].recs.it = List!End(packs'[s].recs))
    BY <1>2, <1>4, <1>7, <2>2
  <2> QED
    BY <2>2, <2>3, <2>4, DisturbKeeps
<1> QED
  BY <1>6, <1>7

(* Every step of every program.                                             *)
LEMMA LoopStep ==
  ASSUME LoopInv, PacksInv, [Next]_vars
  PROVE  LoopInv'
<1>1. CASE UNCHANGED vars
  BY <1>1 DEF vars, LoopInv, LoopShape
<1>2. ASSUME NEW p \in Packets, Use(p) PROVE LoopInv'
  BY <1>2, UseDisturbs, StartsLoop, GoesOn DEF Use
<1>3. ASSUME NEW p \in Packets, NEW s \in Packets, Assign(p, s) \/ Construct(p, s)
      PROVE  LoopInv'
  BY <1>3, CopyDisturbs
<1> QED
  BY <1>1, <1>2, <1>3 DEF Next

(* A loop that was alone with its packet visits every record once, in their *)
(* order, whatever it erases; one in which the packet was encoded or copied *)
(* visits a prefix of them.                                                 *)
THEOREM LoopsAreComplete == Spec => []LoopVisitsAll
<1>1. Init => LoopInv
  <2>1. ASSUME loop = NoLoop PROVE LoopInv
    <3>1. << >> \in Seq(Items) /\ {} \in SUBSET Packets /\ "alone" \in Hows /\ FALSE \in BOOLEAN
      BY EmptySeq DEF Hows
    <3>2. loop = [ on |-> {}, all |-> << >>, seen |-> << >>, how |-> "alone", over |-> FALSE ]
      BY <2>1 DEF NoLoop
    <3>3. loop.on = {} /\ loop.how = "alone" /\ ~loop.over /\ "alone" # "encoded"
      BY <3>2
    <3> QED
      BY <3>1, <3>2, <3>3, Zenon DEF LoopInv, LoopShape
  <2> QED
    BY <2>1 DEF Init
<1>2. LoopInv => LoopVisitsAll
  BY DEF LoopInv, LoopVisitsAll
<1> QED
  BY <1>1, <1>2, LoopStep, PacketsHold, PTL DEF Spec
=============================================================================
