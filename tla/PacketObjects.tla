---------------------------- MODULE PacketObjects ---------------------------
(***************************************************************************)
(* What a program does with TPacket objects: it fills them, encodes them,  *)
(* decodes what was encoded, copies them, and loops over their records, in *)
(* any order. main.cpp does some of it once with one object.               *)
(*                                                                         *)
(* The message on the wire is what the last GetData returned. A record is  *)
(* a value with the size of its encoding, or NoData if TRecord::GetData    *)
(* fails for it, and with what SetData makes of that encoding:             *)
(*   "whole"  the same record: every subrecord is read to its end          *)
(*   "lost"   no record: rst has no class for a subrecord, or SetSRD throws *)
(*   "other"  some other record, or one of which a part is left unread and *)
(*            taken for what follows: SubrecordCodec and RecordWalk say of *)
(*            which objects (TPosData with a source, a list that is too    *)
(*            long for its counter)                                        *)
(* A signature is its size and the size of the block that holds its bytes. *)
(* PacketEncoder has the 16 bits of the sums and PacketReader the pieces   *)
(* of a stream: here sizes are small and messages whole.                   *)
(*                                                                         *)
(* History variables say what the program means a packet to be, as if      *)
(* packets were values: meant, its content, and asked, whether it is to be *)
(* encrypted. Nothing is claimed of the packets in excused, nor of the     *)
(* encryption of those in stripped; why a packet gets there is said where  *)
(* it does.                                                                *)
(***************************************************************************)
EXTENDS PacketHeader, Sequences, SequencesExt, SequenceSums

List == INSTANCE ObjectList

CONSTANTS Packets,          \* the objects
          Records,          \* [id, size, back]: the records a program may add
          Fills,            \* what a program may fill a packet with
          NoiseHeads,       \* what ten bytes of no packet look like
          MaxRecords,       \* the most records of a packet here
          MaxFrame,         \* EGTS_MAX_FRAME_SIZE
          MaxOps,           \* how many operations the program makes: a bound
          NoData, ZeroKey

ASSUME MaxAssumption == {MaxRecords, MaxFrame, MaxOps} \subseteq Nat
ASSUME NoDataAssumption == NoData \notin Nat

(* The fields of head that steer something, as wide as they are. *)
Heads == [ prv : U8, pt : U8, rte : BOOLEAN, ena : 0 .. 3 ]
ASSUME HeadsAssumption == NoiseHeads \subseteq Heads /\ \A f \in Fills : f.head \in Heads

(* What GetData returns for a null pointer. *)
NoMessage == [ hl |-> 0 ]

(* An empty record of zeroes; and what comes out of bytes that mean nothing: *)
(* one record that stands for any number of them.                           *)
Phantom == [ id |-> "phantom", size |-> 7, back |-> "whole" ]
Junk    == [ id |-> "junk", size |-> 7, back |-> "other" ]

(* No record is shorter than its head, and none looks like padding. GetData  *)
(* copies as many bytes as a signature has in size: that is what it has.    *)
ASSUME RecordsAssumption ==
  \A r \in Records : /\ r # Phantom /\ r.back \in {"whole", "lost", "other"}
                     /\ r.size = NoData \/ (r.size \in Nat /\ r.size >= Phantom.size)
IsSignature(g) == g.size \in Nat /\ g = [ size |-> g.size, data |-> g.size ]
ASSUME SignaturesAssumption ==
  \A f \in Fills : f.head.pt = PT_SIGNED_APPDATA => IsSignature(f.sig)

VARIABLES packs,            \* the packets
          wire,             \* the message and what its sender meant, or NoMessage
          loop,             \* a loop of the program over the records of a packet
          meant, asked, excused, stripped,
          copied,           \* <<d, s>> if the last operation copied s into d
          ops               \* how many operations it has made

vars == <<packs, wire, loop, meant, asked, excused, stripped, copied, ops>>
history == <<meant, asked, excused, stripped>>

(* The content of a packet: its type and what GetData writes for that type. *)
Content(p) ==
  [ pt   |-> p.head.pt,
    resp |-> IF p.head.pt = PT_RESPONCE THEN p.resp ELSE 0,
    sig  |-> IF p.head.pt = PT_SIGNED_APPDATA THEN p.sig ELSE [ size |-> 0, data |-> 0 ],
    recs |-> p.recs.items ]

(* Faulty: Init forgets recs.Clear(). *)
ClearedKeepingRecords(p) ==
  [ head |-> [ prv |-> 1, pt |-> PT_APPDATA, rte |-> FALSE, ena |-> 0 ],
    key |-> ZeroKey, resp |-> 0, sig |-> p.sig, recs |-> p.recs ]

(* Faulty: Init sets the fields of head that are not zero, and no others. *)
ClearedKeepingFlags(p) ==
  [ head |-> [ p.head EXCEPT !.prv = 1, !.pt = PT_APPDATA ],
    key |-> ZeroKey, resp |-> 0, sig |-> p.sig, recs |-> List!Clear(p.recs) ]

(* Init, which does not touch the signature. *)
Cleared(p) ==
  [ head |-> [ prv |-> 1, pt |-> PT_APPDATA, rte |-> FALSE, ena |-> 0 ],
    key |-> ZeroKey, resp |-> 0, sig |-> p.sig, recs |-> List!Clear(p.recs) ]

(* A TPacket that was just constructed. *)
Fresh == [ head |-> [ prv |-> 1, pt |-> PT_APPDATA, rte |-> FALSE, ena |-> 0 ],
           key |-> ZeroKey, resp |-> 0, sig |-> [ size |-> 0, data |-> 0 ], recs |-> List!Empty ]

NoLoop == [ on |-> {}, all |-> << >>, seen |-> << >>, how |-> "alone", over |-> FALSE ]

Init ==
  /\ packs = [ p \in Packets |-> Fresh ]
  /\ wire = NoMessage /\ loop = NoLoop
  /\ meant = [ p \in Packets |-> Content(Fresh) ]
  /\ asked = [ p \in Packets |-> 0 ]
  /\ excused = {} /\ stripped = {} /\ copied = << >> /\ ops = 0

(* Something else than its loop uses the packet p, and the loop is no longer *)
(* alone; one that is over is forgotten.                                     *)
Disturb(p, how) ==
  loop' = IF loop.over THEN NoLoop
          ELSE IF p \in loop.on /\ loop.how # "changed" THEN [ loop EXCEPT !.how = how ]
          ELSE loop

(***************************************************************************)
(* Filling a packet.                                                       *)
(***************************************************************************)
InitPacket(p) ==
  /\ packs' = [ packs EXCEPT ![p] = Cleared(@) ]
  /\ meant' = [ meant EXCEPT ![p] = Content(Fresh) ]
  /\ asked' = [ asked EXCEPT ![p] = 0 ]
  /\ excused' = excused \ {p} /\ stripped' = stripped \ {p}
  /\ Disturb(p, "changed")
  /\ UNCHANGED wire

(* The program assigns the fields of the header and those of the type. *)
FilledWith(p, f) ==
  [ p EXCEPT !.head = f.head, !.key = f.key, !.resp = f.resp,
             !.sig = IF f.head.pt = PT_SIGNED_APPDATA THEN f.sig ELSE p.sig ]

Fill(p, f) ==
  /\ packs[p].recs.items = << >>
  /\ packs' = [ packs EXCEPT ![p] = FilledWith(@, f) ]
  /\ meant' = [ meant EXCEPT ![p] = Content(packs'[p]) ]
  /\ asked' = [ asked EXCEPT ![p] = f.head.ena ]
  /\ excused' = excused \ {p} /\ stripped' = stripped \ {p}
  /\ Disturb(p, loop.how)
  /\ UNCHANGED wire

(* A receiver puts the key in: Init has set it to zeroes. *)
SetKey(p, k) ==
  /\ packs' = [ packs EXCEPT ![p].key = k ]
  /\ Disturb(p, loop.how)
  /\ UNCHANGED <<wire, history>>

AddRecord(p, r) ==
  /\ Len(packs[p].recs.items) < MaxRecords
  /\ packs' = [ packs EXCEPT ![p].recs = List!Add(@, r) ]
  /\ meant' = [ meant EXCEPT ![p].recs = Append(@, r) ]
  /\ Disturb(p, "changed")
  /\ UNCHANGED <<wire, asked, excused, stripped>>

(***************************************************************************)
(* GetData.                                                                *)
(***************************************************************************)
Frame(p, s) ==
  Preamble([ pt |-> p.head.pt, sig |-> p.sig.size ]) + Total([ i \in DOMAIN s |-> s[i].size ])

(* The first k records can be encoded, and make no frame that is too long. *)
Fits(p, k) ==
  /\ \A i \in 1 .. k : p.recs.items[i].size # NoData
  /\ k > 0 => Frame(p, SubSeq(p.recs.items, 1, k)) <= MaxFrame

Typed(p) == p.head.pt <= PT_SIGNED_APPDATA
Encodes(p) == Typed(p) /\ Fits(p, Len(p.recs.items))

Padding(n) == IF n % 8 = 0 THEN 0 ELSE 8 - (n % 8)

(* What GetData returns: a message, or NoMessage for a null pointer. *)
Encoded(p) ==
  LET frame  == Frame(p, p.recs.items)
      zeroes == IF p.head.ena = 1 THEN Padding(frame) ELSE 0
  IN  IF ~Encodes(p) THEN NoMessage
      ELSE [ head |-> p.head, hl |-> IF p.head.rte THEN 16 ELSE 11, fdl |-> frame + zeroes,
             zeroes |-> zeroes, key |-> p.key, resp |-> p.resp, sig |-> p.sig,
             recs |-> p.recs.items ]

(* Its loop over the records moves their cursor: behind the last, or to the *)
(* record for which it gave up.                                             *)
GaveUpAt(p, k) == Fits(p, k - 1) /\ ~Fits(p, k)
Walked(p) ==
  IF ~Typed(p) THEN p
  ELSE IF Encodes(p) THEN [ p EXCEPT !.recs = List!LeftAt(@, List!End(@)) ]
  ELSE [ p EXCEPT !.recs = List!LeftAt(@, CHOOSE k \in DOMAIN @.items : GaveUpAt(p, k)) ]

Touch(p) == Disturb(p, IF Encodes(packs[p]) THEN "encoded" ELSE "changed")

Encode(p) ==
  /\ packs' = [ packs EXCEPT ![p] = Walked(@) ]
  /\ wire' = IF ~Encodes(packs[p]) THEN NoMessage
             ELSE [ message |-> Encoded(packs[p]), meant |-> meant[p], asked |-> asked[p],
                    excused |-> p \in excused, stripped |-> p \in stripped ]
  /\ Touch(p)
  /\ UNCHANGED history

(***************************************************************************)
(* SetData, on a message or on nothing: the packets it can leave, and what *)
(* it returns.                                                             *)
(***************************************************************************)
Complete(m) ==
  PackSize([ hl |-> m.hl, rte |-> m.head.rte, fdl |-> m.fdl ])
    <= EncodedSize([ hl |-> m.hl, fdl |-> m.fdl ])

Deciphered(p, m) == m.head.ena = 1 => p.key = m.key

(* All records of s, or its first k, are read back as they are. *)
WholeUpTo(s, k) == \A i \in 1 .. k : s[i].back = "whole"
Whole(s) == WholeUpTo(s, Len(s))

(* What is found from a record on that is not read back as it was: nothing, *)
(* for offset is 0; or the record, if only its very end is not read, or     *)
(* records that were not sent.                                             *)
FoundBehind(r) == IF r.back = "lost" THEN { << >> }
                  ELSE { << >>, <<r>>, <<Junk>>, <<r, Junk>> }

(* The records that the walk may find in a frame: those that were written,  *)
(* and one more where padding is long enough for the head of a record; or   *)
(* those in front of the first that is not read back as it was.            *)
Found(m) ==
  IF Whole(m.recs)
  THEN { m.recs \o (IF m.zeroes >= Phantom.size THEN << Phantom >> ELSE << >>) }
  ELSE UNION { { SubSeq(m.recs, 1, k - 1) \o x : x \in FoundBehind(m.recs[k]) } :
               k \in { i \in DOMAIN m.recs :
                         m.recs[i].back # "whole" /\ WholeUpTo(m.recs, i - 1) } }

AddAll(l, s) == IF s = << >> THEN l ELSE [ items |-> l.items \o s, it |-> List!Stale ]

(* What SetData assigns of a frame. *)
Taken(p, resp, sig, recs) == [ p EXCEPT !.resp = resp, !.sig = sig, !.recs = recs ]

(* The preamble of a frame that shows what was written, and the records     *)
(* found in it.                                                            *)
Opened(p, m, found) ==
  Taken(p, IF m.head.pt = PT_RESPONCE THEN m.resp ELSE p.resp,
           IF m.head.pt = PT_SIGNED_APPDATA
           THEN [ size |-> m.sig.size, data |-> m.sig.size ] ELSE p.sig,
           AddAll(p.recs, found))

(* One that was deciphered with another key shows anything. *)
Garbled(p, m) ==
  IF m.head.pt = PT_SIGNED_APPDATA
  THEN { [ pack |-> Taken(p, p.resp, [ size |-> m.fdl, data |-> p.sig.data ], p.recs), ok |-> 0 ],
         [ pack |-> Taken(p, p.resp, [ size |-> 0, data |-> 0 ], p.recs), ok |-> 1 ] }
  ELSE { [ pack |-> Taken(p, IF m.head.pt = PT_RESPONCE THEN 2 ELSE p.resp, p.sig,
                          AddAll(p.recs, found)), ok |-> 1 ]
         : found \in { << >>, << Junk >> } }

Outcomes(p, m) ==
  LET q == [ p EXCEPT !.head = m.head ]
  IN  IF m = NoMessage THEN { [ pack |-> p, ok |-> 0 ] }
      ELSE IF m.head.prv # 1
           THEN { [ pack |-> [ p EXCEPT !.head = h ], ok |-> 0 ] : h \in NoiseHeads }
      ELSE IF ~Complete(m) THEN { [ pack |-> q, ok |-> 0 ] }
      ELSE IF m.fdl = 0 THEN { [ pack |-> q, ok |-> 1 ] }
      ELSE IF ~Deciphered(p, m) THEN Garbled(q, m)
      ELSE { [ pack |-> Opened(q, m, found), ok |-> 1 ] : found \in Found(m) }

Put(set, p, yes) == IF yes THEN set \cup {p} ELSE set \ {p}

(* A packet that was decoded holds what the sender meant, unless SetData   *)
(* refused or waited (head is overwritten then), the key was another, there *)
(* were records in it (without Init those of the message come behind them), *)
(* or the message has a record that is not read back as it was.            *)
Decode(p) ==
  /\ wire # NoMessage
  /\ Len(packs[p].recs.items) + Len(wire.message.recs) <= MaxRecords
  /\ \E o \in Outcomes(packs[p], wire.message) :
       /\ packs' = [ packs EXCEPT ![p] = o.pack ]
       /\ meant' = [ meant EXCEPT ![p] = IF o.ok = 1 THEN wire.meant ELSE @ ]
       /\ asked' = [ asked EXCEPT ![p] = IF o.ok = 1 THEN wire.asked ELSE @ ]
       /\ excused' = Put(excused, p,
            \/ o.ok = 0 \/ wire.excused
            \/ ~Deciphered(packs[p], wire.message)
            \/ packs[p].recs.items # << >>
            \/ ~Whole(wire.message.recs))
       /\ stripped' = Put(stripped, p, wire.stripped)
  /\ Disturb(p, "changed")
  /\ UNCHANGED wire

(* SetData on bytes in which there is no packet. *)
DecodeNoise(p) ==
  /\ \E h \in NoiseHeads : packs' = [ packs EXCEPT ![p].head = h ]
  /\ excused' = excused \cup {p}
  /\ Disturb(p, loop.how)
  /\ UNCHANGED <<wire, meant, asked, stripped>>

(***************************************************************************)
(* Copies.                                                                 *)
(***************************************************************************)

(* A source that GetData turns into a message that SetData takes. *)
Copyable(p) == Encodes(p) /\ p.head.prv = 1 /\ ~p.head.rte

(* Faulty: the source is encoded as it is. *)
StrippedNot(p) == p

(* pack.head.bf.ena = 0 *)
Stripped(p) == [ p EXCEPT !.head.ena = 0 ]

(* Both copies: target is d as Init left it. The encryption is taken from  *)
(* the source before it is encoded, and what is put into the copy is lost  *)
(* again as soon as SetData writes head. What cannot be copied is lost, and *)
(* so is a packet that is assigned to itself, which Init cleared.          *)
CopyInto(d, target, s) ==
  LET source == Stripped(IF s = d THEN target ELSE packs[s])
      ena    == IF s = d THEN 0 ELSE packs[s].head.ena
      copy   == IF ena # 0 THEN [ target EXCEPT !.key = source.key, !.head.ena = 1 ] ELSE target
  IN  /\ \E o \in Outcomes(copy, Encoded(source)) :
           packs' = [ packs EXCEPT ![s] = Walked(source), ![d] = o.pack ]
      /\ meant' = [ meant EXCEPT ![d] = meant[s] ]
      /\ asked' = [ asked EXCEPT ![d] = asked[s] ]
      /\ excused' = Put(excused, d,
           s = d \/ s \in excused \/ ~Copyable(source) \/ ~Whole(source.recs.items))
      /\ stripped' = IF ena # 0 \/ s \in stripped THEN stripped \cup {s, d} ELSE stripped \ {d}
      /\ copied' = <<d, s>>
      /\ IF d \in loop.on THEN Disturb(d, "changed") ELSE Touch(s)
      /\ UNCHANGED wire

Assign(d, s) == CopyInto(d, Cleared(packs[d]), s)
Construct(d, s) == d # s /\ CopyInto(d, Fresh, s)

(***************************************************************************)
(* for (r = p.recs.First(); r; r = p.recs.Next()), or r = p.recs.Erase().  *)
(***************************************************************************)
StartLoop(p) ==
  LET l == List!First(packs[p].recs)
  IN  /\ packs' = [ packs EXCEPT ![p].recs = l ]
      /\ loop' = [ on |-> {p}, all |-> l.items, seen |-> List!Current(l), how |-> "alone",
                   over |-> List!Current(l) = << >> ]
      /\ UNCHANGED <<wire, history>>

GoOn(p, lists) ==
  /\ p \in loop.on /\ ~loop.over
  /\ \E l \in lists :
       /\ packs' = [ packs EXCEPT ![p].recs = l ]
       /\ loop' = [ loop EXCEPT !.seen = @ \o List!Current(l), !.over = List!Current(l) = << >> ]
  /\ UNCHANGED <<wire, meant, asked, stripped>>

LoopNext(p) == GoOn(p, List!Next(packs[p].recs)) /\ UNCHANGED excused

(* What the program means by it is the subject of LoopVisitsAll. *)
LoopErase(p) == GoOn(p, List!Erase(packs[p].recs)) /\ excused' = excused \cup {p}

Use(p) ==
  \/ InitPacket(p) \/ \E f \in Fills : Fill(p, f) \/ SetKey(p, f.key)
  \/ \E r \in Records : AddRecord(p, r)
  \/ Encode(p) \/ Decode(p) \/ DecodeNoise(p)
  \/ StartLoop(p) \/ LoopNext(p) \/ LoopErase(p)

Next ==
  /\ ops < MaxOps /\ ops' = ops + 1
  /\ \E p \in Packets :
       \/ Use(p) /\ copied' = << >>
       \/ \E s \in Packets : Assign(p, s) \/ Construct(p, s)

Spec == Init /\ [][Next]_vars
-----------------------------------------------------------------------------
(* The records but those that padding looks like. *)
Kept(s, r) == IF r = Phantom THEN s ELSE Append(s, r)
WithoutPhantoms(s) ==
  LET kept[i \in 0 .. Len(s)] == IF i = 0 THEN << >> ELSE Kept(kept[i - 1], s[i])
  IN  kept[Len(s)]

(* Packets behave like values, whatever the program does with them in any   *)
(* order: each holds the type, the response, the signature and the records  *)
(* that were put into it, sent to it or assigned to it, and at most empty   *)
(* records more that an encryption padded - unless it was decoded into      *)
(* without Init, with another key or without success, copied from what      *)
(* cannot be copied (a route, a record that is refused, itself), or on its  *)
(* way had a record that SetData does not read back as GetData wrote it.    *)
ContentAsMeant ==
  \A p \in Packets \ excused :
    [ Content(packs[p]) EXCEPT !.recs = WithoutPhantoms(@) ] = meant[p]

(* Encryption is lost in copies only, there by the source and by the copy:  *)
(* a packet that was never either nor sent by one is encrypted exactly if   *)
(* the program, or its sender, asked for it.                                *)
EncryptionAsAsked ==
  \A p \in Packets \ (excused \cup stripped) : packs[p].head.ena = asked[p]

(* The records of from are in to, or those in front of the first that is    *)
(* not read back as it was.                                                *)
KeepsFront(from, to) ==
  /\ Whole(from) => to = from
  /\ \A k \in 0 .. Len(from) :
       WholeUpTo(from, k) => k <= Len(to) /\ \A i \in 1 .. k : to[i] = from[i]

(* A packet that can be copied has in its copy all records, also if it is   *)
(* encrypted (the copy goes without padding); and if some record is not     *)
(* read back as it was, those in front of the first such one. Of any other  *)
(* packet no record is copied. The source keeps its records.               *)
CopyKeepsFront ==
  [][copied' # << >> =>
       LET d    == copied'[1]
           s    == copied'[2]
           from == packs[s].recs.items
           to   == packs'[d].recs.items
       IN  /\ IF d = s \/ ~Copyable(Stripped(packs[s])) THEN to = << >>
              ELSE KeepsFront(from, to)
           /\ d # s => packs'[s].recs.items = from]_vars

(* A loop of Next and Erase that was alone visits every record of the       *)
(* packet once, in order. One in which the packet was encoded or copied     *)
(* ends early, but visits none twice.                                       *)
LoopVisitsAll ==
  loop.over => /\ loop.how = "alone" => loop.seen = loop.all
               /\ loop.how = "encoded" => IsPrefix(loop.seen, loop.all)
=============================================================================
