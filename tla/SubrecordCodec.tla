--------------------------- MODULE SubrecordCodec ---------------------------
(***************************************************************************)
(* The life of one subrecord: GetData sets its size, allocates a buffer    *)
(* and copies the parts of an object into it one by one; the bytes travel; *)
(* SetSRD of a new object of the class checks and copies them field by     *)
(* field. What arrives may be shorter or longer than what was written: the *)
(* length in the subrecord header is the peer's (or damaged). What GetData *)
(* reports as *size, with the header, is what TRecord::GetData copies.     *)
(***************************************************************************)
EXTENDS SubrecordLayout

CONSTANTS Objects           \* the objects that may be encoded

SubHead == 3                \* EGTS_SBR_HDR_SIZE

ASSUME ObjectsAssumption == \A o \in Objects : IsObject(o)

VARIABLES object,           \* the object that is encoded
          phase,            \* "new", "writing", "reading" or "done"
          room,             \* the bytes allocated behind the subrecord header
          reported,         \* *size of GetData
          buffer,           \* what was copied into them: parts with their offsets
          offered,          \* size of SetSRD
          fields,           \* what was copied out of the data: the same for fields
          todo, pos,        \* the parts or items that are left, and the offset
          ok, takes         \* what SetSRD returned, and *ppos

vars == <<object, phase, room, reported, buffer, offered, fields, todo, pos, ok, takes>>

Placed(f, i, at, n) == [ field |-> f, nth |-> i, at |-> at, bytes |-> n ]

TypeOK ==
  /\ object.class \in Classes
  /\ phase \in {"new", "writing", "reading", "done"}
  /\ room \in 0 .. MaxU16 - 1 /\ reported \in 0 .. MaxU16 - 1
  /\ offered \in 0 .. MaxU16 - 1
  /\ Len(todo) \in Nat /\ pos \in Nat /\ takes \in Nat
  /\ ok \in {0, 1}

Init ==
  /\ object \in Objects
  /\ phase = "new"
  /\ room = 0 /\ reported = 0 /\ buffer = << >> /\ offered = 0 /\ fields = << >>
  /\ todo = << >> /\ pos = 0 /\ ok = 0 /\ takes = 0

(* Faulty: *size goes without the header. *)
PrepareGetDataHeadless ==
  /\ phase = "new" /\ ~Unwritable(object)
  /\ phase' = "writing"
  /\ LET data == GetData(object)
     IN  room' = data.size /\ todo' = data.parts /\ reported' = data.size
  /\ UNCHANGED <<object, buffer, offered, fields, pos, ok, takes>>

(* The size is computed; PrepareGetData allocates as much and the header, in *)
(* int, and adds the header to *size, in 16 bits.                           *)
PrepareGetData ==
  /\ phase = "new" /\ ~Unwritable(object)
  /\ phase' = "writing"
  /\ LET data == GetData(object)
     IN  room' = data.size /\ todo' = data.parts /\ reported' = U16(data.size + SubHead)
  /\ UNCHANGED <<object, buffer, offered, fields, pos, ok, takes>>

RefuseToWrite ==
  /\ phase = "new" /\ Unwritable(object)
  /\ phase' = "done"
  /\ UNCHANGED <<object, room, reported, buffer, offered, fields, todo, pos, ok, takes>>

CopyIn ==
  /\ phase = "writing" /\ todo # << >>
  /\ LET p == Head(todo)
     IN  /\ buffer' = Append(buffer, Placed(p.field, p.nth, pos, p.bytes))
         /\ pos' = pos + p.bytes
  /\ todo' = Tail(todo)
  /\ UNCHANGED <<object, phase, room, reported, offered, fields, ok, takes>>

(* Something was copied behind the buffer. *)
Overrun == \E i \in DOMAIN buffer : buffer[i].at + buffer[i].bytes > room

(* The lengths that make a difference: around every part, and more than all. *)
Lengths ==
  LET ends == {0, room} \cup { buffer[i].at : i \in DOMAIN buffer }
  IN  { n \in UNION { {e - 1, e, e + 1} : e \in ends } \cup {room + 19, room + 20}
        : n \in 0 .. MaxU16 - 1 }

(* GetData is done, and SetSRD is called with n bytes (of what memory holds *)
(* after an overrun nothing is said).                                       *)
Arrive(n) ==
  /\ phase = "writing" /\ todo = << >> /\ ~Overrun
  /\ phase' = "reading"
  /\ offered' = n
  /\ todo' = SetSRD(object, n).items /\ pos' = 0
  /\ UNCHANGED <<object, room, reported, buffer, fields, ok, takes>>

CopyOut ==
  /\ phase = "reading" /\ todo # << >> /\ Fits(Head(todo), pos, offered)
  /\ LET i == Head(todo)
     IN  /\ fields' = IF i.keep = 0 THEN fields
                      ELSE Append(fields, Placed(i.field, i.nth, pos, i.keep))
         /\ pos' = pos + i.skip
  /\ todo' = Tail(todo)
  /\ UNCHANGED <<object, phase, room, reported, buffer, offered, ok, takes>>

Fail ==
  /\ phase = "reading" /\ todo # << >> /\ ~Fits(Head(todo), pos, offered)
  /\ phase' = "done"
  /\ UNCHANGED <<object, room, reported, buffer, offered, fields, todo, pos, ok, takes>>

(* Faulty: *ppos is what is left and not what was read. *)
ReturnLeft ==
  /\ phase = "reading" /\ todo = << >>
  /\ phase' = "done" /\ ok' = 1
  /\ takes' = offered - pos
  /\ UNCHANGED <<object, room, reported, buffer, offered, fields, todo, pos>>

Return ==
  /\ phase = "reading" /\ todo = << >>
  /\ phase' = "done" /\ ok' = 1
  /\ takes' = IF SetSRD(object, offered).whole THEN offered ELSE pos
  /\ UNCHANGED <<object, room, reported, buffer, offered, fields, todo, pos>>

Next ==
  \/ PrepareGetData \/ RefuseToWrite \/ CopyIn
  \/ \E n \in Lengths : Arrive(n)
  \/ CopyOut \/ Fail \/ Return

Spec == Init /\ [][Next]_vars
-----------------------------------------------------------------------------
(* The objects for which GetData allocates less than it copies: a TEPMainData *)
(* with more stations than three bits count, and data that with the fields   *)
(* around it exceed uint16_t.                                                *)
Spills(o) ==
  \/ o.class = "TEPMainData" /\ Stations(o) >= Capacity["station"]
  \/ Bytes(GetData(o).parts) > IF o.class = "TInsAccel" THEN 65532 ELSE 65535

(* GetData copies nothing behind the buffer that PrepareGetData allocated,    *)
(* for every combination of the presence bits, except for those objects. The *)
(* size is computed in one place and the copying is done in another.          *)
WritesInsideBuffer ==
  /\ Overrun => Spills(object)
  /\ phase = "writing" /\ todo = << >> => (Spills(object) => Overrun)

(* SetSRD reads nothing behind the data it was given, wherever they were cut. *)
(* TECallRawMSD without a byte is the one exception: its size is not checked. *)
ReadsInsideData ==
  (\E i \in DOMAIN fields : fields[i].at + fields[i].bytes > offered) =>
    object.class = "TECallRawMSD" /\ offered = 0

(* What an object holds that GetData may write cut, or not at all. *)
Held(o) ==
  CASE o.class = "TDispIdent"  -> { <<"dscr", 0, o.var + 1>> }
    [] o.class = "TEPMainData" -> { <<"event", i, 4>> : i \in 1 .. o.list[2].size }
    [] OTHER -> { }

(* SetSRD has put into every field the bytes that GetData wrote for it, and   *)
(* nothing that the object holds is missing.                                  *)
Restored ==
  /\ { fields[i] : i \in DOMAIN fields }
       = { buffer[i] : i \in { j \in DOMAIN buffer : buffer[j].bytes > 0 } }
  /\ \A h \in Held(object) :
       \E i \in DOMAIN fields : h = <<fields[i].field, fields[i].nth, fields[i].bytes>>

(* A list that its counter cannot count. *)
Overfull(o) ==
  \/ o.class = "TEPSignature" /\ Len(o.list) >= Capacity["sd"]
  \/ o.class = "TEPAccelData3" /\ Len(o.list) >= Capacity["ad"]
  \/ o.class = "TEPTrackData" /\ Len(o.list) >= Capacity["rt"]

(* The objects that do not survive the way through GetData and SetSRD. *)
Lossy(o) ==
  \/ Overfull(o)
  \/ o.class \in {"TTermIdent", "TTermIdent2"} /\ "mne" \in o.flags
  \/ o.class = "TEPMainData" /\ o.list[2].size > 0
  \/ o.class = "TEPSignature" /\ \E i \in DOMAIN o.list : o.list[i].size = 0
  \/ o.class = "TDispIdent" /\ o.var >= 255
  \/ o.class = "TECallMSD" /\ o.var > 56
  \/ o.class = "TPassengers" /\ \E i, j \in DOMAIN o.list : i < j /\ o.list[i].id >= o.list[j].id

Undamaged == phase = "done" /\ ~Unwritable(object) /\ offered = room

(* SetSRD accepts what GetData wrote, and an object survives the way exactly  *)
(* unless it is one of those that this code is known to lose something of.    *)
RoundTrip == Undamaged => ok = 1 /\ (Restored <=> ~Lossy(object))

(* The objects whose encoding goes on behind what SetSRD reports as read.    *)
Underread(o) ==
  \/ Overfull(o)
  \/ o.class = "TPosData" /\ Src(o) > 0
  \/ o.class = "TECallMSD" /\ o.var > 56

(* The objects for which *size turns when the header is added.               *)
Turns(o) == GetData(o).size + SubHead >= MaxU16

(* *ppos is the length of the subrecord, on which TRecord::SetData relies to  *)
(* find the next one, except behind those that are read in part; and with the *)
(* header it is what GetData reported, which TRecord::GetData copied and      *)
(* counted in rl, except if that turned.                                     *)
TakesItsLength ==
  Undamaged =>
    /\ takes = room <=> ~Underread(object)
    /\ takes + SubHead = reported <=> ~Underread(object) /\ ~Turns(object)

(* The classes that make do with less than was written: with data up to their *)
(* end, or with fields that are only read if they are there.                  *)
Elastic(o) ==
  \/ o.class \in {"TCommandData", "TECallRawMSD", "TECallMSD", "TDispIdent", "TAuthInfo",
                  "TPlusData", "TLiquidLevel", "TTermIdent2", "TPassengers"}
  \/ Underread(o)

(* A subrecord that lost bytes is refused, not read with what is left.        *)
CutDataNoticed == ok = 1 /\ offered < Bytes(buffer) => Elastic(object)

(* Whatever the length, *ppos is at most 19 more than the data, and more only *)
(* for TTermIdent2: the walk over a record relies on this bound.              *)
OvershootBounded ==
  ok = 1 /\ takes > offered => takes <= offered + 19 /\ object.class = "TTermIdent2"
=============================================================================
