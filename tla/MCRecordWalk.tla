---------------------------- MODULE MCRecordWalk ----------------------------
(***************************************************************************)
(* Frames for RecordWalk: up to two records of up to two subrecords, every *)
(* pair of ways in which something can be wrong, with a third record that  *)
(* is in order, and two ways to read what lies between them; and frames of *)
(* the greatest length, whose first subrecord reaches over the modulus.    *)
(***************************************************************************)
EXTENDS RecordWalk, SequencesExt

Auth == 1
Teledata == 2

MCModulus == 40
MCOvershoot == 2

(* Subrecords. len and takes are those of the smallest of their kind. *)
Good   == [ len |-> 2, services |-> {Auth}, takes |-> 2, reads |-> "ok" ]
Short  == [ Good EXCEPT !.len = 1, !.takes = 1 ]
Empty  == [ Good EXCEPT !.len = 0, !.takes = 0 ]
Over   == [ Good EXCEPT !.takes = 4 ]       \* as EGTS_SR_TERM_IDENTITY2
Under  == [ Good EXCEPT !.len = 4 ]         \* as EGTS_SR_POS_DATA with srcd
Fails  == [ Good EXCEPT !.reads = "fails" ]
Throws == [ Good EXCEPT !.reads = "throws" ]
Other  == [ Good EXCEPT !.services = {Teledata} ]
Lying  == [ Good EXCEPT !.len = 9 ]         \* longer than what is there
Edge   == [ Good EXCEPT !.len = 3 ]         \* one byte longer

(* The bytes that follow a subrecord's header. *)
Bytes(s) == IF s \in {Lying, Edge} THEN 2 ELSE s.len

SubLists ==
  { << >> } \cup { <<s>> : s \in {Good, Empty, Over, Under, Fails, Throws, Other, Lying, Edge} }
    \cup { <<Good, s>> : s \in {Short, Fails, Other, Over} }

(* A record: how many optional fields, by how much rl is wrong, subrecords. *)
Specimen(opt, off, ss) == [ opt |-> opt, off |-> off, subs |-> ss ]

Specimens ==
  { Specimen(0, off, ss) : off \in {0, 3}, ss \in SubLists }
    \cup { Specimen(1, 0, <<Good>>), Specimen(0, -2, <<Good, Short>>) }

(* Adding a subrecord, and a record, to a frame. *)
AddSub(f, s) ==
  [ f EXCEPT !.size = @ + SubHead + Bytes(s),
             !.sub  = @ @@ f.size :> s,
             !.sent[Len(f.sent)].sbrs = Append(@, f.size) ]

SumBytes(ss) == FoldLeft(LAMBDA n, s : n + SubHead + Bytes(s), 0, ss)

AddRecord(f, r) ==
  LET head == [ opt |-> r.opt, rl |-> SumBytes(r.subs) + r.off, rst |-> Auth ]
      opened == [ f EXCEPT !.size = @ + HeadLen(head),
                           !.rec  = @ @@ f.size :> head,
                           !.sent = Append(@, [ at |-> f.size, sbrs |-> << >> ]) ]
  IN  FoldLeft(AddSub, opened, r.subs)

(* What a head or a subrecord is taken for where none begins. *)
Strays == { [ rec |-> [ opt |-> 0, rl |-> 0, rst |-> Auth ], sub |-> Other ],
            [ rec |-> [ opt |-> 0, rl |-> 5, rst |-> Auth ], sub |-> Short ] }

Blank(start, stray) == [ size |-> start, start |-> start, rec |-> << >>, sub |-> << >>,
                         stray |-> stray, sent |-> << >> ]

(* cut bytes are missing at the end of the frame. *)
FrameOf(rs, start, stray, cut) ==
  LET whole == FoldLeft(AddRecord, Blank(start, stray), rs)
  IN  [ whole EXCEPT !.size = @ - cut ]

Plain == Specimen(0, 0, <<Short>>)

(* A frame as long as the modulus allows. Behind its first subrecord pos is *)
(* 0 or 2, inside the head of the record, where the bytes may be taken for  *)
(* a subrecord in front of the first: then the walk goes round.             *)
LongFrame(sum, len, second, stray) ==
  [ size |-> MCModulus - 1, start |-> 0,
    rec |-> 0 :> [ opt |-> 0, rl |-> sum, rst |-> Auth ],
    sub |-> 7 :> [ Good EXCEPT !.len = len, !.takes = len ] @@ 2 :> second,
    stray |-> stray, sent |-> << [ at |-> 0, sbrs |-> <<7>> ] >> ]

MCFrames ==
  { f \in { FrameOf(<<r>>, start, stray, cut) : r \in Specimens, start \in {0, 3},
                                                stray \in Strays, cut \in {0, 1, 4} }
          \cup { FrameOf(<<r, Plain>>, 0, stray, 0) : r \in Specimens, stray \in Strays }
          \cup { FrameOf(<<q, r>>, 0, stray, 0) :
                   q \in { Plain, Specimen(1, 0, << >>), Specimen(0, 0, <<Over>>) },
                   r \in Specimens, stray \in Strays }
          \cup { LongFrame(sum, len, second, stray) :
                   sum \in {33, 35, 39}, len \in {30, 32},
                   second \in {Good, Fails, Throws, Over}, stray \in Strays }
      : f.size < MCModulus }
=============================================================================
