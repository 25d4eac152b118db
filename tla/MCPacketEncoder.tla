-------------------------- MODULE MCPacketEncoder ---------------------------
(***************************************************************************)
(* Packets for PacketEncoder: records and signatures that end just below,  *)
(* at and above the places where a frame gets too long (65517), where its  *)
(* padding no longer fits behind a route (65512), and where 16 bits end.   *)
(***************************************************************************)
EXTENDS PacketEncoder

SubSizes == {4, 98, 40000, 65505, 65506, 65510, 65511, 65529, NoData}

Record_(opt, subs) == [ opt |-> opt, subs |-> subs ]

OneRecord ==
  { << Record_(opt, << >>) >> : opt \in 0 .. 3 }
    \cup { << Record_(opt, <<s>>) >> : opt \in {0, 1, 3}, s \in SubSizes }
    \cup { << Record_(opt, <<s, t>>) >> : opt \in {0, 1}, s, t \in SubSizes }

TwoRecords ==
  { << Record_(0, << >>), Record_(1, <<s>>) >> : s \in SubSizes }
    \cup { << Record_(0, <<s>>), Record_(0, <<t>>) >> : s, t \in SubSizes }

MCPackets ==
  [ pt : {PT_RESPONCE, PT_APPDATA, 3}, rte : BOOLEAN, ena : 0 .. 2, sig : {0},
    recs : OneRecord \cup TwoRecords \cup { << >> } ]
  \cup
  [ pt : {PT_SIGNED_APPDATA}, rte : BOOLEAN, ena : 0 .. 2,
    sig : {0, 5, 65500, 65515, 65516, 65520, 65530, 65533, 65534, 65535},
    recs : { << >>, << Record_(0, << >>) >>, << Record_(1, <<98>>) >>,
             << Record_(0, <<98>>), Record_(0, <<4>>) >> } ]
=============================================================================
