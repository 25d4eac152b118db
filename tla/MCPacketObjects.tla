-------------------------- MODULE MCPacketObjects ---------------------------
(***************************************************************************)
(* Two packets and six operations. A record of 17 bytes makes a frame      *)
(* that an encryption pads with seven zeroes, two of them one that is too  *)
(* long behind a preamble; another record cannot be encoded, and of two    *)
(* SetData makes nothing, or something else.                               *)
(***************************************************************************)
EXTENDS PacketObjects

MCRecords == { [ id |-> "long", size |-> 17, back |-> "whole" ],
               [ id |-> "bad", size |-> NoData, back |-> "whole" ],
               [ id |-> "wrong", size |-> 9, back |-> "lost" ],
               [ id |-> "source", size |-> 9, back |-> "other" ] }

Filled(pt, rte, ena, key, size) ==
  [ head |-> [ prv |-> 1, pt |-> pt, rte |-> rte, ena |-> ena ], key |-> key, resp |-> 1,
    sig |-> [ size |-> size, data |-> size ] ]

MCFills == { Filled(PT_APPDATA, FALSE, 1, "key", 0),
             Filled(PT_APPDATA, TRUE, 0, ZeroKey, 0),
             Filled(PT_RESPONCE, FALSE, 2, ZeroKey, 0),
             Filled(PT_SIGNED_APPDATA, FALSE, 1, "key", 2),
             Filled(3, FALSE, 0, ZeroKey, 0) }

MCNoiseHeads == { [ prv |-> 0, pt |-> 1, rte |-> FALSE, ena |-> 0 ] }

Same == Permutations(Packets)
=============================================================================
