-------------------------- MODULE MCSubrecordCodec --------------------------
(***************************************************************************)
(* Objects for SubrecordCodec: every class with every combination of its   *)
(* presence bits, its lists below, at and above the capacity of a counter, *)
(* and data at the lengths at which the code decides something.            *)
(***************************************************************************)
EXTENDS SubrecordCodec

(* 8 and 9 bits are more than has to be counted; lbsn has its three bits. *)
MCCapacity == [ sd |-> 2, ad |-> 4, rt |-> 2, station |-> 8, event |-> 2 ]

Object(c, flags, var, list) == [ class |-> c, flags |-> flags, var |-> var, list |-> list ]
Elem(size, flags, id) == [ size |-> size, flags |-> flags, id |-> id ]
Sized(sizes) == [ i \in DOMAIN sizes |-> Elem(sizes[i], {}, 0) ]
Lists(elems, n) == UNION { [ 1 .. k -> elems ] : k \in 0 .. n }

Commands ==
  { Object("TCommandData", flags \cup ct, var, Sized(<<acl>>)) :
      flags \in SUBSET {"chsfe", "acfe"}, ct \in { {}, {"COM"}, {"COMCONF"} },
      var \in {0, 1, 3, 65520, 65530}, acl \in {0, 2} }

ECall ==
  { Object("TECallRawMSD", {}, var, << >>) : var \in {0, 1, 16, 65534, 65535} }
    \cup { Object("TECallMSD", flags, var, << >>) :
             flags \in SUBSET {"nop", "lond2", "latd2", "lond1", "latd1"},
             var \in {0, 1, 56, 57} }

Europrotocol ==
  { Object("TEPCompData", {}, var, << >>) : var \in {0, 1, 7} }
    \cup { Object("TEPSignature", {}, 0, l) : l \in Lists({ Elem(s, {}, 0) : s \in {0, 1, 72} }, 3) }
    \cup { Object("TEPAccelData3", {}, 0, l) :
             l \in Lists({ Elem(0, f, 0) : f \in { {}, {"rst"} } }, 5) }
    \cup { Object("TEPTrackData", flags, 0, l) : flags \in { {}, {"tde"} },
             l \in Lists({ Elem(0, f, 0) : f \in SUBSET {"rst", "spde", "alte"} }, 2) }
    \cup { Object("TEPMainData", flags, 0, Sized(<<stations, events>>)) :
             flags \in { {}, {"locp"} }, stations \in {0, 1, 7, 8, 9}, events \in 0 .. 3 }

Auth ==
  { Object(c, flags, 0, << >>) : c \in {"TTermIdent", "TTermIdent2"},
      flags \in SUBSET {"hdide", "imeie", "imsie", "lngce", "bse", "mne", "icce"} }
    \cup { Object("TTermIdent", {"nide"}, 0, << >>) }
    \cup { Object("TDispIdent", {}, var, << >>) : var \in {0, 1, 253, 254, 255, 256, 300} }
    \cup { Object("TAuthInfo", {}, 0, Sized(<<a, b, c>>)) : a, b, c \in {0, 1, 4} }
    \cup { Object(c, {}, 0, << >>) : c \in DOMAIN BodySize }

Telematics ==
  { Object("TInsAccel", flags, var, Sized(<<a, 15, 31>>)) :
      flags \in SUBSET {"first", "raw"}, var \in {0, 1, 2, 5, 65530}, a \in {0, 7, 8} }
    \cup { Object("TPlusData", {}, var, << >>) : var \in {0, 1, 16} }
    \cup { Object("TPosData", flags, 0, Sized(<<src>>)) : flags \in { {}, {"alte"} }, src \in 0 .. 3 }
    \cup { Object("TExtPosData", flags, 0, << >>) : flags \in SUBSET {"vfe", "hfe", "pfe", "sfe", "nsfe"} }
    \cup { Object("TAdSensors", {}, 0, [ i \in 1 .. 3 |-> Elem(0, f[i], 3 * i - 2) ]) :
             f \in [ 1 .. 3 -> SUBSET {"din", "ain"} ] }
    \cup { Object("TCounters", {}, 0, [ i \in 1 .. 3 |-> Elem(0, f[i], 3 * i - 3) ]) :
             f \in [ 1 .. 3 -> SUBSET {"cnt"} ] }
    \cup { Object("TLiquidLevel", {}, var, << >>) : var \in {0, 1, 512, 513} }
    \cup { Object("TPassengers", {}, 0, l) : l \in Lists({ Elem(0, {"door"}, d) : d \in {0, 3, 7} }, 3) }

MCObjects == Commands \cup ECall \cup Europrotocol \cup Auth \cup Telematics
=============================================================================
