--------------------------- MODULE MCConversions ----------------------------
(***************************************************************************)
(* The conversions for TLC, with bytes of three values in packets and of   *)
(* five in the Vorbis header, whose sizes are on both sides of the top     *)
(* byte, 4, and of those with a top byte in the second place (20 .. 24),   *)
(* the third (100 .. 119) or both (120 .. 124).                            *)
(***************************************************************************)
EXTENDS Conversions

SomeSizes     == 0 .. 2
AnySizes      == { 0, 1, 3, 4, 5, 20, 24, 25, 100, 124 }
AllStamped    == { TRUE }
NeverOut      == { FALSE }

Bytes(n) == [1 .. n -> 0 .. Base - 1]

(* Every packet of up to six bytes, and a whole unit with any length and up to two bytes after it. *)
OneUnit  == UNION { Bytes(n) : n \in 0 .. 6 }
TwoUnits ==
  { << 0, 0, 0, n >> \o [i \in 1 .. n |-> 1] \o length \o [i \in 1 .. rest |-> 1] :
    n \in 0 .. Base - 1, length \in Bytes(4), rest \in 0 .. 2 }
AllPackets == OneUnit \cup TwoUnits

(* A good packet and one that is cut off. *)
SomeKeyFrames == { << 0, 0, 0, 1, 2 >>, << 0, 0, 0, 1 >> }

(* Extradata with both sets shorter than Base, whole and cut off anywhere. *)
Avcc(sps, pps, b) ==
  << 1, 0, 0, 0, 0, 1, 0, sps >> \o [i \in 1 .. sps |-> b]
    \o << 1, 0, pps >> \o [i \in 1 .. pps |-> b]

AllExtraData ==
  UNION { LET x == Avcc(sps, pps, b) IN { SubSeq(x, 1, n) : n \in 0 .. Len(x) } :
          sps, pps, b \in 0 .. Base - 1 }
=============================================================================
