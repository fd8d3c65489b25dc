------------------------------ MODULE NalUnits ------------------------------
(***************************************************************************)
(* H264AVCSampleProvider::WriteAVPacketToStream: the parameter sets of the *)
(* codec's extradata before a key frame, and then the packet, a sequence   *)
(* of NAL units each with its length before it, unit by unit with a start  *)
(* code instead.  One step is one turn of WriteNALPacket's loop.           *)
(*                                                                         *)
(* Base is the number of values of a byte, 256 in the code; a length has   *)
(* four bytes and the arithmetic is modulo Base^4.  Positions count from   *)
(* 0; what is written is known by where it is in its source.               *)
(***************************************************************************)
EXTENDS Integers, Sequences

CONSTANTS
  Base,
  Packets,    (* the packets of frames                                       *)
  KeyFrames,  (* the packets of key frames                                   *)
  ExtraData   (* the codec's extradata, << >> for null                       *)

Width  == Base * Base * Base * Base
Byte   == 0 .. Base - 1

ASSUME NalAssumption ==
  /\ Base \in Nat \ { 0, 1 }
  /\ Packets \cup KeyFrames \cup ExtraData \subseteq Seq(Byte)
  /\ \A p \in Packets \cup KeyFrames : 2 * Len(p) < Width

VARIABLES
  data, extra, keyFrame,  (* the packet, the extradata, AV_PKT_FLAG_KEY      *)
  index,                  (* where WriteNALPacket is in the packet           *)
  sets, units,            (* the parameter sets and units written            *)
  nalResult,              (* hr                                              *)
  stage                   (* "idle", "sets", "units" or "done"               *)

nalVars == << data, extra, keyFrame, index, sets, units, nalResult, stage >>

NalInit ==
  /\ data = << >> /\ extra = << >> /\ keyFrame = FALSE
  /\ index = 0 /\ sets = << >> /\ units = { }
  /\ nalResult = "S_OK" /\ stage = "idle"

(* FFmpeg pads packets and extradata with zeros. *)
ByteAt(s, i) == IF i < Len(s) THEN s[i + 1] ELSE 0

Word(s, i) ==
  ((ByteAt(s, i) * Base + ByteAt(s, i + 1)) * Base + ByteAt(s, i + 2)) * Base + ByteAt(s, i + 3)

BeginPacket ==
  /\ stage = "idle"
  /\ \/ keyFrame' = FALSE /\ data' \in Packets /\ extra' = << >> /\ stage' = "units"
     \/ keyFrame' = TRUE /\ data' \in KeyFrames /\ extra' \in ExtraData /\ stage' = "sets"
  /\ UNCHANGED << index, sets, units, nalResult >>

(***************************************************************************)
(* GetSPSAndPPSBuffer: one sequence and one picture parameter set, each    *)
(* with a length before it, of which the low byte is read.                 *)
(***************************************************************************)
SpsLength(x) == ByteAt(x, 7)
PpsLength(x) == ByteAt(x, 8 + SpsLength(x) + 2)

(* Mutant: the byte before the length is taken for it. *)
ParameterSetsAtOneBefore(x) ==
  LET sps == << 8, SpsLength(x) >>
      pps == << 8 + SpsLength(x) + 2, ByteAt(x, 8 + SpsLength(x) + 1) >>
  IN IF x = << >> \/ Len(x) < sps[1] + sps[2] THEN << >>
     ELSE IF Len(x) < sps[1] + sps[2] + 3 \/ Len(x) < pps[1] + pps[2] THEN << sps >>
     ELSE << sps, pps >>

ParameterSets(x) ==
  LET sps == << 8, SpsLength(x) >>
      pps == << 8 + SpsLength(x) + 3, PpsLength(x) >>
  IN IF x = << >> \/ Len(x) < sps[1] + sps[2] THEN << >>
     ELSE IF Len(x) < sps[1] + sps[2] + 3 \/ Len(x) < pps[1] + pps[2] THEN << sps >>
     ELSE << sps, pps >>

WriteSets ==
  /\ stage = "sets"
  /\ sets' = ParameterSets(extra)
  /\ IF Len(sets') = 2
     THEN stage' = "units" /\ UNCHANGED nalResult
     ELSE stage' = "done" /\ nalResult' = "E_FAIL"
  /\ UNCHANGED << data, extra, keyFrame, index, units >>

(***************************************************************************)
(* One turn of WriteNALPacket: a length and its unit, if both are there.   *)
(***************************************************************************)
FitsIfNoWrap(i, n) == ~(Len(data) < (i + n) % Width) (* mutant *)
UnitFits(i, n) == ~(Len(data) < (i + n) % Width) /\ ~(Width - 1 - i < n)

WriteUnitShort == (* mutant: the loop ends a byte early *)
  LET i == (index + 4) % Width
      n == Word(data, index)
  IN /\ stage = "units"
     /\ IF Len(data) < i \/ ~UnitFits(i, n)
        THEN nalResult' = "E_FAIL" /\ stage' = "done" /\ UNCHANGED << units, index >>
        ELSE /\ units' = units \cup { << i, n >> }
             /\ index' = (i + n) % Width
             /\ stage' = IF index' + 1 < Len(data) THEN "units" ELSE "done"
             /\ UNCHANGED nalResult
     /\ UNCHANGED << data, extra, keyFrame, sets >>

WriteUnit ==
  LET i == (index + 4) % Width
      n == Word(data, index)
  IN /\ stage = "units"
     /\ IF Len(data) < i \/ ~UnitFits(i, n)
        THEN nalResult' = "E_FAIL" /\ stage' = "done" /\ UNCHANGED << units, index >>
        ELSE /\ units' = units \cup { << i, n >> }
             /\ index' = (i + n) % Width
             /\ stage' = IF index' < Len(data) THEN "units" ELSE "done"
             /\ UNCHANGED nalResult
     /\ UNCHANGED << data, extra, keyFrame, sets >>

(* The result is returned and the next call starts afresh. *)
EndPacket ==
  /\ stage = "done"
  /\ data' = << >> /\ extra' = << >> /\ keyFrame' = FALSE
  /\ index' = 0 /\ sets' = << >> /\ units' = { }
  /\ nalResult' = "S_OK" /\ stage' = "idle"

NalNext == BeginPacket \/ WriteSets \/ WriteUnit \/ EndPacket

NalSpec == NalInit /\ [][NalNext]_nalVars /\ WF_nalVars(WriteSets \/ WriteUnit)

-----------------------------------------------------------------------------
NalTypeOK ==
  /\ data \in Seq(Byte) /\ extra \in Seq(Byte) /\ keyFrame \in BOOLEAN
  /\ index \in 0 .. Width - 1
  /\ \A s \in units \cup { sets[k] : k \in DOMAIN sets } : s \in Nat \X Nat
  /\ nalResult \in { "S_OK", "E_FAIL" }
  /\ stage \in { "idle", "sets", "units", "done" }

(* Reference: from position i the bytes are units with their lengths, one after another. *)
WholeUnits(p) ==
  LET whole[i \in 0 .. Len(p)] ==
        \/ i = Len(p)
        \/ /\ i + 4 <= Len(p)
           /\ i + 4 + Word(p, i) <= Len(p)
           /\ whole[i + 4 + Word(p, i)]
  IN p # << >> /\ whole[0]

(***************************************************************************)
(* WriteNALPacket reads nothing outside the packet and no byte twice:      *)
(* each byte it has passed belongs to one length or one unit.  This is     *)
(* where sums of 32 bits may wrap.                                         *)
(***************************************************************************)
EachByteOnce ==
  /\ \A u \in units : u[1] + u[2] <= Len(data)
  /\ \A b \in 0 .. index - 1 :
       \E u \in units : /\ u[1] - 4 <= b /\ b < u[1] + u[2]
                        /\ \A v \in units \ { u } : b < v[1] - 4 \/ v[1] + v[2] <= b

(***************************************************************************)
(* A packet is accepted when it is whole units from its beginning to its   *)
(* end, after the parameter sets if it is a key frame, and then all of it  *)
(* has been written (WriteNALPacket's checks and its do-while loop).       *)
(***************************************************************************)
WholePacketsAccepted ==
  stage = "done" =>
    /\ nalResult = "S_OK" <=> WholeUnits(data) /\ (keyFrame => Len(sets) = 2)
    /\ nalResult = "S_OK" => index = Len(data)

(***************************************************************************)
(* Reference: the parameter sets by their two-byte lengths.  Both are      *)
(* written, from their first byte to their last, when they are all there   *)
(* (GetSPSAndPPSBuffer reads the low byte of each length only, so the sets *)
(* of the extradata must be shorter than Base).                            *)
(***************************************************************************)
ParameterSetsExact ==
  keyFrame /\ stage # "sets" =>
    LET sps == ByteAt(extra, 6) * Base + ByteAt(extra, 7)
        pps == ByteAt(extra, 8 + sps + 1) * Base + ByteAt(extra, 8 + sps + 2)
    IN IF Len(extra) >= 11 + sps /\ Len(extra) >= 11 + sps + pps
       THEN sets = << << 8, sps >>, << 11 + sps, pps >> >>
       ELSE Len(sets) < 2

(* Every packet comes to an end: the loop always moves on, whatever the lengths are. *)
EveryPacketEnds == (stage = "units") ~> (stage = "done")
=============================================================================
