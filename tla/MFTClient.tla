------------------------------ MODULE MFTClient ------------------------------
(***************************************************************************)
(* The decoder MFT with a client that drives it the way the media pipeline *)
(* does: types, START_OF_STREAM, then samples in and samples out; refused  *)
(* input sends it to ProcessOutput until more input is needed; a stream    *)
(* change makes it set the type the decoder suggests; at the end,          *)
(* END_OF_STREAM and DRAIN, and output until none is left.  A seek is      *)
(* FLUSH, also during the drain.  The client changes types and seeks only  *)
(* when no earlier type change waits to be carried through.                *)
(***************************************************************************)
EXTENDS DecoderProperties

CONSTANTS
  MaxSeeks,    (* seeks of a behaviour: a bound of the model                 *)
  MaxChanges   (* new input types in mid-stream: a bound of the model        *)

ASSUME ClientAssumption == MaxSeeks \in Nat /\ MaxChanges \in Nat

VARIABLES
  phase,      (* what the client does next                                  *)
  seeks,      (* seeks made                                                 *)
  changes,    (* input types set                                            *)
  accepted,   (* history: frames of the packets taken in since the last flush *)
  got         (* history: frames delivered since the last flush             *)

clientVars == << vars, phase, seeks, changes, accepted, got >>

Phases ==
  { "input", "output", "start", "feed", "any", "pull", "retype", "ended", "drain", "done" }

(* Between samples: to feed is the only choice after NEED_MORE_INPUT, or any call goes. *)
Playing == phase \in { "feed", "any" }

ChooseInput ==
  /\ phase = "input" \/ Playing
  /\ changes <= MaxChanges
  /\ \E type \in MediaTypes : SetInputType(type)
  /\ changes' = changes + 1
  /\ phase' = "output"
  /\ UNCHANGED << seeks, accepted, got >>

ChooseOutput ==
  /\ phase = "output"
  /\ \E type \in MediaTypes : type.listed /\ SetOutputType(type)
  /\ phase' = IF bStreaming THEN "pull" ELSE "start"
  /\ UNCHANGED << seeks, changes, accepted, got >>

Start ==
  /\ phase = "start"
  /\ StartOfStream
  /\ phase' = "feed" /\ accepted' = << >> /\ got' = << >>
  /\ UNCHANGED << seeks, changes >>

Feed(p) ==
  /\ Playing
  /\ RefuseInput \/ FailInput \/ DecodeInput(p)
  /\ phase' = IF reply'.hr = "MF_E_NOTACCEPTING" THEN "pull" ELSE "any"
  /\ accepted' = IF taken' = taken THEN accepted ELSE accepted \o FramesOf(p)
  /\ UNCHANGED << seeks, changes, got >>

Collect ==
  /\ phase \in { "any", "pull", "drain" }
  /\ OutputCall
  /\ phase' = CASE reply'.hr = "MF_E_TRANSFORM_NEED_MORE_INPUT" ->
                     IF phase = "drain" THEN "done" ELSE "feed"
                [] reply'.hr = "MF_E_TRANSFORM_STREAM_CHANGE" -> "retype"
                [] OTHER -> phase
  /\ got' = IF last' = last THEN got ELSE Append(got, last')
  /\ UNCHANGED << seeks, changes, accepted >>

(* The client takes the type that GetOutputAvailableType now returns. *)
Retype ==
  /\ phase = "retype"
  /\ SetOutputType(suggested)
  /\ phase' = "pull"
  /\ UNCHANGED << seeks, changes, accepted, got >>

Seek ==
  /\ Playing \/ phase = "drain"
  /\ seeks < MaxSeeks
  /\ FlushMessage \/ IgnoredMessage
  /\ reply'.call = "FLUSH"
  /\ seeks' = seeks + 1
  /\ phase' = IF bStreaming THEN "feed" ELSE "start"
  /\ accepted' = << >> /\ got' = << >>
  /\ UNCHANGED changes

End ==
  /\ Playing
  /\ EndOfStream
  /\ phase' = "ended"
  /\ UNCHANGED << seeks, changes, accepted, got >>

DrainOut ==
  /\ phase = "ended"
  /\ Drain \/ IgnoredMessage
  /\ reply'.call = "DRAIN"
  /\ phase' = "drain"
  /\ UNCHANGED << seeks, changes, accepted, got >>

Done == phase = "done" /\ UNCHANGED clientVars

ClientInit ==
  /\ Init
  /\ phase = "input" /\ seeks = 0 /\ changes = 0 /\ accepted = << >> /\ got = << >>

ClientStep ==
  \/ ChooseInput \/ ChooseOutput \/ Start \/ (\E p \in OfferedPackets : Feed(p)) \/ Collect
  \/ Retype \/ Seek \/ End \/ DrainOut

ClientNext == ClientStep \/ Done

(* The client keeps calling: whatever it may do next, it does something. *)
ClientSpec == ClientInit /\ [][ClientNext]_clientVars /\ WF_clientVars(ClientStep)

-----------------------------------------------------------------------------
(***************************************************************************)
(* Every frame of every packet taken in since the last flush is either     *)
(* delivered or still in the decoder, in order: none is lost or repeated   *)
(* by stream changes, new types, the rebuild they cause, or the drain.     *)
(***************************************************************************)
NothingLost == got \o Pipeline(ctx) = accepted

(***************************************************************************)
(* For such a client no call fails: no pointer to a released type is used, *)
(* the helper can be made from the types, and START_OF_STREAM, DRAIN and   *)
(* FLUSH find the context as they need it.                                 *)
(***************************************************************************)
Served ==
  ~crashed /\ reply.hr \in { "none", "S_OK", "S_FALSE", "MF_E_NOTACCEPTING",
                             "MF_E_TRANSFORM_NEED_MORE_INPUT", "MF_E_TRANSFORM_STREAM_CHANGE" }

(***************************************************************************)
(* Every stream ends: refusals of ProcessInput, format changes, and seeks  *)
(* in the middle of a drain never send the client round for ever between   *)
(* NOTACCEPTING and NEED_MORE_INPUT.                                       *)
(***************************************************************************)
EveryStreamEnds == <>(phase = "done")
=============================================================================
