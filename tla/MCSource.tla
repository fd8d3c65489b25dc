------------------------------ MODULE MCSource ------------------------------
(***************************************************************************)
(* The media stream source for TLC: an uncompressed audio stream beside an *)
(* H.264 video stream.                                                     *)
(***************************************************************************)
EXTENDS SourceProperties

CONSTANTS audio, video

AudioAndVideo == { audio, video }
AudioOnly     == { audio }
(* The first time is negative, and a time comes before an earlier one. *)
Times         == << -1, 2, 1, 3 >>
AllOutcomes   ==
  [s \in AudioAndVideo |-> IF s = audio THEN { "ok", "damaged", "partial" }
                           ELSE { "ok", "unwritable" }]
WritableOutcomes ==
  [s \in AudioAndVideo |-> IF s = audio THEN { "ok", "damaged", "partial" } ELSE { "ok" }]
=============================================================================
