----------------------------- MODULE MCDecoder -----------------------------
(***************************************************************************)
(* The decoder MFT for TLC: the runs differ in their constants.            *)
(***************************************************************************)
EXTENDS DecoderProperties

(* What may fail in each run. *)
NoFailures   == { }
CodecTrouble == { "params", "convert", "packet", "decode", "media", "copy" }
=============================================================================
