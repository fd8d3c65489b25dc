------------------------------ MODULE MCClient ------------------------------
(***************************************************************************)
(* The decoder MFT and its client for TLC, without failures.               *)
(***************************************************************************)
EXTENDS MFTClient

NoFailures == { }
=============================================================================
