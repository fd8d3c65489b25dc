---------------------------- MODULE MCLifecycle ----------------------------
(***************************************************************************)
(* The decoder's life cycle for TLC: the other constants are in the .cfg   *)
(* file, with the discipline of a pipeline.                                *)
(***************************************************************************)
EXTENDS LifecycleProperties

(* Memory of which only the internal count and the flag of a finished shutdown must be zero. *)
LuckyMemory ==
  [refCount : 0 .. 1, intRefCount : { 0 }, shutdownStarted : BOOLEAN, shutdown : { FALSE }]
=============================================================================
