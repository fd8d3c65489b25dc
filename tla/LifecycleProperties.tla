------------------------ MODULE LifecycleProperties ------------------------
(***************************************************************************)
(* What the decoder must keep to while several threads use it.             *)
(***************************************************************************)
EXTENDS DecoderLifecycle

(***************************************************************************)
(* The discipline of a pipeline, which the decoder depends on.  It makes   *)
(* one call of input, output, message, type and shutdown at a time, except *)
(* that a message may come while another is handled or while output is     *)
(* taken that announces no format change.  It handles events at any time   *)
(* but during a shutdown, takes and gives back references at any time, and *)
(* ends with a shutdown: only calls that check for it, and types, may come *)
(* later.                                                                  *)
(***************************************************************************)
Pipeline ==
  { { "message", c } : c \in { "message", "output" } }
  \cup { { "event", c } : c \in Calls \ { "shutdown" } }
  \cup { { r, c } : r \in { "addref", "release" }, c \in Calls }

ShutdownIsFinal == { "input", "type", "event", "addref", "release", "shutdown" }

Disciplined == Together \subseteq Pipeline /\ AfterShutdown \subseteq ShutdownIsFinal

(***************************************************************************)
(* The counts do not come to zero early: what was in their memory, read as *)
(* signed numbers, is not negative.  Nothing in the code sees to it.       *)
(***************************************************************************)
CountsNotNegative == \A m \in Memory : m.refCount >= 0 /\ m.intRefCount >= 0

Places ==
  { "idle", "accepted", "decoding", "output", "rebuilding", "waiting", "message", "type",
    "closing", "marking", "disposing", "shutdown", "addref", "internal" } \cup EventCalls

(* Every variable keeps its type: the counts never go below zero. *)
TypeOK ==
  /\ call \in [Threads -> Calls \cup { "none", "destroy" }]
  /\ at \in [Threads -> Places]
  /\ lock \in Threads \cup { NoThread }
  /\ owner \in [References -> Threads \cup { NoThread }]
  /\ token \in [Threads -> References \cup { NoReference }]
  /\ refCount \in Nat /\ intRefCount \in Nat
  /\ shutdownStarted \in BOOLEAN /\ shutdown \in BOOLEAN
  /\ eventQueue \in { "open", "released" } /\ pending \in BOOLEAN
  /\ context \in [live : BOOLEAN, codec : BOOLEAN, samples : BOOLEAN, announce : BOOLEAN]
  /\ formatChange \in BOOLEAN /\ draining \in BOOLEAN
  /\ destroyed \in BOOLEAN /\ clash \in BOOLEAN

(***************************************************************************)
(* No thread uses a context that another has deleted, or a codec, sample   *)
(* queue or media type that another is in the middle of changing: the lock *)
(* keeps ProcessMessage out of ProcessOutput's rebuild and out of another  *)
(* ProcessMessage, Together the calls that work without it apart.          *)
(***************************************************************************)
ContextUndisturbed == ~clash

(* No event method and no second Shutdown gets at the event queue after it was released. *)
EventQueueAlive ==
  \A t \in Threads :
    at[t] \in EventCalls \cup { "closing" } /\ call[t] # "none" => eventQueue = "open"

(***************************************************************************)
(* The decoder is deleted once and last: by the thread that gave back the  *)
(* last reference, with no other in a call, and shut down, its queue       *)
(* released and its context deleted unless the flag said so from the       *)
(* beginning.  Release counts twice, with Shutdown between.                *)
(***************************************************************************)
DestroyedLast ==
  /\ destroyed \/ (\E t \in Threads : call[t] = "destroy") =>
       /\ \A r \in References : owner[r] = NoThread
       /\ \E t \in Threads :
            /\ call[t] \in { "none", "destroy" }
            /\ \A u \in Threads \ { t } : call[u] = "none"
  /\ destroyed => shutdown
  /\ destroyed /\ (\A m \in Memory : ~m.shutdown) =>
       eventQueue = "released" /\ ~context.live

(* Whoever has the lock gives it back: no call keeps it or waits for ever with it. *)
LockFreed == (lock # NoThread) ~> (lock = NoThread)

(* When every reference has been given back the decoder is deleted in the end. *)
NoLeak == (\A r \in References : owner[r] = NoThread) ~> destroyed
=============================================================================
