-------------------------- MODULE DecoderLifecycle --------------------------
(***************************************************************************)
(* The decoder as several threads use it: which steps of a call run under  *)
(* the lock _pcsLock and which do not, the shutdown of the decoder, its    *)
(* two reference counts and its end (DecoderBase.cpp, DecoderBase.h and    *)
(* the calls of FFmpegDecoderMFT.cpp).  A step is what runs between two    *)
(* places where another thread may come in and be noticed; a call that is  *)
(* refused or that only reads changes nothing here and is left out.        *)
(*                                                                         *)
(* Much of the decoder is not locked, so it relies on its client: Together *)
(* says which calls of different threads may be in progress at the same    *)
(* time, AfterShutdown which calls the client still makes once Shutdown    *)
(* has begun.                                                              *)
(***************************************************************************)
EXTENDS Integers, FiniteSets

CONSTANTS
  Threads, References, (* threads, and references to the decoder            *)
  Together,            (* pairs (or singletons) of calls that may overlap   *)
  AfterShutdown,       (* calls still made when Shutdown has begun          *)
  EventCalls,          (* the calls made of the event queue                 *)
  Memory,              (* what may be in the memory the decoder is made in  *)
  NoThread, NoReference

Calls ==
  { "input", "output", "change", "message", "type", "event", "shutdown", "addref", "release" }

ASSUME LifecycleAssumption ==
  /\ IsFiniteSet(References)
  /\ NoThread \notin Threads /\ NoReference \notin References
  /\ Together \subseteq SUBSET Calls /\ AfterShutdown \subseteq Calls
  /\ EventCalls \subseteq { "queue", "get", "wait" }
  /\ Memory \subseteq [refCount : Int, intRefCount : Int,
                       shutdownStarted : BOOLEAN, shutdown : BOOLEAN]

VARIABLES
  call,            (* the call a thread is in, or "none"                     *)
  at,              (* where it is in that call                               *)
  lock,            (* the owner of _pcsLock                                  *)
  owner,           (* history: the thread that holds a reference             *)
  token,           (* history: the reference a thread takes or gives back    *)
  refCount, intRefCount,     (* _ulRefCount, _ulIntRefCount                  *)
  shutdownStarted, shutdown, (* _bShutdownStarted, _bShutdown                *)
  eventQueue,      (* the object of _spEventQueue: "open" or "released"      *)
  pending,         (* an event is in it                                      *)
  context,         (* the object of _pContext                                *)
  formatChange, draining,    (* _bFormatChange, _bDraining                   *)
  destroyed,       (* the decoder has been deleted                           *)
  clash            (* history: a thread used what another deletes or changes *)

threads    == << call, at >>
references == << owner, token, refCount, intRefCount >>
ending     == << shutdownStarted, shutdown, eventQueue, destroyed >>
flags      == << formatChange, draining >>
vars       == << threads, lock, references, ending, pending, context, flags, clash >>

(***************************************************************************)
(* A context is deleted or not, has a codec or not, has samples queued or  *)
(* not, and may have a format change to announce.                          *)
(***************************************************************************)
NewContext == [live |-> TRUE, codec |-> FALSE, samples |-> FALSE, announce |-> FALSE]

(***************************************************************************)
(* CreateInstance has made the decoder and given the first reference to a  *)
(* thread.  The constructor sets neither the counts, to which it adds its  *)
(* reference, nor the flags of the shutdown: they are what was in memory.  *)
(***************************************************************************)
LifecycleInit ==
  /\ call = [t \in Threads |-> "none"] /\ at = [t \in Threads |-> "idle"]
  /\ lock = NoThread
  /\ \E t \in Threads, r \in References :
       owner = [q \in References |-> IF q = r THEN t ELSE NoThread]
  /\ token = [t \in Threads |-> NoReference]
  /\ \E m \in Memory :
       /\ refCount = m.refCount + 1 /\ intRefCount = m.intRefCount + 1
       /\ shutdownStarted = m.shutdownStarted /\ shutdown = m.shutdown
  /\ eventQueue = "open" /\ pending = FALSE
  /\ context = NewContext
  /\ formatChange = FALSE /\ draining = FALSE
  /\ destroyed = FALSE
  /\ clash = FALSE

-----------------------------------------------------------------------------
(* A Shutdown has got past its check. *)
Begun == eventQueue = "released" \/ \E u \in Threads : at[u] = "closing"

(* The client's side: who calls holds a reference, and keeps to the discipline. *)
MayCall(t, c) ==
  /\ call[t] = "none"
  /\ \E r \in References : owner[r] = t
  /\ Begun => c \in AfterShutdown
  /\ \A u \in Threads \ { t } : call[u] # "none" => { c, call[u] } \in Together

Enters(t, c, place) ==
  /\ MayCall(t, c)
  /\ call' = [call EXCEPT ![t] = c]
  /\ at' = [at EXCEPT ![t] = place]

Goes(t, place) == at' = [at EXCEPT ![t] = place] /\ UNCHANGED call
Leaves(t)      == at' = [at EXCEPT ![t] = "idle"] /\ call' = [call EXCEPT ![t] = "none"]

Unlocked == lock = NoThread

(* Another thread is at one of these places. *)
Meets(t, places) == \E u \in Threads \ { t } : at[u] \in places

(* A step uses a deleted context, or what another thread is in the middle of changing. *)
Clashes(bad) == clash' = (clash \/ bad)

-----------------------------------------------------------------------------
(* ProcessInput: the checks are made under the lock, the rest is not. *)
BeginInput(t) ==
  /\ Enters(t, "input", "accepted")
  /\ Unlocked
  /\ ~shutdown /\ ~draining /\ ~formatChange
  /\ UNCHANGED << lock, references, ending, pending, context, flags, clash >>

(* The context is initialised with the current types, unless it was before. *)
StartDecode(t) ==
  /\ at[t] = "accepted"
  /\ Clashes(~context.live \/ Meets(t, { "type", "decoding" }))
  /\ \E codec, announce \in BOOLEAN :
       context' = IF context.codec THEN context
                  ELSE [context EXCEPT !.codec = codec, !.announce = announce]
  /\ Goes(t, "decoding")
  /\ UNCHANGED << lock, references, ending, pending, flags >>

(* Initialize, PacketFromSample or Decode has failed, or samples were queued. *)
EndInput(t) ==
  /\ at[t] = "decoding"
  /\ \E more \in BOOLEAN : context' = [context EXCEPT !.samples = @ \/ more]
  /\ Leaves(t)
  /\ UNCHANGED << lock, references, ending, pending, flags, clash >>

(***************************************************************************)
(* ProcessOutput: a format change of the context is announced, the output  *)
(* type copied and released, without the lock.  For the client it is a     *)
(* call of its own, "change".                                              *)
(***************************************************************************)
StreamChange(t) ==
  /\ MayCall(t, "change")
  /\ context.announce
  /\ Clashes(~context.live \/ Meets(t, { "type", "decoding", "message" }))
  /\ context' = [context EXCEPT !.announce = FALSE]
  /\ UNCHANGED << threads, lock, references, ending, pending, flags >>

BeginOutput(t) ==
  /\ Enters(t, "output", "output")
  /\ ~context.announce
  /\ Clashes(~context.live)
  /\ UNCHANGED << lock, references, ending, pending, context, flags >>

(***************************************************************************)
(* Under the lock a sample is taken; with none left a drain ends, and a    *)
(* context of old types is deleted, to be made anew.                       *)
(***************************************************************************)
TakeOutput(t) ==
  /\ at[t] = "output" /\ Unlocked
  /\ \E more \in BOOLEAN :
       /\ more => context.samples
       /\ draining' = (draining /\ more)
       /\ IF formatChange /\ ~more
          THEN /\ context' = [context EXCEPT !.samples = FALSE, !.live = FALSE]
               /\ Clashes(~context.live \/ Meets(t, { "decoding", "message" }))
               /\ lock' = t
               /\ Goes(t, "rebuilding")
          ELSE /\ context' = [context EXCEPT !.samples = more]
               /\ Clashes(~context.live \/ Meets(t, { "decoding" }))
               /\ UNCHANGED lock
               /\ Leaves(t)
  /\ UNCHANGED << references, ending, pending, formatChange >>

Rebuild(t) ==
  /\ at[t] = "rebuilding"
  /\ context' = NewContext
  /\ formatChange' = FALSE
  /\ lock' = NoThread
  /\ Leaves(t)
  /\ UNCHANGED << references, ending, pending, draining, clash >>

-----------------------------------------------------------------------------
(***************************************************************************)
(* ProcessMessage waits for the lock and has it until it returns.  It does *)
(* not look whether the decoder was shut down in between.                  *)
(***************************************************************************)
CallMessage(t) ==
  /\ Enters(t, "message", "waiting")
  /\ UNCHANGED << lock, references, ending, pending, context, flags, clash >>

BeginMessageUnlocked(t) == (* mutant *)
  /\ at[t] = "waiting"
  /\ lock' = t
  /\ Clashes(~context.live)
  /\ Goes(t, "message")
  /\ UNCHANGED << references, ending, pending, context, flags >>

BeginMessage(t) ==
  /\ at[t] = "waiting"
  /\ Unlocked /\ lock' = t
  /\ Clashes(~context.live)
  /\ Goes(t, "message")
  /\ UNCHANGED << references, ending, pending, context, flags >>

(* START_OF_STREAM, FLUSH and DRAIN free the codec, with the types, and make another. *)
EndMessage(t) ==
  /\ at[t] = "message"
  /\ \E m \in { "start", "flush", "drain", "end" } :
       IF m = "start" \/ (context.codec /\ m # "end")
       THEN /\ Clashes(Meets(t, { "type", "decoding" }))
            /\ context' = [context EXCEPT !.samples = @ /\ m = "drain"]
            /\ draining' = (draining \/ m = "drain")
       ELSE UNCHANGED << clash, context, draining >>
  /\ lock' = NoThread
  /\ Leaves(t)
  /\ UNCHANGED << references, ending, pending, formatChange >>

(* SetInputType, SetOutputType: the type is released, and may be replaced, without the lock. *)
BeginType(t) ==
  /\ Enters(t, "type", "type")
  /\ Clashes(Meets(t, { "type" }))
  /\ UNCHANGED << lock, references, ending, pending, context, flags >>

EndType(t) ==
  /\ at[t] = "type"
  /\ \E replaced \in BOOLEAN : formatChange' = (formatChange \/ replaced)
  /\ Leaves(t)
  /\ UNCHANGED << lock, references, ending, pending, context, draining, clash >>

(***************************************************************************)
(* QueueEvent, GetEvent and BeginGetEvent with EndGetEvent hold the lock   *)
(* while they are in the event queue, GetEvent also while it waits.        *)
(***************************************************************************)
BeginEvent(t) ==
  /\ \E e \in EventCalls : Enters(t, "event", e)
  /\ Unlocked /\ lock' = t
  /\ ~shutdown
  /\ UNCHANGED << references, ending, pending, context, flags, clash >>

EndEventLocked(t) == (* mutant: an empty queue is an early return *)
  /\ at[t] \in EventCalls
  /\ at[t] = "wait" => pending
  /\ pending' = (at[t] = "queue")
  /\ lock' = IF pending \/ at[t] = "queue" THEN NoThread ELSE lock
  /\ Leaves(t)
  /\ UNCHANGED << references, ending, context, flags, clash >>

EndEvent(t) ==
  /\ at[t] \in EventCalls
  /\ at[t] = "wait" => pending
  /\ pending' = (at[t] = "queue")
  /\ lock' = NoThread
  /\ Leaves(t)
  /\ UNCHANGED << references, ending, context, flags, clash >>

-----------------------------------------------------------------------------
(* Shutdown's first critical section: a client's call, and the calls of Release and ~DecoderBase. *)
BeginShutdown(t) ==
  /\ Enters(t, "shutdown", "closing")
  /\ Unlocked
  /\ ~shutdown
  /\ shutdownStarted' = TRUE
  /\ UNCHANGED << lock, references, shutdown, eventQueue, destroyed, pending,
                  context, flags, clash >>

(* What follows a Shutdown: the rest of Release, or the end of the destructor. *)
Resume(t) ==
  \/ call[t] = "shutdown" /\ Leaves(t) /\ UNCHANGED destroyed
  \/ call[t] = "release" /\ Goes(t, "internal") /\ UNCHANGED destroyed
  \/ call[t] = "destroy" /\ Leaves(t) /\ destroyed' = TRUE

CheckShutdown(t) ==
  /\ at[t] = "shutdown" /\ Unlocked
  /\ IF shutdown
     THEN Resume(t) /\ UNCHANGED shutdownStarted
     ELSE Goes(t, "closing") /\ shutdownStarted' = TRUE /\ UNCHANGED destroyed
  /\ UNCHANGED << lock, references, shutdown, eventQueue, pending, context, flags, clash >>

(* Between its critical sections: the event queue is shut down and released. *)
CloseQueue(t) ==
  /\ at[t] = "closing"
  /\ eventQueue' = "released"
  /\ Goes(t, "marking")
  /\ UNCHANGED << lock, references, shutdownStarted, shutdown, destroyed, pending,
                  context, flags, clash >>

MarkShutdownStartedOnly(t) == (* mutant *)
  /\ at[t] = "marking" /\ Unlocked
  /\ shutdownStarted' = TRUE
  /\ Goes(t, "disposing")
  /\ UNCHANGED << lock, references, shutdown, eventQueue, destroyed, pending,
                  context, flags, clash >>

MarkShutdown(t) ==
  /\ at[t] = "marking" /\ Unlocked
  /\ shutdown' = TRUE
  /\ Goes(t, "disposing")
  /\ UNCHANGED << lock, references, shutdownStarted, eventQueue, destroyed, pending,
                  context, flags, clash >>

(* After them: the types are released and the context is deleted. *)
Dispose(t) ==
  /\ at[t] = "disposing"
  /\ context' = [context EXCEPT !.live = FALSE]
  /\ Clashes(~context.live \/ Meets(t, { "type", "decoding", "message" }))
  /\ Resume(t)
  /\ UNCHANGED << lock, references, shutdownStarted, shutdown, eventQueue, pending, flags >>

-----------------------------------------------------------------------------
(* AddRef and Release: two counts, each changed by an atomic instruction. *)
BeginAddRef(t) ==
  /\ Enters(t, "addref", "addref")
  /\ \E r \in References :
       /\ owner[r] = NoThread /\ \A u \in Threads : token[u] # r
       /\ token' = [token EXCEPT ![t] = r]
  /\ intRefCount' = intRefCount + 1
  /\ UNCHANGED << lock, owner, refCount, ending, pending, context, flags, clash >>

EndAddRefInternalOnly(t) == (* mutant *)
  /\ at[t] = "addref"
  /\ \E u \in Threads : owner' = [owner EXCEPT ![token[t]] = u]
  /\ token' = [token EXCEPT ![t] = NoReference]
  /\ Leaves(t)
  /\ UNCHANGED << lock, refCount, intRefCount, ending, pending, context, flags, clash >>

(* The new reference may be for another thread. *)
EndAddRef(t) ==
  /\ at[t] = "addref"
  /\ refCount' = refCount + 1
  /\ \E u \in Threads : owner' = [owner EXCEPT ![token[t]] = u]
  /\ token' = [token EXCEPT ![t] = NoReference]
  /\ Leaves(t)
  /\ UNCHANGED << lock, intRefCount, ending, pending, context, flags, clash >>

(* Whoever gives the last reference back shuts the decoder down first, unless that has begun. *)
BeginRelease(t) ==
  /\ \E r \in References :
       /\ owner[r] = t
       /\ owner' = [owner EXCEPT ![r] = NoThread]
       /\ token' = [token EXCEPT ![t] = r]
  /\ refCount' = refCount - 1
  /\ Enters(t, "release", IF refCount' = 0 /\ ~shutdownStarted THEN "shutdown" ELSE "internal")
  /\ UNCHANGED << lock, intRefCount, ending, pending, context, flags, clash >>

(* InternalRelease; the destructor calls Shutdown again. *)
ReleaseInternalByRefCount(t) == (* mutant *)
  /\ at[t] = "internal"
  /\ intRefCount' = intRefCount - 1
  /\ token' = [token EXCEPT ![t] = NoReference]
  /\ IF refCount = 0
     THEN call' = [call EXCEPT ![t] = "destroy"] /\ at' = [at EXCEPT ![t] = "shutdown"]
     ELSE Leaves(t)
  /\ UNCHANGED << lock, owner, refCount, ending, pending, context, flags, clash >>

ReleaseInternalBelowZero(t) == (* mutant *)
  /\ at[t] = "internal"
  /\ intRefCount' = intRefCount - 1
  /\ token' = [token EXCEPT ![t] = NoReference]
  /\ IF intRefCount' < 0
     THEN call' = [call EXCEPT ![t] = "destroy"] /\ at' = [at EXCEPT ![t] = "shutdown"]
     ELSE Leaves(t)
  /\ UNCHANGED << lock, owner, refCount, ending, pending, context, flags, clash >>

ReleaseInternal(t) ==
  /\ at[t] = "internal"
  /\ intRefCount' = intRefCount - 1
  /\ token' = [token EXCEPT ![t] = NoReference]
  /\ IF intRefCount' = 0
     THEN call' = [call EXCEPT ![t] = "destroy"] /\ at' = [at EXCEPT ![t] = "shutdown"]
     ELSE Leaves(t)
  /\ UNCHANGED << lock, owner, refCount, ending, pending, context, flags, clash >>

-----------------------------------------------------------------------------
(* The client begins a call, or asks for output and is told of a format change. *)
Begin(t) ==
  \/ BeginInput(t) \/ StreamChange(t) \/ BeginOutput(t) \/ CallMessage(t) \/ BeginType(t)
  \/ BeginEvent(t) \/ BeginShutdown(t) \/ BeginAddRef(t) \/ BeginRelease(t)

(* A call goes on. *)
Continue(t) ==
  \/ StartDecode(t) \/ EndInput(t) \/ TakeOutput(t) \/ Rebuild(t)
  \/ BeginMessage(t) \/ EndMessage(t) \/ EndType(t) \/ EndEvent(t)
  \/ CheckShutdown(t) \/ CloseQueue(t) \/ MarkShutdown(t) \/ Dispose(t)
  \/ EndAddRef(t) \/ ReleaseInternal(t)

LifecycleNext == \E t \in Threads : Begin(t) \/ Continue(t)

LifecycleSpec == LifecycleInit /\ [][LifecycleNext]_vars

(* A thread that is in a call goes on with it; no call need ever be made. *)
FairLifecycle == LifecycleSpec /\ \A t \in Threads : WF_vars(Continue(t))
=============================================================================
