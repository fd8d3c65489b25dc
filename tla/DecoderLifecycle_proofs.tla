---------------------- MODULE DecoderLifecycle_proofs ----------------------
(***************************************************************************)
(* Proofs about the decoder's life cycle, for any number of threads and    *)
(* references and any client that keeps to the discipline of a pipeline.   *)
(***************************************************************************)
EXTENDS LifecycleProperties, FiniteSetTheorems, TLAPS

(* Between the first and the last step of Shutdown, and where Shutdown gets to. *)
Shutting == { "closing", "marking", "disposing" }

(* Two calls of different threads that the discipline lets overlap. *)
Compatible(c, d) ==
  \/ c \in { "addref", "release" } \/ d \in { "addref", "release" }
  \/ c = "event" /\ d # "shutdown"
  \/ d = "event" /\ c # "shutdown"
  \/ c = "message" /\ d \in { "message", "output" }
  \/ d = "message" /\ c \in { "message", "output" }

-----------------------------------------------------------------------------
(***************************************************************************)
(* Where a thread can be in a call.                                        *)
(***************************************************************************)
InPlace(c, p) ==
  /\ c = "none" <=> p = "idle"
  /\ c = "input" <=> p \in { "accepted", "decoding" }
  /\ c = "output" <=> p \in { "output", "rebuilding" }
  /\ c = "message" <=> p \in { "waiting", "message" }
  /\ c = "type" <=> p = "type"
  /\ c = "event" <=> p \in EventCalls
  /\ c = "addref" <=> p = "addref"
  /\ c # "change"
  /\ c = "shutdown" => p \in Shutting
  /\ c = "release" => p \in Shutting \cup { "shutdown", "internal" }
  /\ c = "destroy" => p \in Shutting \cup { "shutdown" }

(* The lock is had by whoever is at a place that holds it. *)
Holding == { "rebuilding", "message" } \cup EventCalls

ControlInv ==
  /\ \A t \in Threads : InPlace(call[t], at[t])
  /\ \A t, u \in Threads :
       t # u /\ call[t] \in Calls /\ call[u] \in Calls => Compatible(call[t], call[u])
  /\ \A t \in Threads : at[t] \in Holding => lock = t

(***************************************************************************)
(* The counts miss no reference: the one counts those in hand, the other   *)
(* those on their way too.  What was in their memory they count besides.   *)
(***************************************************************************)
Held   == { r \in References : owner[r] # NoThread }
Moving == { r \in References : \E t \in Threads : token[t] = r }

CountInv ==
  /\ refCount >= Cardinality(Held)
  /\ intRefCount >= Cardinality(Held \cup Moving)
  /\ Held \cap Moving = { }
  /\ \A t, u \in Threads : t # u /\ token[t] # NoReference => token[t] # token[u]
  /\ \A t \in Threads : token[t] # NoReference <=> call[t] \in { "addref", "release" }

(* Who is in a call holds a reference, except to give it back or to destroy. *)
HolderInv ==
  \A t \in Threads : call[t] \in Calls \ { "release" } => \E r \in References : owner[r] = t

(* A Release that shuts the decoder down is that of the last reference. *)
LastRelease(t) == call[t] = "release" /\ at[t] # "internal"

ReleaseInv ==
  /\ \A t \in Threads : LastRelease(t) => Held = { }
  /\ \A t, u \in Threads : t # u => ~(LastRelease(t) /\ LastRelease(u))

(***************************************************************************)
(* How far the shutdown has come, by the places of the threads; the flag   *)
(* may have said that it is over from the beginning.                       *)
(***************************************************************************)
ShutdownInv ==
  /\ \A t \in Threads : at[t] = "closing" => ~shutdown /\ eventQueue = "open"
  /\ \A t \in Threads : at[t] = "marking" => ~shutdown /\ eventQueue = "released"
  /\ \A t \in Threads : at[t] = "disposing" => shutdown /\ eventQueue = "released"
  /\ \A t \in Threads : at[t] \in EventCalls => eventQueue = "open"
  /\ eventQueue = "released" => shutdown \/ \E t \in Threads : at[t] = "marking"
  /\ (\A m \in Memory : ~m.shutdown) => (shutdown => eventQueue = "released")

(***************************************************************************)
(* Whose context it is, and when it has been deleted: it outlives the      *)
(* event queue until it is disposed of, and calls that use it find both.   *)
(***************************************************************************)
Deleting(t) == at[t] \in { "marking", "disposing" }

LiveInv ==
  /\ eventQueue = "released" => ~context.live \/ \E t \in Threads : Deleting(t)
  /\ ~context.live =>
       \/ \E t \in Threads : at[t] = "rebuilding"
       \/ eventQueue = "released" /\ \A t \in Threads : ~Deleting(t)
  /\ \A t \in Threads : call[t] \in { "input", "output", "message" } => eventQueue = "open"
  /\ ~clash

(* The end: nobody is left, and the decoder says that it was shut down. *)
EndInv ==
  /\ destroyed \/ (\E t \in Threads : call[t] = "destroy") => intRefCount = 0
  /\ destroyed => shutdown /\ \A t \in Threads : call[t] # "destroy"
  /\ \A t, u \in Threads : t # u => ~(call[t] = "destroy" /\ call[u] = "destroy")
  /\ Threads # { }

LifecycleInv ==
  /\ TypeOK /\ ControlInv /\ CountInv /\ HolderInv
  /\ ReleaseInv /\ ShutdownInv /\ LiveInv /\ EndInv

-----------------------------------------------------------------------------
(* The discipline, call by call. *)
LEMMA Overlapping ==
  ASSUME Disciplined, NEW c \in Calls, NEW d \in Calls, { c, d } \in Together
  PROVE  Compatible(c, d) /\ Compatible(d, c)
  <1>1. { c, d } \in Pipeline BY DEF Disciplined
  <1>2. CASE \E e \in { "message", "output" } : { c, d } = { "message", e }
    BY <1>2 DEF Compatible
  <1>3. CASE \E e \in Calls \ { "shutdown" } : { c, d } = { "event", e }
    BY <1>3 DEF Compatible
  <1>4. CASE \E r \in { "addref", "release" }, e \in Calls : { c, d } = { r, e }
    BY <1>4 DEF Compatible
  <1> QED BY <1>1, <1>2, <1>3, <1>4 DEF Pipeline

(* Thread t comes to place p of call c. *)
Moves(t, c, p) ==
  /\ call'[t] = c /\ at'[t] = p
  /\ \A u \in Threads \ { t } : call'[u] = call[u] /\ at'[u] = at[u]

LEMMA Entering ==
  ASSUME TypeOK, NEW t \in Threads, NEW c \in Calls, NEW p \in Places, Enters(t, c, p)
  PROVE  /\ Moves(t, c, p) /\ MayCall(t, c)
         /\ call' \in [Threads -> Calls \cup { "none", "destroy" }]
         /\ at' \in [Threads -> Places]
  BY DEF TypeOK, Enters, Moves

LEMMA Going ==
  ASSUME TypeOK, NEW t \in Threads, NEW c, c = call[t], NEW p \in Places, Goes(t, p)
  PROVE  /\ Moves(t, c, p)
         /\ call' \in [Threads -> Calls \cup { "none", "destroy" }]
         /\ at' \in [Threads -> Places]
  BY DEF TypeOK, Goes, Moves

LEMMA Leaving ==
  ASSUME TypeOK, NEW t \in Threads, Leaves(t)
  PROVE  /\ Moves(t, "none", "idle")
         /\ call' \in [Threads -> Calls \cup { "none", "destroy" }]
         /\ at' \in [Threads -> Places]
  BY DEF TypeOK, Leaves, Moves, Places

-----------------------------------------------------------------------------
(* The references held and moving are finitely many, and none are left when the count is zero. *)
LEMMA Finite ==
  ASSUME NEW S \in SUBSET References
  PROVE  IsFiniteSet(S) /\ Cardinality(S) \in Nat /\ (Cardinality(S) = 0 => S = { })
  <1>1. IsFiniteSet(S) BY LifecycleAssumption, FS_Subset
  <1> QED BY <1>1, FS_CardinalityType, FS_EmptySet

LEMMA HeldIsSubset == Held \in SUBSET References /\ Moving \in SUBSET References
  BY DEF Held, Moving

(* While anybody is in a call, nobody has begun to destroy the decoder. *)
LEMMA NotEnded ==
  ASSUME LifecycleInv, NEW t \in Threads,
         call[t] \in Calls \/ (\E r \in References : owner[r] = t)
  PROVE  /\ ~destroyed /\ \A u \in Threads : call[u] # "destroy"
         /\ call[t] # "release" => Held # { }
  <1>1. call[t] # "release" => \E r \in References : owner[r] = t
    BY DEF LifecycleInv, HolderInv
  <1>2. t # NoThread BY LifecycleAssumption
  <1>3. call[t] # "release" => Held # { } BY <1>1, <1>2 DEF Held
  <1>4. call[t] = "release" => Moving # { }
    <2> SUFFICES ASSUME call[t] = "release" PROVE Moving # { } OBVIOUS
    <2>1. token[t] # NoReference BY DEF LifecycleInv, CountInv
    <2>2. token[t] \in References BY <2>1 DEF LifecycleInv, TypeOK
    <2> QED BY <2>2 DEF Moving
  <1>5. Held \cup Moving # { } BY <1>3, <1>4
  <1>6. Cardinality(Held \cup Moving) \in Nat \ { 0 }
    <2>1. Held \cup Moving \in SUBSET References BY HeldIsSubset
    <2> QED BY <1>5, <2>1, Finite
  <1>7. intRefCount # 0 BY <1>6 DEF LifecycleInv, CountInv, TypeOK
  <1> QED BY <1>3, <1>7 DEF LifecycleInv, EndInv

(* While a thread is shutting down, the others do nothing but count. *)
LEMMA ShutsAlone ==
  ASSUME LifecycleInv, NEW u \in Threads, at[u] \in Shutting, NEW t \in Threads, t # u
  PROVE  /\ call[u] \in { "shutdown", "release", "destroy" }
         /\ call[t] \in { "none", "addref", "release" }
         /\ ~LastRelease(t)
         /\ at[t] \notin Shutting \cup EventCalls \cup { "rebuilding" }
  <1>1. InPlace(call[u], at[u]) /\ InPlace(call[t], at[t]) BY DEF LifecycleInv, ControlInv
  <1>2. call[u] \in Calls \cup { "none", "destroy" } /\ call[t] \in Calls \cup { "none", "destroy" }
    BY DEF LifecycleInv, TypeOK
  <1>3. call[u] \in { "shutdown", "release", "destroy" }
    BY <1>1, <1>2, LifecycleAssumption DEF InPlace, Shutting, Calls
  <1>4. LastRelease(u) <=> call[u] = "release" BY <1>1 DEF LastRelease, InPlace, Shutting
  <1>5. call[t] \in { "none", "addref", "release" } /\ ~LastRelease(t)
    <2>1. CASE call[u] = "release"
      <3>1. Held = { } /\ ~LastRelease(t) BY <1>4, <2>1 DEF LifecycleInv, ReleaseInv
      <3>2. call[t] # "destroy" BY <2>1, NotEnded DEF Calls
      <3>3. call[t] \in Calls => call[t] = "release" BY <3>1, NotEnded
      <3> QED BY <1>2, <3>1, <3>2, <3>3
    <2>2. CASE call[u] = "shutdown"
      <3>1. Held # { } /\ call[t] # "destroy" BY <2>2, NotEnded DEF Calls
      <3>2. ~LastRelease(t) BY <3>1 DEF LifecycleInv, ReleaseInv
      <3>3. call[t] \in Calls => Compatible(call[t], "shutdown")
        BY <2>2 DEF LifecycleInv, ControlInv, Calls
      <3> QED BY <1>2, <3>1, <3>2, <3>3 DEF Compatible, Calls
    <2>3. CASE call[u] = "destroy"
      <3>1. call[t] \notin Calls BY <2>3, NotEnded
      <3>2. call[t] # "destroy" BY <2>3 DEF LifecycleInv, EndInv
      <3> QED BY <1>2, <3>1, <3>2 DEF LastRelease
    <2> QED BY <1>3, <2>1, <2>2, <2>3
  <1>6. at[t] \notin Shutting \cup EventCalls \cup { "rebuilding" }
    BY <1>1, <1>5, LifecycleAssumption DEF InPlace, LastRelease, Shutting
  <1> QED BY <1>3, <1>5, <1>6

(* Who makes a call finds nobody giving back the last reference, and calls that it may overlap. *)
LEMMA Calling ==
  ASSUME LifecycleInv, Disciplined, NEW t \in Threads, NEW c \in Calls, MayCall(t, c)
  PROVE  /\ call[t] = "none" /\ at[t] = "idle" /\ Held # { }
         /\ ~destroyed
         /\ \A u \in Threads : call[u] # "destroy" /\ ~LastRelease(u)
         /\ \A u \in Threads : at[u] \in Shutting => call[u] = "shutdown"
         /\ eventQueue = "released" => c \in ShutdownIsFinal
         /\ \A u \in Threads \ { t } : call[u] \in Calls =>
              Compatible(c, call[u]) /\ Compatible(call[u], c)
  <1>1. call[t] = "none" /\ (\E r \in References : owner[r] = t) BY DEF MayCall
  <1>2. at[t] = "idle" BY <1>1 DEF LifecycleInv, ControlInv, InPlace
  <1>3. Held # { } /\ ~destroyed /\ \A u \in Threads : call[u] # "destroy"
    <2>1. t # NoThread BY LifecycleAssumption
    <2>2. Held # { } BY <1>1, <2>1 DEF Held
    <2> QED BY <1>1, <2>2, NotEnded
  <1>4. \A u \in Threads : ~LastRelease(u) BY <1>3 DEF LifecycleInv, ReleaseInv
  <1>5. ASSUME NEW u \in Threads, at[u] \in Shutting PROVE call[u] = "shutdown"
    <2>1. u # t BY <1>2, <1>5 DEF Shutting
    <2>2. call[u] \in { "shutdown", "release" } BY <1>3, <1>5, <2>1, ShutsAlone
    <2>3. at[u] # "internal" BY <1>5 DEF Shutting
    <2> QED BY <1>4, <2>2, <2>3 DEF LastRelease
  <1>6. eventQueue = "released" => c \in ShutdownIsFinal BY DEF MayCall, Begun, Disciplined
  <1>7. ASSUME NEW u \in Threads \ { t }, call[u] \in Calls
        PROVE  Compatible(c, call[u]) /\ Compatible(call[u], c)
    <2>1. call[u] # "none" BY <1>7 DEF Calls
    <2>2. { c, call[u] } \in Together BY <2>1 DEF MayCall
    <2> QED BY <1>7, <2>2, Overlapping
  <1> QED BY <1>1, <1>2, <1>3, <1>4, <1>5, <1>6, <1>7

(***************************************************************************)
(* Who may use the context or the event queue finds the queue: it checked  *)
(* the flag under the lock and runs with no Shutdown, or comes before it.  *)
(***************************************************************************)
LEMMA OpenForCaller ==
  ASSUME LifecycleInv, Disciplined, NEW t \in Threads,
         NEW c \in { "input", "output", "change", "message", "event" }, MayCall(t, c),
         c \in { "input", "event" } => ~shutdown
  PROVE  eventQueue = "open"
  <1>1. CASE c \in { "output", "change", "message" }
    <2>1. eventQueue # "released" BY <1>1, Calling DEF ShutdownIsFinal, Calls
    <2> QED BY <2>1 DEF LifecycleInv, TypeOK
  <1>2. CASE c \in { "input", "event" }
    <2>1. ASSUME NEW u \in Threads, at[u] = "marking" PROVE FALSE
      <3>1. call[u] = "shutdown" BY <2>1, Calling DEF Calls, Shutting
      <3>2. u # t BY <3>1 DEF MayCall
      <3>3. Compatible(c, call[u]) BY <3>1, <3>2, Calling DEF Calls
      <3> QED BY <1>2, <3>1, <3>3 DEF Compatible
    <2> QED BY <1>2, <2>1 DEF LifecycleInv, ShutdownInv, TypeOK
  <1> QED BY <1>1, <1>2

-----------------------------------------------------------------------------
(***************************************************************************)
(* What a step of thread t keeps, by where it goes and what it changes.    *)
(***************************************************************************)
LEMMA ControlKept ==
  ASSUME ControlInv, NEW t \in Threads, NEW c, NEW p, Moves(t, c, p), InPlace(c, p),
         \/ c = call[t] \/ c \notin Calls
         \/ \A u \in Threads \ { t } : call[u] \in Calls =>
              Compatible(c, call[u]) /\ Compatible(call[u], c),
         p \in Holding => lock' = t,
         lock' = lock \/ lock \in { t, NoThread }
  PROVE  ControlInv'
  <1>1. ASSUME NEW u \in Threads PROVE InPlace(call'[u], at'[u])
    BY DEF Moves, ControlInv
  <1>2. ASSUME NEW u \in Threads, NEW v \in Threads, u # v, call'[u] \in Calls, call'[v] \in Calls
        PROVE  Compatible(call'[u], call'[v])
    <2>1. CASE u = t /\ v # t BY <1>2, <2>1 DEF Moves, ControlInv
    <2>2. CASE v = t /\ u # t BY <1>2, <2>2 DEF Moves, ControlInv
    <2>3. CASE u # t /\ v # t BY <1>2, <2>3 DEF Moves, ControlInv
    <2> QED BY <1>2, <2>1, <2>2, <2>3
  <1>3. ASSUME NEW u \in Threads, at'[u] \in Holding PROVE lock' = u
    <2>1. CASE u = t BY <1>3, <2>1 DEF Moves
    <2>2. CASE u # t
      <3>1. lock = u BY <1>3, <2>2 DEF Moves, ControlInv
      <3> QED BY <2>2, <3>1, LifecycleAssumption
    <2> QED BY <2>1, <2>2
  <1> QED BY <1>1, <1>2, <1>3 DEF ControlInv, InPlace, Compatible

LEMMA CountKept ==
  ASSUME CountInv, HolderInv, NEW t \in Threads, NEW c, NEW p, Moves(t, c, p),
         UNCHANGED references,
         c \in { "addref", "release" } <=> call[t] \in { "addref", "release" },
         c \in Calls \ { "release" } => \E r \in References : owner[r] = t
  PROVE  CountInv' /\ HolderInv'
  <1>1. /\ UNCHANGED << owner, token, refCount, intRefCount >> BY DEF references
  <1>2. Held' = Held /\ Moving' = Moving BY <1>1 DEF Held, Moving
  <1>3. \A u \in Threads : token'[u] # NoReference <=> call'[u] \in { "addref", "release" }
    BY <1>1 DEF CountInv, Moves
  <1>4. CountInv' BY <1>1, <1>2, <1>3 DEF CountInv
  <1>5. HolderInv' BY <1>1 DEF HolderInv, Moves
  <1> QED BY <1>4, <1>5

LEMMA ReleaseKept ==
  ASSUME ReleaseInv, NEW t \in Threads, NEW c, NEW p, Moves(t, c, p),
         UNCHANGED owner, c = "release" /\ p # "internal" => LastRelease(t)
  PROVE  ReleaseInv'
  <1>1. Held' = Held BY DEF Held
  <1>2. \A u \in Threads : LastRelease(u)' => LastRelease(u) BY DEF LastRelease, Moves
  <1> QED BY <1>1, <1>2 DEF ReleaseInv

LEMMA ShutdownKept ==
  ASSUME ShutdownInv, NEW t \in Threads, NEW c, NEW p, Moves(t, c, p),
         UNCHANGED << shutdown, eventQueue >>,
         at[t] \notin Shutting, p \notin Shutting,
         p \in EventCalls => eventQueue = "open"
  PROVE  ShutdownInv'
  BY DEF ShutdownInv, Moves, Shutting

LEMMA LiveKept ==
  ASSUME LiveInv, NEW t \in Threads, NEW c, NEW p, Moves(t, c, p),
         UNCHANGED eventQueue, context'.live = context.live, clash' = FALSE,
         at[t] # "rebuilding", ~Deleting(t), p \notin { "marking", "disposing" },
         c \in { "input", "output", "message" } => c = call[t] \/ eventQueue = "open"
  PROVE  LiveInv'
  BY DEF LiveInv, Moves, Deleting

LEMMA EndKept ==
  ASSUME EndInv, NEW t \in Threads, NEW c, NEW p, Moves(t, c, p),
         ~destroyed', \A u \in Threads : call[u] # "destroy", c # "destroy"
  PROVE  EndInv'
  BY DEF EndInv, Moves

Context == [live : BOOLEAN, codec : BOOLEAN, samples : BOOLEAN, announce : BOOLEAN]

(* After a step the lock, the context and the flags have their types. *)
Typed ==
  /\ lock' \in Threads \cup { NoThread } /\ context' \in Context
  /\ pending' \in BOOLEAN /\ formatChange' \in BOOLEAN /\ draining' \in BOOLEAN

(* A step of a call that neither counts, shuts down nor rebuilds. *)
LEMMA PlainStep ==
  ASSUME LifecycleInv, Disciplined, NEW t \in Threads, NEW c, NEW p, Moves(t, c, p),
         call' \in [Threads -> Calls \cup { "none", "destroy" }], at' \in [Threads -> Places],
         UNCHANGED << references, ending >>, InPlace(c, p),
         call[t] \in Calls \/ \E r \in References : owner[r] = t,
         c \in { "none", call[t] } \/ (c \in Calls /\ MayCall(t, c)),
         call[t] \notin { "addref", "release" }, c \notin { "addref", "release" },
         Typed, p \in Holding => lock' = t,
         lock' = lock \/ lock \in { t, NoThread },
         context'.live = context.live, clash' = FALSE,
         at[t] \notin Shutting \cup { "rebuilding" }, p \notin Shutting,
         p \in EventCalls => eventQueue = "open",
         c \in { "input", "output", "message" } => c = call[t] \/ eventQueue = "open"
  PROVE  LifecycleInv'
  <1>1. /\ UNCHANGED << owner, token, refCount, intRefCount >>
        /\ UNCHANGED << shutdownStarted, shutdown, eventQueue, destroyed >>
    BY DEF references, ending
  <1>2. TypeOK' BY <1>1 DEF LifecycleInv, TypeOK, Typed, Context
  <1>3. ~destroyed /\ \A u \in Threads : call[u] # "destroy" BY NotEnded
  <1>4. ControlInv'
    <2>1. \/ c = call[t] \/ c \notin Calls
          \/ \A u \in Threads \ { t } : call[u] \in Calls =>
               Compatible(c, call[u]) /\ Compatible(call[u], c)
      <3>1. CASE c \in { "none", call[t] } BY <3>1 DEF Calls
      <3>2. CASE c \in Calls /\ MayCall(t, c) BY <3>2, Calling
      <3> QED BY <3>1, <3>2
    <2> QED BY <2>1, ControlKept DEF LifecycleInv
  <1>5. c \in Calls => \E r \in References : owner[r] = t
    <2>1. CASE c \in { "none", call[t] } BY <2>1 DEF Calls, LifecycleInv, HolderInv
    <2>2. CASE c \in Calls /\ MayCall(t, c) BY <2>2 DEF MayCall
    <2> QED BY <2>1, <2>2
  <1>6. CountInv' /\ HolderInv' BY <1>5, CountKept DEF LifecycleInv
  <1>7. ReleaseInv' BY <1>1, ReleaseKept DEF LifecycleInv
  <1>8. ShutdownInv' BY <1>1, ShutdownKept DEF LifecycleInv
  <1>9. LiveInv'
    <2>1. p \notin { "marking", "disposing" } /\ at[t] # "rebuilding" /\ ~Deleting(t)
      BY DEF Shutting, Deleting
    <2> QED BY <1>1, <2>1, LiveKept DEF LifecycleInv
  <1>10. c # "destroy" BY <1>3 DEF Calls
  <1>11. EndInv' BY <1>1, <1>3, <1>10, EndKept DEF LifecycleInv
  <1> QED BY <1>2, <1>4, <1>6, <1>7, <1>8, <1>9, <1>11 DEF LifecycleInv

(***************************************************************************)
(* The context is there for a call of input or output, for whoever takes   *)
(* output, and for a message that has the lock, however long it waited.    *)
(***************************************************************************)
LEMMA LiveInCall ==
  ASSUME LifecycleInv, NEW t \in Threads, call[t] \in { "input", "output", "message" },
         at[t] # "rebuilding", call[t] = "message" => Unlocked
  PROVE  context.live
  <1>1. eventQueue = "open" BY DEF LifecycleInv, LiveInv
  <1>2. ASSUME NEW u \in Threads, at[u] = "rebuilding" PROVE FALSE
    <2>1. call[u] = "output" /\ u # t /\ lock = u /\ u # NoThread
      BY <1>2, LifecycleAssumption DEF LifecycleInv, ControlInv, InPlace, Holding
    <2>2. call[t] # "message" BY <2>1 DEF Unlocked
    <2>3. Compatible(call[t], call[u]) BY <2>1 DEF LifecycleInv, ControlInv, Calls
    <2> QED BY <2>1, <2>2, <2>3 DEF Compatible
  <1> QED BY <1>1, <1>2 DEF LifecycleInv, LiveInv

LEMMA LiveForCaller ==
  ASSUME LifecycleInv, Disciplined, NEW t \in Threads, NEW c \in { "output", "change" }, MayCall(t, c)
  PROVE  context.live
  <1>1. eventQueue = "open" BY OpenForCaller
  <1>2. ASSUME NEW u \in Threads, at[u] = "rebuilding" PROVE FALSE
    <2>1. call[u] = "output" BY <1>2 DEF LifecycleInv, ControlInv, InPlace
    <2>2. u # t BY <2>1 DEF MayCall
    <2>3. Compatible(c, call[u]) BY <2>1, <2>2, Calling DEF Calls
    <2> QED BY <2>1, <2>3 DEF Compatible
  <1> QED BY <1>1, <1>2 DEF LifecycleInv, LiveInv

(* What a thread at one of these places meets is a call, and no call meets one it must not overlap. *)
LEMMA Meeting ==
  ASSUME LifecycleInv, NEW t \in Threads, call[t] \in { "input", "output", "message", "type" }
  PROVE  ~Meets(t, { "decoding" }) /\ ~Meets(t, { "type" })
  <1> SUFFICES ASSUME NEW u \in Threads \ { t }, at[u] \in { "decoding", "type" }
               PROVE  FALSE
    BY DEF Meets
  <1>1. call[u] \in { "input", "type" } BY DEF LifecycleInv, ControlInv, InPlace
  <1>2. Compatible(call[t], call[u]) BY <1>1 DEF LifecycleInv, ControlInv, Calls
  <1> QED BY <1>1, <1>2 DEF Compatible

LEMMA MeetingCaller ==
  ASSUME LifecycleInv, Disciplined, NEW t \in Threads, NEW c \in { "change", "type" }, MayCall(t, c)
  PROVE  ~Meets(t, { "type", "decoding", "message" }) /\ ~Meets(t, { "type" })
  <1> SUFFICES ASSUME NEW u \in Threads \ { t }, at[u] \in { "type", "decoding", "message" }
               PROVE  FALSE
    BY DEF Meets
  <1>1. call[u] \in { "input", "message", "type" } BY DEF LifecycleInv, ControlInv, InPlace
  <1>2. Compatible(c, call[u]) BY <1>1, Calling DEF Calls
  <1> QED BY <1>1, <1>2 DEF Compatible

LEMMA PlaceFacts ==
  /\ \A p \in { "idle", "accepted", "decoding", "output", "rebuilding", "waiting", "message", "type",
                "closing", "marking", "disposing", "shutdown", "addref", "internal" } :
       p \notin EventCalls /\ p \in Places
  /\ InPlace("none", "idle") /\ InPlace("input", "accepted") /\ InPlace("input", "decoding")
  /\ InPlace("output", "output") /\ InPlace("output", "rebuilding")
  /\ InPlace("message", "waiting") /\ InPlace("message", "message") /\ InPlace("type", "type") /\ InPlace("addref", "addref")
  /\ \A e \in EventCalls : InPlace("event", e)
  BY LifecycleAssumption DEF InPlace, Places, Shutting

LEMMA InputSteps ==
  ASSUME LifecycleInv, Disciplined, NEW t \in Threads,
         BeginInput(t) \/ StartDecode(t) \/ EndInput(t)
  PROVE  LifecycleInv'
  <1>1. TypeOK /\ clash = FALSE /\ InPlace(call[t], at[t])
    BY DEF LifecycleInv, LiveInv, ControlInv, TypeOK
  <1>2. CASE BeginInput(t)
    <2>1. Moves(t, "input", "accepted") /\ MayCall(t, "input")
          /\ call' \in [Threads -> Calls \cup { "none", "destroy" }] /\ at' \in [Threads -> Places]
      BY <1>1, <1>2, Entering, PlaceFacts DEF BeginInput, Calls
    <2>2. call[t] = "none" /\ at[t] = "idle" /\ \E r \in References : owner[r] = t
      BY <2>1, Calling DEF MayCall, Calls
    <2>3. UNCHANGED << lock, references, ending, pending, context, flags, clash >> /\ ~shutdown
      BY <1>2 DEF BeginInput
    <2>4. Typed BY <1>1, <2>3 DEF TypeOK, Context, flags, Typed
    <2>5. eventQueue = "open" BY <2>1, <2>3, OpenForCaller
    <2> QED BY <1>1, <2>1, <2>2, <2>3, <2>4, <2>5, PlaceFacts, PlainStep DEF Calls, Shutting, Holding
  <1>3. CASE StartDecode(t)
    <2>1. at[t] = "accepted" /\ call[t] = "input"
      BY <1>1, <1>3 DEF StartDecode, InPlace
    <2>2. Moves(t, "input", "decoding")
          /\ call' \in [Threads -> Calls \cup { "none", "destroy" }] /\ at' \in [Threads -> Places]
      BY <1>1, <1>3, <2>1, Going, PlaceFacts DEF StartDecode
    <2>3. context.live BY <2>1, LiveInCall
    <2>4. ~Meets(t, { "type" }) /\ ~Meets(t, { "decoding" }) BY <2>1, Meeting
    <2>5. clash' = FALSE BY <1>1, <1>3, <2>3, <2>4 DEF StartDecode, Clashes, Meets
    <2>6. context' \in Context /\ context'.live = context.live
      <3>1. PICK codec \in BOOLEAN, announce \in BOOLEAN :
              context' = IF context.codec THEN context
                         ELSE [context EXCEPT !.codec = codec, !.announce = announce]
        BY <1>3 DEF StartDecode
      <3> QED BY <1>1, <3>1 DEF TypeOK, Context
    <2>7. UNCHANGED << lock, references, ending, pending, flags >> BY <1>3 DEF StartDecode
    <2>8. Typed BY <1>1, <2>6, <2>7 DEF TypeOK, flags, Typed
    <2> QED BY <1>1, <2>1, <2>2, <2>5, <2>6, <2>7, <2>8, PlaceFacts, PlainStep
            DEF Calls, Shutting, Holding
  <1>4. CASE EndInput(t)
    <2>1. at[t] = "decoding" /\ call[t] = "input"
      BY <1>1, <1>4 DEF EndInput, InPlace
    <2>2. Moves(t, "none", "idle")
          /\ call' \in [Threads -> Calls \cup { "none", "destroy" }] /\ at' \in [Threads -> Places]
      BY <1>1, <1>4, Leaving DEF EndInput
    <2>3. context' \in Context /\ context'.live = context.live
      <3>1. PICK more \in BOOLEAN : context' = [context EXCEPT !.samples = @ \/ more]
        BY <1>4 DEF EndInput
      <3>2. context.samples \/ more \in BOOLEAN BY <1>1 DEF TypeOK
      <3> QED BY <1>1, <3>1, <3>2 DEF TypeOK, Context
    <2>4. UNCHANGED << lock, references, ending, pending, flags, clash >> BY <1>4 DEF EndInput
    <2>5. Typed BY <1>1, <2>3, <2>4 DEF TypeOK, flags, Typed
    <2>6. clash' = FALSE BY <1>1, <2>4
    <2> QED BY <2>1, <2>2, <2>3, <2>4, <2>5, <2>6, PlaceFacts, PlainStep
            DEF Calls, Shutting, Holding
  <1> QED BY <1>2, <1>3, <1>4

(* ProcessOutput, until it decides to rebuild. *)
LEMMA OutputSteps ==
  ASSUME LifecycleInv, Disciplined, NEW t \in Threads,
         StreamChange(t) \/ BeginOutput(t) \/ (TakeOutput(t) /\ at'[t] # "rebuilding")
  PROVE  LifecycleInv'
  <1>1. TypeOK /\ clash = FALSE /\ InPlace(call[t], at[t])
    BY DEF LifecycleInv, LiveInv, ControlInv, TypeOK
  <1>2. CASE StreamChange(t)
    <2>1. MayCall(t, "change") BY <1>2 DEF StreamChange
    <2>2. call[t] = "none" /\ at[t] = "idle" /\ \E r \in References : owner[r] = t
      BY <2>1, Calling DEF MayCall, Calls
    <2>3. UNCHANGED << threads, lock, references, ending, pending, flags >>
          /\ context' = [context EXCEPT !.announce = FALSE]
          /\ Clashes(~context.live \/ Meets(t, { "type", "decoding", "message" }))
      BY <1>2 DEF StreamChange
    <2>4. Moves(t, "none", "idle")
          /\ call' \in [Threads -> Calls \cup { "none", "destroy" }] /\ at' \in [Threads -> Places]
      BY <1>1, <2>2, <2>3 DEF Moves, threads, TypeOK
    <2>5. context.live BY <2>1, LiveForCaller
    <2>6. ~Meets(t, { "type", "decoding", "message" }) BY <2>1, MeetingCaller
    <2>7. clash' = FALSE BY <1>1, <2>3, <2>5, <2>6 DEF Clashes
    <2>8. context' \in Context /\ context'.live = context.live
      BY <1>1, <2>3 DEF TypeOK, Context
    <2>9. Typed BY <1>1, <2>3, <2>8 DEF TypeOK, flags, Typed
    <2> QED BY <2>2, <2>3, <2>4, <2>7, <2>8, <2>9, PlaceFacts, PlainStep
            DEF Calls, Shutting, Holding
  <1>3. CASE BeginOutput(t)
    <2>1. Moves(t, "output", "output") /\ MayCall(t, "output")
          /\ call' \in [Threads -> Calls \cup { "none", "destroy" }] /\ at' \in [Threads -> Places]
      BY <1>1, <1>3, Entering, PlaceFacts DEF BeginOutput, Calls
    <2>2. call[t] = "none" /\ at[t] = "idle" /\ \E r \in References : owner[r] = t
      BY <2>1, Calling DEF MayCall, Calls
    <2>3. UNCHANGED << lock, references, ending, pending, context, flags >>
          /\ Clashes(~context.live)
      BY <1>3 DEF BeginOutput
    <2>4. context.live BY <2>1, LiveForCaller
    <2>5. clash' = FALSE BY <1>1, <2>3, <2>4 DEF Clashes
    <2>6. Typed BY <1>1, <2>3 DEF TypeOK, flags, Typed, Context
    <2>7. eventQueue = "open" BY <2>1, OpenForCaller
    <2> QED BY <2>1, <2>2, <2>3, <2>5, <2>6, <2>7, PlaceFacts, PlainStep
            DEF Calls, Shutting, Holding
  <1>4. CASE TakeOutput(t) /\ at'[t] # "rebuilding"
    <2>1. at[t] = "output" /\ call[t] = "output" /\ Unlocked
      BY <1>1, <1>4 DEF TakeOutput, InPlace
    <2>2. PICK more \in BOOLEAN :
            /\ draining' = (draining /\ more)
            /\ context' = [context EXCEPT !.samples = more]
            /\ Clashes(~context.live \/ Meets(t, { "decoding" }))
            /\ UNCHANGED lock /\ Leaves(t)
      <3>1. ~Goes(t, "rebuilding") BY <1>1, <1>4 DEF Goes, TypeOK
      <3> QED BY <1>4, <3>1 DEF TakeOutput
    <2>3. Moves(t, "none", "idle")
          /\ call' \in [Threads -> Calls \cup { "none", "destroy" }] /\ at' \in [Threads -> Places]
      BY <1>1, <2>2, Leaving
    <2>4. context.live BY <2>1, LiveInCall
    <2>5. ~Meets(t, { "decoding" }) BY <2>1, Meeting
    <2>6. clash' = FALSE BY <1>1, <2>2, <2>4, <2>5 DEF Clashes
    <2>7. context' \in Context /\ context'.live = context.live
      BY <1>1, <2>2 DEF TypeOK, Context
    <2>8. UNCHANGED << references, ending, pending, formatChange >> BY <1>4 DEF TakeOutput
    <2>9. Typed BY <1>1, <2>2, <2>7, <2>8 DEF TypeOK, Typed
    <2> QED BY <2>1, <2>2, <2>3, <2>6, <2>7, <2>8, <2>9, PlaceFacts, PlainStep
            DEF Calls, Shutting, Holding
  <1> QED BY <1>2, <1>3, <1>4

(* ProcessMessage, called, and under the lock. *)
LEMMA MessageSteps ==
  ASSUME LifecycleInv, Disciplined, NEW t \in Threads,
         CallMessage(t) \/ BeginMessage(t) \/ EndMessage(t)
  PROVE  LifecycleInv'
  <1>1. TypeOK /\ clash = FALSE /\ InPlace(call[t], at[t])
    BY DEF LifecycleInv, LiveInv, ControlInv, TypeOK
  <1>2. CASE CallMessage(t)
    <2>1. Moves(t, "message", "waiting") /\ MayCall(t, "message")
          /\ call' \in [Threads -> Calls \cup { "none", "destroy" }] /\ at' \in [Threads -> Places]
      BY <1>1, <1>2, Entering, PlaceFacts DEF CallMessage, Calls
    <2>2. call[t] = "none" /\ at[t] = "idle" /\ \E r \in References : owner[r] = t
      BY <2>1, Calling DEF MayCall, Calls
    <2>3. UNCHANGED << lock, references, ending, pending, context, flags, clash >>
      BY <1>2 DEF CallMessage
    <2>4. Typed BY <1>1, <2>3 DEF TypeOK, flags, Typed, Context
    <2>5. eventQueue = "open" BY <2>1, OpenForCaller
    <2> QED BY <1>1, <2>1, <2>2, <2>3, <2>4, <2>5, PlaceFacts, PlainStep
            DEF Calls, Shutting, Holding
  <1>3. CASE BeginMessage(t)
    <2>1. at[t] = "waiting" /\ call[t] = "message"
      BY <1>1, <1>3 DEF BeginMessage, InPlace
    <2>2. Moves(t, "message", "message")
          /\ call' \in [Threads -> Calls \cup { "none", "destroy" }] /\ at' \in [Threads -> Places]
      BY <1>1, <1>3, <2>1, Going, PlaceFacts DEF BeginMessage
    <2>3. UNCHANGED << references, ending, pending, context, flags >>
          /\ Clashes(~context.live) /\ Unlocked /\ lock' = t
      BY <1>3 DEF BeginMessage
    <2>4. context.live BY <2>1, <2>3, LiveInCall
    <2>5. clash' = FALSE BY <1>1, <2>3, <2>4 DEF Clashes
    <2>6. Typed BY <1>1, <2>3 DEF TypeOK, flags, Typed, Context
    <2>7. lock \in { t, NoThread } BY <2>3 DEF Unlocked
    <2> QED BY <2>1, <2>2, <2>3, <2>5, <2>6, <2>7, PlaceFacts, PlainStep
            DEF Calls, Shutting, Holding
  <1>4. CASE EndMessage(t)
    <2>1. at[t] = "message" /\ call[t] = "message" /\ lock = t
      BY <1>1, <1>4 DEF EndMessage, InPlace, LifecycleInv, ControlInv, Holding
    <2>2. Moves(t, "none", "idle")
          /\ call' \in [Threads -> Calls \cup { "none", "destroy" }] /\ at' \in [Threads -> Places]
      BY <1>1, <1>4, Leaving DEF EndMessage
    <2>3. ~Meets(t, { "type" }) /\ ~Meets(t, { "decoding" }) BY <2>1, Meeting
    <2>4. ~Meets(t, { "type", "decoding" }) BY <2>3 DEF Meets
    <2>5. PICK m \in { "start", "flush", "drain", "end" } :
            IF m = "start" \/ (context.codec /\ m # "end")
            THEN /\ Clashes(Meets(t, { "type", "decoding" }))
                 /\ context' = [context EXCEPT !.samples = @ /\ m = "drain"]
                 /\ draining' = (draining \/ m = "drain")
            ELSE UNCHANGED << clash, context, draining >>
      BY <1>4 DEF EndMessage
    <2>6. clash' = FALSE BY <1>1, <2>4, <2>5 DEF Clashes
    <2>7. (context.samples /\ m = "drain") \in BOOLEAN OBVIOUS
    <2>8. context' \in Context /\ context'.live = context.live
      BY <1>1, <2>5, <2>7 DEF TypeOK, Context
    <2>9. draining' \in BOOLEAN BY <1>1, <2>5 DEF TypeOK
    <2>10. UNCHANGED << references, ending, pending, formatChange >> /\ lock' = NoThread
      BY <1>4 DEF EndMessage
    <2>11. Typed BY <1>1, <2>8, <2>9, <2>10 DEF TypeOK, Typed
    <2> QED BY <2>1, <2>2, <2>6, <2>8, <2>10, <2>11, PlaceFacts, PlainStep
            DEF Calls, Shutting, Holding
  <1> QED BY <1>2, <1>3, <1>4

(* SetInputType and SetOutputType, without the lock. *)
LEMMA TypeSteps ==
  ASSUME LifecycleInv, Disciplined, NEW t \in Threads, BeginType(t) \/ EndType(t)
  PROVE  LifecycleInv'
  <1>1. TypeOK /\ clash = FALSE /\ InPlace(call[t], at[t])
    BY DEF LifecycleInv, LiveInv, ControlInv, TypeOK
  <1>2. CASE BeginType(t)
    <2>1. Moves(t, "type", "type") /\ MayCall(t, "type")
          /\ call' \in [Threads -> Calls \cup { "none", "destroy" }] /\ at' \in [Threads -> Places]
      BY <1>1, <1>2, Entering, PlaceFacts DEF BeginType, Calls
    <2>2. call[t] = "none" /\ at[t] = "idle" /\ \E r \in References : owner[r] = t
      BY <2>1, Calling DEF MayCall, Calls
    <2>3. UNCHANGED << lock, references, ending, pending, context, flags >>
          /\ Clashes(Meets(t, { "type" }))
      BY <1>2 DEF BeginType
    <2>4. ~Meets(t, { "type" }) BY <2>1, MeetingCaller
    <2>5. clash' = FALSE BY <1>1, <2>3, <2>4 DEF Clashes
    <2>6. Typed BY <1>1, <2>3 DEF TypeOK, flags, Typed, Context
    <2> QED BY <2>1, <2>2, <2>3, <2>5, <2>6, PlaceFacts, PlainStep
            DEF Calls, Shutting, Holding
  <1>3. CASE EndType(t)
    <2>1. at[t] = "type" /\ call[t] = "type" BY <1>1, <1>3 DEF EndType, InPlace
    <2>2. Moves(t, "none", "idle")
          /\ call' \in [Threads -> Calls \cup { "none", "destroy" }] /\ at' \in [Threads -> Places]
      BY <1>1, <1>3, Leaving DEF EndType
    <2>3. UNCHANGED << lock, references, ending, pending, context, draining, clash >>
          /\ formatChange' \in BOOLEAN
      BY <1>1, <1>3 DEF EndType, TypeOK
    <2>4. Typed BY <1>1, <2>3 DEF TypeOK, Typed, Context
    <2> QED BY <1>1, <2>1, <2>2, <2>3, <2>4, PlaceFacts, PlainStep
            DEF Calls, Shutting, Holding
  <1> QED BY <1>2, <1>3

(* The event methods: nobody is between the release of the event queue and the flag. *)
LEMMA EventSteps ==
  ASSUME LifecycleInv, Disciplined, NEW t \in Threads, BeginEvent(t) \/ EndEvent(t)
  PROVE  LifecycleInv'
  <1>1. TypeOK /\ clash = FALSE /\ InPlace(call[t], at[t])
    BY DEF LifecycleInv, LiveInv, ControlInv, TypeOK
  <1>2. CASE BeginEvent(t)
    <2>1. PICK e \in EventCalls : Enters(t, "event", e) BY <1>2 DEF BeginEvent
    <2>2. Moves(t, "event", e) /\ MayCall(t, "event")
          /\ call' \in [Threads -> Calls \cup { "none", "destroy" }] /\ at' \in [Threads -> Places]
      BY <1>1, <2>1, Entering DEF Places, Calls
    <2>3. call[t] = "none" /\ at[t] = "idle" /\ \E r \in References : owner[r] = t
      BY <2>2, Calling DEF MayCall, Calls
    <2>4. UNCHANGED << references, ending, pending, context, flags, clash >>
          /\ Unlocked /\ lock' = t /\ ~shutdown
      BY <1>2 DEF BeginEvent
    <2>5. Typed BY <1>1, <2>4 DEF TypeOK, flags, Typed, Context
    <2>6. eventQueue = "open" BY <2>2, <2>4, OpenForCaller
    <2>7. e \notin Shutting /\ e # "message" BY LifecycleAssumption DEF Shutting
    <2>8. lock \in { t, NoThread } BY <2>4 DEF Unlocked
    <2> QED BY <1>1, <2>2, <2>3, <2>4, <2>5, <2>6, <2>7, <2>8, PlaceFacts, PlainStep
            DEF Calls, Shutting, Holding
  <1>3. CASE EndEvent(t)
    <2>1. at[t] \in EventCalls /\ call[t] = "event" /\ lock = t
      BY <1>1, <1>3 DEF EndEvent, InPlace, LifecycleInv, ControlInv, Holding
    <2>2. Moves(t, "none", "idle")
          /\ call' \in [Threads -> Calls \cup { "none", "destroy" }] /\ at' \in [Threads -> Places]
      BY <1>1, <1>3, Leaving DEF EndEvent
    <2>3. UNCHANGED << references, ending, context, flags, clash >>
          /\ lock' = NoThread /\ pending' \in BOOLEAN
      BY <1>3 DEF EndEvent
    <2>4. Typed BY <1>1, <2>3 DEF TypeOK, flags, Typed, Context
    <2>5. at[t] \notin Shutting \cup { "rebuilding" }
      BY <2>1, LifecycleAssumption DEF Shutting
    <2> QED BY <1>1, <2>1, <2>2, <2>3, <2>4, <2>5, PlaceFacts, PlainStep
            DEF Calls, Holding, Shutting
  <1> QED BY <1>2, <1>3

(* ProcessOutput deletes the context and makes it anew under the lock. *)
LEMMA RebuildSteps ==
  ASSUME LifecycleInv, Disciplined, NEW t \in Threads,
         (TakeOutput(t) /\ at'[t] = "rebuilding") \/ Rebuild(t)
  PROVE  LifecycleInv'
  <1>1. TypeOK /\ clash = FALSE /\ InPlace(call[t], at[t])
    BY DEF LifecycleInv, LiveInv, ControlInv, TypeOK
  <1>2. CASE TakeOutput(t) /\ at'[t] = "rebuilding"
    <2>1. at[t] = "output" /\ call[t] = "output" /\ Unlocked
      BY <1>1, <1>2 DEF TakeOutput, InPlace
    <2>2. /\ draining' \in BOOLEAN
          /\ context' = [context EXCEPT !.samples = FALSE, !.live = FALSE]
          /\ Clashes(~context.live \/ Meets(t, { "decoding", "message" }))
          /\ lock' = t /\ Goes(t, "rebuilding")
          /\ UNCHANGED << references, ending, pending, formatChange >>
      <3>1. ~Leaves(t) BY <1>1, <1>2 DEF Leaves, TypeOK
      <3>2. ASSUME NEW more \in BOOLEAN, draining' = (draining /\ more) PROVE draining' \in BOOLEAN
        BY <3>2
      <3> QED BY <1>2, <3>1, <3>2 DEF TakeOutput
    <2>3. Moves(t, "output", "rebuilding")
          /\ call' \in [Threads -> Calls \cup { "none", "destroy" }] /\ at' \in [Threads -> Places]
      BY <1>1, <2>1, <2>2, Going, PlaceFacts
    <2>4. context.live BY <2>1, LiveInCall
    <2>5. ~Meets(t, { "decoding" }) BY <2>1, Meeting
    <2>6. ~Meets(t, { "decoding", "message" })
      <3>1. ASSUME NEW u \in Threads, at[u] = "message" PROVE FALSE
        BY <2>1, <3>1, LifecycleAssumption DEF LifecycleInv, ControlInv, Holding, Unlocked
      <3> QED BY <2>5, <3>1 DEF Meets
    <2>7. clash' = FALSE BY <1>1, <2>2, <2>4, <2>6 DEF Clashes
    <2>8. context' \in Context /\ ~context'.live BY <1>1, <2>2 DEF TypeOK, Context
    <2>9. /\ UNCHANGED << owner, token, refCount, intRefCount >>
          /\ UNCHANGED << shutdownStarted, shutdown, eventQueue, destroyed >>
      BY <2>2 DEF references, ending
    <2>10. TypeOK' BY <1>1, <2>2, <2>3, <2>7, <2>8, <2>9 DEF TypeOK, Context
    <2>11. ~destroyed /\ \A u \in Threads : call[u] # "destroy" BY <2>1, NotEnded DEF Calls
    <2>12. ControlInv'
      BY <2>1, <2>2, <2>3, PlaceFacts, ControlKept DEF LifecycleInv, Unlocked
    <2>13. CountInv' /\ HolderInv'
      BY <2>1, <2>2, <2>3, CountKept DEF LifecycleInv, HolderInv, Calls
    <2>14. ReleaseInv' BY <2>1, <2>3, <2>9, ReleaseKept DEF LifecycleInv
    <2>15. ShutdownInv'
      BY <2>1, <2>3, <2>9, PlaceFacts, ShutdownKept DEF LifecycleInv, Shutting
    <2>16. LiveInv'
      <3>1. eventQueue = "open" BY <2>1 DEF LifecycleInv, LiveInv
      <3> QED BY <2>1, <2>3, <2>7, <2>8, <2>9, <3>1 DEF LifecycleInv, LiveInv, Moves, Deleting
    <2>17. EndInv' BY <2>3, <2>9, <2>11, EndKept DEF LifecycleInv
    <2> QED BY <2>10, <2>12, <2>13, <2>14, <2>15, <2>16, <2>17 DEF LifecycleInv
  <1>3. CASE Rebuild(t)
    <2>1. at[t] = "rebuilding" /\ call[t] = "output" /\ lock = t
      BY <1>1, <1>3 DEF Rebuild, InPlace, LifecycleInv, ControlInv, Holding
    <2>2. /\ context' = NewContext /\ formatChange' = FALSE /\ lock' = NoThread
          /\ UNCHANGED << references, ending, pending, draining, clash >>
      BY <1>3 DEF Rebuild
    <2>3. Moves(t, "none", "idle")
          /\ call' \in [Threads -> Calls \cup { "none", "destroy" }] /\ at' \in [Threads -> Places]
      BY <1>1, <1>3, Leaving DEF Rebuild
    <2>4. context' \in Context /\ context'.live BY <2>2 DEF NewContext, Context
    <2>5. /\ UNCHANGED << owner, token, refCount, intRefCount >>
          /\ UNCHANGED << shutdownStarted, shutdown, eventQueue, destroyed >>
      BY <2>2 DEF references, ending
    <2>6. TypeOK' BY <1>1, <2>2, <2>3, <2>4, <2>5 DEF TypeOK, Context
    <2>7. ~destroyed /\ \A u \in Threads : call[u] # "destroy" BY <2>1, NotEnded DEF Calls
    <2>8. ControlInv'
      BY <2>1, <2>2, <2>3, PlaceFacts, ControlKept DEF LifecycleInv, Calls, Holding
    <2>9. CountInv' /\ HolderInv' BY <2>1, <2>2, <2>3, CountKept DEF LifecycleInv, Calls
    <2>10. ReleaseInv' BY <2>1, <2>3, <2>5, ReleaseKept DEF LifecycleInv
    <2>11. ShutdownInv'
      BY <2>1, <2>3, <2>5, PlaceFacts, ShutdownKept DEF LifecycleInv, Shutting
    <2>12. eventQueue = "open" BY <2>1 DEF LifecycleInv, LiveInv
    <2>13. LiveInv' BY <1>1, <2>2, <2>3, <2>4, <2>5, <2>12 DEF LifecycleInv, LiveInv, Moves, Deleting
    <2>14. EndInv' BY <2>3, <2>5, <2>7, EndKept DEF LifecycleInv
    <2> QED BY <2>6, <2>8, <2>9, <2>10, <2>11, <2>13, <2>14 DEF LifecycleInv
  <1> QED BY <1>2, <1>3

-----------------------------------------------------------------------------
(***************************************************************************)
(* Shutdown, by a client, by the last Release and by the destructor.       *)
(***************************************************************************)

(* What every step of Shutdown leaves alone. *)
LEMMA ShutdownStep ==
  ASSUME LifecycleInv, NEW t \in Threads, NEW c, NEW p, Moves(t, c, p), InPlace(c, p),
         call' \in [Threads -> Calls \cup { "none", "destroy" }], at' \in [Threads -> Places],
         UNCHANGED << lock, references, pending, flags >>,
         context' \in Context, clash' = FALSE,
         shutdownStarted' \in BOOLEAN, shutdown' \in BOOLEAN,
         eventQueue' \in { "open", "released" }, destroyed' \in BOOLEAN,
         c \in { "none", call[t] } \/
           (c = "shutdown" /\ (\E r \in References : owner[r] = t)
             /\ \A u \in Threads \ { t } : call[u] \in Calls =>
                  Compatible(c, call[u]) /\ Compatible(call[u], c)),
         call[t] = "release" => c = "release", call[t] # "addref",
         c = "release" => at[t] # "internal",
         p \notin Holding
  PROVE  TypeOK' /\ ControlInv' /\ CountInv' /\ HolderInv' /\ ReleaseInv'
  <1>1. UNCHANGED << owner, token, refCount, intRefCount >> BY DEF references
  <1>2. TypeOK' BY <1>1 DEF LifecycleInv, TypeOK, Context, flags
  <1>3. ControlInv'
    <2>1. \/ c = call[t] \/ c \notin Calls
          \/ \A u \in Threads \ { t } : call[u] \in Calls =>
               Compatible(c, call[u]) /\ Compatible(call[u], c)
      BY DEF Calls
    <2> QED BY <2>1, ControlKept DEF LifecycleInv
  <1>4. c \in { "addref", "release" } <=> call[t] \in { "addref", "release" }
    OBVIOUS
  <1>5. c \in Calls \ { "release" } => \E r \in References : owner[r] = t
    BY DEF LifecycleInv, HolderInv, Calls
  <1>6. CountInv' /\ HolderInv' BY <1>4, <1>5, CountKept DEF LifecycleInv
  <1>7. c = "release" /\ p # "internal" => LastRelease(t) BY DEF LastRelease
  <1>8. ReleaseInv' BY <1>1, <1>7, ReleaseKept DEF LifecycleInv
  <1> QED BY <1>2, <1>3, <1>6, <1>8

(* A step of Shutdown that does not leave it brings the end no nearer. *)
LEMMA ShuttingEnd ==
  ASSUME LifecycleInv, NEW t \in Threads, call[t] # "none", NEW p, Moves(t, call[t], p),
         UNCHANGED << references, destroyed >>
  PROVE  EndInv'
  <1>1. ~destroyed
    <2>1. CASE call[t] = "destroy" BY <2>1 DEF LifecycleInv, EndInv
    <2>2. CASE call[t] # "destroy" BY <2>2, NotEnded DEF LifecycleInv, TypeOK
    <2> QED BY <2>1, <2>2
  <1>2. \A u \in Threads : call'[u] = call[u] BY DEF Moves
  <1> QED BY <1>1, <1>2 DEF LifecycleInv, EndInv, references

(* The first critical section, of a client's call. *)
LEMMA BeginShutdownStep ==
  ASSUME LifecycleInv, Disciplined, NEW t \in Threads, BeginShutdown(t)
  PROVE  LifecycleInv'
  <1>1. TypeOK /\ clash = FALSE BY DEF LifecycleInv, LiveInv, TypeOK
  <1>2. Moves(t, "shutdown", "closing") /\ MayCall(t, "shutdown")
          /\ call' \in [Threads -> Calls \cup { "none", "destroy" }] /\ at' \in [Threads -> Places]
    BY <1>1, Entering, PlaceFacts DEF BeginShutdown, Calls
  <1>3. call[t] = "none" /\ at[t] = "idle" /\ (\E r \in References : owner[r] = t) /\ ~destroyed
    BY <1>2, Calling DEF MayCall, Calls
  <1>4. /\ ~shutdown /\ shutdownStarted' = TRUE
        /\ UNCHANGED << lock, references, shutdown, eventQueue, destroyed, pending, context, flags, clash >>
    BY DEF BeginShutdown
  <1>5. \A u \in Threads \ { t } : call[u] \in Calls =>
          Compatible("shutdown", call[u]) /\ Compatible(call[u], "shutdown")
    BY <1>2, Calling DEF Calls
  <1>6. \A u \in Threads : at[u] \notin Shutting
    <2>1. ASSUME NEW u \in Threads, at[u] \in Shutting PROVE FALSE
      <3>1. call[u] = "shutdown" BY <1>2, <2>1, Calling DEF Calls
      <3>2. u # t BY <1>3, <3>1
      <3>3. Compatible("shutdown", "shutdown") BY <1>5, <3>1, <3>2 DEF Calls
      <3> QED BY <3>3 DEF Compatible
    <2> QED BY <2>1
  <1>7. eventQueue = "open"
    BY <1>1, <1>4, <1>6 DEF LifecycleInv, ShutdownInv, Shutting, TypeOK
  <1>8. "closing" \notin EventCalls BY PlaceFacts
  <1>9. InPlace("shutdown", "closing") BY LifecycleAssumption DEF InPlace, Shutting
  <1>10. TypeOK' /\ ControlInv' /\ CountInv' /\ HolderInv' /\ ReleaseInv'
    <2>1. "closing" \notin Holding BY LifecycleAssumption DEF Holding
    <2>2. context' \in Context /\ shutdown' \in BOOLEAN /\ destroyed' \in BOOLEAN
          /\ eventQueue' \in { "open", "released" }
      BY <1>1, <1>4 DEF TypeOK, Context
    <2> QED BY <1>1, <1>2, <1>3, <1>4, <1>5, <1>9, <2>1, <2>2, ShutdownStep
  <1>11. ShutdownInv'
    BY <1>2, <1>4, <1>6, <1>7, <1>8 DEF LifecycleInv, ShutdownInv, Moves, Shutting
  <1>12. LiveInv'
    BY <1>1, <1>2, <1>3, <1>4, LiveKept DEF LifecycleInv, Deleting
  <1>13. EndInv'
    BY <1>2, <1>4, Calling, EndKept DEF LifecycleInv, Calls
  <1> QED BY <1>10, <1>11, <1>12, <1>13 DEF LifecycleInv

(* The first critical section, of the last Release or of the destructor. *)
LEMMA CheckShutdownStep ==
  ASSUME LifecycleInv, NEW t \in Threads, CheckShutdown(t)
  PROVE  LifecycleInv'
  <1>1. TypeOK /\ clash = FALSE /\ InPlace(call[t], at[t])
    BY DEF LifecycleInv, LiveInv, ControlInv, TypeOK
  <1>2. at[t] = "shutdown" /\ call[t] \in { "release", "destroy" }
    BY <1>1, LifecycleAssumption DEF CheckShutdown, InPlace, Shutting, TypeOK, Calls
  <1>3. UNCHANGED << lock, references, shutdown, eventQueue, pending, context, flags, clash >>
    BY DEF CheckShutdown
  <1>4. context' \in Context /\ shutdown' \in BOOLEAN /\ eventQueue' \in { "open", "released" }
    BY <1>1, <1>3 DEF TypeOK, Context
  <1>5. \A p \in { "idle", "internal", "closing" } : p \notin Holding
    BY LifecycleAssumption DEF Holding
  <1>6. CASE shutdown /\ call[t] = "release"
    <2>1. Goes(t, "internal") /\ UNCHANGED << destroyed, shutdownStarted >>
      BY <1>6 DEF CheckShutdown, Resume
    <2>2. Moves(t, "release", "internal")
          /\ call' \in [Threads -> Calls \cup { "none", "destroy" }] /\ at' \in [Threads -> Places]
      BY <1>1, <1>6, <2>1, Going, PlaceFacts
    <2>4. InPlace("release", "internal") BY LifecycleAssumption DEF InPlace, Shutting
    <2>5. destroyed' \in BOOLEAN /\ shutdownStarted' \in BOOLEAN BY <1>1, <2>1 DEF TypeOK
    <2>6. TypeOK' /\ ControlInv' /\ CountInv' /\ HolderInv' /\ ReleaseInv'
      BY <1>1, <1>2, <1>3, <1>4, <1>5, <1>6, <2>1, <2>2, <2>4, <2>5, ShutdownStep
    <2>7. ShutdownInv'
      BY <1>2, <1>3, <2>1, <2>2, PlaceFacts, ShutdownKept DEF LifecycleInv, Shutting
    <2>8. LiveInv' BY <1>1, <1>2, <1>3, <2>1, <2>2, LiveKept DEF LifecycleInv, Deleting
    <2>9. ~destroyed /\ \A u \in Threads : call[u] # "destroy" BY <1>6, NotEnded DEF Calls
    <2>10. EndInv' BY <2>1, <2>2, <2>9, EndKept DEF LifecycleInv
    <2> QED BY <2>6, <2>7, <2>8, <2>10 DEF LifecycleInv
  <1>7. CASE shutdown /\ call[t] = "destroy"
    <2>1. Leaves(t) /\ destroyed' = TRUE /\ UNCHANGED shutdownStarted
      BY <1>7 DEF CheckShutdown, Resume
    <2>2. Moves(t, "none", "idle")
          /\ call' \in [Threads -> Calls \cup { "none", "destroy" }] /\ at' \in [Threads -> Places]
      BY <1>1, <2>1, Leaving
    <2>3. destroyed' \in BOOLEAN /\ shutdownStarted' \in BOOLEAN BY <1>1, <2>1 DEF TypeOK
    <2>4. TypeOK' /\ ControlInv' /\ CountInv' /\ HolderInv' /\ ReleaseInv'
      BY <1>1, <1>2, <1>3, <1>4, <1>5, <1>7, <2>1, <2>2, <2>3, PlaceFacts, ShutdownStep
    <2>5. ShutdownInv'
      BY <1>2, <1>3, <2>1, <2>2, PlaceFacts, ShutdownKept DEF LifecycleInv, Shutting
    <2>6. LiveInv' BY <1>1, <1>2, <1>3, <2>1, <2>2, LiveKept DEF LifecycleInv, Deleting
    <2>7. EndInv'
      <3>1. intRefCount' = 0 /\ shutdown' BY <1>3, <1>7 DEF references, LifecycleInv, EndInv
      <3> QED BY <1>7, <2>2, <3>1 DEF LifecycleInv, EndInv, Moves
    <2> QED BY <2>4, <2>5, <2>6, <2>7 DEF LifecycleInv
  <1>8. CASE ~shutdown
    <2>1. Goes(t, "closing") /\ shutdownStarted' = TRUE /\ UNCHANGED destroyed
      BY <1>8 DEF CheckShutdown
    <2>2. Moves(t, call[t], "closing")
          /\ call' \in [Threads -> Calls \cup { "none", "destroy" }] /\ at' \in [Threads -> Places]
      BY <1>1, <2>1, Going, PlaceFacts
    <2>3. \A u \in Threads : at[u] \notin Shutting
      <3>1. ASSUME NEW u \in Threads, at[u] \in Shutting PROVE FALSE
        <4>1. u # t BY <1>2, <3>1 DEF Shutting
        <4> QED BY <1>2, <3>1, <4>1, ShutsAlone DEF LastRelease
      <3> QED BY <3>1
    <2>4. eventQueue = "open"
      BY <1>1, <1>8, <2>3 DEF LifecycleInv, ShutdownInv, Shutting, TypeOK
    <2>5. InPlace(call[t], "closing") BY <1>2, LifecycleAssumption DEF InPlace, Shutting
    <2>6. destroyed' \in BOOLEAN /\ shutdownStarted' \in BOOLEAN BY <1>1, <2>1 DEF TypeOK
    <2>7. TypeOK' /\ ControlInv' /\ CountInv' /\ HolderInv' /\ ReleaseInv'
      BY <1>1, <1>2, <1>3, <1>4, <1>5, <2>1, <2>2, <2>5, <2>6, ShutdownStep
    <2>8. ShutdownInv'
      BY <1>3, <1>8, <2>1, <2>2, <2>3, <2>4, PlaceFacts
         DEF LifecycleInv, ShutdownInv, Moves, Shutting
    <2>9. LiveInv' BY <1>1, <1>2, <1>3, <2>1, <2>2, LiveKept DEF LifecycleInv, Deleting
    <2>10. EndInv' BY <1>2, <1>3, <2>1, <2>2, ShuttingEnd
    <2> QED BY <2>7, <2>8, <2>9, <2>10 DEF LifecycleInv
  <1> QED BY <1>1, <1>2, <1>6, <1>7, <1>8 DEF TypeOK

(* Between the critical sections, the second of them, and what follows. *)
LEMMA ShutdownSteps ==
  ASSUME LifecycleInv, NEW t \in Threads, CloseQueue(t) \/ MarkShutdown(t) \/ Dispose(t)
  PROVE  LifecycleInv'
  <1>1. TypeOK /\ clash = FALSE /\ InPlace(call[t], at[t])
    BY DEF LifecycleInv, LiveInv, ControlInv, TypeOK
  <1>2. at[t] \in Shutting BY DEF CloseQueue, MarkShutdown, Dispose, Shutting
  <1>3. call[t] \in { "shutdown", "release", "destroy" }
    BY <1>1, <1>2, LifecycleAssumption DEF InPlace, Shutting, TypeOK, Calls
  <1>4. \A u \in Threads \ { t } :
          /\ call[u] \in { "none", "addref", "release" }
          /\ at[u] \notin Shutting \cup EventCalls \cup { "rebuilding" }
    BY <1>2, ShutsAlone
  <1>5. \A p \in { "idle", "internal", "marking", "disposing" } : p \notin Holding
    BY LifecycleAssumption DEF Holding
  <1>6. at[t] \notin { "internal", "shutdown", "rebuilding" } BY <1>2 DEF Shutting
  <1>7. \A p \in Shutting : InPlace(call[t], p)
    BY <1>3, LifecycleAssumption DEF InPlace, Shutting
  <1>8. at[t] \in { "closing", "marking", "disposing" } => context.live
    <2>1. at[t] = "closing" => eventQueue = "open" BY DEF LifecycleInv, ShutdownInv
    <2>2. \A u \in Threads : at[u] # "rebuilding" BY <1>4, <1>6
    <2> QED BY <2>1, <2>2 DEF LifecycleInv, LiveInv, Deleting
  <1>9. CASE CloseQueue(t)
    <2>1. /\ at[t] = "closing" /\ eventQueue' = "released" /\ Goes(t, "marking")
          /\ UNCHANGED << lock, references, shutdownStarted, shutdown, destroyed, pending, context, flags, clash >>
      BY <1>9 DEF CloseQueue
    <2>2. Moves(t, call[t], "marking")
          /\ call' \in [Threads -> Calls \cup { "none", "destroy" }] /\ at' \in [Threads -> Places]
      BY <1>1, <2>1, Going, PlaceFacts
    <2>3. context' \in Context /\ shutdown' \in BOOLEAN /\ shutdownStarted' \in BOOLEAN /\ destroyed' \in BOOLEAN
      BY <1>1, <2>1 DEF TypeOK, Context
    <2>4. InPlace(call[t], "marking") BY <1>7 DEF Shutting
    <2>5. TypeOK' /\ ControlInv' /\ CountInv' /\ HolderInv' /\ ReleaseInv'
      BY <1>1, <1>3, <1>5, <1>6, <2>1, <2>2, <2>3, <2>4, ShutdownStep
    <2>6. ShutdownInv'
      <3>1. ~shutdown BY <2>1 DEF LifecycleInv, ShutdownInv
      <3>2. \A u \in Threads : at'[u] \in Shutting \cup EventCalls => at'[u] = "marking"
        BY <1>4, <2>2 DEF Moves
      <3>3. at'[t] = "marking" /\ "marking" \notin EventCalls BY <2>2, PlaceFacts DEF Moves
      <3> QED BY <2>1, <3>1, <3>2, <3>3 DEF ShutdownInv, Shutting
    <2>7. LiveInv'
      <3>1. at'[t] = "marking" /\ context'.live BY <1>8, <2>1, <2>2 DEF Moves
      <3>2. \A u \in Threads : call'[u] \notin { "input", "output", "message" }
        BY <1>3, <1>4, <2>2 DEF Moves
      <3> QED BY <1>1, <2>1, <3>1, <3>2 DEF LiveInv, Deleting
    <2>8. EndInv' BY <1>3, <2>1, <2>2, ShuttingEnd
    <2> QED BY <2>5, <2>6, <2>7, <2>8 DEF LifecycleInv
  <1>10. CASE MarkShutdown(t)
    <2>1. /\ at[t] = "marking" /\ shutdown' = TRUE /\ Goes(t, "disposing")
          /\ UNCHANGED << lock, references, shutdownStarted, eventQueue, destroyed, pending, context, flags, clash >>
      BY <1>10 DEF MarkShutdown
    <2>2. Moves(t, call[t], "disposing")
          /\ call' \in [Threads -> Calls \cup { "none", "destroy" }] /\ at' \in [Threads -> Places]
      BY <1>1, <2>1, Going, PlaceFacts
    <2>3. /\ context' \in Context /\ shutdownStarted' \in BOOLEAN /\ destroyed' \in BOOLEAN
          /\ eventQueue' \in { "open", "released" } /\ shutdown' \in BOOLEAN
      BY <1>1, <2>1 DEF TypeOK, Context
    <2>4. InPlace(call[t], "disposing") BY <1>7 DEF Shutting
    <2>5. TypeOK' /\ ControlInv' /\ CountInv' /\ HolderInv' /\ ReleaseInv'
      BY <1>1, <1>3, <1>5, <1>6, <2>1, <2>2, <2>3, <2>4, ShutdownStep
    <2>6. eventQueue = "released" BY <2>1 DEF LifecycleInv, ShutdownInv
    <2>7. ShutdownInv'
      <3>1. \A u \in Threads : at'[u] \in Shutting \cup EventCalls => at'[u] = "disposing"
        BY <1>4, <2>2 DEF Moves
      <3>2. at'[t] = "disposing" /\ "disposing" \notin EventCalls BY <2>2, PlaceFacts DEF Moves
      <3> QED BY <2>1, <2>6, <3>1, <3>2 DEF ShutdownInv, Shutting
    <2>8. LiveInv'
      <3>1. at'[t] = "disposing" /\ context'.live BY <1>8, <2>1, <2>2 DEF Moves
      <3>2. \A u \in Threads : call'[u] \notin { "input", "output", "message" }
        BY <1>3, <1>4, <2>2 DEF Moves
      <3> QED BY <1>1, <2>1, <3>1, <3>2 DEF LiveInv, Deleting
    <2>9. EndInv'
      <3>1. UNCHANGED << references, destroyed >> BY <2>1
      <3> QED BY <1>3, <2>2, <3>1, ShuttingEnd
    <2> QED BY <2>5, <2>7, <2>8, <2>9 DEF LifecycleInv
  <1>11. CASE Dispose(t)
    <2>1. /\ at[t] = "disposing" /\ context' = [context EXCEPT !.live = FALSE] /\ Resume(t)
          /\ Clashes(~context.live \/ Meets(t, { "type", "decoding", "message" }))
          /\ UNCHANGED << lock, references, shutdownStarted, shutdown, eventQueue, pending, flags >>
      BY <1>11 DEF Dispose
    <2>2. PICK c, p : /\ \/ c = "none" /\ p = "idle" /\ call[t] = "shutdown" /\ UNCHANGED destroyed
                         \/ c = "none" /\ p = "idle" /\ call[t] = "destroy" /\ destroyed' = TRUE
                         \/ c = "release" /\ p = "internal" /\ call[t] = "release" /\ UNCHANGED destroyed
                      /\ Moves(t, c, p)
                      /\ call' \in [Threads -> Calls \cup { "none", "destroy" }] /\ at' \in [Threads -> Places]
      <3>1. CASE call[t] = "shutdown"
        <4>1. Leaves(t) /\ UNCHANGED destroyed BY <2>1, <3>1 DEF Resume
        <4> QED BY <1>1, <3>1, <4>1, Leaving
      <3>2. CASE call[t] = "release"
        <4>1. Goes(t, "internal") /\ UNCHANGED destroyed BY <2>1, <3>2 DEF Resume
        <4> QED BY <1>1, <3>2, <4>1, Going, PlaceFacts
      <3>3. CASE call[t] = "destroy"
        <4>1. Leaves(t) /\ destroyed' = TRUE BY <2>1, <3>3 DEF Resume
        <4> QED BY <1>1, <3>3, <4>1, Leaving
      <3> QED BY <1>3, <3>1, <3>2, <3>3
    <2>3. context' \in Context /\ ~context'.live BY <1>1, <2>1 DEF TypeOK, Context
    <2>4. clash' = FALSE
      <3>1. \A u \in Threads \ { t } : at[u] \notin { "type", "decoding", "message" }
        BY <1>4 DEF LifecycleInv, ControlInv, InPlace
      <3> QED BY <1>1, <1>8, <2>1, <3>1 DEF Clashes, Meets
    <2>5. shutdownStarted' \in BOOLEAN /\ shutdown' \in BOOLEAN
          /\ eventQueue' \in { "open", "released" } /\ destroyed' \in BOOLEAN
      BY <1>1, <2>1, <2>2 DEF TypeOK
    <2>6. InPlace(c, p) /\ p \notin Holding
      BY <1>5, <2>2, PlaceFacts, LifecycleAssumption DEF InPlace, Shutting
    <2>7. TypeOK' /\ ControlInv' /\ CountInv' /\ HolderInv' /\ ReleaseInv'
      BY <1>1, <1>3, <1>6, <2>1, <2>2, <2>3, <2>4, <2>5, <2>6, ShutdownStep
    <2>8. shutdown /\ eventQueue = "released" BY <2>1 DEF LifecycleInv, ShutdownInv
    <2>9. \A u \in Threads : at'[u] \notin Shutting \cup EventCalls
      BY <1>4, <2>2, PlaceFacts DEF Moves, Shutting
    <2>10. ShutdownInv' BY <2>1, <2>8, <2>9 DEF ShutdownInv, Shutting
    <2>11. LiveInv'
      <3>1. \A u \in Threads : call'[u] \notin { "input", "output", "message" }
        BY <1>4, <2>2 DEF Moves
      <3> QED BY <2>1, <2>3, <2>4, <2>8, <2>9, <3>1 DEF LiveInv, Deleting, Shutting
    <2>12. EndInv'
      <3>1. \A u \in Threads \ { t } : call'[u] # "destroy" BY <1>4, <2>2 DEF Moves
      <3>2. call'[t] # "destroy" /\ shutdown' BY <2>1, <2>2, <2>8 DEF Moves
      <3>3. destroyed' => intRefCount' = 0
        BY <1>3, <2>1, <2>2, NotEnded DEF LifecycleInv, EndInv, references
      <3> QED BY <3>1, <3>2, <3>3 DEF LifecycleInv, EndInv
    <2> QED BY <2>7, <2>10, <2>11, <2>12 DEF LifecycleInv
  <1> QED BY <1>9, <1>10, <1>11

-----------------------------------------------------------------------------
(***************************************************************************)
(* The counts.                                                             *)
(***************************************************************************)

(* What a step of AddRef or Release keeps besides them. *)
LEMMA ReferenceStep ==
  ASSUME LifecycleInv, NEW t \in Threads, NEW c, NEW p, Moves(t, c, p), InPlace(c, p),
         call' \in [Threads -> Calls \cup { "none", "destroy" }], at' \in [Threads -> Places],
         owner' \in [References -> Threads \cup { NoThread }],
         token' \in [Threads -> References \cup { NoReference }],
         UNCHANGED << lock, ending, pending, context, flags, clash >>,
         c \in { "none", "destroy", "addref", "release" },
         call[t] \in { "none", "addref", "release" },
         at[t] \notin Shutting, p \notin Shutting \cup Holding,
         refCount' \in Int, intRefCount' \in Int,
         CountInv', HolderInv', ReleaseInv', EndInv'
  PROVE  LifecycleInv'
  <1>1. UNCHANGED << shutdownStarted, shutdown, eventQueue, destroyed >> BY DEF ending
  <1>2. TypeOK /\ clash = FALSE /\ InPlace(call[t], at[t])
    BY DEF LifecycleInv, LiveInv, ControlInv, TypeOK
  <1>3. refCount' \in Nat /\ intRefCount' \in Nat
    <2>1. Held' \in SUBSET References /\ Moving' \in SUBSET References BY DEF Held, Moving
    <2>2. ASSUME NEW S \in SUBSET References PROVE Cardinality(S) \in Nat BY Finite
    <2> QED BY <2>1, <2>2 DEF CountInv
  <1>4. TypeOK' BY <1>1, <1>2, <1>3 DEF TypeOK, flags
  <1>5. ControlInv'
    <2>1. \/ c = call[t] \/ c \notin Calls
          \/ \A u \in Threads \ { t } : call[u] \in Calls =>
               Compatible(c, call[u]) /\ Compatible(call[u], c)
      BY DEF Calls, Compatible
    <2> QED BY <2>1, ControlKept DEF LifecycleInv
  <1>6. ShutdownInv' BY <1>1, ShutdownKept DEF LifecycleInv, Holding
  <1>7. LiveInv'
    <2>1. ~Deleting(t) /\ at[t] # "rebuilding"
      BY <1>2, LifecycleAssumption DEF InPlace, Shutting, Deleting
    <2>2. p \notin { "marking", "disposing" } BY DEF Shutting
    <2> QED BY <1>1, <1>2, <2>1, <2>2, LiveKept DEF LifecycleInv
  <1> QED BY <1>4, <1>5, <1>6, <1>7 DEF LifecycleInv

(* The numbers of references held, and of those in hand or on their way. *)
LEMMA Counted ==
  ASSUME LifecycleInv
  PROVE  /\ refCount >= Cardinality(Held) /\ intRefCount >= Cardinality(Held \cup Moving)
         /\ IsFiniteSet(Held) /\ IsFiniteSet(Held \cup Moving)
         /\ Cardinality(Held) \in Nat /\ Cardinality(Held \cup Moving) \in Nat
         /\ refCount \in Nat /\ intRefCount \in Nat
  <1>1. Held \in SUBSET References /\ Held \cup Moving \in SUBSET References BY HeldIsSubset
  <1> QED BY <1>1, Finite DEF LifecycleInv, CountInv, TypeOK

LEMMA AddRefSteps ==
  ASSUME LifecycleInv, Disciplined, NEW t \in Threads, BeginAddRef(t) \/ EndAddRef(t)
  PROVE  LifecycleInv'
  <1>1. TypeOK /\ CountInv /\ HolderInv /\ InPlace(call[t], at[t])
    BY DEF LifecycleInv, ControlInv
  <1>2. CASE BeginAddRef(t)
    <2>1. Moves(t, "addref", "addref") /\ MayCall(t, "addref")
          /\ call' \in [Threads -> Calls \cup { "none", "destroy" }] /\ at' \in [Threads -> Places]
      BY <1>1, <1>2, Entering, PlaceFacts DEF BeginAddRef, Calls
    <2>2. call[t] = "none" /\ at[t] = "idle" /\ (\E r \in References : owner[r] = t) /\ ~destroyed
          /\ \A u \in Threads : call[u] # "destroy"
      BY <2>1, Calling DEF MayCall, Calls
    <2>3. PICK r \in References :
            /\ owner[r] = NoThread /\ \A u \in Threads : token[u] # r
            /\ token' = [token EXCEPT ![t] = r]
      BY <1>2 DEF BeginAddRef
    <2>4. intRefCount' = intRefCount + 1
          /\ UNCHANGED << lock, owner, refCount, ending, pending, context, flags, clash >>
      BY <1>2 DEF BeginAddRef
    <2>5. token[t] = NoReference BY <1>1, <2>2 DEF CountInv
    <2>6. token' \in [Threads -> References \cup { NoReference }] /\ token'[t] = r
          /\ \A u \in Threads \ { t } : token'[u] = token[u]
      BY <1>1, <2>3 DEF TypeOK
    <2>7. Held' = Held BY <2>4 DEF Held
    <2>8. Moving' = Moving \cup { r }
      BY <2>3, <2>5, <2>6, LifecycleAssumption DEF Moving
    <2>9. r \notin Held /\ r \notin Moving /\ r # NoReference
      BY <2>3, LifecycleAssumption DEF Held, Moving
    <2>10. CountInv'
      <3>1. Held' \cup Moving' = (Held \cup Moving) \cup { r } BY <2>7, <2>8
      <3>2. Cardinality((Held \cup Moving) \cup { r }) = Cardinality(Held \cup Moving) + 1
        BY <2>9, Counted, FS_AddElement
      <3>3. intRefCount' >= Cardinality(Held' \cup Moving')
        <4>1. Cardinality(Held' \cup Moving') = Cardinality(Held \cup Moving) + 1 BY <3>1, <3>2
        <4>2. intRefCount >= Cardinality(Held \cup Moving) /\ intRefCount \in Nat
          BY Counted
        <4>3. Cardinality(Held \cup Moving) \in Nat BY Counted
        <4> QED BY <2>4, <4>1, <4>2, <4>3
      <3>4. refCount' >= Cardinality(Held') BY <2>4, <2>7, Counted
      <3>5. Held' \cap Moving' = { } BY <1>1, <2>7, <2>8, <2>9 DEF CountInv
      <3>6. ASSUME NEW u \in Threads, NEW v \in Threads, u # v, token'[u] # NoReference
            PROVE  token'[u] # token'[v]
        <4>1. CASE u = t BY <2>3, <2>6, <3>6, <4>1
        <4>2. CASE v = t BY <2>3, <2>6, <3>6, <4>2
        <4>3. CASE u # t /\ v # t BY <1>1, <2>6, <3>6, <4>3 DEF CountInv
        <4> QED BY <4>1, <4>2, <4>3
      <3>7. \A u \in Threads : token'[u] # NoReference <=> call'[u] \in { "addref", "release" }
        BY <1>1, <2>1, <2>6, <2>9 DEF CountInv, Moves
      <3> QED BY <3>3, <3>4, <3>5, <3>6, <3>7 DEF CountInv
    <2>11. HolderInv' BY <1>1, <2>1, <2>2, <2>4 DEF HolderInv, Moves
    <2>12. UNCHANGED destroyed BY <2>4 DEF ending
    <2>13. ReleaseInv' BY <2>1, <2>2, <2>4, ReleaseKept DEF LifecycleInv
    <2>14. EndInv' BY <2>1, <2>2, <2>12, EndKept DEF LifecycleInv
    <2>15. owner' \in [References -> Threads \cup { NoThread }] BY <1>1, <2>4 DEF TypeOK
    <2>16. "addref" \notin Shutting \cup Holding /\ at[t] \notin Shutting
      BY <2>2, PlaceFacts DEF Shutting, Holding
    <2>17. refCount' \in Int /\ intRefCount' \in Int BY <2>4, Counted
    <2> QED BY <2>1, <2>2, <2>4, <2>6, <2>10, <2>11, <2>13, <2>14, <2>15, <2>16, <2>17,
               PlaceFacts, ReferenceStep
  <1>3. CASE EndAddRef(t)
    <2>1. at[t] = "addref" /\ call[t] = "addref" BY <1>1, <1>3 DEF EndAddRef, InPlace
    <2>2. PICK q : q = token[t] OBVIOUS
    <2>3. PICK w \in Threads : owner' = [owner EXCEPT ![q] = w]
      BY <1>3, <2>2 DEF EndAddRef
    <2>4. refCount' = refCount + 1 /\ token' = [token EXCEPT ![t] = NoReference]
          /\ UNCHANGED << lock, intRefCount, ending, pending, context, flags, clash >>
      BY <1>3 DEF EndAddRef
    <2>5. Moves(t, "none", "idle")
          /\ call' \in [Threads -> Calls \cup { "none", "destroy" }] /\ at' \in [Threads -> Places]
      BY <1>1, <1>3, Leaving DEF EndAddRef
    <2>6. q \in References /\ q # NoReference
      BY <1>1, <2>1, <2>2, LifecycleAssumption DEF TypeOK, CountInv
    <2>7. q \in Moving /\ q \notin Held BY <1>1, <2>2, <2>6 DEF Moving, CountInv
    <2>8. token' \in [Threads -> References \cup { NoReference }] /\ token'[t] = NoReference
          /\ \A u \in Threads \ { t } : token'[u] = token[u]
      BY <1>1, <2>4 DEF TypeOK
    <2>9. owner' \in [References -> Threads \cup { NoThread }] /\ owner'[q] = w
          /\ \A r \in References \ { q } : owner'[r] = owner[r]
      BY <1>1, <2>3, <2>6 DEF TypeOK
    <2>10. Held' = Held \cup { q } BY <2>6, <2>9, LifecycleAssumption DEF Held
    <2>11. Moving' = Moving \ { q }
      <3>1. \A u \in Threads \ { t } : token[u] # q BY <1>1, <2>2, <2>6 DEF CountInv
      <3> QED BY <2>2, <2>6, <2>8, <3>1, LifecycleAssumption DEF Moving
    <2>12. CountInv'
      <3>1. Held' \cup Moving' = Held \cup Moving BY <2>7, <2>10, <2>11
      <3>2. Cardinality(Held \cup { q }) = Cardinality(Held) + 1
        BY <2>7, Counted, FS_AddElement
      <3>3. refCount' >= Cardinality(Held') BY <2>4, <2>10, <3>2, Counted
      <3>4. intRefCount' >= Cardinality(Held' \cup Moving') BY <2>4, <3>1, Counted
      <3>5. Held' \cap Moving' = { } BY <1>1, <2>10, <2>11 DEF CountInv
      <3>6. \A u, v \in Threads : u # v /\ token'[u] # NoReference => token'[u] # token'[v]
        BY <1>1, <2>8 DEF CountInv
      <3>7. \A u \in Threads : token'[u] # NoReference <=> call'[u] \in { "addref", "release" }
        BY <1>1, <2>5, <2>8 DEF CountInv, Moves
      <3> QED BY <3>3, <3>4, <3>5, <3>6, <3>7 DEF CountInv
    <2>13. HolderInv'
      <3>1. ASSUME NEW u \in Threads, call'[u] \in Calls \ { "release" }
            PROVE  \E r \in References : owner'[r] = u
        <4>1. u # t BY <2>5, <3>1 DEF Moves, Calls
        <4>2. PICK r \in References : owner[r] = u BY <1>1, <2>5, <3>1, <4>1 DEF HolderInv, Moves
        <4>3. r # q BY <2>6, <2>7, <4>2, LifecycleAssumption DEF Held
        <4> QED BY <2>9, <4>2, <4>3
      <3> QED BY <3>1 DEF HolderInv
    <2>14. ~destroyed /\ Held # { } /\ \A u \in Threads : call[u] # "destroy"
      BY <2>1, NotEnded DEF Calls
    <2>15. UNCHANGED destroyed BY <2>4 DEF ending
    <2>16. ReleaseInv'
      <3>1. \A u \in Threads : ~LastRelease(u) BY <2>14 DEF LifecycleInv, ReleaseInv
      <3>2. \A u \in Threads : ~LastRelease(u)' BY <2>5, <3>1 DEF LastRelease, Moves
      <3> QED BY <3>2 DEF ReleaseInv
    <2>17. EndInv' BY <2>5, <2>14, <2>15, EndKept DEF LifecycleInv
    <2>18. "idle" \notin Shutting \cup Holding /\ at[t] \notin Shutting
      BY <2>1, PlaceFacts DEF Shutting, Holding
    <2>19. refCount' \in Int /\ intRefCount' \in Int BY <2>4, Counted
    <2> QED BY <2>1, <2>4, <2>5, <2>8, <2>9, <2>12, <2>13, <2>16, <2>17, <2>18, <2>19,
               PlaceFacts, ReferenceStep
  <1> QED BY <1>2, <1>3

(* Release's first half: the reference is given back, the decoder still counted on. *)
LEMMA BeginReleaseStep ==
  ASSUME LifecycleInv, Disciplined, NEW t \in Threads, BeginRelease(t)
  PROVE  LifecycleInv'
  <1>1. TypeOK /\ CountInv /\ HolderInv BY DEF LifecycleInv
  <1>2. PICK r \in References :
          /\ owner[r] = t /\ owner' = [owner EXCEPT ![r] = NoThread]
          /\ token' = [token EXCEPT ![t] = r]
    BY DEF BeginRelease
  <1> DEFINE p == IF refCount' = 0 /\ ~shutdownStarted THEN "shutdown" ELSE "internal"
  <1>3. /\ refCount' = refCount - 1 /\ Enters(t, "release", p)
        /\ UNCHANGED << lock, intRefCount, ending, pending, context, flags, clash >>
    BY DEF BeginRelease
  <1>4. PICK place \in { "shutdown", "internal" } :
          /\ Enters(t, "release", place)
          /\ place = "shutdown" <=> refCount' = 0 /\ ~shutdownStarted
    BY <1>3
  <1> HIDE DEF p
  <1>5. Moves(t, "release", place) /\ MayCall(t, "release")
          /\ call' \in [Threads -> Calls \cup { "none", "destroy" }] /\ at' \in [Threads -> Places]
    BY <1>1, <1>4, Entering, PlaceFacts DEF Calls
  <1>6. /\ call[t] = "none" /\ at[t] = "idle" /\ ~destroyed
        /\ \A u \in Threads : call[u] # "destroy" /\ ~LastRelease(u)
    BY <1>5, Calling DEF Calls
  <1>7. token[t] = NoReference BY <1>1, <1>6 DEF CountInv
  <1>8. token' \in [Threads -> References \cup { NoReference }] /\ token'[t] = r
        /\ \A u \in Threads \ { t } : token'[u] = token[u]
    BY <1>1, <1>2 DEF TypeOK
  <1>9. owner' \in [References -> Threads \cup { NoThread }] /\ owner'[r] = NoThread
        /\ \A q \in References \ { r } : owner'[q] = owner[q]
    BY <1>1, <1>2 DEF TypeOK
  <1>10. r \in Held /\ r # NoReference BY <1>2, LifecycleAssumption DEF Held
  <1>11. Held' = Held \ { r } BY <1>9 DEF Held
  <1>12. Moving' = Moving \cup { r } BY <1>7, <1>8, LifecycleAssumption DEF Moving
  <1>13. refCount' >= Cardinality(Held')
    <2>1. Cardinality(Held \ { r }) = Cardinality(Held) - 1 BY <1>10, Counted, FS_RemoveElement
    <2> QED BY <1>3, <1>11, <2>1, Counted
  <1>14. CountInv'
    <2>1. Held' \cup Moving' = Held \cup Moving BY <1>10, <1>11, <1>12
    <2>2. intRefCount' >= Cardinality(Held' \cup Moving') BY <1>3, <2>1, Counted
    <2>3. Held' \cap Moving' = { } BY <1>1, <1>11, <1>12 DEF CountInv
    <2>4. \A u \in Threads : token[u] # r
      <3>1. r \notin Moving BY <1>1, <1>10 DEF CountInv
      <3> QED BY <3>1 DEF Moving
    <2>5. ASSUME NEW u \in Threads, NEW v \in Threads, u # v, token'[u] # NoReference
          PROVE  token'[u] # token'[v]
      <3>1. CASE u = t BY <1>8, <2>4, <2>5, <3>1
      <3>2. CASE v = t BY <1>8, <2>4, <2>5, <3>2
      <3>3. CASE u # t /\ v # t BY <1>1, <1>8, <2>5, <3>3 DEF CountInv
      <3> QED BY <3>1, <3>2, <3>3
    <2>6. \A u \in Threads : token'[u] # NoReference <=> call'[u] \in { "addref", "release" }
      BY <1>1, <1>5, <1>8, <1>10 DEF CountInv, Moves
    <2> QED BY <1>13, <2>2, <2>3, <2>5, <2>6 DEF CountInv
  <1>15. HolderInv'
    <2>1. ASSUME NEW u \in Threads, call'[u] \in Calls \ { "release" }
          PROVE  \E q \in References : owner'[q] = u
      <3>1. u # t BY <1>5, <2>1 DEF Moves
      <3>2. PICK q \in References : owner[q] = u BY <1>1, <1>5, <2>1, <3>1 DEF HolderInv, Moves
      <3>3. q # r BY <1>2, <3>1, <3>2
      <3> QED BY <1>9, <3>2, <3>3
    <2> QED BY <2>1 DEF HolderInv
  <1>16. UNCHANGED destroyed BY <1>3 DEF ending
  <1>17. refCount' = 0 => Held' = { }
    <2>1. Held' \in SUBSET References BY DEF Held
    <2>2. ASSUME NEW S \in SUBSET References PROVE Cardinality(S) \in Nat /\ (Cardinality(S) = 0 => S = { })
      BY Finite
    <2> QED BY <1>13, <2>1, <2>2
  <1>18. ReleaseInv'
    <2>1. \A u \in Threads : LastRelease(u)' => u = t /\ place = "shutdown"
      BY <1>5, <1>6 DEF LastRelease, Moves
    <2> QED BY <1>4, <1>17, <2>1 DEF ReleaseInv
  <1>19. EndInv' BY <1>5, <1>6, <1>16, EndKept DEF LifecycleInv
  <1>20. place \notin Shutting \cup Holding /\ at[t] \notin Shutting
    BY <1>6, PlaceFacts DEF Shutting, Holding
  <1>21. InPlace("release", place) BY LifecycleAssumption DEF InPlace, Shutting
  <1>22. refCount' \in Int /\ intRefCount' \in Int BY <1>3, Counted
  <1> QED BY <1>3, <1>5, <1>6, <1>8, <1>9, <1>14, <1>15, <1>18, <1>19, <1>20, <1>21, <1>22,
             ReferenceStep

(***************************************************************************)
(* Release's second half.  When the count comes to zero no reference is    *)
(* held or on its way, so nobody is in a call.                             *)
(***************************************************************************)
LEMMA ReleaseInternalStep ==
  ASSUME LifecycleInv, NEW t \in Threads, ReleaseInternal(t)
  PROVE  LifecycleInv'
  <1>1. TypeOK /\ CountInv /\ HolderInv /\ InPlace(call[t], at[t])
    BY DEF LifecycleInv, ControlInv
  <1>2. at[t] = "internal" /\ call[t] = "release"
    BY <1>1, LifecycleAssumption DEF ReleaseInternal, InPlace, Shutting, TypeOK, Calls
  <1>3. /\ intRefCount' = intRefCount - 1 /\ token' = [token EXCEPT ![t] = NoReference]
        /\ UNCHANGED << lock, owner, refCount, ending, pending, context, flags, clash >>
    BY DEF ReleaseInternal
  <1>4. PICK q : q = token[t] OBVIOUS
  <1>5. q \in References /\ q # NoReference
    BY <1>1, <1>2, <1>4, LifecycleAssumption DEF TypeOK, CountInv
  <1>6. q \in Moving /\ q \notin Held BY <1>1, <1>4, <1>5 DEF Moving, CountInv
  <1>7. token' \in [Threads -> References \cup { NoReference }] /\ token'[t] = NoReference
        /\ \A u \in Threads \ { t } : token'[u] = token[u]
    BY <1>1, <1>3 DEF TypeOK
  <1>8. Held' = Held BY <1>3 DEF Held
  <1>9. Moving' = Moving \ { q }
    <2>1. \A u \in Threads \ { t } : token[u] # q BY <1>1, <1>4, <1>5 DEF CountInv
    <2> QED BY <1>4, <1>5, <1>7, <2>1, LifecycleAssumption DEF Moving
  <1>10. intRefCount' >= Cardinality(Held' \cup Moving')
    <2>1. Held' \cup Moving' = (Held \cup Moving) \ { q } BY <1>6, <1>8, <1>9
    <2>2. Cardinality((Held \cup Moving) \ { q }) = Cardinality(Held \cup Moving) - 1
      BY <1>6, Counted, FS_RemoveElement
    <2> QED BY <1>3, <2>1, <2>2, Counted
  <1>11. PICK c \in { "none", "destroy" }, p \in { "idle", "shutdown" } :
           /\ c = "destroy" <=> intRefCount' = 0
           /\ c = "destroy" <=> p = "shutdown"
           /\ Moves(t, c, p)
           /\ call' \in [Threads -> Calls \cup { "none", "destroy" }] /\ at' \in [Threads -> Places]
    <2>1. CASE intRefCount' = 0
      <3>1. call' = [call EXCEPT ![t] = "destroy"] /\ at' = [at EXCEPT ![t] = "shutdown"]
        BY <2>1 DEF ReleaseInternal
      <3>2. /\ Moves(t, "destroy", "shutdown")
            /\ call' \in [Threads -> Calls \cup { "none", "destroy" }] /\ at' \in [Threads -> Places]
        BY <1>1, <3>1, PlaceFacts DEF TypeOK, Moves
      <3> QED BY <2>1, <3>2
    <2>2. CASE intRefCount' # 0
      <3>1. Leaves(t) BY <2>2 DEF ReleaseInternal
      <3>2. /\ Moves(t, "none", "idle")
            /\ call' \in [Threads -> Calls \cup { "none", "destroy" }] /\ at' \in [Threads -> Places]
        BY <1>1, <3>1, Leaving
      <3> QED BY <2>2, <3>2
    <2> QED BY <2>1, <2>2
  <1>12. CountInv'
    <2>1. refCount' >= Cardinality(Held') BY <1>3, <1>8, Counted
    <2>2. Held' \cap Moving' = { } BY <1>1, <1>8, <1>9 DEF CountInv
    <2>3. \A u, v \in Threads : u # v /\ token'[u] # NoReference => token'[u] # token'[v]
      BY <1>1, <1>7 DEF CountInv
    <2>4. \A u \in Threads : token'[u] # NoReference <=> call'[u] \in { "addref", "release" }
      BY <1>1, <1>7, <1>11 DEF CountInv, Moves
    <2> QED BY <1>10, <2>1, <2>2, <2>3, <2>4 DEF CountInv
  <1>13. HolderInv' BY <1>1, <1>3, <1>11 DEF HolderInv, Moves, Calls
  <1>14. UNCHANGED << shutdown, destroyed >> BY <1>3 DEF ending
  <1>15. ReleaseInv' BY <1>2, <1>3, <1>11, ReleaseKept DEF LifecycleInv
  <1>16. ~destroyed /\ \A u \in Threads : call[u] # "destroy" BY <1>2, NotEnded DEF Calls
  <1>17. EndInv'
    <2>1. CASE c # "destroy" BY <1>11, <1>14, <1>16, <2>1, EndKept DEF LifecycleInv
    <2>2. CASE c = "destroy"
      <3>1. \A u, v \in Threads : u # v => ~(call'[u] = "destroy" /\ call'[v] = "destroy")
        BY <1>11, <1>16 DEF Moves
      <3> QED BY <1>11, <1>14, <1>16, <2>2, <3>1 DEF LifecycleInv, EndInv
    <2> QED BY <2>1, <2>2
  <1>18. owner' \in [References -> Threads \cup { NoThread }] BY <1>1, <1>3 DEF TypeOK
  <1>19. p \notin Shutting \cup Holding /\ at[t] \notin Shutting
    BY <1>2, PlaceFacts DEF Shutting, Holding
  <1>20. InPlace(c, p) BY <1>11, LifecycleAssumption DEF InPlace, Shutting
  <1>21. refCount' \in Int /\ intRefCount' \in Int BY <1>3, Counted
  <1> QED BY <1>2, <1>3, <1>7, <1>11, <1>12, <1>13, <1>15, <1>17, <1>18, <1>19, <1>20, <1>21,
             ReferenceStep

-----------------------------------------------------------------------------
LEMMA LifecycleInitial == CountsNotNegative /\ LifecycleInit => LifecycleInv
  <1> SUFFICES ASSUME CountsNotNegative, LifecycleInit PROVE LifecycleInv OBVIOUS
  <1>1. PICK t \in Threads, r \in References :
          owner = [q \in References |-> IF q = r THEN t ELSE NoThread]
    BY DEF LifecycleInit
  <1>2. /\ call = [u \in Threads |-> "none"] /\ at = [u \in Threads |-> "idle"]
        /\ lock = NoThread /\ token = [u \in Threads |-> NoReference]
        /\ eventQueue = "open" /\ pending = FALSE /\ context = NewContext
        /\ formatChange = FALSE /\ draining = FALSE /\ destroyed = FALSE /\ clash = FALSE
    BY DEF LifecycleInit
  <1>3. PICK m \in Memory :
          /\ refCount = m.refCount + 1 /\ intRefCount = m.intRefCount + 1
          /\ shutdownStarted = m.shutdownStarted /\ shutdown = m.shutdown
    BY DEF LifecycleInit
  <1>4. /\ m \in [refCount : Int, intRefCount : Int, shutdownStarted : BOOLEAN, shutdown : BOOLEAN]
         /\ m.refCount >= 0 /\ m.intRefCount >= 0
    BY LifecycleAssumption DEF CountsNotNegative
  <1>5. /\ refCount \in Nat /\ intRefCount \in Nat /\ refCount >= 1 /\ intRefCount >= 1
         /\ shutdownStarted \in BOOLEAN /\ shutdown \in BOOLEAN
    BY <1>3, <1>4
  <1>6. NewContext \in Context /\ NewContext.live BY DEF NewContext, Context
  <1>7. owner \in [References -> Threads \cup { NoThread }] BY <1>1
  <1>8. TypeOK BY <1>2, <1>6, <1>7, <1>5 DEF TypeOK, Context, Places
  <1>9. Held = { r } /\ Moving = { }
    BY <1>1, <1>2, LifecycleAssumption DEF Held, Moving
  <1>10. CountInv
    <2>1. Held \cup Moving = { r } BY <1>9
    <2>2. Cardinality({ r }) = 1 BY FS_Singleton
    <2>3. refCount >= Cardinality(Held) /\ intRefCount >= Cardinality(Held \cup Moving)
      BY <1>9, <1>5, <2>1, <2>2
    <2> QED BY <1>2, <1>9, <2>3 DEF CountInv
  <1>11. ControlInv
    <2>1. "idle" \notin Holding BY PlaceFacts DEF Holding
    <2> QED BY <1>2, <2>1, PlaceFacts DEF ControlInv, Calls
  <1>12. HolderInv BY <1>2 DEF HolderInv, Calls
  <1>13. ReleaseInv BY <1>2, <1>9 DEF ReleaseInv, LastRelease
  <1>14. ShutdownInv
    <2>1. (\A n \in Memory : ~n.shutdown) => ~shutdown BY <1>3
    <2> QED BY <1>2, <2>1, PlaceFacts DEF ShutdownInv
  <1>15. LiveInv BY <1>2, <1>6 DEF LiveInv
  <1>16. EndInv BY <1>2 DEF EndInv
  <1> QED BY <1>8, <1>10, <1>11, <1>12, <1>13, <1>14, <1>15, <1>16 DEF LifecycleInv

LEMMA LifecycleStep == Disciplined /\ LifecycleInv /\ [LifecycleNext]_vars => LifecycleInv'
  <1> SUFFICES ASSUME Disciplined, LifecycleInv, [LifecycleNext]_vars PROVE LifecycleInv'
    OBVIOUS
  <1>1. CASE LifecycleNext
    <2>1. PICK t \in Threads : Begin(t) \/ Continue(t) BY <1>1 DEF LifecycleNext
    <2>2. CASE BeginInput(t) \/ StartDecode(t) \/ EndInput(t) BY <2>2, InputSteps
    <2>3. CASE StreamChange(t) \/ BeginOutput(t) BY <2>3, OutputSteps
    <2>4. CASE TakeOutput(t) \/ Rebuild(t) BY <2>4, OutputSteps, RebuildSteps
    <2>5. CASE CallMessage(t) \/ BeginMessage(t) \/ EndMessage(t) BY <2>5, MessageSteps
    <2>6. CASE BeginType(t) \/ EndType(t) BY <2>6, TypeSteps
    <2>7. CASE BeginEvent(t) \/ EndEvent(t) BY <2>7, EventSteps
    <2>8. CASE BeginShutdown(t) BY <2>8, BeginShutdownStep
    <2>9. CASE CheckShutdown(t) BY <2>9, CheckShutdownStep
    <2>10. CASE CloseQueue(t) \/ MarkShutdown(t) \/ Dispose(t) BY <2>10, ShutdownSteps
    <2>11. CASE BeginAddRef(t) \/ EndAddRef(t) BY <2>11, AddRefSteps
    <2>12. CASE BeginRelease(t) BY <2>12, BeginReleaseStep
    <2>13. CASE ReleaseInternal(t) BY <2>13, ReleaseInternalStep
    <2> QED BY <2>1, <2>2, <2>3, <2>4, <2>5, <2>6, <2>7, <2>8, <2>9, <2>10, <2>11, <2>12, <2>13
            DEF Begin, Continue
  <1>2. CASE UNCHANGED vars
    <2>1. /\ UNCHANGED << call, at, lock, owner, token, refCount, intRefCount >>
          /\ UNCHANGED << shutdownStarted, shutdown, eventQueue, destroyed, pending, context >>
          /\ UNCHANGED << formatChange, draining, clash >>
      BY <1>2 DEF vars, threads, references, ending, flags
    <2>2. TypeOK' BY <2>1 DEF LifecycleInv, TypeOK
    <2>3. ControlInv' BY <2>1 DEF LifecycleInv, ControlInv, InPlace, Compatible
    <2>4. CountInv' BY <2>1 DEF LifecycleInv, CountInv, Held, Moving
    <2>5. HolderInv' /\ ReleaseInv'
      BY <2>1 DEF LifecycleInv, HolderInv, ReleaseInv, LastRelease, Held
    <2>6. ShutdownInv' /\ LiveInv' /\ EndInv'
      BY <2>1 DEF LifecycleInv, ShutdownInv, LiveInv, Deleting, EndInv
    <2> QED BY <2>2, <2>3, <2>4, <2>5, <2>6 DEF LifecycleInv
  <1> QED BY <1>1, <1>2

LEMMA LifecycleInductive ==
  ASSUME Disciplined, CountsNotNegative PROVE LifecycleSpec => []LifecycleInv
  BY LifecycleInitial, LifecycleStep, PTL DEF LifecycleSpec

(***************************************************************************)
(* The theorems assume the discipline, and that what the counts begin with *)
(* is not negative: the code neither enforces the one nor sees to the      *)
(* other.  The flags of the shutdown may begin with any value.             *)
(***************************************************************************)

(* The decoder's variables keep their types, and no count goes below zero (AddRef, Release). *)
THEOREM LifecycleTypeCorrect ==
  ASSUME Disciplined, CountsNotNegative PROVE LifecycleSpec => []TypeOK
  <1>1. LifecycleInv => TypeOK BY DEF LifecycleInv
  <1> QED BY <1>1, LifecycleInductive, PTL

(***************************************************************************)
(* Kept to the discipline, any number of threads never use a deleted       *)
(* context, or a codec or type in the middle of a change, though messages  *)
(* wait for the lock while output is taken and the context made anew       *)
(* (ProcessMessage, ProcessOutput, Shutdown).                              *)
(***************************************************************************)
THEOREM NothingDisturbed ==
  ASSUME Disciplined, CountsNotNegative PROVE LifecycleSpec => []ContextUndisturbed
  <1>1. LifecycleInv => ContextUndisturbed BY DEF LifecycleInv, LiveInv, ContextUndisturbed
  <1> QED BY <1>1, LifecycleInductive, PTL

(* The event queue is used before its release only, and shut down once (Shutdown). *)
THEOREM QueueUsedBeforeRelease ==
  ASSUME Disciplined, CountsNotNegative PROVE LifecycleSpec => []EventQueueAlive
  <1>1. LifecycleInv => EventQueueAlive BY DEF LifecycleInv, ShutdownInv, EventQueueAlive
  <1> QED BY <1>1, LifecycleInductive, PTL

(***************************************************************************)
(* The decoder is destroyed once, after everything: no reference is left   *)
(* and nobody is in a call.  It was shut down if the memory it was made in *)
(* did not say so by chance; else its event queue and its context may be   *)
(* left over (Release, Shutdown).                                          *)
(***************************************************************************)
THEOREM DestroyedOnceAndLast ==
  ASSUME Disciplined, CountsNotNegative PROVE LifecycleSpec => []DestroyedLast
  <1>1. ASSUME LifecycleInv PROVE DestroyedLast
    <2>1. ASSUME destroyed \/ \E t \in Threads : call[t] = "destroy"
          PROVE  /\ \A r \in References : owner[r] = NoThread
                 /\ \E t \in Threads :
                      /\ call[t] \in { "none", "destroy" }
                      /\ \A u \in Threads \ { t } : call[u] = "none"
      <3>1. intRefCount = 0 BY <1>1, <2>1 DEF LifecycleInv, EndInv
      <3>2. \A r \in References : owner[r] = NoThread
        <4>1. Held \cup Moving \in SUBSET References BY HeldIsSubset
        <4>2. Cardinality(Held \cup Moving) = 0 BY <1>1, <3>1, Counted
        <4>3. Held \cup Moving = { } BY <4>1, <4>2, Finite
        <4> QED BY <4>3 DEF Held
      <3>3. \A u \in Threads : call[u] \in { "none", "destroy" }
        BY <1>1, <2>1, NotEnded DEF LifecycleInv, TypeOK
      <3>4. CASE \E t \in Threads : call[t] = "destroy"
        <4>1. PICK t \in Threads : call[t] = "destroy" BY <3>4
        <4>2. \A u \in Threads \ { t } : call[u] = "none"
          BY <1>1, <3>3, <4>1 DEF LifecycleInv, EndInv
        <4> QED BY <3>2, <4>1, <4>2
      <3>5. CASE \A t \in Threads : call[t] # "destroy"
        <4>1. PICK t \in Threads : TRUE BY <1>1 DEF LifecycleInv, EndInv
        <4> QED BY <3>2, <3>3, <3>5, <4>1
      <3> QED BY <3>4, <3>5
    <2>2. ASSUME destroyed
          PROVE  shutdown /\ ((\A m \in Memory : ~m.shutdown) => eventQueue = "released" /\ ~context.live)
      <3>1. shutdown /\ \A t \in Threads : call[t] # "destroy"
        BY <1>1, <2>2 DEF LifecycleInv, EndInv
      <3>2. \A t \in Threads : call[t] \notin Calls BY <1>1, <2>2, NotEnded
      <3>3. \A t \in Threads : call[t] = "none" BY <1>1, <3>1, <3>2 DEF LifecycleInv, TypeOK
      <3>4. \A t \in Threads : ~Deleting(t)
        BY <1>1, <3>3 DEF LifecycleInv, ControlInv, InPlace, Deleting
      <3> QED BY <1>1, <3>1, <3>4 DEF LifecycleInv, ShutdownInv, LiveInv
    <2> QED BY <2>1, <2>2 DEF DestroyedLast
  <1> QED BY <1>1, LifecycleInductive, PTL
=============================================================================
