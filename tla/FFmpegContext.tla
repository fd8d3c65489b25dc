--------------------------- MODULE FFmpegContext ---------------------------
(***************************************************************************)
(* FFmpegContext (DecoderAppService/FFmpegContext.cpp): one decoding       *)
(* context of the decoder MFT - codec parameters, codec, conversion helper *)
(* and the queue of decoded samples.                                       *)
(*                                                                         *)
(* The object is a record; a method is an operator from the object before  *)
(* to the set of its possible outcomes [hr, ctx, crash].  There is more    *)
(* than one outcome where the environment may fail (MayFail) or where the  *)
(* code reads a media type that was released before.                       *)
(***************************************************************************)
EXTENDS AvCodec

CONSTANTS
  Sizes,    (* video frame sizes, numbered from 1                  *)
  MayFail   (* the calls out of the decoder that may fail in a run *)

FailureKinds ==
  { "params",   \* CodecParamsFromMediaType
    "open",     \* avcodec_open2
    "helper",   \* TransformHelper::Initialize
    "convert",  \* ProcessDecodedFrame, SampleFromArray and the sample's setters
    "packet",   \* PacketFromSample
    "decode",   \* the codec, on a packet
    "media",    \* MFCreateMediaType
    "copy" }    \* CopySample

ASSUME ContextAssumption == Sizes \subseteq Nat \ {0} /\ MayFail \subseteq FailureKinds

Failing(kind, outcomes) == IF kind \in MayFail THEN outcomes ELSE {}

(***************************************************************************)
(* Media types.  A video type has a frame size: an input type's is the one *)
(* its codec opens with, an output type's the one the client allocates for.*)
(* A type is listed when its subtype is in the list compiled in for its    *)
(* major type.                                                             *)
(* m_pInputType and m_pOutputType are raw pointers to types that the MFT   *)
(* owns: "live" while the MFT still holds the type, "stale" once it has    *)
(* released it.                                                            *)
(***************************************************************************)
MediaTypes ==
  [major : {"audio"}, size : {0}, listed : BOOLEAN]
    \cup [major : {"video"}, size : Sizes, listed : BOOLEAN]
NoType     == [major |-> "none", size |-> 0, listed |-> FALSE]
Pointer    == {"null", "live", "stale"}

PointerTo(type) == IF type = NoType THEN "null" ELSE "live"
Released(p)     == IF p = "live" THEN "stale" ELSE p

(***************************************************************************)
(* A queued sample: its frame, and the packet that was being decoded when  *)
(* it was queued (by), which gives the sample its duration, and its time   *)
(* when the frame has none.                                                *)
(***************************************************************************)
Sample == [frame : Frame, by : 1 .. MaxPackets]

(***************************************************************************)
(* params, codec - m_pCodecParams and m_Codec are set                      *)
(* open, av      - m_CodecContext is set, and its state                    *)
(* helper        - m_TransformHelper: not made, initialised, made but its  *)
(*                 Initialize failed, or initialised from a released type  *)
(* frame         - m_pFrame is allocated                                   *)
(* formatChange  - m_bFormatChange                                         *)
(* in, out       - m_pInputType, m_pOutputType                             *)
(* queue         - m_OutputQueue from its tail, the oldest sample, to its  *)
(*                 head                                                    *)
(***************************************************************************)
Context ==
  [ params : BOOLEAN, codec : BOOLEAN, open : BOOLEAN, av : Codec,
    helper : {"none", "ready", "broken", "stale"}, frame : BOOLEAN,
    formatChange : BOOLEAN, in : Pointer, out : Pointer, queue : Seq(Sample) ]

NewContext ==
  [ params |-> FALSE, codec |-> FALSE, open |-> FALSE, av |-> Opened,
    helper |-> "none", frame |-> FALSE,
    formatChange |-> FALSE, in |-> "null", out |-> "null", queue |-> << >> ]

(* What the calls of the decoder return. *)
Results ==
  { "none", "S_OK", "S_FALSE", "E_POINTER", "E_FAIL", "E_UNEXPECTED", "MF_E_NOTACCEPTING",
    "MF_E_TRANSFORM_NEED_MORE_INPUT", "MF_E_TRANSFORM_STREAM_CHANGE",
    "MF_E_TRANSFORM_TYPE_NOT_SET", "MF_E_INVALIDMEDIATYPE" }

Outcome(hr, c) == [hr |-> hr, ctx |-> c, crash |-> FALSE]
Crash(c)       == [hr |-> "none", ctx |-> c, crash |-> TRUE]

HasInitialized(c) == c.params /\ c.codec /\ c.helper # "none"
HasNextSample(c)  == c.queue # << >>

(* Mutants: the major type is not looked at; the size is not written. *)
UpdatedOutputOfAnyKind(in, out) == [out EXCEPT !.size = in.size]
UpdatedOutputUnwritten(in, out) == out

(***************************************************************************)
(* _VideoUpdateOutput: the output type the MFT holds gets, in place, the   *)
(* size the codec opened with.  A type without a frame size is left as is. *)
(***************************************************************************)
UpdatedOutput(in, out) ==
  IF in.major = "video" /\ out.major = "video" THEN [out EXCEPT !.size = in.size] ELSE out

(* The helper for the input's major type knows the output's subtype. *)
Convertible(in, out) == in.major = out.major /\ out.listed

(***************************************************************************)
(* TransformHelper::Initialize, on a context c about to hold a new helper. *)
(***************************************************************************)
MadeHelper(c, in, out) ==
  IF Convertible(in, out)
  THEN { Outcome("S_OK", [c EXCEPT !.helper = "ready"]) }
         \cup Failing("helper", { Outcome("E_FAIL", [c EXCEPT !.helper = "broken"]) })
  ELSE { Outcome("E_FAIL", [c EXCEPT !.helper = "broken"]) }

(***************************************************************************)
(* Initialize(in, out), with the output type it leaves.  Each step fails   *)
(* on its own and what the steps before it set stays set.                  *)
(***************************************************************************)
Initialize(c, in, out) ==
  LET pointed == [c EXCEPT !.in = PointerTo(in), !.out = PointerTo(out)]
      params  == [pointed EXCEPT !.params = TRUE]
      closed  == [params EXCEPT !.codec = TRUE, !.open = FALSE, !.av = Opened]
      updated == UpdatedOutput(in, out)
      opened  == [closed EXCEPT !.open = TRUE, !.formatChange = @ \/ updated # out]
      Framed(o) == [o EXCEPT !.ctx.frame = (o.hr = "S_OK")]
      With(type, outcomes) ==
        { [hr |-> o.hr, ctx |-> o.ctx, crash |-> o.crash, type |-> type] : o \in outcomes }
  IN IF in = NoType \/ out = NoType
     THEN With(out, { Outcome("E_POINTER", pointed) })
     ELSE With(updated, { Framed(o) : o \in MadeHelper(opened, in, out) })
            \cup With(out, Failing("params", { Outcome("E_FAIL", params) }))
            \cup With(out, Failing("open", { Outcome("E_FAIL", closed) }))

(* Mutant: AddTail, the end that GetNextSample takes from. *)
QueueOutputAtTail(c, s) == [c EXCEPT !.queue = << s >> \o @]

(* QueueOutput: AddHead. *)
QueueOutput(c, s) == [c EXCEPT !.queue = Append(@, s)]

(***************************************************************************)
(* The frame received is converted and queued.  The conversion may also    *)
(* crash: a helper that failed to initialise, or that was initialised from *)
(* a released type, may hold no usable resampler or scaler, and a scaler   *)
(* that fails returns S_OK and no buffer.                                  *)
(***************************************************************************)
Convert(c, f, p) ==
  LET queued == Outcome("S_OK", QueueOutput(c, [frame |-> f, by |-> p.id]))
      failed == Outcome("E_FAIL", c)
  IN IF c.helper = "ready"
     THEN { queued } \cup Failing("convert", { failed, Crash(c) })
     ELSE { queued, failed, Crash(c) }

(* Mutant: a frame is received only into an empty queue. *)
ReceiveOneIfEmpty(c, p) ==
  LET r == Receive(c.av) IN
  IF HasNextSample(c) \/ r.rv # "ok"
  THEN { Outcome("S_FALSE", c) }
  ELSE Convert([c EXCEPT !.av = r.codec], r.frames[1], p)

(* One avcodec_receive_frame after a packet was sent: at most one frame is taken. *)
ReceiveOne(c, p) ==
  LET r    == Receive(c.av)
      left == [c EXCEPT !.av = r.codec]
  IN CASE ~c.frame                   -> { Crash(c) }
       [] c.frame /\ r.rv = "EAGAIN" -> { Outcome("S_FALSE", left) }
       [] c.frame /\ r.rv = "error"  -> { Outcome("E_FAIL", left) }
       [] c.frame /\ r.rv = "ok"     -> Convert(left, r.frames[1], p)

(* Mutant: the frame is received before the packet is sent. *)
DecodeReceivingFirst(c, p) ==
  CASE c.formatChange -> { Outcome("MF_E_NOTACCEPTING", c) }
    [] ~c.formatChange /\ ~c.open -> { Crash(c) }
    [] ~c.formatChange /\ c.open ->
         { [o EXCEPT !.ctx.av = Send(o.ctx.av, p).codec] : o \in ReceiveOne(c, p) }

(***************************************************************************)
(* Decode: nothing while a format change is pending; otherwise send the    *)
(* packet and receive once.                                                *)
(***************************************************************************)
Decode(c, p) ==
  LET s    == Send(c.av, p)
      sent == [c EXCEPT !.av = s.codec]
  IN CASE c.formatChange               -> { Outcome("MF_E_NOTACCEPTING", c) }
       [] ~c.formatChange /\ ~c.open   -> { Crash(c) }
       [] ~c.formatChange /\ c.open /\ s.rv = "EAGAIN" -> { Outcome("E_UNEXPECTED", sent) }
       [] ~c.formatChange /\ c.open /\ s.rv = "error"  -> { Outcome("E_FAIL", sent) }
       [] ~c.formatChange /\ c.open /\ s.rv = "ok"     -> ReceiveOne(sent, p)

(* Mutant: the codec is not closed. *)
FlushInputKeepingCodec(c, in, out) ==
  IF c.in = "live" /\ c.out = "live" THEN MadeHelper(c, in, out) ELSE { Outcome("E_POINTER", c) }

(***************************************************************************)
(* FlushInput: close the codec and open it again, dropping every frame it  *)
(* held, then make the helper again from the types the context points to:  *)
(* in and out while the MFT holds them, and anything once it released them.*)
(***************************************************************************)
FlushInput(c, in, out) ==
  LET closed   == [c EXCEPT !.open = FALSE, !.av = Opened]
      reopened == [closed EXCEPT !.open = TRUE]
      anything == { Outcome("S_OK", [reopened EXCEPT !.helper = "stale"]),
                    Outcome("E_FAIL", [reopened EXCEPT !.helper = "broken"]),
                    Crash(reopened) }
      remade   == CASE c.in = "null" -> { Outcome("MF_E_TRANSFORM_TYPE_NOT_SET", reopened) }
                    [] c.in = "live" /\ c.out = "live" -> MadeHelper(reopened, in, out)
                    [] c.in # "null" /\ c.out = "null" -> { Crash(reopened) }
                    [] OTHER -> anything
  IN IF ~c.codec THEN { Outcome("E_POINTER", closed) }
     ELSE remade \cup Failing("open", { Outcome("E_FAIL", closed) })

(* Mutant: the queue is not emptied. *)
FlushKeepingQueue(c, in, out) ==
  { [o EXCEPT !.hr = "S_OK"] : o \in FlushInput(c, in, out) }

(* Flush: empty the queue and flush the input, whatever that returns. *)
Flush(c, in, out) ==
  { [o EXCEPT !.hr = "S_OK"] : o \in FlushInput([c EXCEPT !.queue = << >>], in, out) }

(* Every frame taken in and not delivered, oldest first. *)
Pipeline(c) == [i \in 1 .. Len(c.queue) |-> c.queue[i].frame] \o InCodec(c.av)
=============================================================================
