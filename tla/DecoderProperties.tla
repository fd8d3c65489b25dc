------------------------- MODULE DecoderProperties -------------------------
(***************************************************************************)
(* What must be true of the decoder MFT.                                   *)
(***************************************************************************)
EXTENDS FFmpegDecoderMFT

(* Every variable has its type, and the codec never holds back more than its lag. *)
TypeOK ==
  /\ ctx \in Context /\ Len(ctx.av.held) <= Lag
  /\ Len(ctx.av.bsf) <= 1 /\ Len(ctx.av.buf) <= 1
  /\ {inType, outType, suggested} \subseteq MediaTypes \cup {NoType}
  /\ majorType \in {"none", "audio", "video"}
  /\ {bFormatChange, bStreaming, bDraining, crashed} \subseteq BOOLEAN
  /\ reply \in [call : Calls, hr : Results]
  /\ taken \in 0 .. MaxPackets /\ floor \in 0 .. taken
  /\ last \in Frame \cup {NoFrame}

-----------------------------------------------------------------------------
(***************************************************************************)
(* Order of output.                                                        *)
(***************************************************************************)

Precedes(f, g) == f.pkt < g.pkt \/ (f.pkt = g.pkt /\ f.ix < g.ix)

(***************************************************************************)
(* The frames in the decoder, from the output queue back to the codec, are *)
(* in the order of their packets, none twice; all come after the last one  *)
(* delivered and after everything taken in before the last flush.  The     *)
(* queue is filled at one end of m_OutputQueue and emptied at the other,   *)
(* and each of Flush, a drain and a rebuild empties its own part of it.    *)
(***************************************************************************)
InOrder ==
  LET s == Pipeline(ctx) IN
  /\ \A i, j \in 1 .. Len(s) : i < j => Precedes(s[i], s[j])
  /\ \A i \in 1 .. Len(s) : Precedes(last, s[i]) /\ floor < s[i].pkt /\ s[i].pkt <= taken

(***************************************************************************)
(* The decoder keeps the promise of OrderedDecoder, which knows nothing of *)
(* contexts, queues, types and drains.                                     *)
(***************************************************************************)
Promise == INSTANCE OrderedDecoder WITH pipe <- Pipeline(ctx), seen <- taken

KeepsPromise == Promise!PromiseSpec

(***************************************************************************)
(* A frame leaves the decoder by being delivered, or is dropped by FLUSH   *)
(* or START_OF_STREAM; a drain, a new media type and the rebuild of the    *)
(* context it brings about drop none ("We don't want to drop samples in    *)
(* between type changes!").                                                *)
(***************************************************************************)
FramesDroppedOnlyByFlush ==
  [][ \/ Len(Pipeline(ctx')) >= Len(Pipeline(ctx))
      \/ last' # last /\ Len(Pipeline(ctx')) = Len(Pipeline(ctx)) - 1
      \/ reply'.call \in {"FLUSH", "START_OF_STREAM"} ]_vars

(***************************************************************************)
(* A queued sample has the duration, and where the frame has none the      *)
(* time, of its own packet: the packet in hand when Decode receives a      *)
(* frame is the one that the frame was decoded from.                       *)
(***************************************************************************)
SampleStamps == \A i \in 1 .. Len(ctx.queue) : ctx.queue[i].by = ctx.queue[i].frame.pkt

(***************************************************************************)
(* Decode takes one frame for each packet it sends, so between calls the   *)
(* codec's filter is free and no avcodec_send_packet has answered EAGAIN   *)
(* (where a packet holds one frame at most).                               *)
(***************************************************************************)
DecoderAlwaysReady == ctx.av.bsf = << >> /\ reply.hr # "E_UNEXPECTED"

-----------------------------------------------------------------------------
(***************************************************************************)
(* Types and contexts.                                                     *)
(***************************************************************************)

(***************************************************************************)
(* An initialised context that is not waiting to be rebuilt was made from  *)
(* the very types that are set: SetInputType and SetOutputType replace the *)
(* objects the context points to, and no frame is decoded into types of    *)
(* another stream after them.                                              *)
(***************************************************************************)
ContextMatchesTypes ==
  HasInitialized(ctx) /\ ~bFormatChange =>
    /\ inType # NoType => ctx.in = "live"
    /\ outType # NoType => ctx.out = "live"

(***************************************************************************)
(* The frame size of the output type, from which GetOutputStreamInfo tells *)
(* the client how large a buffer to allocate, is the size the codec opened *)
(* with, whatever size the client set, as soon as a context is initialised *)
(* and until a type is set that has it rebuilt.                            *)
(***************************************************************************)
BuffersFit ==
  HasInitialized(ctx) /\ ~bFormatChange /\ inType.major = "video" /\ outType.major = "video"
    => outType.size = inType.size

(***************************************************************************)
(* When a format change is to be announced no earlier suggestion is still  *)
(* there: ProcessOutput creates the suggested type into an empty           *)
(* _spSuggestedOutputType.                                                 *)
(***************************************************************************)
SuggestedFree == ctx.formatChange => suggested = NoType

-----------------------------------------------------------------------------
(***************************************************************************)
(* What the comments of the code say and the code does not do.             *)
(***************************************************************************)

(***************************************************************************)
(* "Drop all current samples - must be ready for new ones right away":     *)
(* after FLUSH the decoder is not draining any more.                       *)
(***************************************************************************)
FlushEndsDrain == [][ reply'.call = "FLUSH" => ~bDraining' ]_vars

(***************************************************************************)
(* "Stop accepting input until all possible output is queued": a drain     *)
(* drops no frame that was taken in.                                       *)
(***************************************************************************)
DrainKeepsFrames ==
  [][ reply'.call = "DRAIN" => Len(Pipeline(ctx')) = Len(Pipeline(ctx)) ]_vars

(***************************************************************************)
(* "The decoder should have been drained and always ready to access        *)
(* input", asserted where avcodec_send_packet answers EAGAIN: no packet is *)
(* refused by the codec, whatever the packets hold.                        *)
(***************************************************************************)
PacketAlwaysTaken == reply.hr # "E_UNEXPECTED"

(***************************************************************************)
(* "The current input type", "The current output type": the helper is made *)
(* from types that the decoder still holds.                                *)
(***************************************************************************)
TypesAreCurrent == ctx.helper # "stale"

(***************************************************************************)
(* "Format change must be fulfilled before new packets can be decoded":    *)
(* no packet is taken in between STREAM_CHANGE and the client's setting of *)
(* the suggested output type.                                              *)
(***************************************************************************)
FormatChangeFulfilled == [][ taken' # taken => suggested = NoType ]_vars
=============================================================================
