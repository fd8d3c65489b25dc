-------------------------- MODULE FFmpegDecoderMFT --------------------------
(***************************************************************************)
(* The decoder MFT: the streaming half of FFmpegDecoderMFT.cpp and the     *)
(* media types of DecoderBase.cpp, over one FFmpegContext.                 *)
(*                                                                         *)
(* A step is one call of the client, run to its end; the client makes any  *)
(* call at any time.  Calls that two threads make at once, Shutdown and    *)
(* the reference counts are the subject of DecoderLifecycle.               *)
(* Calls refused for a bad argument or made with MFT_SET_TYPE_TEST_ONLY    *)
(* change nothing and are left out.                                        *)
(***************************************************************************)
EXTENDS FFmpegContext

VARIABLES
  ctx,           (* *_pContext                                              *)
  inType,        (* _spInputType                                            *)
  outType,       (* _spOutputType                                           *)
  suggested,     (* _spSuggestedOutputType                                  *)
  majorType,     (* m_guidMajorType                                         *)
  bFormatChange, (* _bFormatChange                                          *)
  bStreaming,    (* _bStreaming                                             *)
  bDraining,     (* _bDraining                                              *)
  crashed,       (* the process has died of a bad pointer                   *)
  reply,         (* history: the last call and what it returned             *)
  taken,         (* history: the number of packets taken in                 *)
  floor,         (* history: taken, as it was at the last flush             *)
  last           (* history: the last frame delivered                       *)

typeVars == << inType, outType, suggested, majorType >>
history  == << taken, floor, last >>
vars     == << ctx, typeVars, bFormatChange, bStreaming, bDraining, crashed, reply, history >>

NoFrame == [pkt |-> 0, ix |-> 0]

Calls ==
  { "none", "SetInputType", "SetOutputType", "ProcessInput", "ProcessOutput",
    "START_OF_STREAM", "END_OF_STREAM", "DRAIN", "FLUSH" }

Replies(call, hr) == reply' = [call |-> call, hr |-> hr]

(* The outcome of a method of the context becomes the state of the context. *)
Applies(o) == ctx' = o.ctx /\ crashed' = o.crash

-----------------------------------------------------------------------------
(***************************************************************************)
(* Media types (DecoderBase).                                              *)
(***************************************************************************)

ClearInputType ==
  /\ ~crashed
  /\ inType' = NoType
  /\ ctx' = [ctx EXCEPT !.in = Released(@)]
  /\ Replies("SetInputType", "S_OK")
  /\ UNCHANGED << outType, suggested, majorType, bFormatChange, bStreaming, bDraining,
                  crashed, history >>

(* Mutant: the context is not marked to be rebuilt. *)
SetInputTypeAlone(type) ==
  /\ ~crashed
  /\ type.listed
  /\ inType' = type
  /\ majorType' = type.major
  /\ ctx' = [ctx EXCEPT !.in = Released(@)]
  /\ Replies("SetInputType", "S_OK")
  /\ UNCHANGED << outType, suggested, bFormatChange, bStreaming, bDraining, crashed, history >>

SetInputType(type) ==
  /\ ~crashed
  /\ type.listed
  /\ inType' = type
  /\ majorType' = type.major
  /\ ctx' = [ctx EXCEPT !.in = Released(@)]
  /\ bFormatChange' = TRUE
  /\ Replies("SetInputType", "S_OK")
  /\ UNCHANGED << outType, suggested, bStreaming, bDraining, crashed, history >>

ClearOutputType ==
  /\ ~crashed
  /\ inType # NoType
  /\ outType' = NoType
  /\ ctx' = [ctx EXCEPT !.out = Released(@)]
  /\ Replies("SetOutputType", "S_OK")
  /\ UNCHANGED << inType, suggested, majorType, bFormatChange, bStreaming, bDraining,
                  crashed, history >>

(* Mutants: the context is not marked to be rebuilt; the suggested type is kept. *)
SetOutputTypeAlone(type) ==
  /\ ~crashed
  /\ inType # NoType
  /\ type.major = majorType
  /\ outType' = type
  /\ suggested' = NoType
  /\ ctx' = [ctx EXCEPT !.out = Released(@)]
  /\ Replies("SetOutputType", "S_OK")
  /\ UNCHANGED << inType, majorType, bFormatChange, bStreaming, bDraining, crashed, history >>

SetOutputTypeKeepingSuggested(type) ==
  /\ ~crashed
  /\ inType # NoType
  /\ type.major = majorType
  /\ outType' = type
  /\ ctx' = [ctx EXCEPT !.out = Released(@)]
  /\ bFormatChange' = TRUE
  /\ Replies("SetOutputType", "S_OK")
  /\ UNCHANGED << inType, suggested, majorType, bStreaming, bDraining, crashed, history >>

SetOutputType(type) ==
  /\ ~crashed
  /\ inType # NoType
  /\ type.major = majorType
  /\ outType' = type
  /\ suggested' = NoType
  /\ ctx' = [ctx EXCEPT !.out = Released(@)]
  /\ bFormatChange' = TRUE
  /\ Replies("SetOutputType", "S_OK")
  /\ UNCHANGED << inType, majorType, bStreaming, bDraining, crashed, history >>

(* SetOutputType before the input type, or with a type of another kind. *)
RefuseOutputType(type) ==
  /\ ~crashed
  /\ \/ inType = NoType /\ Replies("SetOutputType", "MF_E_TRANSFORM_TYPE_NOT_SET")
     \/ inType # NoType /\ type.major # majorType
          /\ Replies("SetOutputType", "MF_E_INVALIDMEDIATYPE")
  /\ UNCHANGED << ctx, typeVars, bFormatChange, bStreaming, bDraining, crashed, history >>

-----------------------------------------------------------------------------
(***************************************************************************)
(* ProcessInput: refused while draining or while a type change waits for   *)
(* the output to be taken; else the context is initialised if it must be,  *)
(* and the packet decoded.                                                 *)
(***************************************************************************)
Refusing == bDraining \/ bFormatChange

Ready == [hr |-> "S_OK", ctx |-> ctx, crash |-> FALSE, type |-> outType]

Initialized ==
  IF HasInitialized(ctx) THEN { Ready } ELSE Initialize(ctx, inType, outType)

RefuseInput ==
  /\ ~crashed
  /\ Refusing
  /\ Replies("ProcessInput", "MF_E_NOTACCEPTING")
  /\ UNCHANGED << ctx, typeVars, bFormatChange, bStreaming, bDraining, crashed, history >>

(***************************************************************************)
(* The context cannot be initialised, or the sample not read: the packet   *)
(* is not taken.  Every error of PacketFromSample is E_FAIL here.          *)
(***************************************************************************)
FailInput ==
  /\ ~crashed
  /\ ~Refusing
  /\ \E i \in Initialized :
       /\ i.hr # "S_OK" \/ "packet" \in MayFail
       /\ ctx' = i.ctx
       /\ outType' = i.type
       /\ Replies("ProcessInput", IF i.hr = "S_OK" THEN "E_FAIL" ELSE i.hr)
  /\ UNCHANGED << inType, suggested, majorType, bFormatChange, bStreaming, bDraining,
                  crashed, history >>

DecodeInput(p) ==
  /\ ~crashed
  /\ ~Refusing
  /\ p.id = taken + 1
  /\ \E i \in Initialized : \E d \in Decode(i.ctx, p) :
       /\ i.hr = "S_OK"
       /\ outType' = i.type
       /\ Applies(d)
       /\ Replies("ProcessInput", d.hr)
       /\ taken' = IF d.hr = "MF_E_NOTACCEPTING" THEN taken ELSE p.id
  /\ UNCHANGED << inType, suggested, majorType, bFormatChange, bStreaming, bDraining, floor, last >>

-----------------------------------------------------------------------------
(***************************************************************************)
(* ProcessOutput.  First the context's own format change, read and cleared *)
(* at once: the output type the codec asks for becomes the suggested one   *)
(* and the type set is released.                                           *)
(***************************************************************************)
NoFormatChangeKept == ctx    \* Mutant: HasFormatChange does not clear the flag.

NoFormatChange == [ctx EXCEPT !.formatChange = FALSE]

StreamChange ==
  /\ ~crashed
  /\ ctx.formatChange
  /\ outType # NoType
  /\ suggested' = outType
  /\ outType' = NoType
  /\ ctx' = [NoFormatChange EXCEPT !.out = Released(@)]
  /\ Replies("ProcessOutput", "MF_E_TRANSFORM_STREAM_CHANGE")
  /\ UNCHANGED << inType, majorType, bFormatChange, bStreaming, bDraining, crashed, history >>

(* The output type was cleared meanwhile: CopyAllItems on no type. *)
StreamChangeWithoutType ==
  /\ ~crashed
  /\ ctx.formatChange
  /\ outType = NoType
  /\ ctx' = NoFormatChange
  /\ crashed' = TRUE
  /\ Replies("ProcessOutput", "none")
  /\ UNCHANGED << typeVars, bFormatChange, bStreaming, bDraining, history >>

(* MFCreateMediaType fails: the format change is cleared and the client not told. *)
StreamChangeFails ==
  /\ ~crashed
  /\ ctx.formatChange
  /\ "media" \in MayFail
  /\ ctx' = NoFormatChange
  /\ Replies("ProcessOutput", "E_FAIL")
  /\ UNCHANGED << typeVars, bFormatChange, bStreaming, bDraining, crashed, history >>

(***************************************************************************)
(* Then the oldest sample (GetNextSample).  Once no sample is left, the    *)
(* end of a drain, and a new context if a type was set meanwhile.          *)
(***************************************************************************)
EmptiedAtOnce(c) ==          \* Mutant: the context is rebuilt with samples left.
  /\ bDraining' = (bDraining /\ HasNextSample(c))
  /\ IF bFormatChange
     THEN ctx' = NewContext /\ bFormatChange' = FALSE
     ELSE ctx' = c /\ UNCHANGED bFormatChange

EmptiedWithoutRebuild(c) ==  \* Mutant: the context is kept.
  /\ bDraining' = (bDraining /\ HasNextSample(c))
  /\ bFormatChange' = (bFormatChange /\ HasNextSample(c))
  /\ ctx' = c

Emptied(c) ==
  /\ bDraining' = (bDraining /\ HasNextSample(c))
  /\ IF bFormatChange /\ ~HasNextSample(c)
     THEN ctx' = NewContext /\ bFormatChange' = FALSE
     ELSE ctx' = c /\ UNCHANGED bFormatChange

NextSampleTaken == [ctx EXCEPT !.queue = Tail(@)]

DeliverSample ==
  /\ ~crashed
  /\ ~ctx.formatChange
  /\ HasNextSample(ctx)
  /\ last' = Head(ctx.queue).frame
  /\ Emptied(NextSampleTaken)
  /\ Replies("ProcessOutput", "S_OK")
  /\ UNCHANGED << typeVars, bStreaming, crashed, taken, floor >>

(* CopySample fails: the sample is off the queue and not delivered. *)
LoseSample ==
  /\ ~crashed
  /\ ~ctx.formatChange
  /\ HasNextSample(ctx)
  /\ "copy" \in MayFail
  /\ Emptied(NextSampleTaken)
  /\ Replies("ProcessOutput", "E_FAIL")
  /\ UNCHANGED << typeVars, bStreaming, crashed, history >>

NeedMoreInput ==
  /\ ~crashed
  /\ ~ctx.formatChange
  /\ ~HasNextSample(ctx)
  /\ Emptied(ctx)
  /\ Replies("ProcessOutput", "MF_E_TRANSFORM_NEED_MORE_INPUT")
  /\ UNCHANGED << typeVars, bStreaming, crashed, history >>

-----------------------------------------------------------------------------
(***************************************************************************)
(* ProcessMessage.                                                         *)
(***************************************************************************)

StartOfStream ==
  /\ ~crashed
  /\ \E o \in Flush(ctx, inType, outType) : Applies(o)
  /\ bStreaming' = TRUE
  /\ floor' = taken
  /\ Replies("START_OF_STREAM", "S_OK")
  /\ UNCHANGED << typeVars, bFormatChange, bDraining, taken, last >>

EndOfStream ==
  /\ ~crashed
  /\ bStreaming' = FALSE
  /\ Replies("END_OF_STREAM", "S_OK")
  /\ UNCHANGED << ctx, typeVars, bFormatChange, bDraining, crashed, history >>

(* Mutant: Flush for FlushInput. *)
DrainFlushing ==
  /\ ~crashed
  /\ HasInitialized(ctx)
  /\ \E o \in Flush(ctx, inType, outType) : Applies(o) /\ Replies("DRAIN", o.hr)
  /\ bDraining' = TRUE
  /\ UNCHANGED << typeVars, bFormatChange, bStreaming, history >>

Drain ==
  /\ ~crashed
  /\ HasInitialized(ctx)
  /\ \E o \in FlushInput(ctx, inType, outType) : Applies(o) /\ Replies("DRAIN", o.hr)
  /\ bDraining' = TRUE
  /\ UNCHANGED << typeVars, bFormatChange, bStreaming, history >>

FlushMessage ==
  /\ ~crashed
  /\ HasInitialized(ctx)
  /\ \E o \in Flush(ctx, inType, outType) : Applies(o)
  /\ floor' = taken
  /\ Replies("FLUSH", "S_OK")
  /\ UNCHANGED << typeVars, bFormatChange, bStreaming, bDraining, taken, last >>

(* DRAIN and FLUSH do nothing to a context that has not been initialised. *)
IgnoredMessage ==
  /\ ~crashed
  /\ ~HasInitialized(ctx)
  /\ \E m \in { "DRAIN", "FLUSH" } : Replies(m, "S_OK")
  /\ UNCHANGED << ctx, typeVars, bFormatChange, bStreaming, bDraining, crashed, history >>

-----------------------------------------------------------------------------
Init ==
  /\ ctx = NewContext
  /\ inType = NoType /\ outType = NoType /\ suggested = NoType /\ majorType = "none"
  /\ bFormatChange = FALSE /\ bStreaming = FALSE /\ bDraining = FALSE /\ crashed = FALSE
  /\ reply = [call |-> "none", hr |-> "none"]
  /\ taken = 0 /\ floor = 0 /\ last = NoFrame

(* A packet that fails to decode is offered only where the run lets the codec fail. *)
OfferedPackets == { p \in Packet : p.bad => "decode" \in MayFail }

TypeCall ==
  \/ ClearInputType
  \/ ClearOutputType
  \/ \E type \in MediaTypes : SetInputType(type) \/ SetOutputType(type) \/ RefuseOutputType(type)

InputCall == RefuseInput \/ FailInput \/ \E p \in OfferedPackets : DecodeInput(p)

OutputCall ==
  \/ StreamChange \/ StreamChangeWithoutType \/ StreamChangeFails
  \/ DeliverSample \/ LoseSample \/ NeedMoreInput

MessageCall == StartOfStream \/ EndOfStream \/ Drain \/ FlushMessage \/ IgnoredMessage

Next == TypeCall \/ InputCall \/ OutputCall \/ MessageCall

Spec == Init /\ [][Next]_vars
=============================================================================
