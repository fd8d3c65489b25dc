--------------------------- MODULE Client_proofs ----------------------------
(***************************************************************************)
(* Proofs about the client of MFTClient: its calls are calls of the        *)
(* decoder's specification, whatever fails; for a codec that holds nothing *)
(* back and gives at most one frame for a packet no frame is lost; and no  *)
(* call fails when nothing outside the decoder does.                       *)
(***************************************************************************)
EXTENDS MFTClient, DecoderOrder_proofs

-----------------------------------------------------------------------------
(***************************************************************************)
(* The codec and the context.                                              *)
(***************************************************************************)

(* An error is that of a bad packet in the filter; a good one is never refused. *)
LEMMA GoodPacketsDecode ==
  ASSUME NEW c, CodecOK(c), NEW p \in Packet
  PROVE  /\ Send(c, p).rv = "error" => p.bad
         /\ c.bsf = << >> => Receive(c).rv # "error"
  <1> DEFINE one    == << p >>
             filter == [c EXCEPT !.bsf = one]
  <1>1. filter.bsf = one /\ one[1] = p
    BY DEF CodecOK, Codec
  <1>2. Pull(filter).rv = "error" => p.bad
    BY <1>1 DEF Pull, Returned
  <1>3. Send(c, p).rv = "error" => Pull(filter).rv = "error"
    BY DEF Send, Returned
  <1>4. c.bsf = << >> => Pull(c).rv # "error"
    BY DEF Pull, Returned
  <1>5. c.bsf = << >> => Receive(c).rv # "error"
    BY <1>4 DEF Receive, Returned
  <1> QED BY <1>2, <1>3, <1>5

(* A context that was never initialised, or not completely: nothing is in it. *)
Fresh(c) ==
  ~c.codec /\ c.helper = "none" /\ c.queue = << >> /\ c.av = Opened /\ ~c.formatChange

(* One that decodes. *)
Working(c) == c.params /\ c.codec /\ c.open /\ c.helper = "ready" /\ c.frame

LEMMA FreshOrWorking ==
  /\ \A c : Fresh(c) => ~HasInitialized(c) /\ ~HasNextSample(c) /\ Pipeline(c) = << >>
  /\ \A c : Working(c) => HasInitialized(c) /\ ~Fresh(c)
  /\ Fresh(NewContext)
  <1>1. \A c : Fresh(c) => ~HasInitialized(c) /\ ~HasNextSample(c)
    BY DEF Fresh, HasInitialized, HasNextSample
  <1>2. \A c : Fresh(c) => Pipeline(c) = << >>
    BY EmptyPipeline DEF Fresh
  <1> QED BY <1>1, <1>2 DEF Fresh, Working, HasInitialized, NewContext


(* A helper is made from live types that fit, and nothing fails. *)
LEMMA FlushInputWorks ==
  ASSUME NEW c, ContextOK(c), Working(c), c.in = "live", c.out = "live",
         NEW in, NEW out, Convertible(in, out),
         "open" \notin MayFail, "helper" \notin MayFail, NEW o \in FlushInput(c, in, out)
  PROVE  ~o.crash /\ Working(o.ctx) /\ o.hr = "S_OK"
  <1> DEFINE closed   == [c EXCEPT !.open = FALSE, !.av = Opened]
             reopened == [closed EXCEPT !.open = TRUE]
             ready    == [reopened EXCEPT !.helper = "ready"]
  <1>1. CodecOK(Opened) /\ Opened \in Codec BY OpenedType DEF CodecOK
  <1>2. closed \in Context /\ MadeAs([closed EXCEPT !.open = TRUE], c)
    BY <1>1 DEF ContextOK, Context, MadeAs, Working
  <1>3. Working(ready) BY <1>2 DEF ContextOK, Context, Working, MadeAs
  <1> HIDE DEF ready
  <1>4. c.in # "null" /\ c.codec BY DEF Working
  <1>5. o \in MadeHelper(reopened, in, out)
    BY <1>4 DEF FlushInput, Failing
  <1>6. o = Outcome("S_OK", ready)
    BY <1>5 DEF MadeHelper, Failing, ready
  <1> QED BY <1>3, <1>6 DEF Outcome

(* A fresh context stays as it is. *)
LEMMA FlushInputFresh ==
  ASSUME NEW c, ContextOK(c), Fresh(c), NEW in, NEW out, NEW o \in FlushInput(c, in, out)
  PROVE  ~o.crash /\ Fresh(o.ctx)
  <1> DEFINE closed == [c EXCEPT !.open = FALSE, !.av = Opened]
  <1>1. CodecOK(Opened) /\ Opened \in Codec BY OpenedType DEF CodecOK
  <1>2. Fresh(closed) BY <1>1 DEF ContextOK, Context, Fresh
  <1>3. o = Outcome("E_POINTER", closed) BY DEF Fresh, FlushInput
  <1> HIDE DEF closed
  <1> QED BY <1>2, <1>3 DEF Outcome

(* Flush does the same, and reports no failure. *)
LEMMA FlushServes ==
  ASSUME NEW c, ContextOK(c), NEW in, NEW out,
         \/ Fresh(c)
         \/ Working(c) /\ c.in = "live" /\ c.out = "live" /\ Convertible(in, out),
         "open" \notin MayFail, "helper" \notin MayFail, NEW o \in Flush(c, in, out)
  PROVE  /\ ~o.crash /\ o.hr = "S_OK"
         /\ Fresh(c) => Fresh(o.ctx)
         /\ ~Fresh(c) => Working(o.ctx)
  <1> DEFINE none == << >>
  <1>1. none \in Seq(Sample) BY EmptySeq
  <1> HIDE DEF none
  <1> DEFINE empty == [c EXCEPT !.queue = none]
  <1>2. ContextOK(empty) /\ MadeAs(empty, c) /\ empty.queue = none /\ empty.av = c.av
    BY <1>1 DEF ContextOK, Context, MadeAs
  <1>3. PICK f \in FlushInput(empty, in, out) : o = [f EXCEPT !.hr = "S_OK"]
    BY DEF Flush, none
  <1> HIDE DEF empty
  <1>4. Plain(f) BY <1>2, FlushInputOutcome
  <1>5. o.hr = "S_OK" /\ o.ctx = f.ctx /\ o.crash = f.crash BY <1>3, <1>4 DEF Plain
  <1>6. CASE Fresh(c)
    <2>1. Fresh(empty) BY <1>2, <1>6 DEF Fresh, MadeAs, none
    <2> QED BY <1>2, <1>5, <1>6, <2>1, FlushInputFresh
  <1>7. CASE ~Fresh(c)
    <2>1. Working(empty) /\ empty.in = "live" /\ empty.out = "live"
      BY <1>2, <1>7 DEF Working, MadeAs
    <2> QED BY <1>2, <1>5, <1>7, <2>1, FlushInputWorks
  <1> QED BY <1>6, <1>7

(* The output type that the codec asks for fits the input type if the one set did. *)
LEMMA UpdatedOutputConverts ==
  ASSUME NEW in \in MediaTypes, NEW out \in MediaTypes, Convertible(in, out)
  PROVE  UpdatedOutput(in, out) # NoType /\ Convertible(in, UpdatedOutput(in, out))
  BY DEF UpdatedOutput, Convertible, MediaTypes, NoType

(* From types that fit Initialize makes a context that works, unless the parameters fail. *)
LEMMA InitializeServes ==
  ASSUME NEW c, ContextOK(c), Fresh(c),
         NEW in \in MediaTypes, NEW out \in MediaTypes, Convertible(in, out),
         "open" \notin MayFail, "helper" \notin MayFail, NEW o \in Initialize(c, in, out)
  PROVE  /\ o.ctx.queue = << >> /\ o.ctx.av = Opened
         /\ o.type # NoType /\ Convertible(in, o.type)
         /\ \/ o.hr = "S_OK" /\ Working(o.ctx)
            \/ o.hr = "E_FAIL" /\ Fresh(o.ctx) /\ "params" \in MayFail
  <1> DEFINE pointed == [c EXCEPT !.in = PointerTo(in), !.out = PointerTo(out)]
             params  == [pointed EXCEPT !.params = TRUE]
             closed  == [params EXCEPT !.codec = TRUE, !.open = FALSE, !.av = Opened]
             updated == UpdatedOutput(in, out)
             opened  == [closed EXCEPT !.open = TRUE, !.formatChange = @ \/ updated # out]
             ready   == [opened EXCEPT !.helper = "ready"]
             framed  == [ready EXCEPT !.frame = TRUE]
             Framed(x) == [x EXCEPT !.ctx.frame = (x.hr = "S_OK")]
             Typed(x, type) == [hr |-> x.hr, ctx |-> x.ctx, crash |-> x.crash, type |-> type]
  <1>1. /\ c \in Context /\ Opened \in Codec /\ in # NoType /\ out # NoType
    BY OpenedType DEF ContextOK, CodecOK, MediaTypes, NoType
  <1>2. pointed \in Context /\ pointed.queue = << >> /\ pointed.av = Opened
        /\ pointed.helper = "none" /\ ~pointed.codec /\ ~pointed.formatChange
    BY <1>1 DEF Context, PointerTo, Pointer, Fresh
  <1> HIDE DEF pointed
  <1>3. params \in Context /\ Fresh(params) /\ params.params
    BY <1>1, <1>2 DEF Context, Fresh
  <1> HIDE DEF params
  <1>4. closed \in Context /\ closed.queue = << >> /\ closed.av = Opened
        /\ closed.params /\ closed.codec
    BY <1>1, <1>3 DEF Context, Fresh
  <1> HIDE DEF closed, updated
  <1>5. opened \in Context /\ opened.queue = << >> /\ opened.av = Opened
        /\ opened.params /\ opened.codec /\ opened.open
    BY <1>1, <1>4 DEF Context
  <1> HIDE DEF opened
  <1>6. ready \in Context /\ ready.queue = << >> /\ ready.av = Opened
        /\ ready.params /\ ready.codec /\ ready.open /\ ready.helper = "ready"
    BY <1>1, <1>5 DEF Context
  <1> HIDE DEF ready
  <1>7. framed.queue = << >> /\ framed.av = Opened /\ Working(framed)
    BY <1>1, <1>6 DEF Context, Working
  <1> HIDE DEF framed
  <1>8. \/ \E x \in MadeHelper(opened, in, out) : o = Typed(Framed(x), updated)
        \/ "params" \in MayFail /\ o = Typed(Outcome("E_FAIL", params), out)
    BY <1>1 DEF Initialize, Failing, pointed, params, closed, opened, updated
  <1>9. CASE \E x \in MadeHelper(opened, in, out) : o = Typed(Framed(x), updated)
    <2>1. PICK x \in MadeHelper(opened, in, out) : o = Typed(Framed(x), updated) BY <1>9
    <2>2. x = [hr |-> "S_OK", ctx |-> ready, crash |-> FALSE]
      BY DEF MadeHelper, Failing, Outcome, ready
    <2>3. Framed(x).hr = "S_OK" /\ Framed(x).ctx = framed
      <3>1. framed = [ready EXCEPT !.frame = (x.hr = "S_OK")] BY <2>2 DEF framed
      <3> QED BY <2>2, <3>1
    <2>4. o.hr = "S_OK" /\ o.ctx = framed /\ o.type = updated
      BY <2>1, <2>3
    <2> QED BY <1>7, <2>4, UpdatedOutputConverts DEF updated
  <1>10. CASE "params" \in MayFail /\ o = Typed(Outcome("E_FAIL", params), out)
    <2>1. o.hr = "E_FAIL" /\ o.ctx = params /\ o.type = out BY <1>10 DEF Outcome
    <2> QED BY <1>1, <1>3, <1>10, <2>1 DEF Fresh
  <1> QED BY <1>8, <1>9, <1>10

(***************************************************************************)
(* A context that works takes every packet in unless a format change is to *)
(* be announced: then its frames are all behind those already there, some  *)
(* in the queue and none lost, and the call fails only for a bad packet.   *)
(***************************************************************************)
Takes(o, c, p) ==
  \/ c.formatChange /\ o.hr = "MF_E_NOTACCEPTING" /\ o.ctx = c
  \/ /\ ~c.formatChange
     /\ o.hr \in { "S_OK", "S_FALSE" } \/ (p.bad /\ o.hr = "E_FAIL")
     /\ Pipeline(o.ctx) = Pipeline(c) \o FramesOf(p)

LEMMA DecodeServes ==
  ASSUME Lag = 0, MaxFrames <= 1, "convert" \notin MayFail,
         NEW c, ContextOK(c), Working(c), NothingLeft(c.av),
         NEW p \in Packet, NEW o \in Decode(c, p)
  PROVE  ~o.crash /\ Working(o.ctx) /\ Takes(o, c, p)
  <1> DEFINE s    == Send(c.av, p)
             sent == [c EXCEPT !.av = s.codec]
             f    == FramesOf(p)
             q    == FramesIn(c.queue)
             none == << >>
  <1>1. /\ s.rv \in Result /\ CodecOK(s.codec) /\ s.rv # "EAGAIN"
        /\ s.codec.bsf = << >>
        /\ s.rv = "error" => p.bad
        /\ InCodec(s.codec) = InCodec(c.av) \o f
    BY SendType, SendReady, SendKeeps, GoodPacketsDecode DEF ContextOK
  <1>2. InCodec(c.av) = none /\ f \in Seq(Frame) /\ none \o f = f
    <2>1. InCodec(c.av) = << >> BY NothingInCodec DEF ContextOK
    <2>2. f \in Seq(Frame) BY FramesOfType
    <2> HIDE DEF f
    <2> QED BY <2>1, <2>2, ConcatEmptySeq
  <1> HIDE DEF s, f
  <1>3. ContextOK(sent) /\ MadeAs(sent, c) /\ sent.av = s.codec /\ sent.queue = c.queue
    BY <1>1, CodecChanged
  <1> HIDE DEF sent
  <1>4. c.formatChange \in BOOLEAN /\ c.open /\ q \in Seq(Frame) /\ Pipeline(c) = q \o none
    BY <1>2, PipelineParts DEF ContextOK, Context, Working
  <1>5. Pipeline(c) = q
    <2> HIDE DEF q
    <2> QED BY <1>4, ConcatEmptySeq
  <1> HIDE DEF q, none
  <1>6. \/ c.formatChange /\ o = Outcome("MF_E_NOTACCEPTING", c)
        \/ ~c.formatChange /\ s.rv = "error" /\ o = Outcome("E_FAIL", sent)
        \/ ~c.formatChange /\ s.rv = "ok" /\ o \in ReceiveOne(sent, p)
    BY <1>1, <1>4 DEF Decode, Result, s, sent
  <1>7. CASE c.formatChange /\ o = Outcome("MF_E_NOTACCEPTING", c)
    BY <1>7 DEF Outcome, Takes
  <1>8. CASE ~c.formatChange /\ s.rv = "error" /\ o = Outcome("E_FAIL", sent)
    <2>1. o.hr = "E_FAIL" /\ o.ctx = sent /\ ~o.crash BY <1>8 DEF Outcome
    <2>2. Pipeline(sent) = q \o f
      BY <1>1, <1>2, <1>3, PipelineParts DEF q
    <2>3. Working(sent) BY <1>3 DEF Working, MadeAs
    <2> QED BY <1>1, <1>5, <1>8, <2>1, <2>2, <2>3 DEF Takes, f
  <1>9. CASE ~c.formatChange /\ s.rv = "ok" /\ o \in ReceiveOne(sent, p)
    <2> DEFINE r    == Receive(sent.av)
               left == [sent EXCEPT !.av = r.codec]
               x    == [frame |-> r.frames[1], by |-> p.id]
               b    == InCodec(r.codec)
    <2>1. /\ ReturnOK(r) /\ r.frames \o b = f /\ r.rv # "error"
      BY <1>1, <1>2, <1>3, ReceiveType, ReceiveKeeps, GoodPacketsDecode
    <2> HIDE DEF r
    <2>2. CodecOK(r.codec) /\ r.frames \in Seq(Frame) /\ r.rv \in { "ok", "EAGAIN" } /\ b \in Seq(Frame)
      BY <2>1, CodecFrames DEF ReturnOK, Result
    <2>3. ContextOK(left) /\ MadeAs(left, c) /\ left.av = r.codec /\ left.queue = c.queue
      BY <1>3, <2>2, CodecChanged DEF MadeAs
    <2> HIDE DEF left
    <2>4. Working(left) /\ sent.frame BY <1>3, <2>3 DEF Working, MadeAs
    <2>5. Pipeline(left) = q \o b BY <2>3, PipelineParts DEF q
    <2> HIDE DEF b
    <2>6. CASE r.rv = "EAGAIN"
      <3>1. o = Outcome("S_FALSE", left) BY <1>9, <2>4, <2>6 DEF ReceiveOne, r, left
      <3>2. r.frames = << >> BY <2>1, <2>6 DEF ReturnOK
      <3>3. b = f BY <2>1, <2>2, <3>2, ConcatEmptySeq
      <3>4. o.hr = "S_FALSE" /\ o.ctx = left /\ ~o.crash BY <3>1 DEF Outcome
      <3> QED BY <1>5, <1>9, <2>4, <2>5, <3>3, <3>4 DEF Takes, f
    <2>7. CASE r.rv = "ok"
      <3>1. o \in Convert(left, r.frames[1], p) BY <1>9, <2>4, <2>7 DEF ReceiveOne, r, left
      <3>2. o = Outcome("S_OK", QueueOutput(left, x))
        BY <2>4, <3>1 DEF Convert, Failing, Working
      <3>3. r.frames # << >> /\ Len(r.frames) <= 1 BY <2>1, <2>7 DEF ReturnOK
      <3>4. r.frames[1] \in Frame /\ r.frames = << r.frames[1] >> BY <2>2, <3>3
      <3>5. x \in Sample /\ x.frame = r.frames[1] BY <3>4 DEF Sample, Packet
      <3> HIDE DEF x
      <3> DEFINE d == QueueOutput(left, x)
      <3>6. ContextOK(d) /\ MadeAs(d, left) /\ d.av = left.av /\ d.queue = Append(left.queue, x)
        BY <2>3, <3>5, QueueOutputType
      <3> HIDE DEF d
      <3>7. o.hr = "S_OK" /\ o.ctx = d /\ ~o.crash BY <3>2 DEF Outcome, d
      <3>8. Working(d) BY <2>4, <3>6 DEF Working, MadeAs
      <3>9. FramesIn(d.queue) = q \o r.frames
        <4>1. c.queue \in Seq(Sample) BY PipelineParts
        <4>2. FramesIn(Append(c.queue, x)) = FramesIn(c.queue) \o << x.frame >>
          BY <3>5, <4>1, FramesAppended
        <4> QED BY <2>3, <3>4, <3>5, <3>6, <4>2 DEF q
      <3>10. Pipeline(d) = (q \o r.frames) \o b
        BY <2>3, <3>6, <3>9, PipelineParts DEF b
      <3>11. (q \o r.frames) \o b = q \o (r.frames \o b)
        BY <1>4, <2>2, Associative, Zenon
      <3>12. Pipeline(d) = q \o f BY <2>1, <3>10, <3>11
      <3> QED BY <1>5, <1>9, <3>7, <3>8, <3>12 DEF Takes, f
    <2> QED BY <2>2, <2>6, <2>7
  <1> QED BY <1>6, <1>7, <1>8, <1>9

-----------------------------------------------------------------------------
(***************************************************************************)
(* The client's calls are calls of the decoder.  The one that names a type *)
(* of the decoder's own is made when there is one.                         *)
(***************************************************************************)
RetypeInv == phase = "retype" => suggested # NoType

LEMMA ClientCalls == TypeOK /\ RetypeInv /\ [ClientNext]_clientVars => [Next]_vars /\ RetypeInv'
  <1> SUFFICES ASSUME TypeOK, RetypeInv, [ClientNext]_clientVars PROVE [Next]_vars /\ RetypeInv'
    OBVIOUS
  <1> USE DEF Next, TypeCall, InputCall, OutputCall, MessageCall, RetypeInv
  <1>1. CASE ChooseInput BY <1>1 DEF ChooseInput
  <1>2. CASE ChooseOutput BY <1>2 DEF ChooseOutput
  <1>3. CASE Start BY <1>3 DEF Start
  <1>4. ASSUME NEW p \in OfferedPackets, Feed(p) PROVE [Next]_vars /\ RetypeInv'
    BY <1>4 DEF Feed
  <1>5. CASE Collect
    <2>1. phase' = "retype" => reply'.hr = "MF_E_TRANSFORM_STREAM_CHANGE"
      BY <1>5 DEF Collect
    <2>2. OutputCall /\ phase \in { "any", "pull", "drain" } BY <1>5 DEF Collect
    <2>3. reply'.hr = "MF_E_TRANSFORM_STREAM_CHANGE" => suggested' # NoType
      BY <2>2 DEF StreamChange, StreamChangeWithoutType, StreamChangeFails, DeliverSample,
                  LoseSample, NeedMoreInput, Replies
    <2> QED BY <2>1, <2>2, <2>3
  <1>6. CASE Retype
    <2>1. suggested \in MediaTypes BY <1>6, TypeOKContext DEF Retype, Types
    <2> QED BY <1>6, <2>1 DEF Retype
  <1>7. CASE Seek BY <1>7 DEF Seek
  <1>8. CASE End BY <1>8 DEF End
  <1>9. CASE DrainOut BY <1>9 DEF DrainOut
  <1>10. CASE UNCHANGED clientVars BY <1>10 DEF clientVars, vars, typeVars
  <1> QED BY <1>1, <1>2, <1>3, <1>4, <1>5, <1>6, <1>7, <1>8, <1>9, <1>10
          DEF ClientNext, ClientStep, Done

(***************************************************************************)
(* Whatever fails, what is true of the decoder under any client is true    *)
(* under this one.                                                         *)
(***************************************************************************)
THEOREM ClientIsAllowed == ClientSpec => Spec
  <1>1. ClientInit => Init /\ RetypeInv BY DEF ClientInit, RetypeInv
  <1> QED BY <1>1, InitTypeOK, NextTypeOK, ClientCalls, PTL DEF ClientSpec, Spec

-----------------------------------------------------------------------------
(***************************************************************************)
(* The client's invariant: a context is fresh or works, types that fit are *)
(* set in every phase that calls with them, and from the start of a stream *)
(* to its end only a fresh context waits to be rebuilt: the client comes   *)
(* back from a type change through "pull", which takes every sample out.   *)
(***************************************************************************)
Typed == { "start", "feed", "any", "pull", "ended", "drain", "done" }

ClientInv ==
  /\ phase \in Phases /\ accepted \in Seq(Frame) /\ got \in Seq(Frame)
  /\ ~crashed
  /\ Fresh(ctx) \/ Working(ctx)
  /\ ctx.formatChange => phase = "pull"
  /\ inType # NoType => majorType = inType.major
  /\ phase # "input" => inType # NoType
  /\ phase = "input" => Fresh(ctx)
  /\ phase = "output" => bStreaming \/ Fresh(ctx)
  /\ phase \in { "feed", "any", "pull", "retype" } => bStreaming
  /\ phase = "retype" => suggested # NoType /\ suggested.listed /\ suggested.major = majorType
  /\ phase \in Typed => outType # NoType /\ Convertible(inType, outType)
  /\ phase \in Typed \ { "pull" } => (bFormatChange => Fresh(ctx))

(* What holds of the decoder under every client. *)
Known == TypeOK /\ ContextMatchesTypes /\ ReadyInv /\ InOrder

(* What may fail without frames being lost: a packet is taken in whole or not at all. *)
NoLoss == Lag = 0 /\ MaxFrames <= 1 /\ MayFail \subseteq { "params", "decode", "media" }

Answers ==
  { "S_OK", "S_FALSE", "MF_E_NOTACCEPTING", "MF_E_TRANSFORM_NEED_MORE_INPUT",
    "MF_E_TRANSFORM_STREAM_CHANGE" }

Keeps == ClientInv' /\ NothingLost' /\ (MayFail = {} => reply'.hr \in Answers)

LEMMA ClientFacts ==
  ASSUME Lag = 0, Known, ClientInv
  PROVE  /\ ContextOK(ctx) /\ ctx \in Context
         /\ {inType, outType, suggested} \subseteq Types
         /\ bFormatChange \in BOOLEAN /\ bStreaming \in BOOLEAN
         /\ NothingLeft(ctx.av) /\ InCodec(ctx.av) = << >> /\ Pipeline(ctx) \in Seq(Frame)
         /\ Fresh(ctx) => ~HasInitialized(ctx) /\ ~HasNextSample(ctx) /\ Pipeline(ctx) = << >>
         /\ Working(ctx) => HasInitialized(ctx) /\ ~Fresh(ctx)
         /\ Working(ctx) /\ phase \in Typed \ { "pull" } =>
              ~bFormatChange /\ ctx.in = "live" /\ ctx.out = "live"
         /\ phase \in Typed => inType \in MediaTypes /\ outType \in MediaTypes
  <1>1. /\ ContextOK(ctx) /\ ctx \in Context /\ {inType, outType, suggested} \subseteq Types
        /\ bFormatChange \in BOOLEAN /\ bStreaming \in BOOLEAN
    BY TypeOKContext DEF Known, ContextOK
  <1>2. NothingLeft(ctx.av) BY DEF Known, ClientInv, ReadyInv, NothingLeft
  <1>3. InCodec(ctx.av) = << >> BY <1>1, <1>2, NothingInCodec DEF ContextOK
  <1>4. Pipeline(ctx) \in Seq(Frame) BY <1>1, PipelineParts
  <1>5. phase \in Typed => inType # NoType /\ outType # NoType
    BY DEF ClientInv, Typed
  <1>6. Working(ctx) /\ phase \in Typed \ { "pull" } =>
          ~bFormatChange /\ ctx.in = "live" /\ ctx.out = "live"
    BY <1>5, FreshOrWorking DEF Known, ClientInv, ContextMatchesTypes
  <1> QED BY <1>1, <1>2, <1>3, <1>4, <1>5, <1>6, FreshOrWorking DEF Types

(* The release of a type, and the reading of a format change, leave the context as good. *)
LEMMA ReleaseServes ==
  ASSUME NEW c, ContextOK(c), NEW d,
         d \in { [c EXCEPT !.in = Released(@)], [c EXCEPT !.out = Released(@)],
                 [c EXCEPT !.formatChange = FALSE],
                 [c EXCEPT !.formatChange = FALSE, !.out = Released(@)] }
  PROVE  /\ Fresh(c) => Fresh(d)
         /\ Working(c) => Working(d)
         /\ Pipeline(d) = Pipeline(c)
         /\ d.formatChange => c.formatChange
  <1>1. /\ d.params = c.params /\ d.codec = c.codec /\ d.open = c.open /\ d.av = c.av
        /\ d.helper = c.helper /\ d.frame = c.frame /\ d.queue = c.queue
        /\ d.formatChange => c.formatChange
    BY DEF ContextOK, Context
  <1> QED BY <1>1 DEF Fresh, Working, Pipeline

-----------------------------------------------------------------------------
(***************************************************************************)
(* One lemma for each call of the client.                                  *)
(***************************************************************************)

LEMMA ChooseInputKeeps ==
  ASSUME NoLoss, Known, ClientInv, NothingLost, ChooseInput
  PROVE  Keeps
  <1>1. PICK type \in MediaTypes : SetInputType(type) BY DEF ChooseInput
  <1>2. /\ phase \in { "input", "feed", "any" } /\ phase' = "output"
        /\ UNCHANGED << accepted, got >>
    BY DEF ChooseInput, Playing
  <1>3. /\ inType' = type /\ type # NoType /\ majorType' = type.major
        /\ reply'.hr = "S_OK"
        /\ UNCHANGED << bStreaming, crashed >>
    BY <1>1 DEF SetInputType, MediaTypes, NoType, Replies
  <1>4. ContextOK(ctx) BY ClientFacts DEF NoLoss
  <1> DEFINE d == [ctx EXCEPT !.in = Released(@)]
  <1>released. ctx' = d BY <1>1 DEF SetInputType
  <1>5. /\ (Fresh(ctx) => Fresh(ctx')) /\ (Working(ctx) => Working(ctx'))
        /\ Pipeline(ctx') = Pipeline(ctx) /\ (ctx'.formatChange => ctx.formatChange)
    BY <1>released, <1>4, ReleaseServes
  <1> HIDE DEF d
  <1>6. ClientInv' BY <1>2, <1>3, <1>5 DEF ClientInv, Phases, Typed
  <1>7. NothingLost' BY <1>2, <1>5 DEF NothingLost
  <1> QED BY <1>3, <1>6, <1>7 DEF Keeps, Answers

LEMMA ChooseOutputKeeps ==
  ASSUME NoLoss, Known, ClientInv, NothingLost, ChooseOutput
  PROVE  Keeps
  <1>1. PICK type \in MediaTypes : type.listed /\ SetOutputType(type) BY DEF ChooseOutput
  <1>2. /\ phase = "output" /\ phase' = IF bStreaming THEN "pull" ELSE "start"
        /\ UNCHANGED << accepted, got >>
    BY DEF ChooseOutput
  <1>3. /\ outType' = type /\ type # NoType /\ type.major = majorType
        /\ reply'.hr = "S_OK"
        /\ UNCHANGED << inType, majorType, bStreaming, crashed >>
    BY <1>1 DEF SetOutputType, MediaTypes, NoType, Replies
  <1>4. ContextOK(ctx) /\ bStreaming \in BOOLEAN BY ClientFacts DEF NoLoss
  <1> DEFINE d == [ctx EXCEPT !.out = Released(@)]
  <1>released. ctx' = d BY <1>1 DEF SetOutputType
  <1>5. /\ (Fresh(ctx) => Fresh(ctx')) /\ (Working(ctx) => Working(ctx'))
        /\ Pipeline(ctx') = Pipeline(ctx) /\ (ctx'.formatChange => ctx.formatChange)
    BY <1>released, <1>4, ReleaseServes
  <1> HIDE DEF d
  <1>6. Convertible(inType', outType') BY <1>1, <1>2, <1>3 DEF ClientInv, Convertible
  <1>7. ClientInv' BY <1>2, <1>3, <1>4, <1>5, <1>6 DEF ClientInv, Phases, Typed
  <1>8. NothingLost' BY <1>2, <1>5 DEF NothingLost
  <1> QED BY <1>3, <1>7, <1>8 DEF Keeps, Answers

LEMMA RetypeKeeps ==
  ASSUME NoLoss, Known, ClientInv, NothingLost, Retype
  PROVE  Keeps
  <1>1. phase = "retype" /\ phase' = "pull" /\ UNCHANGED << accepted, got >> BY DEF Retype
  <1>2. /\ outType' = suggested /\ suggested # NoType
        /\ suggested.listed /\ suggested.major = majorType
        /\ reply'.hr = "S_OK"
        /\ UNCHANGED << inType, majorType, bStreaming, crashed >>
    BY <1>1 DEF Retype, SetOutputType, Replies, ClientInv
  <1>3. ContextOK(ctx) BY ClientFacts DEF NoLoss
  <1> DEFINE d == [ctx EXCEPT !.out = Released(@)]
  <1>released. ctx' = d BY DEF Retype, SetOutputType
  <1>4. /\ (Fresh(ctx) => Fresh(ctx')) /\ (Working(ctx) => Working(ctx'))
        /\ Pipeline(ctx') = Pipeline(ctx) /\ (ctx'.formatChange => ctx.formatChange)
    BY <1>released, <1>3, ReleaseServes
  <1> HIDE DEF d
  <1>5. Convertible(inType', outType') BY <1>1, <1>2 DEF ClientInv, Convertible
  <1>6. ClientInv' BY <1>1, <1>2, <1>4, <1>5 DEF ClientInv, Phases, Typed
  <1>7. NothingLost' BY <1>1, <1>4 DEF NothingLost
  <1> QED BY <1>2, <1>6, <1>7 DEF Keeps, Answers

(* A flush for this client leaves its context fresh, or working, and empty. *)
LEMMA FlushForClient ==
  ASSUME NoLoss, Known, ClientInv, phase \in Typed \ { "pull" },
         NEW o \in Flush(ctx, inType, outType)
  PROVE  /\ ~o.crash /\ ~o.ctx.formatChange
         /\ Fresh(ctx) => Fresh(o.ctx)
         /\ ~Fresh(ctx) => Working(o.ctx)
         /\ Pipeline(o.ctx) = << >>
  <1>1. /\ ContextOK(ctx)
        /\ Working(ctx) => ctx.in = "live" /\ ctx.out = "live"
        /\ "open" \notin MayFail /\ "helper" \notin MayFail
    BY ClientFacts DEF NoLoss
  <1>2. /\ Convertible(inType, outType) /\ (Fresh(ctx) \/ Working(ctx)) /\ ~ctx.formatChange
    BY DEF ClientInv, Typed
  <1>3. ~o.crash /\ (Fresh(ctx) => Fresh(o.ctx)) /\ (~Fresh(ctx) => Working(o.ctx))
    BY <1>1, <1>2, FlushServes
  <1>4. o.ctx.queue = << >> /\ o.ctx.av = Opened /\ o.ctx.formatChange = ctx.formatChange
    BY <1>1, FlushOutcome
  <1> QED BY <1>2, <1>3, <1>4, EmptyPipeline

LEMMA NothingYet == << >> \in Seq(Frame) /\ << >> \o << >> = << >>
  BY EmptySeq, ConcatEmptySeq

LEMMA StartKeeps ==
  ASSUME NoLoss, Known, ClientInv, NothingLost, Start
  PROVE  Keeps
  <1>1. PICK o \in Flush(ctx, inType, outType) : ctx' = o.ctx /\ crashed' = o.crash
    BY DEF Start, StartOfStream, Applies
  <1>2. /\ phase = "start" /\ phase' = "feed" /\ accepted' = << >> /\ got' = << >>
        /\ bStreaming' = TRUE /\ reply'.hr = "S_OK"
        /\ UNCHANGED << inType, outType, suggested, majorType, bFormatChange >>
    BY DEF Start, StartOfStream, Replies, typeVars
  <1>3. /\ ~crashed' /\ ~ctx'.formatChange /\ Pipeline(ctx') = << >>
        /\ (Fresh(ctx) => Fresh(ctx')) /\ (~Fresh(ctx) => Working(ctx'))
    BY <1>1, <1>2, FlushForClient DEF Typed
  <1>4. ClientInv' BY <1>2, <1>3, NothingYet DEF ClientInv, Phases, Typed
  <1>5. NothingLost' BY <1>2, <1>3, NothingYet DEF NothingLost
  <1> QED BY <1>2, <1>4, <1>5 DEF Keeps, Answers

LEMMA SeekKeeps ==
  ASSUME NoLoss, Known, ClientInv, NothingLost, Seek
  PROVE  Keeps
  <1>1. /\ phase \in { "feed", "any", "drain" }
        /\ phase' = IF bStreaming THEN "feed" ELSE "start"
        /\ accepted' = << >> /\ got' = << >>
        /\ reply'.hr = "S_OK"
        /\ UNCHANGED << inType, outType, suggested, majorType, bFormatChange, bStreaming >>
    BY DEF Seek, Playing, FlushMessage, IgnoredMessage, Replies, typeVars
  <1>2. bStreaming \in BOOLEAN BY ClientFacts DEF NoLoss
  <1>3. /\ ~crashed' /\ ~ctx'.formatChange /\ Pipeline(ctx') = << >>
        /\ (Fresh(ctx) => Fresh(ctx')) /\ (~Fresh(ctx) => Working(ctx'))
    <2>1. CASE FlushMessage
      <3>1. PICK o \in Flush(ctx, inType, outType) : ctx' = o.ctx /\ crashed' = o.crash
        BY <2>1 DEF FlushMessage, Applies
      <3> QED BY <1>1, <3>1, FlushForClient DEF Typed
    <2>2. CASE IgnoredMessage
      <3>1. ctx' = ctx /\ crashed' = crashed /\ ~HasInitialized(ctx)
        BY <2>2 DEF IgnoredMessage
      <3>2. Fresh(ctx) BY <3>1, FreshOrWorking DEF ClientInv
      <3> QED BY <3>1, <3>2, FreshOrWorking DEF ClientInv, Fresh
    <2> QED BY <2>1, <2>2 DEF Seek
  <1>4. ClientInv' BY <1>1, <1>2, <1>3, NothingYet DEF ClientInv, Phases, Typed
  <1>5. NothingLost' BY <1>1, <1>3, NothingYet DEF NothingLost
  <1> QED BY <1>1, <1>4, <1>5 DEF Keeps, Answers

LEMMA EndKeeps ==
  ASSUME NoLoss, Known, ClientInv, NothingLost, End
  PROVE  Keeps
  <1>1. /\ phase \in { "feed", "any" } /\ phase' = "ended" /\ reply'.hr = "S_OK"
        /\ UNCHANGED << ctx, inType, outType, suggested, majorType, bFormatChange, crashed,
                        accepted, got >>
    BY DEF End, Playing, EndOfStream, Replies, typeVars
  <1>2. ClientInv' BY <1>1 DEF ClientInv, Phases, Typed
  <1>3. NothingLost' BY <1>1 DEF NothingLost
  <1> QED BY <1>1, <1>2, <1>3 DEF Keeps, Answers

LEMMA DrainOutKeeps ==
  ASSUME NoLoss, Known, ClientInv, NothingLost, DrainOut
  PROVE  Keeps
  <1>1. /\ phase = "ended" /\ phase' = "drain"
        /\ UNCHANGED << inType, outType, suggested, majorType, bFormatChange, bStreaming,
                        accepted, got >>
    BY DEF DrainOut, Drain, IgnoredMessage, typeVars
  <1>2. /\ ContextOK(ctx) /\ InCodec(ctx.av) = << >>
        /\ Fresh(ctx) => ~HasInitialized(ctx)
        /\ Working(ctx) => HasInitialized(ctx) /\ ctx.in = "live" /\ ctx.out = "live"
        /\ "open" \notin MayFail /\ "helper" \notin MayFail
    BY <1>1, ClientFacts DEF NoLoss, Typed
  <1>3. /\ Convertible(inType, outType) /\ (Fresh(ctx) \/ Working(ctx)) /\ ~ctx.formatChange
    BY <1>1 DEF ClientInv, Typed
  <1>4. /\ ~crashed' /\ ~ctx'.formatChange /\ Pipeline(ctx') = Pipeline(ctx) /\ reply'.hr = "S_OK"
        /\ (Fresh(ctx) => Fresh(ctx')) /\ (Fresh(ctx') \/ Working(ctx'))
    <2>1. CASE Drain
      <3>1. PICK o \in FlushInput(ctx, inType, outType) :
              ctx' = o.ctx /\ crashed' = o.crash /\ reply'.hr = o.hr
        BY <2>1 DEF Drain, Applies, Replies
      <3>2. HasInitialized(ctx) BY <2>1 DEF Drain
      <3>3. ~o.crash /\ Working(o.ctx) /\ o.hr = "S_OK"
        BY <1>2, <1>3, <3>2, FlushInputWorks
      <3>4. /\ o.ctx.queue = ctx.queue /\ o.ctx.av = Opened
            /\ o.ctx.formatChange = ctx.formatChange
        BY <1>2, FlushInputOutcome
      <3>5. Pipeline(o.ctx) = Pipeline(ctx) BY <1>2, <3>4, EmptyPipeline DEF Pipeline
      <3> QED BY <1>2, <1>3, <3>1, <3>2, <3>3, <3>4, <3>5
    <2>2. CASE IgnoredMessage
      BY <1>3, <2>2 DEF IgnoredMessage, Replies, ClientInv
    <2> QED BY <2>1, <2>2 DEF DrainOut
  <1>5. ClientInv' BY <1>1, <1>4 DEF ClientInv, Phases, Typed
  <1>6. NothingLost' BY <1>1, <1>4 DEF NothingLost
  <1> QED BY <1>4, <1>5, <1>6 DEF Keeps, Answers

(***************************************************************************)
(* The context that ProcessInput decodes with works and is empty, or was   *)
(* taken over with its samples.                                            *)
(***************************************************************************)
LEMMA InitializedServes ==
  ASSUME NoLoss, Known, ClientInv, phase \in { "feed", "any" }, NEW i \in Initialized
  PROVE  /\ ContextOK(i.ctx) /\ NothingLeft(i.ctx.av) /\ Pipeline(i.ctx) = Pipeline(ctx)
         /\ i.type # NoType /\ Convertible(inType, i.type)
         /\ \/ i.hr = "S_OK" /\ Working(i.ctx)
            \/ i.hr = "E_FAIL" /\ Fresh(i.ctx) /\ "params" \in MayFail
  <1>1. /\ ContextOK(ctx) /\ NothingLeft(ctx.av)
        /\ Fresh(ctx) => ~HasInitialized(ctx) /\ Pipeline(ctx) = << >>
        /\ Working(ctx) => HasInitialized(ctx)
        /\ inType \in MediaTypes /\ outType \in MediaTypes
    BY ClientFacts DEF NoLoss, Typed
  <1>2. /\ outType # NoType /\ Convertible(inType, outType) /\ (Fresh(ctx) \/ Working(ctx))
    BY DEF ClientInv, Typed
  <1>3. ContextOK(i.ctx) BY InitializedQueue DEF Known
  <1>4. CASE HasInitialized(ctx)
    <2>1. i.hr = "S_OK" /\ i.ctx = ctx /\ i.type = outType BY <1>4 DEF Initialized, Ready
    <2> QED BY <1>1, <1>2, <1>4, <2>1
  <1>5. CASE ~HasInitialized(ctx)
    <2>1. i \in Initialize(ctx, inType, outType) BY <1>5 DEF Initialized
    <2>2. "open" \notin MayFail /\ "helper" \notin MayFail BY DEF NoLoss
    <2>3. Fresh(ctx) BY <1>1, <1>2, <1>5
    <2>4. /\ i.ctx.queue = << >> /\ i.ctx.av = Opened
          /\ i.type # NoType /\ Convertible(inType, i.type)
          /\ \/ i.hr = "S_OK" /\ Working(i.ctx)
             \/ i.hr = "E_FAIL" /\ Fresh(i.ctx) /\ "params" \in MayFail
      BY <1>1, <1>2, <2>1, <2>2, <2>3, InitializeServes
    <2>5. Pipeline(i.ctx) = Pipeline(ctx) BY <1>1, <2>3, <2>4, EmptyPipeline
    <2>6. NothingLeft(i.ctx.av) BY <2>4 DEF NothingLeft, Opened
    <2> QED BY <1>3, <2>4, <2>5, <2>6
  <1> QED BY <1>4, <1>5

LEMMA FeedKeeps ==
  ASSUME NoLoss, Known, ClientInv, NothingLost, NEW p \in OfferedPackets, Feed(p)
  PROVE  Keeps
  <1>1. /\ phase \in { "feed", "any" }
        /\ phase' = IF reply'.hr = "MF_E_NOTACCEPTING" THEN "pull" ELSE "any"
        /\ accepted' = IF taken' = taken THEN accepted ELSE accepted \o FramesOf(p)
        /\ got' = got
        /\ UNCHANGED << inType, suggested, majorType, bFormatChange, bStreaming >>
    BY DEF Feed, Playing, RefuseInput, FailInput, DecodeInput, typeVars
  <1>2. /\ accepted \in Seq(Frame) /\ got \in Seq(Frame) /\ Pipeline(ctx) \in Seq(Frame)
        /\ bFormatChange \in BOOLEAN
    BY ClientFacts DEF ClientInv, NoLoss
  <1>3. ASSUME ~crashed', ctx'.formatChange => phase' = "pull",
               outType' # NoType, Convertible(inType, outType'),
               Fresh(ctx') \/ Working(ctx'), bFormatChange /\ phase' = "any" => Fresh(ctx'),
               accepted' \in Seq(Frame)
        PROVE  ClientInv'
    BY <1>1, <1>2, <1>3 DEF ClientInv, Phases, Typed
  <1>4. CASE RefuseInput
    <2>1. /\ UNCHANGED << ctx, outType, crashed, taken >>
          /\ reply'.hr = "MF_E_NOTACCEPTING"
      BY <1>4 DEF RefuseInput, typeVars, history, Replies
    <2>2. phase' = "pull" /\ accepted' = accepted BY <1>1, <2>1
    <2>3. ClientInv' BY <1>1, <1>2, <1>3, <2>1, <2>2 DEF ClientInv, Typed
    <2>4. NothingLost' BY <1>1, <2>1, <2>2 DEF NothingLost
    <2> QED BY <2>1, <2>3, <2>4 DEF Keeps, Answers
  <1>5. CASE FailInput
    <2>1. PICK i \in Initialized :
            /\ i.hr # "S_OK" \/ "packet" \in MayFail
            /\ ctx' = i.ctx /\ outType' = i.type
            /\ reply'.hr = IF i.hr = "S_OK" THEN "E_FAIL" ELSE i.hr
      BY <1>5 DEF FailInput, Replies
    <2>2. UNCHANGED << crashed, taken >> /\ ~crashed /\ ~bFormatChange
      BY <1>5 DEF FailInput, history, Refusing
    <2>3. /\ Pipeline(i.ctx) = Pipeline(ctx) /\ i.type # NoType /\ Convertible(inType, i.type)
          /\ \/ i.hr = "S_OK" /\ Working(i.ctx)
             \/ i.hr = "E_FAIL" /\ Fresh(i.ctx) /\ "params" \in MayFail
      BY <1>1, InitializedServes
    <2>4. i.hr = "E_FAIL" /\ Fresh(i.ctx) /\ "params" \in MayFail /\ ~i.ctx.formatChange
      BY <2>1, <2>3 DEF NoLoss, Fresh
    <2>5. ClientInv' BY <1>1, <1>2, <1>3, <2>1, <2>2, <2>3, <2>4
    <2>6. NothingLost' BY <1>1, <2>1, <2>2, <2>3 DEF NothingLost
    <2> QED BY <2>4, <2>5, <2>6 DEF Keeps
  <1>6. CASE DecodeInput(p)
    <2>1. PICK i \in Initialized : \E d \in Decode(i.ctx, p) :
            /\ i.hr = "S_OK" /\ outType' = i.type /\ Applies(d) /\ reply'.hr = d.hr
            /\ taken' = IF d.hr = "MF_E_NOTACCEPTING" THEN taken ELSE p.id
      BY <1>6 DEF DecodeInput, Replies
    <2>2. PICK d \in Decode(i.ctx, p) :
            /\ i.hr = "S_OK" /\ outType' = i.type /\ ctx' = d.ctx /\ crashed' = d.crash
            /\ reply'.hr = d.hr
            /\ taken' = IF d.hr = "MF_E_NOTACCEPTING" THEN taken ELSE p.id
      BY <2>1 DEF Applies
    <2>3. /\ ContextOK(i.ctx) /\ NothingLeft(i.ctx.av) /\ Pipeline(i.ctx) = Pipeline(ctx)
          /\ i.type # NoType /\ Convertible(inType, i.type) /\ Working(i.ctx)
      BY <1>1, <2>2, InitializedServes
    <2>4. /\ p \in Packet /\ (p.bad => MayFail # {}) /\ FramesOf(p) \in Seq(Frame)
          /\ "convert" \notin MayFail /\ Lag = 0 /\ MaxFrames <= 1
      BY FramesOfType DEF OfferedPackets, NoLoss
    <2>5. ~d.crash /\ Working(d.ctx) /\ Takes(d, i.ctx, p) BY <2>3, <2>4, DecodeServes
    <2>6. d.ctx.formatChange = i.ctx.formatChange BY <2>3, <2>4, DecodeOutcome DEF MadeAs
    <2>7. ~bFormatChange /\ taken # p.id
      <3>1. taken \in Nat BY TypeOKContext DEF Known
      <3> QED BY <1>6, <3>1 DEF DecodeInput, Refusing
    <2>8. CASE d.hr = "MF_E_NOTACCEPTING" /\ d.ctx = i.ctx
      <3>1. phase' = "pull" /\ accepted' = accepted BY <1>1, <2>2, <2>8
      <3>2. ClientInv' BY <1>1, <1>2, <1>3, <2>2, <2>3, <2>5, <3>1
      <3>3. NothingLost' BY <1>1, <2>2, <2>3, <2>8, <3>1 DEF NothingLost
      <3> QED BY <2>2, <2>8, <3>2, <3>3 DEF Keeps, Answers
    <2>9. CASE /\ ~i.ctx.formatChange
               /\ d.hr \in { "S_OK", "S_FALSE" } \/ (p.bad /\ d.hr = "E_FAIL")
               /\ Pipeline(d.ctx) = Pipeline(i.ctx) \o FramesOf(p)
      <3> DEFINE f == FramesOf(p)
      <3>1. d.hr # "MF_E_NOTACCEPTING" BY <2>9
      <3>2. phase' = "any" /\ accepted' = accepted \o f BY <1>1, <2>2, <2>7, <3>1
      <3>3. f \in Seq(Frame) BY <2>4
      <3> HIDE DEF f
      <3>4. accepted' \in Seq(Frame) BY <1>2, <3>2, <3>3, ConcatProperties
      <3>5. ClientInv' BY <1>1, <1>2, <1>3, <2>2, <2>3, <2>5, <2>6, <2>7, <2>9, <3>4
      <3>6. NothingLost'
        <4>1. Pipeline(ctx') = Pipeline(ctx) \o f BY <2>2, <2>3, <2>9 DEF f
        <4>2. got \o (Pipeline(ctx) \o f) = (got \o Pipeline(ctx)) \o f
          BY <1>2, <3>3, Associative
        <4> QED BY <1>1, <3>2, <4>1, <4>2 DEF NothingLost
      <3> QED BY <2>2, <2>4, <2>9, <3>5, <3>6 DEF Keeps, Answers
    <2> QED BY <2>5, <2>8, <2>9 DEF Takes
  <1> QED BY <1>4, <1>5, <1>6 DEF Feed

(* The rebuild after a type change, and the end of a drain: nothing is left to be lost. *)
LEMMA EmptiedServes ==
  ASSUME NoLoss, Known, ClientInv, NEW c, ContextOK(c), MadeAs(c, ctx), c.av = ctx.av, Emptied(c)
  PROVE  /\ Pipeline(ctx') = Pipeline(c)
         /\ \/ ctx' = NewContext /\ bFormatChange' = FALSE
            \/ ctx' = c /\ bFormatChange' = bFormatChange /\ (bFormatChange => HasNextSample(c))
  <1>1. \/ ctx' = NewContext /\ bFormatChange' = FALSE /\ ~HasNextSample(c)
        \/ ctx' = c /\ bFormatChange' = bFormatChange /\ (bFormatChange => HasNextSample(c))
    BY DEF Emptied
  <1>2. CASE ctx' = NewContext /\ bFormatChange' = FALSE /\ ~HasNextSample(c)
    <2>1. c.queue = << >> BY <1>2 DEF HasNextSample
    <2>2. InCodec(c.av) = InCodec(Opened) BY ClientFacts, EmptyPipeline DEF NoLoss
    <2>3. NewContext.queue = << >> /\ NewContext.av = Opened BY DEF NewContext
    <2>4. Pipeline(c) = Pipeline(NewContext)
      <3>1. \A d : Pipeline(d) = FramesIn(d.queue) \o InCodec(d.av) BY DEF Pipeline, FramesIn
      <3> QED BY <2>1, <2>2, <2>3, <3>1
    <2> QED BY <1>2, <2>4
  <1> QED BY <1>1, <1>2

(* A frame delivered comes after the one before it. *)
LEMMA DeliveredIsNew ==
  ASSUME Known, HasNextSample(ctx)
  PROVE  Head(ctx.queue).frame # last
  <1> DEFINE s == Pipeline(ctx)
  <1>1. ContextOK(ctx) BY TypeOKContext DEF Known
  <1>2. s \in Seq(Frame) /\ s # << >> /\ Head(s) = Head(ctx.queue).frame
    BY <1>1, PipelineTaken, PipelineParts
  <1>3. \A i \in 1 .. Len(s) : Precedes(last, s[i]) BY DEF Known, InOrder
  <1>4. last.pkt \in Nat /\ last.ix \in Nat
    BY TypeOKContext, FramesAreAny DEF Known, AnyFrame
  <1> HIDE DEF s
  <1>5. 1 \in 1 .. Len(s) /\ Head(s) = s[1] BY <1>2, EmptySeq, LenProperties
  <1>6. Precedes(last, Head(s)) BY <1>3, <1>5
  <1> QED BY <1>2, <1>4, <1>6 DEF Precedes

LEMMA CollectKeeps ==
  ASSUME NoLoss, Known, ClientInv, NothingLost, Collect
  PROVE  Keeps
  <1>1. /\ phase \in { "any", "pull", "drain" } /\ OutputCall
        /\ phase' = CASE reply'.hr = "MF_E_TRANSFORM_NEED_MORE_INPUT" ->
                           IF phase = "drain" THEN "done" ELSE "feed"
                      [] reply'.hr = "MF_E_TRANSFORM_STREAM_CHANGE" -> "retype"
                      [] OTHER -> phase
        /\ got' = IF last' = last THEN got ELSE Append(got, last')
        /\ accepted' = accepted
    BY DEF Collect
  <1>2. /\ ContextOK(ctx) /\ ctx \in Context /\ bFormatChange \in BOOLEAN /\ bStreaming \in BOOLEAN
        /\ Pipeline(ctx) \in Seq(Frame)
        /\ Fresh(ctx) => ~HasNextSample(ctx)
        /\ "copy" \notin MayFail
    BY ClientFacts DEF NoLoss
  <1>3. /\ accepted \in Seq(Frame) /\ got \in Seq(Frame) /\ (Fresh(ctx) \/ Working(ctx))
        /\ outType # NoType /\ Convertible(inType, outType) /\ inType # NoType
        /\ majorType = inType.major
    BY <1>1 DEF ClientInv, Typed
  <1>4. CASE StreamChange
    <2> DEFINE d == [ctx EXCEPT !.formatChange = FALSE, !.out = Released(@)]
    <2>1. ctx' = d
      <3>1. NoFormatChange = [ctx EXCEPT !.formatChange = FALSE] /\ NoFormatChange.out = ctx.out
        BY <1>2 DEF NoFormatChange, Context
      <3> QED BY <1>2, <1>4, <3>1 DEF StreamChange, Context
    <2>2. ~d.formatChange BY <1>2 DEF Context
    <2>3. /\ (Fresh(ctx) => Fresh(d)) /\ (Working(ctx) => Working(d))
          /\ Pipeline(d) = Pipeline(ctx)
      BY <1>2, ReleaseServes
    <2> HIDE DEF d
    <2>4. /\ ctx.formatChange /\ suggested' = outType /\ outType' = NoType
          /\ reply'.hr = "MF_E_TRANSFORM_STREAM_CHANGE"
          /\ UNCHANGED << inType, majorType, bStreaming, crashed, last >>
      BY <1>4 DEF StreamChange, Replies, history
    <2>5. phase = "pull" /\ phase' = "retype" /\ got' = got
      BY <1>1, <2>4 DEF ClientInv
    <2>6. outType.listed /\ outType.major = majorType BY <1>3 DEF Convertible
    <2>7. ClientInv'
      BY <1>1, <1>3, <2>1, <2>2, <2>3, <2>4, <2>5, <2>6 DEF ClientInv, Phases, Typed
    <2>8. NothingLost' BY <1>1, <2>1, <2>3, <2>5 DEF NothingLost
    <2> QED BY <2>4, <2>7, <2>8 DEF Keeps, Answers
  <1>5. CASE StreamChangeWithoutType
    BY <1>3, <1>5 DEF StreamChangeWithoutType
  <1>6. CASE StreamChangeFails
    <2> DEFINE d == [ctx EXCEPT !.formatChange = FALSE]
    <2>1. ctx' = d BY <1>6 DEF StreamChangeFails, NoFormatChange
    <2>2. ~d.formatChange BY <1>2 DEF Context
    <2>3. /\ (Fresh(ctx) => Fresh(d)) /\ (Working(ctx) => Working(d))
          /\ Pipeline(d) = Pipeline(ctx)
      BY <1>2, ReleaseServes
    <2> HIDE DEF d
    <2>4. /\ reply'.hr = "E_FAIL" /\ MayFail # {}
          /\ UNCHANGED << inType, outType, suggested, majorType, bFormatChange, bStreaming,
                          crashed, last >>
      BY <1>6 DEF StreamChangeFails, Replies, history, typeVars
    <2>5. phase' = phase /\ got' = got BY <1>1, <2>4
    <2>6. ClientInv' BY <1>1, <2>1, <2>2, <2>3, <2>4, <2>5 DEF ClientInv, Phases, Typed
    <2>7. NothingLost' BY <1>1, <2>1, <2>3, <2>5 DEF NothingLost
    <2> QED BY <2>4, <2>6, <2>7 DEF Keeps
  <1>7. CASE DeliverSample
    <2> DEFINE f == Head(ctx.queue).frame
               t == Pipeline(NextSampleTaken)
    <2>1. /\ ~ctx.formatChange /\ HasNextSample(ctx) /\ last' = f /\ Emptied(NextSampleTaken)
          /\ reply'.hr = "S_OK"
          /\ UNCHANGED << inType, outType, suggested, majorType, bStreaming, crashed >>
      BY <1>7 DEF DeliverSample, Replies, typeVars
    <2>2. last' # last BY <2>1, DeliveredIsNew
    <2>3. /\ f \in Frame /\ t \in Seq(Frame) /\ Pipeline(ctx) = << f >> \o t
      BY <1>2, <2>1, PipelineTaken
    <2>4. ContextOK(NextSampleTaken) /\ MadeAs(NextSampleTaken, ctx) /\ NextSampleTaken.av = ctx.av
      BY <1>2, <2>1, SampleTaken
    <2>5. /\ Pipeline(ctx') = t
          /\ \/ ctx' = NewContext /\ bFormatChange' = FALSE
             \/ ctx' = NextSampleTaken /\ bFormatChange' = bFormatChange
      BY <2>1, <2>4, EmptiedServes
    <2> HIDE DEF f, t
    <2>6. Working(ctx) BY <1>2, <1>3, <2>1
    <2>7. Working(NextSampleTaken) /\ ~NextSampleTaken.formatChange
      BY <2>1, <2>4, <2>6 DEF MadeAs, Working
    <2>8. (Fresh(ctx') \/ Working(ctx')) /\ ~ctx'.formatChange
      BY <2>5, <2>7, FreshOrWorking DEF Fresh
    <2>9. phase' = phase /\ got' = Append(got, f) BY <1>1, <2>1, <2>2
    <2>10. Append(got, f) \in Seq(Frame) /\ Append(got, f) = got \o << f >>
      BY <1>3, <2>3, AppendIsConcat
    <2>11. bFormatChange' /\ phase # "pull" => Fresh(ctx')
      BY <1>1, <1>2, <2>1, <2>5 DEF ClientInv, Typed
    <2>12. ClientInv' BY <1>1, <2>1, <2>8, <2>9, <2>10, <2>11 DEF ClientInv, Phases, Typed
    <2>13. NothingLost'
      <3> DEFINE one == << f >>
      <3>1. one \in Seq(Frame) BY <2>3
      <3>2. Pipeline(ctx) = one \o t /\ got' = got \o one BY <2>3, <2>9, <2>10
      <3> HIDE DEF one
      <3>3. (got \o one) \o t = got \o (one \o t) BY <1>3, <2>3, <3>1, Associative
      <3> QED BY <1>1, <2>5, <3>2, <3>3 DEF NothingLost
    <2> QED BY <2>1, <2>12, <2>13 DEF Keeps, Answers
  <1>8. CASE LoseSample BY <1>2, <1>8 DEF LoseSample
  <1>9. CASE NeedMoreInput
    <2>1. /\ ~ctx.formatChange /\ ~HasNextSample(ctx) /\ Emptied(ctx)
          /\ reply'.hr = "MF_E_TRANSFORM_NEED_MORE_INPUT"
          /\ UNCHANGED << inType, outType, suggested, majorType, bStreaming, crashed, last >>
      BY <1>9 DEF NeedMoreInput, Replies, typeVars, history
    <2>2. MadeAs(ctx, ctx) BY DEF MadeAs
    <2>3. /\ Pipeline(ctx') = Pipeline(ctx)
          /\ \/ ctx' = NewContext /\ bFormatChange' = FALSE
             \/ ctx' = ctx /\ bFormatChange' = bFormatChange /\ ~bFormatChange
      BY <1>2, <2>1, <2>2, EmptiedServes
    <2>4. (Fresh(ctx') \/ Working(ctx')) /\ ~ctx'.formatChange
      BY <1>3, <2>1, <2>3, FreshOrWorking DEF Fresh
    <2>5. phase' = (IF phase = "drain" THEN "done" ELSE "feed") /\ got' = got BY <1>1, <2>1
    <2>6. phase # "drain" => bStreaming
      BY <1>1, <1>2 DEF ClientInv
    <2>7. ClientInv' BY <1>1, <2>1, <2>3, <2>4, <2>5, <2>6 DEF ClientInv, Phases, Typed
    <2>8. NothingLost' BY <1>1, <2>3, <2>5 DEF NothingLost
    <2> QED BY <2>1, <2>7, <2>8 DEF Keeps, Answers
  <1> QED BY <1>1, <1>4, <1>5, <1>6, <1>7, <1>8, <1>9 DEF OutputCall

(* A call changes none of it; standing still changes nothing. *)
LEMMA ClientStepKeeps ==
  ASSUME NoLoss, Known, ClientInv, NothingLost, ClientStep
  PROVE  Keeps
  BY ChooseInputKeeps, ChooseOutputKeeps, StartKeeps, FeedKeeps, CollectKeeps, RetypeKeeps,
     SeekKeeps, EndKeeps, DrainOutKeeps DEF ClientStep

LEMMA ClientStays ==
  ASSUME ClientInv, NothingLost, UNCHANGED clientVars
  PROVE  ClientInv' /\ NothingLost' /\ reply' = reply /\ crashed' = crashed
  BY DEF clientVars, vars, typeVars, ClientInv, NothingLost

LEMMA ClientBegins == ClientInit => ClientInv /\ NothingLost
  <1> SUFFICES ASSUME ClientInit PROVE ClientInv /\ NothingLost OBVIOUS
  <1>1. /\ ctx = NewContext /\ phase = "input" /\ accepted = << >> /\ got = << >>
        /\ inType = NoType /\ ~crashed
    BY DEF ClientInit, Init
  <1>2. Fresh(ctx) /\ Pipeline(ctx) = << >> /\ ~ctx.formatChange
    BY <1>1, FreshOrWorking, EmptyPipeline DEF Fresh
  <1>3. ClientInv BY <1>1, <1>2, NothingYet DEF ClientInv, Phases, Typed
  <1>4. NothingLost BY <1>1, <1>2, NothingYet DEF NothingLost
  <1> QED BY <1>3, <1>4

-----------------------------------------------------------------------------
(***************************************************************************)
(* For a codec without lag that gives at most one frame for a packet, as   *)
(* the ones that ship do, every frame taken in since the last flush has    *)
(* been delivered or is in the decoder, in order: through changes of type, *)
(* the rebuilds they cause, stream changes and the drain, also where       *)
(* packets fail to decode, codec parameters cannot be made or a suggested  *)
(* type cannot be created.                                                 *)
(***************************************************************************)
THEOREM NoFrameLost ==
  ASSUME NoLoss
  PROVE  ClientSpec => []NothingLost
  <1>1. ClientInit => Init /\ RetypeInv BY DEF ClientInit, RetypeInv
  <1>2. Init => ReadyInv BY DEF Init, ReadyInv, NewContext, Opened
  <1>3. TypeOK /\ ReadyInv /\ [Next]_vars => ReadyInv' BY ReadyStep DEF NoLoss
  <1>4. ClientInit => ClientInv /\ NothingLost BY ClientBegins
  <1>5. TypeOK /\ ContextMatchesTypes /\ ReadyInv /\ InOrder /\ ClientInv /\ NothingLost
          /\ [ClientNext]_clientVars
        => ClientInv' /\ NothingLost'
    BY ClientStepKeeps, ClientStays DEF ClientNext, Done, Known, Keeps
  <1>6. Spec => []TypeOK /\ []ContextMatchesTypes /\ []InOrder
    BY TypeCorrect, PointersCurrent, FramesInOrder
  <1>7. Spec => []ReadyInv BY <1>2, <1>3, TypeCorrect, PTL DEF Spec
  <1> QED BY <1>4, <1>5, <1>6, <1>7, ClientIsAllowed, PTL DEF ClientSpec

(***************************************************************************)
(* When nothing outside the decoder fails, no call of this client fails.   *)
(***************************************************************************)
THEOREM EveryCallServed ==
  ASSUME Lag = 0, MaxFrames <= 1, MayFail = {}
  PROVE  ClientSpec => []Served
  <1>1. NoLoss BY DEF NoLoss
  <1>2. Init => ReadyInv BY DEF Init, ReadyInv, NewContext, Opened
  <1>3. TypeOK /\ ReadyInv /\ [Next]_vars => ReadyInv' BY ReadyStep
  <1>4. ClientInit => ClientInv /\ NothingLost /\ Served
    <2>1. ClientInit => ClientInv /\ NothingLost BY ClientBegins
    <2> QED BY <2>1 DEF ClientInit, Init, Served
  <1>5. TypeOK /\ ContextMatchesTypes /\ ReadyInv /\ InOrder /\ ClientInv /\ NothingLost /\ Served
          /\ [ClientNext]_clientVars
        => ClientInv' /\ NothingLost' /\ Served'
    <2> SUFFICES ASSUME Known, ClientInv, NothingLost, Served, [ClientNext]_clientVars
                 PROVE  ClientInv' /\ NothingLost' /\ Served'
      BY DEF Known
    <2>1. CASE ClientStep
      <3>1. ClientInv' /\ NothingLost' /\ reply'.hr \in Answers
        BY <1>1, <2>1, ClientStepKeeps DEF Keeps
      <3> QED BY <3>1 DEF ClientInv, Served, Answers
    <2>2. CASE UNCHANGED clientVars BY <2>2, ClientStays DEF Served
    <2> QED BY <2>1, <2>2 DEF ClientNext, Done
  <1>6. Spec => []TypeOK /\ []ContextMatchesTypes /\ []InOrder
    BY TypeCorrect, PointersCurrent, FramesInOrder
  <1>7. Spec => []ReadyInv BY <1>2, <1>3, TypeCorrect, PTL DEF Spec
  <1> QED BY <1>4, <1>5, <1>6, <1>7, ClientIsAllowed, PTL DEF ClientSpec
=============================================================================
