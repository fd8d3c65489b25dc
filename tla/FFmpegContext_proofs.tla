------------------------ MODULE FFmpegContext_proofs ------------------------
(***************************************************************************)
(* What the methods of FFmpegContext return and leave: their types, and    *)
(* what each of them does to the pointers, the helper and the codec.       *)
(***************************************************************************)
EXTENDS FFmpegContext, AvCodec_proofs

ContextOK(c) == c \in Context /\ CodecOK(c.av)

Types == MediaTypes \cup { NoType }

OutcomeOK(o) == o.hr \in Results /\ ContextOK(o.ctx) /\ o.crash \in BOOLEAN

Plain(o) == o = [hr |-> o.hr, ctx |-> o.ctx, crash |-> o.crash]

Is(o, hr, c, crash) == OutcomeOK(o) /\ o.hr = hr /\ o.ctx = c /\ o.crash = crash /\ Plain(o)

LEMMA OutcomeType ==
  ASSUME NEW c, ContextOK(c)
  PROVE  (\A hr \in Results : Is(Outcome(hr, c), hr, c, FALSE)) /\ Is(Crash(c), "none", c, TRUE)
  BY DEF Outcome, Crash, Is, OutcomeOK, Results, Plain

LEMMA OpenedType == CodecOK(Opened)
  <1> DEFINE none == << >>
  <1>1. none \in Seq(Packet) /\ none \in Seq(Frame) /\ Len(none) <= 0 BY EmptySeq
  <1> HIDE DEF none
  <1> DEFINE d == [bsf |-> none, work |-> none, held |-> none, buf |-> none]
  <1>2. d \in Codec BY <1>1 DEF Codec
  <1>3. Len(d.held) <= Lag /\ Len(d.bsf) <= 1 /\ Len(d.buf) <= 1
    BY <1>1, CodecAssumption, LenProperties
  <1>4. Opened = d BY DEF Opened, none
  <1> HIDE DEF d
  <1> QED BY <1>2, <1>3, <1>4 DEF CodecOK

LEMMA NewContextType == ContextOK(NewContext)
  <1>1. Opened \in Codec BY OpenedType DEF CodecOK
  <1> DEFINE none == << >>
  <1>2. none \in Seq(Sample) BY EmptySeq
  <1> HIDE DEF none
  <1>3. [ params |-> FALSE, codec |-> FALSE, open |-> FALSE, av |-> Opened,
          helper |-> "none", frame |-> FALSE, formatChange |-> FALSE,
          in |-> "null", out |-> "null", queue |-> none ] \in Context
    BY <1>1, <1>2 DEF Context, Pointer
  <1> QED BY <1>3, OpenedType DEF ContextOK, NewContext, none

LEMMA UpdatedOutputType ==
  ASSUME NEW in \in MediaTypes, NEW out \in MediaTypes
  PROVE  UpdatedOutput(in, out) \in MediaTypes
  BY DEF UpdatedOutput, MediaTypes

LEMMA MadeHelperType ==
  ASSUME NEW c, ContextOK(c), NEW in, NEW out, NEW o \in MadeHelper(c, in, out)
  PROVE  /\ OutcomeOK(o) /\ o = Outcome(o.hr, o.ctx)
         /\ o.hr \in { "S_OK", "E_FAIL" }
         /\ o.ctx.helper \in { "ready", "broken" }
         /\ o.ctx = [c EXCEPT !.helper = o.ctx.helper]
  <1>1. ASSUME NEW h \in { "ready", "broken" }
        PROVE  ContextOK([c EXCEPT !.helper = h]) /\ [c EXCEPT !.helper = h].helper = h
    BY DEF ContextOK, Context
  <1>2. PICK hr \in { "S_OK", "E_FAIL" }, h \in { "ready", "broken" } :
          o = Outcome(hr, [c EXCEPT !.helper = h])
    BY DEF MadeHelper, Failing
  <1> DEFINE d == [c EXCEPT !.helper = h]
  <1>3. o.hr = hr /\ o.ctx = d /\ o.crash = FALSE /\ o = Outcome(o.hr, o.ctx)
    BY <1>2 DEF Outcome
  <1>4. ContextOK(d) /\ d.helper = h BY <1>1
  <1>5. o.ctx = [c EXCEPT !.helper = o.ctx.helper] BY <1>3, <1>4
  <1> HIDE DEF d
  <1> QED BY <1>3, <1>4, <1>5 DEF OutcomeOK, Results

(***************************************************************************)
(* Initialize: the pointers name the types given; nothing of the codec is  *)
(* left; the queue is not touched; a helper is made only when both types   *)
(* are set, and a format change recorded only then.                        *)
(***************************************************************************)
(* What an outcome o of Initialize(in, out) leaves of the object c. *)
InitializeLeaves(o, c, in, out) ==
  /\ OutcomeOK(o) /\ o.crash = FALSE /\ o.hr # "E_UNEXPECTED"
  /\ o.ctx.in = PointerTo(in) /\ o.ctx.out = PointerTo(out)
  /\ o.ctx.queue = c.queue
  /\ o.ctx.av \in { c.av, Opened }
  /\ \/ /\ o.hr # "S_OK" /\ o.type = out
        /\ o.ctx.helper = c.helper /\ o.ctx.formatChange = c.formatChange
        /\ o.ctx.params = c.params /\ o.ctx.codec = c.codec
        /\ in = NoType \/ out = NoType
     \/ /\ o.hr # "S_OK" /\ o.type = out
        /\ o.ctx.helper = c.helper /\ o.ctx.formatChange = c.formatChange
        /\ in # NoType /\ out # NoType
        /\ o.ctx.params /\ (o.ctx.codec # c.codec => "open" \in MayFail)
     \/ /\ o.type = UpdatedOutput(in, out)
        /\ o.ctx.params /\ o.ctx.codec /\ o.ctx.open
        /\ o.ctx.helper \in { "ready", "broken" }
        /\ o.ctx.av = Opened
        /\ in # NoType /\ out # NoType

LEMMA InitializeOutcome ==
  ASSUME NEW c, ContextOK(c), NEW in \in Types, NEW out \in Types, NEW o \in Initialize(c, in, out)
  PROVE  InitializeLeaves(o, c, in, out)
  <1> USE DEF InitializeLeaves
  <1> DEFINE pointed == [c EXCEPT !.in = PointerTo(in), !.out = PointerTo(out)]
             params  == [pointed EXCEPT !.params = TRUE]
             closed  == [params EXCEPT !.codec = TRUE, !.open = FALSE, !.av = Opened]
             updated == UpdatedOutput(in, out)
             opened  == [closed EXCEPT !.open = TRUE, !.formatChange = @ \/ updated # out]
             Framed(x) == [x EXCEPT !.ctx.frame = (x.hr = "S_OK")]
             Typed(x, type) == [hr |-> x.hr, ctx |-> x.ctx, crash |-> x.crash, type |-> type]
  <1>1. c \in Context /\ CodecOK(c.av) /\ Opened \in Codec /\ CodecOK(Opened)
    BY OpenedType DEF ContextOK, CodecOK
  <1>2. /\ ContextOK(pointed) /\ pointed.in = PointerTo(in) /\ pointed.out = PointerTo(out)
        /\ pointed.queue = c.queue /\ pointed.av = c.av /\ pointed.helper = c.helper
        /\ pointed.formatChange = c.formatChange
        /\ pointed.params = c.params /\ pointed.codec = c.codec
    BY <1>1 DEF ContextOK, Context, PointerTo, Pointer
  <1> HIDE DEF pointed
  <1>3. /\ ContextOK(params) /\ params.in = pointed.in /\ params.out = pointed.out
        /\ params.queue = c.queue /\ params.av = c.av /\ params.helper = c.helper
        /\ params.formatChange = c.formatChange /\ params.params = TRUE
        /\ params.codec = c.codec
    BY <1>2 DEF ContextOK, Context
  <1> HIDE DEF params
  <1>4. /\ ContextOK(closed) /\ closed.in = pointed.in /\ closed.out = pointed.out
        /\ closed.queue = c.queue /\ closed.av = Opened /\ closed.helper = c.helper
        /\ closed.formatChange = c.formatChange /\ closed.params = TRUE /\ closed.codec = TRUE
    BY <1>1, <1>3 DEF ContextOK, Context
  <1> HIDE DEF closed
  <1>5. /\ ContextOK(opened) /\ opened.in = pointed.in /\ opened.out = pointed.out
        /\ opened.queue = c.queue /\ opened.av = Opened /\ opened.params = TRUE
        /\ opened.codec = TRUE /\ opened.open = TRUE
    BY <1>1, <1>4 DEF ContextOK, Context
  <1> HIDE DEF opened, updated
  <1>6. CASE in = NoType \/ out = NoType
    <2>1. o = Typed(Outcome("E_POINTER", pointed), out)
      BY <1>6 DEF Initialize, pointed
    <2> QED BY <2>1, <1>2, <1>6 DEF Outcome, OutcomeOK, Results
  <1>7. CASE in # NoType /\ out # NoType
    <2>1. \/ \E x \in MadeHelper(opened, in, out) : o = Typed(Framed(x), updated)
          \/ "params" \in MayFail /\ o = Typed(Outcome("E_FAIL", params), out)
          \/ "open" \in MayFail /\ o = Typed(Outcome("E_FAIL", closed), out)
      BY <1>7 DEF Initialize, Failing, pointed, params, closed, opened, updated
    <2>2. CASE "params" \in MayFail /\ o = Typed(Outcome("E_FAIL", params), out)
      BY <2>2, <1>2, <1>3, <1>7 DEF Outcome, OutcomeOK, Results
    <2>3. CASE "open" \in MayFail /\ o = Typed(Outcome("E_FAIL", closed), out)
      BY <2>3, <1>1, <1>2, <1>4, <1>7 DEF Outcome, OutcomeOK, Results
    <2>4. ASSUME NEW x \in MadeHelper(opened, in, out), o = Typed(Framed(x), updated)
          PROVE  /\ OutcomeOK(o) /\ o.crash = FALSE /\ o.hr # "E_UNEXPECTED"
                 /\ o.ctx.in = PointerTo(in) /\ o.ctx.out = PointerTo(out)
                 /\ o.ctx.queue = c.queue
                 /\ o.ctx.av = Opened /\ o.type = updated
                 /\ o.ctx.params /\ o.ctx.codec /\ o.ctx.open
                 /\ o.ctx.helper \in { "ready", "broken" }
      <3> DEFINE made == [opened EXCEPT !.helper = x.ctx.helper]
                 done == [made EXCEPT !.frame = (x.hr = "S_OK")]
      <3>1. /\ OutcomeOK(x) /\ x = Outcome(x.hr, x.ctx) /\ x.hr \in { "S_OK", "E_FAIL" }
            /\ x.ctx.helper \in { "ready", "broken" } /\ x.ctx = made
        <4>1. ContextOK(opened) /\ x \in MadeHelper(opened, in, out) BY <1>5, <2>4
        <4>2. OutcomeOK(x) /\ x = Outcome(x.hr, x.ctx) /\ x.hr \in { "S_OK", "E_FAIL" }
              /\ x.ctx.helper \in { "ready", "broken" } /\ x.ctx = made
          BY <4>1, MadeHelperType
        <4> QED BY <4>2
      <3>2. /\ ContextOK(made) /\ made.in = opened.in /\ made.out = opened.out
            /\ made.queue = opened.queue /\ made.av = Opened /\ made.params = TRUE
            /\ made.codec = TRUE /\ made.open = TRUE /\ made.helper = x.ctx.helper
        BY <3>1, <1>5 DEF ContextOK, Context, OutcomeOK
      <3> HIDE DEF made
      <3>3. /\ ContextOK(done) /\ done.in = opened.in /\ done.out = opened.out
            /\ done.queue = opened.queue /\ done.av = Opened /\ done.params = TRUE
            /\ done.codec = TRUE /\ done.open = TRUE /\ done.helper = x.ctx.helper
        BY <3>2 DEF ContextOK, Context
      <3>4. o.hr = x.hr /\ o.ctx = done /\ o.crash = FALSE /\ o.type = updated
        <4>1. x = [hr |-> x.hr, ctx |-> made, crash |-> FALSE] BY <3>1 DEF Outcome
        <4>2. Framed(x).hr = x.hr /\ Framed(x).ctx = done /\ Framed(x).crash = FALSE BY <4>1
        <4> QED BY <4>2, <3>1, <2>4
      <3> HIDE DEF done
      <3> QED BY <3>1, <3>3, <3>4, <1>2, <1>5 DEF OutcomeOK, Results
    <2> QED BY <2>1, <2>2, <2>3, <2>4, <1>7 DEF updated
  <1> QED BY <1>6, <1>7

-----------------------------------------------------------------------------
(* d is c but for its codec and its queue. *)
MadeAs(d, c) ==
  /\ d.params = c.params /\ d.codec = c.codec /\ d.open = c.open /\ d.helper = c.helper
  /\ d.frame = c.frame /\ d.formatChange = c.formatChange /\ d.in = c.in /\ d.out = c.out

LEMMA CodecChanged ==
  ASSUME NEW c, ContextOK(c), NEW a, CodecOK(a)
  PROVE  LET d == [c EXCEPT !.av = a]
         IN ContextOK(d) /\ MadeAs(d, c) /\ d.av = a /\ d.queue = c.queue
  BY DEF ContextOK, Context, CodecOK, MadeAs

LEMMA QueueOutputType ==
  ASSUME NEW c, ContextOK(c), NEW s \in Sample
  PROVE  LET d == QueueOutput(c, s)
         IN ContextOK(d) /\ MadeAs(d, c) /\ d.av = c.av /\ d.queue = Append(c.queue, s)
  <1> DEFINE q == Append(c.queue, s)
  <1>1. c.queue \in Seq(Sample) BY DEF ContextOK, Context
  <1>2. q \in Seq(Sample) BY <1>1, AppendProperties
  <1> HIDE DEF q
  <1> DEFINE d == [c EXCEPT !.queue = q]
  <1>3. ContextOK(d) /\ MadeAs(d, c) /\ d.av = c.av /\ d.queue = q
    BY <1>2 DEF ContextOK, Context, MadeAs
  <1> QED BY <1>3 DEF QueueOutput, q

(* A frame received either becomes the youngest sample of the queue or is lost. *)
LEMMA ConvertOutcome ==
  ASSUME NEW c, ContextOK(c), NEW f \in Frame, NEW p \in Packet, NEW o \in Convert(c, f, p)
  PROVE  /\ OutcomeOK(o) /\ MadeAs(o.ctx, c) /\ o.ctx.av = c.av
         /\ o.hr \in { "S_OK", "E_FAIL", "none" }
         /\ o.ctx.queue \in { c.queue, Append(c.queue, [frame |-> f, by |-> p.id]) }
  <1> DEFINE d == QueueOutput(c, [frame |-> f, by |-> p.id])
  <1>1. [frame |-> f, by |-> p.id] \in Sample BY DEF Sample, Packet
  <1>2. /\ ContextOK(d) /\ MadeAs(d, c) /\ d.av = c.av
        /\ d.queue = Append(c.queue, [frame |-> f, by |-> p.id])
    BY <1>1, QueueOutputType
  <1>3. o \in { Outcome("S_OK", d), Outcome("E_FAIL", c), Crash(c) }
    BY DEF Convert, Failing
  <1> HIDE DEF d
  <1>4. Is(Outcome("S_OK", d), "S_OK", d, FALSE) BY <1>2, OutcomeType DEF Results
  <1>5. Is(Outcome("E_FAIL", c), "E_FAIL", c, FALSE) BY OutcomeType DEF Results
  <1>6. Is(Crash(c), "none", c, TRUE) BY OutcomeType
  <1> QED BY <1>2, <1>3, <1>4, <1>5, <1>6 DEF Is, MadeAs

(* What Decode leaves of the codec is what sending and receiving leave. *)
LEMMA ReceiveOneOutcome ==
  ASSUME NEW c, ContextOK(c), NEW p \in Packet, NEW o \in ReceiveOne(c, p)
  PROVE  /\ OutcomeOK(o) /\ MadeAs(o.ctx, c)
         /\ o.hr \in { "S_OK", "S_FALSE", "E_FAIL", "none" }
         /\ \/ o.ctx.av = Receive(c.av).codec
            \/ o.crash /\ o.ctx = c
         /\ \/ o.ctx.queue = c.queue
            \/ /\ Receive(c.av).rv = "ok"
               /\ o.ctx.queue = Append(c.queue, [frame |-> Receive(c.av).frames[1], by |-> p.id])
  <1> DEFINE r    == Receive(c.av)
             left == [c EXCEPT !.av = r.codec]
  <1>1. ReturnOK(r) BY ReceiveType DEF ContextOK
  <1> HIDE DEF r
  <1>2. ContextOK(left) /\ MadeAs(left, c) /\ left.av = r.codec /\ left.queue = c.queue
    BY <1>1, CodecChanged DEF ReturnOK
  <1> HIDE DEF left
  <1>3. c.frame \in BOOLEAN /\ r.rv \in { "ok", "error", "EAGAIN" }
    BY <1>1 DEF ContextOK, Context, ReturnOK, Result
  <1>4. CASE ~c.frame
    <2>1. o = Crash(c) BY <1>4 DEF ReceiveOne
    <2> QED BY <2>1 DEF Crash, OutcomeOK, Results, MadeAs
  <1>5. CASE c.frame /\ r.rv # "ok"
    <2>1. o \in { Outcome("S_FALSE", left), Outcome("E_FAIL", left) }
      BY <1>3, <1>5 DEF ReceiveOne, r, left
    <2>2. Is(Outcome("S_FALSE", left), "S_FALSE", left, FALSE) BY <1>2, OutcomeType DEF Results
    <2>3. Is(Outcome("E_FAIL", left), "E_FAIL", left, FALSE) BY <1>2, OutcomeType DEF Results
    <2> QED BY <2>1, <2>2, <2>3, <1>2 DEF Is, r
  <1>6. CASE c.frame /\ r.rv = "ok"
    <2>1. o \in Convert(left, r.frames[1], p) BY <1>6 DEF ReceiveOne, r, left
    <2>2. r.frames[1] \in Frame BY <1>1, <1>6 DEF ReturnOK
    <2>3. /\ OutcomeOK(o) /\ MadeAs(o.ctx, left) /\ o.ctx.av = left.av
          /\ o.hr \in { "S_OK", "E_FAIL", "none" }
          /\ o.ctx.queue \in { left.queue, Append(left.queue, [frame |-> r.frames[1], by |-> p.id]) }
      BY <2>1, <2>2, <1>2, ConvertOutcome
    <2> QED BY <2>3, <1>2, <1>6 DEF MadeAs, r
  <1> QED BY <1>3, <1>4, <1>5, <1>6

LEMMA DecodeOutcome ==
  ASSUME NEW c, ContextOK(c), NEW p \in Packet, NEW o \in Decode(c, p)
  PROVE  OutcomeOK(o) /\ MadeAs(o.ctx, c)
  <1> DEFINE s    == Send(c.av, p)
             sent == [c EXCEPT !.av = s.codec]
  <1>1. s.rv \in Result /\ CodecOK(s.codec) BY SendType DEF ContextOK
  <1> HIDE DEF s
  <1>2. ContextOK(sent) /\ MadeAs(sent, c) BY <1>1, CodecChanged
  <1> HIDE DEF sent
  <1>3. c.formatChange \in BOOLEAN /\ c.open \in BOOLEAN BY DEF ContextOK, Context
  <1>4. \/ o \in { Outcome("MF_E_NOTACCEPTING", c), Crash(c),
                  Outcome("E_UNEXPECTED", sent), Outcome("E_FAIL", sent) }
        \/ o \in ReceiveOne(sent, p)
    BY <1>1, <1>3 DEF Decode, Result, s, sent
  <1>5. CASE o \in { Outcome("MF_E_NOTACCEPTING", c), Crash(c),
                    Outcome("E_UNEXPECTED", sent), Outcome("E_FAIL", sent) }
    <2>1. \A hr \in Results : Is(Outcome(hr, c), hr, c, FALSE) BY OutcomeType
    <2>2. \A hr \in Results : Is(Outcome(hr, sent), hr, sent, FALSE) BY <1>2, OutcomeType
    <2>3. Is(Crash(c), "none", c, TRUE) BY OutcomeType
    <2>4. OutcomeOK(o) /\ o.ctx \in { c, sent } BY <1>5, <2>1, <2>2, <2>3 DEF Is, Results
    <2> QED BY <2>4, <1>2 DEF MadeAs
  <1>6. CASE o \in ReceiveOne(sent, p)
    <2>1. OutcomeOK(o) /\ MadeAs(o.ctx, sent) BY <1>2, <1>6, ReceiveOneOutcome
    <2> QED BY <2>1, <1>2 DEF MadeAs
  <1> QED BY <1>4, <1>5, <1>6

(***************************************************************************)
(* With at most one frame for a packet Decode never finds the filter full, *)
(* and leaves nothing in the codec but what it holds back.                 *)
(***************************************************************************)
LEMMA DecodeReady ==
  ASSUME NEW c, ContextOK(c), NothingLeft(c.av), MaxFrames <= 1,
         NEW p \in Packet, NEW o \in Decode(c, p)
  PROVE  /\ o.hr # "E_UNEXPECTED"
         /\ o.ctx.av.bsf = << >> /\ o.ctx.av.work = << >>
         /\ ~o.crash => o.ctx.av.buf = << >>
  <1> DEFINE s    == Send(c.av, p)
             sent == [c EXCEPT !.av = s.codec]
  <1>1. /\ s.rv \in Result /\ CodecOK(s.codec) /\ s.rv # "EAGAIN"
        /\ s.codec.bsf = << >> /\ s.codec.work = << >>
        /\ s.rv = "error" => s.codec.buf = << >>
    BY SendType, SendReady DEF ContextOK
  <1> HIDE DEF s
  <1>2. ContextOK(sent) /\ sent.av = s.codec BY <1>1, CodecChanged
  <1> HIDE DEF sent
  <1>3. c.formatChange \in BOOLEAN /\ c.open \in BOOLEAN BY DEF ContextOK, Context
  <1>4. \/ o \in { Outcome("MF_E_NOTACCEPTING", c), Crash(c) }
        \/ s.rv = "error" /\ o = Outcome("E_FAIL", sent)
        \/ o \in ReceiveOne(sent, p)
    BY <1>1, <1>3 DEF Decode, Result, s, sent
  <1>5. CASE o \in { Outcome("MF_E_NOTACCEPTING", c), Crash(c) }
    <2>1. o.ctx = c /\ o.hr # "E_UNEXPECTED" BY <1>5 DEF Outcome, Crash
    <2> QED BY <2>1 DEF NothingLeft
  <1>6. CASE s.rv = "error" /\ o = Outcome("E_FAIL", sent)
    <2>1. o.ctx = sent /\ o.hr # "E_UNEXPECTED" BY <1>6 DEF Outcome
    <2> QED BY <2>1, <1>1, <1>2, <1>6
  <1>7. CASE o \in ReceiveOne(sent, p)
    <2>1. /\ o.hr # "E_UNEXPECTED"
          /\ \/ o.ctx.av = Receive(sent.av).codec
             \/ o.crash /\ o.ctx = sent
      BY <1>2, <1>7, ReceiveOneOutcome
    <2>2. NothingLeft(Receive(sent.av).codec) BY <1>1, <1>2, ReceiveReady
    <2> QED BY <2>1, <2>2, <1>1, <1>2 DEF NothingLeft
  <1> QED BY <1>4, <1>5, <1>6, <1>7

(***************************************************************************)
(* FlushInput: the codec is new, the queue and the pointers are as they    *)
(* were, and a helper is made only where both pointers name a type.        *)
(***************************************************************************)
LEMMA FlushInputOutcome ==
  ASSUME NEW c, ContextOK(c), NEW in, NEW out, NEW o \in FlushInput(c, in, out)
  PROVE  /\ OutcomeOK(o) /\ Plain(o) /\ o.hr # "E_UNEXPECTED"
         /\ o.ctx.av = Opened /\ o.ctx.queue = c.queue
         /\ o.ctx.params = c.params /\ o.ctx.codec = c.codec
         /\ o.ctx.formatChange = c.formatChange
         /\ o.ctx.in = c.in /\ o.ctx.out = c.out
         /\ \/ o.ctx.helper = c.helper
            \/ c.codec /\ c.in # "null" /\ c.out # "null" /\ o.ctx.helper # "none"
  <1> DEFINE closed   == [c EXCEPT !.open = FALSE, !.av = Opened]
             reopened == [closed EXCEPT !.open = TRUE]
             With(h)  == [reopened EXCEPT !.helper = h]
             Kept(d)  == /\ ContextOK(d) /\ d.av = Opened /\ d.queue = c.queue
                         /\ d.params = c.params /\ d.codec = c.codec
                         /\ d.formatChange = c.formatChange
                         /\ d.in = c.in /\ d.out = c.out
  <1>1. CodecOK(Opened) /\ Opened \in Codec BY OpenedType DEF CodecOK
  <1>2. Kept(closed) /\ closed.helper = c.helper BY <1>1 DEF ContextOK, Context
  <1> HIDE DEF closed
  <1>3. Kept(reopened) /\ reopened.helper = c.helper BY <1>2 DEF ContextOK, Context
  <1> HIDE DEF reopened
  <1>4. ASSUME NEW h \in { "ready", "broken", "stale" }
        PROVE  Kept(With(h)) /\ With(h).helper = h
    BY <1>3 DEF ContextOK, Context
  <1>5. c.in \in Pointer /\ c.out \in Pointer /\ c.codec \in BOOLEAN BY DEF ContextOK, Context
  <1>6. \/ o \in { Outcome("E_POINTER", closed), Outcome("E_FAIL", closed),
                  Outcome("MF_E_TRANSFORM_TYPE_NOT_SET", reopened), Crash(reopened) }
        \/ /\ c.codec /\ c.in # "null" /\ c.out # "null"
           /\ \/ o \in MadeHelper(reopened, in, out)
              \/ o \in { Outcome("S_OK", With("stale")), Outcome("E_FAIL", With("broken")) }
    BY <1>5 DEF FlushInput, Failing, Pointer, closed, reopened
  <1>7. CASE o \in { Outcome("E_POINTER", closed), Outcome("E_FAIL", closed),
                    Outcome("MF_E_TRANSFORM_TYPE_NOT_SET", reopened), Crash(reopened) }
    <2>1. \A hr \in Results : Is(Outcome(hr, closed), hr, closed, FALSE) BY <1>2, OutcomeType
    <2>2. \A hr \in Results : Is(Outcome(hr, reopened), hr, reopened, FALSE) BY <1>3, OutcomeType
    <2>3. Is(Crash(reopened), "none", reopened, TRUE) BY <1>3, OutcomeType
    <2>4. OutcomeOK(o) /\ Plain(o) /\ o.ctx \in { closed, reopened }
      BY <1>7, <2>1, <2>2, <2>3 DEF Is, Results
    <2>5. o.hr # "E_UNEXPECTED" BY <1>7 DEF Outcome, Crash
    <2> QED BY <2>4, <2>5, <1>2, <1>3
  <1>8. ASSUME o \in MadeHelper(reopened, in, out)
        PROVE  OutcomeOK(o) /\ Plain(o) /\ o.hr # "E_UNEXPECTED" /\ Kept(o.ctx) /\ o.ctx.helper # "none"
    <2>1. /\ OutcomeOK(o) /\ o = Outcome(o.hr, o.ctx) /\ o.hr \in { "S_OK", "E_FAIL" } /\ o.ctx.helper \in { "ready", "broken" }
          /\ o.ctx = [reopened EXCEPT !.helper = o.ctx.helper]
      BY <1>3, <1>8, MadeHelperType
    <2>2. Plain(o) BY <2>1 DEF Outcome, Plain
    <2>3. Kept(With(o.ctx.helper)) /\ o.ctx = With(o.ctx.helper) BY <2>1, <1>4
    <2> QED BY <2>1, <2>2, <2>3
  <1>9. ASSUME o \in { Outcome("S_OK", With("stale")), Outcome("E_FAIL", With("broken")) }
        PROVE  OutcomeOK(o) /\ Plain(o) /\ o.hr # "E_UNEXPECTED" /\ Kept(o.ctx) /\ o.ctx.helper # "none"
    <2>1. Kept(With("stale")) /\ With("stale").helper = "stale" BY <1>4
    <2>2. Kept(With("broken")) /\ With("broken").helper = "broken" BY <1>4
    <2> HIDE DEF With
    <2>3. Is(Outcome("S_OK", With("stale")), "S_OK", With("stale"), FALSE)
      BY <2>1, OutcomeType DEF Results
    <2>4. Is(Outcome("E_FAIL", With("broken")), "E_FAIL", With("broken"), FALSE)
      BY <2>2, OutcomeType DEF Results
    <2> HIDE DEF Kept
    <2>5. CASE o = Outcome("S_OK", With("stale")) BY <2>1, <2>3, <2>5 DEF Is
    <2>6. CASE o = Outcome("E_FAIL", With("broken")) BY <2>2, <2>4, <2>6 DEF Is
    <2> QED BY <2>5, <2>6, <1>9
  <1> QED BY <1>6, <1>7, <1>8, <1>9

(* Flush: the same, and the queue is empty. *)
LEMMA FlushOutcome ==
  ASSUME NEW c, ContextOK(c), NEW in, NEW out, NEW o \in Flush(c, in, out)
  PROVE  /\ OutcomeOK(o)
         /\ o.ctx.av = Opened /\ o.ctx.queue = << >>
         /\ o.ctx.params = c.params /\ o.ctx.codec = c.codec
         /\ o.ctx.formatChange = c.formatChange
         /\ o.ctx.in = c.in /\ o.ctx.out = c.out
         /\ \/ o.ctx.helper = c.helper
            \/ c.codec /\ c.in # "null" /\ c.out # "null" /\ o.ctx.helper # "none"
  <1> DEFINE none == << >>
  <1>1. none \in Seq(Sample) BY EmptySeq
  <1> HIDE DEF none
  <1> DEFINE empty == [c EXCEPT !.queue = none]
  <1>2. ContextOK(empty) /\ MadeAs(empty, c) /\ empty.queue = none
    BY <1>1 DEF ContextOK, Context, MadeAs
  <1>3. PICK f \in FlushInput(empty, in, out) : o = [f EXCEPT !.hr = "S_OK"]
    BY DEF Flush, none
  <1> HIDE DEF empty
  <1>4. /\ OutcomeOK(f) /\ Plain(f)
        /\ f.ctx.av = Opened /\ f.ctx.queue = empty.queue
        /\ f.ctx.params = empty.params /\ f.ctx.codec = empty.codec
        /\ f.ctx.formatChange = empty.formatChange
        /\ f.ctx.in = empty.in /\ f.ctx.out = empty.out
        /\ \/ f.ctx.helper = empty.helper
           \/ empty.codec /\ empty.in # "null" /\ empty.out # "null" /\ f.ctx.helper # "none"
    BY <1>2, FlushInputOutcome
  <1>5. o.hr = "S_OK" /\ o.ctx = f.ctx /\ o.crash = f.crash BY <1>3, <1>4 DEF Plain
  <1> QED BY <1>2, <1>4, <1>5 DEF OutcomeOK, Results, MadeAs, none
=============================================================================
