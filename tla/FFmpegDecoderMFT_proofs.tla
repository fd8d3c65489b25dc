----------------------- MODULE FFmpegDecoderMFT_proofs -----------------------
(***************************************************************************)
(* Theorems about the decoder MFT, for every codec, every set of frame     *)
(* sizes and every choice of what may fail.                                *)
(***************************************************************************)
EXTENDS DecoderProperties, FFmpegContext_proofs

-----------------------------------------------------------------------------
(***************************************************************************)
(* Types.                                                                  *)
(***************************************************************************)

LEMMA TypeOKContext == TypeOK <=> /\ ContextOK(ctx)
                                  /\ {inType, outType, suggested} \subseteq Types
                                  /\ majorType \in {"none", "audio", "video"}
                                  /\ {bFormatChange, bStreaming, bDraining, crashed} \subseteq BOOLEAN
                                  /\ reply \in [call : Calls, hr : Results]
                                  /\ taken \in 0 .. MaxPackets /\ floor \in 0 .. taken
                                  /\ last \in Frame \cup {NoFrame}
  BY DEF TypeOK, ContextOK, CodecOK, Context, Types

LEMMA ReplyType ==
  ASSUME NEW call \in Calls, NEW hr \in Results, Replies(call, hr)
  PROVE  reply' \in [call : Calls, hr : Results]
  BY DEF Replies

(* The context after the release of a type, or after its format change is read. *)
LEMMA TypeReleased ==
  ASSUME NEW c, ContextOK(c)
  PROVE  /\ ContextOK([c EXCEPT !.in = Released(@)])
         /\ ContextOK([c EXCEPT !.out = Released(@)])
         /\ ContextOK([c EXCEPT !.formatChange = FALSE])
         /\ ContextOK([c EXCEPT !.formatChange = FALSE, !.out = Released(@)])
  BY DEF ContextOK, Context, Pointer, Released

LEMMA SampleTaken ==
  ASSUME ContextOK(ctx), HasNextSample(ctx)
  PROVE  /\ ContextOK(NextSampleTaken) /\ MadeAs(NextSampleTaken, ctx)
         /\ NextSampleTaken.av = ctx.av /\ NextSampleTaken.queue = Tail(ctx.queue)
         /\ ctx.queue \in Seq(Sample) /\ Head(ctx.queue) \in Sample
  <1>1. ctx.queue \in Seq(Sample) /\ ctx.queue # << >> BY DEF ContextOK, Context, HasNextSample
  <1> DEFINE q == Tail(ctx.queue)
  <1>2. q \in Seq(Sample) /\ Head(ctx.queue) \in Sample BY <1>1, HeadTailProperties
  <1> HIDE DEF q
  <1> DEFINE d == [ctx EXCEPT !.queue = q]
  <1>3. ContextOK(d) /\ MadeAs(d, ctx) /\ d.av = ctx.av /\ d.queue = q
    BY <1>2 DEF ContextOK, Context, MadeAs
  <1>4. NextSampleTaken = d BY DEF NextSampleTaken, q
  <1> HIDE DEF d
  <1> QED BY <1>1, <1>2, <1>3, <1>4 DEF q

LEMMA EmptiedType ==
  ASSUME NEW c, ContextOK(c), Emptied(c), bDraining \in BOOLEAN, bFormatChange \in BOOLEAN
  PROVE  ContextOK(ctx') /\ bDraining' \in BOOLEAN /\ bFormatChange' \in BOOLEAN
  BY NewContextType DEF Emptied, HasNextSample

LEMMA InitializedType ==
  ASSUME TypeOK, NEW i \in Initialized
  PROVE  OutcomeOK(i) /\ i.type \in Types /\ i.crash = FALSE
  <1>1. ContextOK(ctx) /\ inType \in Types /\ outType \in Types BY TypeOKContext
  <1>2. CASE HasInitialized(ctx)
    <2>1. i = [hr |-> "S_OK", ctx |-> ctx, crash |-> FALSE, type |-> outType]
      BY <1>2 DEF Initialized, Ready
    <2> QED BY <1>1, <2>1 DEF OutcomeOK, Results
  <1>3. CASE ~HasInitialized(ctx)
    <2>1. i \in Initialize(ctx, inType, outType) BY <1>3 DEF Initialized
    <2>2. InitializeLeaves(i, ctx, inType, outType) BY <1>1, <2>1, InitializeOutcome
    <2>3. /\ OutcomeOK(i) /\ i.crash = FALSE
          /\ \/ i.type = outType
             \/ i.type = UpdatedOutput(inType, outType) /\ inType # NoType /\ outType # NoType
      BY <2>2 DEF InitializeLeaves
    <2>4. i.type \in Types BY <1>1, <2>3, UpdatedOutputType DEF Types
    <2> QED BY <2>3, <2>4
  <1> QED BY <1>2, <1>3

(* The codec of the context that ProcessInput decodes with is as it was, or newly opened. *)
LEMMA InitializedCodec ==
  ASSUME TypeOK, NEW i \in Initialized
  PROVE  i.hr # "E_UNEXPECTED" /\ i.ctx.av \in { ctx.av, Opened }
  <1>1. ContextOK(ctx) /\ inType \in Types /\ outType \in Types BY TypeOKContext
  <1>2. CASE HasInitialized(ctx) BY <1>2 DEF Initialized, Ready
  <1>3. CASE ~HasInitialized(ctx)
    <2>1. i \in Initialize(ctx, inType, outType) BY <1>3 DEF Initialized
    <2>2. InitializeLeaves(i, ctx, inType, outType) BY <1>1, <2>1, InitializeOutcome
    <2> QED BY <2>2 DEF InitializeLeaves
  <1> QED BY <1>2, <1>3

LEMMA InitTypeOK == Init => TypeOK
  <1> SUFFICES ASSUME Init PROVE TypeOK OBVIOUS
  <1>1. ContextOK(ctx) BY NewContextType DEF Init
  <1>2. reply \in [call : Calls, hr : Results] BY DEF Init, Calls, Results
  <1>3. taken \in 0 .. MaxPackets /\ floor \in 0 .. taken BY CodecAssumption DEF Init
  <1>4. {inType, outType, suggested} \subseteq Types BY DEF Init, Types
  <1> QED BY <1>1, <1>2, <1>3, <1>4, TypeOKContext DEF Init

(* Each call leaves every variable with its type. *)
LEMMA NextTypeOK == TypeOK /\ [Next]_vars => TypeOK'
  <1> SUFFICES ASSUME TypeOK, [Next]_vars PROVE TypeOK' OBVIOUS
  <1>1. /\ ContextOK(ctx) /\ inType \in Types /\ outType \in Types /\ suggested \in Types
        /\ majorType \in {"none", "audio", "video"}
        /\ bFormatChange \in BOOLEAN /\ bStreaming \in BOOLEAN
        /\ bDraining \in BOOLEAN /\ crashed \in BOOLEAN
        /\ reply \in [call : Calls, hr : Results]
        /\ taken \in 0 .. MaxPackets /\ floor \in 0 .. taken
        /\ last \in Frame \cup {NoFrame}
    BY TypeOKContext
  <1> DEFINE TypesKept ==
               /\ ContextOK(ctx') /\ inType' \in Types /\ outType' \in Types /\ suggested' \in Types
               /\ majorType' \in {"none", "audio", "video"}
               /\ bFormatChange' \in BOOLEAN /\ bStreaming' \in BOOLEAN
               /\ bDraining' \in BOOLEAN /\ crashed' \in BOOLEAN
               /\ reply' \in [call : Calls, hr : Results]
               /\ taken' \in 0 .. MaxPackets /\ floor' \in 0 .. taken'
               /\ last' \in Frame \cup {NoFrame}
  <1>2. SUFFICES TypesKept
    BY DEF TypeOK, ContextOK, CodecOK, Context, Types
  <1>3. NoType \in Types /\ \A type \in MediaTypes : type \in Types /\ type.major \in {"audio", "video"}
    BY DEF Types, MediaTypes
  <1>4. CASE ClearInputType
    BY <1>1, <1>3, <1>4, TypeReleased DEF ClearInputType, history, Replies, Calls, Results
  <1>5. ASSUME NEW type \in MediaTypes, SetInputType(type) PROVE TypesKept
    BY <1>1, <1>3, <1>5, TypeReleased DEF SetInputType, history, Replies, Calls, Results
  <1>6. CASE ClearOutputType
    BY <1>1, <1>3, <1>6, TypeReleased DEF ClearOutputType, history, Replies, Calls, Results
  <1>7. ASSUME NEW type \in MediaTypes, SetOutputType(type) PROVE TypesKept
    BY <1>1, <1>3, <1>7, TypeReleased DEF SetOutputType, history, Replies, Calls, Results
  <1>8. ASSUME NEW type \in MediaTypes, RefuseOutputType(type) PROVE TypesKept
    BY <1>1, <1>8 DEF RefuseOutputType, typeVars, history, Replies, Calls, Results
  <1>9. CASE RefuseInput
    BY <1>1, <1>9 DEF RefuseInput, typeVars, history, Replies, Calls, Results
  <1>10. CASE FailInput
    <2>1. PICK i \in Initialized :
            /\ ctx' = i.ctx /\ outType' = i.type
            /\ Replies("ProcessInput", IF i.hr = "S_OK" THEN "E_FAIL" ELSE i.hr)
      BY <1>10 DEF FailInput
    <2>2. OutcomeOK(i) /\ i.type \in Types BY InitializedType
    <2>3. reply' \in [call : Calls, hr : Results]
      BY <2>1, <2>2 DEF OutcomeOK, Replies, Calls, Results
    <2> QED BY <1>1, <1>10, <2>1, <2>2, <2>3 DEF FailInput, history, OutcomeOK
  <1>11. ASSUME NEW p \in OfferedPackets, DecodeInput(p) PROVE TypesKept
    <2>1. PICK i \in Initialized : \E d \in Decode(i.ctx, p) :
            /\ outType' = i.type /\ Applies(d) /\ Replies("ProcessInput", d.hr)
            /\ taken' = IF d.hr = "MF_E_NOTACCEPTING" THEN taken ELSE p.id
      BY <1>11 DEF DecodeInput
    <2>2. PICK d \in Decode(i.ctx, p) :
            /\ Applies(d) /\ Replies("ProcessInput", d.hr)
            /\ taken' = IF d.hr = "MF_E_NOTACCEPTING" THEN taken ELSE p.id
      BY <2>1
    <2>3. OutcomeOK(i) /\ i.type \in Types BY InitializedType
    <2>4. p \in Packet BY DEF OfferedPackets
    <2>5. OutcomeOK(d) BY <2>3, <2>4, DecodeOutcome DEF OutcomeOK
    <2>6. reply' \in [call : Calls, hr : Results]
      BY <2>2, <2>5 DEF OutcomeOK, Replies, Calls
    <2>7. p.id = taken + 1 /\ p.id \in 1 .. MaxPackets BY <1>11, <2>4 DEF DecodeInput, Packet
    <2>8. taken' \in 0 .. MaxPackets /\ floor' \in 0 .. taken'
      BY <1>1, <1>11, <2>2, <2>7, CodecAssumption DEF DecodeInput
    <2> QED BY <1>1, <1>11, <2>1, <2>2, <2>3, <2>5, <2>6, <2>8
            DEF DecodeInput, Applies, OutcomeOK
  <1>12. CASE StreamChange
    BY <1>1, <1>3, <1>12, TypeReleased DEF StreamChange, NoFormatChange, history, Replies, Calls, Results
  <1>13. CASE StreamChangeWithoutType
    BY <1>1, <1>13, TypeReleased
    DEF StreamChangeWithoutType, NoFormatChange, typeVars, history, Replies, Calls, Results
  <1>14. CASE StreamChangeFails
    BY <1>1, <1>14, TypeReleased
    DEF StreamChangeFails, NoFormatChange, typeVars, history, Replies, Calls, Results
  <1>15. CASE DeliverSample
    <2>1. ContextOK(NextSampleTaken) /\ Head(ctx.queue) \in Sample
      BY <1>1, <1>15, SampleTaken DEF DeliverSample
    <2>2. ContextOK(ctx') /\ bDraining' \in BOOLEAN /\ bFormatChange' \in BOOLEAN
      BY <1>1, <1>15, <2>1, EmptiedType DEF DeliverSample
    <2>3. last' \in Frame BY <1>15, <2>1 DEF DeliverSample, Sample
    <2> QED BY <1>1, <1>15, <2>2, <2>3 DEF DeliverSample, typeVars, Replies, Calls, Results
  <1>16. CASE LoseSample
    <2>1. ContextOK(NextSampleTaken) BY <1>1, <1>16, SampleTaken DEF LoseSample
    <2>2. ContextOK(ctx') /\ bDraining' \in BOOLEAN /\ bFormatChange' \in BOOLEAN
      BY <1>1, <1>16, <2>1, EmptiedType DEF LoseSample
    <2> QED BY <1>1, <1>16, <2>2 DEF LoseSample, typeVars, history, Replies, Calls, Results
  <1>17. CASE NeedMoreInput
    <2>1. ContextOK(ctx') /\ bDraining' \in BOOLEAN /\ bFormatChange' \in BOOLEAN
      BY <1>1, <1>17, EmptiedType DEF NeedMoreInput
    <2> QED BY <1>1, <1>17, <2>1 DEF NeedMoreInput, typeVars, history, Replies, Calls, Results
  <1>18. CASE StartOfStream
    <2>1. PICK o \in Flush(ctx, inType, outType) : Applies(o) BY <1>18 DEF StartOfStream
    <2>2. ContextOK(ctx') /\ crashed' \in BOOLEAN
      BY <1>1, <2>1, FlushOutcome DEF Applies, OutcomeOK
    <2> QED BY <1>1, <1>18, <2>2 DEF StartOfStream, typeVars, Replies, Calls, Results
  <1>19. CASE EndOfStream
    BY <1>1, <1>19 DEF EndOfStream, typeVars, history, Replies, Calls, Results
  <1>20. CASE Drain
    <2>1. PICK o \in FlushInput(ctx, inType, outType) : Applies(o) /\ Replies("DRAIN", o.hr)
      BY <1>20 DEF Drain
    <2>2. OutcomeOK(o) BY <1>1, FlushInputOutcome
    <2>3. ContextOK(ctx') /\ crashed' \in BOOLEAN BY <2>1, <2>2 DEF Applies, OutcomeOK
    <2>4. reply' \in [call : Calls, hr : Results] BY <2>1, <2>2 DEF Replies, OutcomeOK, Calls
    <2> QED BY <1>1, <1>20, <2>3, <2>4 DEF Drain, typeVars, history
  <1>21. CASE FlushMessage
    <2>1. PICK o \in Flush(ctx, inType, outType) : Applies(o) BY <1>21 DEF FlushMessage
    <2>2. ContextOK(ctx') /\ crashed' \in BOOLEAN
      BY <1>1, <2>1, FlushOutcome DEF Applies, OutcomeOK
    <2> QED BY <1>1, <1>21, <2>2 DEF FlushMessage, typeVars, Replies, Calls, Results
  <1>22. CASE IgnoredMessage
    BY <1>1, <1>22 DEF IgnoredMessage, typeVars, history, Replies, Calls, Results
  <1>23. CASE UNCHANGED vars
    BY <1>1, <1>23 DEF vars, typeVars, history
  <1> QED
    BY <1>4, <1>5, <1>6, <1>7, <1>8, <1>9, <1>10, <1>11, <1>12, <1>13, <1>14, <1>15, <1>16,
       <1>17, <1>18, <1>19, <1>20, <1>21, <1>22, <1>23
    DEF Next, TypeCall, InputCall, OutputCall, MessageCall

(***************************************************************************)
(* Every variable keeps its type, and the codec its bounds.                *)
(***************************************************************************)
THEOREM TypeCorrect == Spec => []TypeOK
  <1> QED BY InitTypeOK, NextTypeOK, PTL DEF Spec

-----------------------------------------------------------------------------
(***************************************************************************)
(* What the calls do to the making of the context: its pointers, helper    *)
(* and format change.                                                      *)
(***************************************************************************)

Output == DeliverSample \/ LoseSample \/ NeedMoreInput
Input  == FailInput \/ (\E p \in OfferedPackets : DecodeInput(p))
Flushing == StartOfStream \/ Drain \/ FlushMessage

(* Taking output either rebuilds the context for the types set, or only shortens its queue. *)
LEMMA OutputStep ==
  ASSUME TypeOK, Output
  PROVE  /\ UNCHANGED typeVars
         /\ \/ ctx' = NewContext /\ bFormatChange' = FALSE
            \/ MadeAs(ctx', ctx) /\ ctx'.av = ctx.av /\ bFormatChange' = bFormatChange
  <1>1. ContextOK(ctx) BY TypeOKContext
  <1>2. HasNextSample(ctx) => MadeAs(NextSampleTaken, ctx) /\ NextSampleTaken.av = ctx.av
    BY <1>1, SampleTaken
  <1>3. MadeAs(ctx, ctx) BY DEF MadeAs
  <1>4. PICK c : MadeAs(c, ctx) /\ c.av = ctx.av /\ Emptied(c) /\ UNCHANGED typeVars
    BY <1>2, <1>3 DEF Output, DeliverSample, LoseSample, NeedMoreInput
  <1> QED BY <1>4 DEF Emptied

(* Giving input leaves the context made as it was, or initialises it for the types set. *)
LEMMA InputStep ==
  ASSUME TypeOK, Input
  PROVE  /\ UNCHANGED << inType, suggested, majorType, bFormatChange >>
         /\ \/ HasInitialized(ctx) /\ outType' = outType /\ MadeAs(ctx', ctx)
            \/ /\ ~HasInitialized(ctx)
               /\ \E i : /\ InitializeLeaves(i, ctx, inType, outType)
                        /\ outType' = i.type /\ MadeAs(ctx', i.ctx)
  <1>1. ContextOK(ctx) /\ inType \in Types /\ outType \in Types BY TypeOKContext
  <1>2. UNCHANGED << inType, suggested, majorType, bFormatChange >>
    BY DEF Input, FailInput, DecodeInput
  <1>3. PICK i \in Initialized : outType' = i.type /\ MadeAs(ctx', i.ctx)
    <2>1. CASE FailInput BY <2>1 DEF FailInput, MadeAs
    <2>2. ASSUME NEW p \in OfferedPackets, DecodeInput(p)
          PROVE  \E i \in Initialized : outType' = i.type /\ MadeAs(ctx', i.ctx)
      <3>1. PICK i \in Initialized : outType' = i.type /\ \E d \in Decode(i.ctx, p) : Applies(d)
        BY <2>2 DEF DecodeInput
      <3>2. PICK d \in Decode(i.ctx, p) : Applies(d) BY <3>1
      <3>3. OutcomeOK(i) BY InitializedType
      <3>4. p \in Packet BY DEF OfferedPackets
      <3>5. MadeAs(d.ctx, i.ctx) BY <3>3, <3>4, DecodeOutcome DEF OutcomeOK
      <3> QED BY <3>1, <3>2, <3>5 DEF Applies
    <2> QED BY <2>1, <2>2 DEF Input
  <1>4. CASE HasInitialized(ctx)
    <2>1. i.ctx = ctx /\ i.type = outType BY <1>4 DEF Initialized, Ready
    <2> QED BY <1>2, <1>3, <1>4, <2>1
  <1>5. CASE ~HasInitialized(ctx)
    <2>1. i \in Initialize(ctx, inType, outType) BY <1>5 DEF Initialized
    <2>2. InitializeLeaves(i, ctx, inType, outType) BY <1>1, <2>1, InitializeOutcome
    <2> QED BY <1>2, <1>3, <1>5, <2>2
  <1> QED BY <1>4, <1>5

(* A flush or a drain keeps the pointers; it makes a helper only where both point to a type. *)
LEMMA FlushingStep ==
  ASSUME TypeOK, Flushing
  PROVE  /\ UNCHANGED << typeVars, bFormatChange >>
         /\ ctx'.av = Opened /\ reply'.hr # "E_UNEXPECTED"
         /\ ctx'.params = ctx.params /\ ctx'.codec = ctx.codec
         /\ ctx'.formatChange = ctx.formatChange
         /\ ctx'.in = ctx.in /\ ctx'.out = ctx.out
         /\ \/ ctx'.helper = ctx.helper
            \/ ctx.codec /\ ctx.in # "null" /\ ctx.out # "null" /\ ctx'.helper # "none"
  <1>1. ContextOK(ctx) BY TypeOKContext
  <1>2. UNCHANGED << typeVars, bFormatChange >>
    BY DEF Flushing, StartOfStream, Drain, FlushMessage
  <1>3. \/ \E o \in Flush(ctx, inType, outType) : ctx' = o.ctx /\ reply'.hr = "S_OK"
        \/ \E o \in FlushInput(ctx, inType, outType) : ctx' = o.ctx /\ reply'.hr = o.hr
    BY DEF Flushing, StartOfStream, Drain, FlushMessage, Applies, Replies
  <1>4. CASE \E o \in Flush(ctx, inType, outType) : ctx' = o.ctx /\ reply'.hr = "S_OK"
    BY <1>1, <1>2, <1>4, FlushOutcome
  <1>5. CASE \E o \in FlushInput(ctx, inType, outType) : ctx' = o.ctx /\ reply'.hr = o.hr
    BY <1>1, <1>2, <1>5, FlushInputOutcome
  <1> QED BY <1>3, <1>4, <1>5

-----------------------------------------------------------------------------
(***************************************************************************)
(* The suggested type.  Inductive with it: a suggestion and a set type     *)
(* exclude each other, and a format change is only recorded when an output *)
(* type is set.                                                            *)
(***************************************************************************)
SuggestedInv == SuggestedFree /\ (outType # NoType => suggested = NoType)

LEMMA SuggestedStep == TypeOK /\ SuggestedInv /\ [Next]_vars => SuggestedInv'
  <1> SUFFICES ASSUME TypeOK, SuggestedInv, [Next]_vars PROVE SuggestedInv' OBVIOUS
  <1>1. /\ ContextOK(ctx) /\ ctx \in Context
        /\ ctx.formatChange => suggested = NoType
        /\ outType # NoType => suggested = NoType
    BY TypeOKContext DEF ContextOK, SuggestedInv, SuggestedFree
  <1> USE DEF SuggestedInv, SuggestedFree
  <1>2. CASE ClearInputType BY <1>1, <1>2 DEF ClearInputType, Context
  <1>3. ASSUME NEW type \in MediaTypes, SetInputType(type) PROVE SuggestedInv'
    BY <1>1, <1>3 DEF SetInputType, Context
  <1>4. CASE ClearOutputType BY <1>1, <1>4 DEF ClearOutputType, Context
  <1>5. ASSUME NEW type \in MediaTypes, SetOutputType(type) PROVE SuggestedInv'
    BY <1>1, <1>5 DEF SetOutputType, Context
  <1>6. ASSUME NEW type \in MediaTypes, RefuseOutputType(type) PROVE SuggestedInv'
    BY <1>1, <1>6 DEF RefuseOutputType, typeVars
  <1>7. CASE RefuseInput \/ EndOfStream \/ IgnoredMessage \/ UNCHANGED vars
    BY <1>1, <1>7 DEF RefuseInput, EndOfStream, IgnoredMessage, vars, typeVars
  <1>8. CASE Input
    <2>1. CASE HasInitialized(ctx) /\ outType' = outType /\ MadeAs(ctx', ctx) /\ UNCHANGED suggested
      BY <1>1, <2>1 DEF MadeAs
    <2>2. ASSUME NEW i, InitializeLeaves(i, ctx, inType, outType),
                 outType' = i.type, MadeAs(ctx', i.ctx), UNCHANGED suggested
          PROVE  SuggestedInv'
      BY <1>1, <2>2 DEF InitializeLeaves, MadeAs
    <2> QED BY <1>8, <2>1, <2>2, InputStep
  <1>9. CASE StreamChange \/ StreamChangeWithoutType \/ StreamChangeFails
    <2>1. NoFormatChange.formatChange = FALSE /\ [NoFormatChange EXCEPT !.out = Released(@)].formatChange = FALSE
      BY <1>1 DEF NoFormatChange, Context
    <2> QED BY <1>1, <1>9, <2>1
            DEF StreamChange, StreamChangeWithoutType, StreamChangeFails, typeVars
  <1>10. CASE Output
    <2>1. /\ UNCHANGED << inType, outType, suggested >>
          /\ \/ ctx' = NewContext /\ bFormatChange' = FALSE
             \/ MadeAs(ctx', ctx) /\ bFormatChange' = bFormatChange
      BY <1>10, OutputStep DEF typeVars
    <2>2. CASE ctx' = NewContext BY <1>1, <2>1, <2>2 DEF NewContext
    <2>3. CASE MadeAs(ctx', ctx) /\ bFormatChange' = bFormatChange BY <1>1, <2>1, <2>3 DEF MadeAs
    <2> QED BY <2>1, <2>2, <2>3
  <1>11. CASE Flushing
    BY <1>1, <1>11, FlushingStep DEF typeVars
  <1> QED
    BY <1>2, <1>3, <1>4, <1>5, <1>6, <1>7, <1>8, <1>9, <1>10, <1>11
    DEF Next, TypeCall, InputCall, OutputCall, MessageCall, Input, Output, Flushing

(***************************************************************************)
(* ProcessOutput never creates a suggested type over an earlier one.       *)
(***************************************************************************)
THEOREM SuggestionNeverOverwritten == Spec => []SuggestedFree
  <1>1. Init => SuggestedInv BY DEF Init, SuggestedInv, SuggestedFree, NewContext
  <1>2. SuggestedInv => SuggestedFree BY DEF SuggestedInv
  <1> QED BY <1>1, <1>2, TypeCorrect, SuggestedStep, PTL DEF Spec

-----------------------------------------------------------------------------
(***************************************************************************)
(* Contexts and types.  Inductive: a pointer goes stale only under a type  *)
(* that is cleared or that has the context rebuilt, and a context with a   *)
(* helper has its parameters, its codec and two pointers to types.         *)
(***************************************************************************)
ContextInv ==
  /\ ctx.codec => ctx.params
  /\ ctx.helper # "none" => ctx.codec /\ ctx.in # "null" /\ ctx.out # "null"
  /\ ~bFormatChange /\ inType # NoType => ctx.in # "stale"
  /\ ~bFormatChange /\ outType # NoType => ctx.out # "stale"

LEMMA ContextInvStep == TypeOK /\ ContextInv /\ [Next]_vars => ContextInv'
  <1> SUFFICES ASSUME TypeOK, ContextInv, [Next]_vars PROVE ContextInv' OBVIOUS
  <1>1. ctx \in Context /\ bFormatChange \in BOOLEAN /\ inType \in Types /\ outType \in Types
    BY TypeOKContext DEF ContextOK
  <1>2. \A q : (q # "null" => Released(q) # "null") /\ PointerTo(q) # "stale"
    BY DEF Released, PointerTo
  <1> USE DEF ContextInv
  <1>3. CASE ClearInputType BY <1>1, <1>2, <1>3 DEF ClearInputType, Context
  <1>4. ASSUME NEW type \in MediaTypes, SetInputType(type) PROVE ContextInv'
    BY <1>1, <1>2, <1>4 DEF SetInputType, Context
  <1>5. CASE ClearOutputType BY <1>1, <1>2, <1>5 DEF ClearOutputType, Context
  <1>6. ASSUME NEW type \in MediaTypes, SetOutputType(type) PROVE ContextInv'
    BY <1>1, <1>2, <1>6 DEF SetOutputType, Context
  <1>7. ASSUME NEW type \in MediaTypes, RefuseOutputType(type) PROVE ContextInv'
    BY <1>7 DEF RefuseOutputType, typeVars
  <1>8. CASE RefuseInput \/ EndOfStream \/ IgnoredMessage \/ UNCHANGED vars
    BY <1>8 DEF RefuseInput, EndOfStream, IgnoredMessage, vars, typeVars
  <1>9. CASE Input
    <2>1. CASE /\ UNCHANGED << inType, bFormatChange >>
               /\ HasInitialized(ctx) /\ outType' = outType /\ MadeAs(ctx', ctx)
      BY <2>1 DEF MadeAs
    <2>2. ASSUME NEW i, InitializeLeaves(i, ctx, inType, outType), ~HasInitialized(ctx),
                 UNCHANGED << inType, bFormatChange >>,
                 outType' = i.type, MadeAs(ctx', i.ctx)
          PROVE  ContextInv'
      <3>1. ctx.helper = "none" BY <2>2 DEF HasInitialized
      <3>2. ctx'.in # "stale" /\ ctx'.out # "stale"
        BY <1>2, <2>2 DEF InitializeLeaves, MadeAs
      <3>3. ctx'.codec => ctx'.params
        BY <2>2 DEF InitializeLeaves, MadeAs
      <3>4. ctx'.helper # "none" => ctx'.codec /\ ctx'.in # "null" /\ ctx'.out # "null"
        BY <2>2, <3>1 DEF InitializeLeaves, MadeAs, PointerTo
      <3> QED BY <3>2, <3>3, <3>4
    <2> QED BY <1>9, <2>1, <2>2, InputStep
  <1>10. CASE StreamChange \/ StreamChangeWithoutType \/ StreamChangeFails
    <2>1. NoFormatChange \in Context BY <1>1 DEF NoFormatChange, Context
    <2>2. /\ NoFormatChange.params = ctx.params /\ NoFormatChange.codec = ctx.codec
          /\ NoFormatChange.helper = ctx.helper
          /\ NoFormatChange.in = ctx.in /\ NoFormatChange.out = ctx.out
      BY <1>1 DEF NoFormatChange, Context
    <2> DEFINE d == [NoFormatChange EXCEPT !.out = Released(@)]
    <2>3. /\ d.params = ctx.params /\ d.codec = ctx.codec /\ d.helper = ctx.helper
          /\ d.in = ctx.in /\ d.out = Released(ctx.out)
      BY <2>1, <2>2 DEF Context
    <2> HIDE DEF d
    <2>4. CASE StreamChange
      <3>1. ctx' = d /\ outType' = NoType /\ UNCHANGED << inType, bFormatChange >>
        BY <2>4 DEF StreamChange, d
      <3> QED BY <1>2, <2>3, <3>1
    <2>5. CASE StreamChangeWithoutType \/ StreamChangeFails
      <3>1. ctx' = NoFormatChange /\ UNCHANGED << inType, outType, bFormatChange >>
        BY <2>5 DEF StreamChangeWithoutType, StreamChangeFails, typeVars
      <3> QED BY <2>2, <3>1
    <2> QED BY <1>10, <2>4, <2>5
  <1>11. CASE Output
    <2>1. /\ UNCHANGED << inType, outType, suggested >>
          /\ \/ ctx' = NewContext /\ bFormatChange' = FALSE
             \/ MadeAs(ctx', ctx) /\ bFormatChange' = bFormatChange
      BY <1>11, OutputStep DEF typeVars
    <2>2. CASE ctx' = NewContext BY <1>1, <2>1, <2>2 DEF NewContext
    <2>3. CASE MadeAs(ctx', ctx) /\ bFormatChange' = bFormatChange BY <1>1, <2>1, <2>3 DEF MadeAs
    <2> QED BY <2>1, <2>2, <2>3
  <1>12. CASE Flushing
    BY <1>12, FlushingStep DEF typeVars
  <1> QED
    BY <1>3, <1>4, <1>5, <1>6, <1>7, <1>8, <1>9, <1>10, <1>11, <1>12
    DEF Next, TypeCall, InputCall, OutputCall, MessageCall, Input, Output, Flushing

LEMMA InitContextInv == Init => ContextInv
  BY DEF Init, ContextInv, NewContext

(***************************************************************************)
(* An initialised context that is not to be rebuilt points to the types    *)
(* that the decoder holds, whatever fails on the way.                      *)
(***************************************************************************)
THEOREM PointersCurrent == Spec => []ContextMatchesTypes
  <1>1. TypeOK /\ ContextInv => ContextMatchesTypes
    BY TypeOKContext DEF ContextInv, ContextMatchesTypes, HasInitialized, ContextOK, Context, Pointer
  <1> QED BY <1>1, InitContextInv, TypeCorrect, ContextInvStep, PTL DEF Spec

-----------------------------------------------------------------------------
(***************************************************************************)
(* Buffers.  Inductive with ContextInv where the codec always opens: a     *)
(* context with a codec has a helper, so that a flush cannot initialise a  *)
(* context whose output type was never updated.                            *)
(***************************************************************************)
BufferInv == BuffersFit /\ (ctx.codec => ctx.helper # "none")

LEMMA UpdatedOutputFits ==
  ASSUME NEW in \in Types, NEW out \in Types, UpdatedOutput(in, out).major = "video",
         in.major = "video"
  PROVE  UpdatedOutput(in, out).size = in.size
  BY DEF UpdatedOutput, Types, MediaTypes, NoType

LEMMA BufferStep ==
  ASSUME "open" \notin MayFail, TypeOK, ContextInv, BufferInv, [Next]_vars
  PROVE  BufferInv'
  <1>1. ctx \in Context /\ bFormatChange \in BOOLEAN /\ inType \in Types /\ outType \in Types
    BY TypeOKContext DEF ContextOK
  <1>2. NoType.major # "video" BY DEF NoType
  <1> USE DEF BufferInv, BuffersFit
  <1>3. CASE ClearInputType BY <1>1, <1>2, <1>3 DEF ClearInputType, Context, HasInitialized
  <1>4. ASSUME NEW type \in MediaTypes, SetInputType(type) PROVE BufferInv'
    BY <1>1, <1>4 DEF SetInputType, Context, HasInitialized
  <1>5. CASE ClearOutputType BY <1>1, <1>2, <1>5 DEF ClearOutputType, Context, HasInitialized
  <1>6. ASSUME NEW type \in MediaTypes, SetOutputType(type) PROVE BufferInv'
    BY <1>1, <1>6 DEF SetOutputType, Context, HasInitialized
  <1>7. ASSUME NEW type \in MediaTypes, RefuseOutputType(type) PROVE BufferInv'
    BY <1>7 DEF RefuseOutputType, typeVars, HasInitialized
  <1>8. CASE RefuseInput \/ EndOfStream \/ IgnoredMessage \/ UNCHANGED vars
    BY <1>8 DEF RefuseInput, EndOfStream, IgnoredMessage, vars, typeVars, HasInitialized
  <1>9. CASE Input
    <2>1. CASE /\ UNCHANGED << inType, bFormatChange >>
               /\ HasInitialized(ctx) /\ outType' = outType /\ MadeAs(ctx', ctx)
      BY <2>1 DEF MadeAs, HasInitialized
    <2>2. ASSUME NEW i, InitializeLeaves(i, ctx, inType, outType), ~HasInitialized(ctx),
                 UNCHANGED << inType, bFormatChange >>,
                 outType' = i.type, MadeAs(ctx', i.ctx)
          PROVE  BufferInv'
      <3>1. ctx.helper = "none" /\ ~ctx.codec BY <2>2 DEF HasInitialized, ContextInv
      <3>2. CASE i.ctx.helper = ctx.helper /\ ~i.ctx.codec
        BY <2>2, <3>1, <3>2 DEF MadeAs, HasInitialized
      <3>3. CASE i.type = UpdatedOutput(inType, outType) /\ i.ctx.helper \in { "ready", "broken" }
        BY <1>1, <2>2, <3>3, UpdatedOutputFits DEF MadeAs, HasInitialized
      <3>4. i.ctx.codec = ctx.codec \/ i.ctx.helper \in { "ready", "broken" }
        BY <2>2 DEF InitializeLeaves
      <3> QED BY <2>2, <3>1, <3>2, <3>3, <3>4 DEF InitializeLeaves
    <2> QED BY <1>9, <2>1, <2>2, InputStep
  <1>10. CASE StreamChange \/ StreamChangeWithoutType \/ StreamChangeFails
    <2>1. NoFormatChange \in Context BY <1>1 DEF NoFormatChange, Context
    <2>2. /\ NoFormatChange.params = ctx.params /\ NoFormatChange.codec = ctx.codec
          /\ NoFormatChange.helper = ctx.helper
      BY <1>1 DEF NoFormatChange, Context
    <2> DEFINE d == [NoFormatChange EXCEPT !.out = Released(@)]
    <2>3. d.params = ctx.params /\ d.codec = ctx.codec /\ d.helper = ctx.helper
      BY <2>1, <2>2 DEF Context
    <2> HIDE DEF d
    <2>4. CASE StreamChange
      <3>1. ctx' = d /\ outType' = NoType BY <2>4 DEF StreamChange, d
      <3> QED BY <1>2, <2>3, <3>1 DEF HasInitialized
    <2>5. CASE StreamChangeWithoutType \/ StreamChangeFails
      <3>1. ctx' = NoFormatChange /\ UNCHANGED << inType, outType, bFormatChange >>
        BY <2>5 DEF StreamChangeWithoutType, StreamChangeFails, typeVars
      <3> QED BY <2>2, <3>1 DEF HasInitialized
    <2> QED BY <1>10, <2>4, <2>5
  <1>11. CASE Output
    <2>1. /\ UNCHANGED << inType, outType >>
          /\ \/ ctx' = NewContext
             \/ MadeAs(ctx', ctx) /\ bFormatChange' = bFormatChange
      BY <1>11, OutputStep DEF typeVars
    <2>2. CASE ctx' = NewContext BY <2>2 DEF NewContext, HasInitialized
    <2>3. CASE MadeAs(ctx', ctx) /\ bFormatChange' = bFormatChange
      BY <2>1, <2>3 DEF MadeAs, HasInitialized
    <2> QED BY <2>1, <2>2, <2>3
  <1>12. CASE Flushing
    BY <1>12, FlushingStep DEF typeVars, HasInitialized
  <1> QED
    BY <1>3, <1>4, <1>5, <1>6, <1>7, <1>8, <1>9, <1>10, <1>11, <1>12
    DEF Next, TypeCall, InputCall, OutputCall, MessageCall, Input, Output, Flushing

(***************************************************************************)
(* Where the codec always opens, the size the client allocates for is the  *)
(* size the codec decodes to, for any frame sizes and whatever else fails. *)
(* (Where avcodec_open2 may fail, START_OF_STREAM can give such a context  *)
(* a helper without looking at its output type.)                           *)
(***************************************************************************)
THEOREM BuffersFitAlways ==
  ASSUME "open" \notin MayFail
  PROVE  Spec => []BuffersFit
  <1>1. Init => BufferInv BY DEF Init, BufferInv, BuffersFit, HasInitialized, NewContext
  <1>2. TypeOK /\ ContextInv /\ BufferInv /\ [Next]_vars => BufferInv' BY BufferStep
  <1>3. BufferInv => BuffersFit BY DEF BufferInv
  <1> QED BY <1>1, <1>2, <1>3, InitContextInv, TypeCorrect, ContextInvStep, PTL DEF Spec

-----------------------------------------------------------------------------
(***************************************************************************)
(* The codec between calls.  Inductive where a packet holds one frame at   *)
(* most: neither the filter nor the codec is left with anything to give.   *)
(***************************************************************************)
ReadyInv ==
  /\ ctx.av.bsf = << >> /\ ctx.av.work = << >>
  /\ ~crashed => ctx.av.buf = << >>
  /\ reply.hr # "E_UNEXPECTED"

LEMMA ReadyStep ==
  ASSUME MaxFrames <= 1, TypeOK, ReadyInv, [Next]_vars
  PROVE  ReadyInv'
  <1>1. ctx \in Context /\ ContextOK(ctx) /\ inType \in Types /\ outType \in Types
    BY TypeOKContext DEF ContextOK
  <1>2. Opened.bsf = << >> /\ Opened.work = << >> /\ Opened.buf = << >> BY DEF Opened
  <1> DEFINE Step == /\ \/ ctx'.av = ctx.av /\ crashed' = crashed
                        \/ ctx'.av = ctx.av /\ ~crashed
                        \/ ctx'.av = Opened
                        \/ /\ ctx'.av.bsf = << >> /\ ctx'.av.work = << >>
                           /\ ~crashed' => ctx'.av.buf = << >>
                     /\ reply'.hr # "E_UNEXPECTED"
  <1>3. Step
    <2>1. CASE ClearInputType \/ ClearOutputType
      BY <1>1, <2>1 DEF ClearInputType, ClearOutputType, Context, Replies
    <2>2. ASSUME NEW type \in MediaTypes,
                 SetInputType(type) \/ SetOutputType(type) \/ RefuseOutputType(type)
          PROVE  Step
      BY <1>1, <2>2 DEF SetInputType, SetOutputType, RefuseOutputType, Context, Replies
    <2>3. CASE RefuseInput \/ EndOfStream \/ IgnoredMessage
      BY <2>3 DEF RefuseInput, EndOfStream, IgnoredMessage, Replies
    <2>4. CASE UNCHANGED vars BY <2>4 DEF vars, ReadyInv
    <2>5. CASE FailInput
      <3>1. PICK i \in Initialized :
              ctx' = i.ctx /\ Replies("ProcessInput", IF i.hr = "S_OK" THEN "E_FAIL" ELSE i.hr)
        BY <2>5 DEF FailInput
      <3>2. ~crashed BY <2>5 DEF FailInput
      <3>3. i.hr # "E_UNEXPECTED" /\ i.ctx.av \in { ctx.av, Opened }
        BY InitializedCodec
      <3> QED BY <3>1, <3>2, <3>3 DEF Replies
    <2>6. ASSUME NEW p \in OfferedPackets, DecodeInput(p) PROVE Step
      <3>1. PICK i \in Initialized : \E d \in Decode(i.ctx, p) :
              Applies(d) /\ Replies("ProcessInput", d.hr)
        BY <2>6 DEF DecodeInput
      <3>2. PICK d \in Decode(i.ctx, p) : Applies(d) /\ Replies("ProcessInput", d.hr) BY <3>1
      <3>3. ~crashed BY <2>6 DEF DecodeInput
      <3>4. ContextOK(i.ctx) BY InitializedType DEF OutcomeOK
      <3>5. NothingLeft(i.ctx.av)
        BY <1>2, <3>3, InitializedCodec DEF NothingLeft, ReadyInv
      <3>6. p \in Packet BY DEF OfferedPackets
      <3>7. /\ d.hr # "E_UNEXPECTED"
            /\ d.ctx.av.bsf = << >> /\ d.ctx.av.work = << >>
            /\ ~d.crash => d.ctx.av.buf = << >>
        BY <3>4, <3>5, <3>6, DecodeReady
      <3> QED BY <3>2, <3>7 DEF Applies, Replies
    <2>7. CASE StreamChange \/ StreamChangeWithoutType \/ StreamChangeFails
      <3>1. NoFormatChange \in Context /\ NoFormatChange.av = ctx.av
        BY <1>1 DEF NoFormatChange, Context
      <3> DEFINE d == [NoFormatChange EXCEPT !.out = Released(@)]
      <3>2. d.av = ctx.av BY <3>1 DEF Context
      <3> HIDE DEF d
      <3>3. ctx' \in { NoFormatChange, d }
        BY <2>7 DEF StreamChange, StreamChangeWithoutType, StreamChangeFails, d
      <3>4. ~crashed /\ reply'.hr # "E_UNEXPECTED"
        BY <2>7 DEF StreamChange, StreamChangeWithoutType, StreamChangeFails, Replies
      <3> QED BY <3>1, <3>2, <3>3, <3>4
    <2>8. CASE Output
      <3>1. \/ ctx' = NewContext
            \/ ctx'.av = ctx.av
        BY <2>8, OutputStep
      <3>2. NewContext.av = Opened BY DEF NewContext
      <3>3. crashed' = crashed /\ reply'.hr # "E_UNEXPECTED"
        BY <2>8 DEF Output, DeliverSample, LoseSample, NeedMoreInput, Replies
      <3> QED BY <3>1, <3>2, <3>3
    <2>9. CASE Flushing BY <2>9, FlushingStep
    <2> QED
      BY <2>1, <2>2, <2>3, <2>4, <2>5, <2>6, <2>7, <2>8, <2>9
      DEF Next, TypeCall, InputCall, OutputCall, MessageCall, Output, Flushing
  <1> QED BY <1>2, <1>3 DEF ReadyInv

(***************************************************************************)
(* Where a packet holds one frame at most, Decode never finds the codec    *)
(* too full to take the next packet, whatever its lag and whatever fails.  *)
(***************************************************************************)
THEOREM ReadyForEveryPacket ==
  ASSUME MaxFrames <= 1
  PROVE  Spec => []DecoderAlwaysReady
  <1>1. Init => ReadyInv BY DEF Init, ReadyInv, NewContext, Opened
  <1>2. TypeOK /\ ReadyInv /\ [Next]_vars => ReadyInv' BY ReadyStep
  <1>3. ReadyInv => DecoderAlwaysReady BY DEF ReadyInv, DecoderAlwaysReady
  <1> QED BY <1>1, <1>2, <1>3, TypeCorrect, PTL DEF Spec
=============================================================================
