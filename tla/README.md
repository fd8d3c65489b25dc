# Verification of the Web Media Extensions

TLA+ models of the Web Media Extensions (this repository), the TLC runs that
check them, and TLAPS proofs of the properties that matter most. The subject is
the repository's own code: the decoder MFT in `src/DecoderAppService`, a Media
Foundation transform that decodes Vorbis and Theora (and whatever else of
`src/FFmpegCodecs.xml` a build selects) with FFmpeg, and the media stream source
of `src/FFmpegInterop`, which demuxes files for it. The vendored FFmpeg, more
than nine tenths of the files, is modelled only where this code depends on it.

Paths below are relative to the repository; `DAS/` is `src/DecoderAppService/`
and `Interop/` is `src/FFmpegInterop/FFmpegInterop/Source/`.

## 1. The system

The package has two halves that meet only through Windows: a media *source*
(demuxes Ogg with FFmpeg's libavformat, run by `SourceAppService`) and a *decoder*
(decodes with libavcodec, run by `DecoderAppService`).

| Component | State it keeps | Operations | Interacts with |
|---|---|---|---|
| `DecoderAppService::AppService` (`DAS/FFmpegDecoderService.cpp`) | deferral, connection, the transform | `Run`, `OnRequestReceived`, `OnTaskCanceled` | creates the MFT, gives it to the media pipeline |
| `DecoderBase` (`DAS/DecoderBase.cpp`) | media types set and suggested, major type, `_bFormatChange`, shutdown flags, reference counts, event queue, one critical section | `SetInputType`, `SetOutputType`, type enumeration, event methods, `Shutdown`, `Release` | holds the `FFmpegContext` |
| `FFmpegDecoderMFT` (`DAS/FFmpegDecoderMFT.cpp`) | `_bStreaming`, `_bDraining`, one reused packet | `ProcessInput`, `ProcessOutput`, `ProcessMessage` | calls the context, under the lock or not |
| `FFmpegContext` (`DAS/FFmpegContext.cpp`) | codec parameters, codec context, helper, frame, raw pointers to the types, its own format-change flag, output queue | `Initialize`, `Decode`, `GetNextSample`, `FlushInput`, `Flush`, `HasFormatChange` | libavcodec, helper, `FFmpegTypes` |
| `Audio-`, `VideoTransformHelper` | resampler or scaler | `Initialize`, `ProcessDecodedFrame` | libswresample, libswscale |
| `FFmpegTypes`, `FFmpegVorbis` | none | conversions of types, samples, packets, codec headers | |
| libavcodec (vendored) | filter, packet being decoded, frames held back, frame decoded ahead | `avcodec_send_packet`, `avcodec_receive_frame` | |
| `FFmpegInteropMSS` (`Interop/FFmpegInteropMSS.cpp`) | format and codec contexts, providers, descriptors, mutex | creation, `OnStarting`, `OnSampleRequested` | reader, sample providers |
| `FFmpegReader` | the two streams' providers and indices | `ReadPacket` | queues packets with the providers |
| `MediaSampleProvider` and subclasses | packet queue, enabled flag, discontinuity, next timestamp, start offset | `GetNextSample`, `QueuePacket`, `Flush`, `DisableStream`, `EnableStream` | reader, libavcodec |
| `H264(AVC)SampleProvider` | | rewriting NAL units and parameter sets | |
| `SourceAppService::AppService` | deferral, connection, the MSS | `Run`, initialise request, cancel | |
| application, catalogue, build and localisation scripts | | | |

What makes the components correct, and what is hard about them:

* **The MFT and its context.** Frames come out in the order they went in, none
  twice, none from before a flush after it; none is lost except by a flush; a
  client that follows the protocol gets to the end. Hard: three flags
  (`_bDraining`, `_bFormatChange`, the context's `m_bFormatChange`) in three
  objects that calls set, clear and read in any order; a context that is
  rebuilt lazily, when the queue is empty; raw pointers to types that are
  released; a context half-way through `Initialize`.
* **Threads and life-cycle.** `ProcessInput` tests under the lock and works
  outside it, `ProcessOutput` deletes the context under the lock, the types are
  set without it; `Shutdown` tests one flag and sets another.
* **The source.** One lock for sample requests but not for seeks; a queue per
  stream filled by reading for the other; streams disabled by errors and the
  end of file and enabled by seeks.
* **Pure conversions.** NAL units, parameter sets, Vorbis headers, buffer
  lengths: boundaries and 32-bit arithmetic.

`PROJECT.json` lists the hazards one by one, each at its line.

## 2. Modules

```
The decoder, call by call
  AvCodec              libavcodec's send/receive, as operators on a record
    FFmpegContext        the context's methods, as operators on a record
      FFmpegDecoderMFT     the transform: variables, one action per path of a call, Spec
        DecoderProperties    invariants, action properties, refinement, what comments claim
          MCDecoder              constants for TLC
          MFTClient              the transform with a client that follows the protocol
            MCClient                 constants for TLC
            Client_proofs            (over DecoderOrder_proofs)
  OrderedDecoder       abstract specification of a decoder
  AvCodec_proofs, FFmpegContext_proofs, FFmpegDecoderMFT_proofs, DecoderOrder_proofs

The decoder, thread by thread
  DecoderLifecycle     calls cut where other threads may come in, Shutdown, references
    LifecycleProperties  the discipline of the client, invariants, liveness
      MCLifecycle, DecoderLifecycle_proofs

The source
  SampleSource         requests, seeks, the reader, the providers and their queues
    SourceProperties     invariants, action properties, refinement, liveness
      MCSource, SampleSource_proofs
  OrderedSamples       abstract specification of a source of samples

Conversions
  PacketBuffer (over AvCodec), NalUnits, VorbisHeader   one conversion each, with what it must do
    Conversions          the three side by side
      MCConversions, Conversions_proofs
```

**AvCodec.** A packet is its number, the number of frames it holds and whether
decoding it fails; a frame is its packet and its place in it. The record has the
packet in the bitstream filter (`bsf`), the undecoded rest of the packet in
decoding (`work`), the frames held back for reordering (`held`, at most `Lag`)
and the frame decoded ahead (`buf`). `Pull`, `Send` and `Receive` follow
`decode_receive_frame_internal`, `avcodec_send_packet` and
`avcodec_receive_frame` of `libavcodec/decode.c`. libavcodec's own draining is
left out because the decoder never sends it an empty packet on purpose; that it
may do so by accident is modelled in `PacketBuffer`.

**FFmpegContext.** The `ref class` is a record (C++/CX starts its members at
null); each method is an operator from the record before to the *set* of outcomes
`[hr, ctx, crash]`. `Initialize` sets its members in the order of the code and
leaves those set before a failure. A media type is its major type, frame size and
whether its subtype is in the compiled-in list. `m_pInputType` and
`m_pOutputType` are `"null"`, `"live"` or `"stale"` (the MFT has released the
object). What a read of a stale pointer does is nondeterministic: a helper from
whatever is there (`"stale"`), a failure, or the end of the process.

**FFmpegDecoderMFT.** Variables are the members; one action per path of a call
(`ProcessInput`: `RefuseInput`, `FailInput`, `DecodeInput`; `ProcessOutput`:
`StreamChange...`, `DeliverSample`, `LoseSample`, `NeedMoreInput`; and so on),
each with everything the call does, the end of the drain and the rebuild of the
context included. `reply`, `taken`, `floor` and `last` are history. The client is
arbitrary: any call at any time with any types. A step is a whole call; calls that
overlap in time are the subject of `DecoderLifecycle`.

**OrderedDecoder.** Knows only a line of frames. The refinement maps the line to
`Pipeline(ctx)`, the output queue followed by what is in libavcodec.

**MFTClient.** A client that does what the Media Foundation documentation
asks: types, start, input and output, `SetOutputType` with the suggested type
after a stream change, output until `NEED_MORE_INPUT` after a refusal, drain at
the end; it may seek (FLUSH), also while draining, and set a new input type in
mid-stream. It is modelled from how the code in `src/` is called and is marked
external in the map.

**DecoderLifecycle.** What the decoder does *between* the places where another
thread may come in. `call[t]` and `at[t]` say which call a thread is in and where;
`lock` is the owner of `_pcsLock`, and only the steps that the code locks wait for
it. `ProcessInput` is `BeginInput` (the checks, locked), `StartDecode` and
`EndInput` (unlocked); `ProcessOutput` is `BeginOutput`, `TakeOutput` and, when the
context is deleted and made anew, `Rebuild`, or, when it announces a format change,
`StreamChange` (unlocked), which to the client is a call of its own (`"change"`);
`ProcessMessage` is `CallMessage`, after which it waits for the lock, `BeginMessage`
and `EndMessage`; `Shutdown` is `BeginShutdown` or `Resume`, `CheckShutdown`, `CloseQueue`, `MarkShutdown` and
`Dispose`, since it tests `_bShutdown` in one critical section and sets it in
another; `Release` is `BeginRelease` (the first count, and `Shutdown` when it is
zero) and `ReleaseInternal` (the second, and the destructor, which calls
`Shutdown` again). References are objects that threads own, take and give back,
so that the two counts can be compared with them. `clash` is set by a step that
uses a deleted context, or a codec or media type that another thread is in the
middle of changing. The content of the context is reduced to four flags. The counts
and the shutdown flags begin with what was in the decoder's `Memory`, since no
constructor sets them.
The code locks little, so much depends on which calls a client lets overlap:
`Together` and `AfterShutdown` are parameters, and `Disciplined` is the discipline
of a pipeline (section 3).

**SampleSource.** A file is a sequence of packets, each of a stream and with an
outcome: a frame, an error, nothing yet, or a frame that cannot be written to the
sample; `Pts` gives the packets their stamps, which may be negative and need not
ascend. A request (`OnSampleRequested`) runs
under `mutexGuard` and is cut at each packet that is read (`ReadPacket`,
`FFmpegReader`) or taken from the queue: skipped (`SkipDamaged`, `SkipPartial`),
the last one allowed (`TakeDamaged`), not writable (`TakeUnwritable`), gathered
into a longer audio sample (`Gather`) or delivered (`Deliver`), with what each does
to the discontinuity flag, the start offset and the enabled flag in the order of
the code (`StartTime` is the clamp of a negative offset). `Seek` is `OnStarting`,
which takes no lock: that it stays out of requests is an assumption on the pipeline
(`MaySeek`, with `Overlap = FALSE`). `answer`, `last`, `sought` and `late` are history.

**OrderedSamples.** What a source promises: samples of whole runs of a stream's
packets, in order, flagged after any loss and any seek, nothing after the end of a
stream until the next seek.

**PacketBuffer.** The packet that `ProcessInput` uses again: its stamps and its
buffer come from samples, the buffer may be shared with libavcodec (the packet in
the filter and the one in decoding of `AvCodec`), and `PacketFromSample` writes into
it in place when the size is the same.

**NalUnits.** `WriteAVPacketToStream` with its parameter sets and the loop of
`WriteNALPacket`, one unit a step. `Base` is the number of values of a byte and the
arithmetic is modulo `Base^4`, so that with a base of 3 every length a packet can
hold, those that wrap included, is enumerated. What is written is known by where
in its source it was.

**VorbisHeader.** `ProcessHeader` against `SplitHeaders`, which is libavcodec's
`avpriv_split_xiph_headers`: the reader is the reference definition of the writer.
Headers may have any size; the sizes of the first two are laced and read back byte by
byte.

## 3. Runs

| Run | Question | Bounds |
|---|---|---|
| `shipped` | any client, the codecs the package ships: `Lag` 0, at most one frame for a packet | 3 packets, 2 frame sizes, no failures |
| `catalogue` | any client, reordering codecs, two frames in a packet, failures of packets, conversion, parameters, media types, copying | 2 packets, `Lag` 1, 2 sizes |
| `client` | a client that follows the protocol | 3 packets, 2 seeks, 1 change of type, 2 sizes |
| `lifecycle` | threads in the decoder at once, its shutdown and its end | 2 threads, 3 references; memory that suits (below) |
| `source` | every file, requests and seeks between them: order, flags, ends of streams | 4 packets, an audio and a video stream, 1 packet skipped in a request (10 in the code), 2 gathered |
| `source_seeks` | the same with seeks inside requests: queues, times, every request ends | the same, but all frames can be written |
| `conversions` | every packet, header and sample of the bounds against the reference definitions | 4 samples of 3 sizes, `Lag` 1; base 3 for NAL units; base 5 and headers of 0 to 124 bytes for Vorbis |
| `flush_draining`, `drain_drops`, `stale_types`, `change_unfulfilled`, `backlog` | findings, section 5 | 2 packets, 3 in `backlog` |

* *Decoder.* Three packets are enough for a frame queued, a frame in the codec and
  one coming after a flush of both; two sizes for an output type that differs from
  the codec's and one that does not; a lag of one for a frame that is held back
  across a drain; two frames in a packet for a packet that is only partly decoded
  when the next call comes. Only packets are bounded (`MaxPackets`): every other
  call may be made without end.
* In `client`, two seeks make one before and one inside a drain, and one change
  of type meets each state of the queue.
* *Life-cycle.* Nothing is bounded but the sets: two threads meet in every pair of
  calls, and three references leave one in hand while each thread takes or gives
  one back. The theorems are for any number of either.
* *Source.* Four packets make a run of two for a gathered sample with a packet of
  the other stream or a loss before, between or after; one skip has both sides of
  the boundary. The stamps (-1, 2, 1, 3) have a negative one and one that does not
  ascend. Seeks and requests are unbounded.
* *Conversions.* NAL units: every packet of up to 6 bytes, and a whole unit followed
  by one of any 4-byte length, so that valid, too long and wrapping lengths all
  occur, at the start and behind a unit. Vorbis headers: sizes on both sides of the
  top byte (4 in base 5, 255 in the code) and with a top byte in the second place, the
  third and both, so that each branch of the lacing is taken. Sizes of 0 to 2 have
  samples that reuse the buffer and samples that replace it.
* `shipped` and `catalogue` set `CHECK_DEADLOCK FALSE` because a process that has
  crashed does nothing more, `lifecycle` because a destroyed decoder does nothing
  more; that nobody is stuck before is what `LockFreed` and `NoLeak` say there.
  The other passing runs check for deadlock.
* `"open"` and `"helper"` failures are left out of `catalogue`: after a failed
  `avcodec_open2`, START_OF_STREAM gives the context a helper although its output
  type was never updated, and `BuffersFit` fails. That is the same weakness as
  the half-initialised context of section 5, and theorem `BuffersFitAlways` states the assumption.

What the properties say:

* `InOrder`, `KeepsPromise` - order, uniqueness and flushes, as an invariant on the
  whole pipeline and, in `catalogue`, as refinement of `OrderedDecoder`.
* `FramesDroppedOnlyByFlush` (no lag) - only FLUSH and START_OF_STREAM drop frames;
  drains, new types and rebuilds do not.
* `SampleStamps` (no lag, one frame a packet) - the packet in hand when a sample is
  stamped is the packet of its frame. It does not hold for reordering codecs.
* `DecoderAlwaysReady` (one frame a packet) - `avcodec_send_packet` never answers
  EAGAIN, as the code asserts. With two frames in a packet it does (finding 5).
* `ContextMatchesTypes`, `BuffersFit`, `SuggestedFree` - the context, the
  announced buffer size and the suggested type agree with the types set.
* `NothingLost`, `Served` - for the client of `MFTClient`, every frame accepted
  since the last flush is delivered or on its way, in order, and no call fails.
* `EveryStreamEnds` - liveness, below.
* `ContextUndisturbed`, `EventQueueAlive` - no thread uses a context that another
  has deleted or what another is changing, nor an event queue that was released.
* `DestroyedLast`, `NoLeak` - the decoder is deleted once, by the last reference,
  shut down, with nobody in a call, its event queue released and its context deleted
  (where the finished flag did not begin as TRUE); and when all references are given
  back, it is.
* `LockFreed` - nobody keeps the lock for ever.
* `QueueComplete`, `OneQueueGrows` - a queue holds the packets of its stream in
  order, without a gap while the stream is enabled, and packets pile up for one
  stream only.
* `TimesFromStart` - times never run ahead of the file's stamps; where a stream's
  stamps ascend and its offset was not set after a seek, no time is negative whose
  stamp was not, and a negative stamp stays as it is.
* `EndsForAReason` - a stream is ended only when nothing good is left, after too
  many broken packets, or at a packet that cannot be written.
* `SamplesInOrder` - the source implements `OrderedSamples`.
* `EveryRequestAnswered` - liveness, below.
* `PacketIsSample` - a packet sent has the contents, size and stamps of its sample;
  `OverwrittenOnlyWhenFree` - no buffer is written that libavcodec refers to.
* `EachByteOnce`, `WholePacketsAccepted`, `EveryPacketEnds` - the loop over NAL
  units reads no byte outside the packet and none twice, writes all units of a
  well-formed packet, and ends. `ParameterSetsExact` - exactly the two sets of the
  extradata come before a key frame.
* `OnlyShortHeadersFound` - libavcodec finds the three Vorbis headers again when the
  first two are shorter than 255 bytes, and never otherwise. It ought to find them always
  (`HeadersFound`): what is checked is what the code does (section 5).

**What the passing runs assume**, and what fails without it (each was tried by
changing the constant named):

| Assumption | Why | Without it |
|---|---|---|
| `Together` is `Pipeline` | a pipeline makes one call of input, output, message, type and shutdown at a time, except that a message may come during another message or an output that announces no format change; events at any time but a shutdown; references always | an input with an input, output, format change, message, type or shutdown breaks `ContextUndisturbed`; so do an output with an output or shutdown, a message with a format change, type or shutdown, and a type with a format change, type or shutdown; an event method or a second `Shutdown` during `Shutdown` breaks `EventQueueAlive` |
| `AfterShutdown` is `ShutdownIsFinal` | `ProcessMessage` and `ProcessOutput` do not look at `_bShutdown` | message, output or a format change after it breaks `ContextUndisturbed` |
| `EventCalls` without `"wait"` | `GetEvent` waits with the lock that `QueueEvent` needs | `LockFreed` fails |
| `Memory` is `LuckyMemory` | counts and flags are never initialised: the run has a first count of 0 or 1, a started flag of either value, an internal count of 0 and a finished flag of `FALSE` | a first count of -1 breaks `TypeOK`, an internal count of -1 `DestroyedLast` and one of 1 `NoLeak`; with a finished flag of `TRUE` the new decoder refuses everything |
| `Overlap = FALSE` in `source` | `OnStarting` takes no lock | `EndsForAReason` and `SamplesInOrder` fail; the properties of `source_seeks` hold |
| `MaxFrames = 1` in `conversions` | the shipped codecs | `OverwrittenOnlyWhenFree` fails |
| `Stamped = {TRUE}`, `RunsOut = {FALSE}` | samples have stamps, memory does not run out | `PacketIsSample` fails: stale stamps, or an empty packet that ends the codec |
| parameter sets shorter than a byte can count | the low byte of a length is read | `ParameterSetsExact` fails |

**Fairness.** `ClientSpec` has weak fairness on `ClientStep`: the client keeps
calling. The decoder is passive, every call returns, and a pipeline that plays a
stream goes on asking, so nothing of the code's own scheduling is assumed.
`MaxSeeks`, `MaxChanges` and `MaxPackets` stand for a client that does not seek
for ever. What the property then says is that the refusals of `ProcessInput`, the
stream change and the drain always come to an end. `FairLifecycle` has weak
fairness on `Continue(t)`: a thread in a call goes on when it can; no call need
ever be made. `FairSource` has weak fairness on `Serve`: a request that holds the
mutex runs on. `EveryRequestAnswered` excludes a pipeline that seeks for ever, since each
seek gives the request it interrupts the file to read again. `ConversionSpec` has it on the steps of a packet's loop: a function
that was called runs on.

Every property of a passing run is broken by a plausible fault in the code:
the operators marked as mutants beside the definitions they replace.

## 4. Proofs

All for every value of the constants, unless the table says otherwise: any lag, any
number of frames in a packet, of packets, sizes, threads, references, any file and
any choice of failures.

| Theorem | Statement | Assumes | Argument |
|---|---|---|---|
| `TypeCorrect` | `Spec => []TypeOK` | | inductive as it stands, from lemmas on each operator's result |
| `SuggestionNeverOverwritten` | `Spec => []SuggestedFree` | | `SuggestedInv`: a set output type and a suggestion exclude each other; a format change is recorded only where an output type is set |
| `PointersCurrent` | `Spec => []ContextMatchesTypes` | | `ContextInv`: a pointer goes stale only under a type that is cleared or that marks the context to be rebuilt; a context with a helper has both pointers |
| `BuffersFitAlways` | `Spec => []BuffersFit` | `"open"` does not fail | `BufferInv` with `ContextInv`: a context with a codec has a helper, so a flush cannot initialise one whose output type was not updated |
| `ReadyForEveryPacket` | `Spec => []DecoderAlwaysReady` | `MaxFrames <= 1` | `ReadyInv`: filter and packet in decoding are empty between calls, and so is the frame decoded ahead unless the process crashed |
| `DecoderKeepsPromise` | `Spec => KeepsPromise` | | every call is a step of `OrderedDecoder` or leaves what it speaks of; below |
| `FramesInOrder` | `Spec => []InOrder` | | `OrderInv`, preserved by each step of the promise: also, the last frame delivered is of a packet that was taken, needed when the pipeline is empty |
| `StampsOfTheirPackets` | `Spec => []SampleStamps` | `Lag = 0`, `MaxFrames <= 1` | `ReadyInv`: the codec holds no frame between calls, so the frame received is of the packet just sent |
| `DroppedOnlyByFlush` | `Spec => FramesDroppedOnlyByFlush` | the same, and copying a sample does not fail | each call leaves the queue, adds to its end, takes its oldest sample, or is a flush (`QueueStep`) |
| `ClientIsAllowed` | `ClientSpec => Spec` | | each step of the client is one call of the decoder; `RetypeInv`: it sets the suggested type only while there is one |
| `NoFrameLost` | `ClientSpec => []NothingLost` | `Lag = 0`, `MaxFrames <= 1`, `MayFail` within `"params"`, `"decode"`, `"media"` | `ClientInv`, below |
| `EveryCallServed` | `ClientSpec => []Served` | `Lag = 0`, `MaxFrames <= 1`, nothing fails | `ClientInv` |
| `LifecycleTypeCorrect`, `NothingDisturbed`, `QueueUsedBeforeRelease`, `DestroyedOnceAndLast` | `LifecycleSpec => []TypeOK`, `[]ContextUndisturbed`, `[]EventQueueAlive`, `[]DestroyedLast` | `Disciplined`, `CountsNotNegative` | `LifecycleInv`: places and calls agree and the calls in progress may overlap; the first count misses no reference in hand, the second none of those being taken or given back either; who is at a step of `Shutdown` tells how far it has come, and whose the context is |
| `SourceTypeCorrect`, `QueuesComplete`, `OneQueueOnly` | `SourceSpec => []TypeOK`, `[]QueueComplete`, `[]OneQueueGrows` | | inductive together; a packet is read only for an empty queue |
| `TimesCountFromStart` | `SourceSpec => []TimesFromStart` | | `StartInv`: a start offset that was set before a seek is the time of the first packet of its stream that is not broken, or 0 where that is negative |
| `SourceKeepsPromise` | `SourceSpec => SamplesInOrder` | `Overlap = FALSE` | `OrderInv` of the source: the last packet given lies before the front of its stream, what was lost in between is marked, and what is being gathered is a whole run that ends at the front |
| `StreamsEndForAReason` | `SourceSpec => EndsForAReason` | `Overlap = FALSE` | `EndInv`: between the last sample of an enabled stream and its front no good packet is left out, and at least as many packets there have failed as the request has skipped |
| `RequestsDescend` | `SourceSpec => [][Descends]_vars` | | every step of a request that does not return reads a packet or takes one from its queue, and a packet read is put into that queue once |
| `ConversionTypeCorrect` | `ConversionSpec => []TypeOK` | | |
| `NothingLeftOver` | `ConversionSpec => []PacketIsSample` | `Stamped = {TRUE}`, `RunsOut = {FALSE}` (section 3) | by cases on the buffer: used again because it has the sample's size, or new |
| `BuffersKeptInUse` | `ConversionSpec => OverwrittenOnlyWhenFree` | `MaxFrames <= 1` | `BufferInv`: nothing is left in the codec between two samples |
| `NoByteTwice` | `ConversionSpec => []EachByteOnce` | packets shorter than half the range of a length (`NalAssumption`) | `UnitsInv`: the units written lie in the bytes passed |
| `WholePacketsOnly` | `ConversionSpec => []WholePacketsAccepted` | the same | `AcceptInv`: the packet is whole if and only if what follows `index` is; the recursive reference is shown to be what its equation says (`WholeFromAt`), by the sets of places where units begin |
| `LoopMovesOn` | `ConversionSpec => [][MovesOn]_nalVars` | the same | `CheckedUnit`: what passes the checks does not wrap |
| `SetsWrittenWhole` | `ConversionSpec => []ParameterSetsExact` | the high bytes of the lengths in the extradata are 0 (`ShortSets`) | `SetsInv`: a key frame has its extradata's sets |
| `RewrittenHeadersFound` | `ConversionSpec => []OnlyShortHeadersFound` | | `HeaderSplit`: a size below the top byte is one byte, written and read; `LongHeadersLost`: what is written of another one has at most three top bytes (`LacedSize`), too few for the size that would have to be read (`UnlacedSize`) |

Few of the checked invariants are inductive. The strengthenings were looked for
along the steps that break induction: a flush that makes a helper on a context left
half-initialised, a pull that takes a packet from the filter, a `Release` between
its two counts, a damaged packet skipped beside one that is only partial.

`RequestsDescend` and `LoopMovesOn` are the safety half of two liveness properties:
what `EveryRequestAnswered` and `EveryPacketEnds` need besides fairness is that no
loop goes round without getting anywhere, and that is proved for files, queues and
packets of any length.

**The refinement of the decoder** (`DecoderOrder_proofs`) rests on one equation for
each operation of the codec. `PullKeeps` and `ReceiveKeeps`: the frames given out,
followed by all that is left, are all that was there. `SendKeeps`: all that is left
is what was there followed by the packet's frames, unless the packet was refused.
From these `DecodeKeeps`: after `Decode` the pipeline is the queue followed by the
codec's and the packet's frames without some stretch between (the frame that could
not be converted, the codec's frames if it was opened anew). Losing that stretch is
what `Accept` and `Lose` of `OrderedDecoder` allow. `AvCodec_proofs` has the types
and bounds of `Pull`, `Send` and `Receive`, `FFmpegContext_proofs` what each method
leaves of pointers, helper, codec and format change, and `FFmpegDecoderMFT_proofs`
groups the actions by what they do to the context (`OutputStep`, `InputStep`,
`FlushingStep`).

**The client** (`Client_proofs`). Only a client that follows the protocol loses no
frame, so the argument is about the protocol. `ClientInv` says what the client
knows of the decoder in each of its phases: the context is fresh (nothing in it, no
codec) or works (both pointers live, a helper for them); types that fit each other
are set in every phase that makes streaming calls; and a pending rebuild
(`_bFormatChange`) outside `"pull"` finds only a fresh context, because the client
comes back from a change of type through `"pull"`, which takes out every sample
before the rebuild frees the codec. With `ReadyInv`, `ContextMatchesTypes`,
`InOrder` and `TypeOK` of the decoder, which hold of it under any client
(`ClientIsAllowed`), each call then keeps what was accepted equal to what was got
followed by the pipeline. The assumptions on failures are needed: a failure of the
conversion or of copying a sample loses a frame, and one of the codec's opening all
of them.

**The life cycle.** The four theorems say what a decoder does for a client that keeps
calls apart, and that is not the code's doing: `Disciplined` is an assumption on the
pipeline. `CountsNotNegative` says that the memory the counts were made in, read as
signed numbers, was not negative; the code does not see to that either. Nothing is
assumed of the two flags. With them and any start of the counts that is not negative
the decoder is deleted once and last if at all; that it is deleted needs an internal
count of zero (`NoLeak`, model-checked).

The only assumptions are the named ones on the constants (`CodecAssumption`,
`ContextAssumption`, `LifecycleAssumption`, `SourceAssumption`, `BufferAssumption`,
`NalAssumption`, `HeaderAssumption`), which TLC evaluates in the runs, and those of
the table.

Every invariant and every action property of the passing runs, and both
refinements, are proved. Model-checked only:

* liveness, which like `ENABLED` is beyond the prover: `EveryStreamEnds`,
  `LockFreed`, `NoLeak`, `EveryRequestAnswered`, `EveryPacketEnds`;
* what is claimed outside the assumptions of the table: that is where section 3
  (what fails without each) and the runs of section 5 have counterexamples.

## 5. Findings

Each is a run that finds the counterexample.

1. **FLUSH does not end a drain** (`flush_draining`). `DAS/FFmpegDecoderMFT.cpp:167`
   says "Drop all current samples - must be ready for new ones right away", but
   `_bDraining` stays set and `ProcessInput` refuses until a `ProcessOutput`. A
   client that then asks for output recovers, as the run `client` shows.
2. **DRAIN drops what the codec holds back** (`drain_drops`). Line 156: "Stop
   accepting input until all possible output is queued"; the code frees the codec
   instead of draining it. The run submits one packet to a codec that holds one frame
   back, and drains: the frame is gone. The shipped codecs hold nothing back.
3. **Stale types** (`stale_types`). The context's raw pointers, "the current output
   type" and "the current input type" of `DAS/FFmpegContext.h:44-48`, are read by a
   flush or a drain after the MFT has released the objects and before it rebuilds
   the context. In the run a context is given its types, one of them is cleared and the
   stream started. The client of `MFTClient` does not get there: it takes all output
   after a change of type.
4. **Format changes are not awaited** (`change_unfulfilled`). `DAS/FFmpegContext.cpp:127`
   says that a format change must be fulfilled before new packets can be decoded;
   the flag is cleared when `ProcessOutput` announces it.
5. **One frame is taken for each packet** (`backlog`). `DAS/FFmpegContext.cpp:136`
   says that the codec is "always ready to access input" and asserts it. In the run a
   packet of two frames leaves one in the codec, the next packet, which gives none,
   therefore stays in the filter, and the third is answered with EAGAIN, the failed
   assertion and `E_UNEXPECTED`. Vorbis and Theora packets hold one frame.

Seen while modelling and without a run of their own (the assumptions of section 3
leave most of them out of the passing runs; each is a hazard of `PROJECT.json`):

* `_WriteHeaderSize` (`DAS/FFmpegVorbis.cpp:54`) writes a byte 0xff for each upper byte
  of a size that happens to be 0xff, not for each 0xff that goes into the size. The
  function is for "outputting a Vorbis format header for FFmpeg" (lines 8-9), but
  libavcodec splits what it writes in the wrong places as soon as one of the first two
  headers has 255 bytes or more, as the comment header often has. Theorem
  `RewrittenHeadersFound` says so for all sizes.
* `_bShutdown`, `_bShutdownStarted` and the reference counts are set by no constructor
  (`DAS/DecoderBase.h:135-140`), and the decoder is made with a plain `new`: in memory
  that was not zero it may say of itself that it was shut down as soon as it is made, be
  deleted early or never.
* `HasInitialized` (`DAS/FFmpegContext.cpp:117`) is true once the helper exists, also
  when its `Initialize` failed, as it does for an output subtype that
  `ValidateOutputType` does not check: the first `ProcessInput` fails, the second decodes
  into a null frame, which is one of the ways the model lets the process crash.
* An output type cleared between the format change and `ProcessOutput` is
  dereferenced (`StreamChangeWithoutType`).
* `GetEvent` may wait with the lock held that `QueueEvent` needs. `Shutdown` releases
  the event queue between the critical section that tests `_bShutdown` and the one
  that sets it, so an event method or a second `Shutdown` in between uses the
  released queue.
* A `ProcessMessage` that was called before `Shutdown` may wait for the lock, get it
  behind `Shutdown`'s first critical section and use the context that `Shutdown` then
  deletes without the lock. The discipline of section 3 has no message during a shutdown.
* `GetShutdownStatus` reports a completed shutdown before the context is deleted, and
  can never report one that has only begun (`DAS/DecoderBase.cpp:113-137`).
* `PacketFromSample` loses the error of a failed allocation, and the packet without
  data that is then sent ends the codec; a sample without a duration or a time gets
  those of the packet before it.
* A seek inside a request gives its sample packets from both sides of the seek. After
  a failed seek the requested position is reported as the actual one.
* The start offset is that of the first packet that completes; after a seek that
  came first, all times are relative to the target of that seek.
* A request for a disabled audio stream reads the rest of the file, queueing every
  video packet of it.
* Damaged packets that are skipped are not all freed: only the last one taken is.
* The lengths of the parameter sets are read from their low bytes only.

## 6. Plan

Done: the decoder call by call and thread by thread, its client, the source while
it plays, and the conversions that have logic, with two refinements and the
theorems above; of the properties of the passing runs only liveness is not proved.
Left, in this order:

1. The creation of `FFmpegInteropMSS` (`InitFFmpegContext`, the choice of streams and
   codecs) and its destructor: which of the objects made so far is freed on each
   error path, with the error at `Interop/FFmpegInteropMSS.cpp:394` that the next
   call overwrites.
2. The deferrals of the two background tasks (`Run` against `OnTaskCanceled`).
3. `CopySample` and the enumeration of types against reference definitions.

## 7. Not modelled

The contents of samples and the conversions of pixels and audio samples; memory
and reference counts of samples; calls refused for their arguments and
`MFT_SET_TYPE_TEST_ONLY`, which change nothing; getters; a codec that changes its
frame size in mid-stream (the shipped ones take it from the headers); durations,
and how a source makes up the timestamps of packets without one (the packets of the
model have whatever stamps `Pts` gives them); what a pipeline
is told of a failed seek; logging; the empty application, the build scripts and the
localisation; the example applications and the tests of FFmpegInterop. Errors of
`PacketFromSample` are all `E_FAIL`. The creation of the source and the background
tasks are in the plan.

FFmpeg is vendored and makes up nearly all lines of the repository. Its codecs,
demuxers and tables are third-party code that this project takes as it is; what is
modelled of it is what the decoder and the source rely on.

## 8. Running

`tlc -config shipped.cfg MCDecoder`, and so on for the runs of `PROJECT.json`
(`shipped`, `catalogue`, `source` and `source_seeks` take a minute or two, the others
seconds).
`tlapm` on each of `AvCodec_proofs`, `FFmpegContext_proofs`,
`FFmpegDecoderMFT_proofs`, `DecoderOrder_proofs`, `DecoderLifecycle_proofs`,
`Client_proofs`, `SampleSource_proofs` and `Conversions_proofs`; each takes at most a
few minutes.
