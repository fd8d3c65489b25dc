---------------------------- MODULE SampleSource ----------------------------
(***************************************************************************)
(* The media stream source while it plays: sample requests and seeks       *)
(* (FFmpegInteropMSS.cpp), the reader that deals packets out to the        *)
(* streams (FFmpegReader.cpp), and the sample provider of each stream with *)
(* its packet queue (MediaSampleProvider.cpp, Uncompressed*.cpp).          *)
(*                                                                         *)
(* A request runs under mutexGuard, so at most one stream is being served; *)
(* it is cut into steps, one for each packet read or taken.  A seek takes  *)
(* no lock: Overlap says whether the pipeline may seek while a request is  *)
(* being served.                                                           *)
(***************************************************************************)
EXTENDS Integers, Sequences, FiniteSets

CONSTANTS
  Streams,      (* the streams that have a provider: one audio, one video    *)
  Unused,       (* streams of the file that have none                        *)
  Gathering,    (* those served by an UncompressedAudioSampleProvider        *)
  Outcomes,     (* what a packet of each stream may turn out to be           *)
  FileLength,   (* number of packets in the file                             *)
  Pts,          (* the framePts of each packet: it may be negative, and need *)
                (* not ascend                                                *)
  MaxSkips,     (* damaged packets skipped in one request: 10 in the code    *)
  MinPackets,   (* packets that last MINAUDIOSAMPLEDURATION                  *)
  ReadErrors,   (* av_read_frame may fail in the middle of the file          *)
  Overlap,      (* a seek may come while a request is being served           *)
  NoStream,     (* stands for no stream                                      *)
  NoPts         (* AV_NOPTS_VALUE                                            *)

(***************************************************************************)
(* What becomes of a packet: a frame ("ok"), an error ("damaged"), nothing *)
(* yet (S_FALSE, "partial"), or a frame that cannot be written to the      *)
(* sample ("unwritable").  A gathering provider writes while it decodes.   *)
(***************************************************************************)
PacketOutcomes == { "ok", "damaged", "partial", "unwritable" }

Positions == 1 .. FileLength

ASSUME SourceAssumption ==
  /\ \E a, v \in Streams \cup { NoStream } : Streams \subseteq { a, v }
  /\ NoStream \notin Streams /\ Streams \cap Unused = { }
  /\ Gathering \subseteq Streams
  /\ Outcomes \in [Streams -> SUBSET PacketOutcomes]
  /\ \A s \in Gathering : "unwritable" \notin Outcomes[s]
  /\ FileLength \in Nat /\ MaxSkips \in Nat /\ MinPackets \in Nat \ {0}
  /\ Pts \in [Positions -> Int] /\ NoPts \notin Int
  /\ ReadErrors \in BOOLEAN /\ Overlap \in BOOLEAN

FilePacket ==
  { p \in [stream : Streams \cup Unused, outcome : PacketOutcomes] :
      p.outcome \in IF p.stream \in Unused THEN { "ok" } ELSE Outcomes[p.stream] }

VARIABLES
  file,            (* the packets of the file                                  *)
  pos,             (* the packet that av_read_frame returns next               *)
  queue,           (* m_packetQueue of each provider                           *)
  enabled,         (* m_isEnabled                                              *)
  discontinuous,   (* m_isDiscontinuous                                        *)
  startOffset,     (* m_startOffset                                            *)
  request,         (* the stream being served, the holder of mutexGuard        *)
  skips,           (* errorCount of the request                                *)
  got,             (* the packets gathered for its sample                      *)
  gotFlag,         (* isDiscontinuous of a gathering provider                  *)
  answer,          (* history: the last answer, until the next request or seek *)
  last,            (* history: the last packet of a stream in an answer, or    *)
                   (* the one before the position of the last seek             *)
  sought,          (* history: no sample since the last seek                   *)
  late             (* history: the offset was set after a seek                 *)

providers == << queue, enabled, discontinuous, startOffset >>
serving   == << request, skips, got, gotFlag >>
history   == << answer, last, sought, late >>
vars      == << file, pos, providers, serving, history >>

(* got = << >>: a null sample, the end of the stream. *)
Answer(s, packets, flag, time) ==
  [stream |-> s, got |-> packets, discontinuous |-> flag, time |-> time]

Ends(s)  == Answer(s, << >>, FALSE, 0)
NoAnswer == Ends(NoStream)

SourceInit ==
  /\ file \in [Positions -> FilePacket]
  /\ pos = 1
  /\ queue = [s \in Streams |-> << >>]
  /\ enabled = [s \in Streams |-> TRUE]
  /\ discontinuous = [s \in Streams |-> FALSE]
  /\ startOffset = [s \in Streams |-> NoPts]
  /\ request = NoStream /\ skips = 0 /\ got = << >> /\ gotFlag = FALSE
  /\ answer = NoAnswer
  /\ last = [s \in Streams |-> 0]
  /\ sought = [s \in Streams |-> FALSE]
  /\ late = [s \in Streams |-> FALSE]

-----------------------------------------------------------------------------
(***************************************************************************)
(* A request begins.  A plain provider that is disabled answers at once; a *)
(* gathering one does not look.                                            *)
(***************************************************************************)
RequestSample(s) ==
  /\ request = NoStream
  /\ enabled[s] \/ s \in Gathering
  /\ request' = s
  /\ answer' = NoAnswer
  /\ UNCHANGED << file, pos, providers, skips, got, gotFlag, last, sought, late >>

(* The request returns, and its locals are gone. *)
Returns ==
  /\ request' = NoStream
  /\ skips' = 0
  /\ got' = << >>
  /\ gotFlag' = FALSE

RequestEnded(s) ==
  /\ request = NoStream
  /\ ~enabled[s] /\ s \notin Gathering
  /\ answer' = Ends(s)
  /\ UNCHANGED << file, pos, providers, serving, last, sought, late >>

(* Mutant: the packet is put at the front. *)
QueuedFirst(i) ==
  LET s == file[i].stream IN
  IF s \in Streams /\ enabled[s] THEN [queue EXCEPT ![s] = << i >> \o @] ELSE queue

(* QueuePacket: freed when its stream has no provider, or a disabled one. *)
Queued(i) ==
  LET s == file[i].stream IN
  IF s \in Streams /\ enabled[s] THEN [queue EXCEPT ![s] = Append(@, i)] ELSE queue

(* Mutant: packets are read ahead. *)
ReadPacketAhead ==
  /\ request # NoStream
  /\ pos \in Positions
  /\ queue' = Queued(pos)
  /\ pos' = pos + 1
  /\ UNCHANGED << file, enabled, discontinuous, startOffset, serving, history >>

(* ReadPacket, for whatever stream: only while the queue served is empty. *)
ReadPacket ==
  /\ request # NoStream
  /\ queue[request] = << >>
  /\ pos \in Positions
  /\ queue' = Queued(pos)
  /\ pos' = pos + 1
  /\ UNCHANGED << file, enabled, discontinuous, startOffset, serving, history >>

(***************************************************************************)
(* GetNextPacket fails.  With packets gathered the sample goes out as it   *)
(* is; otherwise DisableStream, and a null sample.                         *)
(***************************************************************************)
CutShort ==
  /\ got # << >>
  /\ answer' = Answer(request, got, gotFlag, Pts[got[1]] - startOffset[request])
  /\ last' = [last EXCEPT ![request] = got[Len(got)]]
  /\ sought' = [sought EXCEPT ![request] = FALSE]
  /\ UNCHANGED enabled

DisableStream ==
  /\ got = << >>
  /\ answer' = Ends(request)
  /\ enabled' = [enabled EXCEPT ![request] = FALSE]
  /\ UNCHANGED << last, sought >>

(* What the failure leaves in the queue served: rest, unless the stream is disabled. *)
Left(rest) == IF got = << >> THEN << >> ELSE rest

(* Mutant: the failure is not noticed, and the loop goes on reading. *)
ReadFailsUnnoticed ==
  /\ request # NoStream
  /\ queue[request] = << >>
  /\ pos \in Positions => ReadErrors
  /\ UNCHANGED vars

(* The end of the file, or an error of av_read_frame. *)
ReadFails ==
  /\ request # NoStream
  /\ queue[request] = << >>
  /\ pos \in Positions => ReadErrors
  /\ CutShort \/ DisableStream
  /\ discontinuous' = [discontinuous EXCEPT ![request] = @ \/ got = << >>]
  /\ Returns
  /\ UNCHANGED << file, pos, queue, startOffset, late >>

(* PopPacket: the packet taken has this outcome. *)
Takes(outcome) ==
  /\ request # NoStream
  /\ queue[request] # << >>
  /\ file[Head(queue[request])].outcome = outcome

(* allowSkip: only before the first packet of a sample is complete. *)
AllowSkip == got = << >>

(* Mutants: one packet fewer is skipped; packets are skipped without end. *)
MayBeSkippedOneLess == AllowSkip /\ skips + 1 < MaxSkips
MayBeSkippedAlways  == AllowSkip

MayBeSkipped == AllowSkip /\ skips < MaxSkips

(* Mutant: a skip leaves no mark. *)
SkipDamagedUnmarked ==
  /\ Takes("damaged")
  /\ MayBeSkipped
  /\ queue' = [queue EXCEPT ![request] = Tail(@)]
  /\ skips' = skips + 1
  /\ UNCHANGED << file, pos, enabled, discontinuous, startOffset, request, got, gotFlag, history >>

SkipDamaged ==
  /\ Takes("damaged")
  /\ MayBeSkipped
  /\ queue' = [queue EXCEPT ![request] = Tail(@)]
  /\ discontinuous' = [discontinuous EXCEPT ![request] = TRUE]
  /\ skips' = skips + 1
  /\ UNCHANGED << file, pos, enabled, startOffset, request, got, gotFlag, history >>

(* S_FALSE counts as a skip where skipping is allowed, and never fails. *)
SkipPartial ==
  /\ Takes("partial")
  /\ queue' = [queue EXCEPT ![request] = Tail(@)]
  /\ discontinuous' = [discontinuous EXCEPT ![request] = TRUE]
  /\ skips' = IF MayBeSkipped THEN skips + 1 ELSE skips
  /\ UNCHANGED << file, pos, enabled, startOffset, request, got, gotFlag, history >>

(* One packet too many is damaged, or one after the first of a sample. *)
TakeDamaged ==
  /\ Takes("damaged")
  /\ ~MayBeSkipped
  /\ CutShort \/ DisableStream
  /\ queue' = [queue EXCEPT ![request] = Left(Tail(@))]
  /\ discontinuous' = [discontinuous EXCEPT ![request] = TRUE]
  /\ Returns
  /\ UNCHANGED << file, pos, startOffset, late >>

(* In some real-time streams the first time is negative; an offset never is. *)
StartTime(i) == IF Pts[i] < 0 THEN 0 ELSE Pts[i]

(* Mutant: the offset is that of the last packet. *)
OffsetMoved(s, i) == StartTime(i)

(* m_startOffset is set by the first packet completed, wherever that is in the file. *)
Offset(s, i) == IF startOffset[s] = NoPts THEN StartTime(i) ELSE startOffset[s]

Completes(s, i) ==
  /\ startOffset' = [startOffset EXCEPT ![s] = Offset(s, i)]
  /\ late' = [late EXCEPT ![s] = @ \/ (startOffset[s] = NoPts /\ sought[s])]

(* WriteAVPacketToStream fails, after the packet has set the offset. *)
TakeUnwritable ==
  /\ Takes("unwritable")
  /\ DisableStream
  /\ Completes(request, Head(queue[request]))
  /\ queue' = [queue EXCEPT ![request] = << >>]
  /\ discontinuous' = [discontinuous EXCEPT ![request] = TRUE]
  /\ Returns
  /\ UNCHANGED << file, pos >>

(* A gathering provider goes on until the sample is long enough. *)
Gather ==
  /\ Takes("ok")
  /\ request \in Gathering /\ Len(got) + 1 < MinPackets
  /\ Completes(request, Head(queue[request]))
  /\ queue' = [queue EXCEPT ![request] = Tail(@)]
  /\ got' = Append(got, Head(queue[request]))
  /\ gotFlag' = IF AllowSkip THEN discontinuous[request] ELSE gotFlag
  /\ UNCHANGED << file, pos, enabled, discontinuous, request, skips, answer, last, sought >>

(* The sample is complete.  A sample made of one packet has its flag from the provider. *)
Deliver ==
  LET s == request
      i == Head(queue[s])
      packets == Append(got, i)
      flag == IF AllowSkip THEN discontinuous[s] ELSE gotFlag
  IN /\ Takes("ok")
     /\ s \in Gathering => Len(packets) >= MinPackets
     /\ Completes(s, i)
     /\ answer' = Answer(s, packets, flag, Pts[packets[1]] - Offset(s, i))
     /\ last' = [last EXCEPT ![s] = i]
     /\ sought' = [sought EXCEPT ![s] = FALSE]
     /\ queue' = [queue EXCEPT ![s] = Tail(@)]
     /\ discontinuous' = [discontinuous EXCEPT ![s] = FALSE]
     /\ Returns
     /\ UNCHANGED << file, pos, enabled >>

-----------------------------------------------------------------------------
(* The pipeline's part: OnStarting takes no lock that would keep it out of a request. *)
MaySeek == Overlap \/ request = NoStream

(***************************************************************************)
(* OnStarting with a position: av_seek_frame goes to a key packet at or    *)
(* before it, or to the end; then every provider is enabled and flushed.   *)
(* When it fails nothing changes, and the pipeline is told otherwise.      *)
(***************************************************************************)

Seek(p) ==
  /\ MaySeek
  /\ pos' = p
  /\ enabled' = [s \in Streams |-> TRUE]
  /\ queue' = [s \in Streams |-> << >>]
  /\ discontinuous' = [s \in Streams |-> TRUE]
  /\ last' = [s \in Streams |-> p - 1]
  /\ sought' = [s \in Streams |-> TRUE]
  /\ answer' = NoAnswer
  /\ UNCHANGED << file, startOffset, serving, late >>

Serve ==
  \/ ReadPacket \/ ReadFails
  \/ SkipDamaged \/ SkipPartial \/ TakeDamaged \/ TakeUnwritable
  \/ Gather \/ Deliver

SeekStep == \E p \in 1 .. FileLength + 1 : Seek(p)

SourceNext ==
  \/ \E s \in Streams : RequestSample(s) \/ RequestEnded(s)
  \/ Serve
  \/ SeekStep

SourceSpec == SourceInit /\ [][SourceNext]_vars

(* A request that holds the mutex runs on. *)
FairSource == SourceSpec /\ WF_vars(Serve)
=============================================================================
