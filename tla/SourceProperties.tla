-------------------------- MODULE SourceProperties --------------------------
(***************************************************************************)
(* What the media stream source must keep to.                              *)
(***************************************************************************)
EXTENDS SampleSource

(* Packet i is one of stream s. *)
Of(s, i) == file[i].stream = s

(***************************************************************************)
(* Every variable keeps its type: a queue holds packets of the file, and   *)
(* what is gathered belongs to a request whose stream has its offset.      *)
(***************************************************************************)
TypeOK ==
  /\ file \in [Positions -> FilePacket]
  /\ pos \in 1 .. FileLength + 1
  /\ queue \in [Streams -> Seq(Positions)]
  /\ enabled \in [Streams -> BOOLEAN]
  /\ discontinuous \in [Streams -> BOOLEAN]
  /\ startOffset \in [Streams -> Nat \cup {NoPts}]
  /\ request \in Streams \cup {NoStream}
  /\ skips \in 0 .. MaxSkips
  /\ got \in Seq(Positions)
  /\ gotFlag \in BOOLEAN
  /\ answer \in [stream : Streams \cup {NoStream}, got : Seq(Positions),
                 discontinuous : BOOLEAN, time : Int]
  /\ last \in [Streams -> 0 .. FileLength]
  /\ sought \in [Streams -> BOOLEAN]
  /\ late \in [Streams -> BOOLEAN]
  /\ got # << >> => request \in Streams /\ startOffset[request] \in Nat

(* The first packet of a stream that its provider has not taken, if it was read at all. *)
Front(s) == IF queue[s] = << >> THEN pos ELSE queue[s][1]

(***************************************************************************)
(* A queue holds packets of its stream in the order of the file, and while *)
(* the stream is enabled all that were read since its first one.  Packets  *)
(* are read by the requests of any stream, dropped for a disabled one and  *)
(* thrown away by failures and seeks (QueuePacket, DisableStream, Flush).  *)
(***************************************************************************)
QueueComplete ==
  \A s \in Streams :
    /\ \A n \in 1 .. Len(queue[s]) : queue[s][n] < pos /\ Of(s, queue[s][n])
    /\ \A m, n \in 1 .. Len(queue[s]) : m < n => queue[s][m] < queue[s][n]
    /\ enabled[s] =>
         \A i \in Front(s) .. pos - 1 :
           Of(s, i) => \E n \in 1 .. Len(queue[s]) : queue[s][n] = i

(***************************************************************************)
(* The queues have no bound (QueuePacket), but packets are read only for   *)
(* an empty queue, so they pile up for one stream at a time.               *)
(***************************************************************************)
OneQueueGrows ==
  \A s, t \in Streams : s # t => Len(queue[s]) <= 1 \/ Len(queue[t]) <= 1

(***************************************************************************)
(* m_startOffset is the time of the first packet a provider completes, or  *)
(* 0 when that is negative, so a sample is never moved later.  If the      *)
(* offset was set before any seek and a stream's stamps ascend, no stamp   *)
(* of 0 or more becomes negative and no negative one is changed, wherever  *)
(* the pipeline seeks and whatever is lost (GetNextPacket).                *)
(***************************************************************************)
Ascending(s) ==
  \A i, j \in Positions : Of(s, i) /\ Of(s, j) /\ i < j => Pts[i] <= Pts[j]

TimesFromStart ==
  answer.got # << >> =>
    LET s == answer.stream
        stamp == Pts[answer.got[1]]
    IN /\ answer.time <= stamp
       /\ Ascending(s) /\ ~late[s] =>
            IF stamp < 0 THEN answer.time = stamp ELSE answer.time >= 0

(***************************************************************************)
(* A stream that is enabled is ended only when it has nothing good left,   *)
(* after more than MaxSkips packets that gave nothing since its last       *)
(* sample, at a packet that cannot be written, or at a read error          *)
(* (GetNextPacket).                                                        *)
(***************************************************************************)
EndsForAReason ==
  [][ \A s \in Streams :
        LET Passed(outcomes) ==
              { i \in last[s] + 1 .. pos - 1 : Of(s, i) /\ file[i].outcome \in outcomes }
        IN request = s /\ request' = NoStream /\ enabled[s] /\ answer' = Ends(s) =>
             \/ ReadErrors /\ pos \in Positions /\ queue[s] = << >>
             \/ \A i \in last[s] + 1 .. FileLength : Of(s, i) => file[i].outcome # "ok"
             \/ Cardinality(Passed({"damaged", "partial"})) > MaxSkips
             \/ Passed({"unwritable"}) # {}
    ]_vars

(***************************************************************************)
(* The samples are those that OrderedSamples promises: in order, gaps and  *)
(* seeks flagged (m_isDiscontinuous), nothing after the end of a stream.   *)
(***************************************************************************)
Promise == INSTANCE OrderedSamples WITH ended <- [s \in Streams |-> ~enabled[s]]
SamplesInOrder == Promise!PromiseSpec

(***************************************************************************)
(* Every request is answered: the loops over broken packets, over frames   *)
(* not yet complete and over the other stream's packets all end, unless    *)
(* the pipeline seeks for ever (OnSampleRequested, and OnStarting, which   *)
(* may come while the request is being served).                            *)
(***************************************************************************)
EveryRequestAnswered ==
  []<><< SeekStep >>_vars \/ (request # NoStream ~> request = NoStream)
=============================================================================
