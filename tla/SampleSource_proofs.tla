------------------------ MODULE SampleSource_proofs ------------------------
(***************************************************************************)
(* Proofs about the media stream source, for every file, set of outcomes,  *)
(* number of skips and length of a sample.                                 *)
(***************************************************************************)
EXTENDS SourceProperties, SequenceTheorems, FiniteSetTheorems, TLAPS

(***************************************************************************)
(* What Head, Tail and Append do to a queue.                               *)
(***************************************************************************)
LEMMA TailFacts ==
  ASSUME NEW S, NEW q \in Seq(S), q # << >>
  PROVE  /\ Head(q) = q[1] /\ q[1] \in S /\ Len(q) \in Nat /\ 1 <= Len(q)
         /\ Tail(q) \in Seq(S) /\ Len(Tail(q)) = Len(q) - 1
         /\ \A n \in 1 .. Len(q) - 1 : Tail(q)[n] = q[n + 1]
  <1>1. Len(q) \in Nat /\ Len(q) >= 1
    BY EmptySeq
  <1>2. Head(q) = q[1]
    OBVIOUS
  <1>3. q[1] \in S
    BY <1>1, ElementOfSeq
  <1> QED BY <1>1, <1>2, <1>3, HeadTailProperties

LEMMA AppendFacts ==
  ASSUME NEW S, NEW q \in Seq(S), NEW x \in S
  PROVE  /\ Append(q, x) \in Seq(S) /\ Len(Append(q, x)) = Len(q) + 1 /\ Len(q) \in Nat
         /\ \A n \in 1 .. Len(q) : Append(q, x)[n] = q[n]
         /\ Append(q, x)[Len(q) + 1] = x
         /\ Append(q, x) # << >>
  BY AppendProperties, LenProperties

(***************************************************************************)
(* Type correctness.                                                       *)
(***************************************************************************)
Answers ==
  [stream : Streams \cup {NoStream}, got : Seq(Positions), discontinuous : BOOLEAN, time : Int]

LEMMA NothingType ==
  /\ << >> \in Seq(Positions) /\ 0 \in 0 .. MaxSkips /\ 0 \in 0 .. FileLength
  /\ \A s \in Streams \cup {NoStream} : Ends(s) \in Answers
  /\ NoAnswer \in Answers
  <1>1. << >> \in Seq(Positions)
    BY EmptySeq
  <1>2. 0 \in 0 .. MaxSkips /\ 0 \in 0 .. FileLength
    BY SourceAssumption
  <1>3. ASSUME NEW s \in Streams \cup {NoStream} PROVE Ends(s) \in Answers
    <2> DEFINE e == << >>
    <2>1. e \in Seq(Positions)
      BY <1>1
    <2>2. Ends(s) = [stream |-> s, got |-> e, discontinuous |-> FALSE, time |-> 0]
      BY DEF Ends, Answer
    <2> HIDE DEF e
    <2> QED BY <2>1, <2>2 DEF Answers
  <1> QED BY <1>1, <1>2, <1>3 DEF NoAnswer

LEMMA ReturnsType ==
  ASSUME Returns
  PROVE  /\ request' \in Streams \cup {NoStream} /\ skips' \in 0 .. MaxSkips
         /\ got' \in Seq(Positions) /\ gotFlag' \in BOOLEAN
         /\ got' = << >>
  BY NothingType DEF Returns

LEMMA TypeInit == SourceInit => TypeOK
  <1> SUFFICES ASSUME SourceInit PROVE TypeOK
    OBVIOUS
  <1>1. answer \in Answers /\ skips \in 0 .. MaxSkips /\ got \in Seq(Positions)
    BY NothingType DEF SourceInit
  <1>2. queue \in [Streams -> Seq(Positions)]
    BY NothingType DEF SourceInit
  <1>3. startOffset \in [Streams -> Nat \cup {NoPts}] /\ last \in [Streams -> 0 .. FileLength]
    BY NothingType DEF SourceInit
  <1>4. pos \in 1 .. FileLength + 1
    BY SourceAssumption DEF SourceInit
  <1> QED BY <1>1, <1>2, <1>3, <1>4 DEF SourceInit, TypeOK, Answers

LEMMA QueuedType ==
  ASSUME TypeOK, NEW i \in Positions
  PROVE  Queued(i) \in [Streams -> Seq(Positions)]
  <1> DEFINE s == file[i].stream
  <1>1. CASE s \in Streams /\ enabled[s]
    <2>1. Append(queue[s], i) \in Seq(Positions)
      BY <1>1 DEF TypeOK
    <2> QED BY <1>1, <2>1 DEF Queued, TypeOK
  <1>2. CASE ~(s \in Streams /\ enabled[s])
    BY <1>2 DEF Queued, TypeOK
  <1> QED BY <1>1, <1>2

LEMMA TakenType ==
  ASSUME TypeOK, NEW outcome, Takes(outcome)
  PROVE  /\ request \in Streams
         /\ queue[request] \in Seq(Positions)
         /\ queue[request] # << >>
         /\ Head(queue[request]) = queue[request][1]
         /\ Head(queue[request]) \in Positions
         /\ Tail(queue[request]) \in Seq(Positions)
         /\ file[Head(queue[request])] \in FilePacket
  <1>1. request \in Streams /\ queue[request] \in Seq(Positions) /\ queue[request] # << >>
    BY DEF TypeOK, Takes
  <1>2. Head(queue[request]) = queue[request][1] /\ queue[request][1] \in Positions
        /\ Tail(queue[request]) \in Seq(Positions)
    BY <1>1, TailFacts
  <1> QED BY <1>1, <1>2 DEF TypeOK

LEMMA CompletesType ==
  ASSUME TypeOK, NEW s \in Streams, NEW i \in Positions, Completes(s, i)
  PROVE  /\ startOffset' \in [Streams -> Nat \cup {NoPts}]
         /\ startOffset'[s] = Offset(s, i)
         /\ late' \in [Streams -> BOOLEAN]
         /\ Offset(s, i) \in Nat
  <1>1. Offset(s, i) \in Nat
    <2>1. Pts[i] \in Int /\ startOffset[s] \in Nat \cup {NoPts}
      BY SourceAssumption DEF TypeOK
    <2> QED BY <2>1 DEF Offset, StartTime
  <1>2. startOffset' \in [Streams -> Nat \cup {NoPts}] /\ startOffset'[s] = Offset(s, i)
    BY <1>1 DEF Completes, TypeOK
  <1>3. late' \in [Streams -> BOOLEAN]
    BY Zenon DEF Completes, TypeOK
  <1> QED BY <1>1, <1>2, <1>3

LEMMA FailureType ==
  ASSUME TypeOK, request \in Streams, CutShort \/ DisableStream
  PROVE  /\ answer' \in Answers
         /\ enabled' \in [Streams -> BOOLEAN]
         /\ last' \in [Streams -> 0 .. FileLength]
         /\ sought' \in [Streams -> BOOLEAN]
  <1>1. CASE CutShort
    <2>1. Len(got) \in Nat /\ Len(got) >= 1 /\ got[1] \in Positions /\ got[Len(got)] \in Positions
      BY <1>1 DEF CutShort, TypeOK
    <2>2. Pts[got[1]] - startOffset[request] \in Int /\ got[Len(got)] \in 0 .. FileLength
      <3> DEFINE stamp == Pts[got[1]]
                 final == got[Len(got)]
                 offset == startOffset[request]
      <3>1. stamp \in Int /\ final \in 1 .. FileLength
        BY <2>1, SourceAssumption DEF Positions
      <3>2. offset \in Nat
        BY <1>1 DEF CutShort, TypeOK
      <3> HIDE DEF stamp, final, offset
      <3>3. stamp - offset \in Int /\ final \in 0 .. FileLength
        BY <3>1, <3>2, SourceAssumption
      <3> QED BY <3>3 DEF stamp, final, offset
    <2>3. answer' \in Answers
      <3> DEFINE time == Pts[got[1]] - startOffset[request]
      <3>1. answer' = [stream |-> request, got |-> got, discontinuous |-> gotFlag, time |-> time]
        BY <1>1 DEF CutShort, Answer
      <3>2. time \in Int
        BY <2>2
      <3> HIDE DEF time
      <3> QED BY <3>1, <3>2 DEF Answers, TypeOK
    <2>4. last' \in [Streams -> 0 .. FileLength]
      BY <1>1, <2>2 DEF CutShort, TypeOK
    <2>5. enabled' \in [Streams -> BOOLEAN] /\ sought' \in [Streams -> BOOLEAN]
      BY <1>1 DEF CutShort, TypeOK
    <2> QED BY <2>3, <2>4, <2>5
  <1>2. CASE DisableStream
    BY <1>2, NothingType DEF DisableStream, TypeOK
  <1> QED BY <1>1, <1>2

LEMMA TypeStep == TypeOK /\ [SourceNext]_vars => TypeOK'
  <1> SUFFICES ASSUME TypeOK, [SourceNext]_vars PROVE TypeOK'
    OBVIOUS
  <1> USE SourceAssumption
  <1>1. ASSUME NEW s \in Streams, RequestSample(s) PROVE TypeOK'
    BY <1>1, NothingType DEF RequestSample, TypeOK, providers, Answers
  <1>2. ASSUME NEW s \in Streams, RequestEnded(s) PROVE TypeOK'
    BY <1>2, NothingType DEF RequestEnded, TypeOK, providers, serving, Answers
  <1>3. CASE ReadPacket
    <2>1. pos' \in 1 .. FileLength + 1
      BY <1>3 DEF ReadPacket, TypeOK, Positions
    <2>2. queue' \in [Streams -> Seq(Positions)]
      BY <1>3, QueuedType DEF ReadPacket
    <2> QED BY <1>3, <2>1, <2>2 DEF ReadPacket, TypeOK, serving, history
  <1>4. CASE ReadFails
    <2>1. request \in Streams
      BY <1>4 DEF ReadFails, TypeOK
    <2>2. discontinuous' \in [Streams -> BOOLEAN]
      BY <1>4, <2>1, Zenon DEF ReadFails, TypeOK
    <2> QED BY <1>4, <2>1, <2>2, FailureType, ReturnsType DEF ReadFails, TypeOK, Answers
  <1>5. CASE SkipDamaged
    <2>1. queue' \in [Streams -> Seq(Positions)] /\ request \in Streams
      BY <1>5, TakenType DEF SkipDamaged, TypeOK
    <2>2. skips' \in 0 .. MaxSkips
      BY <1>5 DEF SkipDamaged, MayBeSkipped, TypeOK
    <2>3. discontinuous' \in [Streams -> BOOLEAN]
      BY <1>5 DEF SkipDamaged, TypeOK
    <2> QED BY <1>5, <2>1, <2>2, <2>3 DEF SkipDamaged, TypeOK, history
  <1>6. CASE SkipPartial
    <2>1. queue' \in [Streams -> Seq(Positions)] /\ request \in Streams
      BY <1>6, TakenType DEF SkipPartial, TypeOK
    <2>2. skips' \in 0 .. MaxSkips
      BY <1>6 DEF SkipPartial, MayBeSkipped, TypeOK
    <2>3. discontinuous' \in [Streams -> BOOLEAN]
      BY <1>6 DEF SkipPartial, TypeOK
    <2> QED BY <1>6, <2>1, <2>2, <2>3 DEF SkipPartial, TypeOK, history
  <1>7. CASE TakeDamaged
    <2>1. request \in Streams /\ Left(Tail(queue[request])) \in Seq(Positions)
      BY <1>7, TakenType DEF TakeDamaged, Left
    <2>2. queue' \in [Streams -> Seq(Positions)]
      BY <1>7, <2>1 DEF TakeDamaged, TypeOK
    <2>3. discontinuous' \in [Streams -> BOOLEAN]
      BY <1>7 DEF TakeDamaged, TypeOK
    <2> QED BY <1>7, <2>1, <2>2, <2>3, FailureType, ReturnsType DEF TakeDamaged, TypeOK, Answers
  <1>8. CASE TakeUnwritable
    <2>1. request \in Streams /\ Head(queue[request]) \in Positions
      BY <1>8, TakenType DEF TakeUnwritable
    <2>2. queue' \in [Streams -> Seq(Positions)] /\ discontinuous' \in [Streams -> BOOLEAN]
      BY <1>8, NothingType DEF TakeUnwritable, TypeOK
    <2>3. startOffset' \in [Streams -> Nat \cup {NoPts}] /\ late' \in [Streams -> BOOLEAN]
      BY <1>8, <2>1, CompletesType DEF TakeUnwritable
    <2> QED BY <1>8, <2>1, <2>2, <2>3, FailureType, ReturnsType DEF TakeUnwritable, TypeOK, Answers
  <1>9. CASE Gather
    <2>1. request \in Streams /\ Head(queue[request]) \in Positions
          /\ Tail(queue[request]) \in Seq(Positions)
      BY <1>9, TakenType DEF Gather
    <2>2. queue' \in [Streams -> Seq(Positions)] /\ got' \in Seq(Positions)
      BY <1>9, <2>1 DEF Gather, TypeOK
    <2>3. startOffset' \in [Streams -> Nat \cup {NoPts}] /\ late' \in [Streams -> BOOLEAN]
      BY <1>9, <2>1, CompletesType DEF Gather
    <2>4. gotFlag' \in BOOLEAN
      BY <1>9, <2>1 DEF Gather, TypeOK
    <2>5. request' = request /\ startOffset'[request] \in Nat
      BY <1>9, <2>1, CompletesType DEF Gather
    <2> QED BY <1>9, <2>1, <2>2, <2>3, <2>4, <2>5 DEF Gather, TypeOK
  <1>10. CASE Deliver
    <2> DEFINE i == Head(queue[request])
               packets == Append(got, i)
               flag == IF AllowSkip THEN discontinuous[request] ELSE gotFlag
               time == Pts[packets[1]] - Offset(request, i)
    <2>1. request \in Streams /\ i \in Positions /\ Tail(queue[request]) \in Seq(Positions)
      BY <1>10, TakenType DEF Deliver
    <2>2. packets \in Seq(Positions) /\ packets # << >> /\ packets[1] \in Positions
      <3>1. got \in Seq(Positions)
        BY DEF TypeOK
      <3>2. packets \in Seq(Positions) /\ packets # << >>
        <4> HIDE DEF i
        <4> QED BY <2>1, <3>1, AppendFacts
      <3> HIDE DEF packets
      <3> QED BY <3>2, TailFacts
    <2>3. Completes(request, i)
      BY <1>10 DEF Deliver
    <2>4. startOffset' \in [Streams -> Nat \cup {NoPts}] /\ late' \in [Streams -> BOOLEAN]
          /\ Offset(request, i) \in Nat
      BY <2>1, <2>3, CompletesType
    <2>5. flag \in BOOLEAN
      BY <2>1 DEF TypeOK
    <2>6. time \in Int
      <3>1. Pts[packets[1]] \in Int
        BY <2>2, SourceAssumption
      <3> QED BY <2>4, <3>1
    <2>7. answer' = Answer(request, packets, flag, time)
      BY <1>10 DEF Deliver
    <2>8. answer' \in Answers
      <3> HIDE DEF packets, flag, time
      <3> QED BY <2>1, <2>2, <2>5, <2>6, <2>7 DEF Answer, Answers
    <2>9. queue' \in [Streams -> Seq(Positions)] /\ discontinuous' \in [Streams -> BOOLEAN]
          /\ sought' \in [Streams -> BOOLEAN]
      BY <1>10, <2>1 DEF Deliver, TypeOK
    <2>10. last' \in [Streams -> 0 .. FileLength]
      <3>1. last' = [last EXCEPT ![request] = i]
        BY <1>10 DEF Deliver
      <3>2. i \in 0 .. FileLength
        BY <2>1 DEF Positions
      <3> HIDE DEF i
      <3> QED BY <2>1, <3>1, <3>2 DEF TypeOK
    <2>11. request' \in Streams \cup {NoStream} /\ skips' \in 0 .. MaxSkips
           /\ got' \in Seq(Positions) /\ gotFlag' \in BOOLEAN /\ got' = << >>
      BY <1>10, ReturnsType DEF Deliver
    <2>12. UNCHANGED << file, pos, enabled >>
      BY <1>10 DEF Deliver
    <2> QED BY <2>4, <2>8, <2>9, <2>10, <2>11, <2>12 DEF TypeOK, Answers
  <1>11. ASSUME NEW p \in 1 .. FileLength + 1, Seek(p) PROVE TypeOK'
    <2>1. p - 1 \in 0 .. FileLength
      OBVIOUS
    <2>2. queue' \in [Streams -> Seq(Positions)] /\ answer' \in Answers
      BY <1>11, NothingType DEF Seek
    <2> QED BY <1>11, <2>1, <2>2 DEF Seek, TypeOK, serving, Answers
  <1>12. CASE UNCHANGED vars
    BY <1>12 DEF vars, providers, serving, history, TypeOK
  <1> QED BY <1>1, <1>2, <1>3, <1>4, <1>5, <1>6, <1>7, <1>8, <1>9, <1>10, <1>11, <1>12
          DEF SourceNext, Serve, SeekStep

(* Every variable keeps its type (TypeOK of SourceProperties). *)
THEOREM SourceTypeCorrect == SourceSpec => []TypeOK
  BY TypeInit, TypeStep, PTL DEF SourceSpec
(***************************************************************************)
(* The queues.  But for reads and seeks, every step leaves the file and    *)
(* the reader alone, and at most shortens a queue.                         *)
(***************************************************************************)
Shortens(s) ==
  /\ \/ queue'[s] = queue[s]
     \/ queue'[s] = << >>
     \/ queue[s] # << >> /\ queue'[s] = Tail(queue[s])
  /\ enabled'[s] => enabled[s]

StandsStill == file' = file /\ pos' = pos /\ \A s \in Streams : Shortens(s)

LEMMA StepKinds ==
  ASSUME TypeOK, [SourceNext]_vars
  PROVE  ReadPacket \/ (\E p \in 1 .. FileLength + 1 : Seek(p)) \/ StandsStill
  <1>1. ASSUME NEW s \in Streams, RequestSample(s) \/ RequestEnded(s) PROVE StandsStill
    BY <1>1 DEF RequestSample, RequestEnded, providers, StandsStill, Shortens
  <1>2. CASE ReadFails
    <2>1. \A s \in Streams : enabled'[s] => enabled[s]
      BY <1>2 DEF ReadFails, CutShort, DisableStream, TypeOK
    <2> QED BY <1>2, <2>1 DEF ReadFails, StandsStill, Shortens
  <1>3. CASE SkipDamaged \/ SkipPartial \/ Gather \/ Deliver
    <2>1. queue' = [queue EXCEPT ![request] = Tail(@)] /\ queue[request] # << >>
          /\ file' = file /\ pos' = pos /\ enabled' = enabled
      BY <1>3 DEF SkipDamaged, SkipPartial, Gather, Deliver, Takes
    <2> QED BY <2>1 DEF StandsStill, Shortens, TypeOK
  <1>4. CASE TakeDamaged
    <2>1. \A s \in Streams : enabled'[s] => enabled[s]
      BY <1>4 DEF TakeDamaged, CutShort, DisableStream, TypeOK
    <2>2. queue' = [queue EXCEPT ![request] = Left(Tail(@))] /\ queue[request] # << >>
      BY <1>4 DEF TakeDamaged, Takes
    <2>3. \A s \in Streams : Shortens(s)
      BY <2>1, <2>2 DEF Shortens, TypeOK, Left
    <2> QED BY <1>4, <2>3 DEF TakeDamaged, StandsStill
  <1>5. CASE TakeUnwritable
    <2>1. \A s \in Streams : enabled'[s] => enabled[s]
      BY <1>5 DEF TakeUnwritable, DisableStream, TypeOK
    <2>2. \A s \in Streams : Shortens(s)
      BY <1>5, <2>1 DEF TakeUnwritable, Shortens, TypeOK
    <2> QED BY <1>5, <2>2 DEF TakeUnwritable, StandsStill
  <1>6. CASE UNCHANGED vars
    BY <1>6 DEF vars, providers, StandsStill, Shortens
  <1> QED BY <1>1, <1>2, <1>3, <1>4, <1>5, <1>6 DEF SourceNext, Serve, SeekStep

(* QueueComplete, for one stream. *)
InQueue(s, i) == \E n \in 1 .. Len(queue[s]) : queue[s][n] = i

QueueOf(s) ==
  /\ \A n \in 1 .. Len(queue[s]) : queue[s][n] < pos /\ Of(s, queue[s][n])
  /\ \A m, n \in 1 .. Len(queue[s]) : m < n => queue[s][m] < queue[s][n]
  /\ enabled[s] => \A i \in Front(s) .. pos - 1 : Of(s, i) => InQueue(s, i)

LEMMA QueueParts == QueueComplete <=> \A s \in Streams : QueueOf(s)
  BY DEF QueueComplete, QueueOf, InQueue

LEMMA EmptyQueueOf ==
  ASSUME NEW s \in Streams, pos \in Nat, queue[s] = << >>
  PROVE  QueueOf(s)
  <1>1. Len(queue[s]) = 0
    OBVIOUS
  <1>2. Front(s) = pos
    BY DEF Front
  <1> QED BY <1>1, <1>2 DEF QueueOf

LEMMA ShortenedQueue ==
  ASSUME TypeOK, NEW s \in Streams, QueueOf(s), file' = file, pos' = pos, Shortens(s)
  PROVE  QueueOf(s)'
  <1> DEFINE q == queue[s]
             r == queue'[s]
  <1>1. q \in Seq(Positions) /\ pos \in Nat
    BY SourceAssumption DEF TypeOK
  <1>2. CASE r = q
    <2>1. Front(s)' = Front(s)
      BY <1>2 DEF Front
    <2> QED BY <1>2, <2>1 DEF QueueOf, Shortens, Of, InQueue
  <1>3. CASE r = << >>
    <2>1. Len(r) = 0 /\ Front(s)' = pos
      BY <1>3 DEF Front
    <2> QED BY <1>1, <2>1 DEF QueueOf
  <1>4. CASE q # << >> /\ r = Tail(q)
    <2>1. /\ Len(q) \in Nat /\ 1 <= Len(q) /\ r \in Seq(Positions) /\ Len(r) = Len(q) - 1
          /\ \A n \in 1 .. Len(q) - 1 : r[n] = q[n + 1]
      BY <1>1, <1>4, TailFacts
    <2>2. \A n \in 1 .. Len(r) : n + 1 \in 1 .. Len(q) /\ r[n] = q[n + 1]
      BY <2>1
    <2>3. \A n \in 1 .. Len(r) : r[n] < pos /\ Of(s, r[n])
      BY <2>2 DEF QueueOf
    <2>4. ASSUME NEW m \in 1 .. Len(r), NEW n \in 1 .. Len(r), m < n PROVE r[m] < r[n]
      BY <2>2, <2>4 DEF QueueOf
    <2>5. ASSUME enabled'[s], r # << >>, NEW i \in r[1] .. pos - 1, Of(s, i)
          PROVE  \E n \in 1 .. Len(r) : r[n] = i
      <3>1. 1 \in 1 .. Len(r) /\ r[1] \in Positions
        BY <2>1, <2>5, TailFacts
      <3>2. q[1] \in Positions /\ q[1] < q[2] /\ r[1] = q[2] /\ 1 \in 1 .. Len(q)
        <4>1. 1 \in 1 .. Len(q) /\ 2 \in 1 .. Len(q) /\ 1 < 2 /\ r[1] = q[1 + 1]
          BY <2>1, <3>1
        <4>2. q[1] < q[2]
          BY <4>1 DEF QueueOf
        <4> QED BY <1>1, <1>4, <4>1, <4>2, TailFacts
      <3>3. i \in q[1] .. pos - 1 /\ i # q[1]
        BY <3>1, <3>2 DEF Positions
      <3>4. Front(s) = q[1]
        BY <1>4 DEF Front
      <3>5. PICK n \in 1 .. Len(q) : q[n] = i
        BY <2>5, <3>3, <3>4 DEF QueueOf, InQueue, Shortens
      <3>6. n - 1 \in 1 .. Len(r)
        BY <2>1, <3>3, <3>5
      <3>7. r[n - 1] = q[(n - 1) + 1] /\ (n - 1) + 1 = n
        BY <2>2, <3>6
      <3> QED BY <3>5, <3>6, <3>7
    <2>6. r = << >> => QueueOf(s)'
      <3>1. ASSUME r = << >> PROVE Len(r) = 0 /\ Front(s)' = pos
        BY <3>1 DEF Front
      <3> QED BY <1>1, <3>1 DEF QueueOf
    <2>7. r # << >> => Front(s)' = r[1]
      BY DEF Front
    <2> QED BY <2>3, <2>4, <2>5, <2>6, <2>7 DEF QueueOf, InQueue, Of
  <1> QED BY <1>2, <1>3, <1>4 DEF Shortens

(* What a read does to the queue of one stream. *)
LEMMA ReadKinds ==
  ASSUME TypeOK, ReadPacket, NEW s \in Streams
  PROVE  \/ enabled[s] /\ Of(s, pos) /\ queue'[s] = Append(queue[s], pos)
         \/ ~(enabled[s] /\ Of(s, pos)) /\ queue'[s] = queue[s]
  BY DEF TypeOK, ReadPacket, Queued, Of

LEMMA LongerQueue ==
  ASSUME TypeOK, NEW s \in Streams, QueueOf(s), ReadPacket
  PROVE  QueueOf(s)'
  <1> DEFINE q == queue[s]
             r == queue'[s]
  <1>1. q \in Seq(Positions) /\ Len(q) \in Nat /\ pos \in Positions /\ pos' = pos + 1
        /\ file' = file /\ enabled' = enabled /\ pos \in Nat
    BY DEF TypeOK, ReadPacket, Positions
  <1>2. CASE enabled[s] /\ Of(s, pos) /\ r = Append(q, pos)
    <2>1. /\ Len(r) = Len(q) + 1 /\ r[Len(q) + 1] = pos /\ r # << >>
          /\ \A n \in 1 .. Len(q) : r[n] = q[n]
      BY <1>1, <1>2, AppendFacts
    <2>2. ASSUME NEW n \in 1 .. Len(r) PROVE r[n] < pos + 1 /\ Of(s, r[n])
      <3>1. CASE n = Len(q) + 1
        BY <1>1, <1>2, <2>1, <3>1
      <3>2. CASE n \in 1 .. Len(q)
        <4>1. r[n] = q[n] /\ q[n] \in Positions /\ q[n] < pos /\ Of(s, q[n])
          BY <1>1, <2>1, <3>2, ElementOfSeq DEF QueueOf
        <4> QED BY <1>1, <4>1 DEF Positions
      <3> QED BY <1>1, <2>1, <3>1, <3>2
    <2>3. ASSUME NEW m \in 1 .. Len(r), NEW n \in 1 .. Len(r), m < n PROVE r[m] < r[n]
      <3>1. m \in 1 .. Len(q)
        BY <1>1, <2>1, <2>3
      <3>2. CASE n = Len(q) + 1
        BY <2>1, <3>1, <3>2 DEF QueueOf
      <3>3. CASE n \in 1 .. Len(q)
        BY <2>1, <2>3, <3>1, <3>3 DEF QueueOf
      <3> QED BY <1>1, <2>1, <3>2, <3>3
    <2>4. ASSUME NEW i \in Front(s)' .. pos, Of(s, i) PROVE \E n \in 1 .. Len(r) : r[n] = i
      <3>1. CASE i = pos
        BY <1>1, <2>1, <3>1
      <3>2. CASE i # pos
        <4>1. CASE q = << >>
          <5>1. Front(s)' = r[1] /\ Len(q) = 0
            BY <2>1, <4>1 DEF Front
          <5> QED BY <1>1, <2>1, <2>4, <3>2, <5>1
        <4>2. CASE q # << >>
          <5>1. Front(s)' = q[1] /\ Front(s) = q[1] /\ q[1] \in Positions
            BY <1>1, <2>1, <4>2, TailFacts DEF Front
          <5>2. i \in Front(s) .. pos - 1
            BY <1>1, <2>4, <3>2, <5>1 DEF Positions
          <5>3. PICK n \in 1 .. Len(q) : q[n] = i
            BY <1>2, <2>4, <5>2 DEF QueueOf, InQueue
          <5> QED BY <1>1, <2>1, <5>3
        <4> QED BY <4>1, <4>2
      <3> QED BY <3>1, <3>2
    <2>5. pos' - 1 = pos
      BY <1>1
    <2> QED BY <1>1, <2>2, <2>3, <2>4, <2>5 DEF QueueOf, InQueue, Of
  <1>3. CASE ~(enabled[s] /\ Of(s, pos)) /\ r = q
    <2>1. ASSUME NEW n \in 1 .. Len(q) PROVE q[n] < pos + 1 /\ Of(s, q[n])
      <3>1. q[n] \in Positions /\ q[n] < pos /\ Of(s, q[n])
        BY <1>1, ElementOfSeq DEF QueueOf
      <3> QED BY <1>1, <3>1 DEF Positions
    <2>2. ASSUME enabled[s], NEW i \in Front(s)' .. pos, Of(s, i) PROVE InQueue(s, i)
      <3>1. i # pos
        BY <1>3, <2>2
      <3>2. CASE q = << >>
        <4>1. Front(s)' = pos + 1
          BY <1>1, <1>3, <3>2 DEF Front
        <4> QED BY <1>1, <2>2, <4>1
      <3>3. CASE q # << >>
        <4>1. Front(s)' = q[1] /\ Front(s) = q[1] /\ q[1] \in Positions
          BY <1>1, <1>3, <3>3, TailFacts DEF Front
        <4>2. i \in Front(s) .. pos - 1
          BY <1>1, <2>2, <3>1, <4>1 DEF Positions
        <4> QED BY <2>2, <4>2 DEF QueueOf
      <3> QED BY <3>2, <3>3
    <2>3. pos' - 1 = pos
      BY <1>1
    <2> QED BY <1>1, <1>3, <2>1, <2>2, <2>3 DEF QueueOf, InQueue, Of
  <1> QED BY <1>2, <1>3, ReadKinds

LEMMA QueueInit == SourceInit => QueueComplete
  <1> SUFFICES ASSUME SourceInit, NEW s \in Streams PROVE QueueOf(s)
    BY QueueParts
  <1> QED BY EmptyQueueOf DEF SourceInit

LEMMA QueueStep == TypeOK /\ QueueComplete /\ [SourceNext]_vars => QueueComplete'
  <1> SUFFICES ASSUME TypeOK, QueueComplete, [SourceNext]_vars, NEW s \in Streams
               PROVE  QueueOf(s)'
    BY DEF QueueComplete, QueueOf, InQueue
  <1>1. QueueOf(s)
    BY QueueParts
  <1>2. CASE ReadPacket
    BY <1>1, <1>2, LongerQueue
  <1>3. ASSUME NEW p \in 1 .. FileLength + 1, Seek(p) PROVE QueueOf(s)'
    <2>1. pos' = p /\ p \in Nat /\ queue'[s] = << >>
      BY <1>3 DEF Seek
    <2>2. Len(queue'[s]) = 0 /\ Front(s)' = p
      BY <2>1 DEF Front
    <2> QED BY <2>1, <2>2 DEF QueueOf
  <1>4. CASE StandsStill
    BY <1>1, <1>4, ShortenedQueue DEF StandsStill
  <1> QED BY <1>2, <1>3, <1>4, StepKinds

(***************************************************************************)
(* A queue holds what was read of its stream, in order (QueueComplete of   *)
(* SourceProperties): QueuePacket, PopPacket, DisableStream and Flush,     *)
(* whichever streams ask for samples and in whatever order.                *)
(***************************************************************************)
THEOREM QueuesComplete == SourceSpec => []QueueComplete
  BY TypeInit, TypeStep, QueueInit, QueueStep, PTL DEF SourceSpec
(***************************************************************************)
(* Packets pile up for one stream at a time.                               *)
(***************************************************************************)
LEMMA ShorterLength ==
  ASSUME TypeOK, NEW s \in Streams, Shortens(s)
  PROVE  Len(queue'[s]) <= Len(queue[s])
  <1>1. queue[s] \in Seq(Positions) /\ Len(queue[s]) \in Nat
    BY LenProperties DEF TypeOK
  <1>2. CASE queue'[s] = << >>
    <2>1. Len(queue'[s]) = 0
      BY <1>2
    <2> QED BY <1>1, <2>1
  <1>3. CASE queue[s] # << >> /\ queue'[s] = Tail(queue[s])
    BY <1>1, <1>3, TailFacts
  <1> QED BY <1>1, <1>2, <1>3 DEF Shortens

LEMMA GrowsInit == SourceInit => OneQueueGrows
  <1> SUFFICES ASSUME SourceInit, NEW s \in Streams PROVE Len(queue[s]) <= 1
    BY DEF OneQueueGrows
  <1>1. Len(queue[s]) = 0
    BY DEF SourceInit
  <1> QED BY <1>1

LEMMA GrowsStep == TypeOK /\ OneQueueGrows /\ [SourceNext]_vars => OneQueueGrows'
  <1> SUFFICES ASSUME TypeOK, OneQueueGrows, [SourceNext]_vars,
                      NEW s \in Streams, NEW t \in Streams, s # t
               PROVE  Len(queue'[s]) <= 1 \/ Len(queue'[t]) <= 1
    BY DEF OneQueueGrows
  <1>1. /\ queue[s] \in Seq(Positions) /\ Len(queue[s]) \in Nat
        /\ queue[t] \in Seq(Positions) /\ Len(queue[t]) \in Nat
    BY LenProperties DEF TypeOK
  <1>2. CASE ReadPacket
    <2>1. request \in Streams /\ queue[request] = << >> /\ pos \in Positions
      BY <1>2 DEF ReadPacket, TypeOK
    <2>2. request = s \/ request = t
      BY <2>1, SourceAssumption
    <2>3. ASSUME NEW u \in Streams, queue[u] = << >> PROVE Len(queue'[u]) <= 1
      <3>1. Len(queue[u]) = 0 /\ queue[u] \in Seq(Positions)
        BY <2>3 DEF TypeOK
      <3>2. CASE queue'[u] = Append(queue[u], pos)
        <4>1. Len(queue'[u]) = Len(queue[u]) + 1
          BY <2>1, <3>1, <3>2, AppendFacts
        <4> QED BY <3>1, <4>1
      <3>3. CASE queue'[u] = queue[u]
        BY <3>1, <3>3
      <3> QED BY <1>2, <3>2, <3>3, ReadKinds
    <2> QED BY <2>1, <2>2, <2>3
  <1>3. ASSUME NEW p \in 1 .. FileLength + 1, Seek(p) PROVE Len(queue'[s]) <= 1
    <2>1. Len(queue'[s]) = 0
      BY <1>3 DEF Seek
    <2> QED BY <2>1
  <1>4. CASE StandsStill
    <2>1. Len(queue'[s]) <= Len(queue[s]) /\ Len(queue'[t]) <= Len(queue[t])
      BY <1>4, ShorterLength DEF StandsStill
    <2>2. Len(queue'[s]) \in Nat /\ Len(queue'[t]) \in Nat
      <3>1. TypeOK'
        BY TypeStep
      <3>2. queue'[s] \in Seq(Positions) /\ queue'[t] \in Seq(Positions)
        BY <3>1 DEF TypeOK
      <3> QED BY <3>2, LenProperties
    <2>3. Len(queue[s]) <= 1 \/ Len(queue[t]) <= 1
      BY DEF OneQueueGrows
    <2> QED BY <1>1, <2>1, <2>2, <2>3
  <1> QED BY <1>2, <1>3, <1>4, StepKinds

(***************************************************************************)
(* Packets are read ahead for one stream at a time (OneQueueGrows of       *)
(* SourceProperties), for ReadPacket is called for an empty queue only.    *)
(***************************************************************************)
THEOREM OneQueueOnly == SourceSpec => []OneQueueGrows
  BY TypeInit, TypeStep, GrowsInit, GrowsStep, PTL DEF SourceSpec

(***************************************************************************)
(* How the front of a stream moves: past one packet taken, or past packets *)
(* that were read and are not of the stream.                               *)
(***************************************************************************)
LEMMA FrontType ==
  ASSUME TypeOK, NEW s \in Streams
  PROVE  Front(s) \in 1 .. FileLength + 1
  <1>1. queue[s] \in Seq(Positions) /\ pos \in 1 .. FileLength + 1
    BY DEF TypeOK
  <1>2. CASE queue[s] # << >>
    <2>1. Front(s) \in Positions
      BY <1>1, <1>2, TailFacts DEF Front
    <2> QED BY <2>1, SourceAssumption DEF Positions
  <1> QED BY <1>1, <1>2 DEF Front

LEMMA FrontTaken ==
  ASSUME TypeOK, NEW s \in Streams, QueueOf(s), enabled[s],
         queue[s] # << >>, queue'[s] = Tail(queue[s]), pos' = pos
  PROVE  /\ Front(s) = Head(queue[s]) /\ Front(s) \in Positions /\ Of(s, Front(s))
         /\ Front(s)' \in Nat /\ Front(s) < Front(s)'
         /\ \A k \in Front(s) + 1 .. Front(s)' - 1 : ~Of(s, k)
  <1> DEFINE q == queue[s]
             r == queue'[s]
  <1>1. /\ q \in Seq(Positions) /\ Len(q) \in Nat /\ 1 <= Len(q)
        /\ r \in Seq(Positions) /\ Len(r) = Len(q) - 1 /\ Head(q) = q[1] /\ q[1] \in Positions
        /\ \A n \in 1 .. Len(q) - 1 : r[n] = q[n + 1]
    BY TailFacts DEF TypeOK
  <1>2. Front(s) = q[1] /\ pos \in Nat /\ q[1] \in Nat /\ 1 \in 1 .. Len(q)
    BY <1>1 DEF Front, TypeOK, Positions
  <1>3. Of(s, q[1]) /\ q[1] < pos
    BY <1>2 DEF QueueOf
  <1>4. CASE r = << >>
    <2>1. Len(r) = 0 /\ Front(s)' = pos
      BY <1>4 DEF Front
    <2>2. ASSUME NEW k \in q[1] + 1 .. pos - 1, Of(s, k) PROVE FALSE
      <3>1. k \in Front(s) .. pos - 1
        BY <1>2
      <3>2. PICK n \in 1 .. Len(q) : q[n] = k
        BY <2>2, <3>1 DEF QueueOf, InQueue
      <3> QED BY <1>1, <1>2, <2>1, <2>2, <3>2
    <2> QED BY <1>1, <1>2, <1>3, <2>1, <2>2
  <1>5. CASE r # << >>
    <2>1. Front(s)' = r[1] /\ 1 <= Len(r) /\ r[1] \in Positions
      BY <1>1, <1>5, TailFacts DEF Front
    <2>2. r[1] = q[1 + 1] /\ 2 \in 1 .. Len(q) /\ 1 + 1 = 2 /\ 1 < 2
      BY <1>1, <2>1
    <2>3. q[1] < q[2] /\ q[2] < pos /\ r[1] = q[2]
      BY <1>2, <2>2 DEF QueueOf
    <2>4. ASSUME NEW k \in q[1] + 1 .. q[2] - 1, Of(s, k) PROVE FALSE
      <3>1. k \in Front(s) .. pos - 1
        BY <1>2, <2>1, <2>3 DEF Positions
      <3>2. PICK n \in 1 .. Len(q) : q[n] = k
        BY <2>4, <3>1 DEF QueueOf, InQueue
      <3>3. n = 1 \/ n = 2 \/ 2 < n
        BY <3>2
      <3>4. 2 < n => q[2] < q[n]
        BY <2>2 DEF QueueOf
      <3> QED BY <1>2, <2>1, <2>3, <2>4, <3>2, <3>3, <3>4 DEF Positions
    <2> QED BY <1>1, <1>2, <1>3, <2>1, <2>3, <2>4 DEF Positions
  <1> QED BY <1>4, <1>5

LEMMA FrontRead ==
  ASSUME TypeOK, NEW s \in Streams, QueueOf(s), enabled[s], ReadPacket
  PROVE  /\ Front(s)' \in Nat /\ Front(s) <= Front(s)'
         /\ \A k \in Front(s) .. Front(s)' - 1 : ~Of(s, k)
  <1> DEFINE q == queue[s]
             r == queue'[s]
  <1>1. q \in Seq(Positions) /\ Len(q) \in Nat /\ pos \in Positions /\ pos \in Nat /\ pos' = pos + 1
    BY DEF TypeOK, ReadPacket, Positions
  <1>2. CASE Of(s, pos) /\ r = Append(q, pos)
    <2>1. r # << >> /\ r[Len(q) + 1] = pos /\ \A n \in 1 .. Len(q) : r[n] = q[n]
      BY <1>1, <1>2, AppendFacts
    <2>2. Front(s)' = r[1]
      BY <2>1 DEF Front
    <2>3. CASE q = << >>
      <3>1. Len(q) = 0 /\ Front(s) = pos
        BY <2>3 DEF Front
      <3> QED BY <1>1, <2>1, <2>2, <3>1
    <2>4. CASE q # << >>
      <3>1. Front(s) = q[1] /\ r[1] = q[1] /\ q[1] \in Positions
        BY <1>1, <2>1, <2>4, TailFacts DEF Front
      <3> QED BY <2>2, <3>1 DEF Positions
    <2> QED BY <2>3, <2>4
  <1>3. CASE ~Of(s, pos) /\ r = q
    <2>1. CASE q = << >>
      <3>1. Front(s) = pos /\ Front(s)' = pos + 1
        BY <1>1, <1>3, <2>1 DEF Front
      <3> QED BY <1>1, <1>3, <3>1
    <2>2. CASE q # << >>
      <3>1. Front(s) = q[1] /\ Front(s)' = q[1] /\ q[1] \in Positions
        BY <1>1, <1>3, <2>2, TailFacts DEF Front
      <3> QED BY <3>1 DEF Positions
    <2> QED BY <2>1, <2>2
  <1> QED BY <1>2, <1>3, ReadKinds
(***************************************************************************)
(* The start offset.  Until it is set, a stream that was never sought has  *)
(* passed nothing but broken packets; what sets it is the next packet.     *)
(***************************************************************************)
NothingBefore(s, j) ==
  \A k \in 1 .. j - 1 : Of(s, k) => file[k].outcome \in { "damaged", "partial" }

(* The offset is the start time of the first packet of the stream that was not broken. *)
StartedBy(s, offset) ==
  \E i \in Positions : Of(s, i) /\ NothingBefore(s, i) /\ offset = StartTime(i)

StartOf(s) ==
  /\ startOffset[s] # NoPts /\ ~late[s] => StartedBy(s, startOffset[s])
  /\ startOffset[s] = NoPts /\ ~sought[s] /\ enabled[s] => NothingBefore(s, Front(s))

DisabledEmpty(s) == ~enabled[s] => queue[s] = << >>

Gathered ==
  /\ request = NoStream => got = << >>
  /\ got # << >> =>
       /\ startOffset[request] # NoPts
       /\ \A n \in 1 .. Len(got) : Of(request, got[n]) /\ file[got[n]].outcome = "ok"

StartInv ==
  /\ \A s \in Streams : StartOf(s)
  /\ \A s \in Streams : DisabledEmpty(s)
  /\ Gathered
  /\ TimesFromStart

LEMMA StartInit == SourceInit => StartInv
  <1> SUFFICES ASSUME SourceInit PROVE StartInv
    OBVIOUS
  <1>1. TimesFromStart
    BY DEF SourceInit, NoAnswer, Ends, Answer, TimesFromStart
  <1>2. ASSUME NEW s \in Streams PROVE StartOf(s) /\ DisabledEmpty(s)
    <2>1. Front(s) = 1 /\ startOffset[s] = NoPts
      BY DEF SourceInit, Front
    <2> QED BY <2>1 DEF SourceInit, StartOf, DisabledEmpty, NothingBefore
  <1> QED BY <1>1, <1>2 DEF SourceInit, StartInv, Gathered

LEMMA DisabledStep ==
  ASSUME TypeOK, [SourceNext]_vars, NEW s \in Streams, DisabledEmpty(s)
  PROVE  DisabledEmpty(s)'
  <1>1. ASSUME NEW t \in Streams, RequestSample(t) \/ RequestEnded(t) PROVE DisabledEmpty(s)'
    BY <1>1 DEF RequestSample, RequestEnded, providers, DisabledEmpty
  <1>2. CASE ReadPacket
    BY <1>2, ReadKinds DEF ReadPacket, DisabledEmpty
  <1>3. CASE ReadFails
    BY <1>3 DEF ReadFails, CutShort, DisableStream, DisabledEmpty, TypeOK
  <1>4. CASE SkipDamaged \/ SkipPartial \/ Gather \/ Deliver
    <2>1. queue' = [queue EXCEPT ![request] = Tail(@)] /\ queue[request] # << >>
          /\ enabled' = enabled
      BY <1>4 DEF SkipDamaged, SkipPartial, Gather, Deliver, Takes
    <2> QED BY <2>1 DEF DisabledEmpty, TypeOK
  <1>5. CASE TakeDamaged
    <2>1. queue' = [queue EXCEPT ![request] = Left(Tail(@))] /\ queue[request] # << >>
      BY <1>5 DEF TakeDamaged, Takes
    <2>2. CASE CutShort
      BY <2>1, <2>2 DEF CutShort, DisabledEmpty, TypeOK
    <2>3. CASE DisableStream
      BY <2>1, <2>3 DEF DisableStream, Left, DisabledEmpty, TypeOK
    <2> QED BY <1>5, <2>2, <2>3 DEF TakeDamaged
  <1>6. CASE TakeUnwritable
    BY <1>6 DEF TakeUnwritable, DisableStream, DisabledEmpty, TypeOK
  <1>7. ASSUME NEW p \in 1 .. FileLength + 1, Seek(p) PROVE DisabledEmpty(s)'
    BY <1>7 DEF Seek, DisabledEmpty
  <1>8. CASE UNCHANGED vars
    BY <1>8 DEF vars, providers, DisabledEmpty
  <1> QED BY <1>1, <1>2, <1>3, <1>4, <1>5, <1>6, <1>7, <1>8 DEF SourceNext, Serve, SeekStep

(* The packet that is taken is the front of its stream. *)
LEMMA TakenFront ==
  ASSUME TypeOK, QueueComplete, NEW outcome, Takes(outcome)
  PROVE  /\ request \in Streams /\ Head(queue[request]) \in Positions
         /\ Front(request) = Head(queue[request])
         /\ Of(request, Front(request)) /\ file[Front(request)].outcome = outcome
  <1>1. request \in Streams /\ queue[request] \in Seq(Positions) /\ queue[request] # << >>
        /\ Head(queue[request]) = queue[request][1] /\ Head(queue[request]) \in Positions
    BY TakenType
  <1>2. 1 \in 1 .. Len(queue[request])
    BY <1>1, TailFacts
  <1> QED BY <1>1, <1>2 DEF QueueComplete, Front, Takes

(* A sample counts from the start of its stream. *)
LEMMA NewTime ==
  ASSUME NEW s \in Streams, NEW packets, NEW flag, NEW offset \in Nat,
         packets[1] \in Positions, Of(s, packets[1]), file[packets[1]].outcome = "ok",
         ~late'[s] => StartedBy(s, offset), file' = file,
         answer' = [stream |-> s, got |-> packets, discontinuous |-> flag,
                    time |-> Pts[packets[1]] - offset]
  PROVE  TimesFromStart'
  <1> DEFINE g == packets[1]
             stamp == Pts[g]
  <1>1. stamp \in Int
    BY SourceAssumption
  <1>2. ASSUME Ascending(s), ~late'[s]
        PROVE  IF stamp < 0 THEN stamp - offset = stamp ELSE stamp - offset >= 0
    <2>1. PICK i \in Positions : Of(s, i) /\ NothingBefore(s, i) /\ offset = StartTime(i)
      BY <1>2 DEF StartedBy
    <2>2. i <= g
      BY <2>1 DEF NothingBefore, Positions
    <2>3. Pts[i] <= stamp /\ Pts[i] \in Int
      <3>1. Pts[i] \in Int
        BY SourceAssumption
      <3>2. CASE i = g
        BY <1>1, <3>2
      <3>3. CASE i # g
        BY <1>2, <2>1, <2>2, <3>1, <3>3 DEF Ascending, Positions
      <3> QED BY <3>1, <3>2, <3>3
    <2> QED BY <1>1, <2>1, <2>3 DEF StartTime
  <1>3. stamp - offset <= stamp
    BY <1>1
  <1>4. answer'.got = packets /\ answer'.stream = s /\ answer'.time = stamp - offset
    <2> DEFINE time == stamp - offset
    <2>1. answer' = [stream |-> s, got |-> packets, discontinuous |-> flag, time |-> time]
      OBVIOUS
    <2> HIDE DEF time
    <2>2. answer'.got = packets /\ answer'.stream = s /\ answer'.time = time
      BY <2>1
    <2> QED BY <2>2 DEF time
  <1>5. Ascending(s)' <=> Ascending(s)
    BY DEF Ascending, Of
  <1> QED BY <1>2, <1>3, <1>4, <1>5 DEF TimesFromStart

LEMMA SameTime ==
  ASSUME TimesFromStart, file' = file, answer' = answer,
         ~late'[answer.stream] => ~late[answer.stream]
  PROVE  TimesFromStart'
  BY DEF TimesFromStart, Ascending, Of

LEMMA NoTime ==
  ASSUME answer'.got = << >>
  PROVE  TimesFromStart'
  BY DEF TimesFromStart

(* A packet completes: it sets the offset, or leaves it as it is. *)
LEMMA StartCompletes ==
  ASSUME TypeOK, QueueComplete, StartInv, Takes("ok") \/ Takes("unwritable"),
         Completes(request, Head(queue[request])), file' = file,
         NEW s \in Streams,
         s # request => enabled'[s] = enabled[s] /\ sought'[s] = sought[s] /\ Front(s)' = Front(s)
  PROVE  /\ StartOf(s)'
         /\ startOffset'[request] # NoPts
         /\ ~late'[request] => StartedBy(request, startOffset'[request])
         /\ startOffset'[request] = Offset(request, Head(queue[request]))
  <1> DEFINE i == Head(queue[request])
  <1>1. request \in Streams /\ i \in Positions /\ Front(request) = i /\ queue[request] # << >>
    BY TakenFront DEF Takes
  <1>2. startOffset'[request] = Offset(request, i) /\ Offset(request, i) # NoPts
    BY <1>1, CompletesType, SourceAssumption
  <1>3. ~late'[request] => StartedBy(request, startOffset'[request])
    <2> SUFFICES ASSUME ~late'[request] PROVE StartedBy(request, startOffset'[request])
      OBVIOUS
    <2>1. late'[request] = (late[request] \/ (startOffset[request] = NoPts /\ sought[request]))
      BY <1>1, Zenon DEF Completes, TypeOK
    <2>2. enabled[request]
      BY <1>1 DEF StartInv, DisabledEmpty
    <2>3. StartOf(request)
      BY <1>1 DEF StartInv
    <2>4. CASE startOffset[request] = NoPts
      <3>1. NothingBefore(request, i) /\ Of(request, i) /\ Offset(request, i) = StartTime(i)
        BY <1>1, <2>1, <2>2, <2>3, <2>4, TakenFront DEF StartOf, Offset
      <3> QED BY <1>1, <1>2, <3>1 DEF StartedBy
    <2>5. CASE startOffset[request] # NoPts
      BY <1>2, <2>1, <2>3, <2>5 DEF StartOf, Offset
    <2> QED BY <2>4, <2>5
  <1>4. CASE s = request
    BY <1>2, <1>3, <1>4 DEF StartOf, StartedBy, NothingBefore, Of
  <1>5. CASE s # request
    <2>1. startOffset'[s] = startOffset[s] /\ late'[s] = late[s]
      BY <1>1, <1>5 DEF Completes, TypeOK
    <2>2. StartOf(s)
      BY DEF StartInv
    <2>3. enabled'[s] = enabled[s] /\ sought'[s] = sought[s] /\ Front(s)' = Front(s)
      BY <1>5
    <2>4. ASSUME startOffset'[s] # NoPts, ~late'[s] PROVE StartedBy(s, startOffset[s])'
      BY <2>1, <2>2, <2>4 DEF StartOf, StartedBy, NothingBefore, Of
    <2>5. ASSUME startOffset'[s] = NoPts, ~sought'[s], enabled'[s] PROVE NothingBefore(s, Front(s))'
      BY <2>1, <2>2, <2>3, <2>5 DEF StartOf, NothingBefore, Of
    <2>6. StartOf(s)'
      BY <2>4, <2>5 DEF StartOf
    <2> QED BY <1>2, <1>3, <2>6
  <1> QED BY <1>2, <1>3, <1>4, <1>5
(* Nothing completes, and the front stays or passes what is broken or not of the stream. *)
LEMMA StartWaits ==
  ASSUME TypeOK, NEW s \in Streams, StartOf(s), file' = file,
         startOffset'[s] = startOffset[s], late'[s] = late[s], enabled'[s] => enabled[s],
         startOffset[s] = NoPts => sought'[s] = sought[s],
         enabled'[s] => /\ Front(s)' \in Nat /\ Front(s) <= Front(s)'
                        /\ \A k \in Front(s) .. Front(s)' - 1 :
                             Of(s, k) => file[k].outcome \in { "damaged", "partial" }
  PROVE  StartOf(s)'
  <1>1. ASSUME startOffset'[s] # NoPts, ~late'[s] PROVE StartedBy(s, startOffset[s])'
    BY <1>1 DEF StartOf, StartedBy, NothingBefore, Of
  <1>2. ASSUME startOffset'[s] = NoPts, ~sought'[s], enabled'[s] PROVE NothingBefore(s, Front(s))'
    <2>1. NothingBefore(s, Front(s)) /\ Front(s) \in Nat
      BY <1>2, FrontType DEF StartOf
    <2>2. ASSUME NEW k \in 1 .. Front(s)' - 1, Of(s, k)
          PROVE  file[k].outcome \in { "damaged", "partial" }
      BY <1>2, <2>1, <2>2 DEF NothingBefore
    <2> QED BY <2>2 DEF NothingBefore, Of
  <1> QED BY <1>1, <1>2 DEF StartOf

(* A sample cut short, or the end of the stream. *)
LEMMA StartFails ==
  ASSUME TypeOK, StartInv, request \in Streams, CutShort \/ DisableStream, late' = late,
         file' = file, startOffset' = startOffset, Returns
  PROVE  Gathered' /\ TimesFromStart' /\ \A s \in Streams :
           startOffset[s] = NoPts => sought'[s] = sought[s]
  <1>1. Gathered'
    BY DEF Returns, Gathered
  <1>2. CASE DisableStream
    <2>1. answer' = Ends(request)
      BY <1>2 DEF DisableStream
    <2> QED BY <1>1, <1>2, <2>1 DEF DisableStream, Ends, Answer, TimesFromStart
  <1>3. CASE CutShort
    <2> DEFINE time == Pts[got[1]] - startOffset[request]
    <2>1. answer' = [stream |-> request, got |-> got, discontinuous |-> gotFlag, time |-> time]
      BY <1>3 DEF CutShort, Answer
    <2>2. got \in Seq(Positions) /\ got # << >> /\ startOffset[request] # NoPts
      BY <1>3 DEF CutShort, TypeOK, StartInv, Gathered
    <2>3. got[1] \in Positions /\ 1 \in 1 .. Len(got)
      BY <2>2, TailFacts
    <2>4. Of(request, got[1]) /\ file[got[1]].outcome = "ok"
      BY <2>2, <2>3 DEF StartInv, Gathered
    <2>5. ~late'[request] => StartedBy(request, startOffset[request])
      BY <2>2 DEF StartInv, StartOf
    <2>6. TimesFromStart'
      <3>1. startOffset[request] \in Nat
        BY <2>2 DEF TypeOK
      <3> QED BY <2>1, <2>3, <2>4, <2>5, <3>1, NewTime
    <2>7. \A s \in Streams : startOffset[s] = NoPts => sought'[s] = sought[s]
      BY <1>3, <2>2 DEF CutShort, TypeOK
    <2> QED BY <1>1, <2>6, <2>7
  <1> QED BY <1>2, <1>3
(* The front after a step that leaves the queue alone, or takes a broken packet from it. *)
Waits(s) ==
  /\ Front(s)' \in Nat /\ Front(s) <= Front(s)'
  /\ \A k \in Front(s) .. Front(s)' - 1 :
       Of(s, k) => file[k].outcome \in { "damaged", "partial" }

LEMMA FrontStays ==
  ASSUME TypeOK, NEW s \in Streams, queue'[s] = queue[s], pos' = pos
  PROVE  Front(s)' = Front(s) /\ Waits(s)
  <1>1. Front(s)' = Front(s)
    BY DEF Front
  <1> QED BY <1>1, FrontType DEF Waits

LEMMA FrontWaits ==
  ASSUME TypeOK, QueueComplete, NEW s \in Streams, enabled[s], pos' = pos,
         Takes("damaged") \/ Takes("partial"),
         queue'[s] = queue[s] \/ (s = request /\ queue'[s] = Tail(queue[s]))
  PROVE  Waits(s)
  <1>1. CASE queue'[s] = queue[s]
    BY <1>1, FrontStays
  <1>2. CASE s = request /\ queue'[s] = Tail(queue[s])
    <2>1. queue[s] # << >> /\ QueueOf(s)
      BY <1>2, QueueParts DEF Takes
    <2>2. /\ Front(s) \in Positions /\ Front(s)' \in Nat /\ Front(s) < Front(s)'
          /\ \A k \in Front(s) + 1 .. Front(s)' - 1 : ~Of(s, k)
      BY <1>2, <2>1, FrontTaken
    <2>3. file[Front(s)].outcome \in { "damaged", "partial" }
      BY <1>2, TakenFront
    <2>4. ASSUME NEW k \in Front(s) .. Front(s)' - 1, Of(s, k)
          PROVE  file[k].outcome \in { "damaged", "partial" }
      <3>1. k = Front(s)
        BY <2>2, <2>4 DEF Positions
      <3> QED BY <2>3, <3>1
    <2> QED BY <2>2, <2>4 DEF Waits, Positions
  <1> QED BY <1>1, <1>2

LEMMA StartStep ==
  TypeOK /\ QueueComplete /\ StartInv /\ [SourceNext]_vars => StartInv'
  <1> SUFFICES ASSUME TypeOK, QueueComplete, StartInv, [SourceNext]_vars PROVE StartInv'
    OBVIOUS
  <1>a. \A s \in Streams : DisabledEmpty(s)'
    BY DisabledStep DEF StartInv
  <1>b. ASSUME file' = file, startOffset' = startOffset, late' = late,
               \A s \in Streams : enabled'[s] => enabled[s],
               \A s \in Streams : startOffset[s] = NoPts => sought'[s] = sought[s],
               \A s \in Streams : enabled'[s] => Waits(s)
        PROVE  \A s \in Streams : StartOf(s)'
    BY <1>b, StartWaits DEF StartInv, Waits
  <1>1. ASSUME NEW t \in Streams, RequestSample(t) \/ RequestEnded(t) PROVE StartInv'
    <2>1. /\ UNCHANGED << file, pos, queue, enabled, startOffset, late, sought, got >>
          /\ request = NoStream /\ answer'.got = << >>
      BY <1>1 DEF RequestSample, RequestEnded, providers, serving, NoAnswer, Ends, Answer
    <2>2. \A s \in Streams : StartOf(s)'
      BY <1>b, <2>1, FrontStays
    <2>3. Gathered' /\ TimesFromStart'
      BY <2>1, NoTime DEF StartInv, Gathered
    <2> QED BY <1>a, <2>2, <2>3 DEF StartInv
  <1>2. CASE ReadPacket
    <2>1. UNCHANGED << file, enabled, startOffset, late, sought, got, request, answer >>
      BY <1>2 DEF ReadPacket, serving, history
    <2>2. ASSUME NEW s \in Streams, enabled[s] PROVE Waits(s)
      BY <1>2, <2>2, FrontRead, QueueParts DEF Waits
    <2>3. \A s \in Streams : StartOf(s)'
      BY <1>b, <2>1, <2>2
    <2>4. Gathered' /\ TimesFromStart'
      BY <2>1, SameTime DEF StartInv, Gathered, Of
    <2> QED BY <1>a, <2>3, <2>4 DEF StartInv
  <1>3. CASE ReadFails
    <2>1. /\ UNCHANGED << file, pos, queue, startOffset, late >>
          /\ request \in Streams /\ (CutShort \/ DisableStream) /\ Returns
      BY <1>3 DEF ReadFails, TypeOK
    <2>2. \A s \in Streams : enabled'[s] => enabled[s]
      BY <2>1 DEF CutShort, DisableStream, TypeOK
    <2>3. \A s \in Streams : StartOf(s)'
      BY <1>b, <2>1, <2>2, FrontStays, StartFails
    <2> QED BY <1>a, <2>1, <2>3, StartFails DEF StartInv
  <1>4. CASE SkipDamaged \/ SkipPartial
    <2>1. /\ UNCHANGED << file, pos, enabled, startOffset, late, sought, got, request, answer >>
          /\ Takes("damaged") \/ Takes("partial")
          /\ queue' = [queue EXCEPT ![request] = Tail(@)]
      BY <1>4 DEF SkipDamaged, SkipPartial, history
    <2>2. ASSUME NEW s \in Streams, enabled[s] PROVE Waits(s)
      BY <2>1, <2>2, FrontWaits DEF TypeOK
    <2>3. \A s \in Streams : StartOf(s)'
      BY <1>b, <2>1, <2>2
    <2>4. Gathered' /\ TimesFromStart'
      BY <2>1, SameTime DEF StartInv, Gathered, Of
    <2> QED BY <1>a, <2>3, <2>4 DEF StartInv
  <1>5. CASE TakeDamaged
    <2>1. /\ UNCHANGED << file, pos, startOffset, late >> /\ Takes("damaged")
          /\ (CutShort \/ DisableStream) /\ Returns /\ request \in Streams
          /\ queue' = [queue EXCEPT ![request] = Left(Tail(@))]
      BY <1>5 DEF TakeDamaged, Takes, TypeOK
    <2>2. ASSUME NEW s \in Streams, enabled'[s] PROVE enabled[s] /\ Waits(s)
      <3>1. CASE CutShort
        <4>1. enabled[s] /\ queue' = [queue EXCEPT ![request] = Tail(@)]
          BY <2>1, <2>2, <3>1 DEF CutShort, Left
        <4> QED BY <2>1, <4>1, FrontWaits DEF TypeOK
      <3>2. CASE DisableStream
        <4>1. s # request /\ enabled[s]
          BY <2>1, <2>2, <3>2 DEF DisableStream, TypeOK
        <4>2. queue'[s] = queue[s]
          BY <2>1, <4>1 DEF TypeOK
        <4> QED BY <2>1, <4>1, <4>2, FrontStays
      <3> QED BY <2>1, <3>1, <3>2
    <2>3. \A s \in Streams : StartOf(s)'
      BY <1>b, <2>1, <2>2, StartFails
    <2> QED BY <1>a, <2>1, <2>3, StartFails DEF StartInv
  <1>6. CASE TakeUnwritable
    <2>1. /\ file' = file /\ pos' = pos /\ DisableStream /\ Takes("unwritable") /\ Returns
          /\ Completes(request, Head(queue[request])) /\ answer' = Ends(request)
          /\ queue' = [queue EXCEPT ![request] = << >>]
      BY <1>6 DEF TakeUnwritable, DisableStream
    <2>2. ASSUME NEW s \in Streams, s # request
          PROVE  enabled'[s] = enabled[s] /\ sought'[s] = sought[s] /\ Front(s)' = Front(s)
      <3>1. queue'[s] = queue[s]
        BY <2>1, <2>2 DEF TypeOK
      <3> QED BY <2>1, <2>2, <3>1, FrontStays DEF DisableStream, TypeOK
    <2>3. \A s \in Streams : StartOf(s)'
      BY <2>1, <2>2, StartCompletes
    <2>4. Gathered' /\ TimesFromStart'
      BY <2>1 DEF Returns, Gathered, Ends, Answer, TimesFromStart
    <2> QED BY <1>a, <2>3, <2>4 DEF StartInv
  <1>7. CASE Gather \/ Deliver
    <2> DEFINE i == Head(queue[request])
               packets == Append(got, i)
    <2>1. /\ file' = file /\ pos' = pos /\ enabled' = enabled /\ Takes("ok") /\ Completes(request, i)
          /\ queue' = [queue EXCEPT ![request] = Tail(@)]
          /\ sought' = sought \/ sought' = [sought EXCEPT ![request] = FALSE]
      BY <1>7 DEF Gather, Deliver
    <2>2. ASSUME NEW s \in Streams, s # request
          PROVE  enabled'[s] = enabled[s] /\ sought'[s] = sought[s] /\ Front(s)' = Front(s)
      <3>1. queue'[s] = queue[s]
        BY <2>1, <2>2 DEF TypeOK
      <3> QED BY <2>1, <2>2, <3>1, FrontStays DEF TypeOK
    <2>3. request \in Streams /\ i \in Positions /\ Of(request, i) /\ file[i].outcome = "ok"
      BY <2>1, TakenFront
    <2>4. /\ \A s \in Streams : StartOf(s)'
          /\ startOffset'[request] # NoPts /\ startOffset'[request] = Offset(request, i)
          /\ ~late'[request] => StartedBy(request, startOffset'[request])
      BY <2>1, <2>2, <2>3, StartCompletes
    <2>5. ASSUME NEW n \in 1 .. Len(packets)
          PROVE  Of(request, packets[n]) /\ file[packets[n]].outcome = "ok" /\ packets[n] \in Positions
      <3>1. /\ got \in Seq(Positions) /\ Len(packets) = Len(got) + 1 /\ Len(got) \in Nat
            /\ packets[Len(got) + 1] = i /\ \A m \in 1 .. Len(got) : packets[m] = got[m]
        BY <2>3, AppendFacts DEF TypeOK
      <3>2. CASE n = Len(got) + 1
        BY <2>3, <3>1, <3>2
      <3>3. CASE n \in 1 .. Len(got)
        <4>1. got # << >> /\ packets[n] = got[n] /\ got[n] \in Positions
          BY <3>1, <3>3, ElementOfSeq
        <4> QED BY <3>3, <4>1 DEF StartInv, Gathered
      <3> QED BY <3>1, <3>2, <3>3
    <2>6. CASE Gather
      <3>1. got' = packets /\ request' = request /\ answer' = answer /\ request # NoStream
        BY <2>6 DEF Gather, Takes
      <3>2. Gathered'
        BY <2>1, <2>4, <2>5, <3>1 DEF Gathered, Of
      <3>3. TimesFromStart'
        <4>1. ASSUME answer.stream \in Streams PROVE ~late'[answer.stream] => ~late[answer.stream]
          BY <2>1, <2>3, <4>1, Zenon DEF Completes, TypeOK
        <4>2. ASSUME answer.stream \notin Streams
              PROVE  late'[answer.stream] = late[answer.stream]
          BY <2>1, <2>3, <4>2 DEF Completes, TypeOK
        <4> QED BY <2>1, <3>1, <4>1, <4>2, SameTime DEF StartInv
      <3> QED BY <1>a, <2>4, <3>2, <3>3 DEF StartInv
    <2>7. CASE Deliver
      <3> DEFINE flag == IF AllowSkip THEN discontinuous[request] ELSE gotFlag
                 time == Pts[packets[1]] - Offset(request, i)
      <3>1. answer' = [stream |-> request, got |-> packets, discontinuous |-> flag, time |-> time]
        BY <2>7 DEF Deliver, Answer
      <3>2. Gathered'
        BY <2>7 DEF Deliver, Returns, Gathered
      <3>3. 1 \in 1 .. Len(packets)
        <4>1. got \in Seq(Positions)
          BY DEF TypeOK
        <4> QED BY <2>3, <4>1, AppendFacts
      <3>4. Of(request, packets[1]) /\ file[packets[1]].outcome = "ok" /\ packets[1] \in Positions
        BY <2>5, <3>3
      <3>5. TimesFromStart'
        <4> DEFINE offset == Offset(request, i)
        <4>1. offset \in Nat
          BY <2>1, <2>3, CompletesType
        <4>2. ~late'[request] => StartedBy(request, offset)
          BY <2>4
        <4>3. answer' = [stream |-> request, got |-> packets, discontinuous |-> flag,
                         time |-> Pts[packets[1]] - offset]
          BY <3>1
        <4> HIDE DEF packets, flag, i, offset
        <4> QED BY <2>1, <2>3, <3>4, <4>1, <4>2, <4>3, NewTime
      <3> QED BY <1>a, <2>4, <3>2, <3>5 DEF StartInv
    <2> QED BY <1>7, <2>6, <2>7
  <1>8. ASSUME NEW p \in 1 .. FileLength + 1, Seek(p) PROVE StartInv'
    <2>1. /\ UNCHANGED << file, startOffset, late, request, got >> /\ answer' = NoAnswer
          /\ \A s \in Streams : sought'[s]
      BY <1>8 DEF Seek, serving
    <2>2. ASSUME NEW s \in Streams PROVE StartOf(s)'
      BY <2>1 DEF StartInv, StartOf, StartedBy, NothingBefore, Of
    <2>3. Gathered' /\ TimesFromStart'
      BY <2>1, NoTime DEF StartInv, Gathered, Of, NoAnswer, Ends, Answer
    <2> QED BY <1>a, <2>2, <2>3 DEF StartInv
  <1>9. CASE UNCHANGED vars
    <2>1. /\ UNCHANGED << file, pos, queue, enabled, startOffset, late, sought, request, got, answer >>
      BY <1>9 DEF vars, providers, serving, history
    <2>2. \A s \in Streams : StartOf(s)'
      BY <1>b, <2>1, FrontStays
    <2>3. Gathered' /\ TimesFromStart'
      BY <2>1, SameTime DEF StartInv, Gathered, Of
    <2> QED BY <1>a, <2>2, <2>3 DEF StartInv
  <1> QED BY <1>1, <1>2, <1>3, <1>4, <1>5, <1>6, <1>7, <1>8, <1>9 DEF SourceNext, Serve, SeekStep

(***************************************************************************)
(* Times count from the start of the stream (TimesFromStart of             *)
(* SourceProperties): m_startOffset never moves a sample later; where the  *)
(* stamps of a stream ascend and its first packet completed before the     *)
(* first seek, no stamp of 0 or more becomes negative and none below is    *)
(* changed, for every file and wherever and whenever the pipeline seeks.   *)
(***************************************************************************)
THEOREM TimesCountFromStart == SourceSpec => []TimesFromStart
  <1>1. TypeOK /\ QueueComplete /\ StartInv => TimesFromStart
    BY DEF StartInv
  <1> QED
    BY <1>1, TypeInit, TypeStep, QueueInit, QueueStep, StartInit, StartStep, PTL DEF SourceSpec
(***************************************************************************)
(* The samples are those promised.  The last packet given lies before the  *)
(* front of its stream, and what was lost in between is marked; while a    *)
(* sample is gathered its packets are a whole run that ends at the front.  *)
(***************************************************************************)
Missing(s, i, j) == Promise!Missing(s, i, j)

LastBehind(s) == enabled[s] => last[s] < Front(s)

GapMarked(s) ==
  enabled[s] /\ (sought[s] \/ Missing(s, last[s], Front(s))) => discontinuous[s]

WholeRun(s) ==
  /\ \A n \in 1 .. Len(got) : got[n] \in last[s] + 1 .. FileLength
  /\ \A n \in 1 .. Len(got) - 1 : got[n] < got[n + 1] /\ ~Missing(s, got[n], got[n + 1])
  /\ sought[s] \/ Missing(s, last[s], got[1]) => gotFlag

RunAtFront(s) ==
  enabled[s] /\ got[Len(got)] < Front(s) /\ ~Missing(s, got[Len(got)], Front(s))

OrderInv ==
  /\ \A s \in Streams : LastBehind(s)
  /\ \A s \in Streams : s # request \/ got = << >> => GapMarked(s)
  /\ got # << >> => WholeRun(request) /\ RunAtFront(request)

LEMMA OrderInit == SourceInit => OrderInv /\ Promise!PromiseInit
  <1> SUFFICES ASSUME SourceInit PROVE OrderInv /\ Promise!PromiseInit
    OBVIOUS
  <1>1. ASSUME NEW s \in Streams PROVE LastBehind(s) /\ GapMarked(s)
    <2>1. Front(s) = 1 /\ last[s] = 0 /\ ~sought[s]
      BY DEF SourceInit, Front
    <2>2. ~Missing(s, 0, 1)
      BY DEF Missing, Promise!Missing
    <2> QED BY <2>1, <2>2 DEF LastBehind, GapMarked
  <1>2. Promise!PromiseInit
    BY DEF SourceInit, NoAnswer, Ends, Answer, Promise!PromiseInit
  <1> QED BY <1>1, <1>2 DEF SourceInit, OrderInv

(* What is missing up to a later front. *)
LEMMA MissingLater ==
  ASSUME NEW s \in Streams, NEW i \in Int, NEW j \in Nat, NEW k \in Nat, j <= k,
         Missing(s, i, k),
         \A m \in j .. k - 1 : Of(s, m) => file[m].outcome = "partial"
  PROVE  Missing(s, i, j)
  BY DEF Missing, Promise!Missing, Of

(* Nothing but the front of s has changed, and it passed nothing with content. *)
PassesNothing(s) ==
  /\ Front(s)' \in Nat /\ Front(s) <= Front(s)'
  /\ \A k \in Front(s) .. Front(s)' - 1 : Of(s, k) => file[k].outcome = "partial"

LEMMA OrderKept ==
  ASSUME TypeOK, NEW s \in Streams, file' = file,
         last'[s] = last[s], sought'[s] = sought[s], enabled'[s] => enabled[s],
         discontinuous[s] => discontinuous'[s],
         enabled'[s] => PassesNothing(s)
  PROVE  /\ LastBehind(s) => LastBehind(s)'
         /\ GapMarked(s) => GapMarked(s)'
  <1>1. CASE ~enabled'[s]
    BY <1>1 DEF LastBehind, GapMarked
  <1>2. CASE enabled'[s]
    <2>1. /\ last[s] \in Nat /\ Front(s) \in Nat /\ Front(s)' \in Nat /\ Front(s) <= Front(s)'
      <3>1. last[s] \in 0 .. FileLength /\ Front(s) \in 1 .. FileLength + 1
        BY FrontType DEF TypeOK
      <3> QED BY <1>2, <3>1 DEF PassesNothing
    <2>2. LastBehind(s) => LastBehind(s)'
      BY <1>2, <2>1 DEF LastBehind
    <2>3. Missing(s, last[s], Front(s))' => Missing(s, last[s], Front(s))
      <3>1. Missing(s, last[s], Front(s))' => Missing(s, last[s], Front(s)')
        BY DEF Missing, Promise!Missing
      <3> QED BY <1>2, <2>1, <3>1, MissingLater DEF PassesNothing
    <2>4. GapMarked(s) => GapMarked(s)'
      BY <1>2, <2>3 DEF GapMarked
    <2> QED BY <2>2, <2>4
  <1> QED BY <1>1, <1>2

LEMMA RunKept ==
  ASSUME TypeOK, request \in Streams, got # << >>, WholeRun(request), RunAtFront(request),
         UNCHANGED << file, request, got, gotFlag, last, sought, enabled >>,
         PassesNothing(request)
  PROVE  (WholeRun(request) /\ RunAtFront(request))'
  <1>1. WholeRun(request)'
    BY DEF WholeRun, Missing, Promise!Missing, Of
  <1> DEFINE l == got[Len(got)]
  <1>2. l \in Positions /\ l \in Int /\ Front(request) \in Nat
    <2>1. got \in Seq(Positions) /\ Len(got) \in 1 .. Len(got)
      BY TailFacts DEF TypeOK
    <2>2. l \in Positions
      BY <2>1, ElementOfSeq
    <2>3. Front(request) \in 1 .. FileLength + 1
      BY FrontType
    <2> QED BY <2>2, <2>3 DEF Positions
  <1>3. ~Missing(request, l, Front(request)')
    BY <1>2, MissingLater DEF PassesNothing, RunAtFront
  <1>4. l < Front(request)'
    BY <1>2 DEF PassesNothing, RunAtFront
  <1>5. ~Missing(request, got[Len(got)], Front(request))'
    BY <1>3 DEF Missing, Promise!Missing
  <1> QED BY <1>1, <1>4, <1>5 DEF RunAtFront

(* A step that gives nothing and takes nothing with content. *)
LEMMA OrderWaits ==
  ASSUME TypeOK, OrderInv, Gathered, UNCHANGED << file, last, sought, enabled, request, got, gotFlag >>,
         \A s \in Streams : discontinuous[s] => discontinuous'[s],
         \A s \in Streams : enabled[s] => PassesNothing(s)
  PROVE  OrderInv' /\ UNCHANGED Promise!promiseVars
  <1>1. UNCHANGED Promise!promiseVars
    BY DEF Promise!promiseVars
  <1>2. ASSUME NEW s \in Streams
        PROVE  /\ LastBehind(s) => LastBehind(s)'
               /\ GapMarked(s) => GapMarked(s)'
    BY OrderKept
  <1>3. ASSUME got # << >> PROVE (WholeRun(request) /\ RunAtFront(request))'
    <2>1. request \in Streams /\ WholeRun(request) /\ RunAtFront(request)
      BY <1>3 DEF OrderInv, Gathered, TypeOK
    <2>2. PassesNothing(request)
      BY <2>1 DEF RunAtFront
    <2> QED BY <1>3, <2>1, <2>2, RunKept
  <1> QED BY <1>1, <1>2, <1>3 DEF OrderInv

(* A sample cut short is one that was promised. *)
LEMMA CutShortGives ==
  ASSUME TypeOK, OrderInv, Gathered, request \in Streams, CutShort, file' = file
  PROVE  Promise!Give(request)
  <1> DEFINE s == request
  <1>1. got # << >> /\ answer' = Answer(s, got, gotFlag, Pts[got[1]] - startOffset[s])
        /\ last' = [last EXCEPT ![s] = got[Len(got)]] /\ sought' = [sought EXCEPT ![s] = FALSE]
        /\ enabled' = enabled
    BY DEF CutShort
  <1>2. answer'.got = got /\ answer'.stream = s /\ answer'.discontinuous = gotFlag
    BY <1>1 DEF Answer
  <1>3. enabled[s] /\ WholeRun(s)
    BY <1>1 DEF OrderInv, RunAtFront
  <1>4. \A n \in 1 .. Len(got) : Of(s, got[n]) /\ file[got[n]].outcome = "ok"
    BY <1>1 DEF Gathered
  <1> QED BY <1>1, <1>2, <1>3, <1>4 DEF Promise!Give, WholeRun, Missing, Promise!Missing, Of
(* A packet is taken: the next front is the next packet of its stream, if it was read. *)
LEMMA AfterTaken ==
  ASSUME TypeOK, QueueComplete, StartInv, NEW outcome, Takes(outcome),
         NEW s \in Streams, s = request
  PROVE  /\ enabled[s] /\ Front(s) \in Positions /\ Of(s, Front(s))
         /\ Front(s) = Head(queue[s]) /\ file[Front(s)].outcome = outcome
         /\ queue'[s] = Tail(queue[s]) /\ pos' = pos =>
              /\ Front(s)' \in Nat /\ Front(s) < Front(s)'
              /\ \A k \in Front(s) + 1 .. Front(s)' - 1 : ~Of(s, k)
  <1>1. queue[s] # << >> /\ QueueOf(s)
    BY QueueParts DEF Takes
  <1>2. enabled[s]
    BY <1>1 DEF StartInv, DisabledEmpty
  <1> QED BY <1>1, <1>2, FrontTaken, TakenFront

(* What has been gathered, with the packet taken, is a whole run after the last one given. *)
Packets == Append(got, Head(queue[request]))
Flag    == IF AllowSkip THEN discontinuous[request] ELSE gotFlag

LEMMA PacketsRun ==
  ASSUME TypeOK, QueueComplete, StartInv, OrderInv, Takes("ok")
  PROVE  /\ Packets \in Seq(Positions) /\ Packets # << >> /\ Len(Packets) \in Nat
         /\ Packets[Len(Packets)] = Head(queue[request])
         /\ \A n \in 1 .. Len(Packets) :
              /\ Packets[n] \in last[request] + 1 .. FileLength
              /\ Of(request, Packets[n]) /\ file[Packets[n]].outcome = "ok"
         /\ \A n \in 1 .. Len(Packets) - 1 :
              Packets[n] < Packets[n + 1] /\ ~Missing(request, Packets[n], Packets[n + 1])
         /\ sought[request] \/ Missing(request, last[request], Packets[1]) => Flag
  <1> PICK s \in Streams : s = request
    BY TakenFront
  <1> DEFINE i == Head(queue[request])
  <1>1. /\ enabled[s] /\ i \in Positions /\ Of(s, i) /\ Front(s) = i
        /\ file[i].outcome = "ok"
    BY AfterTaken
  <1>2. /\ got \in Seq(Positions) /\ Len(got) \in Nat /\ Len(Packets) = Len(got) + 1
        /\ Packets \in Seq(Positions) /\ Packets # << >> /\ Packets[Len(got) + 1] = i
        /\ \A n \in 1 .. Len(got) : Packets[n] = got[n]
    <2>1. got \in Seq(Positions) /\ Packets = Append(got, i)
      BY DEF TypeOK, Packets
    <2> HIDE DEF i
    <2> QED BY <1>1, <2>1, AppendFacts
  <1>3. last[s] \in 0 .. FileLength /\ last[s] < i
    BY <1>1 DEF TypeOK, OrderInv, LastBehind
  <1>4. i \in last[s] + 1 .. FileLength
    BY <1>1, <1>3 DEF Positions
  <1>5. CASE got = << >>
    <2>1. Len(got) = 0
      BY <1>5
    <2>2. Len(Packets) = 1 /\ Packets[1] = i
      BY <1>2, <2>1
    <2>3. sought[s] \/ Missing(s, last[s], i) => discontinuous[s]
      BY <1>1, <1>5 DEF OrderInv, GapMarked
    <2> HIDE DEF i
    <2> QED BY <1>1, <1>2, <1>4, <1>5, <2>2, <2>3 DEF Flag, AllowSkip, i
  <1>6. CASE got # << >>
    <2>1. /\ WholeRun(s) /\ got[Len(got)] < i /\ ~Missing(s, got[Len(got)], i)
      BY <1>1, <1>6 DEF OrderInv, RunAtFront
    <2>2. Len(got) >= 1
      BY <1>2, <1>6, TailFacts
    <2>3. ASSUME NEW n \in 1 .. Len(Packets)
          PROVE  /\ Packets[n] \in last[s] + 1 .. FileLength
                 /\ Of(s, Packets[n]) /\ file[Packets[n]].outcome = "ok"
      <3>1. CASE n \in 1 .. Len(got)
        BY <1>2, <1>6, <2>1, <3>1 DEF WholeRun, StartInv, Gathered
      <3>2. CASE n = Len(got) + 1
        BY <1>1, <1>2, <1>4, <3>2
      <3> QED BY <1>2, <3>1, <3>2
    <2>4. ASSUME NEW n \in 1 .. Len(Packets) - 1
          PROVE  Packets[n] < Packets[n + 1] /\ ~Missing(s, Packets[n], Packets[n + 1])
      <3>1. CASE n \in 1 .. Len(got) - 1
        <4>1. n \in 1 .. Len(got) /\ n + 1 \in 1 .. Len(got)
          BY <1>2, <3>1
        <4>2. Packets[n] = got[n] /\ Packets[n + 1] = got[n + 1]
          BY <1>2, <4>1
        <4> QED BY <2>1, <3>1, <4>2 DEF WholeRun
      <3>2. CASE n = Len(got)
        <4>1. Packets[n] = got[n] /\ Packets[n + 1] = i
          BY <1>2, <2>2, <3>2
        <4> QED BY <2>1, <3>2, <4>1
      <3> QED BY <1>2, <3>1, <3>2
    <2>5. sought[s] \/ Missing(s, last[s], Packets[1]) => Flag
      BY <1>2, <1>6, <2>1, <2>2 DEF WholeRun, Flag, AllowSkip
    <2> QED BY <1>2, <2>3, <2>4, <2>5
  <1> QED BY <1>5, <1>6

(* The stream that was served is at its new front, with nothing missing since its last sample. *)
LEMMA NothingMissing ==
  ASSUME NEW s \in Streams, NEW i \in Nat, NEW j \in Nat,
         \A k \in i + 1 .. j - 1 : ~Of(s, k)
  PROVE  ~Missing(s, i, j)
  BY DEF Missing, Promise!Missing, Of

LEMMA DeliverGives ==
  ASSUME TypeOK, QueueComplete, StartInv, OrderInv, Deliver
  PROVE  Promise!Give(request) /\ OrderInv'
  <1>0. PICK s \in Streams : s = request
    BY TakenFront DEF Deliver
  <1> DEFINE i == Head(queue[s])
             time == Pts[Packets[1]] - Offset(s, i)
  <1>1. /\ Takes("ok") /\ UNCHANGED << file, pos, enabled >> /\ Returns
        /\ answer' = [stream |-> s, got |-> Packets, discontinuous |-> Flag, time |-> time]
        /\ last' = [last EXCEPT ![s] = i] /\ sought' = [sought EXCEPT ![s] = FALSE]
        /\ queue' = [queue EXCEPT ![s] = Tail(@)]
        /\ discontinuous' = [discontinuous EXCEPT ![s] = FALSE]
    BY <1>0 DEF Deliver, Packets, Flag, Answer
  <1>2. enabled[s] /\ i \in Positions /\ Front(s) = i
    BY <1>0, <1>1, AfterTaken
  <1>3. answer'.got = Packets /\ answer'.stream = s /\ answer'.discontinuous = Flag
    <2> HIDE DEF time
    <2> QED BY <1>1
  <1>4. Promise!Give(s)
    BY <1>0, <1>1, <1>2, <1>3, PacketsRun DEF Promise!Give, Missing, Promise!Missing, Of
  <1>5. queue'[s] = Tail(queue[s])
    BY <1>1, <1>2 DEF TypeOK
  <1>6. /\ Front(s)' \in Nat /\ i < Front(s)' /\ i \in Nat
        /\ \A k \in i + 1 .. Front(s)' - 1 : ~Of(s, k)
    BY <1>0, <1>1, <1>2, <1>5, AfterTaken DEF Positions
  <1>7. last'[s] = i /\ sought'[s] = FALSE
    BY <1>1, <1>2 DEF TypeOK
  <1>8. LastBehind(s)'
    BY <1>6, <1>7 DEF LastBehind
  <1>9. GapMarked(s)'
    <2>1. ~Missing(s, i, Front(s)')
      BY <1>2, <1>6, NothingMissing
    <2>2. ~Missing(s, last[s], Front(s))'
      BY <1>1, <1>7, <2>1 DEF Missing, Promise!Missing
    <2> QED BY <1>7, <2>2 DEF GapMarked
  <1>10. ASSUME NEW t \in Streams, t # s PROVE LastBehind(t)' /\ GapMarked(t)'
    <2>1. /\ queue'[t] = queue[t] /\ last'[t] = last[t] /\ sought'[t] = sought[t]
          /\ discontinuous'[t] = discontinuous[t] /\ enabled'[t] = enabled[t]
      BY <1>1, <1>10 DEF TypeOK
    <2>2. PassesNothing(t)
      BY <1>1, <2>1, FrontStays, FrontType DEF PassesNothing
    <2>3. LastBehind(t) /\ GapMarked(t)
      BY <1>0, <1>10 DEF OrderInv
    <2> QED BY <1>1, <2>1, <2>2, <2>3, OrderKept
  <1>11. got' = << >>
    BY <1>1 DEF Returns
  <1>12. OrderInv'
    BY <1>8, <1>9, <1>10, <1>11 DEF OrderInv
  <1> QED BY <1>0, <1>4, <1>12
LEMMA GatherKeeps ==
  ASSUME TypeOK, QueueComplete, StartInv, OrderInv, Gather
  PROVE  OrderInv' /\ UNCHANGED Promise!promiseVars
  <1>0. PICK s \in Streams : s = request
    BY TakenFront DEF Gather
  <1> DEFINE i == Head(queue[s])
  <1>1. /\ Takes("ok") /\ UNCHANGED << file, pos, enabled, discontinuous, request, last, sought >>
        /\ got' = Packets /\ gotFlag' = Flag /\ queue' = [queue EXCEPT ![s] = Tail(@)]
    BY <1>0 DEF Gather, Packets, Flag
  <1>2. enabled[s] /\ i \in Positions /\ Front(s) = i
    BY <1>0, <1>1, AfterTaken
  <1>3. queue'[s] = Tail(queue[s])
    BY <1>1, <1>2 DEF TypeOK
  <1>4. /\ Front(s)' \in Nat /\ i < Front(s)' /\ i \in Nat
        /\ \A k \in i + 1 .. Front(s)' - 1 : ~Of(s, k)
    BY <1>0, <1>1, <1>2, <1>3, AfterTaken DEF Positions
  <1>5. /\ Packets[Len(Packets)] = i /\ Packets # << >>
        /\ \A n \in 1 .. Len(Packets) : Packets[n] \in last[s] + 1 .. FileLength
        /\ \A n \in 1 .. Len(Packets) - 1 :
             Packets[n] < Packets[n + 1] /\ ~Missing(s, Packets[n], Packets[n + 1])
        /\ sought[s] \/ Missing(s, last[s], Packets[1]) => Flag
    BY <1>0, <1>1, PacketsRun
  <1>6. WholeRun(s)'
    <2> HIDE DEF i
    <2> QED BY <1>1, <1>5 DEF WholeRun, Missing, Promise!Missing
  <1>7. RunAtFront(s)'
    <2>1. ~Missing(s, i, Front(s)')
      BY <1>4, NothingMissing
    <2>2. ~Missing(s, got[Len(got)], Front(s))'
      BY <1>1, <1>5, <2>1 DEF Missing, Promise!Missing
    <2> QED BY <1>1, <1>2, <1>4, <1>5, <2>2 DEF RunAtFront
  <1>8. (WholeRun(request) /\ RunAtFront(request))'
    BY <1>0, <1>1, <1>6, <1>7 DEF WholeRun, RunAtFront, Missing, Promise!Missing, Front
  <1>9. LastBehind(s)'
    <2>1. last[s] < i /\ last[s] \in 0 .. FileLength
      BY <1>2 DEF OrderInv, LastBehind, TypeOK
    <2> QED BY <1>1, <1>4, <2>1 DEF LastBehind
  <1>10. ASSUME NEW t \in Streams, t # s PROVE LastBehind(t)' /\ GapMarked(t)'
    <2>1. queue'[t] = queue[t]
      BY <1>1, <1>10 DEF TypeOK
    <2>2. PassesNothing(t)
      BY <1>1, <2>1, FrontStays, FrontType DEF PassesNothing
    <2>3. LastBehind(t) /\ GapMarked(t)
      BY <1>0, <1>10 DEF OrderInv
    <2> QED BY <1>1, <2>2, <2>3, OrderKept
  <1>11. \A t \in Streams : t # request' \/ got' = << >> => GapMarked(t)'
    BY <1>0, <1>1, <1>5, <1>10
  <1>12. \A t \in Streams : LastBehind(t)'
    BY <1>9, <1>10
  <1>13. OrderInv'
    BY <1>8, <1>11, <1>12 DEF OrderInv
  <1> QED BY <1>1, <1>13 DEF Promise!promiseVars

(* A request that fails gives what it has, or ends the stream. *)
LEMMA FailureKeeps ==
  ASSUME TypeOK, QueueComplete, StartInv, OrderInv, CutShort \/ DisableStream, Returns,
         NEW s \in Streams, s = request, file' = file, pos' = pos,
         \A t \in Streams \ {s} : queue'[t] = queue[t] /\ discontinuous'[t] = discontinuous[t],
         CutShort => \/ queue'[s] = queue[s]
                     \/ discontinuous'[s] /\ Takes("damaged") /\ queue'[s] = Tail(queue[s])
  PROVE  OrderInv' /\ (Promise!Give(request) \/ Promise!End(request))
  <1>1. got' = << >>
    BY DEF Returns
  <1>2. ASSUME NEW t \in Streams, t # s PROVE LastBehind(t)' /\ GapMarked(t)'
    <2>1. last'[t] = last[t] /\ sought'[t] = sought[t] /\ enabled'[t] = enabled[t]
      BY <1>2 DEF CutShort, DisableStream, TypeOK
    <2>2. PassesNothing(t)
      BY <1>2, FrontStays, FrontType DEF PassesNothing
    <2>3. LastBehind(t) /\ GapMarked(t)
      BY <1>2 DEF OrderInv
    <2> QED BY <1>2, <2>1, <2>2, <2>3, OrderKept
  <1>3. CASE DisableStream
    <2>1. enabled' = [enabled EXCEPT ![s] = FALSE] /\ UNCHANGED << last, sought >>
          /\ answer' = Ends(s)
      BY <1>3 DEF DisableStream
    <2>2. ~enabled'[s]
      BY <2>1 DEF TypeOK
    <2>3. OrderInv'
      BY <1>1, <1>2, <2>2 DEF OrderInv, LastBehind, GapMarked
    <2>4. answer'.stream = s /\ answer'.got = << >>
      BY <2>1 DEF Ends, Answer
    <2>5. [t \in Streams |-> ~enabled'[t]] = [[t \in Streams |-> ~enabled[t]] EXCEPT ![s] = TRUE]
      BY <2>1, Zenon DEF TypeOK
    <2>6. Promise!End(request)
      BY <2>1, <2>4, <2>5 DEF Promise!End
    <2> QED BY <2>3, <2>6
  <1>4. CASE CutShort
    <2> DEFINE l == got[Len(got)]
    <2>1. Promise!Give(s)
      BY <1>4, CutShortGives DEF StartInv
    <2>2. /\ got # << >> /\ RunAtFront(s) /\ enabled'[s] = enabled[s]
          /\ last'[s] = l /\ sought'[s] = FALSE
      BY <1>4 DEF CutShort, OrderInv, TypeOK
    <2>3. l \in Positions /\ l \in Nat /\ Front(s) \in Nat
      <3>1. got \in Seq(Positions) /\ Len(got) \in 1 .. Len(got)
        BY <2>2, TailFacts DEF TypeOK
      <3>2. l \in Positions
        BY <3>1, ElementOfSeq
      <3>3. Front(s) \in 1 .. FileLength + 1
        BY FrontType
      <3> QED BY <3>2, <3>3 DEF Positions
    <2>4. enabled[s] /\ l < Front(s) /\ ~Missing(s, l, Front(s))
      BY <2>2 DEF RunAtFront
    <2>5. CASE queue'[s] = queue[s]
      <3>1. Front(s)' = Front(s)
        BY <2>5, FrontStays
      <3>2. LastBehind(s)'
        BY <2>2, <2>4, <3>1 DEF LastBehind
      <3>3. ~Missing(s, last[s], Front(s))'
        BY <2>2, <2>4, <3>1 DEF Missing, Promise!Missing
      <3>4. GapMarked(s)'
        BY <2>2, <3>3 DEF GapMarked
      <3> QED BY <1>1, <1>2, <2>1, <3>2, <3>4 DEF OrderInv
    <2>6. CASE discontinuous'[s] /\ Takes("damaged") /\ queue'[s] = Tail(queue[s])
      <3>1. Front(s)' \in Nat /\ Front(s) < Front(s)'
        BY <2>6, AfterTaken
      <3>2. LastBehind(s)'
        BY <2>2, <2>3, <2>4, <3>1 DEF LastBehind
      <3>3. GapMarked(s)'
        BY <2>6 DEF GapMarked
      <3> QED BY <1>1, <1>2, <2>1, <3>2, <3>3 DEF OrderInv
    <2> QED BY <1>4, <2>5, <2>6
  <1> QED BY <1>3, <1>4
LEMMA Answered ==
  ASSUME request \in Streams, Promise!Give(request) \/ Promise!End(request)
  PROVE  Promise!PromiseNext
  <1>1. CASE Promise!Give(request)
    BY <1>1 DEF Promise!PromiseNext
  <1>2. CASE Promise!End(request)
    <2>1. PICK s \in Streams : s = request
      OBVIOUS
    <2>2. Promise!End(s)
      BY <1>2, <2>1 DEF Promise!End
    <2> QED BY <2>2 DEF Promise!PromiseNext
  <1> QED BY <1>1, <1>2

LEMMA OrderStep ==
  ASSUME Overlap = FALSE, TypeOK, QueueComplete, StartInv, OrderInv, [SourceNext]_vars
  PROVE  OrderInv' /\ [Promise!PromiseNext]_Promise!promiseVars
  <1>a. Gathered
    BY DEF StartInv
  <1>b. ASSUME NEW s \in Streams, queue'[s] = queue[s], pos' = pos PROVE PassesNothing(s)
    BY <1>b, FrontStays, FrontType DEF PassesNothing
  <1>1. ASSUME NEW s \in Streams, RequestSample(s)
        PROVE  OrderInv' /\ UNCHANGED Promise!promiseVars
    <2>1. /\ UNCHANGED << file, pos, queue, enabled, discontinuous, last, sought, got >>
          /\ got = << >>
      BY <1>1, <1>a DEF RequestSample, providers, Gathered
    <2>2. ASSUME NEW t \in Streams PROVE LastBehind(t)' /\ GapMarked(t)'
      BY <1>b, <2>1, OrderKept DEF OrderInv
    <2> QED BY <2>1, <2>2 DEF OrderInv, Promise!promiseVars
  <1>2. ASSUME NEW s \in Streams, RequestEnded(s)
        PROVE  OrderInv' /\ Promise!End(s)
    <2>1. /\ UNCHANGED << file, pos, queue, enabled, discontinuous, last, sought, got, request >>
          /\ got = << >> /\ ~enabled[s] /\ answer'.stream = s /\ answer'.got = << >>
      BY <1>2, <1>a DEF RequestEnded, providers, serving, Gathered, Ends, Answer
    <2>2. ASSUME NEW t \in Streams PROVE LastBehind(t)' /\ GapMarked(t)'
      BY <1>b, <2>1, OrderKept DEF OrderInv
    <2>3. [t \in Streams |-> ~enabled'[t]] = [[t \in Streams |-> ~enabled[t]] EXCEPT ![s] = TRUE]
      BY <2>1, Zenon
    <2> QED BY <2>1, <2>2, <2>3 DEF OrderInv, Promise!End
  <1>3. CASE ReadPacket
    <2>1. UNCHANGED << file, last, sought, enabled, request, got, gotFlag, discontinuous >>
      BY <1>3 DEF ReadPacket, serving, history
    <2>2. ASSUME NEW s \in Streams, enabled[s] PROVE PassesNothing(s)
      BY <1>3, <2>2, FrontRead, QueueParts DEF PassesNothing
    <2> QED BY <1>a, <2>1, <2>2, OrderWaits
  <1>4. CASE ReadFails
    <2>1. PICK s \in Streams : s = request
      BY <1>4 DEF ReadFails, TypeOK
    <2>2. /\ UNCHANGED << file, pos, queue >> /\ Returns /\ (CutShort \/ DisableStream)
          /\ \A t \in Streams \ {s} : discontinuous'[t] = discontinuous[t]
      BY <1>4, <2>1 DEF ReadFails, TypeOK
    <2>3. OrderInv' /\ (Promise!Give(request) \/ Promise!End(request))
      BY <2>1, <2>2, FailureKeeps
    <2>4. request \in Streams
      BY <2>1
    <2> QED BY <2>3, <2>4, Answered
  <1>5. ASSUME Takes("damaged") \/ Takes("partial"),
               discontinuous' = [discontinuous EXCEPT ![request] = TRUE],
               queue' = [queue EXCEPT ![request] = Tail(@)],
               Takes("damaged") => got = << >>,
               UNCHANGED << file, pos, last, sought, enabled, request, got, gotFlag >>
        PROVE  OrderInv' /\ UNCHANGED Promise!promiseVars
    <2>1. PICK s \in Streams : s = request
      BY <1>5, TakenFront
    <2>2. queue'[s] = Tail(queue[s]) /\ discontinuous'[s]
      BY <1>5, <2>1 DEF TypeOK
    <2>3. ASSUME NEW t \in Streams, t # s PROVE queue'[t] = queue[t] /\ discontinuous'[t] = discontinuous[t]
      BY <1>5, <2>1, <2>3 DEF TypeOK
    <2>4. CASE Takes("partial")
      <3>1. PassesNothing(s)
        <4>1. /\ Front(s) \in Positions /\ Front(s)' \in Nat /\ Front(s) < Front(s)'
              /\ file[Front(s)].outcome = "partial"
              /\ \A k \in Front(s) + 1 .. Front(s)' - 1 : ~Of(s, k)
          BY <1>5, <2>1, <2>2, <2>4, AfterTaken
        <4>2. ASSUME NEW k \in Front(s) .. Front(s)' - 1, Of(s, k) PROVE file[k].outcome = "partial"
          BY <4>1, <4>2 DEF Positions
        <4> QED BY <4>1, <4>2 DEF PassesNothing, Positions
      <3>2. \A t \in Streams : enabled[t] => PassesNothing(t)
        BY <1>5, <1>b, <2>3, <3>1
      <3>3. \A t \in Streams : discontinuous[t] => discontinuous'[t]
        BY <2>2, <2>3
      <3> QED BY <1>5, <1>a, <3>2, <3>3, OrderWaits
    <2>5. CASE Takes("damaged")
      <3>1. got = << >>
        BY <1>5, <2>5
      <3>2. /\ Front(s)' \in Nat /\ Front(s) < Front(s)' /\ Front(s) \in Positions
        BY <1>5, <2>1, <2>2, <2>5, AfterTaken
      <3>3. LastBehind(s)'
        <4>1. last[s] \in 0 .. FileLength /\ (enabled[s] => last[s] < Front(s))
          BY DEF OrderInv, LastBehind, TypeOK
        <4> QED BY <1>5, <3>2, <4>1 DEF LastBehind, Positions
      <3>4. GapMarked(s)'
        BY <2>2 DEF GapMarked
      <3>5. ASSUME NEW t \in Streams, t # s PROVE LastBehind(t)' /\ GapMarked(t)'
        BY <1>5, <1>b, <2>3, <3>1, <3>5, OrderKept DEF OrderInv
      <3> QED BY <1>5, <3>1, <3>3, <3>4, <3>5 DEF OrderInv, Promise!promiseVars
    <2> QED BY <1>5, <2>4, <2>5
  <1>6. CASE SkipDamaged
    BY <1>5, <1>6 DEF SkipDamaged, MayBeSkipped, AllowSkip, history
  <1>7. CASE SkipPartial
    <2>1. ~Takes("damaged")
      BY <1>7 DEF SkipPartial, Takes
    <2> QED BY <1>5, <1>7, <2>1 DEF SkipPartial, history
  <1>8. CASE TakeDamaged
    <2>1. PICK s \in Streams : s = request
      BY <1>8, TakenFront DEF TakeDamaged
    <2>2. /\ UNCHANGED << file, pos >> /\ Returns /\ (CutShort \/ DisableStream) /\ Takes("damaged")
          /\ queue' = [queue EXCEPT ![s] = Left(Tail(@))]
          /\ discontinuous' = [discontinuous EXCEPT ![s] = TRUE]
      BY <1>8, <2>1 DEF TakeDamaged
    <2>3. \A t \in Streams \ {s} : queue'[t] = queue[t] /\ discontinuous'[t] = discontinuous[t]
      BY <2>2 DEF TypeOK
    <2>4. CutShort => discontinuous'[s] /\ queue'[s] = Tail(queue[s])
      BY <2>2 DEF CutShort, Left, TypeOK
    <2>5. OrderInv' /\ (Promise!Give(request) \/ Promise!End(request))
      BY <2>1, <2>2, <2>3, <2>4, FailureKeeps
    <2>6. request \in Streams
      BY <2>1
    <2> QED BY <2>5, <2>6, Answered
  <1>9. CASE TakeUnwritable
    <2>1. PICK s \in Streams : s = request
      BY <1>9, TakenFront DEF TakeUnwritable
    <2>2. /\ UNCHANGED << file, pos >> /\ Returns /\ DisableStream
          /\ queue' = [queue EXCEPT ![s] = << >>]
          /\ discontinuous' = [discontinuous EXCEPT ![s] = TRUE]
      BY <1>9, <2>1 DEF TakeUnwritable
    <2>3. \A t \in Streams \ {s} : queue'[t] = queue[t] /\ discontinuous'[t] = discontinuous[t]
      BY <2>2 DEF TypeOK
    <2>4. ~CutShort
      BY <2>2 DEF CutShort, DisableStream
    <2>5. OrderInv' /\ (Promise!Give(request) \/ Promise!End(request))
      BY <2>1, <2>2, <2>3, <2>4, FailureKeeps
    <2>6. request \in Streams
      BY <2>1
    <2> QED BY <2>5, <2>6, Answered
  <1>10. CASE Gather
    BY <1>10, GatherKeeps
  <1>11. CASE Deliver
    <2>1. request \in Streams
      BY <1>11, TakenFront DEF Deliver
    <2> QED BY <1>11, <2>1, DeliverGives DEF Promise!PromiseNext
  <1>12. ASSUME NEW p \in 1 .. FileLength + 1, Seek(p)
         PROVE  OrderInv' /\ Promise!Jump(p)
    <2>1. /\ UNCHANGED << file, request, got >> /\ pos' = p /\ got = << >>
          /\ \A s \in Streams : enabled'[s] /\ queue'[s] = << >> /\ discontinuous'[s]
          /\ last' = [s \in Streams |-> p - 1] /\ sought' = [s \in Streams |-> TRUE]
      BY <1>12, <1>a DEF Seek, MaySeek, serving, Gathered
    <2>2. ASSUME NEW s \in Streams PROVE LastBehind(s)' /\ GapMarked(s)'
      <3>1. Front(s)' = p /\ last'[s] = p - 1
        BY <2>1 DEF Front
      <3>2. p - 1 < p
        OBVIOUS
      <3> QED BY <2>1, <3>1, <3>2 DEF LastBehind, GapMarked
    <2>3. [s \in Streams |-> ~enabled'[s]] = [s \in Streams |-> FALSE]
      BY <2>1
    <2> QED BY <2>1, <2>2, <2>3 DEF OrderInv, Promise!Jump
  <1>13. CASE UNCHANGED vars
    <2>1. UNCHANGED << file, pos, queue, last, sought, enabled, request, got, gotFlag, discontinuous >>
      BY <1>13 DEF vars, providers, serving, history
    <2> QED BY <1>a, <1>b, <2>1, OrderWaits
  <1>14. ASSUME NEW s \in Streams, RequestSample(s) \/ RequestEnded(s)
         PROVE  OrderInv' /\ [Promise!PromiseNext]_Promise!promiseVars
    BY <1>1, <1>2, <1>14 DEF Promise!PromiseNext
  <1>15. ASSUME NEW p \in 1 .. FileLength + 1, Seek(p)
         PROVE  OrderInv' /\ [Promise!PromiseNext]_Promise!promiseVars
    BY <1>12, <1>15 DEF Promise!PromiseNext
  <1> QED BY <1>3, <1>4, <1>6, <1>7, <1>8, <1>9, <1>10, <1>11, <1>13, <1>14, <1>15
          DEF SourceNext, Serve, SeekStep

(***************************************************************************)
(* The samples are in order, whole and marked (SamplesInOrder of           *)
(* SourceProperties), for every file and every choice of the pipeline, as  *)
(* long as it does not seek in the middle of a request.                    *)
(***************************************************************************)
THEOREM SourceKeepsPromise ==
  ASSUME Overlap = FALSE
  PROVE  SourceSpec => SamplesInOrder
  <1>1. TypeOK /\ QueueComplete /\ StartInv /\ OrderInv /\ [SourceNext]_vars
        => OrderInv' /\ [Promise!PromiseNext]_Promise!promiseVars
    BY OrderStep
  <1> QED
    BY <1>1, TypeInit, TypeStep, QueueInit, QueueStep, StartInit, StartStep, OrderInit, PTL
    DEF SourceSpec, SamplesInOrder, Promise!PromiseSpec

-----------------------------------------------------------------------------
(***************************************************************************)
(* Why a stream ends.  Between the last sample of a stream and the first   *)
(* packet not taken nothing good is left out, and the packets that failed  *)
(* are at least those that the request has skipped.                        *)
(***************************************************************************)
NoneGood(s, i, j) == \A k \in i + 1 .. j - 1 : Of(s, k) => file[k].outcome # "ok"

Failed(s, i, j) ==
  { k \in i + 1 .. j - 1 : Of(s, k) /\ file[k].outcome \in { "damaged", "partial" } }

NoGoodPassed(s) == enabled[s] /\ (s # request \/ got = << >>) => NoneGood(s, last[s], Front(s))

SkipsCounted(s) ==
  s = request /\ enabled[s] /\ got = << >> => skips <= Cardinality(Failed(s, last[s], Front(s)))

EndInv ==
  /\ \A s \in Streams : NoGoodPassed(s)
  /\ request = NoStream => skips = 0
  /\ \A s \in Streams : SkipsCounted(s)

LEMMA FailedFinite ==
  ASSUME NEW s, NEW i \in Int, NEW j \in Int
  PROVE  IsFiniteSet(Failed(s, i, j)) /\ Cardinality(Failed(s, i, j)) \in Nat
  <1>1. i + 1 \in Int /\ j - 1 \in Int OBVIOUS
  <1>2. IsFiniteSet(i + 1 .. j - 1) BY <1>1, FS_Interval
  <1>3. Failed(s, i, j) \in SUBSET (i + 1 .. j - 1) BY DEF Failed
  <1>4. IsFiniteSet(Failed(s, i, j)) BY <1>2, <1>3, FS_Subset
  <1> QED BY <1>4, FS_CardinalityType

(* Further on in the file as many packets have failed, and more past one that has. *)
LEMMA FailedGrows ==
  ASSUME NEW s, NEW i \in Nat, NEW j \in Nat, NEW k \in Nat, j <= k
  PROVE  /\ Cardinality(Failed(s, i, j)) <= Cardinality(Failed(s, i, k))
         /\ i < j /\ j < k /\ Of(s, j) /\ file[j].outcome \in { "damaged", "partial" } =>
              Cardinality(Failed(s, i, j)) + 1 <= Cardinality(Failed(s, i, k))
  <1>1. /\ IsFiniteSet(Failed(s, i, j)) /\ Cardinality(Failed(s, i, j)) \in Nat
        /\ IsFiniteSet(Failed(s, i, k)) /\ Cardinality(Failed(s, i, k)) \in Nat
    BY FailedFinite
  <1>2. Failed(s, i, j) \subseteq Failed(s, i, k) BY DEF Failed
  <1>3. Cardinality(Failed(s, i, j)) <= Cardinality(Failed(s, i, k))
    BY <1>1, <1>2, FS_Subset
  <1>4. ASSUME i < j, j < k, Of(s, j), file[j].outcome \in { "damaged", "partial" }
        PROVE  Cardinality(Failed(s, i, j)) + 1 <= Cardinality(Failed(s, i, k))
    <2> DEFINE more == Failed(s, i, j) \cup { j }
    <2>1. j \notin Failed(s, i, j) /\ j \in Failed(s, i, k) BY <1>4 DEF Failed
    <2>2. IsFiniteSet(more) /\ Cardinality(more) = Cardinality(Failed(s, i, j)) + 1
      BY <1>1, <2>1, FS_AddElement
    <2>3. more \subseteq Failed(s, i, k) BY <1>2, <2>1
    <2> HIDE DEF more
    <2>4. Cardinality(more) <= Cardinality(Failed(s, i, k)) BY <1>1, <2>3, FS_Subset
    <2> QED BY <2>2, <2>4
  <1> QED BY <1>3, <1>4

LEMMA EndInit == SourceInit => EndInv
  <1> SUFFICES ASSUME SourceInit PROVE EndInv OBVIOUS
  <1>1. ASSUME NEW s \in Streams PROVE NoGoodPassed(s)
    <2>1. last[s] = 0 /\ Front(s) = 1 BY DEF SourceInit, Front
    <2> QED BY <2>1 DEF NoGoodPassed, NoneGood
  <1>2. request = NoStream /\ skips = 0 BY DEF SourceInit
  <1>3. \A s \in Streams : SkipsCounted(s) BY <1>2, SourceAssumption DEF SkipsCounted
  <1> QED BY <1>1, <1>2, <1>3 DEF EndInv

(* What is true of a stream stays true while it passes nothing but packets that fail. *)
LEMMA PassedKept ==
  ASSUME TypeOK, NEW s \in Streams, file' = file, last'[s] = last[s],
         enabled'[s] => enabled[s] /\ Waits(s)
  PROVE  /\ NoGoodPassed(s) /\ (s # request \/ got = << >>) => NoGoodPassed(s)'
         /\ SkipsCounted(s) /\ UNCHANGED << request, skips, got >> => SkipsCounted(s)'
  <1>1. last[s] \in Nat /\ Front(s) \in Nat BY FrontType DEF TypeOK
  <1>2. ASSUME NoGoodPassed(s), s # request \/ got = << >>, enabled'[s]
        PROVE  NoneGood(s, last[s], Front(s))'
    <2>1. /\ Front(s)' \in Nat /\ Front(s) <= Front(s)'
          /\ \A k \in Front(s) .. Front(s)' - 1 :
               Of(s, k) => file[k].outcome \in { "damaged", "partial" }
      BY <1>2 DEF Waits
    <2>2. \A k \in last[s] + 1 .. Front(s) - 1 : Of(s, k) => file[k].outcome # "ok"
      BY <1>2 DEF NoGoodPassed, NoneGood
    <2>3. ASSUME NEW k \in last[s] + 1 .. Front(s)' - 1, Of(s, k)
          PROVE  file[k].outcome # "ok"
      <3>1. k \in last[s] + 1 .. Front(s) - 1 \/ k \in Front(s) .. Front(s)' - 1
        BY <1>1, <2>1
      <3> QED BY <2>1, <2>2, <2>3, <3>1
    <2> QED BY <2>3 DEF NoneGood, Of
  <1>3. ASSUME SkipsCounted(s), UNCHANGED << request, skips, got >>, s = request, enabled'[s], got = << >>
        PROVE  (skips <= Cardinality(Failed(s, last[s], Front(s))))'
    <2>1. Front(s)' \in Nat /\ Front(s) <= Front(s)' BY <1>3 DEF Waits
    <2>2. skips <= Cardinality(Failed(s, last[s], Front(s))) BY <1>3 DEF SkipsCounted
    <2>3. Failed(s, last[s], Front(s))' = Failed(s, last[s], Front(s)') BY DEF Failed, Of
    <2>4. /\ Cardinality(Failed(s, last[s], Front(s))) \in Nat
          /\ Cardinality(Failed(s, last[s], Front(s)')) \in Nat
      BY <1>1, <2>1, FailedFinite
    <2>5. Cardinality(Failed(s, last[s], Front(s))) <= Cardinality(Failed(s, last[s], Front(s)'))
      BY <1>1, <2>1, FailedGrows
    <2>6. skips \in Nat BY SourceAssumption DEF TypeOK
    <2> QED BY <1>3, <2>2, <2>3, <2>4, <2>5, <2>6
  <1> QED BY <1>2, <1>3 DEF NoGoodPassed, SkipsCounted

(* Every stream is as it was, or goes on only past packets that fail. *)
LEMMA EndWaits ==
  ASSUME TypeOK, EndInv, Gathered, UNCHANGED << file, last, enabled, request, got, skips >>,
         \A s \in Streams : enabled[s] => Waits(s),
         request \in Streams /\ got # << >> => RunAtFront(request)'
  PROVE  EndInv'
  <1>1. ASSUME NEW s \in Streams PROVE NoGoodPassed(s)' /\ SkipsCounted(s)'
    <2>1. NoGoodPassed(s) /\ SkipsCounted(s) BY DEF EndInv
    <2>2. CASE s # request \/ got = << >> BY <2>1, <2>2, PassedKept
    <2>3. CASE s = request /\ got # << >>
      BY <2>3 DEF NoGoodPassed, SkipsCounted
    <2> QED BY <2>2, <2>3
  <1> QED BY <1>1 DEF EndInv

(* A request that fails leaves its stream behind its last sample, or disabled. *)
LEMMA EndFails ==
  ASSUME TypeOK, QueueComplete, StartInv, OrderInv, EndInv, CutShort \/ DisableStream, Returns,
         NEW s \in Streams, s = request, file' = file, pos' = pos,
         \A t \in Streams \ {s} : queue'[t] = queue[t],
         CutShort => \/ queue'[s] = queue[s]
                     \/ Takes("damaged") /\ queue'[s] = Tail(queue[s])
  PROVE  EndInv'
  <1>1. request' = NoStream /\ skips' = 0 /\ got' = << >> BY DEF Returns
  <1>2. ASSUME NEW t \in Streams, t # s PROVE NoGoodPassed(t)'
    <2>1. last'[t] = last[t] /\ enabled'[t] = enabled[t]
      BY <1>2 DEF CutShort, DisableStream, TypeOK
    <2>2. Waits(t) BY <1>2, FrontStays
    <2> QED BY <1>2, <2>1, <2>2, PassedKept DEF EndInv
  <1>3. NoGoodPassed(s)'
    <2>1. CASE DisableStream
      <3>1. ~enabled'[s] BY <2>1 DEF DisableStream, TypeOK
      <3> QED BY <3>1 DEF NoGoodPassed
    <2>2. CASE CutShort
      <3> DEFINE l == got[Len(got)]
      <3>1. got # << >> /\ last'[s] = l /\ enabled'[s] = enabled[s]
        BY <2>2 DEF CutShort, TypeOK
      <3>2. l \in Nat /\ Front(s) \in Nat
        <4>1. got \in Seq(Positions) /\ Len(got) \in 1 .. Len(got)
          BY <3>1, TailFacts DEF TypeOK
        <4>2. l \in Positions BY <4>1, ElementOfSeq
        <4> QED BY <4>2, FrontType DEF Positions
      <3>3. enabled[s] /\ l < Front(s) /\ ~Missing(s, l, Front(s))
        BY <3>1 DEF OrderInv, RunAtFront
      <3> HIDE DEF l
      <3>4. \A k \in l + 1 .. Front(s) - 1 : Of(s, k) => file[k].outcome = "partial"
        BY <3>3 DEF Missing, Promise!Missing, Of
      <3>5. Waits(s)
        <4>1. CASE queue'[s] = queue[s] BY <4>1, FrontStays
        <4>2. CASE Takes("damaged") /\ queue'[s] = Tail(queue[s]) BY <3>3, <4>2, FrontWaits
        <4> QED BY <2>2, <4>1, <4>2
      <3>6. ASSUME NEW k \in l + 1 .. Front(s)' - 1, Of(s, k) PROVE file[k].outcome # "ok"
        <4>1. /\ Front(s)' \in Nat /\ Front(s) <= Front(s)'
              /\ \A m \in Front(s) .. Front(s)' - 1 :
                   Of(s, m) => file[m].outcome \in { "damaged", "partial" }
          BY <3>5 DEF Waits
        <4>2. k \in l + 1 .. Front(s) - 1 \/ k \in Front(s) .. Front(s)' - 1 BY <3>2, <4>1
        <4> QED BY <3>4, <3>6, <4>1, <4>2
      <3> QED BY <3>1, <3>6 DEF NoGoodPassed, NoneGood, Of
    <2> QED BY <2>1, <2>2
  <1>4. \A t \in Streams : SkipsCounted(t)' BY <1>1, SourceAssumption DEF SkipsCounted
  <1> QED BY <1>1, <1>2, <1>3, <1>4 DEF EndInv

(* A packet skipped has failed, and is counted once. *)
LEMMA EndSkips ==
  ASSUME TypeOK, QueueComplete, StartInv, OrderInv, EndInv, OrderInv',
         Takes("damaged") \/ Takes("partial"),
         queue' = [queue EXCEPT ![request] = Tail(@)],
         skips' = skips \/ (skips' = skips + 1 /\ got = << >>),
         UNCHANGED << file, pos, last, enabled, request, got >>
  PROVE  EndInv'
  <1>1. PICK s \in Streams : s = request BY TakenFront
  <1>2. queue'[s] = Tail(queue[s]) /\ \A t \in Streams \ {s} : queue'[t] = queue[t]
    BY <1>1 DEF TypeOK
  <1>3. /\ enabled[s] /\ Front(s) \in Positions /\ Of(s, Front(s))
        /\ file[Front(s)].outcome \in { "damaged", "partial" }
        /\ Front(s)' \in Nat /\ Front(s) < Front(s)'
    BY <1>1, <1>2, AfterTaken
  <1>4. \A t \in Streams : enabled[t] => Waits(t)
    BY <1>1, <1>2, FrontStays, FrontWaits
  <1>5. got # << >> => RunAtFront(request)' BY DEF OrderInv
  <1>6. ASSUME NEW t \in Streams PROVE NoGoodPassed(t)'
    <2>1. CASE t # request \/ got = << >> BY <1>4, <2>1, PassedKept DEF EndInv
    <2>2. CASE t = request /\ got # << >> BY <2>2 DEF NoGoodPassed
    <2> QED BY <2>1, <2>2
  <1>7. SkipsCounted(s)'
    <2> SUFFICES ASSUME got = << >> PROVE (skips <= Cardinality(Failed(s, last[s], Front(s))))'
      BY DEF SkipsCounted
    <2>1. last[s] \in Nat /\ Front(s) \in Nat /\ last[s] < Front(s) /\ skips \in Nat
      BY <1>3, FrontType, SourceAssumption DEF TypeOK, OrderInv, LastBehind, Positions
    <2>2. skips <= Cardinality(Failed(s, last[s], Front(s))) BY <1>1, <1>3 DEF EndInv, SkipsCounted
    <2>3. Failed(s, last[s], Front(s))' = Failed(s, last[s], Front(s)') BY DEF Failed, Of
    <2>4. /\ Cardinality(Failed(s, last[s], Front(s))) \in Nat
          /\ Cardinality(Failed(s, last[s], Front(s)')) \in Nat
      BY <1>3, <2>1, FailedFinite
    <2>5. Cardinality(Failed(s, last[s], Front(s))) + 1
            <= Cardinality(Failed(s, last[s], Front(s)'))
      BY <1>3, <2>1, FailedGrows
    <2> QED BY <2>1, <2>2, <2>3, <2>4, <2>5
  <1>8. \A t \in Streams : SkipsCounted(t)' BY <1>1, <1>7 DEF SkipsCounted
  <1>9. request' # NoStream BY <1>1, SourceAssumption
  <1> QED BY <1>6, <1>8, <1>9 DEF EndInv

LEMMA EndStep ==
  ASSUME Overlap = FALSE, TypeOK, QueueComplete, StartInv, OrderInv, EndInv,
         [SourceNext]_vars, OrderInv'
  PROVE  EndInv'
  <1>a. Gathered /\ NoStream \notin Streams BY SourceAssumption DEF StartInv
  <1>1. ASSUME NEW s \in Streams, RequestSample(s) PROVE EndInv'
    <2>1. /\ request = NoStream /\ request' = s /\ skips' = 0 /\ skips = 0
          /\ UNCHANGED << file, pos, queue, enabled, last, got >>
      BY <1>1 DEF RequestSample, providers, EndInv
    <2>2. ASSUME NEW t \in Streams PROVE NoGoodPassed(t)'
      BY <1>a, <2>1, FrontStays, PassedKept DEF EndInv
    <2>3. ASSUME NEW t \in Streams PROVE SkipsCounted(t)'
      <3>1. last[t] \in Nat /\ Front(t) \in Nat BY FrontType DEF TypeOK
      <3>2. Failed(t, last[t], Front(t))' = Failed(t, last[t], Front(t))
        BY <2>1, FrontStays DEF Failed, Of
      <3>3. Cardinality(Failed(t, last[t], Front(t))) \in Nat BY <3>1, FailedFinite
      <3> QED BY <2>1, <3>2, <3>3 DEF SkipsCounted
    <2> QED BY <1>a, <2>1, <2>2, <2>3 DEF EndInv
  <1>b. ASSUME UNCHANGED << file, pos, queue, enabled, last, request, got, skips >> PROVE EndInv'
    <2>1. \A s \in Streams : Waits(s) BY <1>b, FrontStays
    <2>2. got # << >> => RunAtFront(request)' BY <1>b DEF OrderInv
    <2> QED BY <1>a, <1>b, <2>1, <2>2, EndWaits
  <1>2. ASSUME NEW s \in Streams, RequestEnded(s) PROVE EndInv'
    BY <1>b, <1>2 DEF RequestEnded, providers, serving
  <1>3. CASE ReadPacket
    <2>1. UNCHANGED << file, last, enabled, request, got, skips >>
      BY <1>3 DEF ReadPacket, serving, history
    <2>2. ASSUME NEW s \in Streams, enabled[s] PROVE Waits(s)
      BY <1>3, <2>2, FrontRead, QueueParts DEF Waits
    <2>3. got # << >> => RunAtFront(request)' BY <2>1 DEF OrderInv
    <2> QED BY <1>a, <2>1, <2>2, <2>3, EndWaits
  <1>4. CASE ReadFails
    <2>1. request \in Streams BY <1>4 DEF ReadFails, TypeOK
    <2>2. UNCHANGED << file, pos, queue >> /\ Returns /\ (CutShort \/ DisableStream)
      BY <1>4 DEF ReadFails
    <2> QED BY <2>1, <2>2, EndFails
  <1>5. CASE SkipDamaged \/ SkipPartial
    <2>1. /\ Takes("damaged") \/ Takes("partial")
          /\ queue' = [queue EXCEPT ![request] = Tail(@)]
          /\ skips' = skips \/ (skips' = skips + 1 /\ got = << >>)
          /\ UNCHANGED << file, pos, last, enabled, request, got >>
      BY <1>5 DEF SkipDamaged, SkipPartial, MayBeSkipped, AllowSkip, history
    <2> QED BY <2>1, EndSkips
  <1>6. CASE TakeDamaged
    <2>1. request \in Streams BY <1>6, TakenFront DEF TakeDamaged
    <2>2. /\ UNCHANGED << file, pos >> /\ Returns /\ (CutShort \/ DisableStream) /\ Takes("damaged")
          /\ queue' = [queue EXCEPT ![request] = Left(Tail(@))]
      BY <1>6 DEF TakeDamaged
    <2>3. \A t \in Streams \ {request} : queue'[t] = queue[t] BY <2>2 DEF TypeOK
    <2>4. CutShort => queue'[request] = Tail(queue[request])
      BY <2>1, <2>2 DEF CutShort, Left, TypeOK
    <2> QED BY <2>1, <2>2, <2>3, <2>4, EndFails
  <1>7. CASE TakeUnwritable
    <2>1. request \in Streams BY <1>7, TakenFront DEF TakeUnwritable
    <2>2. /\ UNCHANGED << file, pos >> /\ Returns /\ DisableStream
          /\ queue' = [queue EXCEPT ![request] = << >>]
      BY <1>7 DEF TakeUnwritable
    <2>3. \A t \in Streams \ {request} : queue'[t] = queue[t] BY <2>2 DEF TypeOK
    <2>4. ~CutShort BY <2>2 DEF CutShort, DisableStream
    <2> QED BY <2>1, <2>2, <2>3, <2>4, EndFails
  <1>8. CASE Gather
    <2>1. PICK s \in Streams : s = request BY <1>8, TakenFront DEF Gather
    <2>2. /\ UNCHANGED << file, pos, enabled, last, request, skips >>
          /\ queue' = [queue EXCEPT ![s] = Tail(@)]
          /\ got' = Append(got, Head(queue[s]))
      BY <1>8, <2>1 DEF Gather
    <2>3. got' # << >>
      <3>1. got \in Seq(Positions) /\ Head(queue[s]) \in Positions
        BY <1>8, <2>1, TakenFront DEF Gather, TypeOK
      <3> QED BY <2>2, <3>1, AppendFacts
    <2>4. ASSUME NEW t \in Streams PROVE NoGoodPassed(t)'
      <3>1. CASE t = s BY <2>1, <2>2, <2>3, <3>1 DEF NoGoodPassed
      <3>2. CASE t # s
        <4>1. queue'[t] = queue[t] BY <2>2, <3>2 DEF TypeOK
        <4> QED BY <2>1, <2>2, <3>2, <4>1, FrontStays, PassedKept DEF EndInv
      <3> QED BY <3>1, <3>2
    <2>5. \A t \in Streams : SkipsCounted(t)' BY <2>3 DEF SkipsCounted
    <2> QED BY <1>a, <2>1, <2>2, <2>4, <2>5 DEF EndInv
  <1>9. CASE Deliver
    <2>1. PICK s \in Streams : s = request BY <1>9, TakenFront DEF Deliver
    <2>2. /\ Takes("ok") /\ UNCHANGED << file, pos, enabled >> /\ Returns
          /\ last' = [last EXCEPT ![s] = Head(queue[s])]
          /\ queue' = [queue EXCEPT ![s] = Tail(@)]
      BY <1>9, <2>1 DEF Deliver
    <2>3. request' = NoStream /\ skips' = 0 BY <2>2 DEF Returns
    <2>4. ASSUME NEW t \in Streams, t # s PROVE NoGoodPassed(t)'
      <3>1. queue'[t] = queue[t] /\ last'[t] = last[t] BY <2>2, <2>4 DEF TypeOK
      <3> QED BY <2>1, <2>2, <2>4, <3>1, FrontStays, PassedKept DEF EndInv
    <2>5. NoGoodPassed(s)'
      <3>1. queue'[s] = Tail(queue[s]) /\ last'[s] = Head(queue[s]) BY <2>2 DEF TypeOK
      <3>2. /\ Front(s) = Head(queue[s])
            /\ \A k \in Front(s) + 1 .. Front(s)' - 1 : ~Of(s, k)
        BY <2>1, <2>2, <3>1, AfterTaken
      <3>3. \A k \in last'[s] + 1 .. Front(s)' - 1 : ~Of(s, k)' BY <2>2, <3>1, <3>2 DEF Of
      <3> QED BY <3>3 DEF NoGoodPassed, NoneGood
    <2>6. \A t \in Streams : SkipsCounted(t)' BY <1>a, <2>3 DEF SkipsCounted
    <2> QED BY <2>3, <2>4, <2>5, <2>6 DEF EndInv
  <1>10. ASSUME NEW p \in 1 .. FileLength + 1, Seek(p) PROVE EndInv'
    <2>1. /\ UNCHANGED << request, skips >> /\ request = NoStream /\ pos' = p
          /\ queue' = [s \in Streams |-> << >>] /\ last' = [s \in Streams |-> p - 1]
      BY <1>10 DEF Seek, MaySeek, serving
    <2>2. ASSUME NEW s \in Streams PROVE NoGoodPassed(s)'
      <3>1. Front(s)' = p /\ last'[s] = p - 1 BY <2>1 DEF Front
      <3>2. last'[s] + 1 .. Front(s)' - 1 = { } BY <3>1, SourceAssumption
      <3> QED BY <3>2 DEF NoGoodPassed, NoneGood
    <2>3. \A s \in Streams : SkipsCounted(s)' BY <1>a, <2>1 DEF SkipsCounted
    <2> QED BY <2>1, <2>2, <2>3 DEF EndInv
  <1>11. CASE UNCHANGED vars
    BY <1>b, <1>11 DEF vars, providers, serving, history
  <1> QED BY <1>1, <1>2, <1>3, <1>4, <1>5, <1>6, <1>7, <1>8, <1>9, <1>10, <1>11
          DEF SourceNext, Serve, SeekStep

(* The packets of a stream with these outcomes, since its last sample. *)
Passed(s, outcomes) ==
  { i \in last[s] + 1 .. pos - 1 : Of(s, i) /\ file[i].outcome \in outcomes }

Reason(s) ==
  \/ ReadErrors /\ pos \in Positions /\ queue[s] = << >>
  \/ \A i \in last[s] + 1 .. FileLength : Of(s, i) => file[i].outcome # "ok"
  \/ Cardinality(Passed(s, {"damaged", "partial"})) > MaxSkips
  \/ Passed(s, {"unwritable"}) # {}

(* A step that ends a stream has one of the reasons. *)
LEMMA EndReason ==
  ASSUME TypeOK, QueueComplete, StartInv, OrderInv, EndInv, SourceNext, NEW s \in Streams,
         request = s, request' = NoStream, enabled[s], answer' = Ends(s)
  PROVE  Reason(s)
  <1>a. s # NoStream /\ answer'.got = << >> BY SourceAssumption DEF Ends, Answer
  <1>1. ~(\E t \in Streams : RequestSample(t) \/ RequestEnded(t))
    BY <1>a DEF RequestSample, RequestEnded
  <1>2. ~(\E p \in 1 .. FileLength + 1 : Seek(p)) BY <1>a DEF Seek, serving
  <1>3. ~(ReadPacket \/ SkipDamaged \/ SkipPartial \/ Gather)
    BY <1>a DEF ReadPacket, SkipDamaged, SkipPartial, Gather, serving
  <1>4. ~Deliver
    <2> SUFFICES ASSUME Deliver PROVE FALSE OBVIOUS
    <2>1. PICK flag, time : answer' = Answer(request, Packets, flag, time)
      BY DEF Deliver, Packets
    <2>2. answer'.got = Packets BY <2>1 DEF Answer
    <2>3. Packets # << >> BY PacketsRun DEF Deliver
    <2> QED BY <1>a, <2>2, <2>3
  <1>5. ~CutShort
    <2> SUFFICES ASSUME CutShort PROVE FALSE OBVIOUS
    <2>1. PICK time : answer' = Answer(request, got, gotFlag, time) /\ got # << >>
      BY DEF CutShort
    <2> QED BY <1>a, <2>1 DEF Answer
  <1>6. NoneGood(s, last[s], Front(s)) \/ got # << >> BY DEF EndInv, NoGoodPassed
  <1>7. /\ last[s] \in Nat /\ Front(s) \in Nat /\ pos \in Nat /\ FileLength \in Nat
        /\ skips \in Nat /\ MaxSkips \in Nat
    BY FrontType, SourceAssumption DEF TypeOK
  <1>8. CASE ReadFails
    <2>1. queue[s] = << >> /\ (pos \in Positions => ReadErrors) /\ got = << >>
      BY <1>5, <1>8 DEF ReadFails, DisableStream
    <2>2. CASE pos \in Positions BY <2>1, <2>2 DEF Reason
    <2>3. CASE pos \notin Positions
      <3>1. Front(s) = FileLength + 1 BY <1>7, <2>1, <2>3 DEF Front, Positions, TypeOK
      <3>2. \A i \in last[s] + 1 .. FileLength : Of(s, i) => file[i].outcome # "ok"
        BY <1>6, <1>7, <2>1, <3>1 DEF NoneGood
      <3> QED BY <3>2 DEF Reason
    <2> QED BY <2>2, <2>3
  <1>9. ASSUME NEW outcome, Takes(outcome)
        PROVE  /\ Front(s) \in last[s] + 1 .. pos - 1 /\ Of(s, Front(s))
               /\ file[Front(s)].outcome = outcome
    <2>1. /\ Front(s) \in Positions /\ Of(s, Front(s)) /\ file[Front(s)].outcome = outcome
          /\ Front(s) = Head(queue[s])
      BY <1>9, AfterTaken
    <2>2. queue[s] # << >> /\ queue[s] \in Seq(Positions) BY <1>9 DEF Takes, TypeOK
    <2>3. Head(queue[s]) = queue[s][1] /\ 1 \in 1 .. Len(queue[s]) BY <2>2, TailFacts
    <2>4. Front(s) < pos BY <2>1, <2>3 DEF QueueComplete
    <2>5. last[s] < Front(s) BY DEF OrderInv, LastBehind
    <2> QED BY <1>7, <2>1, <2>4, <2>5
  <1>10. CASE TakeDamaged
    <2>1. Takes("damaged") /\ got = << >> /\ skips >= MaxSkips
      BY <1>5, <1>7, <1>10 DEF TakeDamaged, DisableStream, MayBeSkipped, AllowSkip
    <2>2. skips <= Cardinality(Failed(s, last[s], Front(s))) BY <2>1 DEF EndInv, SkipsCounted
    <2>3. /\ Front(s) \in last[s] + 1 .. pos - 1 /\ Of(s, Front(s))
          /\ file[Front(s)].outcome = "damaged"
      BY <1>9, <2>1
    <2>4. last[s] < Front(s) /\ Front(s) < pos BY <1>7, <2>3
    <2>5. Cardinality(Failed(s, last[s], Front(s))) + 1 <= Cardinality(Failed(s, last[s], pos))
      BY <1>7, <2>3, <2>4, FailedGrows
    <2>6. /\ Cardinality(Failed(s, last[s], Front(s))) \in Nat
          /\ Cardinality(Failed(s, last[s], pos)) \in Nat
      BY <1>7, FailedFinite
    <2>7. Failed(s, last[s], pos) = Passed(s, {"damaged", "partial"}) BY DEF Failed, Passed
    <2>8. Cardinality(Failed(s, last[s], pos)) > MaxSkips BY <1>7, <2>1, <2>2, <2>5, <2>6
    <2> QED BY <2>7, <2>8 DEF Reason
  <1>11. CASE TakeUnwritable
    <2>1. Takes("unwritable") BY <1>11 DEF TakeUnwritable
    <2>2. Front(s) \in Passed(s, {"unwritable"}) BY <1>9, <2>1 DEF Passed
    <2> QED BY <2>2 DEF Reason
  <1> QED BY <1>1, <1>2, <1>3, <1>4, <1>8, <1>10, <1>11 DEF SourceNext, Serve, SeekStep

(***************************************************************************)
(* An enabled stream is ended only with a reason (EndsForAReason of        *)
(* SourceProperties): for every file and sequence of requests and seeks,   *)
(* as long as no seek comes in the middle of a request (GetNextPacket).    *)
(***************************************************************************)
THEOREM StreamsEndForAReason ==
  ASSUME Overlap = FALSE
  PROVE  SourceSpec => EndsForAReason
  <1> DEFINE Sound == \A s \in Streams :
               request = s /\ request' = NoStream /\ enabled[s] /\ answer' = Ends(s) => Reason(s)
  <1>1. TypeOK /\ QueueComplete /\ StartInv /\ OrderInv /\ [SourceNext]_vars => OrderInv'
    BY OrderStep
  <1>2. TypeOK /\ QueueComplete /\ StartInv /\ OrderInv /\ EndInv /\ OrderInv' /\ [SourceNext]_vars
        => EndInv'
    BY EndStep
  <1>3. TypeOK /\ QueueComplete /\ StartInv /\ OrderInv /\ EndInv /\ [SourceNext]_vars
        => [Sound]_vars
    BY EndReason
  <1>4. Sound => \A s \in Streams :
          LET PassedOf(outcomes) ==
                { i \in last[s] + 1 .. pos - 1 : Of(s, i) /\ file[i].outcome \in outcomes }
          IN request = s /\ request' = NoStream /\ enabled[s] /\ answer' = Ends(s) =>
               \/ ReadErrors /\ pos \in Positions /\ queue[s] = << >>
               \/ \A i \in last[s] + 1 .. FileLength : Of(s, i) => file[i].outcome # "ok"
               \/ Cardinality(PassedOf({"damaged", "partial"})) > MaxSkips
               \/ PassedOf({"unwritable"}) # {}
    BY DEF Reason, Passed
  <1> HIDE DEF Sound
  <1> QED
    BY <1>1, <1>2, <1>3, <1>4, TypeInit, TypeStep, QueueInit, QueueStep, StartInit, StartStep,
       OrderInit, EndInit, PTL
    DEF SourceSpec, EndsForAReason

-----------------------------------------------------------------------------
(***************************************************************************)
(* Why a request ends.  What is left for it: the packets of the file not   *)
(* read, which may be put into its queue first, and those in its queue.    *)
(***************************************************************************)
Remaining == 2 * (FileLength + 1 - pos) + Len(queue[request])

Descends == Serve /\ request' = request => Remaining' \in Nat /\ Remaining' < Remaining

LEMMA ServeDescends == TypeOK /\ TypeOK' => Descends
  <1> SUFFICES ASSUME TypeOK, TypeOK', Serve, request' = request
               PROVE  Remaining' \in Nat /\ Remaining' < Remaining
    BY DEF Descends
  <1>1. request \in Streams
    BY DEF Serve, ReadPacket, ReadFails, SkipDamaged, SkipPartial, TakeDamaged, TakeUnwritable,
           Gather, Deliver, Takes, TypeOK
  <1>2. PICK s \in Streams : s = request BY <1>1
  <1>3. /\ pos \in 1 .. FileLength + 1 /\ pos' \in 1 .. FileLength + 1 /\ FileLength \in Nat
        /\ queue[s] \in Seq(Positions) /\ queue'[s] \in Seq(Positions)
    BY SourceAssumption DEF TypeOK
  <1>4. Len(queue[s]) \in Nat /\ Len(queue'[s]) \in Nat BY <1>3
  <1>5. s # NoStream BY SourceAssumption
  <1> DEFINE m == Len(queue[s])
             n == Len(queue'[s])
  <1>a. /\ Remaining = 2 * (FileLength + 1 - pos) + m
        /\ Remaining' = 2 * (FileLength + 1 - pos') + n
    BY <1>2 DEF Remaining
  <1>b. m \in Nat /\ n \in Nat BY <1>4
  <1>6. CASE ReadPacket
    <2>1. pos' = pos + 1 BY <1>6 DEF ReadPacket
    <2>2. n <= m + 1
      <3>1. CASE queue'[s] = Append(queue[s], pos)
        <4>1. pos \in Positions BY <1>6 DEF ReadPacket
        <4> QED BY <1>3, <3>1, <4>1, AppendFacts
      <3>2. CASE queue'[s] = queue[s] BY <1>4, <3>2
      <3> QED BY <1>6, <3>1, <3>2, ReadKinds
    <2> HIDE DEF m, n
    <2> QED BY <1>3, <1>a, <1>b, <2>1, <2>2
  <1>7. CASE SkipDamaged \/ SkipPartial \/ Gather
    <2>1. queue' = [queue EXCEPT ![s] = Tail(@)] /\ queue[s] # << >> /\ pos' = pos
      BY <1>2, <1>7 DEF SkipDamaged, SkipPartial, Gather, Takes
    <2>2. queue'[s] = Tail(queue[s]) BY <2>1 DEF TypeOK
    <2>3. n = m - 1 BY <1>3, <2>1, <2>2, TailFacts
    <2> HIDE DEF m, n
    <2> QED BY <1>3, <1>a, <1>b, <2>1, <2>3
  <1>8. ~(ReadFails \/ TakeDamaged \/ TakeUnwritable \/ Deliver)
    BY <1>2, <1>5 DEF ReadFails, TakeDamaged, TakeUnwritable, Deliver, Returns
  <1> QED BY <1>6, <1>7, <1>8 DEF Serve

(***************************************************************************)
(* Every step of a request that does not return leaves less for it to do,  *)
(* in a file of any length: its loops over packets of other streams, over  *)
(* damaged and partial ones and over those it gathers all come to an end   *)
(* as long as no seek gives it more (GetNextPacket, ReadPacket).           *)
(***************************************************************************)
THEOREM RequestsDescend == SourceSpec => [][Descends]_vars
  <1>1. TypeOK /\ TypeOK' /\ [SourceNext]_vars => [Descends]_vars BY ServeDescends
  <1> QED BY <1>1, SourceTypeCorrect, PTL DEF SourceSpec
=============================================================================
