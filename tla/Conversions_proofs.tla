------------------------ MODULE Conversions_proofs -------------------------
(***************************************************************************)
(* Proofs about the conversions: the packet that is used again, for every  *)
(* codec that gives out at most one frame for each packet, and the NAL     *)
(* units, for every packet, extradata and width of a byte.                 *)
(***************************************************************************)
EXTENDS Conversions, AvCodec_proofs, WellFoundedInduction

-----------------------------------------------------------------------------
(***************************************************************************)
(* The packet.                                                             *)
(***************************************************************************)

(* PacketFromSample leaves the packet without a buffer, or with a buffer it can have. *)
LEMMA PacketFromSampleType ==
  ASSUME NEW p \in AVPacket, NEW s \in MFSample, NEW allocated \in BOOLEAN
  PROVE  PacketFromSample(p, s, allocated) \in AVPacket
  <1>1. s.id \in SampleIds /\ s.size \in SampleSizes /\ SampleIds = 1 .. MaxPackets
    BY DEF MFSample, SampleIds
  <1>2. s.id \in 0 .. MaxPackets BY <1>1, CodecAssumption
  <1>3. NoPacket \in AVPacket BY CodecAssumption DEF NoPacket, AVPacket
  <1>4. [NoPacket EXCEPT !.buffer = s.id, !.size = s.size] \in AVPacket
    BY <1>1, <1>2, <1>3 DEF AVPacket
  <1> DEFINE q == WithBuffer(p, s, allocated)
  <1>5. q \in AVPacket BY <1>3, <1>4 DEF WithBuffer
  <1> HIDE DEF q
  <1>6. [q EXCEPT !.duration = s.id, !.pts = s.id] \in AVPacket
    BY <1>2, <1>5 DEF AVPacket
  <1> QED BY <1>5, <1>6 DEF PacketFromSample, q

(* A codec just opened. *)
LEMMA OpenedType == CodecOK(Opened) /\ NothingLeft(Opened)
  <1> DEFINE none == << >>
  <1>1. none \in Seq(Packet) /\ none \in Seq(Frame) /\ Len(none) = 0 BY EmptySeq
  <1> HIDE DEF none
  <1>2. LET c == [bsf |-> none, work |-> none, held |-> none, buf |-> none]
        IN CodecOK(c) /\ c.bsf = none /\ c.work = none /\ c.buf = none
    BY <1>1, CodecAssumption DEF CodecOK, Codec
  <1> QED BY <1>2 DEF Opened, NothingLeft, none

(* Decode keeps the codec's type; of one frame a packet it leaves nothing over. *)
LEMMA DecodedType ==
  ASSUME NEW c, CodecOK(c), NEW p \in Packet
  PROVE  /\ CodecOK(Decoded(c, p))
         /\ MaxFrames <= 1 /\ NothingLeft(c) => NothingLeft(Decoded(c, p))
  <1> DEFINE r == Send(c, p)
  <1>1. CodecOK(r.codec) BY SendType
  <1>2. CodecOK(Receive(r.codec).codec) BY <1>1, ReceiveType DEF ReturnOK
  <1>3. Decoded(c, p) = IF r.rv = "ok" THEN Receive(r.codec).codec ELSE r.codec
    BY DEF Decoded
  <1>4. ASSUME MaxFrames <= 1, NothingLeft(c) PROVE NothingLeft(Decoded(c, p))
    <2>1. /\ r.rv # "EAGAIN" /\ r.codec.bsf = << >> /\ r.codec.work = << >>
          /\ r.rv = "error" => r.codec.buf = << >>
      BY <1>4, SendReady
    <2>2. NothingLeft(Receive(r.codec).codec) BY <1>1, <1>4, <2>1, ReceiveReady
    <2>3. r.rv \in Result BY SendType
    <2> QED BY <1>3, <2>1, <2>2, <2>3 DEF NothingLeft, Result
  <1> QED BY <1>1, <1>2, <1>3, <1>4

(* The codec between two calls: with one frame a packet, libavcodec refers to no buffer. *)
BufferInv ==
  /\ PacketTypeOK
  /\ CodecOK(av)
  /\ MaxFrames <= 1 => NothingLeft(av)

LEMMA PacketInitial == PacketInit => BufferInv
  <1> SUFFICES ASSUME PacketInit PROVE BufferInv OBVIOUS
  <1>1. NoPacket \in AVPacket BY CodecAssumption DEF NoPacket, AVPacket
  <1>2. 0 \in 0 .. MaxPackets BY CodecAssumption
  <1>3. << >> \in Seq(MFSample) BY EmptySeq
  <1>4. av \in Codec BY OpenedType DEF PacketInit, CodecOK
  <1>5. PacketTypeOK BY <1>1, <1>2, <1>3, <1>4 DEF PacketInit, PacketTypeOK
  <1> QED BY <1>5, OpenedType DEF PacketInit, BufferInv

LEMMA PacketStep == BufferInv /\ PacketNext => BufferInv'
  <1> SUFFICES ASSUME BufferInv, PacketNext PROVE BufferInv' OBVIOUS
  <1> USE DEF BufferInv
  <1>1. CASE AnyInput
    <2>1. PICK s \in MFSample, p \in Packet, runsOut \in RunsOut :
            s.id = Len(sample) + 1 /\ p.id = s.id /\ Input(s, p, ~runsOut)
      BY <1>1 DEF AnyInput
    <2>2. PICK k : k = packet OBVIOUS
    <2> DEFINE q == PacketFromSample(k, s, ~runsOut)
    <2>3. q \in AVPacket
      BY <2>2, PacketFromSampleType DEF PacketTypeOK
    <2>4. packet' = q
      BY <2>1, <2>2 DEF Input
    <2>5. s.id \in 0 .. MaxPackets
      BY CodecAssumption DEF MFSample, SampleIds
    <2>6. content' \in [SampleIds -> 0 .. MaxPackets]
      BY <2>1, <2>5 DEF Input, PacketTypeOK
    <2>7. q.buffer \in 0 .. MaxPackets
      BY <2>3 DEF AVPacket
    <2>8. bufferOf' \in [SampleIds -> 0 .. MaxPackets]
      <3> HIDE DEF q
      <3>1. bufferOf' = [bufferOf EXCEPT ![s.id] = q.buffer]
        BY <2>1, <2>2 DEF Input, q
      <3> QED BY <3>1, <2>7 DEF PacketTypeOK
    <2>9. ended' \in BOOLEAN
      BY <2>1 DEF Input, PacketTypeOK
    <2>10. sample' \in Seq(MFSample)
      BY <2>1, AppendProperties DEF Input, PacketTypeOK
    <2>11. av' = av \/ av' = Decoded(av, p)
      BY <2>1 DEF Input
    <2>12. PICK c : c = av OBVIOUS
    <2>13. CodecOK(Decoded(c, p)) /\ (MaxFrames <= 1 => NothingLeft(Decoded(c, p)))
      BY <2>12, DecodedType
    <2>14. CodecOK(av') /\ (MaxFrames <= 1 => NothingLeft(av'))
      BY <2>11, <2>12, <2>13
    <2>15. av' \in Codec
      BY <2>14 DEF CodecOK
    <2> QED BY <2>3, <2>4, <2>6, <2>8, <2>9, <2>10, <2>14, <2>15 DEF PacketTypeOK
  <1>2. CASE NewCodec
    <2>1. CodecOK(av') /\ NothingLeft(av') BY <1>2, OpenedType DEF NewCodec
    <2>2. av' \in Codec BY <2>1 DEF CodecOK
    <2> QED BY <1>2, <2>1, <2>2 DEF NewCodec, PacketTypeOK
  <1> QED BY <1>1, <1>2 DEF PacketNext

(* A sample with both stamps, and room for its buffer, is all there is in its packet. *)
LEMMA SampleFillsPacket ==
  ASSUME NEW p \in AVPacket, NEW s \in MFSample, s.duration, s.time
  PROVE  LET q == PacketFromSample(p, s, TRUE)
         IN /\ q.size = s.size /\ q.buffer \in SampleIds
            /\ q.duration = s.id /\ q.pts = s.id
  <1>1. s.id \in SampleIds /\ s.id # 0 /\ s.size \in SampleSizes
    BY CodecAssumption DEF MFSample, SampleIds
  <1> DEFINE q == WithBuffer(p, s, TRUE)
             n == [NoPacket EXCEPT !.buffer = s.id, !.size = s.size]
  <1>2. n \in AVPacket /\ n.buffer = s.id /\ n.size = s.size
    <2>1. NoPacket \in AVPacket BY CodecAssumption DEF NoPacket, AVPacket
    <2>2. s.id \in 0 .. MaxPackets BY <1>1, CodecAssumption DEF SampleIds
    <2> QED BY <1>1, <2>1, <2>2 DEF AVPacket
  <1>3. q \in AVPacket /\ q.size = s.size /\ q.buffer \in SampleIds /\ q.buffer # 0
    <2>1. CASE ReusesBuffer(p, s)
      <3>1. q = p /\ p.buffer # 0 /\ p.size = s.size
        BY <2>1 DEF WithBuffer, ReusesBuffer
      <3>2. p.buffer \in SampleIds
        BY <3>1, CodecAssumption DEF AVPacket, SampleIds
      <3> QED BY <3>1, <3>2
    <2>2. CASE ~ReusesBuffer(p, s)
      <3>1. q = n BY <2>2 DEF WithBuffer
      <3> HIDE DEF n
      <3> QED BY <1>1, <1>2, <3>1
    <2> QED BY <2>1, <2>2
  <1> HIDE DEF q, n
  <1>4. PacketFromSample(p, s, TRUE) = [q EXCEPT !.duration = s.id, !.pts = s.id]
    BY <1>3 DEF PacketFromSample, q
  <1>5. LET r == [q EXCEPT !.duration = s.id, !.pts = s.id]
        IN r.buffer = q.buffer /\ r.size = q.size /\ r.duration = s.id /\ r.pts = s.id
    BY <1>3 DEF AVPacket
  <1> QED BY <1>3, <1>4, <1>5

(* With such samples only, a call leaves the packet of its own sample. *)
LEMMA PacketIsSampleStep ==
  ASSUME Stamped \subseteq { TRUE }, RunsOut \subseteq { FALSE }
  PROVE  BufferInv /\ PacketIsSample /\ PacketNext => PacketIsSample'
  <1> SUFFICES ASSUME BufferInv, PacketIsSample, PacketNext PROVE PacketIsSample' OBVIOUS
  <1>1. CASE AnyInput
    <2>1. PICK s \in MFSample, p \in Packet, runsOut \in RunsOut :
            s.id = Len(sample) + 1 /\ p.id = s.id /\ Input(s, p, ~runsOut)
      BY <1>1 DEF AnyInput
    <2>2. PICK k : k = packet OBVIOUS
    <2>3. ~runsOut = TRUE BY <2>1
    <2> DEFINE q == PacketFromSample(k, s, TRUE)
    <2>4. k \in AVPacket /\ s.duration = TRUE /\ s.time = TRUE
      BY <2>1, <2>2 DEF BufferInv, PacketTypeOK, MFSample
    <2>5. /\ q.size = s.size /\ q.buffer \in SampleIds
          /\ q.duration = s.id /\ q.pts = s.id
      BY <2>4, SampleFillsPacket
    <2>6. packet' = q /\ sample' = Append(sample, s)
      BY <2>1, <2>2, <2>3 DEF Input
    <2>7. content' = [b \in SampleIds |-> IF b = q.buffer THEN s.id ELSE content[b]]
      BY <2>1, <2>2, <2>3 DEF Input
    <2> HIDE DEF q
    <2>8. content'[q.buffer] = s.id BY <2>5, <2>7
    <2>9. q.buffer # 0 BY <2>5, CodecAssumption DEF SampleIds
    <2>10. sample'[Len(sample')] = s
      <3>1. sample \in Seq(MFSample) BY DEF BufferInv, PacketTypeOK
      <3> QED BY <2>6, <3>1
    <2> QED BY <2>4, <2>5, <2>6, <2>8, <2>9, <2>10 DEF PacketIsSample
  <1>2. CASE NewCodec BY <1>2 DEF NewCodec, PacketIsSample
  <1> QED BY <1>1, <1>2 DEF PacketNext

-----------------------------------------------------------------------------
(***************************************************************************)
(* The NAL units.                                                          *)
(***************************************************************************)

(* A byte is a number, also past the end, and so is a length. *)
LEMMA BytesAreNumbers ==
  ASSUME NEW x \in Seq(Byte), NEW i \in Nat
  PROVE  ByteAt(x, i) \in Nat /\ Word(x, i) \in Nat
  <1>1. Base \in Nat BY NalAssumption
  <1>2. ASSUME NEW j \in Nat PROVE ByteAt(x, j) \in Nat
    <2>1. CASE j < Len(x)
      <3>1. j + 1 \in 1 .. Len(x) BY <2>1
      <3>2. x[j + 1] \in Byte BY <3>1, ElementOfSeq
      <3> QED BY <1>1, <2>1, <3>2 DEF ByteAt, Byte
    <2>2. CASE ~(j < Len(x)) BY <2>2 DEF ByteAt
    <2> QED BY <2>1, <2>2
  <1>3. /\ ByteAt(x, i) \in Nat /\ ByteAt(x, i + 1) \in Nat
        /\ ByteAt(x, i + 2) \in Nat /\ ByteAt(x, i + 3) \in Nat
    BY <1>2
  <1> DEFINE a == ByteAt(x, i)
             b == ByteAt(x, i + 1)
             c == ByteAt(x, i + 2)
             d == ByteAt(x, i + 3)
  <1>4. a \in Nat /\ b \in Nat /\ c \in Nat /\ d \in Nat BY <1>3
  <1>5. Word(x, i) = ((a * Base + b) * Base + c) * Base + d BY DEF Word
  <1> HIDE DEF a, b, c, d
  <1>6. a * Base + b \in Nat BY <1>1, <1>4
  <1>7. (a * Base + b) * Base + c \in Nat BY <1>1, <1>4, <1>6
  <1>8. ((a * Base + b) * Base + c) * Base + d \in Nat BY <1>1, <1>4, <1>7
  <1> QED BY <1>3, <1>5, <1>8

(* The range of a length has room for the length itself beyond any packet. *)
LEMMA WidthFacts == Width \in Nat /\ Width >= 16
  <1>1. Base \in Nat /\ Base >= 2 BY NalAssumption
  <1>2. Base * Base \in Nat /\ Base * Base >= 4 BY <1>1
  <1>3. Base * Base * Base \in Nat /\ Base * Base * Base >= 8 BY <1>1, <1>2
  <1>4. Base * Base * Base * Base \in Nat /\ Base * Base * Base * Base >= 16 BY <1>1, <1>3
  <1> QED BY <1>4 DEF Width

(* WriteNALPacket's checks: what passes them is a length and a unit inside the packet. *)
LEMMA CheckedUnit ==
  ASSUME NEW l \in Nat, 2 * l < Width, NEW i \in Nat, i <= l, NEW n \in Nat,
         ~(l < (i + 4) % Width),
         ~(l < (((i + 4) % Width) + n) % Width), ~(Width - 1 - ((i + 4) % Width) < n)
  PROVE  /\ (i + 4) % Width = i + 4
         /\ (i + 4 + n) % Width = i + 4 + n
         /\ i + 4 + n <= l
  <1>1. i + 4 \in 0 .. Width - 1 BY WidthFacts
  <1>2. (i + 4) % Width = i + 4 BY <1>1, WidthFacts
  <1>3. i + 4 + n \in 0 .. Width - 1 BY <1>2, WidthFacts
  <1>4. (i + 4 + n) % Width = i + 4 + n BY <1>3, WidthFacts
  <1> QED BY <1>2, <1>4

(***************************************************************************)
(* The units written lie in the bytes passed, and cover them one by one;   *)
(* the packet is one that the loop's arithmetic has room for.              *)
(***************************************************************************)
Inside == \A u \in units : 4 <= u[1] /\ u[1] + u[2] <= index

UnitsInv ==
  /\ NalTypeOK
  /\ 2 * Len(data) < Width
  /\ index <= Len(data)
  /\ stage \in { "idle", "sets" } => index = 0 /\ units = { }
  /\ Inside
  /\ EachByteOnce

LEMMA NalInitial == NalInit => UnitsInv
  <1> SUFFICES ASSUME NalInit PROVE UnitsInv OBVIOUS
  <1> DEFINE none == << >>
  <1>1. none \in Seq(Byte) /\ Len(none) = 0 BY EmptySeq
  <1>2. 2 * Len(none) < Width /\ 0 \in 0 .. Width - 1 BY <1>1, WidthFacts
  <1>3. DOMAIN sets = { } BY DEF NalInit
  <1>4. data = none /\ extra = none BY DEF NalInit
  <1> HIDE DEF none
  <1>5. NalTypeOK BY <1>1, <1>2, <1>3, <1>4 DEF NalInit, NalTypeOK
  <1>6. EachByteOnce /\ Inside BY DEF NalInit, EachByteOnce, Inside
  <1> QED BY <1>1, <1>2, <1>4, <1>5, <1>6 DEF NalInit, UnitsInv

(* GetSPSAndPPSBuffer gives up to two places, of any extradata. *)
LEMMA ParameterSetsType ==
  ASSUME NEW x \in Seq(Byte)
  PROVE  \A k \in DOMAIN ParameterSets(x) : ParameterSets(x)[k] \in Nat \X Nat
  <1>1. SpsLength(x) \in Nat BY BytesAreNumbers DEF SpsLength
  <1>2. 8 + SpsLength(x) + 2 \in Nat BY <1>1
  <1>3. PpsLength(x) \in Nat BY <1>2, BytesAreNumbers DEF PpsLength
  <1> DEFINE sps == << 8, SpsLength(x) >>
             pps == << 8 + SpsLength(x) + 3, PpsLength(x) >>
  <1>4. sps \in Nat \X Nat /\ pps \in Nat \X Nat BY <1>1, <1>3
  <1>5. ParameterSets(x) = << >> \/ ParameterSets(x) = << sps >> \/ ParameterSets(x) = << sps, pps >>
    BY DEF ParameterSets
  <1> HIDE DEF sps, pps
  <1> QED BY <1>4, <1>5

(* A turn of the loop. *)
LEMMA UnitWritten == UnitsInv /\ WriteUnit => UnitsInv'
  <1> SUFFICES ASSUME UnitsInv, WriteUnit PROVE UnitsInv' OBVIOUS
  <1> DEFINE i == (index + 4) % Width
             n == Word(data, index)
  <1>1. /\ index \in Nat /\ Len(data) \in Nat /\ n \in Nat /\ Width \in Nat
        /\ 2 * Len(data) < Width /\ index <= Len(data)
    <2>1. data \in Seq(Byte) /\ index \in 0 .. Width - 1
          /\ 2 * Len(data) < Width /\ index <= Len(data)
      BY DEF UnitsInv, NalTypeOK
    <2>2. index \in Nat /\ Len(data) \in Nat /\ Width \in Nat BY <2>1, WidthFacts
    <2>3. n \in Nat BY <2>1, <2>2, BytesAreNumbers
    <2> QED BY <2>1, <2>2, <2>3
  <1>2. UNCHANGED << data, extra, keyFrame, sets >> /\ stage = "units" BY DEF WriteUnit
  <1>3. CASE Len(data) < i \/ ~UnitFits(i, n)
    <2>1. nalResult' = "E_FAIL" /\ stage' = "done" /\ UNCHANGED << units, index >>
      BY <1>3 DEF WriteUnit
    <2> QED BY <1>2, <2>1 DEF UnitsInv, NalTypeOK, Inside, EachByteOnce
  <1>4. CASE ~(Len(data) < i) /\ UnitFits(i, n)
    <2>1. i = index + 4 /\ (i + n) % Width = i + n /\ i + n <= Len(data)
      <3>0. PICK l, j, m : l = Len(data) /\ j = index /\ m = n OBVIOUS
      <3>1. l \in Nat /\ 2 * l < Width /\ j \in Nat /\ j <= l /\ m \in Nat BY <1>1, <3>0
      <3>2. /\ ~(l < (j + 4) % Width) /\ ~(l < (((j + 4) % Width) + m) % Width)
            /\ ~(Width - 1 - ((j + 4) % Width) < m)
        BY <1>4, <3>0 DEF UnitFits
      <3> HIDE DEF n
      <3>3. (j + 4) % Width = j + 4 /\ (j + 4 + m) % Width = j + 4 + m /\ j + 4 + m <= l
        BY <3>1, <3>2, CheckedUnit
      <3> QED BY <3>0, <3>3
    <2>2. /\ units' = units \cup { << i, n >> } /\ index' = (i + n) % Width
          /\ stage' \in { "units", "done" } /\ UNCHANGED nalResult
      BY <1>4 DEF WriteUnit
    <2> HIDE DEF i, n
    <2>3. index' = index + 4 + n /\ units' = units \cup { << index + 4, n >> }
      BY <2>1, <2>2
    <2>4. << index + 4, n >> \in Nat \X Nat BY <1>1
    <2>5. NalTypeOK' BY <1>1, <1>2, <2>1, <2>2, <2>3, <2>4 DEF UnitsInv, NalTypeOK
    <2>6. \A u \in units : u \in Nat \X Nat /\ 4 <= u[1] /\ u[1] + u[2] <= index
      BY DEF UnitsInv, NalTypeOK, Inside
    <2>7. Inside' BY <1>1, <2>3, <2>6 DEF Inside
    <2>8. EachByteOnce'
      <3>1. \A u \in units' : u[1] + u[2] <= Len(data)'
        BY <1>1, <1>2, <2>1, <2>3, <2>6
      <3>2. ASSUME NEW b \in 0 .. index - 1
            PROVE  \E u \in units' : /\ u[1] - 4 <= b /\ b < u[1] + u[2]
                     /\ \A v \in units' \ { u } : b < v[1] - 4 \/ v[1] + v[2] <= b
        <4>1. PICK u \in units : /\ u[1] - 4 <= b /\ b < u[1] + u[2]
                     /\ \A v \in units \ { u } : b < v[1] - 4 \/ v[1] + v[2] <= b
          BY DEF UnitsInv, EachByteOnce
        <4>2. b < index + 4 - 4 BY <1>1
        <4>3. \A v \in units' \ { u } : v \in units \ { u } \/ v = << index + 4, n >>
          BY <2>3
        <4>4. << index + 4, n >>[1] = index + 4 OBVIOUS
        <4>5. ASSUME NEW v \in units' \ { u } PROVE b < v[1] - 4 \/ v[1] + v[2] <= b
          <5>1. CASE v \in units \ { u } BY <4>1, <5>1
          <5>2. CASE v = << index + 4, n >>
            <6>1. v[1] = index + 4 BY <4>4, <5>2
            <6> QED BY <1>1, <4>2, <6>1
          <5> QED BY <4>3, <5>1, <5>2
        <4>6. u \in units' BY <2>3, <4>1
        <4> QED BY <4>1, <4>5, <4>6
      <3>3. ASSUME NEW b \in index .. index + 4 + n - 1
            PROVE  \E u \in units' : /\ u[1] - 4 <= b /\ b < u[1] + u[2]
                     /\ \A v \in units' \ { u } : b < v[1] - 4 \/ v[1] + v[2] <= b
        <4> DEFINE u == << index + 4, n >>
        <4>1. u \in units' /\ u[1] - 4 <= b /\ b < u[1] + u[2] BY <1>1, <2>3
        <4>2. \A v \in units : v[1] + v[2] <= b BY <1>1, <2>6
        <4>3. \A v \in units' \ { u } : v[1] + v[2] <= b BY <2>3, <4>2
        <4> HIDE DEF u
        <4> QED BY <4>1, <4>3
      <3>4. \A b \in 0 .. index' - 1 : b \in 0 .. index - 1 \/ b \in index .. index + 4 + n - 1
        BY <1>1, <2>3
      <3> QED BY <3>1, <3>2, <3>3, <3>4 DEF EachByteOnce
    <2>9. index' <= Len(data)' BY <1>2, <2>1, <2>2
    <2> QED BY <1>1, <1>2, <2>2, <2>5, <2>7, <2>8, <2>9 DEF UnitsInv
  <1> QED BY <1>3, <1>4

(* A packet that begins has room for its length, and the extradata becomes up to two sets. *)
LEMMA NalStep == UnitsInv /\ NalNext => UnitsInv'
  <1> SUFFICES ASSUME UnitsInv, NalNext PROVE UnitsInv' OBVIOUS
  <1>1. CASE BeginPacket
    <2>1. /\ stage = "idle" /\ stage' \in { "sets", "units" }
          /\ keyFrame' \in BOOLEAN /\ data' \in Packets \cup KeyFrames
          /\ extra' = << >> \/ extra' \in ExtraData
          /\ UNCHANGED << index, sets, units, nalResult >>
      BY <1>1 DEF BeginPacket
    <2>2. index = 0 /\ units = { } BY <2>1 DEF UnitsInv
    <2>3. data' \in Seq(Byte) /\ extra' \in Seq(Byte) /\ 2 * Len(data') < Width
      BY <2>1, NalAssumption, EmptySeq
    <2>4. Len(data') \in Nat BY <2>3
    <2>5. NalTypeOK' BY <2>1, <2>3 DEF UnitsInv, NalTypeOK
    <2>6. Inside' /\ EachByteOnce' BY <2>1, <2>2 DEF Inside, EachByteOnce
    <2> QED BY <2>1, <2>2, <2>3, <2>4, <2>5, <2>6 DEF UnitsInv
  <1>2. CASE WriteSets
    <2>1. /\ stage = "sets" /\ sets' = ParameterSets(extra)
          /\ stage' \in { "units", "done" } /\ nalResult' \in { "S_OK", "E_FAIL" }
          /\ UNCHANGED << data, extra, keyFrame, index, units >>
      BY <1>2 DEF WriteSets, UnitsInv, NalTypeOK
    <2>2. PICK x : x = extra OBVIOUS
    <2>3. x \in Seq(Byte) BY <2>2 DEF UnitsInv, NalTypeOK
    <2>4. \A k \in DOMAIN sets' : sets'[k] \in Nat \X Nat
      BY <2>1, <2>2, <2>3, ParameterSetsType
    <2>5. NalTypeOK' BY <2>1, <2>4 DEF UnitsInv, NalTypeOK
    <2> QED BY <2>1, <2>5 DEF UnitsInv, Inside, EachByteOnce
  <1>3. CASE WriteUnit BY <1>3, UnitWritten
  <1>4. CASE EndPacket
    <2> DEFINE none == << >>
    <2>1. none \in Seq(Byte) /\ Len(none) = 0 BY EmptySeq
    <2>2. 2 * Len(none) < Width /\ 0 \in 0 .. Width - 1 BY <2>1, WidthFacts
    <2>3. data' = none /\ extra' = none /\ DOMAIN sets' = { } BY <1>4 DEF EndPacket
    <2> HIDE DEF none
    <2>4. NalTypeOK' BY <1>4, <2>1, <2>2, <2>3 DEF EndPacket, NalTypeOK
    <2>5. EachByteOnce' /\ Inside' BY <1>4 DEF EndPacket, EachByteOnce, Inside
    <2> QED BY <1>4, <2>1, <2>2, <2>3, <2>4, <2>5 DEF EndPacket, UnitsInv
  <1> QED BY <1>1, <1>2, <1>3, <1>4 DEF NalNext

-----------------------------------------------------------------------------
(***************************************************************************)
(* The parameter sets.                                                     *)
(***************************************************************************)

(* Extradata whose sets are shorter than Base: the high bytes of their lengths are 0. *)
ShortSets == \A x \in ExtraData : ByteAt(x, 6) = 0 /\ ByteAt(x, 8 + SpsLength(x) + 1) = 0

(* A key frame has its extradata's sets, and goes on with both of them only. *)
SetsInv ==
  /\ NalTypeOK
  /\ stage = "idle" => ~keyFrame
  /\ keyFrame => extra \in ExtraData
  /\ keyFrame /\ stage # "sets" => sets = ParameterSets(extra)
  /\ keyFrame /\ stage = "units" => Len(sets) = 2

LEMMA SetsStep == UnitsInv /\ SetsInv /\ [NalNext]_nalVars => SetsInv'
  <1> SUFFICES ASSUME UnitsInv, SetsInv, [NalNext]_nalVars PROVE SetsInv' OBVIOUS
  <1>1. CASE UNCHANGED nalVars BY <1>1 DEF nalVars, SetsInv, NalTypeOK
  <1>2. ASSUME NalNext PROVE NalTypeOK' BY <1>2, NalStep DEF UnitsInv
  <1>3. CASE BeginPacket
    <2>1. NalTypeOK' BY <1>2, <1>3 DEF NalNext
    <2>2. \/ keyFrame' = FALSE /\ stage' = "units"
          \/ keyFrame' = TRUE /\ extra' \in ExtraData /\ stage' = "sets"
      BY <1>3 DEF BeginPacket
    <2> QED BY <2>1, <2>2 DEF SetsInv
  <1>4. CASE WriteSets
    <2>1. NalTypeOK' BY <1>2, <1>4 DEF NalNext
    <2>2. /\ stage = "sets" /\ sets' = ParameterSets(extra)
          /\ (stage' = "units" /\ Len(sets') = 2) \/ stage' = "done"
          /\ UNCHANGED << data, extra, keyFrame >>
      BY <1>4 DEF WriteSets
    <2> QED BY <2>1, <2>2 DEF SetsInv
  <1>5. CASE WriteUnit
    <2>1. NalTypeOK' BY <1>2, <1>5 DEF NalNext
    <2>2. /\ stage = "units" /\ stage' \in { "units", "done" }
          /\ UNCHANGED << extra, keyFrame, sets >>
      BY <1>5 DEF WriteUnit
    <2> QED BY <2>1, <2>2 DEF SetsInv
  <1>6. CASE EndPacket
    <2>1. NalTypeOK' BY <1>2, <1>6 DEF NalNext
    <2>2. stage' = "idle" /\ keyFrame' = FALSE BY <1>6 DEF EndPacket
    <2> QED BY <2>1, <2>2 DEF SetsInv
  <1> QED BY <1>1, <1>3, <1>4, <1>5, <1>6 DEF NalNext

(* Of short sets, the low bytes of the lengths are the lengths. *)
LEMMA ShortSetsFound ==
  ASSUME ShortSets
  PROVE  SetsInv => ParameterSetsExact
  <1> SUFFICES ASSUME SetsInv, keyFrame, stage # "sets" PROVE ParameterSetsExact
    BY DEF ParameterSetsExact
  <1>1. PICK x : x = extra OBVIOUS
  <1>2. x \in ExtraData /\ x \in Seq(Byte) /\ sets = ParameterSets(x)
    BY <1>1 DEF SetsInv, NalTypeOK
  <1>3. ByteAt(x, 6) = 0 /\ ByteAt(x, 8 + SpsLength(x) + 1) = 0
    BY <1>2 DEF ShortSets
  <1> DEFINE sps == ByteAt(x, 6) * Base + ByteAt(x, 7)
             pps == ByteAt(x, 8 + sps + 1) * Base + ByteAt(x, 8 + sps + 2)
             l == Len(x)
  <1>4. SpsLength(x) \in Nat BY <1>2, BytesAreNumbers DEF SpsLength
  <1>5. PpsLength(x) \in Nat
    <2>1. 8 + SpsLength(x) + 2 \in Nat BY <1>4
    <2> QED BY <1>2, <2>1, BytesAreNumbers DEF PpsLength
  <1>6. sps = SpsLength(x)
    <2>1. Base \in Nat BY NalAssumption
    <2> QED BY <1>3, <1>4, <2>1 DEF SpsLength
  <1> HIDE DEF sps
  <1>7. pps = PpsLength(x)
    <2>1. Base \in Nat BY NalAssumption
    <2> QED BY <1>3, <1>5, <1>6, <2>1 DEF PpsLength
  <1> HIDE DEF pps
  <1>8. l \in Nat /\ (x = << >> => l = 0) BY <1>2
  <1> HIDE DEF l
  <1>9. ParameterSets(x) =
          IF x = << >> \/ l < 8 + sps THEN << >>
          ELSE IF l < 8 + sps + 3 \/ l < 8 + sps + 3 + pps THEN << << 8, sps >> >>
          ELSE << << 8, sps >>, << 8 + sps + 3, pps >> >>
    BY <1>6, <1>7 DEF ParameterSets, l
  <1>10. 8 + sps + 3 = 11 + sps BY <1>4, <1>6
  <1>11. CASE l >= 11 + sps /\ l >= 11 + sps + pps
    <2>1. ~(x = << >> \/ l < 8 + sps) BY <1>4, <1>6, <1>8, <1>11
    <2>2. ~(l < 8 + sps + 3 \/ l < 8 + sps + 3 + pps)
      BY <1>4, <1>5, <1>6, <1>7, <1>8, <1>11
    <2>3. ParameterSets(x) = << << 8, sps >>, << 11 + sps, pps >> >>
      BY <1>9, <1>10, <2>1, <2>2
    <2> QED BY <1>1, <1>2, <1>11, <2>3 DEF ParameterSetsExact, sps, pps, l
  <1>12. CASE ~(l >= 11 + sps /\ l >= 11 + sps + pps)
    <2>1. l < 8 + sps + 3 \/ l < 8 + sps + 3 + pps
      BY <1>4, <1>5, <1>6, <1>7, <1>8, <1>12
    <2>2. ParameterSets(x) = << >> \/ ParameterSets(x) = << << 8, sps >> >>
      BY <1>9, <2>1
    <2>3. Len(sets) < 2 BY <1>2, <2>2
    <2> QED BY <1>1, <1>12, <2>3 DEF ParameterSetsExact, sps, pps, l
  <1> QED BY <1>11, <1>12

-----------------------------------------------------------------------------
(***************************************************************************)
(* The acceptance of whole packets.                                        *)
(***************************************************************************)

(* The function in the reference: from position i on, p is whole units. *)
WholeFrom(p) ==
  CHOOSE whole : whole =
    [i \in 0 .. Len(p) |->
       \/ i = Len(p)
       \/ /\ i + 4 <= Len(p)
          /\ i + 4 + Word(p, i) <= Len(p)
          /\ whole[i + 4 + Word(p, i)]]

LEMMA WholeUnitsFrom ==
  ASSUME NEW p
  PROVE  WholeUnits(p) <=> p # << >> /\ WholeFrom(p)[0]
  BY DEF WholeUnits, WholeFrom

(* Where the units from a position begin and the last one ends. *)
Chain(p, S) ==
  /\ S \subseteq 0 .. Len(p)
  /\ \A i \in S : \/ i = Len(p)
                  \/ /\ i + 4 <= Len(p)
                     /\ i + 4 + Word(p, i) <= Len(p)
                     /\ i + 4 + Word(p, i) \in S

(* The reference is what it is defined to be: there is such a function. *)
LEMMA WholeFromAt ==
  ASSUME NEW p \in Seq(Byte), NEW i \in 0 .. Len(p)
  PROVE  WholeFrom(p)[i] <=> \/ i = Len(p)
                             \/ /\ i + 4 <= Len(p)
                                /\ i + 4 + Word(p, i) <= Len(p)
                                /\ WholeFrom(p)[i + 4 + Word(p, i)]
  <1> DEFINE l == Len(p)
             next(j) == j + 4 + Word(p, j)
             g == [j \in 0 .. l |-> \E S : j \in S /\ Chain(p, S)]
             h == [j \in 0 .. l |-> j = l \/ (j + 4 <= l /\ next(j) <= l /\ g[next(j)])]
  <1>1. l \in Nat OBVIOUS
  <1>2. \A j \in 0 .. l : next(j) \in Nat
    <2> SUFFICES ASSUME NEW j \in 0 .. l PROVE next(j) \in Nat OBVIOUS
    <2>1. j \in Nat BY <1>1
    <2>2. Word(p, j) \in Nat BY <2>1, BytesAreNumbers
    <2> QED BY <2>1, <2>2
  <1>3. \A S : Chain(p, S) <=>
          /\ S \subseteq 0 .. l
          /\ \A j \in S : j = l \/ (j + 4 <= l /\ next(j) <= l /\ next(j) \in S)
    BY DEF Chain
  <1> HIDE DEF l, next
  <1>4. ASSUME NEW j \in 0 .. l PROVE g[j] = h[j]
    <2>1. ASSUME NEW S, j \in S, Chain(p, S), j # l
          PROVE  j + 4 <= l /\ next(j) <= l /\ g[next(j)]
      <3>1. j + 4 <= l /\ next(j) <= l /\ next(j) \in S /\ next(j) \in 0 .. l
        BY <1>3, <2>1
      <3> QED BY <2>1, <3>1
    <2>2. ASSUME j = l PROVE g[j]
      <3>1. Chain(p, { l }) BY <1>1, <1>3
      <3> QED BY <2>2, <3>1
    <2>3. ASSUME j + 4 <= l, next(j) <= l, g[next(j)] PROVE g[j]
      <3>1. next(j) \in 0 .. l BY <1>1, <1>2, <2>3
      <3>2. PICK S : next(j) \in S /\ Chain(p, S) BY <2>3, <3>1
      <3>3. Chain(p, S \cup { j }) BY <1>3, <2>3, <3>2
      <3> QED BY <3>3
    <2>4. h[j] <=> (j = l \/ (j + 4 <= l /\ next(j) <= l /\ g[next(j)])) OBVIOUS
    <2>5. g[j] <=> h[j] BY <2>1, <2>2, <2>3, <2>4
    <2>6. g[j] \in BOOLEAN /\ h[j] \in BOOLEAN OBVIOUS
    <2> QED BY <2>5, <2>6
  <1>5. g = h BY <1>4
  <1>6. \E f : f = [j \in 0 .. l |-> j = l \/ (j + 4 <= l /\ next(j) <= l /\ f[next(j)])]
    <2> HIDE DEF g
    <2> QED BY <1>5
  <1> DEFINE w == WholeFrom(p)
  <1>7. w = CHOOSE f : f = [j \in 0 .. l |-> j = l \/ (j + 4 <= l /\ next(j) <= l /\ f[next(j)])]
    BY DEF WholeFrom, l, next
  <1> HIDE DEF w
  <1>8. w = [j \in 0 .. l |-> j = l \/ (j + 4 <= l /\ next(j) <= l /\ w[next(j)])]
    BY <1>6, <1>7
  <1>9. i \in 0 .. l BY DEF l
  <1>10. w[i] <=> (i = l \/ (i + 4 <= l /\ next(i) <= l /\ w[next(i)])) BY <1>8, <1>9
  <1> QED BY <1>10 DEF w, l, next

(* A length and a unit inside the packet pass WriteNALPacket's checks: its sums do not wrap. *)
LEMMA WholeUnitPasses ==
  ASSUME NEW l \in Nat, 2 * l < Width, NEW i \in Nat, NEW n \in Nat,
         i + 4 <= l, i + 4 + n <= l
  PROVE  /\ ~(l < (i + 4) % Width)
         /\ ~(l < (((i + 4) % Width) + n) % Width)
         /\ ~(Width - 1 - ((i + 4) % Width) < n)
  <1>1. i + 4 \in 0 .. Width - 1 /\ i + 4 + n \in 0 .. Width - 1 BY WidthFacts
  <1>2. (i + 4) % Width = i + 4 BY <1>1, WidthFacts
  <1>3. (i + 4 + n) % Width = i + 4 + n BY <1>1, WidthFacts
  <1> QED BY <1>1, <1>2, <1>3, WidthFacts

(***************************************************************************)
(* While units are written, the packet is whole if what is left of it is.  *)
(***************************************************************************)
AcceptInv ==
  /\ stage \in { "idle", "sets", "units" } => nalResult = "S_OK"
  /\ stage = "sets" => keyFrame
  /\ stage = "units" => /\ data = << >> \/ index < Len(data)
                        /\ WholeFrom(data)[0] <=> WholeFrom(data)[index]
  /\ WholePacketsAccepted

(* A turn of the loop keeps what is known of the packet. *)
LEMMA AcceptTurn == UnitsInv /\ SetsInv /\ AcceptInv /\ WriteUnit => AcceptInv'
  <1> SUFFICES ASSUME UnitsInv, SetsInv, AcceptInv, WriteUnit PROVE AcceptInv' OBVIOUS
  <1>1. PICK p, l, i, n :
          p = data /\ l = Len(p) /\ i = index /\ n = Word(p, i)
    OBVIOUS
  <1>2. /\ p \in Seq(Byte) /\ l \in Nat /\ i \in Nat /\ i <= l /\ 2 * l < Width
        /\ n \in Nat
    <2>1. p \in Seq(Byte) /\ i \in Nat /\ i <= l /\ 2 * l < Width
      BY <1>1, WidthFacts DEF UnitsInv, NalTypeOK
    <2>2. l \in Nat BY <1>1, <2>1
    <2> QED BY <1>1, <2>1, <2>2, BytesAreNumbers
  <1>3. /\ UNCHANGED << data, extra, keyFrame, sets >> /\ stage = "units"
        /\ nalResult = "S_OK" /\ (keyFrame => Len(sets) = 2)
        /\ p = << >> \/ i < l
        /\ WholeFrom(p)[0] <=> WholeFrom(p)[i]
    BY <1>1 DEF WriteUnit, AcceptInv, SetsInv
  <1>4. WholeFrom(p)[i] <=> (i = l \/ (i + 4 <= l /\ i + 4 + n <= l /\ WholeFrom(p)[i + 4 + n]))
    <2>1. i \in 0 .. Len(p) BY <1>1, <1>2
    <2> QED BY <1>1, <1>2, <2>1, WholeFromAt
  <1>5. CASE l < (i + 4) % Width \/ ~UnitFits((i + 4) % Width, n)
    <2>1. nalResult' = "E_FAIL" /\ stage' = "done"
      BY <1>1, <1>5 DEF WriteUnit
    <2>2. ~(i + 4 <= l /\ i + 4 + n <= l)
      BY <1>1, <1>2, <1>5, WholeUnitPasses DEF UnitFits
    <2>3. p # << >> => i # l BY <1>2, <1>3
    <2>4. ~WholeUnits(p) BY <1>3, <1>4, <2>2, <2>3, WholeUnitsFrom
    <2>5. ~WholeUnits(data') BY <1>1, <1>3, <2>4
    <2> QED BY <2>1, <2>5 DEF AcceptInv, WholePacketsAccepted
  <1>6. CASE ~(l < (i + 4) % Width) /\ UnitFits((i + 4) % Width, n)
    <2>1. (i + 4) % Width = i + 4 /\ (i + 4 + n) % Width = i + 4 + n /\ i + 4 + n <= l
      BY <1>1, <1>2, <1>6, CheckedUnit DEF UnitFits
    <2>2. /\ index' = (((i + 4) % Width) + n) % Width
          /\ stage' = IF index' < l THEN "units" ELSE "done"
          /\ UNCHANGED nalResult
      BY <1>1, <1>6 DEF WriteUnit
    <2>3. index' = i + 4 + n BY <2>1, <2>2
    <2>4. p # << >> /\ i # l /\ i + 4 <= l
      <3>1. p # << >>
        <4>1. l # 0 BY <1>2, <2>1
        <4> QED BY <1>1, <4>1
      <3> QED BY <1>2, <1>3, <2>1, <3>1
    <2>5. WholeFrom(p)[0] <=> WholeFrom(p)[index']
      BY <1>3, <1>4, <2>1, <2>3, <2>4
    <2>6. CASE index' < l
      <3>1. stage' = "units" BY <2>2, <2>6
      <3>2. index' < Len(data') /\ nalResult' = "S_OK" BY <1>1, <1>3, <2>2, <2>6
      <3>3. WholeFrom(data')[0] <=> WholeFrom(data')[index'] BY <1>1, <1>3, <2>5
      <3> QED BY <3>1, <3>2, <3>3 DEF AcceptInv, WholePacketsAccepted
    <2>7. CASE ~(index' < l)
      <3>1. index' = l BY <1>2, <2>1, <2>3, <2>7
      <3>2. stage' = "done" /\ nalResult' = "S_OK" BY <1>3, <2>2, <2>7
      <3>3. WholeFrom(p)[l]
        <4>1. l \in 0 .. Len(p) /\ l = Len(p) BY <1>1, <1>2
        <4> QED BY <1>2, <4>1, WholeFromAt
      <3>4. WholeUnits(p) BY <2>4, <2>5, <3>1, <3>3, WholeUnitsFrom
      <3>5. /\ WholeUnits(data') /\ (keyFrame' => Len(sets') = 2)
            /\ index' = Len(data')
        BY <1>1, <1>3, <3>1, <3>4
      <3> QED BY <3>2, <3>5 DEF AcceptInv, WholePacketsAccepted
    <2> QED BY <2>6, <2>7
  <1> QED BY <1>5, <1>6

(* So does every other step of WriteAVPacketToStream. *)
LEMMA AcceptStep == UnitsInv /\ SetsInv /\ AcceptInv /\ [NalNext]_nalVars => AcceptInv'
  <1> SUFFICES ASSUME UnitsInv, SetsInv, AcceptInv, [NalNext]_nalVars PROVE AcceptInv' OBVIOUS
  <1>1. CASE UNCHANGED nalVars
    BY <1>1 DEF nalVars, AcceptInv, WholePacketsAccepted
  <1>2. CASE BeginPacket
    <2>1. /\ stage = "idle" /\ UNCHANGED << index, nalResult >>
          /\ \/ keyFrame' = TRUE /\ stage' = "sets"
             \/ stage' = "units"
          /\ data' \in Packets \cup KeyFrames
      BY <1>2 DEF BeginPacket
    <2>2. index' = 0 /\ nalResult' = "S_OK" BY <2>1 DEF UnitsInv, AcceptInv
    <2>3. data' = << >> \/ index' < Len(data')
      <3>1. data' \in Seq(Byte) BY <2>1, NalAssumption
      <3>2. Len(data') = 0 => data' = << >> BY <3>1, EmptySeq
      <3>3. Len(data') \in Nat BY <3>1
      <3> QED BY <2>2, <3>2, <3>3
    <2> QED BY <2>1, <2>2, <2>3 DEF AcceptInv, WholePacketsAccepted
  <1>3. CASE WriteSets
    <2>1. /\ stage = "sets" /\ UNCHANGED << data, keyFrame, index >>
          /\ \/ Len(sets') = 2 /\ stage' = "units" /\ UNCHANGED nalResult
             \/ Len(sets') # 2 /\ stage' = "done" /\ nalResult' = "E_FAIL"
      BY <1>3 DEF WriteSets
    <2>2. index' = 0 /\ nalResult = "S_OK" /\ keyFrame' BY <2>1 DEF UnitsInv, AcceptInv
    <2>3. data' = << >> \/ index' < Len(data')
      <3>1. data' \in Seq(Byte) BY <2>1 DEF UnitsInv, NalTypeOK
      <3>2. Len(data') = 0 => data' = << >> BY <3>1, EmptySeq
      <3>3. Len(data') \in Nat BY <3>1
      <3> QED BY <2>2, <3>2, <3>3
    <2> QED BY <2>1, <2>2, <2>3 DEF AcceptInv, WholePacketsAccepted
  <1>4. CASE WriteUnit BY <1>4, AcceptTurn
  <1>5. CASE EndPacket
    BY <1>5 DEF EndPacket, AcceptInv, WholePacketsAccepted
  <1> QED BY <1>1, <1>2, <1>3, <1>4, <1>5 DEF NalNext

-----------------------------------------------------------------------------
(***************************************************************************)
(* The Vorbis header.                                                      *)
(***************************************************************************)

(* The numbers a header is made of. *)
LEMMA HeaderNumbers ==
  /\ HeaderBase \in Nat /\ HeaderBase >= 4 /\ InfoSize \in Nat /\ InfoSize >= 9
  /\ Top \in Nat /\ Top >= 3 /\ HeaderBase = Top + 1
  BY HeaderAssumption DEF Top

(* A set of numbers has a least one. *)
LEMMA NaturalsOrdered ==
  \E R : IsWellFoundedOn(R, Nat) /\ \A x, y \in Nat : y < x => << y, x >> \in R
  <1> DEFINE R == OpToRel(<, Nat)
  <1>1. IsWellFoundedOn(R, Nat) BY NatLessThanWellFounded
  <1>2. \A x, y \in Nat : y < x => << y, x >> \in R BY DEF OpToRel
  <1> HIDE DEF R
  <1> QED BY <1>1, <1>2

LEMMA LeastOf ==
  ASSUME NEW T \in SUBSET Nat, T # {}
  PROVE  \E x \in T : \A y \in T : x <= y
  <1>1. PICK R : IsWellFoundedOn(R, Nat) /\ \A x, y \in Nat : y < x => << y, x >> \in R
    BY NaturalsOrdered
  <1>2. PICK x \in T : \A y \in T : ~(<< y, x >> \in R) BY <1>1, WFMin
  <1>3. ASSUME NEW y \in T PROVE x <= y
    <2>1. x \in Nat /\ y \in Nat BY <1>2
    <2>2. ~(<< y, x >> \in R) BY <1>2
    <2>3. ~(y < x) BY <1>1, <2>1, <2>2
    <2> QED BY <2>1, <2>3
  <1> QED BY <1>3

(* A byte of a number that is the top byte makes the number large. *)
LEMMA TopByte ==
  ASSUME NEW n \in Nat, NEW p \in Nat, p > 0, (n \div p) % HeaderBase = Top
  PROVE  Top * p <= n
  <1>1. PICK q : q = n \div p OBVIOUS
  <1>2. q \in Nat /\ q * p <= n BY <1>1
  <1>3. Top <= q BY <1>1, <1>2, HeaderNumbers
  <1>4. Top * p <= q * p BY <1>2, <1>3, HeaderNumbers
  <1>5. Top * p \in Nat /\ q * p \in Nat BY <1>2, HeaderNumbers
  <1> QED BY <1>2, <1>4, <1>5

(* A size is laced in a byte, and one more for each upper byte that is the top byte. *)
LEMMA LacedSize ==
  ASSUME NEW n \in Nat
  PROVE  \E j \in 0 .. 3 : /\ Laced(n) \in Seq(0 .. Top) /\ Len(Laced(n)) = 1 + j
                           /\ j * (Top * HeaderBase) <= n
  <1> DEFINE h  == HeaderBase
             h2 == HeaderBase * HeaderBase
             h3 == HeaderBase * HeaderBase * HeaderBase
             upper(k) == IF ByteOf(n, k) = Top THEN << Top >> ELSE << >>
             c  == Top * HeaderBase
  <1>1. h \in Nat /\ h >= 4 BY HeaderNumbers
  <1>2. h2 \in Nat /\ h2 >= 4 * h BY <1>1
  <1>3. h3 \in Nat /\ h3 >= 4 * h2 /\ h3 = h2 * h BY <1>1, <1>2
  <1>4. /\ ByteOf(n, 0) = (n \div 1) % h /\ ByteOf(n, 1) = (n \div h) % h
        /\ ByteOf(n, 2) = (n \div h2) % h /\ ByteOf(n, 3) = (n \div h3) % h
    BY DEF ByteOf
  <1>5. ByteOf(n, 0) \in 0 .. Top
    <2>1. n \div 1 \in Nat OBVIOUS
    <2> QED BY <1>4, <2>1, HeaderNumbers
  <1>6. c \in Nat BY HeaderNumbers
  <1>7. /\ ByteOf(n, 1) = Top => c <= n
        /\ ByteOf(n, 2) = Top => 2 * c <= n
        /\ ByteOf(n, 3) = Top => 3 * c <= n
    <2>1. ByteOf(n, 1) = Top => Top * h <= n BY <1>1, <1>4, TopByte
    <2>2. ByteOf(n, 2) = Top => Top * h2 <= n
      <3> HIDE DEF h2
      <3> QED BY <1>1, <1>2, <1>4, TopByte
    <2>3. ByteOf(n, 3) = Top => Top * h3 <= n
      <3> HIDE DEF h2, h3
      <3> QED BY <1>1, <1>2, <1>3, <1>4, TopByte
    <2>4. \A d \in Nat : 4 * h <= d => Top * d \in Nat /\ 4 * c <= Top * d
      <3>1. SUFFICES ASSUME NEW d \in Nat, 4 * h <= d
                     PROVE  Top * d \in Nat /\ 4 * (Top * h) <= Top * d
        OBVIOUS
      <3>2. PICK e \in Nat : d = 4 * h + e
        <4>1. d - 4 * h \in Nat /\ d = 4 * h + (d - 4 * h) BY <1>1, <3>1
        <4> QED BY <4>1
      <3>3. Top * d = 4 * (Top * h) + Top * e BY <1>1, <3>2, HeaderNumbers
      <3>4. Top * e \in Nat /\ Top * h \in Nat BY <1>1, <3>2, HeaderNumbers
      <3> QED BY <3>3, <3>4
    <2>5. 4 * h <= h3 BY <1>1, <1>2, <1>3
    <2>6. /\ Top * h2 \in Nat /\ 4 * c <= Top * h2
          /\ Top * h3 \in Nat /\ 4 * c <= Top * h3
      <3> HIDE DEF h2, h3, c, h
      <3> QED BY <1>2, <1>3, <2>4, <2>5
    <2> HIDE DEF h2, h3
    <2> QED BY <1>6, <2>1, <2>2, <2>3, <2>6
  <1>8. /\ Top \in 0 .. Top
        /\ \A k \in 1 .. 3 : /\ upper(k) \in Seq(0 .. Top)
                             /\ Len(upper(k)) = IF ByteOf(n, k) = Top THEN 1 ELSE 0
    <2>1. PICK S : S = 0 .. Top OBVIOUS
    <2>2. Top \in S BY <2>1, HeaderNumbers
    <2>3. PICK one, none : one = << Top >> /\ none = << >> OBVIOUS
    <2>4. one \in Seq(S) /\ Len(one) = 1 /\ none \in Seq(S) /\ Len(none) = 0
      BY <2>2, <2>3
    <2>5. \A k \in 1 .. 3 : upper(k) = IF ByteOf(n, k) = Top THEN one ELSE none
      BY <2>3
    <2> HIDE DEF upper
    <2> QED BY <2>1, <2>2, <2>4, <2>5
  <1>9. Laced(n) = upper(3) \o upper(2) \o upper(1) \o << ByteOf(n, 0) >> BY DEF Laced
  <1>10. PICK u3, u2, u1, last : u3 = upper(3) /\ u2 = upper(2) /\ u1 = upper(1) /\ last = << ByteOf(n, 0) >>
    OBVIOUS
  <1>11. /\ u3 \in Seq(0 .. Top) /\ u2 \in Seq(0 .. Top) /\ u1 \in Seq(0 .. Top)
         /\ last \in Seq(0 .. Top) /\ Len(last) = 1
         /\ Len(u3) = IF ByteOf(n, 3) = Top THEN 1 ELSE 0
         /\ Len(u2) = IF ByteOf(n, 2) = Top THEN 1 ELSE 0
         /\ Len(u1) = IF ByteOf(n, 1) = Top THEN 1 ELSE 0
    <2>1. 1 \in 1 .. 3 /\ 2 \in 1 .. 3 /\ 3 \in 1 .. 3 OBVIOUS
    <2> HIDE DEF upper
    <2> QED BY <1>5, <1>8, <1>10, <2>1
  <1>12. u3 \o u2 \o u1 \o last \in Seq(0 .. Top)
         /\ Len(u3 \o u2 \o u1 \o last) = Len(u3) + Len(u2) + Len(u1) + 1
    <2>1. PICK S : S = 0 .. Top OBVIOUS
    <2>2. u3 \o u2 \in Seq(S) /\ Len(u3 \o u2) = Len(u3) + Len(u2)
      BY <1>11, <2>1, ConcatProperties
    <2>3. u3 \o u2 \o u1 \in Seq(S) /\ Len(u3 \o u2 \o u1) = Len(u3 \o u2) + Len(u1)
      BY <1>11, <2>1, <2>2, ConcatProperties
    <2>4. /\ u3 \o u2 \o u1 \o last \in Seq(S)
          /\ Len(u3 \o u2 \o u1 \o last) = Len(u3 \o u2 \o u1) + Len(last)
      BY <1>11, <2>1, <2>3, ConcatProperties
    <2> QED BY <1>11, <2>1, <2>2, <2>3, <2>4
  <1> DEFINE j == Len(u3) + Len(u2) + Len(u1)
  <1>13. j \in 0 .. 3 /\ j * c <= n
    <2> HIDE DEF c
    <2>1. CASE ByteOf(n, 3) = Top
      <3>1. j \in 1 .. 3 /\ 3 * c <= n BY <1>7, <1>11, <2>1
      <3>2. j = 1 \/ j = 2 \/ j = 3 BY <3>1
      <3> HIDE DEF j
      <3> QED BY <1>6, <3>1, <3>2
    <2>2. CASE ByteOf(n, 3) # Top /\ ByteOf(n, 2) = Top
      <3>1. j \in 1 .. 2 /\ 2 * c <= n BY <1>7, <1>11, <2>2
      <3>2. j = 1 \/ j = 2 BY <3>1
      <3> HIDE DEF j
      <3> QED BY <1>6, <3>1, <3>2
    <2>3. CASE ByteOf(n, 3) # Top /\ ByteOf(n, 2) # Top
      <3>1. j = 0 \/ (j = 1 /\ c <= n) BY <1>7, <1>11, <2>3
      <3> HIDE DEF j
      <3> QED BY <1>6, <3>1
    <2> QED BY <2>1, <2>2, <2>3
  <1>14. Laced(n) = u3 \o u2 \o u1 \o last BY <1>9, <1>10
  <1> QED BY <1>12, <1>13, <1>14

(* xiph.c takes some bytes for a size, all in the header, and one of the top byte is not enough. *)
LEMMA UnlacedSize ==
  ASSUME NEW x, Len(x) \in Nat, NEW pos \in 1 .. Len(x), NEW overall \in Nat, pos <= overall
  PROVE  \E t \in 0 .. Len(x) - pos :
           /\ Unlaced(x, pos, overall) =
                [size |-> t * Top + x[pos + t], pos |-> pos + t + 1,
                 overall |-> overall + t * HeaderBase + x[pos + t]]
           /\ t = 0 => overall >= Len(x) \/ x[pos] # Top
           /\ pos <= Len(x) - 2 => t < Len(x) - pos
  <1> DEFINE ends(k) == overall + k * HeaderBase >= Len(x) \/ x[pos + k] # Top
             tops == CHOOSE k \in 0 .. Len(x) : ends(k) /\ \A j \in 0 .. k - 1 : ~ends(j)
  <1>1. Unlaced(x, pos, overall) =
          [size |-> tops * Top + x[pos + tops], pos |-> pos + tops + 1,
           overall |-> overall + tops * HeaderBase + x[pos + tops]]
    BY DEF Unlaced
  <1>2. ASSUME NEW k \in Nat, pos + 4 * k >= Len(x) PROVE ends(k)
    <2>1. k * HeaderBase \in Nat /\ k * HeaderBase >= 4 * k
      <3>1. PICK e \in Nat : HeaderBase = 4 + e
        <4>1. HeaderBase - 4 \in Nat /\ HeaderBase = 4 + (HeaderBase - 4) BY HeaderNumbers
        <4> QED BY <4>1
      <3>2. k * HeaderBase = 4 * k + k * e /\ k * e \in Nat BY <3>1
      <3> QED BY <3>2
    <2>2. overall + k * HeaderBase >= Len(x) BY <1>2, <2>1
    <2> QED BY <2>2
  <1>3. ends(0) => overall >= Len(x) \/ x[pos] # Top
    <2>1. pos + 0 = pos /\ overall + 0 * HeaderBase = overall BY HeaderNumbers
    <2> QED BY <2>1
  <1> HIDE DEF ends
  <1>4. Len(x) - pos \in Nat /\ Len(x) - pos \in 0 .. Len(x) /\ ends(Len(x) - pos)
    <2>1. Len(x) - pos \in Nat /\ pos + 4 * (Len(x) - pos) >= Len(x) OBVIOUS
    <2> QED BY <1>2, <2>1
  <1>5. \E k \in 0 .. Len(x) : ends(k) /\ \A j \in 0 .. k - 1 : ~ends(j)
    <2> DEFINE T == { k \in 0 .. Len(x) : ends(k) }
    <2>1. Len(x) - pos \in T /\ T \in SUBSET Nat BY <1>4
    <2> HIDE DEF T
    <2>2. PICK k \in T : \A y \in T : k <= y BY <2>1, LeastOf
    <2>3. k \in 0 .. Len(x) /\ ends(k) BY <2>2 DEF T
    <2>4. ASSUME NEW j \in 0 .. k - 1 PROVE ~ends(j)
      <3>1. j \in 0 .. Len(x) /\ ~(k <= j) BY <2>3
      <3> QED BY <2>2, <3>1 DEF T
    <2> QED BY <2>3, <2>4
  <1>6. tops \in 0 .. Len(x) /\ ends(tops) /\ \A j \in 0 .. tops - 1 : ~ends(j) BY <1>5
  <1> HIDE DEF tops
  <1>7. ASSUME NEW m \in Nat, ends(m) PROVE tops <= m
    <2>1. ~(tops <= m) => m \in 0 .. tops - 1 BY <1>6
    <2> QED BY <1>6, <1>7, <2>1
  <1>8. tops \in 0 .. Len(x) - pos BY <1>4, <1>6, <1>7
  <1>9. pos <= Len(x) - 2 => tops < Len(x) - pos
    <2>1. SUFFICES ASSUME pos <= Len(x) - 2 PROVE tops < Len(x) - pos OBVIOUS
    <2>2. Len(x) - pos - 1 \in Nat /\ pos + 4 * (Len(x) - pos - 1) >= Len(x) BY <2>1
    <2>3. ends(Len(x) - pos - 1) BY <1>2, <2>2
    <2>4. tops <= Len(x) - pos - 1 BY <1>7, <2>2, <2>3
    <2> QED BY <1>6, <2>4
  <1> QED BY <1>1, <1>3, <1>6, <1>8, <1>9

(* A size below the top byte is laced as itself. *)
LEMMA SmallSizeLaced ==
  ASSUME NEW n \in 0 .. HeaderBase - 2
  PROVE  Laced(n) = << n >>
  <1> DEFINE h == HeaderBase
             h2 == HeaderBase * HeaderBase
             h3 == HeaderBase * HeaderBase * HeaderBase
  <1>1. h \in Nat /\ h >= 3 /\ n \in Nat /\ n < h /\ Top = h - 1
    BY HeaderAssumption DEF Top
  <1>2. h2 \in Nat /\ h2 >= h
    BY <1>1
  <1>3. h3 \in Nat /\ h3 >= h
    BY <1>1, <1>2
  <1>4. /\ ByteOf(n, 0) = (n \div 1) % h /\ ByteOf(n, 1) = (n \div h) % h
        /\ ByteOf(n, 2) = (n \div h2) % h /\ ByteOf(n, 3) = (n \div h3) % h
    BY DEF ByteOf
  <1> HIDE DEF h, h2, h3
  <1>5. n \div 1 = n /\ n % h = n BY <1>1
  <1>6. n \div h = 0 /\ n \div h2 = 0 /\ n \div h3 = 0
    <2>1. ASSUME NEW d \in Nat, d > n PROVE n \div d = 0 BY <1>1, <2>1
    <2> QED BY <1>1, <1>2, <1>3, <2>1
  <1>7. 0 % h = 0 /\ 0 # Top BY <1>1
  <1>8. /\ ByteOf(n, 0) = n /\ ByteOf(n, 1) # Top
        /\ ByteOf(n, 2) # Top /\ ByteOf(n, 3) # Top
    BY <1>4, <1>5, <1>6, <1>7
  <1>9. Laced(n) = << >> \o << >> \o << >> \o << n >> BY <1>8 DEF Laced
  <1> QED BY <1>9

(* xiph.c takes a byte below the top byte for a size of its own. *)
LEMMA SmallSizeUnlaced ==
  ASSUME NEW x, Len(x) \in Nat, NEW pos \in Nat, NEW overall \in Nat,
         x[pos] \in Nat, x[pos] # Top
  PROVE  LET u == Unlaced(x, pos, overall)
         IN u.size = x[pos] /\ u.pos = pos + 1 /\ u.overall = overall + x[pos]
  <1> DEFINE ends(k) == overall + k * HeaderBase >= Len(x) \/ x[pos + k] # Top
             tops == CHOOSE k \in 0 .. Len(x) : ends(k) /\ \A j \in 0 .. k - 1 : ~ends(j)
  <1>1. Unlaced(x, pos, overall) =
          [size |-> tops * Top + x[pos + tops], pos |-> pos + tops + 1,
           overall |-> overall + tops * HeaderBase + x[pos + tops]]
    BY DEF Unlaced
  <1>2. ends(0) BY pos + 0 = pos
  <1>3. 0 \in 0 .. Len(x) /\ \A j \in 0 .. 0 - 1 : ~ends(j) OBVIOUS
  <1> HIDE DEF ends
  <1>4. tops \in 0 .. Len(x) /\ \A j \in 0 .. tops - 1 : ~ends(j)
    BY <1>2, <1>3
  <1>5. tops = 0
    <2> HIDE DEF tops
    <2>1. tops # 0 => 0 \in 0 .. tops - 1 BY <1>4
    <2> QED BY <1>2, <1>4, <2>1
  <1> HIDE DEF tops
  <1>6. /\ tops * Top = 0 /\ tops * HeaderBase = 0
        /\ pos + tops = pos /\ overall + 0 = overall
    BY <1>5, HeaderAssumption DEF Top
  <1>7. 0 + x[pos] = x[pos] OBVIOUS
  <1> QED BY <1>1, <1>5, <1>6, <1>7

(* Two pieces of a header, one after the other. *)
LEMMA TwoPieces ==
  ASSUME NEW s \in Seq(Int), NEW t \in Seq(Int)
  PROVE  /\ s \o t \in Seq(Int) /\ Len(s \o t) = Len(s) + Len(t)
         /\ \A i \in 1 .. Len(s) : (s \o t)[i] = s[i]
         /\ \A i \in Len(s) + 1 .. Len(s) + Len(t) : (s \o t)[i] = t[i - Len(s)]
  <1>1. /\ s \o t \in Seq(Int) /\ Len(s \o t) = Len(s) + Len(t)
        /\ \A i \in 1 .. Len(s) + Len(t) :
             (s \o t)[i] = IF i <= Len(s) THEN s[i] ELSE t[i - Len(s)]
    BY ConcatProperties
  <1> QED BY <1>1

(* What libavcodec finds in the rewritten header when each size takes a byte. *)
LEMMA HeaderSplit ==
  ASSUME NEW s1 \in Nat, NEW s2 \in Nat, NEW s3 \in Nat, NEW b \in 0 .. Top,
         s1 < Top, s2 < Top
  PROVE  LET x == ProcessHeader(<< s1, s2, s3 >>, b)
         IN /\ SplitHeaders(x) = << 4, s1, s2 >>
            /\ \A i \in 4 .. 3 + s1 + s2 + s3 : x[i] = b
            /\ Len(x) = InfoSize + s1 + s2 + s3
  <1>1. /\ s1 \in Nat /\ s2 \in Nat /\ s3 \in Nat /\ InfoSize \in Nat
        /\ s1 \in 0 .. HeaderBase - 2 /\ s2 \in 0 .. HeaderBase - 2
        /\ s1 # Top /\ s2 # Top
    BY HeaderAssumption DEF Top
  <1> DEFINE front == << 2 >> \o << s1 >> \o << s2 >>
             total == s1 + s2 + s3
             body == Repeat(b, total)
             rest == Repeat(0, InfoSize - 3)
             x == front \o body \o rest
  <1>2. /\ front \in Seq(Int) /\ Len(front) = 3
        /\ front[1] = 2 /\ front[2] = s1 /\ front[3] = s2
    <2>1. PICK p1, p2, p3 : p1 = << 2 >> /\ p2 = << s1 >> /\ p3 = << s2 >> OBVIOUS
    <2>2. /\ p1 \in Seq(Int) /\ Len(p1) = 1 /\ p1[1] = 2
          /\ p2 \in Seq(Int) /\ Len(p2) = 1 /\ p2[1] = s1
          /\ p3 \in Seq(Int) /\ Len(p3) = 1 /\ p3[1] = s2
      BY <1>1, <2>1
    <2>3. /\ p1 \o p2 \in Seq(Int) /\ Len(p1 \o p2) = 2
          /\ (p1 \o p2)[1] = 2 /\ (p1 \o p2)[2] = s1
      <3>1. /\ p1 \o p2 \in Seq(Int) /\ Len(p1 \o p2) = Len(p1) + Len(p2)
            /\ \A i \in 1 .. Len(p1) : (p1 \o p2)[i] = p1[i]
            /\ \A i \in Len(p1) + 1 .. Len(p1) + Len(p2) : (p1 \o p2)[i] = p2[i - Len(p1)]
        BY <2>2, TwoPieces
      <3> QED BY <2>2, <3>1
    <2>4. PICK p : p = p1 \o p2 OBVIOUS
    <2>5. /\ p \o p3 \in Seq(Int) /\ Len(p \o p3) = Len(p) + Len(p3)
          /\ \A i \in 1 .. Len(p) : (p \o p3)[i] = p[i]
          /\ \A i \in Len(p) + 1 .. Len(p) + Len(p3) : (p \o p3)[i] = p3[i - Len(p)]
      BY <2>2, <2>3, <2>4, TwoPieces
    <2>6. (p \o p3)[1] = 2 /\ (p \o p3)[2] = s1 /\ (p \o p3)[3] = s2
      BY <2>2, <2>3, <2>4, <2>5
    <2> QED BY <2>1, <2>4, <2>5, <2>6
  <1>3. ProcessHeader(<< s1, s2, s3 >>, b) = x
    <2>1. Laced(s1) = << s1 >> /\ Laced(s2) = << s2 >> BY <1>1, SmallSizeLaced
    <2> QED BY <1>2, <2>1 DEF ProcessHeader
  <1>4. total \in Nat /\ InfoSize - 3 \in Nat BY <1>1, HeaderNumbers
  <1> HIDE DEF total
  <1>5. /\ body \in Seq(Int) /\ Len(body) = total
        /\ \A i \in 1 .. total : body[i] = b
    <2>1. b \in Int BY HeaderAssumption DEF Top
    <2> QED BY <1>4, <2>1 DEF Repeat
  <1>6. rest \in Seq(Int) /\ Len(rest) = InfoSize - 3 BY <1>4 DEF Repeat
  <1> HIDE DEF front, body, rest
  <1>7. /\ front \o body \in Seq(Int) /\ Len(front \o body) = 3 + total
        /\ \A i \in 1 .. 3 : (front \o body)[i] = front[i]
        /\ \A i \in 4 .. 3 + total : (front \o body)[i] = body[i - 3]
    <2>1. /\ front \o body \in Seq(Int) /\ Len(front \o body) = Len(front) + Len(body)
          /\ \A i \in 1 .. Len(front) : (front \o body)[i] = front[i]
          /\ \A i \in Len(front) + 1 .. Len(front) + Len(body) :
               (front \o body)[i] = body[i - Len(front)]
      BY <1>2, <1>5, TwoPieces
    <2> QED BY <1>2, <1>4, <1>5, <2>1
  <1>8. /\ Len(x) = InfoSize + total
        /\ x[1] = 2 /\ x[2] = s1 /\ x[3] = s2
        /\ \A i \in 4 .. 3 + total : x[i] = b
    <2>1. PICK h : h = front \o body OBVIOUS
    <2>2. PICK m, k : m = 3 + total /\ k = InfoSize - 3 OBVIOUS
    <2>3. h \in Seq(Int) /\ Len(h) = m /\ m \in Nat /\ k \in Nat BY <1>4, <1>7, <2>1, <2>2
    <2>4. /\ Len(h \o rest) = m + k
          /\ \A i \in 1 .. m : (h \o rest)[i] = h[i]
      <3>1. /\ Len(h \o rest) = Len(h) + Len(rest)
            /\ \A i \in 1 .. Len(h) : (h \o rest)[i] = h[i]
        BY <1>6, <2>3, TwoPieces
      <3> QED BY <1>6, <2>2, <2>3, <3>1
    <2>5. x = h \o rest BY <2>1
    <2> HIDE DEF x
    <2>6. Len(x) = InfoSize + total BY <1>1, <1>4, <2>2, <2>4, <2>5
    <2>7. \A i \in 1 .. 3 : x[i] = front[i]
      <3>1. \A i \in 1 .. 3 : i \in 1 .. m BY <1>4, <2>2
      <3> QED BY <1>7, <2>1, <2>4, <2>5, <3>1
    <2>8. \A i \in 4 .. 3 + total : x[i] = b
      <3>1. \A i \in 4 .. 3 + total : i \in 1 .. m /\ i - 3 \in 1 .. total
        BY <1>4, <2>2
      <3> QED BY <1>5, <1>7, <2>1, <2>4, <2>5, <3>1
    <2> QED BY <1>2, <2>6, <2>7, <2>8
  <1> HIDE DEF x
  <1>9. Len(x) \in Nat BY <1>1, <1>4, <1>8
  <1> DEFINE first == Unlaced(x, 2, 3)
  <1>10. first.size = s1 /\ first.pos = 3 /\ first.overall = 3 + s1
    <2>1. x[2] \in Nat /\ x[2] # Top BY <1>1, <1>8
    <2>2. PICK p, o : p = 2 /\ o = 3 OBVIOUS
    <2> DEFINE u == Unlaced(x, p, o)
    <2>3. p \in Nat /\ o \in Nat /\ x[p] \in Nat /\ x[p] # Top BY <2>1, <2>2
    <2>4. u.size = x[p] /\ u.pos = p + 1 /\ u.overall = o + x[p]
      BY <1>9, <2>3, SmallSizeUnlaced
    <2>5. first = u BY <2>2
    <2> HIDE DEF u, first
    <2> QED BY <1>8, <2>2, <2>4, <2>5
  <1> HIDE DEF first
  <1> DEFINE second == Unlaced(x, first.pos, first.overall)
  <1>11. second.size = s2 /\ second.pos = 4 /\ second.overall = 3 + s1 + s2
    <2>1. x[3] \in Nat /\ x[3] # Top /\ 3 + s1 \in Nat BY <1>1, <1>8
    <2>2. PICK p, o : p = 3 /\ o = 3 + s1 OBVIOUS
    <2> DEFINE u == Unlaced(x, p, o)
    <2>3. p \in Nat /\ o \in Nat /\ x[p] \in Nat /\ x[p] # Top BY <2>1, <2>2
    <2>4. u.size = x[p] /\ u.pos = p + 1 /\ u.overall = o + x[p]
      BY <1>9, <2>3, SmallSizeUnlaced
    <2>5. second = u BY <1>10, <2>2
    <2> HIDE DEF u, second
    <2> QED BY <1>8, <2>2, <2>4, <2>5
  <1> HIDE DEF second
  <1>12. SplitHeaders(x) =
           IF Len(x) < 3 \/ x[1] # 2 \/ first.overall > Len(x) \/ second.overall > Len(x)
           THEN << >> ELSE << second.pos, first.size, second.size >>
    BY DEF SplitHeaders, first, second
  <1>13. ~(Len(x) < 3 \/ x[1] # 2 \/ first.overall > Len(x) \/ second.overall > Len(x))
    BY <1>1, <1>8, <1>10, <1>11, HeaderNumbers DEF total
  <1>14. SplitHeaders(x) = << 4, s1, s2 >> BY <1>10, <1>11, <1>12, <1>13
  <1>15. 3 + total = 3 + s1 + s2 + s3 /\ InfoSize + total = InfoSize + s1 + s2 + s3
    BY <1>1 DEF total
  <1> QED BY <1>3, <1>8, <1>14, <1>15

(***************************************************************************)
(* The rewritten header, of any sizes: what is in front of the headers is  *)
(* bytes, and there is room for it.                                        *)
(***************************************************************************)
LEMMA HeaderBytes ==
  ASSUME NEW s1 \in Nat, NEW s2 \in Nat, NEW s3 \in Nat, NEW b \in 0 .. Top
  PROVE  LET x == ProcessHeader(<< s1, s2, s3 >>, b)
         IN x \in Seq(0 .. Top) /\ Len(x) = InfoSize + s1 + s2 + s3
  <1> DEFINE w1 == Laced(s1)
             w2 == Laced(s2)
             type == << 2 >>
             front == type \o w1 \o w2
             total == s1 + s2 + s3
             body == Repeat(b, total)
             rest == Repeat(0, InfoSize - Len(front))
  <1>1. PICK S : S = 0 .. Top OBVIOUS
  <1>2. /\ w1 \in Seq(S) /\ Len(w1) \in 1 .. 4 /\ w2 \in Seq(S) /\ Len(w2) \in 1 .. 4
    BY <1>1, LacedSize
  <1>3. type \in Seq(S) /\ Len(type) = 1 BY <1>1, HeaderNumbers
  <1>4. total \in Nat /\ total = s1 + s2 + s3 OBVIOUS
  <1>5. ProcessHeader(<< s1, s2, s3 >>, b) = front \o body \o rest BY DEF ProcessHeader
  <1> HIDE DEF w1, w2, type, total
  <1>6. type \o w1 \in Seq(S) /\ Len(type \o w1) = Len(type) + Len(w1)
    BY <1>2, <1>3, ConcatProperties
  <1>7. front \in Seq(S) /\ Len(front) = Len(type \o w1) + Len(w2)
    BY <1>2, <1>6, ConcatProperties
  <1> HIDE DEF front
  <1>8. Len(front) \in 3 .. 9
    <2>1. PICK n1, n2 : n1 = Len(w1) /\ n2 = Len(w2) OBVIOUS
    <2>2. n1 \in 1 .. 4 /\ n2 \in 1 .. 4 /\ Len(front) = 1 + n1 + n2
      BY <1>2, <1>3, <1>6, <1>7, <2>1
    <2> QED BY <2>2
  <1>9. InfoSize - Len(front) \in Nat
    <2>1. PICK m : m = Len(front) OBVIOUS
    <2>2. m \in 3 .. 9 BY <1>8, <2>1
    <2>3. InfoSize - m \in Nat BY <2>2, HeaderNumbers
    <2> QED BY <2>1, <2>3
  <1>10. 0 \in S /\ b \in S BY <1>1, HeaderNumbers
  <1>11. body \in Seq(S) /\ Len(body) = total BY <1>4, <1>10 DEF Repeat
  <1>12. rest \in Seq(S) /\ Len(rest) = InfoSize - Len(front) BY <1>9, <1>10 DEF Repeat
  <1> HIDE DEF body, rest
  <1>13. front \o body \in Seq(S) /\ Len(front \o body) = Len(front) + Len(body)
    BY <1>7, <1>11, ConcatProperties
  <1>14. /\ front \o body \o rest \in Seq(S)
         /\ Len(front \o body \o rest) = Len(front \o body) + Len(rest)
    BY <1>12, <1>13, ConcatProperties
  <1>15. Len(front \o body \o rest) = InfoSize + s1 + s2 + s3
    BY <1>4, <1>8, <1>11, <1>12, <1>13, <1>14, HeaderNumbers
  <1> QED BY <1>1, <1>5, <1>14, <1>15

(* What libavcodec finds is never the sizes that were put in when one needs more than a byte. *)
LEMMA LongHeadersLost ==
  ASSUME NEW s1 \in Nat, NEW s2 \in Nat, NEW s3 \in Nat, NEW b \in 0 .. Top,
         SplitHeaders(ProcessHeader(<< s1, s2, s3 >>, b))
           = << 2 + Len(Laced(s1)) + Len(Laced(s2)), s1, s2 >>
  PROVE  s1 < Top /\ s2 < Top
  <1>1. PICK x : x = ProcessHeader(<< s1, s2, s3 >>, b) OBVIOUS
  <1>2. x \in Seq(0 .. Top) /\ Len(x) = InfoSize + s1 + s2 + s3
    BY <1>1, HeaderBytes
  <1>3. Len(x) \in Nat /\ Len(x) >= 9 + s1 BY <1>2, HeaderNumbers
  <1> DEFINE first  == Unlaced(x, 2, 3)
             second == Unlaced(x, first.pos, first.overall)
  <1>4. /\ SplitHeaders(x) = << second.pos, first.size, second.size >>
    <2>1. SplitHeaders(x) = << >> \/ SplitHeaders(x) = << second.pos, first.size, second.size >>
      BY DEF SplitHeaders
    <2>2. SplitHeaders(x) = << 2 + Len(Laced(s1)) + Len(Laced(s2)), s1, s2 >> BY <1>1
    <2> HIDE DEF first, second
    <2>3. << >> # << 2 + Len(Laced(s1)) + Len(Laced(s2)), s1, s2 >> OBVIOUS
    <2> QED BY <2>1, <2>2, <2>3
  <1>5. /\ second.pos = 2 + Len(Laced(s1)) + Len(Laced(s2))
        /\ first.size = s1 /\ second.size = s2
    <2> HIDE DEF first, second
    <2> QED BY <1>1, <1>4
  <1>6. PICK j1 \in 0 .. 3 : Len(Laced(s1)) = 1 + j1 /\ j1 * (Top * HeaderBase) <= s1
    BY LacedSize
  <1>7. PICK j2 \in 0 .. 3 : Len(Laced(s2)) = 1 + j2 /\ j2 * (Top * HeaderBase) <= s2
    BY LacedSize
  <1>8. PICK t1 \in 0 .. Len(x) - 3 :
          /\ first = [size |-> t1 * Top + x[2 + t1], pos |-> 2 + t1 + 1,
                      overall |-> 3 + t1 * HeaderBase + x[2 + t1]]
          /\ t1 = 0 => x[2] # Top
    <2>1. PICK p, o, l : p = 2 /\ o = 3 /\ l = Len(x) OBVIOUS
    <2>2. l \in Nat /\ l >= 9 /\ p \in 1 .. l /\ o \in Nat /\ p <= o /\ p <= l - 2
      BY <1>3, <2>1
    <2>3. \E t \in 0 .. l - p :
            /\ Unlaced(x, p, o) = [size |-> t * Top + x[p + t], pos |-> p + t + 1,
                                   overall |-> o + t * HeaderBase + x[p + t]]
            /\ t = 0 => o >= l \/ x[p] # Top
            /\ p <= l - 2 => t < l - p
      BY <2>1, <2>2, UnlacedSize
    <2>4. PICK t \in 0 .. l - p :
            /\ Unlaced(x, p, o) = [size |-> t * Top + x[p + t], pos |-> p + t + 1,
                                   overall |-> o + t * HeaderBase + x[p + t]]
            /\ t = 0 => x[p] # Top
            /\ t < l - p
      BY <2>1, <2>2, <2>3
    <2>5. t \in 0 .. Len(x) - 3 BY <2>1, <2>2, <2>4
    <2> QED BY <2>1, <2>4, <2>5
  <1>9. t1 \in Nat /\ x[2 + t1] \in 0 .. Top
    <2>1. t1 \in Nat /\ 2 + t1 \in 1 .. Len(x) BY <1>3
    <2> QED BY <1>2, <2>1, ElementOfSeq
  <1>10. /\ first.size = t1 * Top + x[2 + t1] /\ first.pos = 3 + t1
         /\ first.overall = 3 + t1 * HeaderBase + x[2 + t1]
    <2> HIDE DEF first
    <2>1. 2 + t1 + 1 = 3 + t1 BY <1>9
    <2> QED BY <1>8, <2>1
  <1> HIDE DEF first
  <1>11. /\ first.pos \in 1 .. Len(x) /\ first.overall \in Nat /\ first.pos <= first.overall
    <2>1. t1 * HeaderBase \in Nat /\ t1 * HeaderBase >= t1
      <3>1. t1 * HeaderBase = t1 * Top + t1 /\ t1 * Top \in Nat BY <1>9, HeaderNumbers
      <3> QED BY <1>9, <3>1
    <2> QED BY <1>3, <1>9, <1>10, <2>1
  <1>12. PICK t2 \in 0 .. Len(x) - first.pos :
          /\ second = [size |-> t2 * Top + x[first.pos + t2], pos |-> first.pos + t2 + 1,
                       overall |-> first.overall + t2 * HeaderBase + x[first.pos + t2]]
          /\ t2 = 0 => first.overall >= Len(x) \/ x[first.pos] # Top
    <2>1. PICK p, o : p = first.pos /\ o = first.overall OBVIOUS
    <2>2. \E t \in 0 .. Len(x) - p :
            /\ Unlaced(x, p, o) = [size |-> t * Top + x[p + t], pos |-> p + t + 1,
                                   overall |-> o + t * HeaderBase + x[p + t]]
            /\ t = 0 => o >= Len(x) \/ x[p] # Top
      BY <1>3, <1>11, <2>1, UnlacedSize
    <2> QED BY <2>1, <2>2
  <1>13. t2 \in Nat /\ x[first.pos + t2] \in 0 .. Top
    <2>1. t2 \in Nat /\ first.pos + t2 \in 1 .. Len(x) BY <1>3, <1>11
    <2> QED BY <1>2, <2>1, ElementOfSeq
  <1>14. /\ second.size = t2 * Top + x[first.pos + t2] /\ second.pos = first.pos + t2 + 1
    <2> HIDE DEF second
    <2> QED BY <1>12
  <1> HIDE DEF second
  <1>15. t1 + t2 = j1 + j2
    BY <1>5, <1>6, <1>7, <1>9, <1>10, <1>13, <1>14
  <1>16. t1 = 0 /\ t2 = 0
    <2>1. PICK a, c : a = x[2 + t1] /\ c = x[first.pos + t2] OBVIOUS
    <2>2. s1 = t1 * Top + a /\ s2 = t2 * Top + c /\ a \in 0 .. Top /\ c \in 0 .. Top
      BY <1>5, <1>9, <1>10, <1>13, <1>14, <2>1
    <2>3. t1 \in Nat /\ t2 \in Nat /\ t1 + t2 = j1 + j2 BY <1>9, <1>13, <1>15
    <2>4. j1 * (Top * HeaderBase) <= s1 /\ j2 * (Top * HeaderBase) <= s2 BY <1>6, <1>7
    <2> DEFINE w == Top * HeaderBase
    <2>5. w \in Nat /\ w >= 4 * Top /\ Top \in Nat /\ Top >= 3 BY HeaderNumbers
    <2>6. (j1 + j2) * w <= s1 + s2
      <3>1. w \in Nat /\ j1 * w <= s1 /\ j2 * w <= s2
        <4>1. j1 * w <= s1 /\ j2 * w <= s2 BY <2>4
        <4> QED BY <2>5, <4>1
      <3> HIDE DEF w
      <3>2. j1 * w \in Nat /\ j2 * w \in Nat /\ (j1 + j2) * w = j1 * w + j2 * w BY <3>1
      <3> QED BY <3>1, <3>2
    <2>7. s1 + s2 <= (j1 + j2) * Top + 2 * Top
      <3>1. t1 * Top + t2 * Top = (t1 + t2) * Top BY <2>3, <2>5
      <3>2. t1 * Top \in Nat /\ t2 * Top \in Nat BY <2>3, <2>5
      <3>3. s1 + s2 <= (t1 * Top + t2 * Top) + 2 * Top BY <2>2, <2>5, <3>2
      <3> QED BY <2>3, <3>1, <3>3
    <2> HIDE DEF w
    <2>8. ASSUME NEW m \in Nat, m >= 1, m * w <= m * Top + 2 * Top PROVE FALSE
      <3>1. PICK e \in Nat : w = 4 * Top + e
        <4>1. w - 4 * Top \in Nat /\ w = 4 * Top + (w - 4 * Top) BY <2>5
        <4> QED BY <4>1
      <3>2. m * w = 4 * (m * Top) + m * e BY <2>5, <3>1
      <3>3. m * e \in Nat /\ m * Top \in Nat /\ m * Top >= Top BY <2>5, <2>8, <3>1
      <3> QED BY <2>5, <2>8, <3>2, <3>3
    <2>9. j1 + j2 = 0
      <3>1. PICK m \in Nat : m = j1 + j2 OBVIOUS
      <3>2. m * w <= m * Top + 2 * Top
        <4>1. m * w \in Nat /\ m * Top \in Nat BY <2>5
        <4> QED BY <2>5, <2>6, <2>7, <3>1, <4>1
      <3>3. ~(m >= 1) BY <2>8, <3>2
      <3> QED BY <3>1, <3>3
    <2> QED BY <2>3, <2>9
  <1>17. x[2] = s1 /\ x[3] = s2 /\ first.pos = 3 /\ first.overall = 3 + s1
    BY <1>5, <1>9, <1>10, <1>13, <1>14, <1>16, HeaderNumbers
  <1>18. s1 \in 0 .. Top /\ s2 \in 0 .. Top BY <1>9, <1>10, <1>13, <1>16, <1>17
  <1>19. s1 # Top BY <1>8, <1>16, <1>17
  <1>20. s2 # Top BY <1>3, <1>12, <1>16, <1>17
  <1> QED BY <1>18, <1>19, <1>20, HeaderNumbers

(* What was written last was rewritten from the sizes and the byte there are. *)
HeaderInv ==
  out # << >> =>
    \E s1, s2, s3 \in HeaderSizes :
      sizes = << s1, s2, s3 >> /\ fill \in 0 .. Top /\ out = ProcessHeader(sizes, fill)

-----------------------------------------------------------------------------
(***************************************************************************)
(* The conversions side by side.                                           *)
(***************************************************************************)
ConversionInv == BufferInv /\ UnitsInv

LEMMA ConversionInductive == ConversionSpec => []ConversionInv
  <1>1. ConversionInit => ConversionInv
    BY PacketInitial, NalInitial DEF ConversionInit, ConversionInv
  <1>2. ConversionInv /\ [ConversionNext]_conversionVars => ConversionInv'
    <2> SUFFICES ASSUME ConversionInv, [ConversionNext]_conversionVars PROVE ConversionInv'
      OBVIOUS
    <2>1. ASSUME UNCHANGED bufferVars PROVE BufferInv'
      BY <2>1 DEF ConversionInv, BufferInv, bufferVars, PacketTypeOK
    <2>2. ASSUME UNCHANGED nalVars PROVE UnitsInv'
      BY <2>2 DEF ConversionInv, UnitsInv, nalVars, NalTypeOK, Inside, EachByteOnce
    <2>3. CASE PacketNext /\ UNCHANGED nalVars
      BY <2>2, <2>3, PacketStep DEF ConversionInv
    <2>4. CASE NalNext /\ UNCHANGED bufferVars
      BY <2>1, <2>4, NalStep DEF ConversionInv
    <2>5. CASE UNCHANGED << bufferVars, nalVars >>
      BY <2>1, <2>2, <2>5 DEF ConversionInv
    <2> QED BY <2>3, <2>4, <2>5 DEF ConversionNext, UnitsOnly, conversionVars
  <1> QED BY <1>1, <1>2, PTL DEF ConversionSpec

(* Every variable of the conversions keeps its type (FFmpegTypes.cpp, H264AVCSampleProvider.cpp). *)
THEOREM ConversionTypeCorrect == ConversionSpec => []TypeOK
  <1>1. ConversionInv => TypeOK BY DEF ConversionInv, BufferInv, UnitsInv, TypeOK
  <1> QED BY <1>1, ConversionInductive, PTL

(***************************************************************************)
(* A codec that gives out one frame for a packet, whatever it holds back,  *)
(* never finds a buffer overwritten that it refers to (PacketFromSample).  *)
(***************************************************************************)
THEOREM BuffersKeptInUse ==
  ASSUME MaxFrames <= 1
  PROVE  ConversionSpec => OverwrittenOnlyWhenFree
  <1>1. ConversionInv => InUse(av) = { }
    <2> SUFFICES ASSUME ConversionInv PROVE InUse(av) = { } OBVIOUS
    <2>1. av.bsf = << >> /\ av.work = << >> BY DEF ConversionInv, BufferInv, NothingLeft
    <2>2. DOMAIN av.bsf = { } /\ DOMAIN av.work = { } BY <2>1
    <2> QED BY <2>2 DEF InUse
  <1>2. ConversionInv =>
          [\A b \in SampleIds :
             content[b] # 0 /\ content'[b] # content[b] =>
               \A p \in InUse(av) : bufferOf[p] # b]_bufferVars
    BY <1>1
  <1> QED BY <1>2, ConversionInductive, PTL DEF OverwrittenOnlyWhenFree

(***************************************************************************)
(* After a conversion the packet is that of its sample alone, as if it had *)
(* never been used: for all sequences of sample sizes, for samples with a  *)
(* time and a duration and buffers that are allocated (PacketFromSample).  *)
(***************************************************************************)
THEOREM NothingLeftOver ==
  ASSUME Stamped \subseteq { TRUE }, RunsOut \subseteq { FALSE }
  PROVE  ConversionSpec => []PacketIsSample
  <1>1. ConversionInit => PacketIsSample
    BY DEF ConversionInit, PacketInit, PacketIsSample
  <1>2. ConversionInv /\ PacketIsSample /\ [ConversionNext]_conversionVars => PacketIsSample'
    <2> SUFFICES ASSUME ConversionInv, PacketIsSample, [ConversionNext]_conversionVars
                 PROVE  PacketIsSample'
      OBVIOUS
    <2>1. CASE UNCHANGED bufferVars BY <2>1 DEF bufferVars, PacketIsSample
    <2>2. CASE PacketNext BY <2>2, PacketIsSampleStep DEF ConversionInv
    <2> QED BY <2>1, <2>2 DEF ConversionNext, UnitsOnly, conversionVars
  <1> QED BY <1>1, <1>2, ConversionInductive, PTL DEF ConversionSpec

(***************************************************************************)
(* WriteNALPacket never reads outside a packet and never a byte twice,     *)
(* whatever the lengths in the packet: its check of a sum that may wrap is *)
(* enough for every packet of less than half the range of a length.        *)
(***************************************************************************)
THEOREM NoByteTwice == ConversionSpec => []EachByteOnce
  <1>1. ConversionInv => EachByteOnce BY DEF ConversionInv, UnitsInv
  <1> QED BY <1>1, ConversionInductive, PTL

(* Every extradata's sets are those of its key frame, until the packet ends. *)
LEMMA SetsInductive == ConversionSpec => []SetsInv
  <1>1. ConversionInit => SetsInv
    BY NalInitial DEF ConversionInit, NalInit, UnitsInv, SetsInv
  <1>2. ConversionInv /\ SetsInv /\ [ConversionNext]_conversionVars => SetsInv'
    <2> SUFFICES ASSUME ConversionInv, SetsInv, [ConversionNext]_conversionVars PROVE SetsInv'
      OBVIOUS
    <2>1. [NalNext]_nalVars BY DEF ConversionNext, UnitsOnly, conversionVars, nalVars
    <2> QED BY <2>1, SetsStep DEF ConversionInv
  <1> QED BY <1>1, <1>2, ConversionInductive, PTL DEF ConversionSpec

(***************************************************************************)
(* Before a key frame both parameter sets are written, each from its first *)
(* byte to its last, and never both when one is cut off: for all extradata *)
(* whose sets are shorter than the range of a byte, of whose lengths the   *)
(* code reads one byte (GetSPSAndPPSBuffer).                               *)
(***************************************************************************)
THEOREM SetsWrittenWhole ==
  ASSUME ShortSets
  PROVE  ConversionSpec => []ParameterSetsExact
  <1>1. SetsInv => ParameterSetsExact BY ShortSetsFound
  <1> QED BY <1>1, SetsInductive, PTL

(***************************************************************************)
(* A packet is accepted exactly when it is whole units, after both sets if *)
(* it is a key frame, and then it was written to its end: for every packet *)
(* the arithmetic has room for, whatever its lengths are (WriteNALPacket). *)
(***************************************************************************)
THEOREM WholePacketsOnly == ConversionSpec => []WholePacketsAccepted
  <1>1. ConversionInit => AcceptInv
    BY DEF ConversionInit, NalInit, AcceptInv, WholePacketsAccepted
  <1>2. ConversionInv /\ SetsInv /\ AcceptInv /\ [ConversionNext]_conversionVars => AcceptInv'
    <2> SUFFICES ASSUME ConversionInv, SetsInv, AcceptInv, [ConversionNext]_conversionVars
                 PROVE  AcceptInv'
      OBVIOUS
    <2>1. [NalNext]_nalVars BY DEF ConversionNext, UnitsOnly, conversionVars, nalVars
    <2> QED BY <2>1, AcceptStep DEF ConversionInv
  <1>3. AcceptInv => WholePacketsAccepted BY DEF AcceptInv
  <1> QED BY <1>1, <1>2, <1>3, ConversionInductive, SetsInductive, PTL DEF ConversionSpec

(***************************************************************************)
(* libavcodec finds in the rewritten header the headers that were put into *)
(* it exactly when the first two are smaller than 0xff, whatever the size  *)
(* of the third, their bytes and the room for the sizes (FFmpegVorbis.cpp).*)
(***************************************************************************)
THEOREM RewrittenHeadersFound == ConversionSpec => []OnlyShortHeadersFound
  <1>1. ConversionInit => HeaderInv BY DEF ConversionInit, HeaderInit, HeaderInv
  <1>2. HeaderInv /\ [ConversionNext]_conversionVars => HeaderInv'
    <2> SUFFICES ASSUME HeaderInv, [ConversionNext]_conversionVars PROVE HeaderInv' OBVIOUS
    <2>1. CASE UNCHANGED headerVars BY <2>1 DEF headerVars, HeaderInv
    <2>2. CASE NewHeader BY <2>2 DEF NewHeader, HeaderInv
    <2>3. CASE FreeHeader BY <2>3 DEF FreeHeader, HeaderInv
    <2> QED BY <2>1, <2>2, <2>3 DEF ConversionNext, HeaderNext, UnitsOnly, conversionVars
  <1>3. HeaderInv => OnlyShortHeadersFound
    <2> SUFFICES ASSUME HeaderInv, out # << >>
                 PROVE  HeadersFound <=> sizes[1] < Top /\ sizes[2] < Top
      BY DEF OnlyShortHeadersFound
    <2>1. PICK s1, s2, s3 \in HeaderSizes, b \in 0 .. Top :
            /\ sizes = << s1, s2, s3 >> /\ fill = b
            /\ out = ProcessHeader(<< s1, s2, s3 >>, b)
      BY DEF HeaderInv
    <2>2. sizes[1] = s1 /\ sizes[2] = s2 /\ sizes[3] = s3 BY <2>1
    <2>3. s1 \in Nat /\ s2 \in Nat /\ s3 \in Nat BY HeaderAssumption
    <2>4. ASSUME s1 < Top, s2 < Top PROVE HeadersFound
      <3>1. /\ SplitHeaders(out) = << 4, s1, s2 >>
            /\ \A i \in 4 .. 3 + s1 + s2 + s3 : out[i] = b
        BY <2>1, <2>3, <2>4, HeaderSplit
      <3>2. Len(Laced(s1)) = 1 /\ Len(Laced(s2)) = 1
        <4>1. s1 \in 0 .. HeaderBase - 2 /\ s2 \in 0 .. HeaderBase - 2
          BY <2>3, <2>4, HeaderNumbers
        <4>2. Laced(s1) = << s1 >> /\ Laced(s2) = << s2 >> BY <4>1, SmallSizeLaced
        <4> QED BY <4>2
      <3>3. 2 + Len(Laced(s1)) + Len(Laced(s2)) = 4 BY <3>2
      <3>4. 4 + (s1 + s2 + s3) - 1 = 3 + s1 + s2 + s3 BY <2>3
      <3> QED BY <2>1, <2>2, <3>1, <3>3, <3>4 DEF HeadersFound
    <2>5. ASSUME HeadersFound PROVE s1 < Top /\ s2 < Top
      <3>1. SplitHeaders(out) = << 2 + Len(Laced(s1)) + Len(Laced(s2)), s1, s2 >>
        BY <2>2, <2>5 DEF HeadersFound
      <3> QED BY <2>1, <2>3, <3>1, LongHeadersLost
    <2> QED BY <2>2, <2>4, <2>5
  <1> QED BY <1>1, <1>2, <1>3, PTL DEF ConversionSpec

(***************************************************************************)
(* Every turn of WriteNALPacket's loop moves on in the packet or is the    *)
(* last one, whatever the lengths in the packet and whether or not their   *)
(* sums wrap: the loop ends after at most Len(data) turns.                 *)
(***************************************************************************)
MovesOn ==
  stage = "units" =>
    \/ stage' = "done"
    \/ stage' = "units" /\ data' = data /\ index < index' /\ index' < Len(data)

THEOREM LoopMovesOn == ConversionSpec => [][MovesOn]_nalVars
  <1>1. UnitsInv /\ UnitsInv' /\ WriteUnit => MovesOn
    <2> SUFFICES ASSUME UnitsInv, WriteUnit, stage' # "done"
                 PROVE  stage' = "units" /\ data' = data /\ index < index' /\ index' < Len(data)
      BY DEF MovesOn
    <2>1. PICK p, l, i, n : p = data /\ l = Len(p) /\ i = index /\ n = Word(p, i)
      OBVIOUS
    <2>2. l \in Nat /\ i \in Nat /\ i <= l /\ 2 * l < Width /\ n \in Nat
      <3>1. p \in Seq(Byte) /\ i \in Nat /\ i <= l /\ 2 * l < Width
        BY <2>1, WidthFacts DEF UnitsInv, NalTypeOK
      <3> QED BY <2>1, <3>1, BytesAreNumbers
    <2>3. /\ ~(l < (i + 4) % Width) /\ UnitFits((i + 4) % Width, n)
          /\ index' = (((i + 4) % Width) + n) % Width
          /\ stage' = IF index' < l THEN "units" ELSE "done"
          /\ data' = data
      BY <2>1 DEF WriteUnit
    <2>4. (i + 4) % Width = i + 4 /\ (i + 4 + n) % Width = i + 4 + n
      BY <2>1, <2>2, <2>3, CheckedUnit DEF UnitFits
    <2>5. index' = i + 4 + n BY <2>3, <2>4
    <2> QED BY <2>1, <2>2, <2>3, <2>5
  <1>2. ConversionInv /\ ConversionInv' /\ [ConversionNext]_conversionVars => [MovesOn]_nalVars
    <2> SUFFICES ASSUME ConversionInv, ConversionInv', NalNext PROVE MovesOn
      BY DEF ConversionNext, UnitsOnly, conversionVars, nalVars
    <2>1. CASE WriteUnit BY <1>1, <2>1 DEF ConversionInv
    <2>2. CASE BeginPacket \/ WriteSets \/ EndPacket
      BY <2>2 DEF BeginPacket, WriteSets, EndPacket, MovesOn
    <2> QED BY <2>1, <2>2 DEF NalNext
  <1> QED BY <1>2, ConversionInductive, PTL DEF ConversionSpec
=============================================================================
