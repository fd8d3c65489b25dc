------------------------- MODULE DecoderOrder_proofs -------------------------
(***************************************************************************)
(* Theorems about the frames in the decoder: it implements OrderedDecoder, *)
(* its frames are in order, its samples carry the stamps of their packets, *)
(* and frames are dropped only by a flush.                                 *)
(*                                                                         *)
(* The argument is one equation for each operation of the codec: what it   *)
(* gives out followed by what is left in it is what was in it before.      *)
(***************************************************************************)
EXTENDS FFmpegDecoderMFT_proofs

-----------------------------------------------------------------------------
(***************************************************************************)
(* The codec.                                                              *)
(***************************************************************************)

LEMMA Associative ==
  \A s, t, u \in Seq(Frame) : (s \o t) \o u = s \o (t \o u)
  <1> SUFFICES ASSUME NEW s \in Seq(Frame), NEW t \in Seq(Frame), NEW u \in Seq(Frame)
               PROVE  (s \o t) \o u = s \o (t \o u)
    OBVIOUS
  <1> DEFINE lhs == (s \o t) \o u
             rhs == s \o (t \o u)
  <1>1. /\ s \o t \in Seq(Frame) /\ Len(s \o t) = Len(s) + Len(t)
        /\ t \o u \in Seq(Frame) /\ Len(t \o u) = Len(t) + Len(u)
    BY ConcatProperties
  <1>2. lhs \in Seq(Frame) /\ rhs \in Seq(Frame) BY <1>1, ConcatProperties
  <1>3. Len(lhs) = Len(rhs) BY <1>1, ConcatProperties, LenProperties
  <1>4. \A i \in 1 .. Len(lhs) : lhs[i] = rhs[i] BY <1>1, ConcatProperties, LenProperties
  <1> QED BY <1>2, <1>3, <1>4, SeqEqual, Zenon

(* The frames of the packet in the filter, and all frames not yet decoded ahead. *)
Filtered(c) == IF c.bsf = << >> THEN << >> ELSE FramesOf(c.bsf[1])
Behind(c)   == (c.held \o c.work) \o Filtered(c)

LEMMA CodecFrames ==
  ASSUME NEW c, CodecOK(c)
  PROVE  /\ c.buf \in Seq(Frame) /\ c.held \in Seq(Frame) /\ c.work \in Seq(Frame)
         /\ Filtered(c) \in Seq(Frame) /\ Behind(c) \in Seq(Frame)
         /\ InCodec(c) = c.buf \o Behind(c) /\ InCodec(c) \in Seq(Frame)
  <1>1. c.buf \in Seq(Frame) /\ c.held \in Seq(Frame) /\ c.work \in Seq(Frame)
        /\ c.bsf \in Seq(Packet)
    BY DEF CodecOK, Codec
  <1>2. Filtered(c) \in Seq(Frame)
    <2>1. CASE c.bsf = << >> BY <2>1, EmptySeq DEF Filtered
    <2>2. CASE c.bsf # << >>
      <3>1. c.bsf[1] \in Packet BY <1>1, <2>2
      <3> QED BY <2>2, <3>1, FramesOfType DEF Filtered
    <2> QED BY <2>1, <2>2
  <1> DEFINE f == Filtered(c)
  <1>3. InCodec(c) = ((c.buf \o c.held) \o c.work) \o f BY DEF InCodec, Filtered
  <1>4. f \in Seq(Frame) BY <1>2
  <1> HIDE DEF f
  <1>5. c.held \o c.work \in Seq(Frame) /\ (c.held \o c.work) \o f \in Seq(Frame)
    BY <1>1, <1>4, ConcatProperties
  <1>6. (c.buf \o c.held) \o c.work = c.buf \o (c.held \o c.work) BY <1>1, Associative
  <1>7. (c.buf \o (c.held \o c.work)) \o f = c.buf \o ((c.held \o c.work) \o f)
    BY <1>1, <1>4, <1>5, Associative
  <1>8. c.buf \o ((c.held \o c.work) \o f) \in Seq(Frame) BY <1>1, <1>5, ConcatProperties
  <1> QED BY <1>1, <1>3, <1>4, <1>5, <1>6, <1>7, <1>8 DEF Behind, f

(* A line of frames is its first, those held back, and the rest. *)
LEMMA Split ==
  ASSUME NEW s \in Seq(Frame), Len(s) > Lag
  PROVE  LET h == SubSeq(s, 2, Lag + 1)
             w == SubSeq(s, Lag + 2, Len(s))
         IN /\ << s[1] >> \in Seq(Frame) /\ h \in Seq(Frame) /\ w \in Seq(Frame)
            /\ << s[1] >> \o (h \o w) = s
  <1>1. Lag \in Nat /\ Len(s) \in Nat /\ \A i \in 1 .. Len(s) : s[i] \in Frame
    BY CodecAssumption, LenProperties
  <1>2. s[1] \in Frame BY <1>1
  <1>3. SubSeq(s, 2, Lag + 1) \in Seq(Frame)
    <2>1. 2 \in Int /\ Lag + 1 \in Int /\ \A i \in 2 .. Lag + 1 : s[i] \in Frame BY <1>1
    <2> QED BY <2>1, SubSeqProperties
  <1>4. SubSeq(s, Lag + 2, Len(s)) \in Seq(Frame)
    <2>1. Lag + 2 \in Int /\ Len(s) \in Int /\ \A i \in Lag + 2 .. Len(s) : s[i] \in Frame BY <1>1
    <2> QED BY <2>1, SubSeqProperties
  <1>5. SubSeq(s, 2, Lag + 1) \o SubSeq(s, Lag + 2, Len(s)) = SubSeq(s, 2, Len(s))
    <2> DEFINE k == Lag + 1
    <2>1. 2 \in 1 .. Len(s) + 1 /\ k \in 2 - 1 .. Len(s) /\ Len(s) \in k .. Len(s) BY <1>1
    <2>2. k + 1 = Lag + 2 BY <1>1
    <2> HIDE DEF k
    <2>3. SubSeq(s, 2, k) \o SubSeq(s, k + 1, Len(s)) = SubSeq(s, 2, Len(s))
      BY <2>1, ConcatAdjacentSubSeq
    <2> QED BY <2>2, <2>3 DEF k
  <1>6. << s[1] >> \o SubSeq(s, 2, Len(s)) = s
    <2>1. 1 \in 1 .. Len(s) /\ Len(s) \in 1 .. Len(s) /\ 1 + 1 = 2 BY <1>1
    <2>2. SubSeq(s, 1, Len(s)) = << s[1] >> \o SubSeq(s, 1 + 1, Len(s))
      BY <2>1, SubSeqRecursiveFirst
    <2>3. SubSeq(s, 1, Len(s)) = s BY SubSeqFull
    <2> QED BY <2>1, <2>2, <2>3
  <1> DEFINE h == SubSeq(s, 2, Lag + 1)
             w == SubSeq(s, Lag + 2, Len(s))
  <1>7. << s[1] >> \in Seq(Frame) /\ h \in Seq(Frame) /\ w \in Seq(Frame) BY <1>2, <1>3, <1>4
  <1>8. << s[1] >> \o (h \o w) = s BY <1>5, <1>6
  <1> HIDE DEF h, w
  <1> QED BY <1>7, <1>8 DEF h, w

(* decode_receive_frame_internal drops no frame and changes no order. *)
LEMMA PullKeeps ==
  ASSUME NEW c, CodecOK(c)
  PROVE  Pull(c).frames \o Behind(Pull(c).codec) = Behind(c)
  <1> DEFINE line    == c.held \o c.work
             waiting == c.bsf # << >>
             f       == Filtered(c)
             all     == IF waiting THEN line \o FramesOf(c.bsf[1]) ELSE line
             Left(s) == [c EXCEPT !.held = SubSeq(s, 2, Lag + 1),
                                  !.work = SubSeq(s, Lag + 2, Len(s))]
             none    == << >>
  <1>1. /\ c \in Codec /\ c.held \in Seq(Frame) /\ c.work \in Seq(Frame)
        /\ f \in Seq(Frame) /\ Lag \in Nat /\ none \in Seq(Frame)
    BY CodecFrames, CodecAssumption, EmptySeq DEF CodecOK
  <1>2. line \in Seq(Frame) BY <1>1, ConcatProperties
  <1>3. waiting /\ c.bsf[1].bad => f = none BY DEF Filtered, FramesOf
  <1>4. all \in Seq(Frame) /\ all = line \o f
    <2>1. waiting => all = line \o f BY DEF Filtered
    <2>2. ~waiting => f = none /\ all = line BY DEF Filtered
    <2>3. line \o none = line BY <1>2, ConcatEmptySeq
    <2> HIDE DEF line, f, all, none, waiting
    <2> QED BY <1>1, <1>2, <2>1, <2>2, <2>3, ConcatProperties
  <1>5. Behind(c) = all BY <1>4 DEF Behind
  <1>6. ASSUME NEW d, NEW h \in Seq(Frame), d.held = h, d.work = none, d.bsf = none
        PROVE  none \o Behind(d) = h
    <2>1. Behind(d) = (h \o none) \o none BY <1>6 DEF Behind, Filtered
    <2> HIDE DEF none
    <2>2. h \o none = h BY ConcatEmptySeq DEF none
    <2>3. none \o h = h BY ConcatEmptySeq DEF none
    <2> QED BY <2>1, <2>2, <2>3
  <1> HIDE DEF line, all
  <1>7. ASSUME NEW s \in Seq(Frame), Len(s) > Lag
        PROVE  /\ Left(s).held = SubSeq(s, 2, Lag + 1) /\ Left(s).work = SubSeq(s, Lag + 2, Len(s))
               /\ Left(s).bsf = c.bsf /\ Left(s) \in Codec
    <2> DEFINE h == SubSeq(s, 2, Lag + 1)
               w == SubSeq(s, Lag + 2, Len(s))
    <2>1. h \in Seq(Frame) /\ w \in Seq(Frame) BY <1>7, Split
    <2> HIDE DEF h, w
    <2>2. LET d == [c EXCEPT !.held = h, !.work = w]
          IN d.held = h /\ d.work = w /\ d.bsf = c.bsf /\ d \in Codec
      BY <1>1, <2>1 DEF Codec
    <2> QED BY <2>2 DEF h, w
  <1>8. ASSUME NEW s \in Seq(Frame), Len(s) > Lag, NEW d,
               d.held = Left(s).held, d.work = Left(s).work
        PROVE  << s[1] >> \o Behind(d) = s \o Filtered(d) \/ Filtered(d) \notin Seq(Frame)
    <2> DEFINE h == SubSeq(s, 2, Lag + 1)
               w == SubSeq(s, Lag + 2, Len(s))
               one == << s[1] >>
               g == Filtered(d)
    <2>1. one \in Seq(Frame) /\ h \in Seq(Frame) /\ w \in Seq(Frame) /\ one \o (h \o w) = s
      BY <1>8, Split
    <2>2. Behind(d) = (h \o w) \o g BY <1>7, <1>8 DEF Behind
    <2> HIDE DEF h, w, one, g
    <2> SUFFICES ASSUME g \in Seq(Frame) PROVE one \o Behind(d) = s \o g BY DEF one, g
    <2>3. h \o w \in Seq(Frame) BY <2>1, ConcatProperties
    <2> DEFINE hw == h \o w
    <2>4. hw \in Seq(Frame) /\ one \o hw = s /\ Behind(d) = hw \o g BY <2>1, <2>2, <2>3
    <2> HIDE DEF hw
    <2>5. (one \o hw) \o g = one \o (hw \o g) BY <2>1, <2>4, Associative
    <2> QED BY <2>4, <2>5
  <1>9. CASE Len(line) > Lag
    <2>1. Pull(c) = Returned("ok", << line[1] >>, Left(line)) BY <1>9 DEF Pull, line
    <2>2. Left(line).bsf = c.bsf BY <1>2, <1>7, <1>9
    <2> DEFINE d == Left(line)
    <2>3. d.held = Left(line).held /\ d.work = Left(line).work /\ d.bsf = c.bsf BY <2>2
    <2> HIDE DEF d
    <2>4. Filtered(d) = f BY <2>3 DEF Filtered
    <2>5. << line[1] >> \o Behind(d) = line \o f
      <3> HIDE DEF Left, f
      <3> QED BY <1>1, <1>2, <1>8, <1>9, <2>3, <2>4
    <2> QED BY <1>4, <1>5, <2>1, <2>5 DEF Returned, d
  <1>10. CASE ~(Len(line) > Lag) /\ waiting /\ c.bsf[1].bad
    <2> DEFINE after == [c EXCEPT !.bsf = << >>, !.held = line, !.work = << >>]
    <2>1. Pull(c) = Returned("error", none, after) BY <1>10 DEF Pull, line
    <2>2. after.bsf = none /\ after.held = line /\ after.work = none BY <1>1, <1>2, UsedUpType
    <2> HIDE DEF after
    <2>3. none \o Behind(after) = line
      <3> HIDE DEF none
      <3> QED BY <1>2, <1>6, <2>2
    <2>4. all = line BY <1>2, <1>3, <1>4, <1>10, ConcatEmptySeq
    <2> QED BY <1>5, <2>1, <2>3, <2>4 DEF Returned
  <1>11. CASE ~(Len(line) > Lag) /\ ~(waiting /\ c.bsf[1].bad) /\ Len(all) > Lag
    <2> DEFINE after == [Left(all) EXCEPT !.bsf = << >>]
    <2>1. Pull(c) = Returned("ok", << all[1] >>, after) BY <1>11 DEF Pull, line, all
    <2>2. Left(all) \in Codec BY <1>4, <1>7, <1>11
    <2>3. after.bsf = none /\ after.held = Left(all).held /\ after.work = Left(all).work
      <3> HIDE DEF Left
      <3> QED BY <2>2, EmptiedFilterType
    <2> HIDE DEF after
    <2>4. Filtered(after) = none BY <2>3 DEF Filtered
    <2>5. << all[1] >> \o Behind(after) = all \o none
      <3> HIDE DEF Left, none
      <3> QED BY <1>1, <1>4, <1>8, <1>11, <2>3, <2>4
    <2>6. all \o none = all BY <1>4, ConcatEmptySeq
    <2> QED BY <1>5, <2>1, <2>5, <2>6 DEF Returned
  <1>12. CASE ~(Len(line) > Lag) /\ ~(waiting /\ c.bsf[1].bad) /\ ~(Len(all) > Lag)
    <2> DEFINE after == [c EXCEPT !.bsf = << >>, !.held = all, !.work = << >>]
    <2>1. Pull(c) = Returned("EAGAIN", none, after) BY <1>12 DEF Pull, line, all
    <2>2. after.bsf = none /\ after.held = all /\ after.work = none BY <1>1, <1>4, UsedUpType
    <2> HIDE DEF after
    <2>3. none \o Behind(after) = all
      <3> HIDE DEF none
      <3> QED BY <1>4, <1>6, <2>2
    <2> QED BY <1>5, <2>1, <2>3 DEF Returned
  <1> QED BY <1>9, <1>10, <1>11, <1>12

(* avcodec_send_packet puts the packet's frames at the end, unless it refuses the packet. *)
LEMMA SendKeeps ==
  ASSUME NEW c, CodecOK(c), NEW p \in Packet
  PROVE  InCodec(Send(c, p).codec) =
           IF Send(c, p).rv = "EAGAIN" THEN InCodec(c) ELSE InCodec(c) \o FramesOf(p)
  <1> DEFINE given == [c EXCEPT !.bsf = << p >>]
             r     == Pull(given)
             after == [r.codec EXCEPT !.buf = r.frames]
             f     == FramesOf(p)
             b     == Behind(c)
             none  == << >>
  <1>1. CASE c.bsf # << >>
    <2>1. Send(c, p) = Returned("EAGAIN", << >>, c) BY <1>1 DEF Send
    <2> QED BY <2>1 DEF Returned
  <1>2. CASE c.bsf = << >>
    <2>1. /\ c \in Codec /\ c.held \o c.work \in Seq(Frame) /\ c.buf \in Seq(Frame)
          /\ b \in Seq(Frame) /\ InCodec(c) = c.buf \o b /\ f \in Seq(Frame)
      BY CodecFrames, FramesOfType, ConcatProperties DEF CodecOK
    <2>2. b = c.held \o c.work
      <3>1. b = (c.held \o c.work) \o none BY <1>2 DEF Behind, Filtered
      <3> QED BY <2>1, <3>1, ConcatEmptySeq
    <2>3. /\ CodecOK(given) /\ given.buf = c.buf /\ given.held = c.held
          /\ given.work = c.work /\ given.bsf = << p >>
      <3> DEFINE one == << p >>
      <3>1. one \in Seq(Packet) /\ Len(one) <= 1 OBVIOUS
      <3> HIDE DEF one
      <3> DEFINE d == [c EXCEPT !.bsf = one]
      <3>2. /\ d \in Codec /\ d.bsf = one /\ d.held = c.held /\ d.buf = c.buf /\ d.work = c.work
        BY <2>1, <3>1 DEF Codec
      <3> HIDE DEF d
      <3>3. CodecOK(d) BY <3>1, <3>2 DEF CodecOK
      <3> QED BY <3>2, <3>3 DEF d, one
    <2> HIDE DEF given
    <2>4. Behind(given) = b \o f
      <3>1. Filtered(given) = f BY <2>3 DEF Filtered
      <3> QED BY <2>2, <2>3, <3>1 DEF Behind
    <2> HIDE DEF f, b
    <2>5. b \o f \in Seq(Frame) /\ InCodec(c) \o f = c.buf \o (b \o f)
      <3>1. (c.buf \o b) \o f = c.buf \o (b \o f) BY <2>1, Associative, Zenon
      <3> QED BY <2>1, <3>1, ConcatProperties
    <2>6. CASE c.buf # << >>
      <3>1. Send(c, p) = Returned("ok", << >>, given) BY <1>2, <2>6 DEF Send, given
      <3>2. InCodec(given) = c.buf \o (b \o f) BY <2>3, <2>4, CodecFrames
      <3>3. Send(c, p).rv = "ok" /\ Send(c, p).codec = given BY <3>1 DEF Returned
      <3> QED BY <2>5, <3>2, <3>3 DEF f
    <2>7. CASE c.buf = << >>
      <3>1. none \o (b \o f) = b \o f BY <2>5, ConcatEmptySeq
      <3>2. InCodec(c) \o f = b \o f BY <2>5, <2>7, <3>1
      <3>3. ReturnOK(r) /\ r.codec.buf = << >> /\ r.frames \o Behind(r.codec) = b \o f
        BY <2>3, <2>4, <2>7, PullType, PullKeeps
      <3> HIDE DEF r
      <3>4. r.codec \in Codec /\ r.frames \in Seq(Frame) BY <3>3 DEF ReturnOK, CodecOK
      <3>5. CASE r.rv = "error"
        <4>1. Send(c, p) = Returned("error", << >>, r.codec)
          BY <1>2, <2>7, <3>5 DEF Send, r, given
        <4>2. r.frames = << >> BY <3>3, <3>5 DEF ReturnOK
        <4>3. InCodec(r.codec) = none \o Behind(r.codec) BY <3>3, CodecFrames DEF ReturnOK
        <4> QED BY <3>2, <3>3, <4>1, <4>2, <4>3 DEF Returned, f
      <3>6. CASE r.rv # "error"
        <4>1. Send(c, p) = Returned("ok", << >>, after)
          BY <1>2, <2>7, <3>6 DEF Send, r, given
        <4>2. /\ after.buf = r.frames /\ after.bsf = r.codec.bsf
              /\ after.held = r.codec.held /\ after.work = r.codec.work
          BY <3>4 DEF Codec
        <4> HIDE DEF after
        <4>3. Behind(after) = Behind(r.codec) BY <4>2 DEF Behind, Filtered
        <4>4. CodecOK(after)
          <5>1. Send(c, p).codec = after BY <4>1 DEF Returned
          <5> QED BY <5>1, SendType
        <4>5. InCodec(after) = r.frames \o Behind(r.codec) BY <4>2, <4>3, <4>4, CodecFrames
        <4> QED BY <3>2, <3>3, <4>1, <4>5 DEF Returned, f
      <3> QED BY <3>5, <3>6
    <2> QED BY <2>6, <2>7
  <1> QED BY <1>1, <1>2

(* avcodec_receive_frame gives out the oldest frame, or drops none. *)
LEMMA ReceiveKeeps ==
  ASSUME NEW c, CodecOK(c)
  PROVE  Receive(c).frames \o InCodec(Receive(c).codec) = InCodec(c)
  <1> DEFINE none == << >>
  <1>0. c \in Codec /\ none \in Seq(Frame) BY EmptySeq DEF CodecOK
  <1>1. CASE c.buf # << >>
    <2> HIDE DEF none
    <2> DEFINE d == [c EXCEPT !.buf = none]
    <2>1. d.buf = none /\ d.held = c.held /\ d.work = c.work /\ d.bsf = c.bsf
      BY <1>0 DEF Codec
    <2> HIDE DEF d
    <2>2. Receive(c) = Returned("ok", c.buf, d) BY <1>1 DEF Receive, d, none
    <2>3. CodecOK(d) BY <2>2, ReceiveType DEF Returned, ReturnOK
    <2>4. Behind(d) = Behind(c) BY <2>1 DEF Behind, Filtered
    <2>5. InCodec(d) = none \o Behind(c) /\ Behind(c) \in Seq(Frame)
      BY <2>1, <2>3, <2>4, CodecFrames
    <2>6. InCodec(d) = Behind(c) BY <2>5, ConcatEmptySeq DEF none
    <2> QED BY <2>2, <2>6, CodecFrames DEF Returned
  <1>2. CASE c.buf = << >>
    <2> DEFINE r == Pull(c)
    <2>1. Receive(c) = r BY <1>2 DEF Receive
    <2>2. ReturnOK(r) /\ r.codec.buf = none /\ r.frames \o Behind(r.codec) = Behind(c)
      BY <1>2, PullType, PullKeeps
    <2> HIDE DEF r
    <2>3. /\ InCodec(r.codec) = none \o Behind(r.codec) /\ Behind(r.codec) \in Seq(Frame)
          /\ InCodec(c) = none \o Behind(c) /\ Behind(c) \in Seq(Frame)
      BY <1>2, <2>2, CodecFrames DEF ReturnOK
    <2>4. InCodec(r.codec) = Behind(r.codec) /\ InCodec(c) = Behind(c) BY <2>3, ConcatEmptySeq
    <2> QED BY <2>1, <2>2, <2>4
  <1> QED BY <1>1, <1>2

-----------------------------------------------------------------------------
(***************************************************************************)
(* The context.                                                            *)
(***************************************************************************)

(* The frames of a queue of samples. *)
FramesIn(q) == [i \in 1 .. Len(q) |-> q[i].frame]

LEMMA FramesInType ==
  ASSUME NEW q \in Seq(Sample)
  PROVE  /\ FramesIn(q) \in Seq(Frame) /\ Len(FramesIn(q)) = Len(q)
         /\ \A i \in 1 .. Len(q) : FramesIn(q)[i] = q[i].frame
  <1>1. Len(q) \in Nat /\ \A i \in 1 .. Len(q) : q[i] \in Sample BY LenProperties
  <1>2. [i \in 1 .. Len(q) |-> q[i].frame] \in [1 .. Len(q) -> Frame] BY <1>1 DEF Sample
  <1>3. [i \in 1 .. Len(q) |-> q[i].frame] \in Seq(Frame) BY <1>1, <1>2, SeqDef
  <1> QED BY <1>1, <1>2, <1>3 DEF FramesIn

LEMMA FramesAppended ==
  ASSUME NEW q \in Seq(Sample), NEW s \in Sample
  PROVE  FramesIn(Append(q, s)) = FramesIn(q) \o << s.frame >>
  <1> DEFINE r == Append(q, s)
             one == << s.frame >>
  <1>1. /\ r \in Seq(Sample) /\ Len(r) = Len(q) + 1 /\ Len(q) \in Nat
        /\ \A i \in 1 .. Len(q) : r[i] = q[i]
        /\ r[Len(q) + 1] = s
    BY AppendProperties, LenProperties
  <1>2. one \in Seq(Frame) /\ Len(one) <= 1 /\ Len(one) >= 1 /\ one[1] = s.frame BY DEF Sample
  <1> HIDE DEF r, one
  <1>3. FramesIn(q) \in Seq(Frame) /\ Len(FramesIn(q)) = Len(q) BY FramesInType
  <1>4. FramesIn(r) \in Seq(Frame) /\ Len(FramesIn(r)) = Len(q) + 1 BY <1>1, FramesInType
  <1> DEFINE t == FramesIn(q) \o one
  <1>5. /\ t \in Seq(Frame) /\ Len(t) = Len(q) + 1
        /\ \A i \in 1 .. Len(q) + 1 : t[i] = IF i <= Len(q) THEN FramesIn(q)[i] ELSE one[i - Len(q)]
    <2> DEFINE f == FramesIn(q)
    <2>1. f \in Seq(Frame) /\ Len(f) = Len(q) /\ Len(q) \in Nat BY <1>1, <1>3
    <2> HIDE DEF f
    <2>2. f \o one \in Seq(Frame) /\ Len(f \o one) = Len(q) + 1
      BY <1>2, <2>1, ConcatProperties
    <2>3. \A i \in 1 .. Len(q) + 1 : (f \o one)[i] = IF i <= Len(q) THEN f[i] ELSE one[i - Len(q)]
      BY <1>2, <2>1, ConcatProperties
    <2> QED BY <2>2, <2>3 DEF f
  <1> HIDE DEF t
  <1>6. ASSUME NEW i \in 1 .. Len(q) + 1 PROVE FramesIn(r)[i] = t[i]
    <2>1. FramesIn(r)[i] = r[i].frame BY <1>1, FramesInType
    <2>2. CASE i <= Len(q)
      <3>1. i \in 1 .. Len(q) BY <1>1, <2>2
      <3> QED BY <1>1, <1>5, <2>1, <2>2, <3>1, FramesInType
    <2>3. CASE i = Len(q) + 1
      BY <1>1, <1>2, <1>5, <2>1, <2>3
    <2> QED BY <1>1, <2>2, <2>3
  <1>7. FramesIn(r) = t BY <1>4, <1>5, <1>6, SeqEqual
  <1> QED BY <1>7 DEF r, t, one

LEMMA PipelineParts ==
  ASSUME NEW c, ContextOK(c)
  PROVE  /\ c.queue \in Seq(Sample) /\ FramesIn(c.queue) \in Seq(Frame)
         /\ CodecOK(c.av) /\ InCodec(c.av) \in Seq(Frame)
         /\ Pipeline(c) = FramesIn(c.queue) \o InCodec(c.av) /\ Pipeline(c) \in Seq(Frame)
  <1>1. c.queue \in Seq(Sample) /\ CodecOK(c.av) BY DEF ContextOK, Context
  <1>2. FramesIn(c.queue) \in Seq(Frame) /\ InCodec(c.av) \in Seq(Frame)
    BY <1>1, FramesInType, CodecFrames
  <1>3. Pipeline(c) = FramesIn(c.queue) \o InCodec(c.av) BY DEF Pipeline, FramesIn
  <1> QED BY <1>1, <1>2, <1>3, ConcatProperties

(***************************************************************************)
(* What follows the queue after Decode is what was in the codec before,    *)
(* and the packet's frames if it was taken, without some g at its front.   *)
(***************************************************************************)
KeptBy(d, c, f) ==
  \E g, b \in Seq(Frame) : Pipeline(d) = FramesIn(c.queue) \o b /\ g \o b = f

LEMMA KeptWhole ==
  ASSUME NEW c, ContextOK(c), NEW d, ContextOK(d), d.queue = c.queue
  PROVE  KeptBy(d, c, InCodec(d.av))
  <1> DEFINE none == << >>
             b == InCodec(d.av)
  <1>1. none \in Seq(Frame) /\ b \in Seq(Frame) BY PipelineParts, EmptySeq
  <1>2. Pipeline(d) = FramesIn(c.queue) \o b BY PipelineParts
  <1> HIDE DEF b
  <1>3. none \o b = b BY <1>1, ConcatEmptySeq
  <1> HIDE DEF none
  <1> QED BY <1>1, <1>2, <1>3 DEF KeptBy, b

LEMMA DecodeKeeps ==
  ASSUME NEW c, ContextOK(c), NEW p \in Packet, NEW o \in Decode(c, p)
  PROVE  \/ KeptBy(o.ctx, c, InCodec(c.av))
         \/ o.hr # "MF_E_NOTACCEPTING" /\ KeptBy(o.ctx, c, InCodec(c.av) \o FramesOf(p))
  <1> DEFINE s    == Send(c.av, p)
             sent == [c EXCEPT !.av = s.codec]
             now  == InCodec(c.av) \o FramesOf(p)
  <1>1. /\ s.rv \in Result /\ CodecOK(s.codec)
        /\ InCodec(s.codec) = IF s.rv = "EAGAIN" THEN InCodec(c.av) ELSE now
    BY SendType, SendKeeps DEF ContextOK
  <1> HIDE DEF s, now
  <1>2. ContextOK(sent) /\ sent.av = s.codec /\ sent.queue = c.queue BY <1>1, CodecChanged
  <1> HIDE DEF sent
  <1>3. c.formatChange \in BOOLEAN /\ c.open \in BOOLEAN BY DEF ContextOK, Context
  <1>4. \/ o \in { Outcome("MF_E_NOTACCEPTING", c), Crash(c) }
        \/ s.rv = "EAGAIN" /\ o = Outcome("E_UNEXPECTED", sent)
        \/ s.rv = "error" /\ o = Outcome("E_FAIL", sent)
        \/ s.rv = "ok" /\ o \in ReceiveOne(sent, p)
    BY <1>1, <1>3 DEF Decode, Result, s, sent
  <1>5. CASE o \in { Outcome("MF_E_NOTACCEPTING", c), Crash(c) }
    <2>1. o.ctx = c BY <1>5 DEF Outcome, Crash
    <2> QED BY <2>1, KeptWhole
  <1>6. CASE s.rv = "EAGAIN" /\ o = Outcome("E_UNEXPECTED", sent)
    <2>1. o.ctx = sent BY <1>6 DEF Outcome
    <2> QED BY <2>1, <1>1, <1>2, <1>6, KeptWhole
  <1>7. CASE s.rv = "error" /\ o = Outcome("E_FAIL", sent)
    <2>1. o.ctx = sent /\ o.hr # "MF_E_NOTACCEPTING" BY <1>7 DEF Outcome
    <2> QED BY <2>1, <1>1, <1>2, <1>7, KeptWhole DEF now
  <1>8. CASE s.rv = "ok" /\ o \in ReceiveOne(sent, p)
    <2> DEFINE r == Receive(sent.av)
    <2>1. /\ OutcomeOK(o) /\ o.hr # "MF_E_NOTACCEPTING"
          /\ o.ctx.av = r.codec \/ o.ctx = sent
          /\ \/ o.ctx.queue = sent.queue
             \/ r.rv = "ok" /\ o.ctx.queue = Append(sent.queue, [frame |-> r.frames[1], by |-> p.id])
      BY <1>2, <1>8, ReceiveOneOutcome
    <2>2. ReturnOK(r) /\ r.frames \o InCodec(r.codec) = now
      BY <1>1, <1>2, <1>8, ReceiveType, ReceiveKeeps
    <2> HIDE DEF r
    <2>3. CASE o.ctx = sent
      BY <2>1, <2>3, <1>1, <1>2, <1>8, KeptWhole DEF now
    <2>4. CASE o.ctx.av = r.codec /\ o.ctx.queue = sent.queue
      <3>1. Pipeline(o.ctx) = FramesIn(c.queue) \o InCodec(r.codec) /\ InCodec(r.codec) \in Seq(Frame)
        BY <2>1, <2>4, <1>2, PipelineParts DEF OutcomeOK
      <3>2. r.frames \in Seq(Frame) BY <2>2 DEF ReturnOK
      <3>3. KeptBy(o.ctx, c, now) BY <2>2, <3>1, <3>2 DEF KeptBy
      <3> QED BY <2>1, <3>3 DEF now
    <2>5. CASE /\ r.rv = "ok" /\ o.ctx.av = r.codec
               /\ o.ctx.queue = Append(sent.queue, [frame |-> r.frames[1], by |-> p.id])
      <3> DEFINE x == [frame |-> r.frames[1], by |-> p.id]
                 q == FramesIn(c.queue)
                 b == InCodec(r.codec)
                 none == << >>
      <3>1. r.frames \in Seq(Frame) /\ r.frames # << >> /\ Len(r.frames) <= 1
        BY <2>2, <2>5 DEF ReturnOK
      <3>2. r.frames[1] \in Frame /\ r.frames = << r.frames[1] >> BY <3>1
      <3>3. x \in Sample /\ x.frame = r.frames[1] BY <3>2 DEF Sample, Packet
      <3> HIDE DEF x
      <3>4. c.queue \in Seq(Sample) /\ q \in Seq(Frame) BY PipelineParts
      <3>5. FramesIn(o.ctx.queue) = q \o r.frames
        <4>1. o.ctx.queue = Append(c.queue, x) BY <2>5, <1>2 DEF x
        <4>2. FramesIn(Append(c.queue, x)) = q \o << x.frame >> BY <3>3, <3>4, FramesAppended
        <4> QED BY <3>2, <3>3, <4>1, <4>2
      <3>6. Pipeline(o.ctx) = (q \o r.frames) \o b /\ b \in Seq(Frame)
        BY <2>1, <2>5, <3>5, PipelineParts DEF OutcomeOK
      <3> HIDE DEF q, b
      <3>7. (q \o r.frames) \o b = q \o (r.frames \o b) BY <3>1, <3>4, <3>6, Associative, Zenon
      <3>8. r.frames \o b = now BY <2>2 DEF b
      <3>9. now \in Seq(Frame) BY <3>1, <3>6, <3>8, ConcatProperties
      <3>10. none \in Seq(Frame) /\ none \o now = now BY <3>9, ConcatEmptySeq, EmptySeq
      <3> HIDE DEF none
      <3>11. Pipeline(o.ctx) = q \o now BY <3>6, <3>7, <3>8
      <3>12. KeptBy(o.ctx, c, now) BY <3>9, <3>10, <3>11 DEF KeptBy, q
      <3> QED BY <2>1, <3>12 DEF now
    <2> QED BY <2>1, <2>3, <2>4, <2>5
  <1> QED BY <1>4, <1>5, <1>6, <1>7, <1>8

-----------------------------------------------------------------------------
(***************************************************************************)
(* The decoder.                                                            *)
(***************************************************************************)

(* Taking out the middle leaves the elements and their order. *)
LEMMA ThinnedMiddle ==
  ASSUME NEW a \in Seq(Frame), NEW g \in Seq(Frame), NEW b \in Seq(Frame)
  PROVE  Promise!Thinned(a \o b, a \o (g \o b))
  <1> DEFINE s == a \o b
             t == a \o (g \o b)
             m == Len(a)
             k == Len(g)
             n == Len(b)
             at == [i \in 1 .. Len(s) |-> IF i <= m THEN i ELSE i + k]
  <1>1. m \in Nat /\ k \in Nat /\ n \in Nat BY LenProperties
  <1>2. /\ Len(s) = m + n
        /\ \A i \in 1 .. m + n : s[i] = IF i <= m THEN a[i] ELSE b[i - m]
    BY ConcatProperties
  <1>3. /\ g \o b \in Seq(Frame) /\ Len(g \o b) = k + n
        /\ \A i \in 1 .. k + n : (g \o b)[i] = IF i <= k THEN g[i] ELSE b[i - k]
    BY ConcatProperties
  <1>4. /\ Len(t) = m + (k + n)
        /\ \A i \in 1 .. m + (k + n) : t[i] = IF i <= m THEN a[i] ELSE (g \o b)[i - m]
    BY <1>3, ConcatProperties
  <1> HIDE DEF s, t, m, k, n
  <1>5. at \in [1 .. Len(s) -> 1 .. Len(t)] BY <1>1, <1>2, <1>4
  <1>6. \A i, j \in 1 .. Len(s) : i < j => at[i] < at[j] BY <1>1, <1>2
  <1>7. ASSUME NEW i \in 1 .. Len(s) PROVE s[i] = t[at[i]]
    <2>1. CASE i <= m
      <3>1. at[i] = i /\ i \in 1 .. m + n /\ i \in 1 .. m + (k + n) BY <1>1, <1>2, <2>1
      <3> QED BY <1>2, <1>4, <2>1, <3>1
    <2>2. CASE ~(i <= m)
      <3> DEFINE j == i + k
      <3>1. /\ at[i] = j /\ i \in 1 .. m + n /\ j \in 1 .. m + (k + n) /\ ~(j <= m)
            /\ j - m \in 1 .. k + n /\ ~(j - m <= k) /\ (j - m) - k = i - m
        BY <1>1, <1>2, <2>2
      <3> HIDE DEF j, at
      <3>2. t[j] = (g \o b)[j - m] BY <1>4, <3>1
      <3>3. (g \o b)[j - m] = b[(j - m) - k] BY <1>3, <3>1
      <3>4. s[i] = b[i - m] BY <1>2, <2>2, <3>1
      <3> QED BY <3>1, <3>2, <3>3, <3>4
    <2> QED BY <2>1, <2>2
  <1> HIDE DEF at
  <1>8. Promise!Thinned(s, t) BY <1>5, <1>6, <1>7 DEF Promise!Thinned
  <1> QED BY <1>8 DEF s, t

(* So all of it, the end of it, the beginning of it and nothing of it are left of a line. *)
LEMMA ThinnedOthers ==
  ASSUME NEW a \in Seq(Frame), NEW b \in Seq(Frame)
  PROVE  /\ Promise!Thinned(a, a) /\ Promise!Thinned(<< >>, a)
         /\ Promise!Thinned(b, a \o b) /\ Promise!Thinned(a, a \o b)
  <1> DEFINE none == << >>
  <1>1. none \in Seq(Frame) /\ none \o none = none BY EmptySeq, ConcatEmptySeq
  <1>2. /\ none \o a = a /\ a \o none = a /\ none \o b = b /\ b \o none = b
        /\ a \o b \in Seq(Frame) /\ none \o (a \o b) = a \o b
    BY ConcatEmptySeq, ConcatProperties
  <1>3. /\ Promise!Thinned(none \o a, none \o (none \o a))
        /\ Promise!Thinned(none \o none, none \o (a \o none))
        /\ Promise!Thinned(none \o b, none \o (a \o b))
        /\ Promise!Thinned(a \o none, a \o (b \o none))
    <2> HIDE DEF none
    <2> QED BY <1>1, ThinnedMiddle
  <1> QED BY <1>1, <1>2, <1>3

LEMMA EmptyPipeline ==
  /\ InCodec(Opened) = << >>
  /\ \A c : c.queue = << >> /\ c.av = Opened => Pipeline(c) = << >>
  /\ Pipeline(NewContext) = << >>
  <1> DEFINE none == << >>
  <1>0. none \in Seq(Frame) /\ none \in Seq(Sample) BY EmptySeq
  <1>1. none \o none = none BY <1>0, ConcatEmptySeq
  <1>2. InCodec(Opened) = ((none \o none) \o none) \o none BY DEF InCodec, Opened
  <1>3. InCodec(Opened) = none BY <1>1, <1>2
  <1>4. FramesIn(none) = none
    <2>1. Len(none) = 0 BY <1>0, EmptySeq
    <2>2. FramesIn(none) \in Seq(Frame) /\ Len(FramesIn(none)) = Len(none) BY <1>0, FramesInType
    <2> QED BY <2>1, <2>2, EmptySeq
  <1>5. ASSUME NEW c, c.queue = << >>, c.av = Opened PROVE Pipeline(c) = << >>
    <2>1. Pipeline(c) = FramesIn(c.queue) \o InCodec(c.av) BY DEF Pipeline, FramesIn
    <2> QED BY <1>1, <1>3, <1>4, <1>5, <2>1
  <1>6. NewContext.queue = << >> /\ NewContext.av = Opened BY DEF NewContext
  <1> QED BY <1>3, <1>5, <1>6

(* The pipeline is the frame of the oldest sample and the pipeline without that sample. *)
LEMMA PipelineTaken ==
  ASSUME ContextOK(ctx), HasNextSample(ctx)
  PROVE  LET f == Head(ctx.queue).frame
             t == Pipeline(NextSampleTaken)
         IN /\ f \in Frame /\ t \in Seq(Frame) /\ Pipeline(ctx) = << f >> \o t
            /\ Pipeline(ctx) # << >> /\ Head(Pipeline(ctx)) = f /\ Tail(Pipeline(ctx)) = t
  <1> DEFINE f == Head(ctx.queue).frame
             t == Pipeline(NextSampleTaken)
             one == << f >>
             q == FramesIn(ctx.queue)
             r == FramesIn(Tail(ctx.queue))
             i == InCodec(ctx.av)
  <1>1. /\ ctx.queue \in Seq(Sample) /\ ctx.queue # << >> /\ Head(ctx.queue) \in Sample
        /\ ContextOK(NextSampleTaken) /\ NextSampleTaken.av = ctx.av
        /\ NextSampleTaken.queue = Tail(ctx.queue) /\ Tail(ctx.queue) \in Seq(Sample)
        /\ Len(Tail(ctx.queue)) = Len(ctx.queue) - 1 /\ Len(ctx.queue) \in Nat \ {0}
        /\ \A j \in 1 .. Len(ctx.queue) - 1 : Tail(ctx.queue)[j] = ctx.queue[j + 1]
        /\ Head(ctx.queue) = ctx.queue[1]
    BY SampleTaken, HeadTailProperties, EmptySeq DEF HasNextSample
  <1>2. /\ q \in Seq(Frame) /\ Len(q) = Len(ctx.queue)
        /\ \A j \in 1 .. Len(ctx.queue) : q[j] = ctx.queue[j].frame
    BY <1>1, FramesInType
  <1>3. /\ r \in Seq(Frame) /\ Len(r) = Len(Tail(ctx.queue))
        /\ \A j \in 1 .. Len(Tail(ctx.queue)) : r[j] = Tail(ctx.queue)[j].frame
    BY <1>1, FramesInType
  <1>4. f \in Frame /\ one \in Seq(Frame) /\ Len(one) <= 1 /\ Len(one) >= 1 /\ one[1] = f
    BY <1>1 DEF Sample
  <1>5. /\ t = r \o i /\ i \in Seq(Frame) /\ t \in Seq(Frame) /\ Pipeline(ctx) = q \o i
    BY <1>1, PipelineParts
  <1> HIDE DEF one, f, q, r, t, i
  <1>6. q = one \o r
    <2>1. /\ one \o r \in Seq(Frame) /\ Len(one \o r) = 1 + Len(r)
          /\ \A j \in 1 .. 1 + Len(r) : (one \o r)[j] = IF j <= 1 THEN one[j] ELSE r[j - 1]
      BY <1>3, <1>4, ConcatProperties
    <2>2. Len(q) = 1 + Len(r) BY <1>1, <1>2, <1>3
    <2>3. ASSUME NEW j \in 1 .. Len(q) PROVE q[j] = (one \o r)[j]
      <3>1. CASE j = 1 BY <1>1, <1>2, <1>4, <2>1, <2>2, <3>1 DEF f
      <3>2. CASE j # 1
        <4> DEFINE k == j - 1
        <4>1. k \in 1 .. Len(r) /\ k + 1 = j /\ ~(j <= 1) /\ j \in 1 .. 1 + Len(r)
          BY <1>1, <1>2, <1>3, <2>2, <3>2
        <4>2. q[j] = ctx.queue[j].frame BY <1>2
        <4>3. (one \o r)[j] = r[k] BY <2>1, <4>1
        <4>4. r[k] = Tail(ctx.queue)[k].frame BY <1>3, <4>1
        <4>5. k \in 1 .. Len(ctx.queue) - 1 BY <1>1, <1>3, <4>1
        <4> HIDE DEF k
        <4>6. Tail(ctx.queue)[k] = ctx.queue[k + 1] BY <1>1, <4>5
        <4> QED BY <4>1, <4>2, <4>3, <4>4, <4>6
      <3> QED BY <3>1, <3>2
    <2> QED BY <1>2, <2>1, <2>2, <2>3, SeqEqual
  <1>7. Pipeline(ctx) = one \o t
    <2>1. (one \o r) \o i = one \o (r \o i) BY <1>3, <1>4, <1>5, Associative, Zenon
    <2> QED BY <1>5, <1>6, <2>1
  <1>8. LET s == one \o t
        IN s # << >> /\ Head(s) = f /\ Tail(s) = t
    <2> DEFINE s == one \o t
    <2>1. /\ s \in Seq(Frame) /\ Len(s) = 1 + Len(t)
          /\ \A j \in 1 .. 1 + Len(t) : s[j] = IF j <= 1 THEN one[j] ELSE t[j - 1]
      BY <1>4, <1>5, ConcatProperties
    <2>2. Len(t) \in Nat BY <1>5, LenProperties
    <2> HIDE DEF s
    <2>3. s # << >> BY <2>1, <2>2, EmptySeq
    <2>4. Head(s) = f
      <3>1. s[1] = one[1] BY <2>1, <2>2
      <3> QED BY <1>4, <2>1, <2>3, <3>1
    <2>5. /\ Tail(s) \in Seq(Frame) /\ Len(Tail(s)) = Len(t)
          /\ \A j \in 1 .. Len(Tail(s)) : Tail(s)[j] = s[j + 1]
      BY <2>1, <2>2, <2>3, HeadTailProperties
    <2>6. \A j \in 1 .. Len(t) : Tail(s)[j] = t[j]
      <3> SUFFICES ASSUME NEW j \in 1 .. Len(t) PROVE Tail(s)[j] = t[j] OBVIOUS
      <3> DEFINE k == j + 1
      <3>1. k \in 1 .. 1 + Len(t) /\ ~(k <= 1) /\ k - 1 = j BY <2>2
      <3>2. Tail(s)[j] = s[k] BY <2>5
      <3> HIDE DEF k
      <3> QED BY <2>1, <3>1, <3>2
    <2>7. Tail(s) = t BY <1>5, <2>5, <2>6, SeqEqual
    <2> QED BY <2>3, <2>4, <2>7 DEF s
  <1> QED BY <1>4, <1>5, <1>7, <1>8 DEF f, t, one

(* Nothing is delivered, taken in or flushed, and at most some frames are lost. *)
Losing == UNCHANGED << last, taken, floor >> /\ Promise!Thinned(Pipeline(ctx'), Pipeline(ctx))

LEMMA LosingRefines == Losing => [Promise!PromiseNext]_(Promise!promiseVars)
  BY DEF Losing, Promise!PromiseNext, Promise!Lose, Promise!promiseVars

LEMMA SamePipeline ==
  ASSUME TypeOK, UNCHANGED << last, taken, floor >>, ctx'.queue = ctx.queue, ctx'.av = ctx.av
  PROVE  Losing
  <1>1. Pipeline(ctx') = Pipeline(ctx) BY DEF Pipeline
  <1>2. Pipeline(ctx) \in Seq(Frame) BY TypeOKContext, PipelineParts
  <1>3. Promise!Thinned(Pipeline(ctx), Pipeline(ctx)) BY <1>2, ThinnedOthers
  <1> QED BY <1>1, <1>3 DEF Losing

LEMMA CodecRenewed ==
  ASSUME TypeOK, UNCHANGED << last, taken, floor >>, ctx'.queue = ctx.queue, ctx'.av = Opened
  PROVE  Losing
  <1> DEFINE q == FramesIn(ctx.queue)
             none == << >>
  <1>1. q \in Seq(Frame) /\ InCodec(ctx.av) \in Seq(Frame) /\ Pipeline(ctx) = q \o InCodec(ctx.av)
    BY TypeOKContext, PipelineParts
  <1>2. Pipeline(ctx') = q \o none
    <2>1. Pipeline(ctx') = FramesIn(ctx'.queue) \o InCodec(ctx'.av) BY DEF Pipeline, FramesIn
    <2> QED BY <2>1, EmptyPipeline
  <1>3. q \o none = q BY <1>1, ConcatEmptySeq
  <1> HIDE DEF q
  <1>4. Promise!Thinned(q, q \o InCodec(ctx.av)) BY <1>1, ThinnedOthers
  <1> QED BY <1>1, <1>2, <1>3, <1>4 DEF Losing

LEMMA AllLost ==
  ASSUME TypeOK, UNCHANGED << last, taken, floor >>, ctx' = NewContext
  PROVE  Losing
  <1>1. Pipeline(ctx) \in Seq(Frame) BY TypeOKContext, PipelineParts
  <1>2. Promise!Thinned(<< >>, Pipeline(ctx)) BY <1>1, ThinnedOthers
  <1> QED BY <1>2, EmptyPipeline DEF Losing

LEMMA InitializedQueue ==
  ASSUME TypeOK, NEW i \in Initialized
  PROVE  ContextOK(i.ctx) /\ i.ctx.queue = ctx.queue
  <1>1. ContextOK(ctx) /\ inType \in Types /\ outType \in Types BY TypeOKContext
  <1>2. CASE HasInitialized(ctx) BY <1>1, <1>2 DEF Initialized, Ready
  <1>3. CASE ~HasInitialized(ctx)
    <2>1. i \in Initialize(ctx, inType, outType) BY <1>3 DEF Initialized
    <2>2. InitializeLeaves(i, ctx, inType, outType) BY <1>1, <2>1, InitializeOutcome
    <2> QED BY <2>2 DEF InitializeLeaves, OutcomeOK
  <1> QED BY <1>2, <1>3

(* The frames of a packet are the new frames of the promise. *)
LEMMA FramesAreNew ==
  ASSUME NEW p \in Packet
  PROVE  \E k \in 0 .. MaxFrames : FramesOf(p) = Promise!NewFrames(p.id, k)
  <1>1. p.frames \in 0 .. MaxFrames /\ 0 \in 0 .. MaxFrames BY CodecAssumption DEF Packet
  <1>2. CASE ~p.bad BY <1>1, <1>2 DEF FramesOf, Promise!NewFrames
  <1>3. CASE p.bad
    <2>1. Promise!NewFrames(p.id, 0) = << >>
      <3>1. Promise!NewFrames(p.id, 0) = [i \in 1 .. 0 |-> [pkt |-> p.id, ix |-> i]]
        BY DEF Promise!NewFrames
      <3> QED BY <3>1
    <2> QED BY <1>1, <1>3, <2>1 DEF FramesOf
  <1> QED BY <1>2, <1>3

LEMMA NoNewFrames == \A n : Promise!NewFrames(n, 0) = << >>
  BY DEF Promise!NewFrames

(* ProcessInput with a packet: taken in, with some of the frames lost, or not taken. *)
LEMMA InputRefines ==
  ASSUME TypeOK, NEW p \in OfferedPackets, DecodeInput(p)
  PROVE  [Promise!PromiseNext]_(Promise!promiseVars)
  <1>1. PICK i \in Initialized : \E d \in Decode(i.ctx, p) :
          /\ Applies(d) /\ UNCHANGED << floor, last >>
          /\ taken' = IF d.hr = "MF_E_NOTACCEPTING" THEN taken ELSE p.id
    BY DEF DecodeInput
  <1>2. PICK d \in Decode(i.ctx, p) :
          /\ Applies(d) /\ UNCHANGED << floor, last >>
          /\ taken' = IF d.hr = "MF_E_NOTACCEPTING" THEN taken ELSE p.id
    BY <1>1
  <1>3. p.id = taken + 1 /\ p \in Packet BY DEF DecodeInput, OfferedPackets
  <1>4. ContextOK(i.ctx) /\ i.ctx.queue = ctx.queue /\ i.ctx.av \in { ctx.av, Opened }
    BY InitializedQueue, InitializedCodec
  <1> DEFINE q  == FramesIn(ctx.queue)
             i0 == InCodec(ctx.av)
             i1 == InCodec(i.ctx.av)
             f  == FramesOf(p)
             none == << >>
  <1>5. /\ q \in Seq(Frame) /\ i0 \in Seq(Frame) /\ Pipeline(ctx) = q \o i0
        /\ Pipeline(ctx) \in Seq(Frame) /\ f \in Seq(Frame) /\ none \in Seq(Frame)
    BY TypeOKContext, PipelineParts, <1>3, FramesOfType, EmptySeq
  <1>6. i1 = i0 \/ i1 = none BY <1>4, EmptyPipeline
  <1>7. \/ KeptBy(ctx', i.ctx, i1)
        \/ d.hr # "MF_E_NOTACCEPTING" /\ KeptBy(ctx', i.ctx, i1 \o f)
    BY <1>2, <1>3, <1>4, DecodeKeeps DEF Applies
  <1>same. \A x \in Seq(Frame) : (q \o i0) \o x = q \o (i0 \o x)
    <2>1. q \in Seq(Frame) /\ i0 \in Seq(Frame) BY <1>5
    <2> HIDE DEF q, i0
    <2> QED BY <2>1, Associative, Zenon
  <1>8. ASSUME NEW x \in Seq(Frame), KeptBy(ctx', i.ctx, i1 \o x)
        PROVE  Promise!Thinned(Pipeline(ctx'), Pipeline(ctx) \o x)
    <2>1. PICK g \in Seq(Frame), b \in Seq(Frame) : Pipeline(ctx') = q \o b /\ g \o b = i1 \o x
      BY <1>4, <1>8 DEF KeptBy
    <2>2. PICK h \in Seq(Frame) : h \o b = i0 \o x
      <3>1. CASE i1 = i0 BY <2>1, <3>1
      <3>2. CASE i1 = none
        <4>1. none \o x = x BY ConcatEmptySeq
        <4>2. i0 \o g \in Seq(Frame) BY <1>5, ConcatProperties
        <4>5. i0 \in Seq(Frame) BY <1>5
        <4> HIDE DEF i0, i1, none
        <4>3. (i0 \o g) \o b = i0 \o (g \o b) BY <4>5, Associative, Zenon
        <4>4. (i0 \o g) \o b = i0 \o x BY <2>1, <3>2, <4>1, <4>3
        <4> QED BY <4>2, <4>4
      <3> QED BY <1>6, <3>1, <3>2
    <2> HIDE DEF q, i0
    <2>3. (q \o i0) \o x = q \o (i0 \o x) BY <1>same
    <2>4. Promise!Thinned(q \o b, q \o (h \o b)) BY <1>5, ThinnedMiddle
    <2> QED BY <1>5, <2>1, <2>2, <2>3, <2>4
  <1>9. CASE KeptBy(ctx', i.ctx, i1)
    <2>1. i1 \o none = i1 /\ Pipeline(ctx) \o none = Pipeline(ctx)
      BY <1>5, <1>6, ConcatEmptySeq
    <2>2. Promise!Thinned(Pipeline(ctx'), Pipeline(ctx) \o none)
      <3> HIDE DEF i1, none
      <3> QED BY <1>5, <1>8, <1>9, <2>1
    <2>3. CASE taken' = taken
      BY <1>2, <2>1, <2>2, <2>3, LosingRefines DEF Losing
    <2>4. CASE taken' = p.id
      <3>1. Promise!NewFrames(taken + 1, 0) = none BY NoNewFrames
      <3>2. 0 \in 0 .. MaxFrames BY CodecAssumption
      <3>3. Promise!Accept(0)
        BY <1>2, <1>3, <2>2, <2>4, <3>1 DEF Promise!Accept
      <3> QED BY <3>2, <3>3 DEF Promise!PromiseNext
    <2> QED BY <1>2, <2>3, <2>4
  <1>10. CASE d.hr # "MF_E_NOTACCEPTING" /\ KeptBy(ctx', i.ctx, i1 \o f)
    <2>1. Promise!Thinned(Pipeline(ctx'), Pipeline(ctx) \o f) BY <1>5, <1>8, <1>10
    <2>2. PICK k \in 0 .. MaxFrames : f = Promise!NewFrames(p.id, k) BY <1>3, FramesAreNew
    <2>3. Promise!Accept(k) BY <1>2, <1>3, <1>10, <2>1, <2>2 DEF Promise!Accept
    <2> QED BY <2>3 DEF Promise!PromiseNext
  <1> QED BY <1>7, <1>9, <1>10

(* ProcessOutput: the oldest frame goes, and with a rebuild all others are lost. *)
LEMMA OutputThins ==
  ASSUME TypeOK, HasNextSample(ctx), Emptied(NextSampleTaken)
  PROVE  /\ Pipeline(ctx) # << >> /\ Head(Pipeline(ctx)) = Head(ctx.queue).frame
         /\ Promise!Thinned(Pipeline(ctx'), Tail(Pipeline(ctx)))
         /\ Promise!Thinned(Pipeline(ctx'), Pipeline(ctx))
  <1> DEFINE t   == Pipeline(NextSampleTaken)
             one == << Head(ctx.queue).frame >>
             s   == Pipeline(ctx)
  <1>1. ContextOK(ctx) BY TypeOKContext
  <1>2. /\ one \in Seq(Frame) /\ t \in Seq(Frame) /\ s = one \o t
        /\ s # << >> /\ Head(s) = Head(ctx.queue).frame /\ Tail(s) = t
    BY <1>1, PipelineTaken
  <1>3. Pipeline(ctx') = t \/ Pipeline(ctx') = << >> BY EmptyPipeline DEF Emptied
  <1>4. s \in Seq(Frame) BY <1>1, PipelineParts
  <1> HIDE DEF t, one, s
  <1>5. /\ Promise!Thinned(t, t) /\ Promise!Thinned(t, one \o t)
        /\ Promise!Thinned(<< >>, t) /\ Promise!Thinned(<< >>, s)
    BY <1>2, <1>4, ThinnedOthers
  <1>6. Promise!Thinned(Pipeline(ctx'), t) /\ Promise!Thinned(Pipeline(ctx'), s)
    BY <1>2, <1>3, <1>5
  <1> QED BY <1>2, <1>6 DEF s

LEMMA DeliverRefines ==
  ASSUME TypeOK, DeliverSample
  PROVE  Promise!Deliver
  <1>1. /\ HasNextSample(ctx) /\ last' = Head(ctx.queue).frame
        /\ Emptied(NextSampleTaken) /\ UNCHANGED << taken, floor >>
    BY DEF DeliverSample
  <1> QED BY <1>1, OutputThins DEF Promise!Deliver

LEMMA FlushRefines ==
  ASSUME TypeOK, StartOfStream \/ FlushMessage
  PROVE  Promise!FlushAll
  <1>1. PICK o \in Flush(ctx, inType, outType) :
          ctx' = o.ctx /\ floor' = taken /\ UNCHANGED << taken, last >>
    BY DEF StartOfStream, FlushMessage, Applies
  <1>2. o.ctx.av = Opened /\ o.ctx.queue = << >> BY TypeOKContext, FlushOutcome
  <1>3. Pipeline(ctx') = << >> BY <1>1, <1>2, EmptyPipeline
  <1> QED BY <1>1, <1>3 DEF Promise!FlushAll

LEMMA DrainLoses ==
  ASSUME TypeOK, Drain
  PROVE  Losing
  <1>1. PICK o \in FlushInput(ctx, inType, outType) : ctx' = o.ctx /\ UNCHANGED history
    BY DEF Drain, Applies
  <1>2. o.ctx.av = Opened /\ o.ctx.queue = ctx.queue BY TypeOKContext, FlushInputOutcome
  <1> QED BY <1>1, <1>2, CodecRenewed DEF history

LEMMA FailLoses ==
  ASSUME TypeOK, FailInput
  PROVE  Losing
  <1>1. PICK i \in Initialized : ctx' = i.ctx /\ UNCHANGED history BY DEF FailInput
  <1>2. i.ctx.queue = ctx.queue /\ i.ctx.av \in { ctx.av, Opened }
    BY InitializedQueue, InitializedCodec
  <1> QED BY <1>1, <1>2, SamePipeline, CodecRenewed DEF history

LEMMA OutputLoses ==
  ASSUME TypeOK, LoseSample \/ NeedMoreInput
  PROVE  Losing
  <1>1. CASE LoseSample
    BY <1>1, OutputThins DEF LoseSample, history, Losing
  <1>2. CASE NeedMoreInput
    <2>1. ctx' = NewContext \/ ctx' = ctx BY <1>2 DEF NeedMoreInput, Emptied
    <2> QED BY <1>2, <2>1, AllLost, SamePipeline DEF NeedMoreInput, history
  <1> QED BY <1>1, <1>2

(* The calls that leave the queue and the codec alone. *)
LEMMA TypeCallKeeps ==
  ASSUME TypeOK, NEW type \in MediaTypes,
         \/ ClearInputType \/ SetInputType(type)
         \/ ClearOutputType \/ SetOutputType(type) \/ RefuseOutputType(type)
  PROVE  UNCHANGED << last, taken, floor >> /\ ctx'.queue = ctx.queue /\ ctx'.av = ctx.av
  <1>1. DOMAIN ctx = DOMAIN NewContext BY TypeOKContext DEF ContextOK, Context, NewContext
  <1> QED
    BY <1>1 DEF ClearInputType, SetInputType, ClearOutputType, SetOutputType, RefuseOutputType,
                history, NewContext

LEMMA SomeType == \E type : type \in MediaTypes
  <1>1. [major |-> "audio", size |-> 0, listed |-> TRUE] \in MediaTypes BY DEF MediaTypes
  <1> QED BY <1>1

LEMMA QuietCallKeeps ==
  ASSUME TypeOK,
         \/ RefuseInput \/ StreamChange \/ StreamChangeWithoutType \/ StreamChangeFails
         \/ EndOfStream \/ IgnoredMessage \/ UNCHANGED vars
  PROVE  UNCHANGED << last, taken, floor >> /\ ctx'.queue = ctx.queue /\ ctx'.av = ctx.av
  <1>1. DOMAIN ctx = DOMAIN NewContext BY TypeOKContext DEF ContextOK, Context, NewContext
  <1> QED
    BY <1>1 DEF RefuseInput, StreamChange, StreamChangeWithoutType, StreamChangeFails,
                EndOfStream, IgnoredMessage, NoFormatChange, history, vars, NewContext

(* Every call is a step of the promise, or changes nothing the promise speaks of. *)
LEMMA StepRefines == TypeOK /\ [Next]_vars => [Promise!PromiseNext]_(Promise!promiseVars)
  <1> SUFFICES ASSUME TypeOK, [Next]_vars PROVE [Promise!PromiseNext]_(Promise!promiseVars)
    OBVIOUS
  <1>1. ASSUME \/ RefuseInput \/ StreamChange \/ StreamChangeWithoutType \/ StreamChangeFails
               \/ EndOfStream \/ IgnoredMessage \/ UNCHANGED vars
        PROVE  Losing
    BY <1>1, QuietCallKeeps, SamePipeline
  <1>2. ASSUME TypeCall PROVE Losing
    <2>1. PICK type \in MediaTypes :
            \/ ClearInputType \/ SetInputType(type)
            \/ ClearOutputType \/ SetOutputType(type) \/ RefuseOutputType(type)
      BY <1>2, SomeType DEF TypeCall
    <2> QED BY <2>1, TypeCallKeeps, SamePipeline
  <1>3. ASSUME StartOfStream \/ FlushMessage PROVE Promise!PromiseNext
    BY <1>3, FlushRefines DEF Promise!PromiseNext
  <1>4. ASSUME DeliverSample PROVE Promise!PromiseNext
    BY <1>4, DeliverRefines DEF Promise!PromiseNext
  <1>5. \/ TypeCall \/ FailInput \/ Drain \/ LoseSample \/ NeedMoreInput
        \/ StartOfStream \/ FlushMessage \/ DeliverSample
        \/ \E p \in OfferedPackets : DecodeInput(p)
        \/ RefuseInput \/ StreamChange \/ StreamChangeWithoutType \/ StreamChangeFails
        \/ EndOfStream \/ IgnoredMessage \/ UNCHANGED vars
    BY DEF Next, InputCall, OutputCall, MessageCall
  <1> QED
    BY <1>1, <1>2, <1>3, <1>4, <1>5, FailLoses, DrainLoses, OutputLoses, InputRefines,
       LosingRefines

LEMMA InitRefines == Init => Promise!PromiseInit
  BY EmptyPipeline DEF Init, Promise!PromiseInit, NoFrame, Promise!NoFrame

(***************************************************************************)
(* The decoder implements OrderedDecoder, for every codec and whatever     *)
(* fails: frames are delivered in the order of their packets, none twice   *)
(* and none taken in before a flush.                                       *)
(***************************************************************************)
THEOREM DecoderKeepsPromise == Spec => KeepsPromise
  <1>1. Init => Promise!PromiseInit BY InitRefines
  <1>2. TypeOK /\ [Next]_vars => [Promise!PromiseNext]_(Promise!promiseVars) BY StepRefines
  <1> QED BY <1>1, <1>2, TypeCorrect, PTL DEF Spec, KeepsPromise, Promise!PromiseSpec

-----------------------------------------------------------------------------
(***************************************************************************)
(* Order: InOrder follows from the steps of the promise alone.  It is      *)
(* inductive together with LastTaken, which is needed when the pipeline is *)
(* empty and the next packet is taken in.                                  *)
(***************************************************************************)

AnyFrame == [pkt : Nat, ix : Nat]

Sorted(s, l, lo, hi) ==
  /\ \A i, j \in 1 .. Len(s) : i < j => Precedes(s[i], s[j])
  /\ \A i \in 1 .. Len(s) : Precedes(l, s[i]) /\ lo < s[i].pkt /\ s[i].pkt <= hi

LastTaken == last.pkt <= taken

OrderInv == InOrder /\ LastTaken

LEMMA FramesAreAny ==
  /\ Frame \subseteq AnyFrame /\ NoFrame \in AnyFrame
  /\ \A s \in Seq(Frame) : s \in Seq(AnyFrame)
  <1>1. Frame \subseteq AnyFrame /\ NoFrame \in AnyFrame
    BY CodecAssumption DEF Frame, AnyFrame, NoFrame
  <1> QED BY <1>1

LEMMA ThinnedSorted ==
  ASSUME NEW s \in Seq(AnyFrame), NEW t \in Seq(AnyFrame), NEW l, NEW lo, NEW hi,
         Sorted(s, l, lo, hi), Promise!Thinned(t, s)
  PROVE  Sorted(t, l, lo, hi)
  <1>1. PICK at \in [1 .. Len(t) -> 1 .. Len(s)] :
          /\ \A i, j \in 1 .. Len(t) : i < j => at[i] < at[j]
          /\ \A i \in 1 .. Len(t) : t[i] = s[at[i]]
    BY DEF Promise!Thinned
  <1>2. \A i \in 1 .. Len(t) : at[i] \in 1 .. Len(s) BY <1>1
  <1> QED BY <1>1, <1>2 DEF Sorted

LEMMA TailSorted ==
  ASSUME NEW s \in Seq(AnyFrame), s # << >>, NEW l, NEW lo \in Nat, NEW hi \in Nat,
         Sorted(s, l, lo, hi)
  PROVE  Sorted(Tail(s), Head(s), lo, hi) /\ Head(s).pkt <= hi /\ Head(s) \in AnyFrame
  <1>1. /\ Head(s) = s[1] /\ Len(s) \in Nat /\ Len(s) >= 1
        /\ Tail(s) \in Seq(AnyFrame) /\ Len(Tail(s)) = Len(s) - 1
        /\ \A i \in 1 .. Len(Tail(s)) : Tail(s)[i] = s[i + 1]
    BY HeadTailProperties, LenProperties, EmptySeq
  <1> DEFINE t == Tail(s)
  <1>2. \A i \in 1 .. Len(t) : i + 1 \in 1 .. Len(s) /\ 1 < i + 1 BY <1>1
  <1>3. 1 \in 1 .. Len(s) /\ s[1] \in AnyFrame BY <1>1
  <1> HIDE DEF t
  <1>4. Sorted(t, s[1], lo, hi)
    <2>1. ASSUME NEW i \in 1 .. Len(t), NEW j \in 1 .. Len(t), i < j
          PROVE  Precedes(t[i], t[j])
      <3> DEFINE m == i + 1
                 n == j + 1
      <3>1. m \in 1 .. Len(s) /\ n \in 1 .. Len(s) /\ m < n BY <1>1, <1>2, <2>1 DEF t
      <3>2. t[i] = s[m] /\ t[j] = s[n] BY <1>1 DEF t
      <3> HIDE DEF m, n
      <3> QED BY <3>1, <3>2 DEF Sorted
    <2>2. ASSUME NEW i \in 1 .. Len(t)
          PROVE  Precedes(s[1], t[i]) /\ lo < t[i].pkt /\ t[i].pkt <= hi
      <3> DEFINE m == i + 1
      <3>1. m \in 1 .. Len(s) /\ 1 < m BY <1>2
      <3>2. t[i] = s[m] BY <1>1 DEF t
      <3> HIDE DEF m
      <3> QED BY <1>3, <3>1, <3>2 DEF Sorted
    <2> QED BY <2>1, <2>2 DEF Sorted
  <1> QED BY <1>1, <1>3, <1>4 DEF t, Sorted

LEMMA NewSorted ==
  ASSUME NEW s \in Seq(AnyFrame), NEW l \in AnyFrame, NEW lo \in Nat, NEW hi \in Nat,
         Sorted(s, l, lo, hi), l.pkt <= hi, lo <= hi, NEW k \in Nat
  PROVE  /\ s \o Promise!NewFrames(hi + 1, k) \in Seq(AnyFrame)
         /\ Sorted(s \o Promise!NewFrames(hi + 1, k), l, lo, hi + 1)
  <1> DEFINE n == Promise!NewFrames(hi + 1, k)
             c == s \o n
  <1>1. n \in Seq(AnyFrame) /\ Len(n) = k
        /\ \A i \in 1 .. k : n[i].pkt = hi + 1 /\ n[i].ix = i /\ n[i] \in AnyFrame
    BY DEF Promise!NewFrames, AnyFrame
  <1> HIDE DEF n
  <1>2. /\ c \in Seq(AnyFrame) /\ Len(c) = Len(s) + k
        /\ \A i \in 1 .. Len(s) + k : c[i] = IF i <= Len(s) THEN s[i] ELSE n[i - Len(s)]
    BY <1>1, ConcatProperties
  <1>3. Len(s) \in Nat BY LenProperties
  <1>4. \A i \in 1 .. Len(s) : s[i] \in AnyFrame OBVIOUS
  <1> HIDE DEF c
  <1>5. ASSUME NEW i \in 1 .. Len(c)
        PROVE  /\ i <= Len(s) => i \in 1 .. Len(s) /\ c[i] = s[i]
               /\ ~(i <= Len(s)) => /\ c[i] \in AnyFrame /\ c[i].pkt = hi + 1
                                    /\ c[i].ix = i - Len(s)
    <2> DEFINE m == i - Len(s)
    <2>1. i <= Len(s) => i \in 1 .. Len(s) /\ c[i] = s[i] BY <1>2, <1>3
    <2>2. ~(i <= Len(s)) => m \in 1 .. k /\ c[i] = n[m] BY <1>2, <1>3
    <2> HIDE DEF m
    <2>3. ~(i <= Len(s)) => c[i] \in AnyFrame /\ c[i].pkt = hi + 1 /\ c[i].ix = m
      BY <1>1, <2>2
    <2> QED BY <2>1, <2>3 DEF m
  <1>6. ASSUME NEW i \in 1 .. Len(c), NEW j \in 1 .. Len(c), i < j
        PROVE  Precedes(c[i], c[j])
    <2>1. CASE j <= Len(s)
      <3>1. i <= Len(s) BY <1>2, <1>3, <1>6, <2>1
      <3> QED BY <1>5, <1>6, <2>1, <3>1 DEF Sorted
    <2>2. CASE ~(j <= Len(s)) /\ i <= Len(s)
      <3>1. s[i].pkt <= hi /\ s[i].pkt \in Nat BY <1>4, <1>5, <2>2 DEF Sorted, AnyFrame
      <3> QED BY <1>5, <2>2, <3>1 DEF Precedes
    <2>3. CASE ~(i <= Len(s)) /\ ~(j <= Len(s))
      <3>1. i - Len(s) < j - Len(s) BY <1>2, <1>3, <1>6
      <3> QED BY <1>5, <2>3, <3>1 DEF Precedes
    <2> QED BY <1>2, <1>3, <1>6, <2>1, <2>2, <2>3
  <1>7. ASSUME NEW i \in 1 .. Len(c)
        PROVE  Precedes(l, c[i]) /\ lo < c[i].pkt /\ c[i].pkt <= hi + 1
    <2>1. CASE i <= Len(s)
      <3>1. s[i].pkt <= hi /\ s[i].pkt \in Nat /\ Precedes(l, s[i]) /\ lo < s[i].pkt
        BY <1>4, <1>5, <2>1 DEF Sorted, AnyFrame
      <3> QED BY <1>5, <2>1, <3>1
    <2>2. CASE ~(i <= Len(s))
      <3>1. l.pkt \in Nat BY DEF AnyFrame
      <3> QED BY <1>5, <2>2, <3>1 DEF Precedes
    <2> QED BY <2>1, <2>2
  <1> QED BY <1>2, <1>6, <1>7 DEF Sorted, c, n

LEMMA OrderStep == TypeOK /\ OrderInv /\ [Next]_vars => OrderInv'
  <1> SUFFICES ASSUME TypeOK, OrderInv, [Next]_vars PROVE OrderInv' OBVIOUS
  <1> DEFINE s == Pipeline(ctx)
             t == Pipeline(ctx')
  <1>1. /\ s \in Seq(AnyFrame) /\ last \in AnyFrame /\ taken \in Nat /\ floor \in Nat
        /\ floor <= taken
    BY TypeOKContext, PipelineParts, FramesAreAny, CodecAssumption
  <1>2. ContextOK(ctx')
    <2>1. TypeOK' BY NextTypeOK
    <2> QED BY <2>1 DEF TypeOK, ContextOK, CodecOK, Context
  <1>3. t \in Seq(AnyFrame) BY <1>2, PipelineParts, FramesAreAny
  <1>4. Sorted(s, last, floor, taken) /\ last.pkt <= taken
    BY DEF OrderInv, InOrder, LastTaken, Sorted
  <1>5. SUFFICES Sorted(t, last', floor', taken') /\ last'.pkt <= taken'
    BY DEF OrderInv, InOrder, LastTaken, Sorted
  <1>6. [Promise!PromiseNext]_(Promise!promiseVars) BY StepRefines
  <1>7. ASSUME NEW k \in 0 .. MaxFrames, Promise!Accept(k)
        PROVE  Sorted(t, last', floor', taken') /\ last'.pkt <= taken'
    <2>1. /\ taken' = taken + 1 /\ UNCHANGED << last, floor >>
          /\ Promise!Thinned(t, s \o Promise!NewFrames(taken + 1, k))
      BY <1>7 DEF Promise!Accept
    <2>2. k \in Nat BY CodecAssumption
    <2> HIDE DEF s, t
    <2>3. /\ s \o Promise!NewFrames(taken + 1, k) \in Seq(AnyFrame)
          /\ Sorted(s \o Promise!NewFrames(taken + 1, k), last, floor, taken + 1)
      BY <1>1, <1>4, <2>2, NewSorted
    <2>4. Sorted(t, last, floor, taken + 1) BY <1>3, <2>1, <2>3, ThinnedSorted
    <2>5. last.pkt \in Nat BY <1>1 DEF AnyFrame
    <2> QED BY <1>1, <1>4, <2>1, <2>4, <2>5
  <1>8. CASE Promise!Deliver
    <2>1. /\ s # << >> /\ last' = Head(s) /\ UNCHANGED << taken, floor >>
          /\ Promise!Thinned(t, Tail(s))
      BY <1>8 DEF Promise!Deliver
    <2> HIDE DEF s, t
    <2>2. Sorted(Tail(s), Head(s), floor, taken) /\ Head(s).pkt <= taken
      BY <1>1, <1>4, <2>1, TailSorted
    <2>3. Tail(s) \in Seq(AnyFrame) BY <1>1, <2>1, HeadTailProperties
    <2>4. Sorted(t, Head(s), floor, taken) BY <1>3, <2>1, <2>2, <2>3, ThinnedSorted
    <2> QED BY <2>1, <2>2, <2>4
  <1>9. CASE Promise!Lose
    <2>1. UNCHANGED << last, taken, floor >> /\ Promise!Thinned(t, s)
      BY <1>9 DEF Promise!Lose
    <2> HIDE DEF s, t
    <2>2. Sorted(t, last, floor, taken) BY <1>1, <1>3, <1>4, <2>1, ThinnedSorted
    <2> QED BY <1>4, <2>1, <2>2
  <1>10. CASE Promise!FlushAll
    <2>1. t = << >> /\ UNCHANGED << last, taken >> BY <1>10 DEF Promise!FlushAll
    <2> HIDE DEF s, t
    <2> QED BY <1>4, <2>1 DEF Sorted
  <1>11. CASE UNCHANGED Promise!promiseVars
    <2>1. t = s /\ UNCHANGED << last, taken, floor >> BY <1>11 DEF Promise!promiseVars
    <2> HIDE DEF s, t
    <2> QED BY <1>4, <2>1
  <1> HIDE DEF s, t
  <1> QED BY <1>6, <1>7, <1>8, <1>9, <1>10, <1>11 DEF Promise!PromiseNext

LEMMA InitOrder == Init => OrderInv
  <1> SUFFICES ASSUME Init PROVE OrderInv OBVIOUS
  <1>1. Pipeline(ctx) = << >> BY EmptyPipeline DEF Init
  <1> QED BY <1>1 DEF Init, OrderInv, InOrder, LastTaken, NoFrame

(***************************************************************************)
(* The frames between the codec and the client are in the order of their   *)
(* packets, after the last one delivered and after the last flush.         *)
(***************************************************************************)
THEOREM FramesInOrder == Spec => []InOrder
  <1>1. Init => OrderInv BY InitOrder
  <1>2. TypeOK /\ OrderInv /\ [Next]_vars => OrderInv' BY OrderStep
  <1>3. OrderInv => InOrder BY DEF OrderInv
  <1> QED BY <1>1, <1>2, <1>3, TypeCorrect, PTL DEF Spec

-----------------------------------------------------------------------------
(***************************************************************************)
(* The codecs that ship: no lag and at most one frame for a packet.        *)
(* Between calls the codec then holds no frame at all, so a frame that     *)
(* Decode queues is of the packet in hand, and only ProcessOutput, FLUSH   *)
(* and START_OF_STREAM can shorten the pipeline.                           *)
(***************************************************************************)

LEMMA NothingInCodec ==
  ASSUME Lag = 0, NEW c, CodecOK(c), NothingLeft(c)
  PROVE  InCodec(c) = << >>
  <1> DEFINE none == << >>
  <1>1. c.held = << >>
    <2>1. c.held \in Seq(Frame) /\ Len(c.held) <= 0 BY DEF CodecOK, Codec
    <2> QED BY <2>1, LenProperties, EmptySeq
  <1>2. c.buf = << >> /\ c.work = << >> /\ c.bsf = << >> BY DEF NothingLeft
  <1>3. InCodec(c) = ((none \o none) \o none) \o none BY <1>1, <1>2 DEF InCodec
  <1>4. none \o none = none BY EmptySeq, ConcatEmptySeq
  <1> QED BY <1>3, <1>4

LEMMA PipelineLength ==
  ASSUME NEW c, ContextOK(c)
  PROVE  /\ Len(c.queue) \in Nat /\ Len(Pipeline(c)) \in Nat
         /\ Len(Pipeline(c)) >= Len(c.queue)
         /\ InCodec(c.av) = << >> => Len(Pipeline(c)) = Len(c.queue)
  <1> DEFINE q == FramesIn(c.queue)
             i == InCodec(c.av)
  <1>1. /\ q \in Seq(Frame) /\ Len(q) = Len(c.queue) /\ Len(c.queue) \in Nat
        /\ i \in Seq(Frame) /\ Pipeline(c) = q \o i
    BY PipelineParts, FramesInType, LenProperties
  <1> HIDE DEF q
  <1>2. Len(q \o i) = Len(q) + Len(i) /\ Len(i) \in Nat BY <1>1, ConcatProperties, LenProperties
  <1>3. i = << >> => q \o i = q BY <1>1, ConcatEmptySeq
  <1>4. Len(Pipeline(c)) = Len(c.queue) + Len(i) BY <1>1, <1>2
  <1>5. i = << >> => Len(Pipeline(c)) = Len(c.queue) BY <1>1, <1>3
  <1> DEFINE n == Len(Pipeline(c))
  <1>6. Len(c.queue) \in Nat /\ Len(i) \in Nat /\ n = Len(c.queue) + Len(i) BY <1>1, <1>2, <1>4
  <1> HIDE DEF n, i
  <1>7. n \in Nat /\ n >= Len(c.queue) BY <1>6
  <1> QED BY <1>5, <1>6, <1>7 DEF n, i

(* A sample of its own packet is at the end of the queue, or the queue is as it was. *)
Stamped(x) == x.by = x.frame.pkt

Queues(new, old) == new = old \/ \E x \in Sample : Stamped(x) /\ new = Append(old, x)

LEMMA DecodeQueues ==
  ASSUME NEW c, ContextOK(c), InCodec(c.av) = << >>, NEW p \in Packet, NEW o \in Decode(c, p)
  PROVE  OutcomeOK(o) /\ Queues(o.ctx.queue, c.queue)
  <1> DEFINE s    == Send(c.av, p)
             sent == [c EXCEPT !.av = s.codec]
             f    == FramesOf(p)
             none == << >>
  <1>1. /\ s.rv \in Result /\ CodecOK(s.codec)
        /\ s.rv = "ok" => InCodec(s.codec) = none \o f
    BY SendType, SendKeeps DEF ContextOK
  <1>2. f \in Seq(Frame) /\ none \o f = f /\ \A i \in 1 .. Len(f) : f[i].pkt = p.id
    <2>1. f \in Seq(Frame) BY FramesOfType
    <2>2. \A i \in 1 .. Len(f) : f[i].pkt = p.id BY CodecAssumption DEF FramesOf, Packet
    <2> HIDE DEF f
    <2> QED BY <2>1, <2>2, ConcatEmptySeq
  <1> HIDE DEF s, f, none
  <1>3. ContextOK(sent) /\ sent.av = s.codec /\ sent.queue = c.queue BY <1>1, CodecChanged
  <1> HIDE DEF sent
  <1>4. c.formatChange \in BOOLEAN /\ c.open \in BOOLEAN BY DEF ContextOK, Context
  <1>5. \/ o \in { Outcome("MF_E_NOTACCEPTING", c), Crash(c) }
        \/ o \in { Outcome("E_UNEXPECTED", sent), Outcome("E_FAIL", sent) }
        \/ s.rv = "ok" /\ o \in ReceiveOne(sent, p)
    BY <1>1, <1>4 DEF Decode, Result, s, sent
  <1>6. OutcomeOK(o) BY DecodeOutcome
  <1>7. CASE s.rv = "ok" /\ o \in ReceiveOne(sent, p)
    <2> DEFINE r == Receive(sent.av)
    <2>1. \/ o.ctx.queue = sent.queue
          \/ r.rv = "ok" /\ o.ctx.queue = Append(sent.queue, [frame |-> r.frames[1], by |-> p.id])
      BY <1>3, <1>7, ReceiveOneOutcome
    <2>2. ReturnOK(r) /\ r.frames \o InCodec(r.codec) = f
      BY <1>1, <1>2, <1>3, <1>7, ReceiveType, ReceiveKeeps
    <2> HIDE DEF r
    <2>3. CASE r.rv = "ok" /\ o.ctx.queue = Append(sent.queue, [frame |-> r.frames[1], by |-> p.id])
      <3> DEFINE x == [frame |-> r.frames[1], by |-> p.id]
                 b == InCodec(r.codec)
                 g == r.frames
      <3>1. g \in Seq(Frame) /\ g # << >> /\ b \in Seq(Frame)
        BY <2>2, <2>3, CodecFrames DEF ReturnOK
      <3>2. g \o b = f BY <2>2
      <3>3. g[1] \in Frame /\ Len(g) >= 1 BY <3>1, EmptySeq, LenProperties
      <3>4. 1 \in 1 .. Len(f) /\ f[1] = g[1]
        <4> HIDE DEF g, b
        <4>1. Len(g \o b) = Len(g) + Len(b) /\ Len(g) \in Nat /\ Len(b) \in Nat
          BY <3>1, ConcatProperties, LenProperties
        <4>2. \A i \in 1 .. Len(g) + Len(b) : (g \o b)[i] = IF i <= Len(g) THEN g[i] ELSE b[i - Len(g)]
          BY <3>1, ConcatProperties
        <4>3. 1 \in 1 .. Len(g) + Len(b) BY <3>3, <4>1
        <4> QED BY <3>2, <3>3, <4>1, <4>2, <4>3
      <3>5. x \in Sample /\ Stamped(x) BY <1>2, <3>3, <3>4 DEF Sample, Packet, Stamped
      <3> HIDE DEF x
      <3> QED BY <1>3, <1>6, <2>3, <3>5 DEF Queues, x
    <2> QED BY <1>3, <1>6, <2>1, <2>3 DEF Queues
  <1>8. CASE o \in { Outcome("MF_E_NOTACCEPTING", c), Crash(c) }
    <2>1. o.ctx = c BY <1>8 DEF Outcome, Crash
    <2> QED BY <1>6, <2>1 DEF Queues
  <1>9. CASE o \in { Outcome("E_UNEXPECTED", sent), Outcome("E_FAIL", sent) }
    <2>1. o.ctx = sent BY <1>9 DEF Outcome
    <2> QED BY <1>3, <1>6, <2>1 DEF Queues
  <1> QED BY <1>5, <1>7, <1>8, <1>9

(* What a call may do to the queue. *)
Kept      == Queues(ctx'.queue, ctx.queue)
ShortBy1  == ctx.queue # << >> /\ ctx'.queue = Tail(ctx.queue) /\ ctx'.av \in { ctx.av, Opened }
Delivered == last' = Head(ctx.queue).frame \/ "copy" \in MayFail
Flushed   == ctx'.queue = << >> /\ reply'.call \in { "FLUSH", "START_OF_STREAM" }

QueueStep == Kept \/ (ShortBy1 /\ Delivered) \/ Flushed

LEMMA SameQueue ==
  ASSUME TypeOK, ctx'.queue = ctx.queue
  PROVE  Kept
  BY DEF Kept, Queues

LEMMA InputQueues ==
  ASSUME Lag = 0, TypeOK, ReadyInv, NEW p \in OfferedPackets, DecodeInput(p)
  PROVE  Kept
  <1>1. PICK i \in Initialized : \E d \in Decode(i.ctx, p) : Applies(d) BY DEF DecodeInput
  <1>2. PICK d \in Decode(i.ctx, p) : Applies(d) BY <1>1
  <1>3. ContextOK(i.ctx) /\ i.ctx.queue = ctx.queue /\ i.ctx.av \in { ctx.av, Opened }
    BY InitializedQueue, InitializedCodec
  <1>4. InCodec(i.ctx.av) = << >>
    <2>1. ~crashed BY DEF DecodeInput
    <2>2. NothingLeft(ctx.av) BY <2>1 DEF ReadyInv, NothingLeft
    <2>3. InCodec(ctx.av) = << >>
      BY <2>2, TypeOKContext, NothingInCodec DEF ContextOK
    <2> QED BY <1>3, <2>3, EmptyPipeline
  <1>5. p \in Packet BY DEF OfferedPackets
  <1>6. Queues(d.ctx.queue, i.ctx.queue) BY <1>3, <1>4, <1>5, DecodeQueues
  <1> QED BY <1>2, <1>3, <1>6 DEF Applies, Kept

LEMMA OutputQueues ==
  ASSUME TypeOK, Output
  PROVE  QueueStep
  <1>1. ContextOK(ctx) /\ NewContext.queue = << >> /\ NewContext.av = Opened
    BY TypeOKContext DEF NewContext
  <1>2. CASE DeliverSample \/ LoseSample
    <2>1. HasNextSample(ctx) /\ Emptied(NextSampleTaken) /\ Delivered
      BY <1>2 DEF DeliverSample, LoseSample, Delivered
    <2>2. NextSampleTaken.av = ctx.av /\ NextSampleTaken.queue = Tail(ctx.queue)
      BY <1>1, <2>1, SampleTaken
    <2>3. \/ ctx' = NewContext /\ NextSampleTaken.queue = << >>
          \/ ctx' = NextSampleTaken
      BY <2>1 DEF Emptied, HasNextSample
    <2>4. ShortBy1 BY <1>1, <2>1, <2>2, <2>3 DEF ShortBy1, HasNextSample
    <2> QED BY <2>1, <2>4 DEF QueueStep
  <1>3. CASE NeedMoreInput
    <2>1. ctx.queue = << >> /\ ctx' \in { NewContext, ctx }
      BY <1>3 DEF NeedMoreInput, Emptied, HasNextSample
    <2> QED BY <1>1, <2>1, SameQueue DEF QueueStep
  <1> QED BY <1>2, <1>3 DEF Output

LEMMA MessageQueues ==
  ASSUME TypeOK, Flushing
  PROVE  QueueStep
  <1>1. ContextOK(ctx) BY TypeOKContext
  <1>2. CASE StartOfStream \/ FlushMessage
    <2>1. PICK o \in Flush(ctx, inType, outType) :
            ctx' = o.ctx /\ reply'.call \in { "FLUSH", "START_OF_STREAM" }
      BY <1>2 DEF StartOfStream, FlushMessage, Applies, Replies
    <2> QED BY <1>1, <2>1, FlushOutcome DEF QueueStep, Flushed
  <1>3. CASE Drain
    <2>1. PICK o \in FlushInput(ctx, inType, outType) : ctx' = o.ctx BY <1>3 DEF Drain, Applies
    <2>2. o.ctx.queue = ctx.queue BY <1>1, FlushInputOutcome
    <2> QED BY <2>1, <2>2, SameQueue DEF QueueStep
  <1> QED BY <1>2, <1>3 DEF Flushing

LEMMA EveryQueueStep ==
  ASSUME Lag = 0, TypeOK, ReadyInv, [Next]_vars
  PROVE  QueueStep
  <1>1. ASSUME \/ RefuseInput \/ StreamChange \/ StreamChangeWithoutType \/ StreamChangeFails
               \/ EndOfStream \/ IgnoredMessage \/ UNCHANGED vars
        PROVE  Kept
    BY <1>1, QuietCallKeeps, SameQueue
  <1>2. ASSUME TypeCall PROVE Kept
    <2>1. PICK type \in MediaTypes :
            \/ ClearInputType \/ SetInputType(type)
            \/ ClearOutputType \/ SetOutputType(type) \/ RefuseOutputType(type)
      BY <1>2, SomeType DEF TypeCall
    <2> QED BY <2>1, TypeCallKeeps, SameQueue
  <1>3. ASSUME FailInput PROVE Kept
    <2>1. PICK i \in Initialized : ctx' = i.ctx BY <1>3 DEF FailInput
    <2> QED BY <2>1, InitializedQueue, SameQueue
  <1>4. \/ TypeCall \/ FailInput \/ Output \/ Flushing
        \/ \E p \in OfferedPackets : DecodeInput(p)
        \/ RefuseInput \/ StreamChange \/ StreamChangeWithoutType \/ StreamChangeFails
        \/ EndOfStream \/ IgnoredMessage \/ UNCHANGED vars
    BY DEF Next, InputCall, OutputCall, MessageCall, Output, Flushing
  <1> QED BY <1>1, <1>2, <1>3, <1>4, InputQueues, OutputQueues, MessageQueues DEF QueueStep

(***************************************************************************)
(* Samples carry the duration, and where it is used the time, of the       *)
(* packet they were decoded from.                                          *)
(***************************************************************************)
LEMMA StampStep ==
  ASSUME Lag = 0, TypeOK, ReadyInv, SampleStamps, [Next]_vars
  PROVE  SampleStamps'
  <1> DEFINE q == ctx.queue
             n == ctx'.queue
  <1>1. q \in Seq(Sample) BY TypeOKContext DEF ContextOK, Context
  <1>2. \A i \in 1 .. Len(q) : Stamped(q[i]) BY DEF SampleStamps, Stamped
  <1>3. QueueStep BY EveryQueueStep
  <1>4. SUFFICES \A i \in 1 .. Len(n) : Stamped(n[i]) BY DEF SampleStamps, Stamped
  <1> HIDE DEF q, n
  <1>5. CASE n = q BY <1>2, <1>5
  <1>6. ASSUME NEW x \in Sample, Stamped(x), n = Append(q, x)
        PROVE  \A i \in 1 .. Len(n) : Stamped(n[i])
    <2>1. /\ Len(n) = Len(q) + 1 /\ Len(q) \in Nat /\ n[Len(q) + 1] = x
          /\ \A i \in 1 .. Len(q) : n[i] = q[i]
      BY <1>1, <1>6, AppendProperties
    <2>2. \A i \in 1 .. Len(n) : i \in 1 .. Len(q) \/ i = Len(q) + 1 BY <2>1
    <2> QED BY <1>2, <1>6, <2>1, <2>2
  <1>7. CASE q # << >> /\ n = Tail(q)
    <2>1. /\ n \in Seq(Sample) /\ Len(n) = Len(q) - 1 /\ Len(q) \in Nat
          /\ \A i \in 1 .. Len(n) : n[i] = q[i + 1]
      BY <1>1, <1>7, HeadTailProperties, LenProperties
    <2> SUFFICES ASSUME NEW i \in 1 .. Len(n) PROVE Stamped(n[i]) OBVIOUS
    <2> DEFINE k == i + 1
    <2>2. k \in 1 .. Len(q) /\ n[i] = q[k] BY <2>1
    <2> HIDE DEF k
    <2> QED BY <1>2, <2>2
  <1>8. CASE n = << >> BY <1>8
  <1>9. \/ n = q \/ \E x \in Sample : Stamped(x) /\ n = Append(q, x)
        \/ q # << >> /\ n = Tail(q)
        \/ n = << >>
    BY <1>3 DEF QueueStep, Kept, Queues, ShortBy1, Flushed, q, n
  <1> QED BY <1>5, <1>6, <1>7, <1>8, <1>9

THEOREM StampsOfTheirPackets ==
  ASSUME Lag = 0, MaxFrames <= 1
  PROVE  Spec => []SampleStamps
  <1>1. Init => ReadyInv BY DEF Init, ReadyInv, NewContext, Opened
  <1>2. Init => SampleStamps BY DEF Init, SampleStamps, NewContext
  <1>3. TypeOK /\ ReadyInv /\ [Next]_vars => ReadyInv' BY ReadyStep
  <1>4. TypeOK /\ ReadyInv /\ SampleStamps /\ [Next]_vars => SampleStamps' BY StampStep
  <1> QED BY <1>1, <1>2, <1>3, <1>4, TypeCorrect, PTL DEF Spec

(***************************************************************************)
(* Where no sample fails to be copied to the client's buffer, frames leave *)
(* the decoder only by being delivered, or with FLUSH and START_OF_STREAM: *)
(* a drain, a new media type and the rebuild after it drop none.           *)
(***************************************************************************)
DropsByFlush ==
  \/ Len(Pipeline(ctx')) >= Len(Pipeline(ctx))
  \/ last' # last /\ Len(Pipeline(ctx')) = Len(Pipeline(ctx)) - 1
  \/ reply'.call \in { "FLUSH", "START_OF_STREAM" }

LEMMA DropStep ==
  ASSUME Lag = 0, "copy" \notin MayFail, TypeOK, TypeOK', ReadyInv, InOrder, [Next]_vars
  PROVE  DropsByFlush \/ UNCHANGED vars
  <1> DEFINE q == ctx.queue
             n == ctx'.queue
             lq == Len(Pipeline(ctx))
             ln == Len(Pipeline(ctx'))
  <1>1. ContextOK(ctx) /\ ContextOK(ctx')
    BY TypeOKContext DEF TypeOK, ContextOK, CodecOK, Context
  <1>2. q \in Seq(Sample) BY <1>1 DEF ContextOK, Context
  <1>3. CASE crashed
    BY <1>3 DEF Next, TypeCall, InputCall, OutputCall, MessageCall, ClearInputType,
       ClearOutputType, SetInputType, SetOutputType, RefuseOutputType, RefuseInput, FailInput,
       DecodeInput, StreamChange, StreamChangeWithoutType, StreamChangeFails, DeliverSample,
       LoseSample, NeedMoreInput, StartOfStream, EndOfStream, Drain, FlushMessage, IgnoredMessage
  <1>4. CASE ~crashed
    <2>1. InCodec(ctx.av) = << >>
      <3>1. NothingLeft(ctx.av) BY <1>4 DEF ReadyInv, NothingLeft
      <3> QED BY <1>1, <3>1, NothingInCodec DEF ContextOK
    <2>2. /\ lq = Len(q) /\ lq \in Nat /\ ln \in Nat /\ ln >= Len(n)
          /\ InCodec(ctx'.av) = << >> => ln = Len(n)
      BY <1>1, <2>1, PipelineLength
    <2>3. QueueStep BY EveryQueueStep
    <2>4. CASE Kept
      <3>1. n = q \/ \E x \in Sample : n = Append(q, x) BY <2>4 DEF Kept, Queues
      <3> HIDE DEF q, n, lq, ln
      <3>2. Len(n) >= Len(q) BY <1>2, <3>1, AppendProperties, LenProperties
      <3>3. Len(n) \in Nat BY <1>2, <3>1, AppendProperties, LenProperties
      <3>4. ln >= lq BY <2>2, <3>2, <3>3
      <3> QED BY <3>4 DEF DropsByFlush, lq, ln
    <2>5. CASE ShortBy1 /\ Delivered
      <3>1. /\ q # << >> /\ n = Tail(q) /\ last' = Head(q).frame
            /\ ctx'.av \in { ctx.av, Opened }
        BY <2>5 DEF ShortBy1, Delivered
      <3>2. InCodec(ctx'.av) = << >> BY <2>1, <3>1, EmptyPipeline
      <3>3. Len(n) = Len(q) - 1 BY <1>2, <3>1, HeadTailProperties, LenProperties
      <3>4. Pipeline(ctx) # << >> /\ Head(Pipeline(ctx)) = last'
        BY <1>1, <3>1, PipelineTaken DEF HasNextSample
      <3>5. last' # last
        <4> DEFINE s == Pipeline(ctx)
        <4>1. s \in Seq(Frame) /\ s # << >> /\ Head(s) = last' BY <1>1, <3>4, PipelineParts
        <4>2. \A i \in 1 .. Len(s) : Precedes(last, s[i]) BY DEF InOrder
        <4>3. last.pkt \in Nat /\ last.ix \in Nat
          BY TypeOKContext, FramesAreAny DEF AnyFrame
        <4> HIDE DEF s
        <4>4. 1 \in 1 .. Len(s) /\ Head(s) = s[1] BY <4>1, EmptySeq, LenProperties
        <4>5. Precedes(last, last') BY <4>1, <4>2, <4>4
        <4> QED BY <4>3, <4>5 DEF Precedes
      <3>6. ln = lq - 1 BY <2>2, <3>2, <3>3
      <3> QED BY <3>5, <3>6 DEF DropsByFlush
    <2>6. CASE Flushed BY <2>6 DEF Flushed, DropsByFlush
    <2> QED BY <2>3, <2>4, <2>5, <2>6 DEF QueueStep
  <1> QED BY <1>3, <1>4

THEOREM DroppedOnlyByFlush ==
  ASSUME Lag = 0, MaxFrames <= 1, "copy" \notin MayFail
  PROVE  Spec => FramesDroppedOnlyByFlush
  <1>1. Init => ReadyInv BY DEF Init, ReadyInv, NewContext, Opened
  <1>2. TypeOK /\ ReadyInv /\ [Next]_vars => ReadyInv' BY ReadyStep
  <1>3. TypeOK /\ TypeOK' /\ ReadyInv /\ InOrder /\ [Next]_vars => [DropsByFlush]_vars
    BY DropStep
  <1> QED BY <1>1, <1>2, <1>3, TypeCorrect, FramesInOrder, PTL
      DEF Spec, FramesDroppedOnlyByFlush, DropsByFlush
=============================================================================
