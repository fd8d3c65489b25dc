--------------------------- MODULE AvCodec_proofs ---------------------------
(***************************************************************************)
(* What the operations of AvCodec return, for every codec: the types of    *)
(* the results, and what is left inside a codec that gives out at most one *)
(* frame for each packet.                                                  *)
(***************************************************************************)
EXTENDS AvCodec, SequenceTheorems, TLAPS

(* A state the codec can be in: nothing beyond its lag, its filter and its buffer. *)
CodecOK(c) ==
  /\ c \in Codec
  /\ Len(c.held) <= Lag
  /\ Len(c.bsf) <= 1
  /\ Len(c.buf) <= 1

Result == { "ok", "error", "EAGAIN" }

(* What an operation returns: a frame exactly when it says ok. *)
ReturnOK(r) ==
  /\ r.rv \in Result
  /\ r.frames \in Seq(Frame) /\ Len(r.frames) <= 1
  /\ r.rv = "ok" <=> r.frames # << >>
  /\ CodecOK(r.codec)

(* The frames of a packet are frames, as many as the packet says. *)
LEMMA FramesOfType ==
  ASSUME NEW p \in Packet
  PROVE  FramesOf(p) \in Seq(Frame) /\ Len(FramesOf(p)) <= MaxFrames
  <1>1. p.frames \in 0 .. MaxFrames /\ p.id \in 1 .. MaxPackets /\ MaxFrames \in Nat
    BY CodecAssumption DEF Packet
  <1>2. [i \in 1 .. p.frames |-> [pkt |-> p.id, ix |-> i]] \in [1 .. p.frames -> Frame]
    BY <1>1 DEF Frame
  <1>3. [i \in 1 .. p.frames |-> [pkt |-> p.id, ix |-> i]] \in Seq(Frame)
    BY <1>1, <1>2, SeqDef
  <1>4. Len([i \in 1 .. p.frames |-> [pkt |-> p.id, ix |-> i]]) = p.frames
    BY <1>1, <1>2
  <1> QED BY <1>1, <1>3, <1>4 DEF FramesOf

(* A codec whose filter is emptied, and one whose filter and undecoded frames are. *)
LEMMA EmptiedFilterType ==
  ASSUME NEW c \in Codec
  PROVE  LET d == [c EXCEPT !.bsf = << >>]
         IN d \in Codec /\ d.bsf = << >> /\ d.held = c.held /\ d.work = c.work /\ d.buf = c.buf
  <1> DEFINE none == << >>
  <1>1. none \in Seq(Packet) BY EmptySeq
  <1> HIDE DEF none
  <1>2. LET d == [c EXCEPT !.bsf = none]
        IN d \in Codec /\ d.bsf = none /\ d.held = c.held /\ d.work = c.work /\ d.buf = c.buf
    BY <1>1 DEF Codec
  <1> QED BY <1>2 DEF none

LEMMA UsedUpType ==
  ASSUME NEW c \in Codec, NEW h \in Seq(Frame)
  PROVE  LET d == [c EXCEPT !.bsf = << >>, !.held = h, !.work = << >>]
         IN d \in Codec /\ d.bsf = << >> /\ d.held = h /\ d.work = << >> /\ d.buf = c.buf
  <1> DEFINE none == << >>
  <1>1. none \in Seq(Packet) /\ none \in Seq(Frame) BY EmptySeq
  <1> HIDE DEF none
  <1>2. LET d == [c EXCEPT !.bsf = none, !.held = h, !.work = none]
        IN d \in Codec /\ d.bsf = none /\ d.held = h /\ d.work = none /\ d.buf = c.buf
    BY <1>1 DEF Codec
  <1> QED BY <1>2 DEF none

(* decode_receive_frame_internal empties the filter unless a frame was waiting before it. *)
LEMMA PullType ==
  ASSUME NEW c, CodecOK(c)
  PROVE  ReturnOK(Pull(c)) /\ Pull(c).codec.buf = c.buf
  <1> DEFINE line    == c.held \o c.work
             waiting == c.bsf # << >>
             all     == IF waiting THEN line \o FramesOf(c.bsf[1]) ELSE line
             Left(s) == [c EXCEPT !.held = SubSeq(s, 2, Lag + 1),
                                  !.work = SubSeq(s, Lag + 2, Len(s))]
  <1>1. /\ c \in Codec /\ c.bsf \in Seq(Packet) /\ c.work \in Seq(Frame)
        /\ c.held \in Seq(Frame) /\ c.buf \in Seq(Frame) /\ Lag \in Nat
    BY CodecAssumption DEF CodecOK, Codec
  <1>2. line \in Seq(Frame) BY <1>1, ConcatProperties
  <1>3. waiting => c.bsf[1] \in Packet BY <1>1
  <1>4. waiting => FramesOf(c.bsf[1]) \in Seq(Frame) BY <1>3, FramesOfType
  <1>5. all \in Seq(Frame) BY <1>2, <1>4, ConcatProperties
  <1> HIDE DEF line, all
  <1>6. ASSUME NEW s \in Seq(Frame), Len(s) > Lag
        PROVE  /\ << s[1] >> \in Seq(Frame) /\ Len(<< s[1] >>) <= 1 /\ << s[1] >> # << >>
               /\ Left(s) \in Codec /\ Len(Left(s).held) <= Lag
               /\ Left(s).bsf = c.bsf /\ Left(s).buf = c.buf
    <2>1. Len(s) \in Nat /\ \A i \in 1 .. Len(s) : s[i] \in Frame BY <1>6
    <2>2. SubSeq(s, 2, Lag + 1) \in Seq(Frame) /\ Len(SubSeq(s, 2, Lag + 1)) <= Lag
      <3>1. \A i \in 2 .. Lag + 1 : s[i] \in Frame BY <2>1, <1>1, <1>6
      <3>2. 2 \in Int /\ Lag + 1 \in Int BY <1>1
      <3> QED BY <3>1, <3>2, <1>1, SubSeqProperties
    <2>3. SubSeq(s, Lag + 2, Len(s)) \in Seq(Frame)
      <3>1. \A i \in Lag + 2 .. Len(s) : s[i] \in Frame BY <2>1, <1>1, <1>6
      <3>2. Lag + 2 \in Int /\ Len(s) \in Int BY <1>1, <2>1
      <3> QED BY <3>1, <3>2, SubSeqProperties
    <2>4. s[1] \in Frame BY <2>1, <1>1, <1>6
    <2>5. << s[1] >> \in Seq(Frame) /\ Len(<< s[1] >>) <= 1 /\ << s[1] >> # << >> BY <2>4
    <2> DEFINE h == SubSeq(s, 2, Lag + 1)
               w == SubSeq(s, Lag + 2, Len(s))
               d == [c EXCEPT !.held = h, !.work = w]
    <2>6. h \in Seq(Frame) /\ Len(h) <= Lag /\ w \in Seq(Frame) BY <2>2, <2>3
    <2> HIDE DEF h, w
    <2>7. d \in Codec /\ d.held = h /\ d.bsf = c.bsf /\ d.buf = c.buf
      <3>1. c \in Codec /\ h \in Seq(Frame) /\ w \in Seq(Frame) BY <2>6, <1>1
      <3> QED BY <3>1 DEF Codec
    <2>8. Left(s) = d BY DEF h, w
    <2> HIDE DEF d, Left
    <2> QED BY <2>5, <2>6, <2>7, <2>8
  <1>7. CASE Len(line) > Lag
    <2>1. Pull(c) = Returned("ok", << line[1] >>, Left(line)) BY <1>7 DEF Pull, line
    <2>2. CodecOK(Left(line)) /\ Left(line).buf = c.buf BY <1>2, <1>6, <1>7 DEF CodecOK
    <2> HIDE DEF Left
    <2> QED BY <2>1, <2>2, <1>2, <1>6, <1>7 DEF Returned, ReturnOK, Result
  <1>8. CASE ~(Len(line) > Lag) /\ waiting /\ c.bsf[1].bad
    <2> DEFINE after == [c EXCEPT !.bsf = << >>, !.held = line, !.work = << >>]
    <2>1. Pull(c) = Returned("error", << >>, after) BY <1>8 DEF Pull, line
    <2>2. after \in Codec /\ after.bsf = << >> /\ after.held = line /\ after.buf = c.buf
      BY <1>1, <1>2, UsedUpType
    <2> HIDE DEF after
    <2>3. CodecOK(after) BY <2>2, <1>1, <1>2, <1>8 DEF CodecOK
    <2> QED BY <2>1, <2>2, <2>3 DEF Returned, ReturnOK, Result
  <1>9. CASE ~(Len(line) > Lag) /\ ~(waiting /\ c.bsf[1].bad) /\ Len(all) > Lag
    <2> DEFINE after == [Left(all) EXCEPT !.bsf = << >>]
    <2>1. Pull(c) = Returned("ok", << all[1] >>, after) BY <1>9 DEF Pull, line, all
    <2>2. /\ << all[1] >> \in Seq(Frame) /\ Len(<< all[1] >>) <= 1 /\ << all[1] >> # << >>
          /\ Left(all) \in Codec /\ Len(Left(all).held) <= Lag /\ Left(all).buf = c.buf
      BY <1>5, <1>6, <1>9
    <2> HIDE DEF Left
    <2>3. /\ after \in Codec /\ after.bsf = << >>
          /\ after.held = Left(all).held /\ after.buf = c.buf
      BY <2>2, EmptiedFilterType
    <2> HIDE DEF after
    <2>4. CodecOK(after) BY <2>2, <2>3 DEF CodecOK
    <2> QED BY <2>1, <2>2, <2>3, <2>4 DEF Returned, ReturnOK, Result
  <1>10. CASE ~(Len(line) > Lag) /\ ~(waiting /\ c.bsf[1].bad) /\ ~(Len(all) > Lag)
    <2> DEFINE after == [c EXCEPT !.bsf = << >>, !.held = all, !.work = << >>]
    <2>1. Pull(c) = Returned("EAGAIN", << >>, after) BY <1>10 DEF Pull, line, all
    <2>2. after \in Codec /\ after.bsf = << >> /\ after.held = all /\ after.buf = c.buf
      BY <1>1, <1>5, UsedUpType
    <2> HIDE DEF after
    <2>3. CodecOK(after) BY <2>2, <1>1, <1>5, <1>10 DEF CodecOK
    <2> QED BY <2>1, <2>2, <2>3 DEF Returned, ReturnOK, Result
  <1> QED BY <1>7, <1>8, <1>9, <1>10

(***************************************************************************)
(* avcodec_send_packet.  After "ok" without a refusal either the filter is *)
(* empty or a frame was buffered before the call.                          *)
(***************************************************************************)
LEMMA SendType ==
  ASSUME NEW c, CodecOK(c), NEW p \in Packet
  PROVE  /\ Send(c, p).rv \in Result
         /\ CodecOK(Send(c, p).codec)
  <1> DEFINE taken == [c EXCEPT !.bsf = << p >>]
             r     == Pull(taken)
             after == [r.codec EXCEPT !.buf = r.frames]
  <1>1. c \in Codec /\ Len(c.held) <= Lag /\ Len(c.buf) <= 1 BY DEF CodecOK
  <1>2. CodecOK(taken)
    <2> DEFINE one == << p >>
    <2>1. one \in Seq(Packet) /\ Len(one) <= 1 OBVIOUS
    <2> HIDE DEF one
    <2>2. [c EXCEPT !.bsf = one] \in Codec /\ [c EXCEPT !.bsf = one].bsf = one
          /\ [c EXCEPT !.bsf = one].held = c.held /\ [c EXCEPT !.bsf = one].buf = c.buf
      BY <1>1, <2>1 DEF Codec
    <2>3. CodecOK([c EXCEPT !.bsf = one]) BY <1>1, <2>1, <2>2 DEF CodecOK
    <2> QED BY <2>3 DEF one
  <1> HIDE DEF taken
  <1>3. ReturnOK(r) BY <1>2, PullType
  <1> HIDE DEF r
  <1>4. r.codec \in Codec /\ r.frames \in Seq(Frame) /\ Len(r.frames) <= 1 /\ CodecOK(r.codec)
    BY <1>3 DEF ReturnOK, CodecOK
  <1>5. /\ after \in Codec /\ after.buf = r.frames
        /\ after.bsf = r.codec.bsf /\ after.held = r.codec.held
    BY <1>4 DEF Codec
  <1>6. CodecOK(after) BY <1>4, <1>5 DEF CodecOK
  <1> HIDE DEF after
  <1>7. Send(c, p) = IF c.bsf # << >> THEN Returned("EAGAIN", << >>, c)
                     ELSE IF c.buf # << >> THEN Returned("ok", << >>, taken)
                     ELSE IF r.rv = "error" THEN Returned("error", << >>, r.codec)
                     ELSE Returned("ok", << >>, after)
    BY DEF Send, taken, r, after
  <1> QED BY <1>2, <1>4, <1>6, <1>7 DEF Returned, Result

(* avcodec_receive_frame. *)
LEMMA ReceiveType ==
  ASSUME NEW c, CodecOK(c)
  PROVE  ReturnOK(Receive(c))
  <1>1. CASE c.buf # << >>
    <2> DEFINE after == [c EXCEPT !.buf = << >>]
               none  == << >>
    <2>1. none \in Seq(Frame) /\ Len(none) = 0 BY EmptySeq
    <2> HIDE DEF none
    <2>2. c \in Codec /\ c.buf \in Seq(Frame) /\ Len(c.held) <= Lag /\ Len(c.bsf) <= 1
      BY DEF CodecOK, Codec
    <2>3. [c EXCEPT !.buf = none] \in Codec /\ [c EXCEPT !.buf = none].buf = none
          /\ [c EXCEPT !.buf = none].held = c.held /\ [c EXCEPT !.buf = none].bsf = c.bsf
      BY <2>1, <2>2 DEF Codec
    <2>4. CodecOK([c EXCEPT !.buf = none]) BY <2>1, <2>2, <2>3 DEF CodecOK
    <2>5. CodecOK(after) BY <2>4 DEF none
    <2>6. Len(c.buf) <= 1 BY DEF CodecOK
    <2>7. Receive(c) = Returned("ok", c.buf, after) BY <1>1 DEF Receive
    <2> HIDE DEF after
    <2> QED BY <1>1, <2>2, <2>5, <2>6, <2>7 DEF Returned, ReturnOK, Result
  <1>2. CASE c.buf = << >>
    BY <1>2, PullType DEF Receive
  <1> QED BY <1>1, <1>2

-----------------------------------------------------------------------------
(***************************************************************************)
(* A codec that gives out at most one frame for each packet, whatever its  *)
(* lag, never has frames left over of a packet it decoded.                 *)
(***************************************************************************)
NothingLeft(c) == c.bsf = << >> /\ c.work = << >> /\ c.buf = << >>

(* decode_receive_frame_internal leaves neither a packet nor undecoded frames. *)
LEMMA PullReady ==
  ASSUME NEW c, CodecOK(c), c.work = << >>, MaxFrames <= 1
  PROVE  Pull(c).codec.bsf = << >> /\ Pull(c).codec.work = << >>
  <1> DEFINE line    == c.held \o c.work
             waiting == c.bsf # << >>
             all     == IF waiting THEN line \o FramesOf(c.bsf[1]) ELSE line
             left    == [c EXCEPT !.held = SubSeq(all, 2, Lag + 1),
                                  !.work = SubSeq(all, Lag + 2, Len(all))]
  <1>1. /\ c \in Codec /\ c.bsf \in Seq(Packet) /\ c.held \in Seq(Frame)
        /\ Len(c.held) <= Lag /\ Lag \in Nat
    BY CodecAssumption DEF CodecOK, Codec
  <1>2. line = c.held BY <1>1, ConcatEmptySeq
  <1>3. waiting => c.bsf[1] \in Packet BY <1>1
  <1>short. line \in Seq(Frame) /\ ~(Len(line) > Lag) BY <1>1, <1>2
  <1>4. waiting => FramesOf(c.bsf[1]) \in Seq(Frame) /\ Len(FramesOf(c.bsf[1])) <= 1
    BY <1>3, FramesOfType, CodecAssumption
  <1> HIDE DEF line
  <1>5. all \in Seq(Frame) /\ Len(all) <= Lag + 1
    <2>1. CASE waiting
      <3> DEFINE fs == FramesOf(c.bsf[1])
      <3>1. fs \in Seq(Frame) /\ Len(fs) <= 1 BY <2>1, <1>4
      <3> HIDE DEF fs
      <3>2. c.held \o fs \in Seq(Frame) /\ Len(c.held \o fs) <= Lag + 1
        BY <3>1, <1>1, ConcatProperties
      <3> QED BY <3>2, <2>1, <1>2 DEF fs
    <2>2. CASE ~waiting
      BY <2>2, <1>1, <1>2
    <2> QED BY <2>1, <2>2
  <1> HIDE DEF all
  <1>6. SubSeq(all, Lag + 2, Len(all)) = << >>
    <2>1. Lag + 2 \in Int /\ Len(all) \in Int /\ Len(all) < Lag + 2 BY <1>1, <1>5
    <2> QED BY <2>1, SubSeqEmpty
  <1>7. CASE waiting /\ c.bsf[1].bad
    <2> DEFINE after == [c EXCEPT !.bsf = << >>, !.held = line, !.work = << >>]
    <2>1. Pull(c) = Returned("error", << >>, after) BY <1>short, <1>7 DEF Pull, line
    <2>2. after.bsf = << >> /\ after.work = << >> BY <1>1, <1>short, UsedUpType
    <2> HIDE DEF after
    <2> QED BY <2>1, <2>2 DEF Returned
  <1>8. CASE ~(waiting /\ c.bsf[1].bad) /\ Len(all) > Lag
    <2> DEFINE after == [left EXCEPT !.bsf = << >>]
    <2>1. Pull(c) = Returned("ok", << all[1] >>, after)
      BY <1>short, <1>8 DEF Pull, line, all
    <2>2. left \in Codec /\ left.work = << >>
      <3> DEFINE h == SubSeq(all, 2, Lag + 1)
                 w == SubSeq(all, Lag + 2, Len(all))
      <3>1. h \in Seq(Frame)
        <4>1. 2 \in Int /\ Lag + 1 \in Int /\ \A i \in 2 .. Lag + 1 : all[i] \in Frame
          BY <1>1, <1>5, <1>8
        <4> QED BY <4>1, SubSeqProperties
      <3>2. w \in Seq(Frame) BY <1>6, EmptySeq
      <3> HIDE DEF h, w
      <3>3. [c EXCEPT !.held = h, !.work = w] \in Codec /\ [c EXCEPT !.held = h, !.work = w].work = w
        BY <3>1, <3>2, <1>1 DEF Codec
      <3> QED BY <3>3, <1>6 DEF h, w
    <2> HIDE DEF left
    <2>3. after.bsf = << >> /\ after.work = << >> BY <2>2, EmptiedFilterType
    <2> HIDE DEF after
    <2> QED BY <2>1, <2>3 DEF Returned
  <1>9. CASE ~(waiting /\ c.bsf[1].bad) /\ ~(Len(all) > Lag)
    <2> DEFINE after == [c EXCEPT !.bsf = << >>, !.held = all, !.work = << >>]
    <2>1. Pull(c) = Returned("EAGAIN", << >>, after) BY <1>short, <1>9 DEF Pull, line, all
    <2>2. after.bsf = << >> /\ after.work = << >> BY <1>1, <1>5, UsedUpType
    <2> HIDE DEF after
    <2> QED BY <2>1, <2>2 DEF Returned
  <1> QED BY <1>7, <1>8, <1>9

(* avcodec_send_packet on a codec with nothing left over takes the packet. *)
LEMMA SendReady ==
  ASSUME NEW c, CodecOK(c), NothingLeft(c), NEW p \in Packet, MaxFrames <= 1
  PROVE  /\ Send(c, p).rv # "EAGAIN"
         /\ Send(c, p).codec.bsf = << >> /\ Send(c, p).codec.work = << >>
         /\ Send(c, p).rv = "error" => Send(c, p).codec.buf = << >>
  <1> DEFINE taken == [c EXCEPT !.bsf = << p >>]
             r     == Pull(taken)
             after == [r.codec EXCEPT !.buf = r.frames]
  <1>1. CodecOK(taken) /\ taken.work = << >> /\ taken.buf = << >>
    <2> DEFINE one == << p >>
    <2>1. one \in Seq(Packet) /\ Len(one) <= 1 OBVIOUS
    <2>2. c \in Codec /\ Len(c.held) <= Lag /\ Len(c.buf) <= 1 /\ c.work = << >> /\ c.buf = << >>
      BY DEF CodecOK, NothingLeft
    <2> HIDE DEF one
    <2> DEFINE d == [c EXCEPT !.bsf = one]
    <2>3. d \in Codec /\ d.bsf = one /\ d.held = c.held /\ d.buf = c.buf /\ d.work = c.work
      BY <2>1, <2>2 DEF Codec
    <2> HIDE DEF d
    <2>4. CodecOK(d) /\ d.work = << >> /\ d.buf = << >> BY <2>1, <2>2, <2>3 DEF CodecOK
    <2> QED BY <2>4 DEF d, one
  <1> HIDE DEF taken
  <1>2. ReturnOK(r) /\ r.codec.bsf = << >> /\ r.codec.work = << >> /\ r.codec.buf = << >>
    BY <1>1, PullType, PullReady
  <1> HIDE DEF r
  <1>3. r.codec \in Codec /\ r.frames \in Seq(Frame) BY <1>2 DEF ReturnOK, CodecOK
  <1>4. after.bsf = << >> /\ after.work = << >> BY <1>2, <1>3 DEF Codec
  <1> HIDE DEF after
  <1>5. Send(c, p) = IF r.rv = "error" THEN Returned("error", << >>, r.codec)
                     ELSE Returned("ok", << >>, after)
    BY DEF Send, taken, r, after, NothingLeft
  <1> QED BY <1>2, <1>4, <1>5 DEF Returned

(* avcodec_receive_frame after it leaves nothing over. *)
LEMMA ReceiveReady ==
  ASSUME NEW c, CodecOK(c), c.bsf = << >>, c.work = << >>, MaxFrames <= 1
  PROVE  NothingLeft(Receive(c).codec)
  <1>1. CASE c.buf # << >>
    <2> DEFINE none == << >>
    <2>1. none \in Seq(Frame) /\ c \in Codec BY EmptySeq DEF CodecOK
    <2> HIDE DEF none
    <2> DEFINE d == [c EXCEPT !.buf = none]
    <2>2. d.buf = none /\ d.bsf = c.bsf /\ d.work = c.work BY <2>1 DEF Codec
    <2> HIDE DEF d
    <2>3. Receive(c).codec = d BY <1>1 DEF Receive, Returned, d, none
    <2> QED BY <2>2, <2>3 DEF NothingLeft, none
  <1>2. CASE c.buf = << >>
    BY <1>2, PullType, PullReady DEF Receive, NothingLeft
  <1> QED BY <1>1, <1>2
=============================================================================
