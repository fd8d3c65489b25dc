------------------------------ MODULE AvCodec ------------------------------
(***************************************************************************)
(* The part of libavcodec that the decoders of this repository drive: an   *)
(* open decoding context behind avcodec_send_packet and                    *)
(* avcodec_receive_frame (decode.c, bsf.c).                                *)
(*                                                                         *)
(* A packet is known by its number, by how many frames it decodes to, and  *)
(* by whether decoding it fails.  A frame is known by its packet and its   *)
(* place in it; only the first frame of a packet keeps the packet's        *)
(* timestamp (decode.c clears it once a packet is partly consumed).        *)
(*                                                                         *)
(* The module has no variables: a context is a record and an operation a   *)
(* function from the record before to what it returns and the record after.*)
(***************************************************************************)
EXTENDS Naturals, Sequences

CONSTANTS
  Lag,         (* frames the codec holds back to reorder them; 0 for Vorbis and Theora *)
  MaxFrames,   (* frames one packet may decode to                                      *)
  MaxPackets   (* packets a behaviour may submit: the bound of the model               *)

ASSUME CodecAssumption == Lag \in Nat /\ MaxFrames \in Nat /\ MaxPackets \in Nat

Packet == [id : 1 .. MaxPackets, frames : 0 .. MaxFrames, bad : BOOLEAN]
Frame  == [pkt : 1 .. MaxPackets, ix : 1 .. MaxFrames]

(* The frames that decoding a packet makes, in order; a bad packet makes none. *)
FramesOf(p) ==
  IF p.bad THEN << >> ELSE [i \in 1 .. p.frames |-> [pkt |-> p.id, ix |-> i]]

(***************************************************************************)
(* bsf  - the packet waiting in the bitstream filter, if any               *)
(* work - the frames not yet decoded of the packet being decoded (in_pkt)  *)
(* held - the frames the codec holds back, at most Lag of them             *)
(* buf  - the frame decoded ahead by avcodec_send_packet (buffer_frame)    *)
(***************************************************************************)
Codec == [bsf : Seq(Packet), work : Seq(Frame), held : Seq(Frame), buf : Seq(Frame)]

(* A context just opened. *)
Opened == [bsf |-> << >>, work |-> << >>, held |-> << >>, buf |-> << >>]

Returned(rv, frames, c) == [rv |-> rv, frames |-> frames, codec |-> c]

(***************************************************************************)
(* decode_receive_frame_internal: decode until a frame comes out, taking   *)
(* the packet in the filter when the one being decoded is used up.  A      *)
(* packet that fails to decode is discarded and its error returned.        *)
(***************************************************************************)
Pull(c) ==
  LET line     == c.held \o c.work
      waiting  == c.bsf # << >>
      all      == IF waiting THEN line \o FramesOf(c.bsf[1]) ELSE line
      First(s) == << s[1] >>
      Left(s)  == [c EXCEPT !.held = SubSeq(s, 2, Lag + 1),
                            !.work = SubSeq(s, Lag + 2, Len(s))]
  IN IF Len(line) > Lag
     THEN Returned("ok", First(line), Left(line))
     ELSE IF waiting /\ c.bsf[1].bad
     THEN Returned("error", << >>, [c EXCEPT !.bsf = << >>, !.held = line, !.work = << >>])
     ELSE IF Len(all) > Lag
     THEN Returned("ok", First(all), [Left(all) EXCEPT !.bsf = << >>])
     ELSE Returned("EAGAIN", << >>, [c EXCEPT !.bsf = << >>, !.held = all, !.work = << >>])

(***************************************************************************)
(* avcodec_send_packet: the filter takes one packet and refuses a second;  *)
(* when no frame is buffered, decode one ahead.                            *)
(***************************************************************************)
Send(c, p) ==
  IF c.bsf # << >>
  THEN Returned("EAGAIN", << >>, c)
  ELSE LET taken  == [c EXCEPT !.bsf = << p >>]
           pulled == Pull(taken)
       IN IF c.buf # << >> THEN Returned("ok", << >>, taken)
          ELSE IF pulled.rv = "error" THEN Returned("error", << >>, pulled.codec)
          ELSE Returned("ok", << >>, [pulled.codec EXCEPT !.buf = pulled.frames])

(* avcodec_receive_frame: the frame decoded ahead, or the next one. *)
Receive(c) ==
  IF c.buf # << >> THEN Returned("ok", c.buf, [c EXCEPT !.buf = << >>]) ELSE Pull(c)

(* Every frame the context has taken in and not given out, oldest first. *)
InCodec(c) ==
  c.buf \o c.held \o c.work \o (IF c.bsf = << >> THEN << >> ELSE FramesOf(c.bsf[1]))
=============================================================================
