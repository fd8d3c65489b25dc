---------------------------- MODULE PacketBuffer ----------------------------
(***************************************************************************)
(* The packet that ProcessInput uses again for every sample                *)
(* (FFmpegTypes::PacketFromSample): what is left in it of an earlier       *)
(* sample, and its buffer, which libavcodec refers to while it has not     *)
(* decoded the packet and which is written again in place.                 *)
(*                                                                         *)
(* A sample is its number, its size and whether it has a time and a        *)
(* duration.  A stamp and the contents of a buffer are known by the sample *)
(* they come from, a buffer by the sample it was allocated for; 0 is none. *)
(***************************************************************************)
EXTENDS AvCodec

CONSTANTS
  SampleSizes,  (* sizes of a sample                                         *)
  Stamped,      (* whether a sample has a duration, and whether it has a time *)
  RunsOut       (* whether a buffer may fail to be allocated                 *)

ASSUME BufferAssumption ==
  SampleSizes \subseteq Nat /\ Stamped \subseteq BOOLEAN /\ RunsOut \subseteq BOOLEAN

SampleIds == 1 .. MaxPackets
MFSample  == [id : SampleIds, size : SampleSizes, duration : Stamped, time : Stamped]
AVPacket  ==
  [buffer : 0 .. MaxPackets, size : SampleSizes \cup { 0 },
   duration : 0 .. MaxPackets, pts : 0 .. MaxPackets]

(* av_packet_alloc, and av_packet_unref. *)
NoPacket == [buffer |-> 0, size |-> 0, duration |-> 0, pts |-> 0]

VARIABLES
  packet,    (* _pPacket                                                     *)
  content,   (* the sample whose bytes a buffer has                          *)
  bufferOf,  (* the buffer with the data of a packet that was sent           *)
  av,        (* the codec                                                    *)
  ended,     (* the codec has been sent an empty packet, which ends it       *)
  sample     (* history: the samples, the last one at the end                *)

bufferVars == << packet, content, bufferOf, av, ended, sample >>

PacketInit ==
  /\ packet = NoPacket
  /\ content = [b \in SampleIds |-> 0]
  /\ bufferOf = [p \in SampleIds |-> 0]
  /\ av = Opened
  /\ ended = FALSE
  /\ sample = << >>

(* The packets whose data libavcodec still refers to. *)
InUse(c) == { c.bsf[i].id : i \in DOMAIN c.bsf } \cup { c.work[i].pkt : i \in DOMAIN c.work }

(***************************************************************************)
(* PacketFromSample: a buffer of the sample's size is used again, else the *)
(* packet is emptied and given a new one.  The stamps are set when the     *)
(* sample has both.  Whatever failed, the result is that of Unlock.        *)
(***************************************************************************)
ReusesLarger(p, s) == p.buffer # 0 /\ p.size >= s.size (* mutant *)
ReusesBuffer(p, s) == p.buffer # 0 /\ p.size = s.size

WithPadding(p, s, allocated) == (* mutant: the size includes the padding *)
  IF ReusesBuffer(p, s) THEN p
  ELSE [NoPacket EXCEPT !.buffer = s.id, !.size = s.size + 64]

WithBuffer(p, s, allocated) ==
  IF ReusesBuffer(p, s) THEN p
  ELSE IF allocated THEN [NoPacket EXCEPT !.buffer = s.id, !.size = s.size]
  ELSE NoPacket

PacketFromSample(p, s, allocated) ==
  LET q == WithBuffer(p, s, allocated)
  IN IF q.buffer # 0 /\ s.duration /\ s.time
     THEN [q EXCEPT !.duration = s.id, !.pts = s.id]
     ELSE q

(***************************************************************************)
(* Decode: the packet is sent and one frame received.  The codec takes a   *)
(* packet without data for the end, refuses a packet with data and no      *)
(* bytes, and everything after the end.                                    *)
(***************************************************************************)
SentOnly(c, p) == Send(c, p).codec (* mutant: the frame is not received *)
Decoded(c, p) ==
  LET r == Send(c, p) IN IF r.rv = "ok" THEN Receive(r.codec).codec ELSE r.codec

(* ProcessInput: the conversion and the decoding of one sample. *)
Input(s, p, allocated) ==
  LET q == PacketFromSample(packet, s, allocated)
  IN /\ packet' = q
     /\ content' = [b \in SampleIds |-> IF b = q.buffer THEN s.id ELSE content[b]]
     /\ bufferOf' = [bufferOf EXCEPT ![s.id] = q.buffer]
     /\ ended' = (ended \/ q.buffer = 0)
     /\ av' = IF ended' \/ q.size = 0 THEN av ELSE Decoded(av, p)
     /\ sample' = Append(sample, s)

AnyInput ==
  \E s \in MFSample, p \in Packet, runsOut \in RunsOut :
    /\ s.id = Len(sample) + 1 /\ p.id = s.id
    /\ Input(s, p, ~runsOut)

(* A flush or a drain makes the codec anew; the packet stays as it is. *)
NewCodec ==
  /\ av' = Opened
  /\ ended' = FALSE
  /\ UNCHANGED << packet, content, bufferOf, sample >>

PacketNext == AnyInput \/ NewCodec

PacketSpec == PacketInit /\ [][PacketNext]_bufferVars

-----------------------------------------------------------------------------
PacketTypeOK ==
  /\ packet \in AVPacket
  /\ content \in [SampleIds -> 0 .. MaxPackets]
  /\ bufferOf \in [SampleIds -> 0 .. MaxPackets]
  /\ av \in Codec
  /\ ended \in BOOLEAN
  /\ sample \in Seq(MFSample)

(***************************************************************************)
(* The packet is that of a conversion into a packet that was never used:   *)
(* nothing is left in it of the samples before (PacketFromSample).  A      *)
(* sample without a duration keeps the stamps before it, unless the size   *)
(* changes, which is why the samples of a pipeline must have both.         *)
(***************************************************************************)
PacketIsSample ==
  sample # << >> =>
    LET s == sample[Len(sample)]
    IN /\ packet.size = s.size
       /\ packet.buffer # 0 /\ content[packet.buffer] = s.id
       /\ packet.duration = IF s.duration THEN s.id ELSE 0
       /\ packet.pts = IF s.time THEN s.id ELSE 0

(***************************************************************************)
(* A buffer is written again only when libavcodec does not refer to it any *)
(* more: PacketFromSample does not ask, and relies on Decode's one receive *)
(* for each packet.                                                        *)
(***************************************************************************)
OverwrittenOnlyWhenFree ==
  [][\A b \in SampleIds :
       content[b] # 0 /\ content'[b] # content[b] =>
         \A p \in InUse(av) : bufferOf[p] # b]_bufferVars
=============================================================================
