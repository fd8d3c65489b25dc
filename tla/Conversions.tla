---------------------------- MODULE Conversions -----------------------------
(***************************************************************************)
(* The conversions of packets and headers side by side: that of samples to *)
(* packets in the decoder, of packets to samples of H.264 in the source,   *)
(* and of the Vorbis header.  They do not touch each other, so a behaviour *)
(* is one of them alone.                                                   *)
(***************************************************************************)
EXTENDS PacketBuffer, NalUnits, VorbisHeader

VARIABLE job

conversionVars == << job, bufferVars, nalVars, headerVars >>

ConversionInit ==
  /\ job \in { "packet", "units", "header" }
  /\ PacketInit /\ NalInit /\ HeaderInit

UnitsOnly(A) == job = "units" /\ A /\ UNCHANGED << job, bufferVars, headerVars >>

ConversionNext ==
  \/ job = "packet" /\ PacketNext /\ UNCHANGED << job, nalVars, headerVars >>
  \/ job = "header" /\ HeaderNext /\ UNCHANGED << job, bufferVars, nalVars >>
  \/ UnitsOnly(NalNext)

(* A conversion that has begun is carried on. *)
ConversionSpec ==
  /\ ConversionInit /\ [][ConversionNext]_conversionVars
  /\ WF_conversionVars(UnitsOnly(WriteSets \/ WriteUnit))

(* Every variable keeps its type. *)
TypeOK == PacketTypeOK /\ NalTypeOK
=============================================================================
