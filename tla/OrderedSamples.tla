--------------------------- MODULE OrderedSamples ---------------------------
(***************************************************************************)
(* What a media source promises the pipeline about its samples, however it *)
(* reads them: the samples of a stream are made of whole runs of its       *)
(* packets, come in the order of the file, and are flagged wherever a      *)
(* packet was lost or a seek came in between; a stream that has ended      *)
(* gives no sample before the next seek.                                   *)
(***************************************************************************)
EXTENDS Integers, Sequences

CONSTANTS Streams, FileLength

VARIABLES
  file,     (* the packets                                                   *)
  answer,   (* the last answer: a sample, or the end of a stream             *)
  last,     (* the last packet of each stream that is behind the pipeline    *)
  sought,   (* the next sample comes after a seek                            *)
  ended     (* the stream has ended                                          *)

(* An answer is spoken of only in the step that gives it. *)
promiseVars == << file, last, sought, ended >>

PromiseInit ==
  /\ answer.got = << >>
  /\ last = [s \in Streams |-> 0]
  /\ sought = [s \in Streams |-> FALSE]
  /\ ended = [s \in Streams |-> FALSE]

(* A packet of s that holds content of its own strictly between two others. *)
Missing(s, i, j) ==
  \E k \in i + 1 .. j - 1 : file[k].stream = s /\ file[k].outcome # "partial"

Give(s) ==
  LET got == answer'.got IN
  /\ ~ended[s]
  /\ answer'.stream = s
  /\ got # << >>
  /\ \A n \in 1 .. Len(got) :
       /\ got[n] \in last[s] + 1 .. FileLength
       /\ file[got[n]].stream = s /\ file[got[n]].outcome = "ok"
  /\ \A n \in 1 .. Len(got) - 1 : got[n] < got[n + 1] /\ ~Missing(s, got[n], got[n + 1])
  /\ sought[s] \/ Missing(s, last[s], got[1]) => answer'.discontinuous
  /\ last' = [last EXCEPT ![s] = got[Len(got)]]
  /\ sought' = [sought EXCEPT ![s] = FALSE]
  /\ UNCHANGED << file, ended >>

End(s) ==
  /\ answer'.stream = s
  /\ answer'.got = << >>
  /\ ended' = [ended EXCEPT ![s] = TRUE]
  /\ UNCHANGED << file, last, sought >>

Jump(p) ==
  /\ last' = [s \in Streams |-> p - 1]
  /\ sought' = [s \in Streams |-> TRUE]
  /\ ended' = [s \in Streams |-> FALSE]
  /\ UNCHANGED file

PromiseNext ==
  \/ \E s \in Streams : Give(s) \/ End(s)
  \/ \E p \in 1 .. FileLength + 1 : Jump(p)

PromiseSpec == PromiseInit /\ [][PromiseNext]_promiseVars
=============================================================================
