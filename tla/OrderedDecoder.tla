--------------------------- MODULE OrderedDecoder ---------------------------
(***************************************************************************)
(* What a decoder promises its client, whatever it is built from: packets  *)
(* go in numbered, frames come out in the order of their packets, each at  *)
(* most once, and nothing taken in before a flush comes out after it.      *)
(* Frames may be lost on the way: a codec may fail on a packet.  When they *)
(* may be lost is the subject of the detailed module's own properties.     *)
(***************************************************************************)
EXTENDS Naturals, Sequences

CONSTANTS MaxPackets, MaxFrames

VARIABLES
  pipe,    (* frames taken in and neither delivered nor lost, oldest first *)
  last,    (* the last frame delivered                                     *)
  seen,    (* number of the last packet taken in                           *)
  floor    (* number of the last packet taken in before the last flush     *)

promiseVars == << pipe, last, seen, floor >>

NoFrame == [pkt |-> 0, ix |-> 0]

(* t is s with some elements left out. *)
Thinned(t, s) ==
  \E at \in [1 .. Len(t) -> 1 .. Len(s)] :
    /\ \A i, j \in 1 .. Len(t) : i < j => at[i] < at[j]
    /\ \A i \in 1 .. Len(t) : t[i] = s[at[i]]

NewFrames(n, k) == [i \in 1 .. k |-> [pkt |-> n, ix |-> i]]

PromiseInit == pipe = << >> /\ last = NoFrame /\ seen = 0 /\ floor = 0

Accept(k) ==
  /\ seen' = seen + 1
  /\ Thinned(pipe', pipe \o NewFrames(seen + 1, k))
  /\ UNCHANGED << last, floor >>

Deliver ==
  /\ pipe # << >>
  /\ last' = Head(pipe)
  /\ Thinned(pipe', Tail(pipe))
  /\ UNCHANGED << seen, floor >>

Lose ==
  /\ UNCHANGED << last, seen, floor >>
  /\ pipe' # pipe
  /\ Thinned(pipe', pipe)

FlushAll ==
  /\ pipe' = << >>
  /\ floor' = seen
  /\ UNCHANGED << last, seen >>

PromiseNext == (\E k \in 0 .. MaxFrames : Accept(k)) \/ Deliver \/ Lose \/ FlushAll

PromiseSpec == PromiseInit /\ [][PromiseNext]_promiseVars
=============================================================================
