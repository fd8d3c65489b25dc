---------------------------- MODULE VorbisHeader ----------------------------
(***************************************************************************)
(* FFmpegVorbis::ProcessHeader: the codec header that Media Foundation's   *)
(* Matroska source exports, rewritten for libavcodec, which takes it apart *)
(* again with avpriv_split_xiph_headers (libavcodec/xiph.c).               *)
(*                                                                         *)
(* HeaderBase is the number of values of a byte.  The headers are known by *)
(* their sizes; their bytes are all the same, of any value.  InfoSize is   *)
(* the size of VORBISFORMAT, in front of the headers, which has room for   *)
(* the type and two sizes of four bytes.                                   *)
(***************************************************************************)
EXTENDS Integers, Sequences

CONSTANTS HeaderBase, HeaderSizes, InfoSize

ASSUME HeaderAssumption ==
  /\ HeaderBase \in Nat /\ HeaderBase >= 4
  /\ InfoSize \in Nat /\ InfoSize >= 9
  /\ HeaderSizes \subseteq Nat

VARIABLES sizes, fill, out   (* headerSize, a byte of the headers, *ppHeaderOut *)

headerVars == << sizes, fill, out >>

HeaderInit == sizes = << >> /\ fill = 0 /\ out = << >>

Top == HeaderBase - 1

(* Byte k of a 32-bit number, the lowest being byte 0. *)
ByteOf(n, k) ==
  LET power == << 1, HeaderBase, HeaderBase * HeaderBase, HeaderBase * HeaderBase * HeaderBase >>
  IN (n \div power[k + 1]) % HeaderBase

(* _WriteHeaderSize: a byte 0xff for each upper byte that is 0xff, and the lowest byte. *)
Laced(n) ==
  LET upper(k) == IF ByteOf(n, k) = Top THEN << Top >> ELSE << >>
  IN upper(3) \o upper(2) \o upper(1) \o << ByteOf(n, 0) >>

Repeat(b, n) == [i \in 1 .. n |-> b]

(* ProcessHeader: the type, two sizes and the headers, padded to the size of the input. *)
ProcessHeaderSwapped(s, b) == (* mutant *)
  LET front == << 2 >> \o Laced(s[2]) \o Laced(s[1])
      total == s[1] + s[2] + s[3]
  IN front \o Repeat(b, total) \o Repeat(0, InfoSize - Len(front))

ProcessHeader(s, b) ==
  LET front == << 2 >> \o Laced(s[1]) \o Laced(s[2])
      total == s[1] + s[2] + s[3]
  IN front \o Repeat(b, total) \o Repeat(0, InfoSize - Len(front))

NewHeader ==
  /\ out = << >>
  /\ \E s1, s2, s3 \in HeaderSizes, b \in 0 .. Top :
       /\ sizes' = << s1, s2, s3 >>
       /\ fill' = b
       /\ out' = ProcessHeader(sizes', b)

(* The header goes with the codec parameters it was made for. *)
FreeHeader == out # << >> /\ sizes' = << >> /\ fill' = 0 /\ out' = << >>

HeaderNext == NewHeader \/ FreeHeader

-----------------------------------------------------------------------------
(* avpriv_split_xiph_headers: one size, a byte less than 0xff after any number of 0xff. *)
Unlaced(x, pos, overall) ==
  LET ends(k) == overall + k * HeaderBase >= Len(x) \/ x[pos + k] # Top
      tops    == CHOOSE k \in 0 .. Len(x) : ends(k) /\ \A j \in 0 .. k - 1 : ~ends(j)
      last    == x[pos + tops]
  IN [size |-> tops * Top + last, pos |-> pos + tops + 1,
      overall |-> overall + tops * HeaderBase + last]

(* Where the headers begin and the sizes of the first two, or << >> for an error. *)
SplitHeaders(x) ==
  LET first  == Unlaced(x, 2, 3)
      second == Unlaced(x, first.pos, first.overall)
  IN IF Len(x) < 3 \/ x[1] # 2 \/ first.overall > Len(x) \/ second.overall > Len(x) THEN << >>
     ELSE << second.pos, first.size, second.size >>

(***************************************************************************)
(* "outputting a Vorbis format header for FFmpeg": libavcodec finds in the *)
(* rewritten header the headers that were put in, the first two with their *)
(* sizes, the third with the padding at its end (ProcessHeader).           *)
(***************************************************************************)
HeadersFound ==
  out # << >> =>
    LET start == 2 + Len(Laced(sizes[1])) + Len(Laced(sizes[2]))
        total == sizes[1] + sizes[2] + sizes[3]
    IN /\ SplitHeaders(out) = << start, sizes[1], sizes[2] >>
       /\ \A i \in start .. start + total - 1 : out[i] = fill

(***************************************************************************)
(* What the code does of that: the headers are found whenever the first    *)
(* two are smaller than 0xff, however large the third, and never when one  *)
(* of the two is not, whatever its bytes are (_WriteHeaderSize).           *)
(***************************************************************************)
OnlyShortHeadersFound ==
  out # << >> => (HeadersFound <=> sizes[1] < Top /\ sizes[2] < Top)
=============================================================================
