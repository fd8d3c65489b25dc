\* Any codec of FFmpegCodecs.xml: reordering, several frames for a packet, failures.
CONSTANTS
  Lag = 1
  MaxFrames = 2
  MaxPackets = 2
  Sizes = {1, 2}
  MayFail <- CodecTrouble
SPECIFICATION Spec
INVARIANTS InOrder ContextMatchesTypes BuffersFit
PROPERTIES KeepsPromise
\* The process may crash (README, findings) and is then gone.
CHECK_DEADLOCK FALSE
