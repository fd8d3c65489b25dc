\* The codecs that ship: no reordering, at most one frame for a packet.
CONSTANTS
  Lag = 0
  MaxFrames = 1
  MaxPackets = 3
  Sizes = {1, 2}
  MayFail <- NoFailures
SPECIFICATION Spec
INVARIANTS TypeOK InOrder SampleStamps DecoderAlwaysReady ContextMatchesTypes BuffersFit SuggestedFree
PROPERTIES FramesDroppedOnlyByFlush
\* The process may crash (README, findings) and is then gone.
CHECK_DEADLOCK FALSE
