CONSTANTS
  Lag = 0
  MaxFrames = 1
  MaxPackets = 2
  Sizes = {1, 2}
  MayFail <- NoFailures
SPECIFICATION Spec
PROPERTY FlushEndsDrain
CHECK_DEADLOCK FALSE
