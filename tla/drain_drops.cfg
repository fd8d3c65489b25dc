CONSTANTS
  Lag = 1
  MaxFrames = 1
  MaxPackets = 2
  Sizes = {1, 2}
  MayFail <- NoFailures
SPECIFICATION Spec
PROPERTY DrainKeepsFrames
CHECK_DEADLOCK FALSE
