CONSTANTS
  Lag = 0
  MaxFrames = 1
  MaxPackets = 2
  Sizes = {1, 2}
  MayFail <- NoFailures
SPECIFICATION Spec
INVARIANT TypesAreCurrent
CHECK_DEADLOCK FALSE
