CONSTANTS
  Lag = 0
  MaxFrames = 2
  MaxPackets = 3
  Sizes = {1, 2}
  MayFail <- NoFailures
SPECIFICATION Spec
INVARIANT PacketAlwaysTaken
CHECK_DEADLOCK FALSE
