\* A client of the shipped codecs that follows the protocol, to the end of its stream.
CONSTANTS
  Lag = 0
  MaxFrames = 1
  MaxPackets = 3
  Sizes = {1, 2}
  MayFail <- NoFailures
  MaxSeeks = 2
  MaxChanges = 1
SPECIFICATION ClientSpec
INVARIANTS NothingLost Served
PROPERTIES EveryStreamEnds
