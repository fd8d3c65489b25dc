SPECIFICATION ConversionSpec
CONSTANTS
  Lag = 1
  MaxFrames = 1
  MaxPackets = 4
  SampleSizes <- SomeSizes
  Stamped <- AllStamped
  RunsOut <- NeverOut
  Base = 3
  Packets <- AllPackets
  KeyFrames <- SomeKeyFrames
  ExtraData <- AllExtraData
  HeaderBase = 5
  HeaderSizes <- AnySizes
  InfoSize = 24
INVARIANTS TypeOK PacketIsSample EachByteOnce WholePacketsAccepted ParameterSetsExact OnlyShortHeadersFound
PROPERTIES OverwrittenOnlyWhenFree EveryPacketEnds
