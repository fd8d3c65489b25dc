SPECIFICATION SourceSpec
CONSTANTS
  audio = audio
  video = video
  NoStream = NoStream
  NoPts = NoPts
  Streams <- AudioAndVideo
  Unused = {}
  Gathering <- AudioOnly
  Outcomes <- AllOutcomes
  FileLength = 4
  Pts <- Times
  MaxSkips = 1
  MinPackets = 2
  ReadErrors = FALSE
  Overlap = FALSE
PROPERTIES EndsForAReason SamplesInOrder
