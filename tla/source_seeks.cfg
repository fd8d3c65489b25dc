SPECIFICATION FairSource
CONSTANTS
  audio = audio
  video = video
  NoStream = NoStream
  NoPts = NoPts
  Streams <- AudioAndVideo
  Unused = {}
  Gathering <- AudioOnly
  Outcomes <- WritableOutcomes
  FileLength = 4
  Pts <- Times
  MaxSkips = 1
  MinPackets = 2
  ReadErrors = FALSE
  Overlap = TRUE
INVARIANTS TypeOK QueueComplete OneQueueGrows TimesFromStart
PROPERTY EveryRequestAnswered
