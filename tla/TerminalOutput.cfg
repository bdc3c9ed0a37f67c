CONSTANTS
  BatchMax = 2
  ChunkMax = 2
  MaxInFlight = 2
  QueueCapacity = 1
  MaxOutput = 8
SPECIFICATION FairOutputSpec
INVARIANTS
  SequencesAgree
  WindowIsBounded
  OutputInOrder
  FullWindowOpens
PROPERTIES
  OutputIsShown
CHECK_DEADLOCK FALSE
