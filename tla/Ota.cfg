CONSTANTS
  Size = 3
  ChunkSize = 2
  QueueDepth = 4
  MaxRequests = 3
  MaxForced = 2
  MaxBoots = 1
SPECIFICATION FairSpec
INVARIANTS
  TypeOK
  ImageIsWhole
  VerdictIsRecent
PROPERTIES
  ForcedCycleRuns
  SessionEnds
CHECK_DEADLOCK FALSE
