CONSTANTS
  SndBuf = 2
  FrameBytes = 2
  MaxBatch = 1
  FrameRows = 1
  SOCKET_POLL_MAX = 2
  MaxLag = 1
SPECIFICATION FairSpec
INVARIANT TypeOK
INVARIANT PopOnlyAcked
INVARIANT OneFrameInFlight
INVARIANT DrainIsAcknowledged
INVARIANT AnnouncedWhileOpen
PROPERTY KeepsTrying
