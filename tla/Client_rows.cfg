CONSTANTS
  SndBuf = 2
  FrameBytes = 1
  MaxBatch = 2
  FrameRows = 1
  SOCKET_POLL_MAX = 2
  MaxLag = 1
SPECIFICATION Spec
INVARIANT PoppedRowsDelivered
