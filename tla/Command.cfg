CONSTANTS
  Capacity = 2
  MaxPieces = 4
  MaxSessions = 2
  ShortPieces <- Shorts
  StmPieces <- Stms
  SendQueueFails = TRUE
SPECIFICATION FairSpec
INVARIANT TypeOK
INVARIANT AcceptedInOrder
PROPERTY EveryPieceSettled
