CONSTANTS
  Capacity = 3
  MaxFile = 2
  MaxBatch = 2
  Type39 = {4}
  LiveFirst = FALSE
  IOFaults <- WriteFaults
  MaxRows = 7
  MaxBoots = 0
SPECIFICATION Spec
INVARIANT IndexInv
INVARIANT HoldsTheNewest
INVARIANT NothingLost
INVARIANT BatchIsNext
PROPERTY IsStoreAndForward
CHECK_DEADLOCK FALSE
