CONSTANTS
  Capacity = 2
  MaxFile = 2
  MaxBatch = 1
  Type39 = {3}
  LiveFirst = TRUE
  IOFaults <- WriteFaults
  MaxRows = 4
  MaxBoots = 1
SPECIFICATION Spec
PROPERTY RebootKeepsRows
PROPERTY IsStoreAndForward
CHECK_DEADLOCK FALSE
