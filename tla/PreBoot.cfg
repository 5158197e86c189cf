CONSTANTS
  Faults <- AllFaults
  MaxBoots = 3
  MaxSaves = 2
SPECIFICATION Spec
INVARIANTS
  PlannedIsReported
  ReportIsNew
  TotalCountsSaves
  CacheIsDisk
CHECK_DEADLOCK FALSE
