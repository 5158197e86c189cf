CONSTANTS
  NumModules = 3
  RamOnly <- TcpModule
  Retries = 3
  Faults <- AllFaults
  MaxSets = 2
  MaxBoots = 2
SPECIFICATION ConfigSpec
INVARIANTS
  ConfigTypeOK
  ReportedIsKept
  StableBoots
CHECK_DEADLOCK FALSE
