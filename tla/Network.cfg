CONSTANTS
  StateTimeout <- Short
  OverallTimeout = 2
  SIM_DETECT_DEBOUNCE_MATCHES = 2
  UrcCapacity = 1
  ModemFaults <- ModemCalls
SPECIFICATION Spec
INVARIANT CfunCycleKept
INVARIANT BringUpIsDown
INVARIANT NoFakeRemoval
