CONSTANTS
  DebouncePolls = 3
  StopDebounce = 2
  MotionIsIgnition = TRUE
SPECIFICATION FairSpec
INVARIANTS
  TypeOK
PROPERTIES
  SteadyState
  StateReported
