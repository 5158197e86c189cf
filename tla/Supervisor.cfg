CONSTANTS
  NumTasks = 2
  High <- CommandTask
  Timeout = 2
  Rounds = 2
  Wrap = 8
  MaxBoots = 2
SPECIFICATION FairSpec
INVARIANTS
  TypeOK
  StallHasCause
PROPERTIES
  ResetIsAsked
  StallResets
CHECK_DEADLOCK FALSE
