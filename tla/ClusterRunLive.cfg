SPECIFICATION FairSpec
CONSTANTS
  NG = 1
  NS = 3
  Concurrency = 1
  MaxFault = 3
INVARIANTS OneTenant
PROPERTIES RunEnds
CHECK_DEADLOCK FALSE
