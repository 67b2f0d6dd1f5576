SPECIFICATION Spec
CONSTANTS
  MaxProc = 5
  MaxRound = 2
  Stopper = {s1}
INVARIANTS StoppedMeansGone NothingStartedStops
CHECK_DEADLOCK FALSE
