SPECIFICATION FairSpec
CONSTANTS
  MaxFile = 2
  MaxLine = 2
  MaxCrash = 1
  Timer = {t1, t2}
  NoTimer = none
  StartupNoLog = 2
  NoUpdate = 1
  TwiceAverage = 2
  Horizon = 2
INVARIANTS Covered OwnFile NoLineSkipped OneHang StoppedIsSilent
PROPERTIES SilenceReported StoppedOnlyAtStart
