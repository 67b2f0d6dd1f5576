SPECIFICATION FairSpec
CONSTANTS
  MaxRun = 3
  MaxBus = 1
  MaxMishap = 2
  Published = {"LOG_RUNNING", "LOG_EXIT", "LOG_HANG", "LOG_INF", "NODE_ABNORMAL", "JOB_RELEASE"}
INVARIANTS TypeOK OneInHand FileKnowsTraining
PROPERTIES RestartRecovers CycleSpec FailureIsReplaced
