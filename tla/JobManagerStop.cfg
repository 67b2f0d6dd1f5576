SPECIFICATION Spec
CONSTANTS
  MaxRun = 2
  MaxBus = 2
  MaxMishap = 0
  Published = {"LOG_RUNNING", "LOG_EXIT", "LOG_HANG", "LOG_INF", "NODE_ABNORMAL", "JOB_RELEASE"}
INVARIANTS StopStopsAll
