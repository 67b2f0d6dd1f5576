SPECIFICATION Spec
CONSTANTS
  NG = 2
  NS = 1
  Concurrency = 2
  MaxFault = 1
INVARIANTS EvidenceKept NoSilentFailure
PROPERTIES LedgerKept
CHECK_DEADLOCK FALSE
