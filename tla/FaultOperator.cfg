SPECIFICATION Spec
CONSTANTS
  Operator = {o1, o2}
  Node = {n1}
  Event = {e1, e2}
  None = None
  Workload = {""}
  Evidence = {"root", "plain", "nhc"}
  MaxTask = 2
  MaxCrash = 1
  MaxFault = 1
INVARIANTS DoneMeansIsolated
PROPERTIES LedgerKept
CHECK_DEADLOCK FALSE
SYMMETRY Symmetry
CONSTRAINT OneMishap
