SPECIFICATION ReplicasFairSpec
CONSTANTS
  Operator = {o1, o2}
  Node = {n1}
  Event = {e1}
  None = None
  Workload = {"volcanojob"}
  Evidence = {"root", "nhc"}
  MaxTask = 2
  MaxCrash = 1
  MaxFault = 1
PROPERTIES EventHandled
CHECK_DEADLOCK FALSE
