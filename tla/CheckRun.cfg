SPECIFICATION FairSpec
CONSTANTS
  Nodes = {n1, n2}
  Operations = {"basic", "ib"}
  Policy <- MCPolicy
  Probes <- MCProbes
  Good = "good"
  Sound = {"good", "roce"}
  IbStats <- MCIbStats
  Averages <- MCAverages
  Minimum = {300}
  Inspections <- MCInspections
  Budget = 1
INVARIANTS ConfirmedMeansQuiet ExitIsHonest VerdictIsEarned
PROPERTIES RunEnds
CHECK_DEADLOCK FALSE
