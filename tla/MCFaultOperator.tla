-------------------------- MODULE MCFaultOperator --------------------------
EXTENDS FaultOperator, TLC

\* Replicas, nodes and events are interchangeable; no liveness under symmetry.
Symmetry ==
  Permutations(Operator) \cup Permutations(Node) \cup Permutations(Event)

\* Bound: one of the two mishaps, or two leaders for a time, in a behaviour.
OneMishap == crashes + faults <= 1
=============================================================================
