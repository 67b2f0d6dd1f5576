---------------------------- MODULE FaultLedger ----------------------------
(***************************************************************************)
(* What the Kubernetes fault operator promises of a FaultEvent, whatever   *)
(* the number of its replicas and whenever they die: an event that is      *)
(* marked processed was worked on, or another event of at least its        *)
(* weight was; and an event that is marked stays marked.                   *)
(***************************************************************************)
EXTENDS Naturals

CONSTANTS Event, Weight

VARIABLES
  raised,   \* events that exist, each with its weight; 0 for none yet
  worked,   \* events whose actions were carried out or tried
  closed    \* events marked processed

vars == <<raised, worked, closed>>

Exists(e) == raised[e] > 0

Init ==
  /\ raised = [e \in Event |-> 0]
  /\ worked = {}
  /\ closed = {}

Raise(e) ==
  /\ ~Exists(e)
  /\ \E w \in Weight : raised' = [raised EXCEPT ![e] = w]
  /\ UNCHANGED <<worked, closed>>

Work(e) ==
  /\ Exists(e)
  /\ worked' = worked \cup {e}
  /\ UNCHANGED <<raised, closed>>

\* An event is closed for its own sake, or because of another that outweighs it.
Close(e) ==
  /\ Exists(e)
  /\ \E f \in worked : f = e \/ raised[f] >= raised[e]
  /\ closed' = closed \cup {e}
  /\ UNCHANGED <<raised, worked>>

Next == \E e \in Event : Raise(e) \/ Work(e) \/ Close(e)

Spec == Init /\ [][Next]_vars
=============================================================================
