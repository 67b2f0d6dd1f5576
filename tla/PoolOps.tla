------------------------------- MODULE PoolOps -------------------------------
(***************************************************************************)
(* What each operation of NodePool (node_management/node_pool.py) does to  *)
(* the five node lists and to _last_running_nodes, as operators on a       *)
(* record of sets.  The lists of the program hold no duplicates and, but   *)
(* for _running_nodes, are sorted by name; a choice the code makes by that *)
(* order ("the first k backup nodes") is a choice of any k nodes here.     *)
(* Modules that need the order of _running_nodes keep it themselves.       *)
(***************************************************************************)
EXTENDS Integers, FiniteSets

CONSTANT Node            \* the host names that can ever appear in a list

ASSUME NodeFinite == IsFiniteSet(Node)

Pool == [total : SUBSET Node, running : SUBSET Node, backup : SUBSET Node,
         abnormal : SUBSET Node, normal : SUBSET Node, last : SUBSET Node]

EmptyPool == [total |-> {}, running |-> {}, backup |-> {},
              abnormal |-> {}, normal |-> {}, last |-> {}]

(***************************************************************************)
(* The constraints _validate_and_fix_constraints asserts, and the clipping *)
(* of backup and abnormal it performs first.  running is not clipped, and  *)
(* the disjointness is asserted of the lists as they were before clipping. *)
(***************************************************************************)
Clipped(p) == [p EXCEPT !.backup = @ \cap p.total, !.abnormal = @ \cap p.total]

Validates(p) ==
  /\ p.running \cap p.abnormal = {}
  /\ p.backup \cap p.abnormal = {}
  /\ p.running \cap p.backup = {}
  /\ p.total \subseteq p.running \cup Clipped(p).backup \cup Clipped(p).abnormal

\* A cluster seen for the first time, or one whose lists are thrown away.
FreshPool(hosts, bad) ==
  [total |-> hosts, running |-> {}, backup |-> hosts \ bad,
   abnormal |-> bad, normal |-> hosts \ bad, last |-> {}]

WithTotal(p, S) ==
  [p EXCEPT !.total = @ \cup S, !.backup = @ \cup (S \ p.total)]

WithNormal(p, S) ==
  LET back == S \cap p.abnormal IN
  [p EXCEPT !.abnormal = @ \ back, !.backup = @ \cup back,
            !.normal = p.total \ (p.abnormal \ back)]

\* Variant: normal is not refreshed.
Bug_StaleNormal(p, S) ==
  LET running == IF S \cap p.running # {} THEN {} ELSE p.running
  IN  [p EXCEPT !.abnormal = @ \cup S, !.running = running,
                !.backup = p.total \ (p.abnormal \cup S \cup running)]

\* Variant: the other running nodes are left running.
Bug_KeepsSurvivors(p, S) ==
  LET normal == p.total \ (p.abnormal \cup S)
  IN  [p EXCEPT !.abnormal = @ \cup S, !.running = @ \ S, !.normal = normal,
                !.backup = normal \ p.running, !.last = p.running]

\* Isolating a running node empties the running list; its survivors go to
\* backup, and the list is remembered for the next allocation.
WithAbnormal(p, S) ==
  LET hit     == S \cap p.running # {}
      running == IF hit THEN {} ELSE p.running
      normal  == p.total \ (p.abnormal \cup S)
  IN  [p EXCEPT !.abnormal = @ \cup S, !.running = running, !.normal = normal,
                !.backup = normal \ running,
                !.last = IF hit THEN p.running ELSE @]

\* remove_abnormal_nodes neither refreshes normal nor persists.
WithoutAbnormal(p, S, target) ==
  LET back == S \cap p.abnormal IN
  IF target = "running"
  THEN [p EXCEPT !.abnormal = @ \ back, !.running = @ \cup back]
  ELSE [p EXCEPT !.abnormal = @ \ back, !.backup = @ \cup back]

\* Variant: the released nodes do not return to backup.
Bug_LosesReleased(p) == [p EXCEPT !.running = {}, !.last = p.running]

\* Variant: append for copy, the list becomes one element of last.
Bug_NestsLast(p) ==
  [p EXCEPT !.backup = @ \cup p.running, !.running = {}, !.last = {p.running}]

Released(p) ==
  [p EXCEPT !.backup = @ \cup p.running, !.running = {},
            !.last = IF p.running = {} THEN @ ELSE p.running]

-----------------------------------------------------------------------------
(***************************************************************************)
(* Allocation.  "grade" is what BlacklistManager.allocate_nodes answers    *)
(* for each node: "clean" (no record), "degraded" (a record, not fatal) or *)
(* "fatal" (never to be used).                                             *)
(***************************************************************************)
Grade == {"clean", "degraded", "fatal"}

Healthy(p, grade)  == {n \in p.backup : grade[n] = "clean"}
Degraded(p, grade) == {n \in p.backup : grade[n] = "degraded"}
Usable(p, grade)   == Healthy(p, grade) \cup Degraded(p, grade)

\* Variant: degraded nodes are as good as clean ones.
Bug_AnyUsable(h, d, k) == {S \in SUBSET (h \cup d) : Cardinality(S) = k}

\* k nodes of h and d, one of d only when all of h is taken.
HealthyFirst(h, d, k) ==
  {S \in SUBSET (h \cup d) : /\ Cardinality(S) = k
                             /\ S \cap d = {} \/ h \subseteq S}

\* Fresh mode: nothing to reuse, or a different number of nodes than before.
FreshChoice(p, grade, n) == HealthyFirst(Healthy(p, grade), Degraded(p, grade), n)

\* Recycle mode: the previous nodes again, replaced where they cannot be used.
\* When there are enough clean standby nodes, a degraded previous node is
\* replaced too; otherwise it is reused in place.
RecycleChoice(p, grade) ==
  LET H == Healthy(p, grade)
      D == Degraded(p, grade)
      kept == IF Cardinality(H \ p.last) >= Cardinality(p.last \ H)
              THEN p.last \cap H
              ELSE p.last \cap (H \cup D)
      spare == IF Cardinality(H \ p.last) >= Cardinality(p.last \ H)
               THEN {} ELSE D \ p.last
  IN  {kept \cup S : S \in HealthyFirst(H \ p.last, spare, Cardinality(p.last \ kept))}

\* The sets apply_node_num_resources(n) may move from backup to running;
\* empty when it returns (None, None).
Allocations(p, grade, n) ==
  IF n > Cardinality(Usable(p, grade)) THEN {}
  ELSE IF p.last # {} /\ n = Cardinality(p.last) THEN RecycleChoice(p, grade)
  ELSE FreshChoice(p, grade, n)

\* The sets apply_node_list_resources(T) may move: a target is taken where it
\* is usable and replaced, clean nodes first, where it is not.
ListAllocations(p, grade, T) ==
  LET use  == T \cap Usable(p, grade)
  IN  IF Cardinality(T) > Cardinality(Usable(p, grade)) THEN {}
      ELSE {use \cup S : S \in HealthyFirst(Healthy(p, grade) \ T, Degraded(p, grade) \ T,
                                            Cardinality(T \ use))}

WithRunning(p, S) == [p EXCEPT !.backup = @ \ S, !.running = @ \cup S]

\* Every node of total is in exactly one of the three lists.
IsPartition(p) ==
  /\ p.total = p.running \cup p.backup \cup p.abnormal
  /\ p.running \cap p.backup = {}
  /\ p.running \cap p.abnormal = {}
  /\ p.backup \cap p.abnormal = {}
=============================================================================
