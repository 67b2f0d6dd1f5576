----------------------------- MODULE ResourceProxy -----------------------------
(***************************************************************************)
(* How nodes are obtained: NodePoolProxy.apply_node_num_resources, called  *)
(* by the manager thread, the queue check and the recovery round of the    *)
(* NHC monitor thread, and the Slurm job both of them may submit again.    *)
(*                                                                         *)
(* One re-entrant lock covers a round of the manager's loop and a round of *)
(* the monitor, so each is one action.  Only _resubmit_job is longer: it   *)
(* keeps the lock while it submits and waits for the nodes, and gives it   *)
(* up while it sleeps between two attempts; then the other thread may do   *)
(* the same.  What a node probe, a queue query or the blacklist answers is *)
(* a choice; "calm" is the moment from which they only answer well.        *)
(***************************************************************************)
EXTENDS PoolOps

CONSTANT Required        \* required_nodes_num of the job

ASSUME RequiredPositive == Required \in Nat \ {0}

VARIABLES scheduler,  \* CLUSTER_SCHEDULE
          pool,       \* the lists of NodePool
          hostfile,   \* slurm_mgr.hostfile
          job,        \* the Slurm job that current_job_id names
          grant,      \* its nodes, once it runs
          pc,         \* where each thread is
          needApply,  \* the locals need_apply and actual_required_num
          actual,
          slots,      \* the nodes of the training, as returned to the manager
          alarm,      \* a job_release event waits for the manager
          calm

request == <<needApply, actual>>
vars == <<scheduler, pool, hostfile, job, grant, pc, request, slots, alarm, calm>>

Thread == {"mgr", "nhc"}

\* "ask" is between two rounds of the request, "watch" between two rounds of the
\* monitor; "submit", "wait" and "nap" are the stages of _resubmit_job.
Place == [mgr : {"ask", "submit", "wait", "nap", "served", "stopping", "refused"},
          nhc : {"watch", "submit", "wait", "nap"}]

\* A job is always granted as many nodes as its script asks for.
Grant == {G \in SUBSET Node : Cardinality(G) >= Required}

TypeOK ==
  /\ scheduler \in {"SLURM", "NONE"}
  /\ pool \in Pool
  /\ hostfile \in Grant
  /\ job \in {"absent", "pending", "running"}
  /\ grant \in SUBSET Node
  /\ pc \in Place
  /\ needApply \in BOOLEAN
  /\ actual \in 0..Required
  /\ slots \in SUBSET Node
  /\ alarm \in BOOLEAN /\ calm \in BOOLEAN

Init ==
  /\ scheduler \in {"SLURM", "NONE"}
  /\ hostfile \in Grant
  /\ pool = FreshPool(hostfile, {})
  /\ job = IF scheduler = "SLURM" THEN "running" ELSE "absent"
  /\ grant = IF scheduler = "SLURM" THEN hostfile ELSE {}
  /\ pc = [mgr |-> "ask", nhc |-> "watch"]
  /\ needApply = TRUE /\ actual = Required
  /\ slots = {}
  /\ alarm = FALSE /\ calm = FALSE

\* The lock is free: nobody is inside _resubmit_job but for its sleep.
LockFree == \A t \in Thread : pc[t] \notin {"submit", "wait"}

-----------------------------------------------------------------------------
(* What the commands answer.                                               *)

\* get_job_node_count: a job without nodes counts as absent.
NodeCount == IF job = "running" THEN Cardinality(grant) ELSE 0

\* -1 when the query or the expansion of its answer fails.
QueueAnswers == IF calm THEN {NodeCount} ELSE {NodeCount, -1}

\* The nodes of S that do not pass run_nhc.
Failing(S) == IF calm THEN {{}} ELSE SUBSET S

\* The answers of the blacklist: which nodes are not to be used.
Grades == {[n \in Node |-> IF n \in fatal THEN "fatal" ELSE "clean"] :
             fatal \in IF calm THEN {{}} ELSE SUBSET Node}

-----------------------------------------------------------------------------
(***************************************************************************)
(* A round of the request.  NodePool allocates all it is asked for or      *)
(* nothing; a round that does not apply looks at the running list.         *)
(***************************************************************************)
\* Variant: what is there is allocated.
Bug_PartialApply ==
  IF needApply
  THEN {<<WithRunning(pool, S), S>> : S \in {T \in SUBSET pool.backup : Cardinality(T) <= actual}}
  ELSE {<<pool, pool.running>>}

\* The lists after the attempt, and raw_nodes.
Attempts ==
  IF ~ needApply THEN {<<pool, pool.running>>}
  ELSE UNION {LET choice == Allocations(pool, grade, actual)
              IN  IF choice = {} THEN {<<pool, {}>>}
                  ELSE {<<WithRunning(pool, S), pool.running \cup S>> : S \in choice} :
              grade \in Grades}

Enough(a) == Cardinality(a[2]) >= actual

Round ==
  /\ pc["mgr"] = "ask" /\ LockFree
  /\ UNCHANGED <<scheduler, hostfile, job, grant, calm, alarm>>

To(t, place) == pc' = [pc EXCEPT ![t] = place]

\* Bare metal with too few nodes: (None, None).
Refuse ==
  /\ Round /\ scheduler = "NONE"
  /\ \E a \in Attempts : ~ Enough(a)
  /\ To("mgr", "refused")
  /\ UNCHANGED <<pool, request, slots>>

QueryFails ==
  /\ Round /\ scheduler = "SLURM"
  /\ \E a \in Attempts : ~ Enough(a)
  /\ -1 \in QueueAnswers
  /\ needApply' = FALSE
  /\ UNCHANGED <<pool, pc, actual, slots>>

QueueGone ==
  /\ Round /\ scheduler = "SLURM"
  /\ \E a \in Attempts : ~ Enough(a)
  /\ NodeCount = 0
  /\ pool' = Released(pool)
  /\ actual' = Required
  /\ To("mgr", "submit")
  /\ UNCHANGED <<needApply, slots>>

\* The new nodes of additional_nodes.txt that pass the probe; none once calm.
Additional(p) == IF calm THEN {{}} ELSE SUBSET (Node \ p.total)

\* The isolated nodes in S are normal again; without one nothing is touched.
Healed(p, S) == IF S = {} THEN p ELSE WithNormal(p, S)

\* Variant: isolated nodes are left to the monitor.
Bug_NoRecovery ==
  /\ Round /\ scheduler = "SLURM"
  /\ NodeCount > 0
  /\ \E a \in Attempts, S \in Additional(pool) :
       /\ ~ Enough(a)
       /\ actual' = actual - Cardinality(a[2])
       /\ pool' = WithTotal(pool, S)
  /\ UNCHANGED <<pc, needApply, slots>>

\* The job has nodes: take additional ones and, if they do not make up for what
\* is missing and the queue should have enough, those isolated nodes that pass.
Replenish ==
  /\ Round /\ scheduler = "SLURM"
  /\ NodeCount > 0
  /\ \E a \in Attempts, S \in Additional(pool) :
       LET deficit == actual - Cardinality(a[2])
           wider   == WithTotal(pool, S)
       IN  /\ ~ Enough(a)
           /\ actual' = deficit
           /\ IF NodeCount < actual \/ Cardinality(S) >= deficit
              THEN pool' = wider
              ELSE \E bad \in Failing(wider.abnormal) :
                     pool' = Healed(wider, wider.abnormal \ bad)
  /\ UNCHANGED <<pc, needApply, slots>>

\* clush failed: nothing is known about the nodes just taken.
ProbeFails ==
  /\ Round /\ ~ calm
  /\ \E a \in Attempts : Enough(a) /\ pool' = a[1]
  /\ needApply' = FALSE
  /\ UNCHANGED <<pc, actual, slots>>

\* Variant: the others stay in the running list.
Bug_IsolatesInPlace ==
  /\ Round
  /\ \E a \in Attempts : \E bad \in Failing(a[1].running) \ {{}} :
       Enough(a) /\ pool' = [a[1] EXCEPT !.abnormal = @ \cup bad]
  /\ needApply' = FALSE
  /\ UNCHANGED <<actual, pc, slots>>

\* Isolating one of them empties the running list, and all are asked for again.
ProbeFindsBad ==
  /\ Round
  /\ \E a \in Attempts : \E bad \in Failing(a[1].running) \ {{}} :
       Enough(a) /\ pool' = WithAbnormal(a[1], bad)
  /\ needApply' = TRUE /\ actual' = Required
  /\ UNCHANGED <<pc, slots>>

Serve ==
  /\ Round
  /\ \E a \in Attempts : Enough(a) /\ pool' = a[1]
  /\ slots' = pool'.running
  /\ To("mgr", "served")
  /\ UNCHANGED request

Ask == \/ Refuse \/ QueryFails \/ QueueGone \/ Replenish
       \/ ProbeFails \/ ProbeFindsBad \/ Serve

-----------------------------------------------------------------------------
(* _resubmit_job, called by either thread with the lock held.              *)

Home(t) == IF t = "mgr" THEN "ask" ELSE "watch"

Sbatch(t) ==
  /\ pc[t] = "submit"
  /\ job' = "pending" /\ grant' = {}
  /\ To(t, "wait")
  /\ UNCHANGED <<scheduler, pool, hostfile, request, slots, alarm, calm>>

SbatchFails(t) ==
  /\ pc[t] = "submit" /\ ~ calm
  /\ To(t, "nap")
  /\ UNCHANGED <<scheduler, pool, hostfile, job, grant, request, slots, alarm, calm>>

GotNodes(t) ==
  /\ pc[t] = "wait" /\ job = "running"
  /\ hostfile' = grant
  /\ pool' = FreshPool(grant, {})
  /\ To(t, Home(t))
  /\ UNCHANGED <<scheduler, job, grant, request, slots, alarm, calm>>

\* No nodes within 300 seconds, or the hostfile could not be written.
WaitFails(t) ==
  /\ pc[t] = "wait" /\ (job = "absent" \/ ~ calm)
  /\ To(t, "nap")
  /\ UNCHANGED <<scheduler, pool, hostfile, job, grant, request, slots, alarm, calm>>

\* After the sleep: the job is there with nodes (this thread's, late, or the other
\* one's) and the pool is reset to the hostfile, or it is submitted again.
Recheck(t) ==
  /\ pc[t] = "nap" /\ LockFree
  /\ \/ /\ NodeCount > 0
        /\ pool' = FreshPool(hostfile, {})
        /\ To(t, Home(t))
     \/ /\ \E count \in QueueAnswers : count <= 0
        /\ To(t, "submit")
        /\ UNCHANGED pool
  /\ UNCHANGED <<scheduler, hostfile, job, grant, request, slots, alarm, calm>>

Resubmit(t) == Sbatch(t) \/ SbatchFails(t) \/ GotNodes(t) \/ WaitFails(t) \/ Recheck(t)

-----------------------------------------------------------------------------
(* The monitor's rounds that change the pool.                              *)

QueueCheck ==
  /\ pc["nhc"] = "watch" /\ LockFree /\ scheduler = "SLURM"
  /\ NodeCount = 0
  /\ alarm' = TRUE
  /\ To("nhc", "submit")
  /\ UNCHANGED <<scheduler, pool, hostfile, job, grant, request, slots, calm>>

\* Isolated nodes that pass the probe, when there are at least as many of them as
\* there are backup nodes; and additional nodes.
Recovery ==
  /\ pc["nhc"] = "watch" /\ LockFree
  /\ \/ /\ pool.abnormal # {}
        /\ pool.backup = {} \/ Cardinality(pool.abnormal) >= Cardinality(pool.backup)
        /\ \E bad \in Failing(pool.abnormal) : pool' = Healed(pool, pool.abnormal \ bad)
     \/ \E S \in Additional(pool) : pool' = WithTotal(pool, S)
  /\ UNCHANGED <<scheduler, hostfile, job, grant, pc, request, slots, alarm, calm>>

-----------------------------------------------------------------------------
(* The manager while it has nodes.                                         *)

\* A fault, located (the nodes are isolated) or not, or a job_release event.
Recover ==
  /\ pc["mgr"] = "served" /\ LockFree
  /\ \/ \E bad \in (SUBSET (pool.total \ pool.abnormal)) \ {{}} : pool' = WithAbnormal(pool, bad)
     \/ UNCHANGED pool
  /\ alarm' = FALSE
  /\ To("mgr", "stopping")
  /\ UNCHANGED <<scheduler, hostfile, job, grant, request, slots, calm>>

\* Variant: the next request adds to this one.
Bug_AddsRequest ==
  /\ pc["mgr"] \in {"served", "stopping"} /\ LockFree
  /\ pool' = Released(pool)
  /\ slots' = {}
  /\ needApply' = TRUE /\ actual' = actual + Required
  /\ To("mgr", "ask")
  /\ UNCHANGED <<scheduler, hostfile, job, grant, alarm, calm>>

\* After the stop, or a launch that failed: release the nodes, ask again.
GiveBack ==
  /\ pc["mgr"] \in {"served", "stopping"} /\ LockFree
  /\ pool' = Released(pool)
  /\ slots' = {}
  /\ needApply' = TRUE /\ actual' = Required
  /\ To("mgr", "ask")
  /\ UNCHANGED <<scheduler, hostfile, job, grant, alarm, calm>>

-----------------------------------------------------------------------------
(* The world.                                                              *)

JobStarts ==
  /\ job = "pending"
  /\ job' = "running" /\ grant' \in Grant
  /\ UNCHANGED <<scheduler, pool, hostfile, pc, request, slots, alarm, calm>>

JobEnds ==
  /\ job # "absent" /\ ~ calm
  /\ job' = "absent" /\ grant' = {}
  /\ UNCHANGED <<scheduler, pool, hostfile, pc, request, slots, alarm, calm>>

Calm ==
  /\ ~ calm /\ calm' = TRUE
  /\ UNCHANGED <<scheduler, pool, hostfile, job, grant, pc, request, slots, alarm>>

Next ==
  \/ Ask
  \/ \E t \in Thread : Resubmit(t)
  \/ QueueCheck \/ Recovery
  \/ Recover \/ GiveBack
  \/ JobStarts \/ JobEnds \/ Calm

Spec == Init /\ [][Next]_vars

\* The threads run, Slurm starts what is submitted, and some day all is well.
Fairness ==
  /\ WF_vars(Calm) /\ WF_vars(JobStarts)
  /\ WF_vars(Ask)
  /\ \A t \in Thread : WF_vars(Resubmit(t))

FairSpec == Spec /\ Fairness

-----------------------------------------------------------------------------
(***************************************************************************)
(* The training gets as many nodes as the job needs, whatever deficits the *)
(* rounds before computed: actual_required_num never shrinks, because the  *)
(* pool allocates everything or nothing and is emptied by every fault.     *)
(***************************************************************************)
FullRequest ==
  /\ actual = Required
  /\ pc["mgr"] \in {"served", "stopping"} => Cardinality(slots) = Required

\* A node that is served was running in the pool and is not isolated, in the very
\* step that returns the slots.
ServedFromPool ==
  [][pc["mgr"] # "served" /\ pc'["mgr"] = "served"
       => slots' = pool'.running /\ slots' \cap pool'.abnormal = {}]_vars

Waiting == pc["mgr"] \in {"ask", "submit", "wait", "nap"}
\* need_apply is off and nothing is allocated: no later round changes that.
Stuck == scheduler = "SLURM" /\ Waiting /\ ~ needApply /\ pool.running = {}
Answered == pc["mgr"] \in {"served", "refused"}

\* Once all is well a request is answered, unless a failed query, or a reset of
\* the pool by the monitor, turned the loop into one that only looks.
RequestEnds == Waiting ~> (Answered \/ Stuck)

\* "skip allocation decision and retry next round" (the warning for a failed
\* query): the next round decides again.  Not so: Stuck (README, section 7).
RetryDecides == Waiting ~> Answered
=============================================================================
