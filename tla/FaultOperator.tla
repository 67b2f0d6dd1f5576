--------------------------- MODULE FaultOperator ---------------------------
(***************************************************************************)
(* The Kubernetes side (hygon-ft-k8s): two or more replicas of the fault   *)
(* operator with their watch loops, aggregation groups and the threads     *)
(* that act on a FaultEvent, on the events that the launchers of one job   *)
(* and the health agents of the nodes report, beside a user who recovers   *)
(* nodes.  Pods are seen through the results of the calls that delete them.*)
(***************************************************************************)
EXTENDS Naturals, FiniteSets

CONSTANTS
  Operator,   \* replicas of the fault operator
  Node,
  Event,      \* names of FaultEvents
  None,
  Workload,   \* kinds of job an event may tell of: of {"pytorchjob", "volcanojob", ""}
  Evidence,   \* what the faults may be, a subset of AllEvidence
  MaxTask,    \* bound: threads that act on a FaultEvent at a time
  MaxCrash,   \* bound: deaths of an operator
  MaxFault    \* bound: calls that raise, leaders that stand down or meet another

AllEvidence == {"nhc", "nhcpods", "node", "value", "root", "comm", "plain", "bare"}

\* What an event says: the evidence, the node it blames, if it is of the job or of a node
Fault == [what : AllEvidence, node : Node \cup {None}, job : BOOLEAN]

ASSUME FaultAssumption ==
  /\ None \notin Node \cup Event \cup Fault
  /\ Workload \subseteq {"pytorchjob", "volcanojob", ""}
  /\ Evidence \subseteq AllEvidence
  /\ MaxTask \in Nat /\ MaxCrash \in Nat /\ MaxFault \in Nat

-----------------------------------------------------------------------------
(* What an event says: its class, and what its action and its type ask for. *)

ClassPriority == [explicit_node |-> 4, root_cause |-> 3, communication |-> 2, generic |-> 1]

FaultClass(what) ==
  CASE what \in {"nhc", "nhcpods", "node", "value"} -> "explicit_node"
    [] what = "root" -> "root_cause"
    [] what = "comm" -> "communication"
    [] what \in {"plain", "bare"} -> "generic"

Priority(what) == ClassPriority[FaultClass(what)]

\* action.taintNode, action.deletePod, action.deletePods, the types whose pods go after a taint
AsksTaint(what)  == what \in {"nhc", "nhcpods", "node", "value", "root"}
AsksPod(what)    == what = "bare"
AsksPods(what)   == what = "nhcpods"
FollowsTaint(what) == what \in {"nhc", "nhcpods", "node", "root"}
FromAgent(what)  == what \in {"nhc", "nhcpods"}

VARIABLES
  leader,    \* replicas that believe they lead
  pending,   \* the aggregation group of the job; its timer runs while it is not empty
  tasks,     \* FaultEvents in the hands of a thread
  ev,        \* the FaultEvents: what they say, or None
  outcome,   \* their status as the launcher reads it: "pending", or processed and "ready",
             \* "failed" (an action failed) or "suppressed" (closed under another event)
  job,       \* the kind of job its launchers tell, "" if they do not
  tainted,   \* nodes with the unhealthy taint
  crashes, faults,
  worked,    \* history: events whose actions were carried out or tried
  shielded,  \* history: events whose node had the taint since they exist
  pardoned   \* history: events whose node was recovered since they exist

electVars == <<leader, crashes, faults>>
nodeVars  == <<tainted, shielded, pardoned>>
eventVars == <<ev, outcome>>
vars == <<electVars, pending, tasks, eventVars, job, nodeVars, worked>>

Init ==
  /\ leader = [o \in Operator |-> FALSE]
  /\ pending = [o \in Operator |-> {}]
  /\ tasks = {}
  /\ ev = [e \in Event |-> None]
  /\ outcome = [e \in Event |-> "pending"]
  /\ job \in Workload
  /\ tainted = {}
  /\ crashes = 0 /\ faults = 0
  /\ worked = {} /\ shielded = {} /\ pardoned = {}

-----------------------------------------------------------------------------
(* Leadership, of which FaultReplicas has the detail: a replica that finds the  *)
(* lease free takes it, and may lose it, or hold it with another for a time. *)

TakesLead(o) ==
  /\ ~leader[o]
  /\ \/ (\A q \in Operator : ~leader[q]) /\ UNCHANGED faults
     \/ (\E q \in Operator : leader[q]) /\ faults < MaxFault /\ faults' = faults + 1
  /\ leader' = [leader EXCEPT ![o] = TRUE]
  /\ UNCHANGED <<crashes, pending, tasks, eventVars, job, nodeVars, worked>>

StandsDown(o) ==
  /\ leader[o]
  /\ \/ (\A q \in Operator \ {o} : ~leader[q]) /\ faults < MaxFault /\ faults' = faults + 1
     \/ (\E q \in Operator \ {o} : leader[q]) /\ UNCHANGED faults
  /\ leader' = [leader EXCEPT ![o] = FALSE]
  /\ UNCHANGED <<crashes, pending, tasks, eventVars, job, nodeVars, worked>>

\* A replica dies and its Deployment starts it again: what it had in memory is gone.
Crash(o) ==
  /\ crashes < MaxCrash
  /\ crashes' = crashes + 1
  /\ leader' = [leader EXCEPT ![o] = FALSE]
  /\ pending' = [pending EXCEPT ![o] = {}]
  /\ tasks' = {t \in tasks : t.op # o}
  /\ UNCHANGED <<faults, eventVars, job, nodeVars, worked>>

-----------------------------------------------------------------------------
(* The watch loop of a replica.                                             *)

Exists(e) == ev[e] # None
Processed(e) == outcome[e] # "pending"
\* The watch thread itself works on the events without a job; each group has a timer thread.
WatchBusy(o) == \E t \in tasks : t.op = o /\ ~ev[t.ev].job

\* Bug: the taint is taken for granted.
Bug_DeleteAlone(what, taint, delete) ==
  IF (AsksPod(what) \/ AsksPods(what)) /\ delete # "ok" THEN "failed" ELSE "ready"

\* fault_event_restart_readiness of the actions recorded: no action failed and those that
\* the event asks for are there.
Readiness(what, taint, delete) ==
  IF \/ "failed" \in {taint, delete}
     \/ AsksTaint(what) /\ taint # "ok"
     \/ (AsksPod(what) \/ AsksPods(what)) /\ delete # "ok"
  THEN "failed" ELSE "ready"

\* The first thing _process_fault does with an event: nothing if it blames neither node
\* nor pod, taint the node if that is asked, else delete pods.
FirstStep(e) ==
  IF ev[e].node = None /\ ~ev[e].job THEN "status"
  ELSE IF ev[e].node # None /\ AsksTaint(ev[e].what) THEN "taint" ELSE "delete"

StartTask(o, e, rest) ==
  /\ Cardinality(tasks) < MaxTask
  /\ tasks' = tasks \cup {[op |-> o, ev |-> e, step |-> FirstStep(e), rest |-> rest,
                          result |-> IF FirstStep(e) = "status" THEN Readiness(ev[e].what, "none", "none")
                                     ELSE "none"]}
  /\ worked' = IF FirstStep(e) = "status" THEN worked \cup {e} ELSE worked

\* The stream of a leader delivers events when they are created and changed, and all of them
\* when it starts again (every 300 seconds, after an error, by a new leader).  A delivery
\* may be late: the event was processed since.
Delivered(e) ==
  /\ Exists(e)
  /\ \/ ~Processed(e) /\ UNCHANGED faults
     \/ Processed(e) /\ faults < MaxFault /\ faults' = faults + 1

\* Bug: an event that was worked on is not taken again.
Bug_TakenOnce(o, e) ==
  /\ leader[o] /\ ~WatchBusy(o) /\ e \notin worked
  /\ Delivered(e)
  /\ \/ ~ev[e].job /\ StartTask(o, e, {}) /\ UNCHANGED pending
     \/ ev[e].job /\ pending' = [pending EXCEPT ![o] = @ \cup {e}] /\ UNCHANGED <<tasks, worked>>
  /\ UNCHANGED <<leader, crashes, eventVars, job, nodeVars>>

\* reconcile: an event without a job is processed at once by the watch thread;
\* the others wait in the group of their job for its timer.
Reconcile(o, e) ==
  /\ leader[o] /\ ~WatchBusy(o)
  /\ Delivered(e)
  /\ \/ /\ ~ev[e].job
        /\ StartTask(o, e, {})
        /\ UNCHANGED pending
     \/ /\ ev[e].job
        /\ pending' = [pending EXCEPT ![o] = @ \cup {e}]
        /\ UNCHANGED <<tasks, worked>>
  /\ UNCHANGED <<leader, crashes, eventVars, job, nodeVars>>

\* Bug: the lowest class wins.
Bug_LowestFirst(group) ==
  {e \in group : \A f \in group : Priority(ev[e].what) <= Priority(ev[f].what)}

\* Highest class first; among equals the earliest by the reporter's clock, which may be any.
RootFaults(group) == {e \in group : \A f \in group : Priority(ev[f].what) <= Priority(ev[e].what)}

\* The timer of a group fires; a replica that does not lead by then arms it again.
ResolveFaultGroup(o) ==
  /\ leader[o] /\ pending[o] # {}
  /\ pending' = [pending EXCEPT ![o] = {}]
  /\ \E winner \in RootFaults(pending[o]) : StartTask(o, winner, pending[o] \ {winner})
  /\ UNCHANGED <<electVars, eventVars, job, nodeVars>>

-----------------------------------------------------------------------------
(* _process_fault: taint, then delete, then write the status.               *)

Steps == {"taint", "delete", "status", "suppress"}
Results == {"none", "ok", "failed"}
TargetKinds == {"job", "pod", "jobs of node", "pods of node", "none"}

\* Task t becomes u; once only its status is left to write, its event was worked on.
Advance(t, u) ==
  /\ tasks' = (tasks \ {t}) \cup {u}
  /\ worked' = IF u.step = "status" THEN worked \cup {t.ev} ELSE worked

Blames(e, n) == Exists(e) /\ ev[e].node = n

TaintNode(t) ==
  /\ t.step = "taint"
  /\ LET n == ev[t.ev].node
     IN /\ tainted' = tainted \cup {n}
        /\ shielded' = shielded \cup {e \in Event : Blames(e, n)}
  /\ Advance(t, [t EXCEPT !.step = "delete", !.result = "ok"])
  /\ UNCHANGED <<electVars, pending, eventVars, job, pardoned>>

TaintFails(t) ==
  /\ t.step = "taint"
  /\ Advance(t, [t EXCEPT !.step = "delete", !.result = "failed"])
  /\ UNCHANGED <<electVars, pending, eventVars, job, nodeVars>>

KindTold(e) == IF ev[e].job /\ ev[e].what # "bare" THEN job ELSE ""

\* delete_after_taint of _process_fault
DeleteFollows(t) ==
  t.result = "ok" /\ FollowsTaint(ev[t.ev].what) /\ KindTold(t.ev) \in {"", "pytorchjob"}

\* should_restart_entire_job: the event tells, or the API is asked (a query that fails counts
\* as yes)
RestartEntireJob(e) ==
  CASE KindTold(e) = "pytorchjob" -> {TRUE}
    [] KindTold(e) = "volcanojob" -> {FALSE}
    [] OTHER -> BOOLEAN

\* Which pods of the job the operator deletes: all, the one named, those (or the jobs of
\* those) on the node, or none.  An event of the job names its pod.
Targets(t) ==
  LET e == t.ev
      what == ev[e].what
      follows == DeleteFollows(t)
  IN {IF follows /\ ev[e].job /\ whole THEN "job"
      ELSE IF ev[e].job /\ (AsksPod(what) \/ follows) THEN "pod"
      ELSE IF ev[e].node # None /\ follows THEN "jobs of node"
      ELSE IF ev[e].node # None /\ AsksPods(what) THEN "pods of node"
      ELSE "none" : whole \in RestartEntireJob(e)}

\* Lists the pods and deletes them one by one.  A list of the pods of a node that fails is
\* recorded as neither; without a target, a taint that failed counts as a failed delete.
DeletePods(t, target, result) ==
  /\ t.step = "delete" /\ target \in Targets(t)
  /\ CASE target = "none" -> result = IF t.result = "failed" THEN "failed" ELSE "none"
       [] target \in {"job", "pod"} -> result \in {"ok", "failed"}
       [] OTHER -> result \in Results
  /\ Advance(t, [t EXCEPT !.step = "status", !.result = Readiness(ev[t.ev].what, t.result, result)])
  /\ UNCHANGED <<electVars, pending, eventVars, job, nodeVars>>

Finish(t, rest) ==
  tasks' = IF rest = {} THEN tasks \ {t}
           ELSE (tasks \ {t}) \cup {[t EXCEPT !.step = "suppress", !.result = "none", !.rest = rest]}

\* patch_status of the event worked on. An ApiException is swallowed.
PatchStatus(t, written) ==
  /\ t.step = "status"
  /\ outcome' = IF written THEN [outcome EXCEPT ![t.ev] = t.result] ELSE outcome
  /\ Finish(t, t.rest)
  /\ UNCHANGED <<electVars, pending, ev, job, nodeVars, worked>>

\* The other events of the group are closed one by one.
Suppress(t, f, written) ==
  /\ t.step = "suppress" /\ f \in t.rest
  /\ outcome' = IF written THEN [outcome EXCEPT ![f] = "suppressed"] ELSE outcome
  /\ Finish(t, t.rest \ {f})
  /\ UNCHANGED <<electVars, pending, ev, job, nodeVars, worked>>

\* Another exception ends the thread and the group with it, or starts the stream again.
Raise(t) ==
  /\ t.step \in {"delete", "status", "suppress"} /\ faults < MaxFault
  /\ faults' = faults + 1
  /\ tasks' = tasks \ {t}
  /\ UNCHANGED <<leader, crashes, pending, eventVars, job, nodeVars, worked>>

-----------------------------------------------------------------------------
(* Faults come from launchers and agents; a user recovers nodes.            *)

Create(e, what, n, ofJob) ==
  /\ ~Exists(e)
  /\ ev' = [ev EXCEPT ![e] = [what |-> what, node |-> n, job |-> ofJob]]
  /\ shielded' = IF n \in tainted THEN shielded \cup {e} ELSE shielded
  /\ UNCHANGED <<electVars, pending, tasks, outcome, job, tainted, pardoned, worked>>

\* POST /report to any living replica.  The node is that of the pod, or of the pod the
\* report names, which may not be resolved.
ReportFault(e, what, n) ==
  /\ ~FromAgent(what) /\ (n = None => what = "root")
  /\ Create(e, what, n, TRUE)

\* The agent of a node reports a failed check, once in a suppression window; windows pass.
AgentReport(e, what, n) ==
  /\ FromAgent(what)
  /\ Create(e, what, n, FALSE)

\* check_taint_recovery: after rounds of checks that passed the owned taint is removed.
Recover(n) ==
  /\ n \in tainted /\ \A e \in pardoned : ~Blames(e, n)  \* bound: once for each node
  /\ tainted' = tainted \ {n}
  /\ pardoned' = pardoned \cup {e \in Event : Blames(e, n)}
  /\ UNCHANGED <<electVars, pending, tasks, eventVars, job, shielded, worked>>

-----------------------------------------------------------------------------

Replicas == \E o \in Operator : TakesLead(o) \/ StandsDown(o) \/ Crash(o)

Watch ==
  \E o \in Operator :
    \/ ResolveFaultGroup(o)
    \/ \E e \in Event : Reconcile(o, e)

Process ==
  \E t \in tasks :
    \/ TaintNode(t) \/ TaintFails(t) \/ Raise(t)
    \/ \E target \in TargetKinds, result \in Results : DeletePods(t, target, result)
    \/ \E written \in BOOLEAN :
         \/ PatchStatus(t, written)
         \/ \E f \in Event : Suppress(t, f, written)

Faults ==
  \E e \in Event, what \in Evidence :
    \/ \E n \in Node \cup {None} : ReportFault(e, what, n)
    \/ \E n \in Node : AgentReport(e, what, n)

Next == Replicas \/ Watch \/ Process \/ Faults \/ \E n \in Node : Recover(n)

Spec == Init /\ [][Next]_vars

-----------------------------------------------------------------------------
(* Properties.                                                              *)

TaskType ==
  [op : Operator, ev : Event, step : Steps,
   result : Results \cup {"ready"}, rest : SUBSET Event]

\* Types of the state; a thread works on, and a group holds, events that exist.
TypeOK ==
  /\ leader \in [Operator -> BOOLEAN]
  /\ pending \in [Operator -> SUBSET {e \in Event : Exists(e)}]
  /\ \A t \in tasks : t \in TaskType /\ Exists(t.ev) /\ \A f \in t.rest : Exists(f)
  /\ ev \in [Event -> Fault \cup {None}]
  /\ outcome \in [Event -> {"pending", "ready", "failed", "suppressed"}]
  /\ job \in Workload
  /\ tainted \subseteq Node
  /\ crashes \in 0..MaxCrash /\ faults \in 0..MaxFault

\* Whatever replicas lead, die and repeat, an event is closed only after it, or one of
\* at least its class, was worked on; and it stays closed.
WeightOf(e) == IF Exists(e) THEN Priority(ev[e].what) ELSE 0
Ledger == INSTANCE FaultLedger WITH
  Weight <- 1..4, raised <- [e \in Event |-> WeightOf(e)],
  closed <- {e \in Event : Processed(e)}
LedgerKept == Ledger!Spec

\* An event that asks for the isolation of its node and whose status is good: the node had
\* the taint after the event was raised, and has it, unless the user recovered it since.
DoneMeansIsolated ==
  \A e \in Event :
    outcome[e] = "ready" /\ AsksTaint(ev[e].what) =>
      e \in shielded /\ (ev[e].node \in tainted \/ e \in pardoned)
=============================================================================
