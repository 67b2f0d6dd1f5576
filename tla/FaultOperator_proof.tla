------------------------ MODULE FaultOperator_proof ------------------------
(***************************************************************************)
(* Proofs about the fault operator, for all sets of replicas, nodes and    *)
(* events and every number of threads, deaths and faults: its types, the   *)
(* meaning of a good status, and that it implements FaultLedger.           *)
(***************************************************************************)
EXTENDS FaultOperator, TLAPS

\* The node an event blames was tainted for it, and is unless the user recovered it.
Isolated(e) == e \in shielded /\ (ev[e].node \in tainted \/ e \in pardoned)

\* What the place of a thread in _process_fault says about its event.
TaskOK(t) ==
  /\ t \in TaskType /\ Exists(t.ev)
  /\ t.step = "taint" => ev[t.ev].node \in Node
  /\ t.step = "delete" => t.result \in Results /\ (t.result = "ok" => Isolated(t.ev))
  /\ t.step = "status" =>
       /\ t.result \in {"ready", "failed"}
       /\ t.result = "ready" /\ AsksTaint(ev[t.ev].what) => Isolated(t.ev)
  /\ t.step \in {"status", "suppress"} => t.ev \in worked
  /\ \A f \in t.rest : Exists(f) /\ WeightOf(f) <= WeightOf(t.ev)

\* The inductive invariant: a status is only as good as what the thread that writes it
\* carries, and a group is only as heavy as its winner.
IInv ==
  /\ TypeOK
  /\ \A t \in tasks : TaskOK(t)
  /\ \A e \in Event : Processed(e) => Exists(e)
  /\ DoneMeansIsolated

-----------------------------------------------------------------------------
(* What no step undoes.                                                     *)

Grows ==
  /\ \A e \in Event : Exists(e) => ev'[e] = ev[e]
  /\ worked \subseteq worked'
  /\ \A e \in Event : Exists(e) /\ Isolated(e) => Isolated(e)'

LEMMA PriorityType == \A what \in AllEvidence : Priority(what) \in 1..4
BY DEF Priority, ClassPriority, FaultClass, AllEvidence

LEMMA ReadinessType == \A what, a, b : Readiness(what, a, b) \in {"ready", "failed"}
BY DEF Readiness

LEMMA NextGrows ==
  ASSUME IInv, [Next]_vars PROVE Grows
<1>1. ASSUME NEW o \in Operator, TakesLead(o) \/ StandsDown(o) \/ Crash(o) PROVE Grows
  BY <1>1 DEF TakesLead, StandsDown, Crash, Grows, eventVars, nodeVars, Isolated
<1>2. CASE Watch
  BY <1>2 DEF Watch, ResolveFaultGroup, Reconcile, StartTask, Grows, eventVars, nodeVars, Isolated
<1>3. ASSUME NEW t \in tasks, TaintNode(t) PROVE Grows
  BY <1>3 DEF TaintNode, Advance, Grows, eventVars, Isolated
<1>4. ASSUME NEW t \in tasks, TaintFails(t) \/ Raise(t)
      PROVE  Grows
  BY <1>4 DEF TaintFails, Raise, Advance, Grows, eventVars, nodeVars, Isolated
<1>5. ASSUME NEW t \in tasks, NEW target \in TargetKinds, NEW result \in Results,
             DeletePods(t, target, result)
      PROVE  Grows
  BY <1>5 DEF DeletePods, Advance, Grows, eventVars, nodeVars, Isolated
<1>6. ASSUME NEW t \in tasks, NEW written \in BOOLEAN, NEW f \in Event,
             PatchStatus(t, written) \/ Suppress(t, f, written)
      PROVE  Grows
  BY <1>6 DEF PatchStatus, Suppress, Grows, nodeVars, Isolated
<1>7. ASSUME NEW e \in Event, NEW what \in Evidence, NEW n \in Node \cup {None},
             NEW ofJob \in BOOLEAN, Create(e, what, n, ofJob)
      PROVE  Grows
  BY <1>7 DEF Create, Grows, Exists, TypeOK, IInv, Isolated
<1>8. ASSUME NEW n \in Node, Recover(n) PROVE Grows
  BY <1>8 DEF Recover, Blames, Grows, eventVars, Isolated, Exists
<1>9. CASE UNCHANGED vars
  BY <1>9 DEF vars, Grows, eventVars, nodeVars, Isolated
<1>10. CASE Process
  <2>1. PICK t \in tasks :
          \/ TaintNode(t) \/ TaintFails(t) \/ Raise(t)
          \/ \E target \in TargetKinds, result \in Results : DeletePods(t, target, result)
          \/ \E written \in BOOLEAN :
               \/ PatchStatus(t, written)
               \/ \E f \in Event : Suppress(t, f, written)
    BY <1>10 DEF Process
  <2>2. t.ev \in Event
    BY DEF IInv, TypeOK, TaskType
  <2> QED BY <1>3, <1>4, <1>5, <1>6, <2>1, <2>2
<1>11. CASE Faults
  <2>1. PICK e \in Event, what \in Evidence :
          \/ \E n \in Node \cup {None} : ReportFault(e, what, n)
          \/ \E n \in Node : AgentReport(e, what, n)
    BY <1>11 DEF Faults
  <2>2. \E n \in Node \cup {None}, ofJob \in BOOLEAN : Create(e, what, n, ofJob)
    BY <2>1 DEF ReportFault, AgentReport
  <2> QED BY <1>7, <2>2
<1> QED
  BY <1>1, <1>2, <1>8, <1>9, <1>10, <1>11 DEF Next, Replicas

-----------------------------------------------------------------------------
(* Threads.                                                                 *)

LEMMA TaskKept ==
  ASSUME IInv, Grows, NEW t \in tasks PROVE TaskOK(t)'
<1>1. TaskOK(t) /\ t.ev \in Event /\ t.rest \subseteq Event
  BY DEF IInv, TaskOK, TaskType
<1>2. /\ ev'[t.ev] = ev[t.ev]
      /\ \A f \in t.rest : ev'[f] = ev[f]
      /\ Isolated(t.ev) => Isolated(t.ev)'
  BY <1>1 DEF TaskOK, Grows
<1>3. t.step \in {"status", "suppress"} => t.ev \in worked'
  BY <1>1 DEF TaskOK, Grows
<1>4. \A f \in t.rest : Exists(f)' /\ WeightOf(f)' <= WeightOf(t.ev)'
  BY <1>1, <1>2 DEF TaskOK, Exists, WeightOf
<1> QED BY <1>1, <1>2, <1>3, <1>4 DEF TaskOK, Exists

LEMMA Started ==
  ASSUME IInv, Grows, UNCHANGED ev, NEW o \in Operator, NEW e \in Event, Exists(e),
         NEW rest \in SUBSET Event,
         \A f \in rest : Exists(f) /\ WeightOf(f) <= WeightOf(e),
         StartTask(o, e, rest)
  PROVE  \A t \in tasks' : TaskOK(t)'
<1> DEFINE
  r == IF FirstStep(e) = "status" THEN Readiness(ev[e].what, "none", "none") ELSE "none"
  u == [op |-> o, ev |-> e, step |-> FirstStep(e), rest |-> rest, result |-> r]
<1>1. tasks' = tasks \cup {u}
  BY DEF StartTask
<1>2. FirstStep(e) \in {"taint", "delete", "status"}
  BY DEF FirstStep
<1>3. r \in {"none", "ready", "failed"}
  BY ReadinessType
<1>4. u \in TaskType
  BY <1>2, <1>3 DEF TaskType, Steps, Results
<1>5. ev[e] \in Fault /\ ev'[e] = ev[e]
  BY DEF IInv, TypeOK, Exists
<1>6. FirstStep(e) = "taint" => ev[e].node \in Node
  BY <1>5 DEF FirstStep, Fault
<1>7. FirstStep(e) = "status" => e \in worked' /\ r \in {"ready", "failed"}
  BY ReadinessType DEF StartTask
<1>8. FirstStep(e) = "status" /\ r = "ready" => ~AsksTaint(ev[e].what)
  BY DEF Readiness
<1>9. \A f \in rest : Exists(f)' /\ WeightOf(f)' <= WeightOf(e)'
  BY DEF Exists, WeightOf
<1>10. Exists(e)'
  BY DEF Exists
<1>11. ASSUME NEW t \in tasks', t = u PROVE TaskOK(t)'
  <2> HIDE DEF r
  <2>1. t.ev = e /\ t.step = FirstStep(e) /\ t.rest = rest /\ t.result = r
    BY <1>11
  <2>2. FirstStep(e) = "delete" => r \in Results /\ r # "ok"
    BY DEF r, Results
  <2>3. t \in TaskType
    BY <1>4, <1>11
  <2> HIDE DEF u
  <2> QED
    BY <1>2, <1>5, <1>6, <1>7, <1>8, <1>9, <1>10, <2>1, <2>2, <2>3 DEF TaskOK
<1> QED BY <1>1, <1>11, TaskKept

\* A thread that goes on: only what it newly claims is to be shown.
LEMMA Advanced ==
  ASSUME IInv, Grows, UNCHANGED ev, NEW t \in tasks,
         NEW step \in {"delete", "status"}, NEW result \in {"none", "ok", "failed", "ready"},
         Advance(t, [t EXCEPT !.step = step, !.result = result]),
         step = "delete" => result \in Results /\ (result = "ok" => Isolated(t.ev)'),
         step = "status" =>
           /\ result \in {"ready", "failed"}
           /\ result = "ready" /\ AsksTaint(ev[t.ev].what) => Isolated(t.ev)'
  PROVE  \A u \in tasks' : TaskOK(u)'
<1> DEFINE u == [t EXCEPT !.step = step, !.result = result]
<1>1. tasks' = (tasks \ {t}) \cup {u} /\ (step = "status" => t.ev \in worked')
  <2>1. t \in TaskType
    BY DEF IInv, TaskOK
  <2>2. u.step = step
    BY <2>1 DEF TaskType
  <2> QED BY <2>2 DEF Advance
<1>2. t \in TaskType /\ TaskOK(t)' /\ ev' = ev
  BY TaskKept DEF IInv, TaskOK
<1>3. /\ u \in TaskType /\ u.ev = t.ev /\ u.rest = t.rest
      /\ u.step = step /\ u.result = result
  BY <1>2 DEF TaskType, Steps, Results
<1>4. TaskOK(u)'
  <2> HIDE DEF u
  <2> QED BY <1>1, <1>2, <1>3 DEF TaskOK
<1> QED BY <1>1, <1>4, TaskKept

LEMMA Finished ==
  ASSUME IInv, Grows, UNCHANGED ev, NEW t \in tasks, t.step \in {"status", "suppress"},
         NEW rest \in SUBSET t.rest, Finish(t, rest)
  PROVE  \A u \in tasks' : TaskOK(u)'
<1> DEFINE u == [t EXCEPT !.step = "suppress", !.result = "none", !.rest = rest]
<1>1. tasks' \subseteq tasks \cup {u}
  BY DEF Finish
<1>2. t \in TaskType /\ TaskOK(t)' /\ ev' = ev
  BY TaskKept DEF IInv, TaskOK
<1>3. /\ u \in TaskType /\ u.ev = t.ev /\ u.rest = rest
      /\ u.step = "suppress" /\ u.result = "none"
  BY <1>2 DEF TaskType, Steps, Results
<1>4. TaskOK(u)'
  <2> HIDE DEF u
  <2> QED BY <1>1, <1>2, <1>3 DEF TaskOK
<1> QED BY <1>1, <1>4, TaskKept

LEMMA StepTasks ==
  ASSUME IInv, [Next]_vars PROVE \A t \in tasks' : TaskOK(t)'
<1>0. Grows
  BY NextGrows
<1>1. CASE tasks' \subseteq tasks
  BY <1>0, <1>1, TaskKept
<1>2. ASSUME NEW o \in Operator, NEW e \in Event, Reconcile(o, e), ~(tasks' \subseteq tasks)
      PROVE  \A t \in tasks' : TaskOK(t)'
  <2>1. Exists(e) /\ UNCHANGED ev /\ StartTask(o, e, {})
    BY <1>2 DEF Reconcile, Delivered, eventVars
  <2> QED BY <1>0, <2>1, Started
<1>3. ASSUME NEW o \in Operator, ResolveFaultGroup(o)
      PROVE  \A t \in tasks' : TaskOK(t)'
  <2>1. PICK winner \in RootFaults(pending[o]) : StartTask(o, winner, pending[o] \ {winner})
    BY <1>3 DEF ResolveFaultGroup
  <2>2. pending[o] \subseteq Event /\ \A f \in pending[o] : Exists(f)
    BY DEF IInv, TypeOK
  <2>3. winner \in Event /\ Exists(winner)
        /\ \A f \in pending[o] : WeightOf(f) <= WeightOf(winner)
    BY <2>2 DEF RootFaults, WeightOf
  <2>4. UNCHANGED ev
    BY <1>3 DEF ResolveFaultGroup, eventVars
  <2> QED BY <1>0, <2>1, <2>2, <2>3, <2>4, Started
<1>4. ASSUME NEW t \in tasks, TaintNode(t) PROVE \A u \in tasks' : TaskOK(u)'
  <2>1. t.ev \in Event /\ Exists(t.ev) /\ UNCHANGED ev
    BY <1>4 DEF TaintNode, IInv, TaskOK, TaskType, eventVars
  <2>2. Isolated(t.ev)'
    BY <1>4, <2>1 DEF TaintNode, Isolated, Blames
  <2> QED BY <1>0, <1>4, <2>1, <2>2, Advanced DEF TaintNode, Results
<1>5. ASSUME NEW t \in tasks, TaintFails(t) PROVE \A u \in tasks' : TaskOK(u)'
  BY <1>0, <1>5, Advanced DEF TaintFails, Results, eventVars
<1>6. ASSUME NEW t \in tasks, NEW target \in TargetKinds, NEW result \in Results,
             DeletePods(t, target, result)
      PROVE  \A u \in tasks' : TaskOK(u)'
  <2> DEFINE r == Readiness(ev[t.ev].what, t.result, result)
  <2>1. t.ev \in Event /\ Exists(t.ev) /\ UNCHANGED ev /\ t.step = "delete"
    BY <1>6 DEF DeletePods, IInv, TaskOK, TaskType, eventVars
  <2>2. r \in {"ready", "failed"}
    BY ReadinessType
  <2>3. r = "ready" /\ AsksTaint(ev[t.ev].what) => t.result = "ok"
    BY DEF Readiness
  <2>4. t.result = "ok" => Isolated(t.ev)'
    BY <1>0, <2>1 DEF IInv, TaskOK, Grows
  <2>5. Advance(t, [t EXCEPT !.step = "status", !.result = r])
    BY <1>6 DEF DeletePods
  <2> QED BY <1>0, <2>1, <2>2, <2>3, <2>4, <2>5, Advanced
<1>7. ASSUME NEW t \in tasks, NEW written \in BOOLEAN, PatchStatus(t, written)
      PROVE  \A u \in tasks' : TaskOK(u)'
  BY <1>0, <1>7, Finished DEF PatchStatus
<1>8. ASSUME NEW t \in tasks, NEW written \in BOOLEAN, NEW f \in Event,
             Suppress(t, f, written)
      PROVE  \A u \in tasks' : TaskOK(u)'
  BY <1>0, <1>8, Finished DEF Suppress
<1>9. ASSUME NEW o \in Operator, TakesLead(o) \/ StandsDown(o) \/ Crash(o)
      PROVE tasks' \subseteq tasks
  BY <1>9 DEF TakesLead, StandsDown, Crash
<1>10. ASSUME NEW t \in tasks, Raise(t) PROVE tasks' \subseteq tasks
  BY <1>10 DEF Raise
<1>11. CASE Faults \/ (\E n \in Node : Recover(n)) \/ UNCHANGED vars
  <2>1. tasks' = tasks
    BY <1>11 DEF Faults, ReportFault, AgentReport, Create, Recover, vars
  <2> QED BY <1>1, <2>1
<1>12. CASE Watch
  BY <1>1, <1>2, <1>3, <1>12 DEF Watch
<1>13. CASE Process
  BY <1>1, <1>4, <1>5, <1>6, <1>7, <1>8, <1>10, <1>13 DEF Process
<1> QED BY <1>1, <1>9, <1>11, <1>12, <1>13 DEF Next, Replicas

-----------------------------------------------------------------------------
(* Statuses and types.                                                      *)

\* A step that changes a status writes that of an event some thread answers for.
LEMMA OutcomeStep ==
  ASSUME IInv, [Next]_vars, NEW e \in Event, outcome'[e] # outcome[e]
  PROVE  \E t \in tasks :
           \/ t.ev = e /\ t.step = "status" /\ outcome'[e] = t.result
           \/ t.step = "suppress" /\ e \in t.rest /\ outcome'[e] = "suppressed"
<1>1. CASE UNCHANGED outcome
  BY <1>1
<1>2. CASE Process
  <2>1. PICK t \in tasks, written \in BOOLEAN :
          PatchStatus(t, written) \/ \E f \in Event : Suppress(t, f, written)
    BY <1>2 DEF Process, TaintNode, TaintFails, DeletePods, Raise, eventVars
  <2>2. t.ev \in Event /\ outcome \in [Event -> {"pending", "ready", "failed", "suppressed"}]
    BY DEF IInv, TaskOK, TaskType, TypeOK
  <2> QED BY <2>1, <2>2 DEF PatchStatus, Suppress
<1>3. CASE Replicas \/ Watch \/ Faults \/ (\E n \in Node : Recover(n)) \/ UNCHANGED vars
  <2>1. UNCHANGED outcome
    BY <1>3 DEF Replicas, TakesLead, StandsDown, Crash, Watch, ResolveFaultGroup, Reconcile,
       Faults, ReportFault, AgentReport, Create, Recover, vars, eventVars
  <2> QED BY <2>1
<1> QED BY <1>2, <1>3 DEF Next

LEMMA StepDone ==
  ASSUME IInv, [Next]_vars
  PROVE  DoneMeansIsolated' /\ \A e \in Event : Processed(e)' => Exists(e)'
<1>0. Grows
  BY NextGrows
<1>1. SUFFICES ASSUME NEW e \in Event
               PROVE  /\ Processed(e)' => Exists(e)'
                      /\ outcome'[e] = "ready" /\ AsksTaint(ev'[e].what) => Isolated(e)'
  BY DEF DoneMeansIsolated, Isolated
<1>2. CASE outcome'[e] = outcome[e]
  <2>1. Processed(e)' => Exists(e) /\ ev'[e] = ev[e]
    BY <1>0, <1>2 DEF IInv, Processed, Grows
  <2>2. outcome'[e] = "ready" /\ AsksTaint(ev'[e].what) => Isolated(e)
    BY <1>2, <2>1 DEF IInv, DoneMeansIsolated, Isolated, Processed
  <2>3. outcome'[e] = "ready" => Processed(e)'
    BY DEF Processed
  <2> QED BY <1>0, <2>1, <2>2, <2>3 DEF Grows, Exists
<1>3. CASE outcome'[e] # outcome[e]
  <2>1. PICK t \in tasks :
           \/ t.ev = e /\ t.step = "status" /\ outcome'[e] = t.result
           \/ t.step = "suppress" /\ e \in t.rest /\ outcome'[e] = "suppressed"
    BY <1>3, OutcomeStep
  <2>2. Exists(e) /\ ev'[e] = ev[e]
    BY <1>0, <2>1 DEF IInv, TaskOK, Grows
  <2>3. outcome'[e] = "ready" /\ AsksTaint(ev[e].what) => Isolated(e)
    BY <2>1 DEF IInv, TaskOK
  <2> QED BY <1>0, <2>2, <2>3 DEF Grows, Exists
<1> QED BY <1>2, <1>3

LEMMA StepTypeOK ==
  ASSUME IInv, [Next]_vars PROVE TypeOK'
<1>0. TypeOK /\ Grows
  BY NextGrows DEF IInv
<1>1. \A t \in tasks' : t \in TaskType /\ Exists(t.ev)' /\ \A f \in t.rest : Exists(f)'
  BY StepTasks DEF TaskOK
<1>2. outcome' \in [Event -> {"pending", "ready", "failed", "suppressed"}]
  <2>1. \/ UNCHANGED outcome
        \/ \E t \in tasks : \E e \in Event, r \in {"ready", "failed", "suppressed"} :
             outcome' = [outcome EXCEPT ![e] = r]
    <3>1. CASE Process
      <4>1. PICK t \in tasks :
              \/ UNCHANGED outcome
              \/ outcome' = [outcome EXCEPT ![t.ev] = t.result] /\ t.step = "status"
              \/ \E f \in Event : outcome' = [outcome EXCEPT ![f] = "suppressed"]
        BY <3>1 DEF Process, TaintNode, TaintFails, DeletePods, Raise, eventVars,
           PatchStatus, Suppress
      <4>2. t.ev \in Event /\ (t.step = "status" => t.result \in {"ready", "failed"})
        BY DEF IInv, TaskOK, TaskType
      <4> QED BY <4>1, <4>2
    <3>2. CASE Replicas \/ Watch \/ Faults \/ (\E n \in Node : Recover(n)) \/ UNCHANGED vars
      BY <3>2 DEF Replicas, TakesLead, StandsDown, Crash, Watch, ResolveFaultGroup, Reconcile,
         Faults, ReportFault, AgentReport, Create, Recover, vars, eventVars
    <3> QED BY <3>1, <3>2 DEF Next
  <2> QED BY <1>0, <2>1 DEF TypeOK
<1>3. ev' \in [Event -> Fault \cup {None}]
  <2>1. CASE Faults
    <3>1. PICK f \in Event, what \in Evidence, n \in Node \cup {None}, ofJob \in BOOLEAN :
            Create(f, what, n, ofJob)
      BY <2>1 DEF Faults, ReportFault, AgentReport
    <3>2. [what |-> what, node |-> n, job |-> ofJob] \in Fault
      BY FaultAssumption DEF Fault
    <3> QED BY <1>0, <3>1, <3>2 DEF Create, TypeOK
  <2>2. CASE Replicas \/ Watch \/ (\E n \in Node : Recover(n)) \/ UNCHANGED vars
    BY <1>0, <2>2 DEF TypeOK, Replicas, TakesLead, StandsDown, Crash, Watch, ResolveFaultGroup,
       Reconcile, Recover, vars, eventVars
  <2>3. CASE Process
    BY <1>0, <2>3 DEF TypeOK, Process, TaintNode, TaintFails, DeletePods, Raise, PatchStatus,
       Suppress, eventVars
  <2> QED BY <2>1, <2>2, <2>3 DEF Next
<1>4. pending' \in [Operator -> SUBSET {e \in Event : Exists(e)'}]
  <2>1. \A e \in Event : Exists(e) => Exists(e)'
    BY <1>0 DEF Grows, Exists
  <2>2. pending' \in [Operator -> SUBSET {e \in Event : Exists(e)}]
    <3>1. CASE UNCHANGED pending
      BY <1>0, <3>1 DEF TypeOK
    <3>2. ASSUME NEW o \in Operator,
                 pending' = [pending EXCEPT ![o] = {}] \/
                 \E e \in Event : Exists(e) /\ pending' = [pending EXCEPT ![o] = @ \cup {e}]
          PROVE  pending' \in [Operator -> SUBSET {e \in Event : Exists(e)}]
      <4> DEFINE Known == {e \in Event : Exists(e)}
      <4>1. pending \in [Operator -> SUBSET Known]
        BY <1>0 DEF TypeOK
      <4>2. \E S \in SUBSET Known : pending' = [pending EXCEPT ![o] = S]
        BY <3>2, <4>1
      <4> QED BY <4>1, <4>2
    <3>3. CASE Replicas \/ Watch
      BY <3>1, <3>2, <3>3 DEF Replicas, TakesLead, StandsDown, Crash, Watch,
         ResolveFaultGroup, Reconcile, Delivered
    <3>4. CASE Process
      BY <3>1, <3>4 DEF Process, TaintNode, TaintFails, DeletePods, Raise, PatchStatus, Suppress
    <3>5. CASE Faults \/ (\E n \in Node : Recover(n)) \/ UNCHANGED vars
      BY <3>1, <3>5 DEF Faults, ReportFault, AgentReport, Create, Recover, vars
    <3> QED BY <3>3, <3>4, <3>5 DEF Next
  <2> QED BY <2>1, <2>2
<1>5. leader' \in [Operator -> BOOLEAN]
  <2>1. \/ UNCHANGED leader
        \/ \E o \in Operator, b \in BOOLEAN : leader' = [leader EXCEPT ![o] = b]
    <3>1. CASE Replicas
      BY <3>1 DEF Replicas, TakesLead, StandsDown, Crash
    <3>2. CASE Watch \/ Process
      BY <3>2 DEF Watch, ResolveFaultGroup, Reconcile, Process, TaintNode, TaintFails,
         DeletePods, Raise, PatchStatus, Suppress, electVars
    <3>3. CASE Faults \/ (\E n \in Node : Recover(n)) \/ UNCHANGED vars
      BY <3>3 DEF Faults, ReportFault, AgentReport, Create, Recover, vars, electVars
    <3> QED BY <3>1, <3>2, <3>3 DEF Next
  <2> QED BY <1>0, <2>1 DEF TypeOK
<1>6. crashes' \in 0..MaxCrash /\ faults' \in 0..MaxFault
  <2>1. /\ UNCHANGED crashes \/ (crashes < MaxCrash /\ crashes' = crashes + 1)
        /\ UNCHANGED faults \/ (faults < MaxFault /\ faults' = faults + 1)
    <3>1. CASE Replicas
      BY <3>1 DEF Replicas, TakesLead, StandsDown, Crash
    <3>2. CASE Watch \/ Process
      BY <3>2 DEF Watch, ResolveFaultGroup, Reconcile, Delivered, Process, TaintNode,
         TaintFails, DeletePods, Raise, PatchStatus, Suppress, electVars
    <3>3. CASE Faults \/ (\E n \in Node : Recover(n)) \/ UNCHANGED vars
      BY <3>3 DEF Faults, ReportFault, AgentReport, Create, Recover, vars, electVars
    <3> QED BY <3>1, <3>2, <3>3 DEF Next
  <2>2. /\ crashes \in 0..MaxCrash /\ faults \in 0..MaxFault
        /\ MaxCrash \in Nat /\ MaxFault \in Nat
    BY <1>0, FaultAssumption DEF TypeOK
  <2> QED BY <2>1, <2>2
<1>7. UNCHANGED job
  <2>1. CASE Replicas \/ Watch
    BY <2>1 DEF Replicas, TakesLead, StandsDown, Crash, Watch, ResolveFaultGroup, Reconcile
  <2>2. CASE Process
    BY <2>2 DEF Process, TaintNode, TaintFails, DeletePods, Raise, PatchStatus, Suppress
  <2>3. CASE Faults \/ (\E n \in Node : Recover(n)) \/ UNCHANGED vars
    BY <2>3 DEF Faults, ReportFault, AgentReport, Create, Recover, vars
  <2> QED BY <2>1, <2>2, <2>3 DEF Next
<1>8. tainted' \subseteq Node
  <2>1. CASE Replicas \/ Watch
    BY <1>0, <2>1 DEF Replicas, TakesLead, StandsDown, Crash, Watch, ResolveFaultGroup,
       Reconcile, TypeOK, nodeVars
  <2>2. CASE Process
    <3>1. \A t \in tasks : t.step = "taint" => ev[t.ev].node \in Node
      BY DEF IInv, TaskOK
    <3> QED
      BY <1>0, <2>2, <3>1 DEF Process, TaintNode, TaintFails, DeletePods, Raise,
         PatchStatus, Suppress, TypeOK, nodeVars
  <2>3. CASE Faults \/ (\E n \in Node : Recover(n)) \/ UNCHANGED vars
    BY <1>0, <2>3 DEF Faults, ReportFault, AgentReport, Create, Recover, TypeOK, vars, nodeVars
  <2> QED BY <2>1, <2>2, <2>3 DEF Next
<1> QED BY <1>0, <1>1, <1>2, <1>3, <1>4, <1>5, <1>6, <1>7, <1>8 DEF TypeOK

-----------------------------------------------------------------------------
LEMMA InitIInv == Init => IInv
<1> SUFFICES ASSUME Init PROVE IInv
  OBVIOUS
<1>1. tasks = {} /\ \A e \in Event : outcome[e] = "pending" /\ ev[e] = None
  BY DEF Init
<1>2. leader \in [Operator -> BOOLEAN] /\ pending \in [Operator -> SUBSET {e \in Event : Exists(e)}]
  BY DEF Init
<1>3. /\ ev \in [Event -> Fault \cup {None}]
      /\ outcome \in [Event -> {"pending", "ready", "failed", "suppressed"}]
  <2>1. ev = [e \in Event |-> None] /\ outcome = [e \in Event |-> "pending"]
    BY DEF Init
  <2> QED BY <2>1
<1>5. job \in Workload /\ tainted \subseteq Node
  BY Zenon DEF Init
<1>4. crashes \in 0..MaxCrash /\ faults \in 0..MaxFault
  <2>1. crashes = 0 /\ faults = 0
    BY DEF Init
  <2>2. MaxCrash \in Nat /\ MaxFault \in Nat
    BY FaultAssumption
  <2> QED BY <2>1, <2>2
<1> QED BY <1>1, <1>2, <1>3, <1>4, <1>5 DEF IInv, TypeOK, DoneMeansIsolated, Processed

LEMMA StepIInv == IInv /\ [Next]_vars => IInv'
BY StepTypeOK, StepTasks, StepDone DEF IInv

\* Types of the state; a thread works on events that exist.
THEOREM Types == Spec => []TypeOK
<1>1. IInv => TypeOK
  BY DEF IInv
<1> QED BY <1>1, InitIInv, StepIInv, PTL DEF Spec

\* A good status of an event that asks for isolation: its node had the taint since the
\* event was raised and has it still, unless the user recovered the node.
THEOREM GoodStatus == Spec => []DoneMeansIsolated
<1>1. IInv => DoneMeansIsolated
  BY DEF IInv
<1> QED BY <1>1, InitIInv, StepIInv, PTL DEF Spec

-----------------------------------------------------------------------------
(* The ledger: every step records, works on or closes one event, or none.   *)

Weights == [e \in Event |-> WeightOf(e)]
ClosedEvents == {e \in Event : Processed(e)}

LEMMA LedgerInit == Init => Ledger!Init
<1> SUFFICES ASSUME Init PROVE Ledger!Init
  OBVIOUS
<1>1. /\ ev = [e \in Event |-> None] /\ outcome = [e \in Event |-> "pending"]
      /\ worked = {}
  BY DEF Init
<1> QED BY <1>1 DEF Ledger!Init, WeightOf, Exists, Processed

\* No event appears: what was raised stays as it was.
LEMMA SameWeights == UNCHANGED ev => UNCHANGED Weights
BY DEF Weights, WeightOf, Exists

LEMMA SameClosed == UNCHANGED outcome => UNCHANGED ClosedEvents
BY DEF ClosedEvents, Processed

\* Work on one event, or on none that was not worked on before.
LEMMA WorkStep ==
  ASSUME TypeOK, NEW e \in Event, Exists(e), UNCHANGED eventVars,
         worked' = worked \/ worked' = worked \cup {e}
  PROVE  [Ledger!Next]_(Ledger!vars)
<1>1. UNCHANGED Weights /\ UNCHANGED ClosedEvents
  BY SameWeights, SameClosed DEF eventVars
<1>2. CASE worked' = worked
  BY <1>1, <1>2 DEF Ledger!vars, Weights, ClosedEvents
<1>3. CASE worked' = worked \cup {e}
  <2>1. Weights[e] > 0
    BY PriorityType DEF Weights, WeightOf, Exists, TypeOK, Fault
  <2> QED BY <1>1, <1>3, <2>1 DEF Ledger!Next, Ledger!Work, Ledger!Exists, Weights, ClosedEvents
<1> QED BY <1>2, <1>3

LEMMA CloseStep ==
  ASSUME IInv, UNCHANGED <<ev, worked>>, NEW e \in Event, Exists(e), NEW g \in worked,
         g \in Event, WeightOf(e) <= WeightOf(g),
         NEW r \in {"ready", "failed", "suppressed"}, NEW written \in BOOLEAN,
         outcome' = IF written THEN [outcome EXCEPT ![e] = r] ELSE outcome
  PROVE  [Ledger!Next]_(Ledger!vars)
<1>1. UNCHANGED Weights
  BY SameWeights
<1>2. CASE ~written
  BY <1>1, <1>2, SameClosed DEF Ledger!vars, Weights, ClosedEvents
<1>3. CASE written
  <2>1. ClosedEvents' = ClosedEvents \cup {e}
    BY <1>3 DEF ClosedEvents, Processed, IInv, TypeOK
  <2>2. Weights[e] > 0 /\ Weights[g] >= Weights[e]
    <3>1. WeightOf(e) \in 1..4 /\ WeightOf(g) \in Nat
      BY PriorityType DEF WeightOf, Exists, IInv, TypeOK, Fault
    <3> QED BY <3>1 DEF Weights
  <2> QED BY <1>1, <2>1, <2>2 DEF Ledger!Next, Ledger!Close, Ledger!Exists, Weights, ClosedEvents
<1> QED BY <1>2, <1>3

LEMMA RaiseStep ==
  ASSUME IInv, NEW e \in Event, NEW what \in Evidence, NEW n \in Node \cup {None},
         NEW ofJob \in BOOLEAN, Create(e, what, n, ofJob)
  PROVE  [Ledger!Next]_(Ledger!vars)
<1>1. what \in AllEvidence
  BY FaultAssumption
<1>2. [what |-> what, node |-> n, job |-> ofJob] \in Fault
  BY <1>1 DEF Fault
<1>3. /\ ev' = [ev EXCEPT ![e] = [what |-> what, node |-> n, job |-> ofJob]]
      /\ UNCHANGED <<outcome, worked>> /\ ev[e] = None /\ DOMAIN ev = Event
  BY DEF Create, Exists, IInv, TypeOK
<1>4. WeightOf(e) = 0 /\ WeightOf(e)' = Priority(what)
  BY <1>2, <1>3, FaultAssumption DEF WeightOf, Exists
<1>5. \A f \in Event \ {e} : WeightOf(f)' = WeightOf(f)
  BY <1>3 DEF WeightOf, Exists
<1>6. Weights' = [Weights EXCEPT ![e] = Priority(what)] /\ Weights[e] = 0
  BY <1>4, <1>5 DEF Weights
<1>7. Priority(what) \in 1..4
  BY <1>1, PriorityType
<1>8. UNCHANGED <<worked, ClosedEvents>>
  BY <1>3, SameClosed
<1>9. Ledger!Raise(e)
  <2>1. \E w \in 1..4 : Weights' = [Weights EXCEPT ![e] = w]
    BY <1>6, <1>7
  <2>2. ~(Weights[e] > 0)
    BY <1>6
  <2> QED BY <1>8, <2>1, <2>2 DEF Ledger!Raise, Ledger!Exists, Weights, ClosedEvents
<1> QED BY <1>9 DEF Ledger!Next

LEMMA LedgerStep ==
  ASSUME IInv, [Next]_vars PROVE [Ledger!Next]_(Ledger!vars)
<1>0. TypeOK
  BY DEF IInv
<1>1. CASE UNCHANGED eventVars /\ UNCHANGED worked
  BY <1>1, SameWeights, SameClosed DEF Ledger!vars, Weights, ClosedEvents, eventVars
<1>2. CASE Replicas \/ (\E n \in Node : Recover(n)) \/ UNCHANGED vars
  BY <1>1, <1>2 DEF Replicas, TakesLead, StandsDown, Crash, Recover, vars
<1>3. CASE Watch
  <2>1. PICK o \in Operator : ResolveFaultGroup(o) \/ \E e \in Event : Reconcile(o, e)
    BY <1>3 DEF Watch
  <2>2. CASE ResolveFaultGroup(o)
    <3>1. PICK e \in pending[o] : StartTask(o, e, pending[o] \ {e})
      BY <2>2 DEF ResolveFaultGroup, RootFaults
    <3>2. e \in Event /\ Exists(e)
      BY DEF IInv, TypeOK
    <3> QED BY <1>0, <2>2, <3>1, <3>2, WorkStep DEF StartTask, ResolveFaultGroup
  <2>3. ASSUME NEW e \in Event, Reconcile(o, e) PROVE [Ledger!Next]_(Ledger!vars)
    <3>1. Exists(e) /\ UNCHANGED eventVars /\ (worked' = worked \/ worked' = worked \cup {e})
      BY <2>3 DEF Reconcile, Delivered, StartTask
    <3> QED BY <1>0, <3>1, WorkStep
  <2> QED BY <2>1, <2>2, <2>3
<1>4. CASE Process
  <2>1. PICK t \in tasks :
          \/ TaintNode(t) \/ TaintFails(t) \/ Raise(t)
          \/ \E target \in TargetKinds, result \in Results : DeletePods(t, target, result)
          \/ \E written \in BOOLEAN :
               \/ PatchStatus(t, written)
               \/ \E f \in Event : Suppress(t, f, written)
    BY <1>4 DEF Process
  <2>2. TaskOK(t) /\ t.ev \in Event /\ Exists(t.ev)
    BY DEF IInv, TaskOK, TaskType
  <2>3. CASE Raise(t)
    BY <1>1, <2>3 DEF Raise
  <2>4. CASE \/ TaintNode(t) \/ TaintFails(t)
             \/ \E target \in TargetKinds, result \in Results : DeletePods(t, target, result)
    <3>1. UNCHANGED eventVars /\ (worked' = worked \/ worked' = worked \cup {t.ev})
      BY <2>4 DEF TaintNode, TaintFails, DeletePods, Advance
    <3> QED BY <1>0, <2>2, <3>1, WorkStep
  <2>5. ASSUME NEW written \in BOOLEAN, PatchStatus(t, written)
        PROVE  [Ledger!Next]_(Ledger!vars)
    <3>1. WeightOf(t.ev) <= WeightOf(t.ev)
      BY <2>2, PriorityType DEF WeightOf, Exists, IInv, TypeOK, Fault
    <3>2. t.ev \in worked /\ t.result \in {"ready", "failed"}
      BY <2>2, <2>5 DEF PatchStatus, TaskOK
    <3> QED BY <2>2, <2>5, <3>1, <3>2, CloseStep DEF PatchStatus
  <2>6. ASSUME NEW written \in BOOLEAN, NEW f \in Event, Suppress(t, f, written)
        PROVE  [Ledger!Next]_(Ledger!vars)
    <3>1. t.ev \in worked /\ Exists(f) /\ WeightOf(f) <= WeightOf(t.ev)
      BY <2>2, <2>6 DEF Suppress, TaskOK
    <3> QED BY <2>2, <2>6, <3>1, CloseStep DEF Suppress
  <2> QED BY <2>1, <2>3, <2>4, <2>5, <2>6
<1>5. CASE Faults
  <2>1. PICK e \in Event, what \in Evidence, n \in Node \cup {None}, ofJob \in BOOLEAN :
          Create(e, what, n, ofJob)
    BY <1>5 DEF Faults, ReportFault, AgentReport
  <2> QED BY <2>1, RaiseStep
<1> QED BY <1>2, <1>3, <1>4, <1>5 DEF Next

\* The fault operator implements the ledger: an event is closed only after it, or one of at
\* least its class, was worked on, and stays closed.
THEOREM OperatorKeepsLedger == Spec => LedgerKept
<1>1. IInv /\ [Next]_vars => [Ledger!Next]_(Ledger!vars)
  BY LedgerStep
<1> QED BY <1>1, InitIInv, StepIInv, LedgerInit, PTL DEF Spec, LedgerKept, Ledger!Spec
=============================================================================
