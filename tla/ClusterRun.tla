------------------------------ MODULE ClusterRun ------------------------------
(***************************************************************************)
(* A cluster run of hcu-envcheck: the controller C, which plans a preflight*)
(* (phase 0) and the stages (phases 1..NS) over all groups of nodes; the   *)
(* subshell run_task per group, which starts a worker in a session of its  *)
(* own, watches and stops it, and hands its result over in a workspace;    *)
(* and the ranks on the nodes, whose tombstones are TaskGuard's.  C alone  *)
(* publishes the rows of facts.json.                                       *)
(*                                                                         *)
(* launch_task and collect_task defer signals (C_CRITICAL), so each is one *)
(* action.  A group's nodes are one: a stop is confirmed if all confirm.   *)
(* The token of a task is its group and phase.  PASS stands for WARN and NA*)
(* too.                                                                    *)
(***************************************************************************)
EXTENDS Naturals, FiniteSets

CONSTANTS NG, NS,        \* groups, stages
          Concurrency,   \* tasks at a time
          MaxFault       \* bound on failures of the file system, the network, the host

ASSUME RunAssumption ==
  NG \in Nat \ {0} /\ NS \in Nat /\ Concurrency \in Nat \ {0} /\ MaxFault \in Nat

Group == 1..NG
Phase == 0..NS

VARIABLES
  c,        \* the controller, see ControlRec
  row,      \* the tasks table of facts.json, per group and phase
  ws,       \* phase whose workspace runtime/<group> exists, NoWs if it does not
  t,        \* run_task per group, see TaskRec
  sent,     \* phases whose start is on its way to the nodes
  ranks,    \* phases of which ranks live on the nodes
  tomb,     \* phases with a tombstone on the nodes
  faults

vars == <<c, row, ws, t, sent, ranks, tomb, faults>>
nodes == <<sent, ranks, tomb>>

NoWs == NS + 1

L == INSTANCE TaskLedger

\* rolling: refill as tasks end (bash >= 5.1), else wave by wave.  reaped: waited for
\* and no longer in ACTIVE_PIDS, not yet collected.  failed: STAGE_FAILED; bad:
\* execution_failed; last: LAST_STATUS and LAST_CLEANUP of the group.
ControlRec ==
  [at : {"dispatch", "reaped", "wave", "cancel", "report", "over", "killed"},
   rolling : BOOLEAN, phase : Phase, next : 1..(NG + 1), active : SUBSET Group,
   reaped : 0..NG, failed : BOOLEAN, bad : BOOLEAN, blocked : SUBSET Group,
   last : [Group -> [st : {"none", "BLOCKED", "RUNNING"} \cup L!Status, clean : BOOLEAN]],
   cancelled : BOOLEAN, pruned : BOOLEAN]

\* known: the session file was seen; stopping: stop_session was called on it; sound: the
\* worker published its result; norm, fall: cleanup-normal-1 and cleanup-fallback-1;
\* filed: task.tsv with the result, collector-result.tsv and delivery.tsv are written.
TaskRec ==
  [at : {"none", "setup", "session", "wait", "fallback", "ended"}, phase : Phase,
   canceled : BOOLEAN, known : BOOLEAN, stopping : BOOLEAN, expired : BOOLEAN,
   worker : {"none", "run", "stop", "done", "dead"}, exec : {"ok", "bad", "late"},
   intr : BOOLEAN, sound : BOOLEAN, norm : {"none", "open", "yes", "no"},
   fall : {"none", "yes", "no"}, log : {"ok", "bad", "lost"}, filed : BOOLEAN,
   result : L!Row]

NewTask(p) ==
  [at |-> "setup", phase |-> p, canceled |-> FALSE, known |-> FALSE, stopping |-> FALSE,
   expired |-> FALSE, worker |-> "none", exec |-> "ok", intr |-> FALSE, sound |-> FALSE,
   norm |-> "none", fall |-> "none", log |-> "ok", filed |-> FALSE,
   result |-> L!Running]
NoTask == [NewTask(0) EXCEPT !.at = "none"]

NewControl(r) ==
  [at |-> "dispatch", rolling |-> r, phase |-> 0, next |-> 1, active |-> {},
   reaped |-> 0, failed |-> FALSE, bad |-> FALSE, blocked |-> {},
   last |-> [g \in Group |-> [st |-> "none", clean |-> FALSE]],
   cancelled |-> FALSE, pruned |-> FALSE]

Init ==
  /\ \E r \in BOOLEAN : c = NewControl(r)
  /\ L!LedgerInit
  /\ ws = [g \in Group |-> NoWs] /\ t = [g \in Group |-> NoTask]
  /\ sent = [g \in Group |-> {}] /\ ranks = [g \in Group |-> {}]
  /\ tomb = [g \in Group |-> {}] /\ faults = 0

\* A failure, if the bound allows another one.
Fault == faults < MaxFault /\ faults' = faults + 1
NoFault == UNCHANGED faults

-----------------------------------------------------------------------------
(* The nodes.                                                              *)

\* A start comes to a node, however late, if no tombstone refuses it.
Arrives(g, p) ==
  /\ p \in sent[g] /\ p \notin tomb[g]
  /\ sent' = [sent EXCEPT ![g] = @ \ {p}]
  /\ ranks' = [ranks EXCEPT ![g] = @ \cup {p}]
  /\ UNCHANGED <<c, row, ws, t, tomb, faults>>

\* task_guard stop: STOPPED is the truth (TaskGuard); else it came some of the way.
Stops(g, p, answer) ==
  /\ UNCHANGED sent
  /\ \/ /\ answer = "yes" /\ NoFault
        /\ tomb' = [tomb EXCEPT ![g] = @ \cup {p}]
        /\ ranks' = [ranks EXCEPT ![g] = @ \ {p}]
     \/ /\ answer = "no" /\ Fault
        /\ \/ UNCHANGED tomb
           \/ tomb' = [tomb EXCEPT ![g] = @ \cup {p}]
        /\ UNCHANGED ranks

-----------------------------------------------------------------------------
(* The worker (worker.sh) of a task.                                       *)

\* The payload ended, failed or ran into the time limit on its node, or the connection
\* was lost; the worker goes on to its cleanup.  What is left on the nodes lives on.
PayloadReturns(g) ==
  /\ t[g].worker = "run"
  /\ \E e \in {"ok", "bad", "late"} :
       /\ e = "ok" => t[g].phase \notin sent[g]
       /\ t' = [t EXCEPT ![g].worker = "stop", ![g].exec = e, ![g].norm = "open"]
  /\ \/ UNCHANGED ranks
     \/ ranks' = [ranks EXCEPT ![g] = @ \ {t[g].phase}]
  /\ UNCHANGED <<c, row, ws, sent, tomb, faults>>

\* TERM: straight to the cleanup.  During the cleanup it is only recorded.
WorkerTermed(g) ==
  /\ t[g].stopping /\ t[g].worker = "run"
  /\ t' = [t EXCEPT ![g].worker = "stop", ![g].exec = "bad", ![g].intr = TRUE,
                    ![g].norm = "open"]
  /\ UNCHANGED <<c, row, ws, nodes, faults>>

StopAnswers(g) ==
  /\ t[g].worker = "stop" /\ t[g].norm = "open"
  /\ \E answer \in {"yes", "no"} :
       /\ Stops(g, t[g].phase, answer)
       /\ t' = [t EXCEPT ![g].norm = answer]
  /\ UNCHANGED <<c, row, ws>>

\* node-results.tsv and worker-result.tsv.
WorkerCloses(g) ==
  /\ t[g].worker = "stop" /\ t[g].norm # "open"
  /\ \/ /\ NoFault
        /\ t' = [t EXCEPT ![g].worker = "done", ![g].sound = TRUE]
     \/ /\ Fault
        /\ t' = [t EXCEPT ![g].worker = "done"]
  /\ UNCHANGED <<c, row, ws, nodes>>

\* stop_session 27 s after its TERM; or the host, at any time.
WorkerKilled(g) ==
  /\ t[g].worker \in {"run", "stop"}
  /\ (t[g].stopping /\ NoFault) \/ Fault
  /\ t' = [t EXCEPT ![g].worker = "dead"]
  /\ UNCHANGED <<c, row, ws, nodes>>

-----------------------------------------------------------------------------
(* run_task                                                                *)

\* Cancelled or failing before the worker is started: nothing is handed over.
SetupEnds(g) ==
  /\ t[g].at = "setup"
  /\ (t[g].canceled /\ NoFault) \/ Fault
  /\ t' = [t EXCEPT ![g].at = "ended"]
  /\ UNCHANGED <<c, row, ws, nodes>>

WorkerStarts(g) ==
  /\ t[g].at = "setup" /\ ~ t[g].canceled
  /\ t' = [t EXCEPT ![g].at = "session", ![g].worker = "run"]
  /\ sent' = [sent EXCEPT ![g] = @ \cup {t[g].phase}]
  /\ UNCHANGED <<c, row, ws, ranks, tomb, faults>>

\* A cancel that came before the session was known is made up for.
SessionSeen(g) ==
  /\ t[g].at = "session"
  /\ t' = [t EXCEPT ![g].at = "wait", ![g].known = TRUE, ![g].stopping = @ \/ t[g].canceled]
  /\ UNCHANGED <<c, row, ws, nodes, faults>>

\* Not within 5 s, or the worker ended first: no watchdog, and nothing to stop.
SessionMissed(g) ==
  /\ t[g].at = "session"
  /\ (t[g].worker \in {"done", "dead"} /\ NoFault) \/ Fault
  /\ t' = [t EXCEPT ![g].at = "wait"]
  /\ UNCHANGED <<c, row, ws, nodes>>

\* The marker is left, the session is not stopped.
Bug_WatchdogExpires(g) ==
  /\ t[g].at = "wait" /\ t[g].known /\ ~ t[g].expired
  /\ t[g].worker \in {"run", "stop"}
  /\ t' = [t EXCEPT ![g].expired = TRUE]
  /\ UNCHANGED <<c, row, ws, nodes, faults>>

WatchdogExpires(g) ==
  /\ t[g].at = "wait" /\ t[g].known /\ ~ t[g].expired
  /\ t[g].worker \in {"run", "stop"}
  /\ t' = [t EXCEPT ![g].expired = TRUE, ![g].stopping = TRUE]
  /\ UNCHANGED <<c, row, ws, nodes, faults>>

WorkerJoined(g) ==
  /\ t[g].at = "wait" /\ t[g].worker \in {"done", "dead"}
  /\ t' = [t EXCEPT ![g].at = "fallback", ![g].stopping = FALSE]
  /\ UNCHANGED <<c, row, ws, nodes, faults>>

HasNormal(r) == r.norm \in {"yes", "no"}

\* A second stop, only if the worker left no result of the first.
FallbackStops(g) ==
  /\ t[g].at = "fallback" /\ ~ HasNormal(t[g]) /\ t[g].fall = "none"
  /\ \E answer \in {"yes", "no"} :
       /\ Stops(g, t[g].phase, answer)
       /\ t' = [t EXCEPT ![g].fall = answer]
  /\ UNCHANGED <<c, row, ws>>

\* That the stop was tried is taken for its success.
Bug_Clean(r) == HasNormal(r) \/ r.fall = "yes"

Clean(r) == IF HasNormal(r) THEN r.norm = "yes" ELSE r.fall = "yes"

\* The exit code of the worker, as run_task corrects it, is 0.
Succeeded(r) ==
  /\ r.worker = "done" /\ r.sound /\ r.exec = "ok" /\ ~ r.intr
  /\ r.known /\ r.norm = "yes"

Verdict(r, l) ==
  IF l # "ok" \/ ~ Clean(r) THEN "FAIL"
  ELSE IF r.canceled THEN "CANCELLED"
  ELSE IF r.expired \/ (r.exec = "late" /\ ~ r.intr) THEN "TIMEOUT"
  ELSE IF Succeeded(r) THEN "PASS" ELSE "FAIL"

\* The log is closed and the hand-over written; nothing else of the task is of use.
TaskEnds(g) ==
  /\ t[g].at = "fallback" /\ (HasNormal(t[g]) \/ t[g].fall # "none")
  /\ \E l \in {"ok", "bad", "lost"} :
       /\ IF l = "ok" THEN NoFault ELSE Fault
       /\ t' = [t EXCEPT ![g] =
                   [NewTask(t[g].phase) EXCEPT
                      !.at = "ended", !.filed = TRUE, !.log = l, !.sound = t[g].sound,
                      !.result = [st |-> Verdict(t[g], l), clean |-> Clean(t[g])]]]
  /\ UNCHANGED <<c, row, ws, nodes>>

\* run_task returned 0.
ReturnsZero(r) == r.filed /\ r.result.st = "PASS"

-----------------------------------------------------------------------------
(* The controller.                                                         *)

\* state_facts.finish: every file of the hand-over is there and closed.
Acceptable(r) == r.filed /\ r.log # "lost" /\ r.sound

\* The cleanup is not looked at.
Bug_Recyclable(r) == r.log = "ok"

Recyclable(r) == r.result.clean /\ r.log = "ok"

Publish(g, p, r) == row' = [row EXCEPT ![g][p] = r]

\* commit_facts start, finish or blocked may fail before it publishes, or after it but
\* before LAST_STATUS and LAST_CLEANUP are set.
LaunchBlocked(g) ==
  /\ g \in c.blocked
  /\ \/ /\ Publish(g, c.phase, L!Blocked) /\ NoFault
        /\ c' = [c EXCEPT !.next = @ + 1, !.last[g] = L!Blocked]
     \/ /\ Fault
        /\ \/ UNCHANGED row
           \/ Publish(g, c.phase, L!Blocked)
        /\ c' = [c EXCEPT !.next = @ + 1, !.failed = TRUE]
  /\ UNCHANGED <<ws, t, nodes>>

Excluded(g) == [c EXCEPT !.next = @ + 1, !.failed = TRUE, !.blocked = @ \cup {g}]

LaunchRefused(g) ==
  /\ g \notin c.blocked /\ ws[g] # NoWs
  /\ c' = Excluded(g)
  /\ UNCHANGED <<row, ws, t, nodes, faults>>

\* What comes before the start is committed may fail too: with no workspace the group is
\* launched again in the next stage.
LaunchStarts(g) ==
  /\ g \notin c.blocked /\ ws[g] = NoWs
  /\ \/ /\ NoFault
        /\ ws' = [ws EXCEPT ![g] = c.phase]
        /\ Publish(g, c.phase, L!Running)
        /\ t' = [t EXCEPT ![g] = NewTask(c.phase)]
        /\ c' = [c EXCEPT !.next = @ + 1, !.active = @ \cup {g}, !.last[g] = L!Running]
     \/ /\ Fault
        /\ \/ ws' = [ws EXCEPT ![g] = c.phase]
           \/ UNCHANGED ws
        /\ c' = [c EXCEPT !.next = @ + 1, !.failed = TRUE]
        /\ UNCHANGED <<row, t>>
     \/ /\ Fault
        /\ ws' = [ws EXCEPT ![g] = c.phase]
        /\ \/ UNCHANGED row
           \/ Publish(g, c.phase, L!Running)
        /\ c' = Excluded(g)
        /\ UNCHANGED t
  /\ UNCHANGED nodes

Room == c.next <= NG /\ Cardinality(c.active) < Concurrency

Launch ==
  /\ c.at = "dispatch" /\ Room
  /\ LaunchBlocked(c.next) \/ LaunchRefused(c.next) \/ LaunchStarts(c.next)

\* collect_task: publish the result, give the workspace up, keep the group from going on
\* if anything of that is missing.  at, active: where the caller goes on.
Collected(g, at, active, failed) ==
  LET r == t[g]
      kept(bad) == [c EXCEPT !.at = at, !.active = active,
                             !.reaped = 0, !.failed = @ \/ failed \/ bad]
      lost == [kept(TRUE) EXCEPT !.blocked = @ \cup {g}]
  IN /\ t' = [t EXCEPT ![g] = NoTask]
     /\ UNCHANGED nodes
     /\ \/ /\ Acceptable(r) /\ NoFault
           /\ Publish(g, r.phase, r.result)
           /\ ws' = IF Recyclable(r) THEN [ws EXCEPT ![g] = NoWs] ELSE ws
           /\ c' = [kept(FALSE) EXCEPT !.last[g] = r.result,
                                       !.blocked = IF r.result.clean THEN @ ELSE @ \cup {g}]
        \/ /\ ~ Acceptable(r) /\ NoFault
           /\ c' = lost
           /\ UNCHANGED <<row, ws>>
        \/ /\ Acceptable(r) /\ Fault      \* not published, or published and not recycled
           /\ \/ /\ c' = lost
                 /\ \/ UNCHANGED row
                    \/ Publish(g, r.phase, r.result)
              \/ /\ Publish(g, r.phase, r.result)
                 /\ Recyclable(r)
                 /\ c' = [lost EXCEPT !.last[g] = r.result]
           /\ UNCHANGED ws

\* wait -n -p: the pid leaves ACTIVE_PIDS, and is collected after that.
Reap ==
  /\ c.at = "dispatch" /\ c.rolling /\ ~ Room
  /\ \E g \in c.active :
       /\ t[g].at = "ended"
       /\ c' = [c EXCEPT !.at = "reaped", !.reaped = g, !.active = @ \ {g},
                         !.failed = @ \/ ~ ReturnsZero(t[g])]
  /\ UNCHANGED <<row, ws, t, nodes, faults>>

CollectReaped == c.at = "reaped" /\ Collected(c.reaped, "dispatch", c.active, FALSE)

WaveBegins ==
  /\ c.at = "dispatch" /\ ~ c.rolling /\ ~ Room /\ c.active # {}
  /\ c' = [c EXCEPT !.at = "wave"]
  /\ UNCHANGED <<row, ws, t, nodes, faults>>

\* The tasks are waited for in the order in which they were launched.
First(g) == g \in c.active /\ \A h \in c.active : g <= h

CollectWave ==
  /\ c.at = "wave"
  /\ \E g \in Group :
       /\ First(g) /\ t[g].at = "ended"
       /\ Collected(g, IF c.active = {g} THEN "dispatch" ELSE "wave", c.active \ {g},
                    ~ ReturnsZero(t[g]))

\* The run is over with its preflight.
Bug_NoStages == c.phase >= 0

LastStage == c.phase = NS

\* A preflight that failed excludes nobody.
Bug_Isolated == IF c.phase = 0 THEN {} ELSE {g \in Group : ~ c.last[g].clean}

\* After the preflight the groups that did not pass; after a stage those whose last
\* cleanup is not confirmed.
Isolated ==
  IF c.phase = 0
  THEN {g \in Group : c.failed /\ c.last[g].st # "PASS"}
  ELSE {g \in Group : ~ c.last[g].clean}

StageEnds ==
  /\ c.at = "dispatch" /\ c.next > NG /\ c.active = {}
  /\ LET done == [c EXCEPT !.bad = @ \/ c.failed \/ (c.phase > 0 /\ Isolated # {}),
                           !.failed = FALSE, !.blocked = @ \cup Isolated]
     IN c' = IF LastStage THEN [done EXCEPT !.at = "report"]
             ELSE [done EXCEPT !.phase = @ + 1, !.next = 1]
  /\ UNCHANGED <<row, ws, t, nodes, faults>>

\* interrupt_run: TERM for the tasks in ACTIVE_PIDS, which are then waited for.  What
\* the dispatch loop kept for later is of no use any more.
Signal ==
  /\ c.at \in {"dispatch", "reaped", "wave", "report"} /\ ~ c.cancelled
  /\ c' = [NewControl(FALSE) EXCEPT !.at = "cancel", !.cancelled = TRUE, !.active = c.active]
  /\ t' = [g \in Group |->
             IF g \in c.active /\ t[g].at # "ended"
             THEN [t[g] EXCEPT !.canceled = TRUE, !.stopping = @ \/ t[g].known]
             ELSE t[g]]
  /\ UNCHANGED <<row, ws, nodes, faults>>

CollectCancelled ==
  /\ c.at = "cancel"
  /\ \/ /\ c.active = {}
        /\ c' = [c EXCEPT !.at = "report"]
        /\ UNCHANGED <<row, ws, t, nodes, faults>>
     \/ \E g \in Group :
          /\ First(g) /\ t[g].at = "ended"
          /\ Collected(g, "cancel", c.active \ {g}, FALSE)

\* finish_reporter, finalize_runtime_state, exit.
RunOver ==
  /\ c.at = "report"
  /\ c' = [c EXCEPT !.at = "over", !.pruned = \A g \in Group : ws[g] = NoWs]
  /\ UNCHANGED <<row, ws, t, nodes, faults>>

\* A second signal (the handler is reset), SIGHUP, SIGKILL.  The tasks go on alone.
Killed ==
  /\ c.at \notin {"over", "killed"}
  /\ c' = [NewControl(FALSE) EXCEPT !.at = "killed"]
  /\ UNCHANGED <<row, ws, t, nodes, faults>>

Controller ==
  Launch \/ Reap \/ CollectReaped \/ WaveBegins \/ CollectWave \/ StageEnds
  \/ CollectCancelled \/ RunOver

Task(g) ==
  \/ PayloadReturns(g) \/ WorkerTermed(g) \/ StopAnswers(g) \/ WorkerCloses(g)
  \/ WorkerKilled(g) \/ SetupEnds(g) \/ WorkerStarts(g) \/ SessionSeen(g)
  \/ SessionMissed(g) \/ WatchdogExpires(g) \/ WorkerJoined(g) \/ FallbackStops(g)
  \/ TaskEnds(g)

Next ==
  \/ Controller \/ Signal \/ Killed
  \/ \E g \in Group : Task(g) \/ \E p \in Phase : Arrives(g, p)

Spec == Init /\ [][Next]_vars

-----------------------------------------------------------------------------
(* What should hold.                                                       *)

TypeOK ==
  /\ c \in ControlRec
  /\ row \in [Group -> [Phase -> L!Row]]
  /\ ws \in [Group -> Phase \cup {NoWs}]
  /\ t \in [Group -> TaskRec]
  /\ sent \in [Group -> SUBSET Phase] /\ ranks \in [Group -> SUBSET Phase]
  /\ tomb \in [Group -> SUBSET Phase]
  /\ faults \in 0..MaxFault

\* The nodes of a group never run ranks of two phases at once, whatever was delayed,
\* killed, cancelled or left unconfirmed: a test measures itself only.
OneTenant == \A g \in Group : Cardinality(ranks[g]) <= 1

\* Whatever was started and is not closed with a confirmed cleanup keeps its workspace,
\* and while there is one the common runtime files stay.
EvidenceKept ==
  /\ \A g \in Group, p \in Phase :
       row[g][p].st \notin {"planned", "BLOCKED"} /\ ~ row[g][p].clean => ws[g] = p
  /\ c.pruned => \A g \in Group : ws[g] = NoWs /\ t[g].at = "none"

\* A run that ends with nothing to complain of has passed everything it planned.
NoSilentFailure ==
  c.at = "over" /\ ~ c.bad /\ ~ c.cancelled =>
    \A g \in Group, p \in Phase : row[g][p] = [st |-> "PASS", clean |-> TRUE]

\* facts.json keeps what it promises its readers.
LedgerKept == L!LedgerSpec

\* The controller and run_task take their steps, stop_session kills, the stop commands
\* have their time limits.  A worker that can be stopped is not trusted to end; one
\* whose session was missed is bounded by the limit on its node only.
Fairness ==
  /\ WF_vars(Controller)
  /\ \A g \in Group :
       /\ WF_vars(WorkerStarts(g) \/ SetupEnds(g)) /\ WF_vars(SessionSeen(g))
       /\ WF_vars(WatchdogExpires(g)) /\ WF_vars(WorkerJoined(g))
       /\ WF_vars(t[g].stopping /\ WorkerKilled(g))
       /\ WF_vars(FallbackStops(g)) /\ WF_vars(TaskEnds(g))
       /\ WF_vars(~ t[g].known /\ (PayloadReturns(g) \/ StopAnswers(g) \/ WorkerCloses(g)))
       /\ \A p \in Phase : WF_vars(Arrives(g, p))

FairSpec == Spec /\ Fairness

\* Every run comes to its end, and so does a cancelled one.
RunEnds == <>(c.at \in {"over", "killed"})
================================================================================
