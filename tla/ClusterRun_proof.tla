--------------------------- MODULE ClusterRun_proof ---------------------------
(***************************************************************************)
(* The safety of a cluster run, for any number of groups, stages and       *)
(* failures, by one inductive invariant.  Its parts: Tenants (what may     *)
(* still run on the nodes of a group is the task whose workspace exists),  *)
(* Handed (what a task hands over is what became of it), Kept (an open or  *)
(* unconfirmed row has its workspace), Dispatch (what the controller knows *)
(* of the groups while it dispatches a phase).                             *)
(***************************************************************************)
EXTENDS ClusterRun, FiniteSetTheorems, TLAPS

Dispatching == c.at \in {"dispatch", "reaped", "wave"}

\* The groups whose task is launched and not collected.
Busy == c.active \cup {g \in Group : c.reaped = g}

Tenants ==
  \A g \in Group :
    /\ t[g].at # "none" => ws[g] = t[g].phase
    /\ \A p \in Phase : p \in ranks[g] \/ p \in sent[g] \ tomb[g] => ws[g] = p

Gone(g, p) == p \in tomb[g] /\ p \notin ranks[g]

Handed ==
  \A g \in Group :
    /\ t[g].norm = "yes" \/ t[g].fall = "yes" \/ (t[g].filed /\ t[g].result.clean)
         => Gone(g, t[g].phase)
    /\ t[g].filed => /\ t[g].at = "ended" /\ t[g].worker = "none"
                     /\ L!Closed(t[g].result) /\ (t[g].result.st = "PASS" => t[g].result.clean)

Kept ==
  \A g \in Group, p \in Phase :
    LET r == row[g][p] IN
      /\ r \in {L!Planned, L!Running, L!Blocked} \/ L!Closed(r)
      /\ r.st = "PASS" => r.clean
      /\ r.st \notin {"planned", "BLOCKED"} /\ ~ r.clean => ws[g] = p

Open ==
  /\ \A g \in Busy : t[g].at # "none" /\ row[g][t[g].phase] = L!Running
  /\ c.reaped \notin c.active
  /\ c.at = "wave" => c.active # {}
  /\ c.at # "reaped" => c.reaped = 0
  /\ c.at = "reaped" => c.reaped # 0
  /\ c.pruned => c.at = "over" /\ \A g \in Group : ws[g] = NoWs

AllPassed(p) == \A g \in Group : row[g][p].st = "PASS"

Dispatch ==
  Dispatching =>
    /\ \A g \in Busy : t[g].phase = c.phase /\ g < c.next
    /\ \A g \in Group, p \in Phase :
         p > c.phase \/ (p = c.phase /\ g >= c.next) => row[g][p] = L!Planned
    /\ \A g \in Group, p \in Phase : row[g][p] = L!Blocked => g \in c.blocked
    /\ c.phase = 0 => ~ c.bad /\ \A g \in Group : c.last[g].st = "PASS" => row[g][0].st = "PASS"
    /\ c.phase > 0 => \A g \in Group \ c.blocked : row[g][0].st = "PASS"
    /\ ~ c.bad /\ ~ c.failed =>
         /\ c.blocked = {}
         /\ \A p \in Phase : p < c.phase => AllPassed(p)
         /\ \A g \in Group : g < c.next => g \in Busy \/ row[g][c.phase].st = "PASS"
         /\ \A g \in Group : c.reaped = g => ReturnsZero(t[g])

Finished ==
  /\ c.at = "cancel" => c.cancelled
  /\ c.at \in {"report", "over"} /\ ~ c.bad /\ ~ c.cancelled => \A p \in Phase : AllPassed(p)

IInv == TypeOK /\ Tenants /\ Handed /\ Kept /\ Open /\ Dispatch /\ Finished

-----------------------------------------------------------------------------
(* Types.                                                                  *)

LEMMA NewTaskTyped == \A p \in Phase : NewTask(p) \in TaskRec
  BY DEF NewTask, TaskRec, L!Row, L!Running, L!Status

LEMMA NoTaskTyped == NoTask \in TaskRec
<1>1. NewTask(0) \in TaskRec
  BY RunAssumption, NewTaskTyped DEF Phase
<1> QED
  BY <1>1 DEF NoTask, TaskRec

LEMMA TypeInit == Init => TypeOK
<1> SUFFICES ASSUME Init PROVE TypeOK
  OBVIOUS
<1>1. c \in ControlRec
  BY RunAssumption DEF Init, NewControl, ControlRec, Group, Phase
<1>2. t \in [Group -> TaskRec]
  BY NoTaskTyped DEF Init
<1>3. row \in [Group -> [Phase -> L!Row]]
  BY DEF Init, L!LedgerInit, L!Row, L!Planned
<1> QED
  BY <1>1, <1>2, <1>3, RunAssumption DEF Init, TypeOK, NoWs

\* What the tasks do to themselves.
LEMMA TaskTyped ==
  ASSUME TypeOK, NEW g \in Group, Task(g)
  PROVE  t' \in [Group -> TaskRec]
<1> DEFINE r == t[g]
<1>0. t \in [Group -> TaskRec] /\ r \in TaskRec
  BY DEF TypeOK
<1> HIDE DEF r
<1>1. CASE PayloadReturns(g)
  <2>1. \A e \in {"ok", "bad", "late"} :
          [r EXCEPT !.worker = "stop", !.exec = e, !.norm = "open"] \in TaskRec
    BY <1>0 DEF TaskRec
  <2> QED
    BY <1>0, <1>1, <2>1 DEF PayloadReturns, r
<1>2. CASE WorkerTermed(g)
  <2>1. [r EXCEPT !.worker = "stop", !.exec = "bad", !.intr = TRUE, !.norm = "open"] \in TaskRec
    BY <1>0 DEF TaskRec
  <2> QED
    BY <1>0, <1>2, <2>1 DEF WorkerTermed, r
<1>3. CASE StopAnswers(g)
  <2>1. \A e \in {"yes", "no"} : [r EXCEPT !.norm = e] \in TaskRec
    BY <1>0 DEF TaskRec
  <2> QED
    BY <1>0, <1>3, <2>1 DEF StopAnswers, r
<1>4. CASE WorkerCloses(g)
  <2>1. /\ [r EXCEPT !.worker = "done", !.sound = TRUE] \in TaskRec
        /\ [r EXCEPT !.worker = "done"] \in TaskRec
    BY <1>0 DEF TaskRec
  <2> QED
    BY <1>0, <1>4, <2>1 DEF WorkerCloses, r
<1>5. CASE WorkerKilled(g)
  <2>1. [r EXCEPT !.worker = "dead"] \in TaskRec
    BY <1>0 DEF TaskRec
  <2> QED
    BY <1>0, <1>5, <2>1 DEF WorkerKilled, r
<1>6. CASE SetupEnds(g)
  <2>1. [r EXCEPT !.at = "ended"] \in TaskRec
    BY <1>0 DEF TaskRec
  <2> QED
    BY <1>0, <1>6, <2>1 DEF SetupEnds, r
<1>7. CASE WorkerStarts(g)
  <2>1. [r EXCEPT !.at = "session", !.worker = "run"] \in TaskRec
    BY <1>0 DEF TaskRec
  <2> QED
    BY <1>0, <1>7, <2>1 DEF WorkerStarts, r
<1>8. CASE SessionSeen(g)
  <2>1. r.stopping \in BOOLEAN /\ r.canceled \in BOOLEAN
    BY <1>0 DEF TaskRec
  <2>2. \A b \in BOOLEAN : [r EXCEPT !.at = "wait", !.known = TRUE, !.stopping = b] \in TaskRec
    BY <1>0 DEF TaskRec
  <2>3. (r.stopping \/ r.canceled) \in BOOLEAN
    BY <2>1
  <2>4. [r EXCEPT !.at = "wait", !.known = TRUE, !.stopping = r.stopping \/ r.canceled] \in TaskRec
    BY <2>2, <2>3
  <2>5. t' = [t EXCEPT ![g] = [r EXCEPT !.at = "wait", !.known = TRUE,
                                        !.stopping = r.stopping \/ r.canceled]]
    BY <1>8 DEF SessionSeen, r
  <2> QED
    BY <1>0, <2>4, <2>5
<1>9. CASE SessionMissed(g)
  <2>1. [r EXCEPT !.at = "wait"] \in TaskRec
    BY <1>0 DEF TaskRec
  <2> QED
    BY <1>0, <1>9, <2>1 DEF SessionMissed, r
<1>10. CASE WatchdogExpires(g)
  <2>1. [r EXCEPT !.expired = TRUE, !.stopping = TRUE] \in TaskRec
    BY <1>0 DEF TaskRec
  <2> QED
    BY <1>0, <1>10, <2>1 DEF WatchdogExpires, r
<1>11. CASE WorkerJoined(g)
  <2>1. [r EXCEPT !.at = "fallback", !.stopping = FALSE] \in TaskRec
    BY <1>0 DEF TaskRec
  <2> QED
    BY <1>0, <1>11, <2>1 DEF WorkerJoined, r
<1>12. CASE FallbackStops(g)
  <2>1. \A e \in {"yes", "no"} : [r EXCEPT !.fall = e] \in TaskRec
    BY <1>0 DEF TaskRec
  <2> QED
    BY <1>0, <1>12, <2>1 DEF FallbackStops, r
<1>13. CASE TaskEnds(g)
  <2>1. PICK l \in {"ok", "bad", "lost"} :
          t' = [t EXCEPT ![g] =
                  [NewTask(t[g].phase) EXCEPT
                     !.at = "ended", !.filed = TRUE, !.log = l, !.sound = t[g].sound,
                     !.result = [st |-> Verdict(t[g], l), clean |-> Clean(t[g])]]]
    BY <1>13 DEF TaskEnds
  <2>2. t[g].phase \in Phase /\ t[g].sound \in BOOLEAN
    BY <1>0 DEF TaskRec, r
  <2>3. Verdict(t[g], l) \in L!Status /\ Clean(t[g]) \in BOOLEAN
    BY DEF Verdict, Clean, L!Status
  <2>4. [st |-> Verdict(t[g], l), clean |-> Clean(t[g])] \in L!Row
    BY <2>3 DEF L!Row
  <2>5. NewTask(t[g].phase) \in TaskRec
    BY <2>2, NewTaskTyped
  <2>6. \A n \in TaskRec, b \in BOOLEAN, x \in L!Row :
          [n EXCEPT !.at = "ended", !.filed = TRUE, !.log = l, !.sound = b, !.result = x] \in TaskRec
    BY DEF TaskRec
  <2> QED
    BY <1>0, <2>1, <2>2, <2>4, <2>5, <2>6
<1> QED
  BY <1>1, <1>2, <1>3, <1>4, <1>5, <1>6, <1>7, <1>8, <1>9, <1>10, <1>11, <1>12, <1>13 DEF Task

LastRec == [st : {"none", "BLOCKED", "RUNNING"} \cup L!Status, clean : BOOLEAN]

\* What a dispatch step writes into the controller.
LEMMA ControlUpdates ==
  ASSUME NEW k \in ControlRec, NEW g \in Group
  PROVE  /\ \A n \in 1..(NG + 1) : [k EXCEPT !.next = n] \in ControlRec
         /\ \A b \in BOOLEAN : [k EXCEPT !.failed = b] \in ControlRec
         /\ \A b \in BOOLEAN : [k EXCEPT !.bad = b] \in ControlRec
         /\ \A A \in SUBSET Group : [k EXCEPT !.active = A] \in ControlRec
         /\ \A A \in SUBSET Group : [k EXCEPT !.blocked = A] \in ControlRec
         /\ \A x \in LastRec : [k EXCEPT !.last[g] = x] \in ControlRec
         /\ \A x \in {"dispatch", "reaped", "wave", "cancel", "report", "over", "killed"} :
              [k EXCEPT !.at = x] \in ControlRec
         /\ \A x \in 0..NG : [k EXCEPT !.reaped = x] \in ControlRec
         /\ \A x \in Phase : [k EXCEPT !.phase = x] \in ControlRec
         /\ \A b \in BOOLEAN : [k EXCEPT !.cancelled = b] \in ControlRec
         /\ \A b \in BOOLEAN : [k EXCEPT !.pruned = b] \in ControlRec
<1>1. \A x \in LastRec : [k.last EXCEPT ![g] = x] \in [Group -> LastRec]
  BY DEF ControlRec, LastRec
<1>2. \A x \in LastRec : [k EXCEPT !.last[g] = x] = [k EXCEPT !.last = [k.last EXCEPT ![g] = x]]
  BY DEF ControlRec
<1>3. \A f \in [Group -> LastRec] : [k EXCEPT !.last = f] \in ControlRec
  BY DEF ControlRec, LastRec
<1>4. \A x \in LastRec : [k EXCEPT !.last[g] = x] \in ControlRec
  BY <1>1, <1>2, <1>3
<1> QED
  BY <1>4 DEF ControlRec

LEMMA NewControlTyped == \A r \in BOOLEAN : NewControl(r) \in ControlRec
  BY RunAssumption DEF NewControl, ControlRec, Group, Phase

LEMMA FewFaults == ASSUME TypeOK, Fault \/ NoFault PROVE faults' \in 0..MaxFault
  BY RunAssumption DEF TypeOK, Fault, NoFault

LEMMA PublishTyped ==
  ASSUME TypeOK, NEW g \in Group, NEW p \in Phase, NEW r \in L!Row, Publish(g, p, r)
  PROVE  row' \in [Group -> [Phase -> L!Row]]
  BY DEF TypeOK, Publish

LEMMA LedgerRows == L!Planned \in L!Row /\ L!Running \in L!Row /\ L!Blocked \in L!Row
  BY DEF L!Planned, L!Running, L!Blocked, L!Row

LEMMA CollectedTyped ==
  ASSUME TypeOK, Handed, NEW g \in Group, NEW at \in {"dispatch", "wave", "cancel"},
         NEW A \in SUBSET Group, NEW bad \in BOOLEAN, Collected(g, at, A, bad)
  PROVE  TypeOK'
<1> DEFINE r == t[g]
           kept(b) == [c EXCEPT !.at = at, !.active = A, !.reaped = 0,
                                !.failed = @ \/ bad \/ b]
           lost == [kept(TRUE) EXCEPT !.blocked = @ \cup {g}]
<1>1. r \in TaskRec /\ c \in ControlRec
  BY DEF TypeOK
<1>2. \A b \in BOOLEAN : kept(b) \in ControlRec
  <2> TAKE b \in BOOLEAN
  <2> DEFINE f == c.failed \/ bad \/ b
  <2>1. f \in BOOLEAN
    BY <1>1 DEF ControlRec
  <2>2. kept(b) = [c EXCEPT !.at = at, !.active = A, !.reaped = 0, !.failed = f]
    OBVIOUS
  <2> HIDE DEF f, kept
  <2>3. at \in {"dispatch", "reaped", "wave", "cancel", "report", "over", "killed"} /\ 0 \in 0..NG
    BY RunAssumption
  <2>4. [c EXCEPT !.at = at, !.active = A, !.reaped = 0, !.failed = f] \in ControlRec
    BY <1>1, <2>1, <2>3 DEF ControlRec
  <2> QED
    BY <2>2, <2>4
<1> HIDE DEF kept
<1>3. \A k \in ControlRec : [k EXCEPT !.blocked = @ \cup {g}] \in ControlRec
  BY DEF ControlRec
<1>4. lost \in ControlRec
  BY <1>2, <1>3
<1>5. Acceptable(r) => r.result \in LastRec
  BY <1>1 DEF Handed, Acceptable, L!Closed, TaskRec, L!Row, LastRec
<1>6. Acceptable(r) => \A k \in ControlRec : [k EXCEPT !.last[g] = r.result] \in ControlRec
  BY <1>5, ControlUpdates
<1>7. r.phase \in Phase /\ r.result \in L!Row
  BY <1>1 DEF TaskRec
<1>8. t' \in [Group -> TaskRec] /\ UNCHANGED nodes
  BY NoTaskTyped DEF Collected, TypeOK
<1>9. Fault \/ NoFault
  BY DEF Collected
<1>10. row' \in [Group -> [Phase -> L!Row]]
  <2>1. Publish(g, r.phase, r.result) \/ UNCHANGED row
    BY DEF Collected, r
  <2> QED
    BY <1>7, <2>1, PublishTyped DEF TypeOK
<1>11. ws' \in [Group -> Phase \cup {NoWs}]
  <2>1. \/ UNCHANGED ws
        \/ ws' = [ws EXCEPT ![g] = NoWs]
    BY DEF Collected
  <2> QED
    BY <2>1 DEF TypeOK
<1>12. c' \in ControlRec
  <2>1. CASE /\ Acceptable(r)
             /\ c' = [kept(FALSE) EXCEPT !.last[g] = r.result,
                        !.blocked = IF r.result.clean THEN @ ELSE @ \cup {g}]
    <3>1. kept(FALSE) \in ControlRec
      BY <1>2
    <3>2. [kept(FALSE) EXCEPT !.last[g] = r.result] \in ControlRec
      BY <1>6, <2>1, <3>1
    <3>3. c' = IF r.result.clean THEN [kept(FALSE) EXCEPT !.last[g] = r.result]
               ELSE [[kept(FALSE) EXCEPT !.last[g] = r.result] EXCEPT !.blocked = @ \cup {g}]
      BY <2>1, <3>1 DEF ControlRec
    <3> QED
      BY <1>3, <3>2, <3>3
  <2>2. CASE c' = lost
    BY <1>4, <2>2
  <2>3. CASE Acceptable(r) /\ c' = [lost EXCEPT !.last[g] = r.result]
    BY <1>4, <1>6, <2>3
  <2> QED
    BY <2>1, <2>2, <2>3 DEF Collected, kept
<1>13. sent' \in [Group -> SUBSET Phase] /\ ranks' \in [Group -> SUBSET Phase]
       /\ tomb' \in [Group -> SUBSET Phase]
  BY <1>8 DEF TypeOK, nodes
<1>14. faults' \in 0..MaxFault
  BY <1>9, FewFaults
<1> QED
  BY <1>8, <1>10, <1>11, <1>12, <1>13, <1>14 DEF TypeOK

LEMMA LaunchTyped ==
  ASSUME TypeOK, Launch
  PROVE  TypeOK'
<1> DEFINE g == c.next
<1>1. g \in Group /\ c \in ControlRec /\ c.next + 1 \in 1..(NG + 1) /\ c.phase \in Phase
  BY RunAssumption DEF Launch, Room, TypeOK, ControlRec, Group
<1> HIDE DEF g
<1>2. Excluded(g) \in ControlRec
  BY <1>1 DEF Excluded, ControlRec
<1>3. [c EXCEPT !.next = @ + 1, !.failed = TRUE] \in ControlRec
  BY <1>1 DEF ControlRec
<1>4. L!Blocked \in LastRec /\ L!Running \in LastRec
  BY DEF L!Blocked, L!Running, LastRec
<1>5. [c EXCEPT !.next = @ + 1, !.last[g] = L!Blocked] \in ControlRec
  <2>1. [c EXCEPT !.next = c.next + 1] \in ControlRec
    BY <1>1, ControlUpdates
  <2>2. [[c EXCEPT !.next = c.next + 1] EXCEPT !.last[g] = L!Blocked] \in ControlRec
    BY <1>1, <1>4, <2>1, ControlUpdates
  <2> QED
    BY <2>2
<1>6. [c EXCEPT !.next = @ + 1, !.active = @ \cup {g}, !.last[g] = L!Running] \in ControlRec
  <2>1. [c EXCEPT !.next = c.next + 1, !.active = c.active \cup {g}] \in ControlRec
    BY <1>1 DEF ControlRec
  <2>2. [[c EXCEPT !.next = c.next + 1, !.active = c.active \cup {g}]
           EXCEPT !.last[g] = L!Running] \in ControlRec
    BY <1>1, <1>4, <2>1, ControlUpdates
  <2> QED
    BY <2>2
<1>7. Fault \/ NoFault
  BY DEF Launch, LaunchBlocked, LaunchRefused, LaunchStarts, NoFault
<1>8. faults' \in 0..MaxFault
  BY <1>7, FewFaults
<1>9. NewTask(c.phase) \in TaskRec
  BY <1>1, NewTaskTyped
<1>10. /\ Publish(g, c.phase, L!Blocked) => row' \in [Group -> [Phase -> L!Row]]
       /\ Publish(g, c.phase, L!Running) => row' \in [Group -> [Phase -> L!Row]]
       /\ UNCHANGED row => row' \in [Group -> [Phase -> L!Row]]
  BY <1>1, LedgerRows, PublishTyped DEF TypeOK
<1>11. CASE LaunchBlocked(g)
  <2>1. c' \in ControlRec /\ row' \in [Group -> [Phase -> L!Row]]
    BY <1>3, <1>5, <1>10, <1>11 DEF LaunchBlocked
  <2> QED
    BY <1>8, <1>11, <2>1 DEF LaunchBlocked, TypeOK, nodes
<1>12. CASE LaunchRefused(g)
  BY <1>2, <1>8, <1>12 DEF LaunchRefused, TypeOK, nodes
<1>13. CASE LaunchStarts(g)
  <2>1. c' \in ControlRec
    BY <1>2, <1>3, <1>6, <1>13 DEF LaunchStarts
  <2>2. row' \in [Group -> [Phase -> L!Row]]
    BY <1>10, <1>13 DEF LaunchStarts
  <2>3. ws' \in [Group -> Phase \cup {NoWs}]
    BY <1>1, <1>13 DEF LaunchStarts, TypeOK
  <2>4. t' \in [Group -> TaskRec]
    BY <1>9, <1>13 DEF LaunchStarts, TypeOK
  <2> QED
    BY <1>8, <1>13, <2>1, <2>2, <2>3, <2>4 DEF LaunchStarts, TypeOK, nodes
<1> QED
  BY <1>11, <1>12, <1>13 DEF Launch, g

LEMMA ControllerTyped ==
  ASSUME TypeOK, Handed, Open, Controller \/ Signal \/ Killed
  PROVE  TypeOK'
<1>1. CASE Launch
  BY <1>1, LaunchTyped
<1>2. CASE Reap
  <2>1. PICK g \in c.active :
          c' = [c EXCEPT !.at = "reaped", !.reaped = g, !.active = @ \ {g},
                         !.failed = @ \/ ~ ReturnsZero(t[g])]
    BY <1>2 DEF Reap
  <2> DEFINE f == c.failed \/ ~ ReturnsZero(t[g])
  <2>2. f \in BOOLEAN
    BY DEF TypeOK, ControlRec
  <2>3. g \in 0..NG /\ c.active \ {g} \in SUBSET Group /\ c \in ControlRec
    BY RunAssumption DEF TypeOK, ControlRec, Group
  <2>4. c' = [c EXCEPT !.at = "reaped", !.reaped = g, !.active = c.active \ {g}, !.failed = f]
    BY <2>1
  <2> HIDE DEF f
  <2>5. c' \in ControlRec
    BY <2>2, <2>3, <2>4 DEF ControlRec
  <2> QED
    BY <1>2, <2>5 DEF Reap, TypeOK, nodes
<1>3. CASE CollectReaped
  <2>1. c.reaped \in Group /\ c.active \in SUBSET Group
    BY <1>3, RunAssumption DEF CollectReaped, Open, TypeOK, ControlRec, Group
  <2>2. Collected(c.reaped, "dispatch", c.active, FALSE)
    BY <1>3 DEF CollectReaped
  <2> QED
    BY <2>1, <2>2, CollectedTyped
<1>4. CASE WaveBegins
  <2>1. [c EXCEPT !.at = "wave"] \in ControlRec
    BY DEF TypeOK, ControlRec
  <2> QED
    BY <1>4, <2>1 DEF WaveBegins, TypeOK, nodes
<1>5. CASE CollectWave
  <2>1. PICK g \in Group :
          Collected(g, IF c.active = {g} THEN "dispatch" ELSE "wave", c.active \ {g},
                    ~ ReturnsZero(t[g]))
    BY <1>5 DEF CollectWave
  <2>2. c.active \ {g} \in SUBSET Group /\ (~ ReturnsZero(t[g])) \in BOOLEAN
    BY DEF TypeOK, ControlRec
  <2> QED
    BY <2>1, <2>2, CollectedTyped
<1>6. CASE StageEnds
  <2> DEFINE out == Isolated
             b == c.bad \/ c.failed \/ (c.phase > 0 /\ out # {})
             done == [c EXCEPT !.bad = b, !.failed = FALSE, !.blocked = @ \cup out]
  <2>1. out \in SUBSET Group /\ b \in BOOLEAN /\ c \in ControlRec
    BY DEF Isolated, TypeOK, ControlRec
  <2>2. c' = IF LastStage THEN [done EXCEPT !.at = "report"]
             ELSE [done EXCEPT !.phase = @ + 1, !.next = 1]
    BY <1>6 DEF StageEnds
  <2>3. ~ LastStage => c.phase + 1 \in Phase
    BY <2>1, RunAssumption DEF LastStage, ControlRec, Phase
  <2> HIDE DEF out, b
  <2>4. done \in ControlRec /\ done.phase = c.phase
    BY <2>1 DEF ControlRec
  <2> HIDE DEF done
  <2>5. 1 \in 1..(NG + 1)
    BY RunAssumption
  <2>6. [done EXCEPT !.at = "report"] \in ControlRec
    BY <2>4 DEF ControlRec
  <2>7. ~ LastStage => [done EXCEPT !.phase = @ + 1, !.next = 1] \in ControlRec
    BY <2>3, <2>4, <2>5 DEF ControlRec
  <2> QED
    BY <1>6, <2>2, <2>6, <2>7 DEF StageEnds, TypeOK, nodes
<1>7. CASE CollectCancelled
  <2>1. CASE c' = [c EXCEPT !.at = "report"] /\ UNCHANGED <<row, ws, t, nodes, faults>>
    <3>1. [c EXCEPT !.at = "report"] \in ControlRec
      BY DEF TypeOK, ControlRec
    <3> QED
      BY <2>1, <3>1 DEF TypeOK, nodes
  <2>2. ASSUME NEW g \in Group, Collected(g, "cancel", c.active \ {g}, FALSE)
        PROVE  TypeOK'
    <3>1. c.active \ {g} \in SUBSET Group
      BY DEF TypeOK, ControlRec
    <3> QED
      BY <2>2, <3>1, CollectedTyped
  <2> QED
    BY <1>7, <2>1, <2>2 DEF CollectCancelled
<1>8. CASE RunOver
  <2> DEFINE b == \A g \in Group : ws[g] = NoWs
  <2>1. b \in BOOLEAN /\ c \in ControlRec
    BY DEF TypeOK
  <2>2. c' = [c EXCEPT !.at = "over", !.pruned = b]
    BY <1>8 DEF RunOver
  <2> HIDE DEF b
  <2>3. c' \in ControlRec
    BY <2>1, <2>2 DEF ControlRec
  <2> QED
    BY <1>8, <2>3 DEF RunOver, TypeOK, nodes
<1>9. CASE Signal
  <2>1. c' = [NewControl(FALSE) EXCEPT !.at = "cancel", !.cancelled = TRUE, !.active = c.active]
    BY <1>9 DEF Signal
  <2>2. NewControl(FALSE) \in ControlRec /\ c.active \in SUBSET Group
    BY NewControlTyped DEF TypeOK, ControlRec
  <2>3. c' \in ControlRec
    BY <2>1, <2>2 DEF ControlRec
  <2>4. \A r \in TaskRec, b \in BOOLEAN :
          [r EXCEPT !.canceled = TRUE, !.stopping = b] \in TaskRec
    BY DEF TaskRec
  <2>5. \A g \in Group :
          /\ t[g] \in TaskRec /\ (t[g].stopping \/ t[g].known) \in BOOLEAN
          /\ [t[g] EXCEPT !.canceled = TRUE, !.stopping = @ \/ t[g].known] \in TaskRec
    <3> TAKE g \in Group
    <3>1. t[g] \in TaskRec /\ (t[g].stopping \/ t[g].known) \in BOOLEAN
      BY DEF TypeOK, TaskRec
    <3>2. [t[g] EXCEPT !.canceled = TRUE, !.stopping = t[g].stopping \/ t[g].known] \in TaskRec
      BY <2>4, <3>1
    <3> QED
      BY <3>1, <3>2
  <2>6. t' \in [Group -> TaskRec]
    BY <1>9, <2>5 DEF Signal
  <2> QED
    BY <1>9, <2>3, <2>6 DEF Signal, TypeOK, nodes
<1>10. CASE Killed
  <2>1. [NewControl(FALSE) EXCEPT !.at = "killed"] \in ControlRec
    BY NewControlTyped DEF ControlRec
  <2> QED
    BY <1>10, <2>1 DEF Killed, TypeOK, nodes
<1> QED
  BY <1>1, <1>2, <1>3, <1>4, <1>5, <1>6, <1>7, <1>8, <1>9, <1>10 DEF Controller

LEMMA NodesTyped ==
  ASSUME TypeOK, NEW g \in Group, Task(g) \/ \E p \in Phase : Arrives(g, p)
  PROVE  TypeOK'
<1>1. \A r \in TaskRec : r.phase \in Phase
  BY DEF TaskRec
<1>2. t[g].phase \in Phase
  BY <1>1 DEF TypeOK
<1>3. CASE \E p \in Phase : Arrives(g, p)
  BY <1>3 DEF Arrives, TypeOK
<1>4. CASE Task(g)
  <2>1. t' \in [Group -> TaskRec]
    BY <1>4, TaskTyped
  <2>2. UNCHANGED <<c, row, ws>> /\ (Fault \/ NoFault)
    BY <1>4 DEF Task, PayloadReturns, WorkerTermed, StopAnswers, WorkerCloses, WorkerKilled,
         SetupEnds, WorkerStarts, SessionSeen, SessionMissed, WatchdogExpires, WorkerJoined,
         FallbackStops, TaskEnds, Stops, NoFault
  <2>3. faults' \in 0..MaxFault
    BY <2>2, FewFaults
  <2>4. ~ UNCHANGED nodes =>
          PayloadReturns(g) \/ WorkerStarts(g) \/ \E a \in {"yes", "no"} : Stops(g, t[g].phase, a)
    BY <1>4 DEF Task, WorkerTermed, StopAnswers, WorkerCloses, WorkerKilled, SetupEnds,
         SessionSeen, SessionMissed, WatchdogExpires, WorkerJoined, FallbackStops, TaskEnds, nodes
  <2>5. PayloadReturns(g) =>
          UNCHANGED <<sent, tomb>> /\ ranks' \in [Group -> SUBSET Phase]
    BY DEF PayloadReturns, TypeOK
  <2>6. WorkerStarts(g) => UNCHANGED <<ranks, tomb>> /\ sent' \in [Group -> SUBSET Phase]
    BY <1>2 DEF WorkerStarts, TypeOK
  <2>7. ASSUME NEW a \in {"yes", "no"}, Stops(g, t[g].phase, a)
        PROVE  /\ UNCHANGED sent
               /\ ranks' \in [Group -> SUBSET Phase] /\ tomb' \in [Group -> SUBSET Phase]
    <3>1. UNCHANGED sent
      BY <2>7 DEF Stops
    <3>2. \/ tomb' = [tomb EXCEPT ![g] = @ \cup {t[g].phase}]
          \/ UNCHANGED tomb
      BY <2>7 DEF Stops
    <3>3. \/ ranks' = [ranks EXCEPT ![g] = @ \ {t[g].phase}]
          \/ UNCHANGED ranks
      BY <2>7 DEF Stops
    <3>4. tomb \in [Group -> SUBSET Phase] /\ ranks \in [Group -> SUBSET Phase]
      BY DEF TypeOK
    <3>5. tomb' \in [Group -> SUBSET Phase]
      BY <1>2, <3>2, <3>4
    <3>6. ranks' \in [Group -> SUBSET Phase]
      BY <3>3, <3>4
    <3> QED
      BY <3>1, <3>5, <3>6
  <2>8. /\ sent' \in [Group -> SUBSET Phase]
        /\ ranks' \in [Group -> SUBSET Phase]
        /\ tomb' \in [Group -> SUBSET Phase]
    BY <2>4, <2>5, <2>6, <2>7 DEF TypeOK, nodes
  <2> QED
    BY <2>1, <2>2, <2>3, <2>8 DEF TypeOK
<1> QED
  BY <1>3, <1>4

-----------------------------------------------------------------------------
(* The steps of the tasks and the nodes.                                   *)

LEMMA PhaseIsNoWs == NoWs \notin Phase
  BY RunAssumption DEF NoWs, Phase

\* A step of a task leaves to the controller what it knows of the task.
Progress ==
  /\ UNCHANGED <<c, row, ws>>
  /\ \A g \in Group :
       /\ t'[g].phase = t[g].phase
       /\ t'[g].at = "none" <=> t[g].at = "none"
       /\ t[g].filed => t'[g] = t[g]

LEMMA TaskProgress ==
  ASSUME TypeOK, Handed, NEW g \in Group, Task(g) \/ \E p \in Phase : Arrives(g, p)
  PROVE  Progress
<1>1. UNCHANGED <<c, row, ws>>
  BY DEF Task, PayloadReturns, WorkerTermed, StopAnswers, WorkerCloses, WorkerKilled,
         SetupEnds, WorkerStarts, SessionSeen, SessionMissed, WatchdogExpires, WorkerJoined,
         FallbackStops, TaskEnds, Arrives
<1>2. t[g].filed => t[g].at = "ended" /\ t[g].worker = "none"
  BY DEF Handed
<1>4. CASE \E p \in Phase : Arrives(g, p)
  BY <1>1, <1>4 DEF Arrives, Progress
<1>5. CASE Task(g)
  <2> SUFFICES ASSUME NEW h \in Group
               PROVE  /\ t'[h].phase = t[h].phase
                      /\ t'[h].at = "none" <=> t[h].at = "none"
                      /\ t[h].filed => t'[h] = t[h]
    BY <1>1 DEF Progress
  <2>1. t \in [Group -> TaskRec]
    BY DEF TypeOK
  <2>2. ~ t[g].filed \/ (t[g].at = "ended" /\ t[g].worker = "none")
    BY <1>2
  <2>3. CASE PayloadReturns(g) \/ WorkerTermed(g)
    BY <2>1, <2>2, <2>3 DEF PayloadReturns, WorkerTermed, TaskRec
  <2>4. CASE StopAnswers(g) \/ WorkerCloses(g) \/ WorkerKilled(g)
    BY <2>1, <2>2, <2>4 DEF StopAnswers, WorkerCloses, WorkerKilled, TaskRec
  <2>5. CASE SetupEnds(g) \/ WorkerStarts(g) \/ SessionSeen(g) \/ SessionMissed(g)
    BY <2>1, <2>2, <2>5 DEF SetupEnds, WorkerStarts, SessionSeen, SessionMissed, TaskRec
  <2>6. CASE WatchdogExpires(g) \/ WorkerJoined(g) \/ FallbackStops(g)
    BY <2>1, <2>2, <2>6 DEF WatchdogExpires, WorkerJoined, FallbackStops, TaskRec
  <2>7. CASE TaskEnds(g)
    <3>1. PICK l \in {"ok", "bad", "lost"} :
            t' = [t EXCEPT ![g] =
                    [NewTask(t[g].phase) EXCEPT
                       !.at = "ended", !.filed = TRUE, !.log = l, !.sound = t[g].sound,
                       !.result = [st |-> Verdict(t[g], l), clean |-> Clean(t[g])]]]
      BY <2>7 DEF TaskEnds
    <3>2. t[g].at = "fallback"
      BY <2>7 DEF TaskEnds
    <3> QED
      BY <2>1, <2>2, <3>1, <3>2 DEF NewTask
  <2> QED
    BY <1>5, <2>3, <2>4, <2>5, <2>6, <2>7 DEF Task
<1> QED
  BY <1>4, <1>5

\* What is gone stays gone: every step on the nodes keeps a tombstone and starts nothing
\* behind it.
LEMMA NodesKeep ==
  ASSUME TypeOK, Tenants, NEW g \in Group, Task(g) \/ \E p \in Phase : Arrives(g, p)
  PROVE  /\ \A h \in Group, p \in Phase : Gone(h, p) => Gone(h, p)'
         /\ \A h \in Group, p \in Phase :
              p \in ranks'[h] \/ p \in sent'[h] \ tomb'[h] => ws[h] = p
<1>1. t[g].phase \in Phase
  BY DEF TypeOK, TaskRec
<1>2. /\ sent \in [Group -> SUBSET Phase] /\ ranks \in [Group -> SUBSET Phase]
      /\ tomb \in [Group -> SUBSET Phase]
  BY DEF TypeOK
<1>3. CASE UNCHANGED nodes
  BY <1>3 DEF Tenants, Gone, nodes
<1>4. CASE \E p \in Phase : Arrives(g, p)
  <2>1. PICK p \in Phase :
          /\ p \in sent[g] /\ p \notin tomb[g] /\ UNCHANGED tomb
          /\ sent' = [sent EXCEPT ![g] = @ \ {p}] /\ ranks' = [ranks EXCEPT ![g] = @ \cup {p}]
    BY <1>4 DEF Arrives
  <2>2. ws[g] = p
    BY <2>1 DEF Tenants
  <2> QED
    BY <1>2, <2>1, <2>2 DEF Tenants, Gone
<1>5. CASE PayloadReturns(g)
  <2>1. /\ UNCHANGED <<sent, tomb>>
        /\ \/ ranks' = [ranks EXCEPT ![g] = @ \ {t[g].phase}]
           \/ UNCHANGED ranks
    BY <1>5 DEF PayloadReturns
  <2> QED
    BY <1>2, <2>1 DEF Tenants, Gone
<1>6. CASE WorkerStarts(g)
  <2>1. ws[g] = t[g].phase
    BY <1>6 DEF WorkerStarts, Tenants
  <2>2. sent' = [sent EXCEPT ![g] = @ \cup {t[g].phase}] /\ UNCHANGED <<ranks, tomb>>
    BY <1>6 DEF WorkerStarts
  <2> QED
    BY <1>1, <1>2, <2>1, <2>2 DEF Tenants, Gone
<1>8. CASE \E a \in {"yes", "no"} : Stops(g, t[g].phase, a)
  <2>1. /\ UNCHANGED sent
        /\ \/ tomb' = [tomb EXCEPT ![g] = @ \cup {t[g].phase}]
           \/ UNCHANGED tomb
        /\ \/ ranks' = [ranks EXCEPT ![g] = @ \ {t[g].phase}]
           \/ UNCHANGED ranks
    BY <1>8 DEF Stops
  <2> QED
    BY <1>1, <1>2, <2>1 DEF Tenants, Gone
<1>7. Task(g) => UNCHANGED nodes \/ PayloadReturns(g) \/ WorkerStarts(g)
                 \/ \E a \in {"yes", "no"} : Stops(g, t[g].phase, a)
  BY DEF Task, WorkerTermed, StopAnswers, WorkerCloses, WorkerKilled, SetupEnds,
       SessionSeen, SessionMissed, WatchdogExpires, WorkerJoined, FallbackStops, TaskEnds, nodes
<1> QED
  BY <1>3, <1>4, <1>5, <1>6, <1>7, <1>8

\* A task that claims a confirmed cleanup is gone.
LEMMA HandedKept ==
  ASSUME TypeOK, Tenants, Handed, NEW g \in Group, Task(g) \/ \E p \in Phase : Arrives(g, p)
  PROVE  Handed'
<1> DEFINE Claims(r) == r.norm = "yes" \/ r.fall = "yes" \/ (r.filed /\ r.result.clean)
           Right(r) == r.filed => /\ r.at = "ended" /\ r.worker = "none"
                                  /\ L!Closed(r.result) /\ (r.result.st = "PASS" => r.result.clean)
<1>1. \A h \in Group : (Claims(t[h]) => Gone(h, t[h].phase)) /\ Right(t[h])
  BY DEF Handed
<1>2. \A h \in Group : t[h] \in TaskRec /\ t[h].phase \in Phase /\ t'[h].phase = t[h].phase
  BY TaskProgress DEF TypeOK, TaskRec, Progress
<1>3. \A h \in Group, p \in Phase : Gone(h, p) => Gone(h, p)'
  BY NodesKeep
<1> SUFFICES \A h \in Group : (Claims(t'[h]) => Gone(h, t[h].phase)') /\ Right(t'[h])
  BY DEF Handed
<1>4. CASE UNCHANGED t
  BY <1>1, <1>2, <1>3, <1>4
<1>5. \A h \in Group : h # g => t'[h] = t[h]
  BY DEF Task, PayloadReturns, WorkerTermed, StopAnswers, WorkerCloses, WorkerKilled,
         SetupEnds, WorkerStarts, SessionSeen, SessionMissed, WatchdogExpires, WorkerJoined,
         FallbackStops, TaskEnds, Arrives, TypeOK
<1>6. CASE Task(g)
  <2>1. ASSUME ~ t[g].filed, t'[g].filed = t[g].filed,
               t'[g].norm \in {t[g].norm, "open", "no"}, t'[g].fall \in {t[g].fall, "no"}
        PROVE  (Claims(t'[g]) => Gone(g, t[g].phase)') /\ Right(t'[g])
    BY <1>1, <1>2, <1>3, <2>1
  <2>2. ASSUME ~ t[g].filed, t'[g].filed = t[g].filed, Stops(g, t[g].phase, "yes")
        PROVE  (Claims(t'[g]) => Gone(g, t[g].phase)') /\ Right(t'[g])
    BY <1>2, <2>2 DEF Stops, Gone, TypeOK
  <2>3. ~ t[g].filed \/ (t[g].at = "ended" /\ t[g].worker = "none")
    BY <1>1
  <2>0. t \in [Group -> TaskRec]
    BY DEF TypeOK
  <2> DEFINE Tame == /\ ~ t[g].filed /\ t'[g].filed = t[g].filed
                     /\ t'[g].norm \in {t[g].norm, "open", "no"} /\ t'[g].fall \in {t[g].fall, "no"}
  <2>11. PayloadReturns(g) \/ WorkerTermed(g) => Tame
    BY <2>0, <2>3 DEF PayloadReturns, WorkerTermed, TaskRec
  <2>12. WorkerCloses(g) \/ WorkerKilled(g) => Tame
    BY <2>0, <2>3 DEF WorkerCloses, WorkerKilled, TaskRec
  <2>13. SetupEnds(g) \/ WorkerStarts(g) \/ SessionSeen(g) => Tame
    BY <2>0, <2>3 DEF SetupEnds, WorkerStarts, SessionSeen, TaskRec
  <2>14. SessionMissed(g) \/ WatchdogExpires(g) \/ WorkerJoined(g) => Tame
    BY <2>0, <2>3 DEF SessionMissed, WatchdogExpires, WorkerJoined, TaskRec
  <2>15. StopAnswers(g) \/ FallbackStops(g) => Tame \/ Stops(g, t[g].phase, "yes")
    BY <2>0, <2>3 DEF StopAnswers, FallbackStops, TaskRec
  <2>16. StopAnswers(g) \/ FallbackStops(g) => ~ t[g].filed /\ t'[g].filed = t[g].filed
    BY <2>0, <2>3 DEF StopAnswers, FallbackStops, TaskRec
  <2>17. ASSUME TaskEnds(g)
         PROVE  (Claims(t'[g]) => Gone(g, t[g].phase)') /\ Right(t'[g])
    <3>1. PICK l \in {"ok", "bad", "lost"} :
            t' = [t EXCEPT ![g] =
                    [NewTask(t[g].phase) EXCEPT
                       !.at = "ended", !.filed = TRUE, !.log = l, !.sound = t[g].sound,
                       !.result = [st |-> Verdict(t[g], l), clean |-> Clean(t[g])]]]
      BY <2>17 DEF TaskEnds
    <3>2. /\ t'[g].at = "ended" /\ t'[g].worker = "none" /\ t'[g].norm = "none"
          /\ t'[g].fall = "none"
          /\ t'[g].result = [st |-> Verdict(t[g], l), clean |-> Clean(t[g])]
      BY <3>1 DEF NewTask, TypeOK
    <3>3. Verdict(t[g], l) \in L!Status
      BY DEF Verdict, L!Status
    <3>4. Verdict(t[g], l) = "PASS" => Clean(t[g])
      BY DEF Verdict
    <3>5. Clean(t[g]) => t[g].norm = "yes" \/ t[g].fall = "yes"
      BY DEF Clean
    <3>6. Clean(t[g]) => Gone(g, t[g].phase)'
      BY <1>1, <1>2, <1>3, <3>5
    <3>7. t'[g].result.st = Verdict(t[g], l) /\ t'[g].result.clean = Clean(t[g])
      BY <3>2
    <3>8. Claims(t'[g]) => Clean(t[g])
      BY <3>2, <3>7
    <3>9. Right(t'[g])
      BY <3>2, <3>3, <3>4, <3>7 DEF L!Closed
    <3> HIDE DEF Claims, Right
    <3> QED
      BY <3>6, <3>8, <3>9
  <2> QED
    <3> HIDE DEF Claims, Right
    <3>1. Tame => (Claims(t'[g]) => Gone(g, t[g].phase)') /\ Right(t'[g])
      BY <2>1
    <3>2. (Claims(t'[g]) => Gone(g, t[g].phase)') /\ Right(t'[g])
      BY <1>6, <2>2, <2>17, <2>11, <2>12, <2>13, <2>14, <2>15, <2>16, <3>1 DEF Task
    <3>3. \A h \in Group : h # g => (Claims(t'[h]) => Gone(h, t[h].phase)') /\ Right(t'[h])
      BY <1>1, <1>2, <1>3, <1>5
    <3> QED
      BY <3>2, <3>3
<1> QED
  BY <1>4, <1>6 DEF Arrives

Rest == Tenants /\ Handed /\ Kept /\ Open /\ Dispatch /\ Finished

LEMMA TaskKeeps ==
  ASSUME IInv, NEW g \in Group, Task(g) \/ \E p \in Phase : Arrives(g, p)
  PROVE  Rest'
<1>1. Progress
  BY TaskProgress DEF IInv
<1>2. Tenants'
  <2>1. \A h \in Group, p \in Phase :
          p \in ranks'[h] \/ p \in sent'[h] \ tomb'[h] => ws[h] = p
    BY NodesKeep DEF IInv
  <2> QED
    BY <1>1, <2>1 DEF IInv, Tenants, Progress
<1>3. Handed'
  BY HandedKept DEF IInv
<1>4. Kept'
  BY <1>1 DEF IInv, Kept, Progress
<1>5. Busy' = Busy /\ Dispatching' = Dispatching
  BY <1>1 DEF Progress, Busy, Dispatching
<1>6. Busy \subseteq Group
  BY DEF IInv, TypeOK, ControlRec, Busy
<1>7. Open'
  BY <1>1, <1>5, <1>6 DEF IInv, Open, Progress
<1>8. \A h \in Group : ReturnsZero(t[h]) => ReturnsZero(t'[h])
  BY <1>1 DEF Progress, ReturnsZero
<1>9. Dispatch'
  BY <1>1, <1>5, <1>6, <1>8 DEF IInv, Dispatch, Progress, AllPassed
<1>10. Finished'
  BY <1>1 DEF IInv, Finished, Progress, AllPassed
<1> QED
  BY <1>2, <1>3, <1>4, <1>7, <1>9, <1>10 DEF Rest

-----------------------------------------------------------------------------
(* The steps of the controller.                                            *)

\* What a collected task leaves.
Taken(g, at, A, bad) ==
  LET r == t[g] IN
    /\ t' = [t EXCEPT ![g] = NoTask] /\ UNCHANGED nodes
    /\ c'.at = at /\ c'.active = A /\ c'.reaped = 0 /\ c'.phase = c.phase /\ c'.next = c.next
    /\ c'.bad = c.bad /\ c'.cancelled = c.cancelled /\ c'.pruned = c.pruned
    /\ c.blocked \subseteq c'.blocked
    /\ \/ UNCHANGED row
       \/ Acceptable(r) /\ Publish(g, r.phase, r.result)
    /\ \/ UNCHANGED ws
       \/ /\ ws' = [ws EXCEPT ![g] = NoWs]
          /\ Acceptable(r) /\ Recyclable(r) /\ Publish(g, r.phase, r.result)
    /\ \A h \in Group : c'.last[h].st = "PASS" =>
         \/ c.last[h].st = "PASS"
         \/ h = g /\ Publish(g, r.phase, r.result) /\ r.result.st = "PASS"
    /\ ~ c'.failed =>
         /\ ~ c.failed /\ ~ bad
         /\ Acceptable(r) /\ Publish(g, r.phase, r.result)
         /\ r.result.clean => c'.blocked = c.blocked

LEMMA CollectedShape ==
  ASSUME TypeOK, NEW g \in Group, NEW at \in {"dispatch", "wave", "cancel"},
         NEW A \in SUBSET Group, NEW bad \in BOOLEAN, Collected(g, at, A, bad)
  PROVE  Taken(g, at, A, bad)
<1> DEFINE r == t[g]
           kept(b) == [c EXCEPT !.at = at, !.active = A, !.reaped = 0,
                                !.failed = @ \/ bad \/ b]
           lost == [kept(TRUE) EXCEPT !.blocked = @ \cup {g}]
<1>1. c \in ControlRec
  BY DEF TypeOK
<1>2. t' = [t EXCEPT ![g] = NoTask] /\ UNCHANGED nodes
  BY DEF Collected
<1>3. CASE /\ Acceptable(r) /\ Publish(g, r.phase, r.result)
           /\ ws' = IF Recyclable(r) THEN [ws EXCEPT ![g] = NoWs] ELSE ws
           /\ c' = [kept(FALSE) EXCEPT !.last[g] = r.result,
                      !.blocked = IF r.result.clean THEN @ ELSE @ \cup {g}]
  BY <1>1, <1>2, <1>3 DEF Taken, ControlRec
<1>4. CASE c' = lost /\ UNCHANGED <<row, ws>>
  BY <1>1, <1>2, <1>4 DEF Taken, ControlRec
<1>5. CASE /\ Acceptable(r) /\ c' = lost /\ UNCHANGED ws
           /\ UNCHANGED row \/ Publish(g, r.phase, r.result)
  BY <1>1, <1>2, <1>5 DEF Taken, ControlRec
<1>6. CASE /\ Acceptable(r) /\ Publish(g, r.phase, r.result) /\ UNCHANGED ws
           /\ c' = [lost EXCEPT !.last[g] = r.result]
  BY <1>1, <1>2, <1>6 DEF Taken, ControlRec
<1> QED
  BY <1>3, <1>4, <1>5, <1>6 DEF Collected

\* Only the row of the task changes, and it is closed.
LEMMA PublishedRow ==
  ASSUME TypeOK, NEW g \in Group, NEW p \in Phase, NEW r, Publish(g, p, r)
  PROVE  \A h \in Group, q \in Phase :
           row'[h][q] = IF h = g /\ q = p THEN r ELSE row[h][q]
  BY DEF Publish, TypeOK

LEMMA CollectedKeeps ==
  ASSUME IInv, NEW g \in Busy, NEW at \in {"dispatch", "wave", "cancel"}, NEW bad \in BOOLEAN,
         Taken(g, at, c.active \ {g}, bad), c.at \in {"reaped", "wave", "cancel"},
         c.at = "cancel" <=> at = "cancel", at = "wave" => c.active \ {g} # {},
         c.at = "reaped" => c.reaped = g,
         Dispatching /\ ~ c.failed /\ ~ c.bad /\ ~ bad => ReturnsZero(t[g])
  PROVE  Rest'
<1> DEFINE r == t[g]
           p == r.phase
<1>1. /\ g \in Group /\ r \in TaskRec /\ p \in Phase /\ r.at # "none"
      /\ row[g][p] = L!Running /\ ws[g] = p
  BY DEF IInv, TypeOK, Busy, Open, Tenants, TaskRec, ControlRec
<1>2. TypeOK /\ Tenants /\ Handed /\ Kept /\ Open /\ Dispatch /\ Finished
  BY DEF IInv
<1>3. /\ t' = [t EXCEPT ![g] = NoTask] /\ UNCHANGED nodes
      /\ c'.at = at /\ c'.active = c.active \ {g} /\ c'.reaped = 0 /\ c'.phase = c.phase
      /\ c'.next = c.next /\ c'.bad = c.bad /\ c'.cancelled = c.cancelled
      /\ c'.pruned = c.pruned /\ c.blocked \subseteq c'.blocked
  BY DEF Taken
<1>4. /\ UNCHANGED row \/ (Acceptable(r) /\ Publish(g, p, r.result))
      /\ \/ UNCHANGED ws
         \/ /\ ws' = [ws EXCEPT ![g] = NoWs] /\ Acceptable(r) /\ Recyclable(r)
            /\ Publish(g, p, r.result)
  BY DEF Taken
<1>5. ~ c'.failed => /\ ~ c.failed /\ ~ bad /\ Acceptable(r) /\ Publish(g, p, r.result)
                     /\ (r.result.clean => c'.blocked = c.blocked)
  BY DEF Taken
<1>6. \A h \in Group : c'.last[h].st = "PASS" =>
         \/ c.last[h].st = "PASS"
         \/ h = g /\ Publish(g, p, r.result) /\ r.result.st = "PASS"
  BY DEF Taken
<1>7. Acceptable(r) => /\ L!Closed(r.result) /\ (r.result.st = "PASS" => r.result.clean)
                       /\ (r.result.clean => Gone(g, p))
  BY <1>1, <1>2 DEF Acceptable, Handed
<1>8. Publish(g, p, r.result) => \A h \in Group, q \in Phase :
         row'[h][q] = IF h = g /\ q = p THEN r.result ELSE row[h][q]
  BY <1>1, <1>2, PublishedRow
<1>9. Busy' = Busy \ {g} /\ Busy \subseteq Group
  BY <1>2, <1>3 DEF Busy, Open, TypeOK, ControlRec, Group
<1>10. Dispatching' => Dispatching /\ p = c.phase /\ g < c.next
  BY <1>2, <1>3 DEF Dispatching, Dispatch
<1>11. t \in [Group -> TaskRec] /\ ws \in [Group -> Phase \cup {NoWs}] /\ c \in ControlRec
  BY <1>2 DEF TypeOK
<1>12. /\ NoTask.at = "none" /\ NoTask.norm = "none" /\ NoTask.fall = "none" /\ ~ NoTask.filed
  BY DEF NoTask, NewTask
<1>13. \A h \in Group : t'[h] = IF h = g THEN NoTask ELSE t[h]
  BY <1>3, <1>11
<1>14. \A h \in Group : h # g => ws'[h] = ws[h]
  BY <1>1, <1>4, <1>11
<1>15. \/ ws'[g] = ws[g]
       \/ Acceptable(r) /\ r.result.clean /\ Publish(g, p, r.result)
  BY <1>1, <1>4, <1>11 DEF Recyclable
<1> HIDE DEF r, p
<1>20. Tenants'
  <2>1. UNCHANGED <<sent, ranks, tomb>>
    BY <1>3 DEF nodes
  <2>2. \A h \in Group : t'[h].at # "none" => ws'[h] = t'[h].phase
    BY <1>2, <1>12, <1>13, <1>14 DEF Tenants
  <2>3. \A q \in Phase : q \in ranks[g] \/ q \in sent[g] \ tomb[g] => ws'[g] = q
    BY <1>1, <1>2, <1>7, <1>15 DEF Tenants, Gone
  <2> QED
    BY <1>2, <1>14, <2>1, <2>2, <2>3 DEF Tenants
<1>21. Handed'
  BY <1>2, <1>3, <1>12, <1>13 DEF Handed, Gone, nodes
<1>22. Kept'
  <2> SUFFICES ASSUME NEW h \in Group, NEW q \in Phase
               PROVE  /\ row'[h][q] \in {L!Planned, L!Running, L!Blocked} \/ L!Closed(row'[h][q])
                      /\ row'[h][q].st = "PASS" => row'[h][q].clean
                      /\ row'[h][q].st \notin {"planned", "BLOCKED"} /\ ~ row'[h][q].clean
                           => ws'[h] = q
    BY DEF Kept
  <2>1. CASE UNCHANGED row
    <3>1. ws'[h] = ws[h] \/ (h = g /\ Publish(g, p, r.result) /\ Acceptable(r) /\ r.result.clean)
      BY <1>14, <1>15
    <3>2. ws'[h] # ws[h] => row[g][p].st # "RUNNING"
      BY <1>1, <1>7, <1>8, <2>1, <3>1 DEF L!Closed, L!Status
    <3>3. ws'[h] = ws[h]
      BY <1>1, <3>2 DEF L!Running
    <3> QED
      BY <1>2, <2>1, <3>3 DEF Kept
  <2>2. CASE Acceptable(r) /\ Publish(g, p, r.result)
    <3>1. CASE h = g /\ q = p
      BY <1>1, <1>7, <1>8, <1>15, <2>2, <3>1
    <3>2. CASE ~ (h = g /\ q = p)
      <4>1. row'[h][q] = row[h][q]
        BY <1>8, <2>2, <3>2
      <4>2. row[h][q].st \notin {"planned", "BLOCKED"} /\ ~ row[h][q].clean => ws[h] = q
        BY <1>2 DEF Kept
      <4>3. row[h][q].st \notin {"planned", "BLOCKED"} /\ ~ row[h][q].clean => h # g
        BY <1>1, <3>2, <4>2
      <4> QED
        BY <1>2, <1>14, <4>1, <4>2, <4>3 DEF Kept
    <3> QED
      BY <3>1, <3>2
  <2> QED
    BY <1>4, <2>1, <2>2
<1>23. Open'
  <2>1. \A h \in Busy' : t'[h].at # "none" /\ row'[h][t'[h].phase] = L!Running
    <3> SUFFICES ASSUME NEW h \in Busy'
                 PROVE  t'[h].at # "none" /\ row'[h][t'[h].phase] = L!Running
      OBVIOUS
    <3>1. h \in Busy /\ h \in Group /\ h # g /\ t'[h] = t[h]
      BY <1>9, <1>13
    <3>2. t[h].phase \in Phase
      BY <1>11, <3>1 DEF TaskRec
    <3>3. row'[h][t[h].phase] = row[h][t[h].phase]
      BY <1>4, <1>8, <3>1, <3>2
    <3> QED
      BY <1>2, <3>1, <3>3 DEF Open
  <2>2. ~ c.pruned
    BY <1>2 DEF Open
  <2>3. c'.reaped \notin c'.active
    BY <1>3, <1>11 DEF ControlRec, Group
  <2> QED
    BY <1>2, <1>3, <2>1, <2>2, <2>3 DEF Open
<1>24. Dispatch'
  <2> SUFFICES ASSUME Dispatching' PROVE Dispatch'
    BY DEF Dispatch
  <2>1. Dispatching /\ p = c.phase /\ g < c.next /\ c.phase \in Phase
    BY <1>1, <1>10
  <2>2. \A h \in Group, q \in Phase : ~ (h = g /\ q = p) => row'[h][q] = row[h][q]
    BY <1>4, <1>8
  <2>3. UNCHANGED row \/ L!Closed(row'[g][p])
    BY <1>1, <1>4, <1>7, <1>8
  <2>4. \A h \in Busy' : t'[h].phase = c'.phase /\ h < c'.next
    BY <1>2, <1>3, <1>9, <1>13, <2>1 DEF Dispatch
  <2>5. \A h \in Group, q \in Phase :
          q > c'.phase \/ (q = c'.phase /\ h >= c'.next) => row'[h][q] = L!Planned
    <3> SUFFICES ASSUME NEW h \in Group, NEW q \in Phase,
                        q > c.phase \/ (q = c.phase /\ h >= c.next)
                 PROVE  row'[h][q] = L!Planned
      BY <1>3
    <3>0. c.next \in Nat /\ c.phase \in Nat /\ g \in Nat
      BY <1>1, <1>11, RunAssumption DEF Phase, Group, ControlRec
    <3>1. ~ (h = g /\ q = p)
      BY <2>1, <3>0
    <3> QED
      BY <1>2, <2>1, <2>2, <3>1 DEF Dispatch
  <2>6. \A h \in Group, q \in Phase : row'[h][q] = L!Blocked => h \in c'.blocked
    <3> SUFFICES ASSUME NEW h \in Group, NEW q \in Phase, row'[h][q] = L!Blocked
                 PROVE  h \in c'.blocked
      OBVIOUS
    <3>1. row'[h][q] = row[h][q]
      BY <2>2, <2>3 DEF L!Closed, L!Blocked, L!Status
    <3> QED
      BY <1>2, <1>3, <2>1, <3>1 DEF Dispatch
  <2>7. c'.phase = 0 => ~ c'.bad /\ \A h \in Group : c'.last[h].st = "PASS" => row'[h][0].st = "PASS"
    <3> SUFFICES ASSUME c.phase = 0, NEW h \in Group, c'.last[h].st = "PASS"
                 PROVE  row'[h][0].st = "PASS"
      BY <1>2, <1>3, <2>1 DEF Dispatch
    <3>1. CASE h = g /\ Publish(g, p, r.result) /\ r.result.st = "PASS"
      BY <1>1, <1>8, <2>1, <3>1
    <3>2. CASE c.last[h].st = "PASS"
      <4>1. row[h][0].st = "PASS"
        BY <1>2, <2>1, <3>2 DEF Dispatch
      <4>2. ~ (h = g /\ 0 = p)
        BY <1>1, <4>1 DEF L!Running
      <4> QED
        BY <2>1, <2>2, <4>1, <4>2
    <3> QED
      BY <1>6, <3>1, <3>2
  <2>8. c'.phase > 0 => \A h \in Group \ c'.blocked : row'[h][0].st = "PASS"
    <3>1. c.phase > 0 => \A h \in Group : row'[h][0] = row[h][0]
      BY <2>1, <2>2, RunAssumption DEF Phase
    <3> QED
      BY <1>2, <1>3, <2>1, <3>1 DEF Dispatch
  <2>9. ~ c'.bad /\ ~ c'.failed =>
          /\ c'.blocked = {}
          /\ \A q \in Phase : q < c'.phase => AllPassed(q)'
          /\ \A h \in Group : h < c'.next => h \in Busy' \/ row'[h][c'.phase].st = "PASS"
          /\ \A h \in Group : c'.reaped = h => ReturnsZero(t[h])'
    <3> SUFFICES ASSUME ~ c'.bad, ~ c'.failed
                 PROVE  /\ c'.blocked = {}
                        /\ \A q \in Phase : q < c'.phase => AllPassed(q)'
                        /\ \A h \in Group : h < c'.next => h \in Busy' \/ row'[h][c'.phase].st = "PASS"
                        /\ \A h \in Group : c'.reaped = h => ReturnsZero(t[h])'
      OBVIOUS
    <3>1. ~ c.bad /\ ~ c.failed /\ ~ bad /\ Acceptable(r) /\ Publish(g, p, r.result)
      BY <1>3, <1>5
    <3>2. ReturnsZero(r)
      BY <2>1, <3>1 DEF r
    <3>3. r.result.st = "PASS"
      BY <3>2 DEF ReturnsZero
    <3>4. c'.blocked = c.blocked
      BY <1>5, <1>7, <3>1, <3>3
    <3>5. /\ c.blocked = {}
          /\ \A q \in Phase : q < c.phase => AllPassed(q)
          /\ \A h \in Group : h < c.next => h \in Busy \/ row[h][c.phase].st = "PASS"
      BY <1>2, <2>1, <3>1 DEF Dispatch
    <3>6. \A q \in Phase : q < c'.phase => AllPassed(q)'
      <4> SUFFICES ASSUME NEW q \in Phase, q < c.phase, NEW h \in Group
                   PROVE  row'[h][q].st = "PASS"
        BY <1>3 DEF AllPassed
      <4>1. q # p
        BY <2>1, RunAssumption DEF Phase
      <4> QED
        BY <2>2, <3>5, <4>1 DEF AllPassed
    <3>7. \A h \in Group : h < c'.next => h \in Busy' \/ row'[h][c'.phase].st = "PASS"
      <4> SUFFICES ASSUME NEW h \in Group, h < c.next
                   PROVE  h \in Busy' \/ row'[h][c.phase].st = "PASS"
        BY <1>3
      <4>1. CASE h = g
        BY <1>8, <2>1, <3>1, <3>3, <4>1
      <4>2. CASE h # g
        BY <1>9, <2>1, <2>2, <3>5, <4>2
      <4> QED
        BY <4>1, <4>2
    <3>8. \A h \in Group : c'.reaped # h
      BY <1>3, RunAssumption DEF Group
    <3> QED
      BY <3>4, <3>5, <3>6, <3>7, <3>8
  <2> QED
    BY <2>4, <2>5, <2>6, <2>7, <2>8, <2>9 DEF Dispatch
<1>25. Finished'
  BY <1>2, <1>3 DEF Finished
<1> QED
  BY <1>20, <1>21, <1>22, <1>23, <1>24, <1>25 DEF Rest

LEMMA CollectsKeep ==
  ASSUME IInv, CollectReaped \/ CollectWave \/ CollectCancelled
  PROVE  Rest'
<1>0. /\ TypeOK /\ Open /\ Dispatch /\ Finished
      /\ c.active \in SUBSET Group /\ c.failed \in BOOLEAN
  BY DEF IInv, TypeOK, ControlRec
<1>1. CASE CollectReaped
  <2> DEFINE g == c.reaped
  <2>1. c.at = "reaped" /\ Collected(g, "dispatch", c.active, FALSE)
    BY <1>1 DEF CollectReaped
  <2>2. g \in Group /\ g \in Busy /\ c.active \ {g} = c.active
    BY <1>0, <2>1, RunAssumption DEF Open, Busy, TypeOK, ControlRec, Group
  <2> HIDE DEF g
  <2>3. Taken(g, "dispatch", c.active \ {g}, FALSE)
    BY <1>0, <2>1, <2>2, CollectedShape
  <2>4. ~ c.failed /\ ~ c.bad => ReturnsZero(t[g])
    BY <1>0, <2>1, <2>2 DEF Dispatch, Dispatching, g
  <2> QED
    BY <2>1, <2>2, <2>3, <2>4, CollectedKeeps DEF g
<1>2. CASE CollectWave
  <2>1. PICK g \in Group :
          /\ First(g)
          /\ Collected(g, IF c.active = {g} THEN "dispatch" ELSE "wave", c.active \ {g},
                       ~ ReturnsZero(t[g]))
    BY <1>2 DEF CollectWave
  <2> DEFINE at == IF c.active = {g} THEN "dispatch" ELSE "wave"
             bad == ~ ReturnsZero(t[g])
  <2>2. c.at = "wave" /\ g \in Busy /\ g \in c.active
    BY <1>2, <2>1 DEF CollectWave, First, Busy
  <2>3. at \in {"dispatch", "wave"} /\ bad \in BOOLEAN /\ c.active \ {g} \in SUBSET Group
    BY <1>0
  <2>4. at = "wave" => c.active \ {g} # {}
    BY <2>2
  <2>5. ~ bad => ReturnsZero(t[g])
    OBVIOUS
  <2>6. Collected(g, at, c.active \ {g}, bad)
    BY <2>1
  <2> HIDE DEF at, bad
  <2>7. Taken(g, at, c.active \ {g}, bad)
    BY <1>0, <2>3, <2>6, CollectedShape
  <2>8. (c.at = "cancel" <=> at = "cancel") /\ c.at # "reaped"
    BY <2>2, <2>3
  <2> QED
    BY <2>2, <2>3, <2>4, <2>5, <2>7, <2>8, CollectedKeeps
<1>3. CASE CollectCancelled
  <2>1. c.at = "cancel"
    BY <1>3 DEF CollectCancelled
  <2>2. CASE c' = [c EXCEPT !.at = "report"] /\ UNCHANGED <<row, ws, t, nodes, faults>>
    <3>1. /\ c'.at = "report" /\ c'.reaped = c.reaped /\ c'.active = c.active
          /\ c'.pruned = c.pruned /\ c'.cancelled = c.cancelled
      BY <1>0, <2>2 DEF TypeOK, ControlRec
    <3>2. Tenants' /\ Handed' /\ Kept'
      BY <2>2 DEF IInv, Tenants, Handed, Kept, Gone, nodes
    <3>3. Busy' = Busy
      BY <3>1 DEF Busy
    <3>4. Open' /\ Dispatch' /\ Finished'
      BY <1>0, <2>1, <2>2, <3>1, <3>3 DEF Open, Dispatch, Dispatching, Finished
    <3> QED
      BY <3>2, <3>4 DEF Rest
  <2>3. ASSUME NEW g \in Group, First(g), Collected(g, "cancel", c.active \ {g}, FALSE)
        PROVE  Rest'
    <3>1. g \in Busy /\ c.active \ {g} \in SUBSET Group
      BY <1>0, <2>3 DEF First, Busy
    <3>2. Taken(g, "cancel", c.active \ {g}, FALSE)
      BY <1>0, <2>3, <3>1, CollectedShape
    <3>3. ~ Dispatching
      BY <2>1 DEF Dispatching
    <3> QED
      BY <2>1, <3>1, <3>2, <3>3, CollectedKeeps
  <2> QED
    BY <1>3, <2>2, <2>3 DEF CollectCancelled
<1> QED
  BY <1>1, <1>2, <1>3

\* The steps of the controller that leave the tasks, the rows and the nodes alone.
LEMMA QuietSteps ==
  ASSUME IInv, UNCHANGED <<row, ws, t, nodes>>
  PROVE  Tenants' /\ Handed' /\ Kept'
  BY DEF IInv, Tenants, Handed, Kept, Gone, nodes

LEMMA ReapKeeps == ASSUME IInv, Reap PROVE Rest'
<1>0. /\ TypeOK /\ Open /\ Dispatch /\ Finished
      /\ c \in ControlRec
  BY DEF IInv, TypeOK
<1>1. PICK g \in c.active :
        c' = [c EXCEPT !.at = "reaped", !.reaped = g, !.active = @ \ {g},
                       !.failed = @ \/ ~ ReturnsZero(t[g])]
  BY DEF Reap
<1>2. c.at = "dispatch" /\ c.reaped = 0 /\ UNCHANGED <<row, ws, t, nodes>> /\ g \in Group /\ g # 0
  BY <1>0, <1>1 DEF Reap, Open, ControlRec, Group
<1>3. /\ c'.at = "reaped" /\ c'.reaped = g /\ c'.active = c.active \ {g} /\ c'.phase = c.phase
      /\ c'.next = c.next /\ c'.bad = c.bad /\ c'.blocked = c.blocked /\ c'.last = c.last
      /\ c'.cancelled = c.cancelled /\ c'.pruned = c.pruned
      /\ ~ c'.failed => ~ c.failed /\ ReturnsZero(t[g])
  BY <1>0, <1>1 DEF ControlRec
<1>4. Busy' = Busy
  BY <1>1, <1>2, <1>3 DEF Busy, Group
<1>5. Tenants' /\ Handed' /\ Kept'
  BY <1>2, QuietSteps
<1>6. Open'
  BY <1>0, <1>2, <1>3, <1>4 DEF Open
<1>7. \A h \in Group : ReturnsZero(t[h])' = ReturnsZero(t[h])
  BY <1>2 DEF ReturnsZero
<1>8. Dispatch'
  BY <1>0, <1>2, <1>3, <1>4, <1>7 DEF Dispatch, Dispatching, AllPassed
<1>9. Finished'
  BY <1>3 DEF Finished
<1> QED
  BY <1>5, <1>6, <1>8, <1>9 DEF Rest

LEMMA WaveKeeps == ASSUME IInv, WaveBegins PROVE Rest'
<1>0. /\ TypeOK /\ Open /\ Dispatch /\ Finished
      /\ c \in ControlRec
  BY DEF IInv, TypeOK
<1>1. /\ c.at = "dispatch" /\ c.active # {} /\ c' = [c EXCEPT !.at = "wave"]
      /\ UNCHANGED <<row, ws, t, nodes>>
  BY DEF WaveBegins
<1>2. /\ c'.at = "wave" /\ c'.reaped = c.reaped /\ c'.active = c.active /\ c'.phase = c.phase
      /\ c'.next = c.next /\ c'.bad = c.bad /\ c'.blocked = c.blocked /\ c'.last = c.last
      /\ c'.cancelled = c.cancelled /\ c'.pruned = c.pruned /\ c'.failed = c.failed
  BY <1>0, <1>1 DEF ControlRec
<1>3. Busy' = Busy
  BY <1>2 DEF Busy
<1>4. Tenants' /\ Handed' /\ Kept'
  BY <1>1, QuietSteps
<1>5. Open'
  BY <1>0, <1>1, <1>2, <1>3 DEF Open
<1>6. \A h \in Group : ReturnsZero(t[h])' = ReturnsZero(t[h])
  BY <1>1 DEF ReturnsZero
<1>7. Dispatch'
  BY <1>0, <1>1, <1>2, <1>3, <1>6 DEF Dispatch, Dispatching, AllPassed
<1>8. Finished'
  BY <1>2 DEF Finished
<1> QED
  BY <1>4, <1>5, <1>7, <1>8 DEF Rest

\* When a phase ends well, every group has passed it.
LEMMA StageKeeps == ASSUME IInv, StageEnds PROVE Rest'
<1>0. /\ TypeOK /\ Open /\ Dispatch /\ Finished
      /\ c \in ControlRec /\ c.phase \in Phase
  BY DEF IInv, TypeOK, ControlRec
<1> DEFINE out == Isolated
           b == c.bad \/ c.failed \/ (c.phase > 0 /\ out # {})
           done == [c EXCEPT !.bad = b, !.failed = FALSE, !.blocked = @ \cup out]
<1>1. /\ c.at = "dispatch" /\ c.next > NG /\ c.active = {} /\ c.reaped = 0
      /\ UNCHANGED <<row, ws, t, nodes>>
  BY <1>0 DEF StageEnds, Open
<1>2. c' = IF LastStage THEN [done EXCEPT !.at = "report"]
           ELSE [done EXCEPT !.phase = @ + 1, !.next = 1]
  BY DEF StageEnds
<1>3. c.phase = 0 => \A g \in Group \ out : c.failed => c.last[g].st = "PASS"
  BY DEF Isolated
<1>4. out \in SUBSET Group /\ b \in BOOLEAN /\ (~ b => ~ c.bad /\ ~ c.failed)
      /\ (~ b => out = {})
  <2>1. out \in SUBSET Group /\ b \in BOOLEAN /\ (~ b => ~ c.bad /\ ~ c.failed)
    BY <1>0 DEF Isolated, ControlRec
  <2>2. c.phase # 0 => c.phase > 0
    BY <1>0, RunAssumption DEF Phase
  <2>3. ~ c.failed /\ c.phase = 0 => out = {}
    BY DEF Isolated
  <2> QED
    BY <2>1, <2>2, <2>3
<1> HIDE DEF out, b
<1>5. /\ done.at = c.at /\ done.reaped = 0 /\ done.active = {} /\ done.phase = c.phase
      /\ done.bad = b /\ done.failed = FALSE /\ done.blocked = c.blocked \cup out
      /\ done.cancelled = c.cancelled /\ done.pruned = c.pruned /\ done.last = c.last
      /\ done \in ControlRec
  BY <1>0, <1>1, <1>4 DEF ControlRec
<1> HIDE DEF done
<1>6. /\ c'.reaped = 0 /\ c'.active = {} /\ c'.bad = b /\ c'.failed = FALSE
      /\ c'.blocked = c.blocked \cup out /\ c'.cancelled = c.cancelled
      /\ c'.pruned = c.pruned /\ c'.last = c.last
      /\ LastStage => c'.at = "report"
      /\ ~ LastStage => c'.at = "dispatch" /\ c'.phase = c.phase + 1 /\ c'.next = 1
  BY <1>1, <1>2, <1>5 DEF ControlRec
<1>7. Busy = {} /\ Busy' = {}
  BY <1>1, <1>6, RunAssumption DEF Busy, Group
<1>8. \A g \in Group : g < c.next /\ g >= 1
  BY <1>0, <1>1, RunAssumption DEF Group, ControlRec
<1>9. ~ b => \A p \in Phase : p <= c.phase => AllPassed(p)
  <2> SUFFICES ASSUME ~ b, NEW p \in Phase, p <= c.phase
               PROVE  AllPassed(p)
    OBVIOUS
  <2>1. /\ \A q \in Phase : q < c.phase => AllPassed(q)
        /\ \A g \in Group : g < c.next => g \in Busy \/ row[g][c.phase].st = "PASS"
    BY <1>0, <1>1, <1>4 DEF Dispatch, Dispatching
  <2>2. p = c.phase \/ p < c.phase
    BY <1>0, RunAssumption DEF Phase
  <2> QED
    BY <1>7, <1>8, <2>1, <2>2 DEF AllPassed
<1>10. \A p \in Phase : AllPassed(p)' = AllPassed(p)
  BY <1>1 DEF AllPassed
<1>11. Tenants' /\ Handed' /\ Kept'
  BY <1>1, QuietSteps
<1>12. Open'
  BY <1>0, <1>1, <1>6, <1>7 DEF Open
<1>13. Dispatch'
  <2> SUFFICES ASSUME ~ LastStage PROVE Dispatch'
    BY <1>6 DEF Dispatch, Dispatching
  <2>1. /\ \A g \in Group, p \in Phase : p > c.phase => row[g][p] = L!Planned
        /\ \A g \in Group, p \in Phase : row[g][p] = L!Blocked => g \in c.blocked
        /\ c.phase = 0 => \A g \in Group : c.last[g].st = "PASS" => row[g][0].st = "PASS"
        /\ c.phase > 0 => \A g \in Group \ c.blocked : row[g][0].st = "PASS"
        /\ ~ c.bad /\ ~ c.failed => c.blocked = {}
    BY <1>0, <1>1 DEF Dispatch, Dispatching
  <2>2. /\ c.phase + 1 > 0 /\ 0 \in Phase
        /\ \A p \in Phase : p > c.phase + 1 \/ p = c.phase + 1 => p > c.phase
        /\ \A p \in Phase : p < c.phase + 1 => p <= c.phase
    BY <1>0, RunAssumption DEF Phase
  <2>3. \A g \in Group \ (c.blocked \cup out) : row[g][0].st = "PASS"
    <3> SUFFICES ASSUME NEW g \in Group \ (c.blocked \cup out)
                 PROVE  row[g][0].st = "PASS"
      OBVIOUS
    <3>1. CASE c.phase = 0
      <4>1. CASE c.failed
        BY <1>3, <2>1, <3>1, <4>1
      <4>2. CASE ~ c.failed
        <5>1. ~ c.bad
          BY <1>0, <1>1, <3>1 DEF Dispatch, Dispatching
        <5>2. \A h \in Group : h < c.next => h \in Busy \/ row[h][c.phase].st = "PASS"
          BY <1>0, <1>1, <4>2, <5>1 DEF Dispatch, Dispatching
        <5> QED
          BY <1>7, <1>8, <3>1, <5>2
      <4> QED
        BY <4>1, <4>2
    <3>2. CASE c.phase > 0
      BY <2>1, <3>2
    <3> QED
      BY <1>0, <3>1, <3>2, RunAssumption DEF Phase
  <2>4. /\ c'.at = "dispatch" /\ c'.phase = c.phase + 1 /\ c'.next = 1
        /\ c'.phase # 0
    BY <1>0, <1>6, RunAssumption DEF Phase
  <2>5. \A g \in Group, p \in Phase :
          p > c'.phase \/ (p = c'.phase /\ g >= c'.next) => row'[g][p] = L!Planned
    BY <1>1, <2>1, <2>2, <2>4
  <2>6. \A g \in Group, p \in Phase : row'[g][p] = L!Blocked => g \in c'.blocked
    BY <1>1, <1>6, <2>1
  <2>7. \A g \in Group \ c'.blocked : row'[g][0].st = "PASS"
    BY <1>1, <1>6, <2>3
  <2>8. ~ c'.bad /\ ~ c'.failed =>
          /\ c'.blocked = {}
          /\ \A p \in Phase : p < c'.phase => AllPassed(p)'
    <3> SUFFICES ASSUME ~ b
                 PROVE  /\ c'.blocked = {}
                        /\ \A p \in Phase : p < c'.phase => AllPassed(p)'
      BY <1>6
    <3>1. c'.blocked = {}
      BY <1>4, <1>6, <2>1
    <3>2. ASSUME NEW p \in Phase, p < c'.phase
          PROVE  AllPassed(p)'
      <4>1. p <= c.phase
        BY <2>2, <2>4, <3>2
      <4>2. AllPassed(p)
        BY <1>9, <4>1
      <4>3. UNCHANGED row
        BY <1>1
      <4> QED
        BY <4>2, <4>3 DEF AllPassed
    <3> QED
      BY <3>1, <3>2
  <2>9. \A g \in Group : ~ (g < c'.next) /\ c'.reaped # g
    BY <1>6, <1>8, <2>4, RunAssumption DEF Group
  <2> QED
    BY <1>7, <2>4, <2>5, <2>6, <2>7, <2>8, <2>9 DEF Dispatch
<1>14. Finished'
  <2>1. c'.at \in {"report", "over"} /\ ~ c'.bad => LastStage /\ ~ b
    BY <1>6
  <2>2. LastStage => \A p \in Phase : p <= c.phase
    BY <1>0, RunAssumption DEF LastStage, Phase
  <2>3. c'.at # "cancel"
    BY <1>6
  <2> QED
    BY <1>9, <1>10, <2>1, <2>2, <2>3 DEF Finished
<1> QED
  BY <1>11, <1>12, <1>13, <1>14 DEF Rest

LEMMA EndsKeep == ASSUME IInv, RunOver \/ Killed PROVE Rest'
<1>0. /\ TypeOK /\ Open /\ Finished /\ c \in ControlRec
  BY DEF IInv, TypeOK
<1>1. UNCHANGED <<row, ws, t, nodes>>
  BY DEF RunOver, Killed
<1>2. Tenants' /\ Handed' /\ Kept'
  BY <1>1, QuietSteps
<1>3. CASE RunOver
  <2> DEFINE b == \A g \in Group : ws[g] = NoWs
  <2>1. c.at = "report" /\ c' = [c EXCEPT !.at = "over", !.pruned = b]
    BY <1>3 DEF RunOver
  <2>2. b' = b
    BY <1>1
  <2> HIDE DEF b
  <2>3. /\ c'.at = "over" /\ c'.pruned = b /\ c'.active = c.active /\ c'.reaped = c.reaped
        /\ c'.bad = c.bad /\ c'.cancelled = c.cancelled
    BY <1>0, <2>1 DEF ControlRec
  <2>4. Busy' = Busy
    BY <2>3 DEF Busy
  <2>5. c'.pruned => (\A g \in Group : ws[g] = NoWs)'
    BY <2>2, <2>3 DEF b
  <2>6. Open'
    BY <1>0, <1>1, <2>1, <2>3, <2>4, <2>5 DEF Open
  <2>7. Dispatch' /\ Finished'
    BY <1>0, <1>1, <2>1, <2>3 DEF Dispatch, Dispatching, Finished, AllPassed
  <2> QED
    BY <1>2, <2>6, <2>7 DEF Rest
<1>4. CASE Killed
  <2>1. c'.at = "killed" /\ c'.active = {} /\ c'.reaped = 0 /\ ~ c'.pruned
    BY <1>4 DEF Killed, NewControl
  <2>2. Busy' = {}
    BY <2>1, RunAssumption DEF Busy, Group
  <2>3. Open' /\ Dispatch' /\ Finished'
    BY <2>1, <2>2 DEF Open, Dispatch, Dispatching, Finished
  <2> QED
    BY <1>2, <2>3 DEF Rest
<1> QED
  BY <1>3, <1>4

LEMMA SignalKeeps == ASSUME IInv, Signal PROVE Rest'
<1>0. /\ TypeOK /\ Tenants /\ Handed /\ Kept /\ Open /\ c \in ControlRec
  BY DEF IInv, TypeOK
<1>1. /\ c' = [NewControl(FALSE) EXCEPT !.at = "cancel", !.cancelled = TRUE, !.active = c.active]
      /\ UNCHANGED <<row, ws, nodes>>
      /\ t' = [g \in Group |->
                IF g \in c.active /\ t[g].at # "ended"
                THEN [t[g] EXCEPT !.canceled = TRUE, !.stopping = @ \/ t[g].known]
                ELSE t[g]]
  BY DEF Signal
<1>2. /\ c'.at = "cancel" /\ c'.cancelled /\ c'.active = c.active /\ c'.reaped = 0 /\ ~ c'.pruned
  BY <1>1 DEF NewControl
<1>3. \A g \in Group :
        /\ t'[g].at = t[g].at /\ t'[g].phase = t[g].phase /\ t'[g].norm = t[g].norm
        /\ t'[g].fall = t[g].fall /\ t'[g].filed = t[g].filed /\ t'[g].result = t[g].result
        /\ t'[g].worker = t[g].worker
  BY <1>0, <1>1 DEF TypeOK, TaskRec
<1>10. UNCHANGED <<row, ws, sent, ranks, tomb>>
  BY <1>1 DEF nodes
<1>4. Tenants'
  BY <1>0, <1>3, <1>10 DEF Tenants
<1>5. Handed'
  <2> SUFFICES ASSUME NEW g \in Group
      PROVE  /\ t'[g].norm = "yes" \/ t'[g].fall = "yes" \/ (t'[g].filed /\ t'[g].result.clean)
                  => Gone(g, t[g].phase)'
             /\ t'[g].filed => /\ t'[g].at = "ended" /\ t'[g].worker = "none"
                               /\ L!Closed(t'[g].result)
                               /\ (t'[g].result.st = "PASS" => t'[g].result.clean)
    BY DEF Handed
  <2>1. Gone(g, t[g].phase)' <=> Gone(g, t[g].phase)
    BY <1>3, <1>10 DEF Gone
  <2> QED
    BY <1>0, <1>3, <2>1 DEF Handed
<1>6. Kept'
  BY <1>0, <1>10 DEF Kept
<1>7. Busy' = c.active /\ c.active \subseteq Busy /\ Busy \subseteq Group
  BY <1>0, <1>2, RunAssumption DEF Busy, Group, ControlRec
<1>8. Open'
  <2>1. \A g \in Busy' : t'[g].at # "none" /\ row'[g][t'[g].phase] = L!Running
    BY <1>0, <1>3, <1>7, <1>10 DEF Open
  <2>2. 0 \notin c.active
    BY <1>0 DEF ControlRec, Group
  <2> QED
    BY <1>2, <2>1, <2>2 DEF Open
<1>9. Dispatch' /\ Finished'
  BY <1>2 DEF Dispatch, Dispatching, Finished
<1> QED
  BY <1>4, <1>5, <1>6, <1>8, <1>9 DEF Rest

LEMMA LaunchKeeps == ASSUME IInv, Launch PROVE Rest'
<1> DEFINE g == c.next
           p == c.phase
<1>0. /\ TypeOK /\ Tenants /\ Handed /\ Kept /\ Open /\ Dispatch /\ c \in ControlRec
  BY DEF IInv, TypeOK
<1>1. /\ c.at = "dispatch" /\ g \in Group /\ p \in Phase /\ c.reaped = 0 /\ ~ c.pruned
      /\ g \in Nat /\ p \in Nat
  BY <1>0, RunAssumption DEF Launch, Room, Open, ControlRec, Group, Phase
<1>2. /\ t \in [Group -> TaskRec] /\ ws \in [Group -> Phase \cup {NoWs}]
      /\ row \in [Group -> [Phase -> L!Row]]
  BY <1>0 DEF TypeOK
<1>3. g \notin Busy /\ Busy = c.active /\ Busy \subseteq Group
  BY <1>0, <1>1 DEF Dispatch, Dispatching, Busy, ControlRec, Group
<1>4. /\ row[g][p] = L!Planned
      /\ \A h \in Group, q \in Phase : q > p \/ (q = p /\ h >= g) => row[h][q] = L!Planned
      /\ \A h \in Group, q \in Phase : row[h][q] = L!Blocked => h \in c.blocked
      /\ p = 0 => ~ c.bad /\ \A h \in Group : c.last[h].st = "PASS" => row[h][0].st = "PASS"
      /\ p > 0 => \A h \in Group \ c.blocked : row[h][0].st = "PASS"
      /\ \A h \in Busy : t[h].phase = p /\ h < g
  BY <1>0, <1>1 DEF Dispatch, Dispatching
<1> HIDE DEF g, p
<1> DEFINE Step(x) == /\ c'.at = "dispatch" /\ c'.phase = p /\ c'.next = g + 1 /\ c'.bad = c.bad
                      /\ c'.reaped = 0 /\ c'.pruned = c.pruned /\ c'.cancelled = c.cancelled
                      /\ \A h \in Group : h # g => c'.last[h] = c.last[h]
                      /\ c'.last[g].st = "PASS" => c'.last[g] = c.last[g]
                      /\ c.blocked \subseteq c'.blocked
                      /\ c'.active = c.active \cup x
                      /\ c'.failed \/ (x = {g} /\ c'.failed = c.failed /\ c'.blocked = c.blocked)
                                   \/ (g \in c.blocked /\ c'.failed = c.failed /\ c'.blocked = c.blocked)
\* What the alternatives of Launch have in common.
<1>5. /\ UNCHANGED nodes
      /\ \/ UNCHANGED row
         \/ /\ Publish(g, p, L!Blocked) /\ g \in c.blocked
         \/ /\ Publish(g, p, L!Running) /\ ws' = [ws EXCEPT ![g] = p]
      /\ \/ UNCHANGED ws
         \/ ws[g] = NoWs /\ ws' = [ws EXCEPT ![g] = p]
      /\ \/ UNCHANGED t /\ Step({})
         \/ /\ t' = [t EXCEPT ![g] = NewTask(p)] /\ Step({g})
            /\ ws[g] = NoWs /\ Publish(g, p, L!Running) /\ ws' = [ws EXCEPT ![g] = p]
  <2>1. CASE LaunchBlocked(g)
    <3>0. L!Blocked.st = "BLOCKED"
      BY DEF L!Blocked
    <3>1. CASE c' = [c EXCEPT !.next = @ + 1, !.last[g] = L!Blocked] /\ Publish(g, p, L!Blocked)
      BY <1>0, <1>1, <2>1, <3>0, <3>1 DEF LaunchBlocked, ControlRec, g, p
    <3>2. CASE /\ c' = [c EXCEPT !.next = @ + 1, !.failed = TRUE]
               /\ UNCHANGED row \/ Publish(g, p, L!Blocked)
      BY <1>0, <1>1, <2>1, <3>2 DEF LaunchBlocked, ControlRec, g, p
    <3> QED
      BY <2>1, <3>1, <3>2 DEF LaunchBlocked, p
  <2>2. CASE LaunchRefused(g)
    BY <1>0, <1>1, <2>2 DEF LaunchRefused, Excluded, ControlRec, g, p
  <2>3. CASE LaunchStarts(g)
    <3>1. CASE /\ ws' = [ws EXCEPT ![g] = p] /\ Publish(g, p, L!Running)
               /\ t' = [t EXCEPT ![g] = NewTask(p)]
               /\ c' = [c EXCEPT !.next = @ + 1, !.active = @ \cup {g}, !.last[g] = L!Running]
      BY <1>0, <1>1, <2>3, <3>1 DEF LaunchStarts, ControlRec, g, p, L!Running
    <3>2. CASE /\ UNCHANGED ws \/ ws' = [ws EXCEPT ![g] = p]
               /\ c' = [c EXCEPT !.next = @ + 1, !.failed = TRUE]
               /\ UNCHANGED <<row, t>>
      BY <1>0, <1>1, <2>3, <3>2 DEF LaunchStarts, ControlRec, g, p
    <3>3. CASE /\ ws' = [ws EXCEPT ![g] = p]
               /\ UNCHANGED row \/ Publish(g, p, L!Running)
               /\ c' = Excluded(g) /\ UNCHANGED t
      BY <1>0, <1>1, <2>3, <3>3 DEF LaunchStarts, Excluded, ControlRec, g, p
    <3> QED
      BY <2>3, <3>1, <3>2, <3>3 DEF LaunchStarts, p
  <2> QED
    BY <2>1, <2>2, <2>3 DEF Launch, g
<1> HIDE DEF Step
<1>6. /\ c'.at = "dispatch" /\ c'.phase = p /\ c'.next = g + 1 /\ c'.bad = c.bad
      /\ c'.reaped = 0 /\ c'.pruned = c.pruned /\ c'.cancelled = c.cancelled
      /\ c.blocked \subseteq c'.blocked
      /\ \A h \in Group : c'.last[h].st = "PASS" => c.last[h].st = "PASS"
      /\ c'.active = c.active \/ c'.active = c.active \cup {g}
      /\ ~ c'.failed => c'.blocked = c.blocked /\ ~ c.failed
                        /\ (c'.active = c.active \cup {g} \/ g \in c.blocked)
  BY <1>5 DEF Step
<1>7. Busy' = c'.active
  BY <1>6, RunAssumption DEF Busy, Group
<1>8. \A h \in Group, q \in Phase :
        row'[h][q] = row[h][q]
        \/ (h = g /\ q = p /\ row'[h][q] = L!Blocked /\ g \in c.blocked)
        \/ (h = g /\ q = p /\ row'[h][q] = L!Running /\ ws'[g] = p)
  <2>1. L!Blocked \in L!Row /\ L!Running \in L!Row
    BY LedgerRows
  <2> QED
    BY <1>1, <1>2, <1>5, <2>1 DEF Publish
<1>9. \A h \in Group : ws'[h] = ws[h] \/ (h = g /\ ws[g] = NoWs /\ ws'[g] = p)
  BY <1>1, <1>2, <1>5
<1>10. ws[g] = NoWs => t[g].at = "none" /\ \A q \in Phase : q \notin ranks[g] /\ q \notin sent[g] \ tomb[g]
  BY <1>0, <1>1, <1>2, PhaseIsNoWs DEF Tenants, TaskRec
<1>11. \A h \in Group :
         t'[h] = t[h] \/ (h = g /\ t'[h] = NewTask(p) /\ ws[g] = NoWs /\ ws'[g] = p)
  BY <1>1, <1>2, <1>5
<1>12. /\ NewTask(p).at = "setup" /\ NewTask(p).phase = p /\ NewTask(p).norm = "none"
       /\ NewTask(p).fall = "none" /\ ~ NewTask(p).filed
  BY DEF NewTask
<1>13. UNCHANGED <<sent, ranks, tomb>>
  BY <1>5 DEF nodes
<1>14. Tenants'
  BY <1>0, <1>1, <1>9, <1>10, <1>11, <1>12, <1>13 DEF Tenants
<1>15. Handed'
  BY <1>0, <1>11, <1>12, <1>13 DEF Handed, Gone
<1>16. Kept'
  <2> SUFFICES ASSUME NEW h \in Group, NEW q \in Phase
               PROVE  /\ row'[h][q] \in {L!Planned, L!Running, L!Blocked} \/ L!Closed(row'[h][q])
                      /\ row'[h][q].st = "PASS" => row'[h][q].clean
                      /\ row'[h][q].st \notin {"planned", "BLOCKED"} /\ ~ row'[h][q].clean
                           => ws'[h] = q
    BY DEF Kept
  <2>1. CASE row'[h][q] = row[h][q]
    <3>1. row[h][q].st \notin {"planned", "BLOCKED"} /\ ~ row[h][q].clean => ws[h] = q
      BY <1>0 DEF Kept
    <3>2. ws[h] = q => ws'[h] = q
      BY <1>9, PhaseIsNoWs
    <3> QED
      BY <1>0, <2>1, <3>1, <3>2 DEF Kept
  <2>2. CASE row'[h][q] = L!Blocked
    BY <2>2 DEF L!Blocked
  <2>3. CASE h = g /\ q = p /\ row'[h][q] = L!Running /\ ws'[g] = p
    BY <2>3 DEF L!Running
  <2> QED
    BY <1>8, <2>1, <2>2, <2>3
<1>17. Open'
  <2>1. \A h \in Busy' : t'[h].at # "none" /\ row'[h][t'[h].phase] = L!Running
    <3> SUFFICES ASSUME NEW h \in Busy'
                 PROVE  t'[h].at # "none" /\ row'[h][t'[h].phase] = L!Running
      OBVIOUS
    <3>1. CASE h = g
      <4>1. t' = [t EXCEPT ![g] = NewTask(p)] /\ Publish(g, p, L!Running)
        BY <1>3, <1>5, <1>7, <3>1 DEF Step
      <4> QED
        BY <1>1, <1>2, <1>12, <3>1, <4>1 DEF Publish
    <3>2. CASE h # g
      <4>1. h \in Busy /\ h \in Group /\ t'[h] = t[h] /\ t[h].phase \in Phase
        BY <1>2, <1>3, <1>6, <1>7, <1>11, <3>2 DEF TaskRec
      <4> QED
        BY <1>0, <1>8, <3>2, <4>1 DEF Open
    <3> QED
      BY <3>1, <3>2
  <2>2. 0 \notin c'.active
    BY <1>0, <1>1, <1>6 DEF ControlRec, Group
  <2> QED
    BY <1>1, <1>6, <2>1, <2>2 DEF Open
<1>18. Dispatch'
  <2>1. \A h \in Busy' : t'[h].phase = c'.phase /\ h < c'.next
    <3> SUFFICES ASSUME NEW h \in Busy' PROVE t'[h].phase = p /\ h < g + 1
      BY <1>6
    <3>1. CASE h = g
      <4>1. t' = [t EXCEPT ![g] = NewTask(p)]
        BY <1>3, <1>5, <1>7, <3>1 DEF Step
      <4> QED
        BY <1>1, <1>2, <1>12, <3>1, <4>1
    <3>2. CASE h # g
      <4>1. h \in Busy /\ h \in Group /\ t'[h] = t[h]
        BY <1>3, <1>6, <1>7, <1>11, <3>2
      <4> QED
        BY <1>1, <1>4, <4>1 DEF Group
    <3> QED
      BY <3>1, <3>2
  <2>2. \A h \in Group, q \in Phase :
          q > c'.phase \/ (q = c'.phase /\ h >= c'.next) => row'[h][q] = L!Planned
    <3> SUFFICES ASSUME NEW h \in Group, NEW q \in Phase, q > p \/ (q = p /\ h >= g + 1)
                 PROVE  row'[h][q] = L!Planned
      BY <1>6
    <3>1. h \in Nat /\ q \in Nat
      BY DEF Group, Phase
    <3>2. ~ (h = g /\ q = p) /\ (q > p \/ (q = p /\ h >= g))
      BY <1>1, <3>1
    <3> QED
      BY <1>4, <1>8, <3>2
  <2>3. \A h \in Group, q \in Phase : row'[h][q] = L!Blocked => h \in c'.blocked
    <3>1. L!Running # L!Blocked
      BY DEF L!Running, L!Blocked
    <3> QED
      BY <1>4, <1>6, <1>8, <3>1
  <2>4. \A h \in Group, q \in Phase : row[h][q].st = "PASS" => row'[h][q].st = "PASS"
    <3>1. row[g][p].st # "PASS"
      BY <1>4 DEF L!Planned
    <3> QED
      BY <1>8, <3>1
  <2>5. 0 \in Phase
    BY RunAssumption DEF Phase
  <2>6. c'.phase = 0 => ~ c'.bad /\ \A h \in Group : c'.last[h].st = "PASS" => row'[h][0].st = "PASS"
    BY <1>4, <1>6, <2>4, <2>5
  <2>7. c'.phase > 0 => \A h \in Group \ c'.blocked : row'[h][0].st = "PASS"
    BY <1>4, <1>6, <2>4, <2>5
  <2>8. ~ c'.bad /\ ~ c'.failed =>
          /\ c'.blocked = {}
          /\ \A q \in Phase : q < c'.phase => AllPassed(q)'
          /\ \A h \in Group : h < c'.next => h \in Busy' \/ row'[h][c'.phase].st = "PASS"
          /\ \A h \in Group : c'.reaped = h => ReturnsZero(t[h])'
    <3> SUFFICES ASSUME ~ c'.bad, ~ c'.failed
                 PROVE  /\ c'.blocked = {}
                        /\ \A q \in Phase : q < c'.phase => AllPassed(q)'
                        /\ \A h \in Group : h < c'.next => h \in Busy' \/ row'[h][c'.phase].st = "PASS"
                        /\ \A h \in Group : c'.reaped = h => ReturnsZero(t[h])'
      OBVIOUS
    <3>1. ~ c.bad /\ ~ c.failed /\ c'.blocked = c.blocked
      BY <1>6
    <3>2. /\ c.blocked = {}
          /\ \A q \in Phase : q < p => AllPassed(q)
          /\ \A h \in Group : h < g => h \in Busy \/ row[h][p].st = "PASS"
      BY <1>0, <1>1, <3>1 DEF Dispatch, Dispatching, g, p
    <3>3. c'.active = c.active \cup {g}
      BY <1>6, <3>2
    <3>4. \A q \in Phase : q < c'.phase => AllPassed(q)'
      BY <1>6, <2>4, <3>2 DEF AllPassed
    <3>5. \A h \in Group : h < c'.next => h \in Busy' \/ row'[h][c'.phase].st = "PASS"
      <4> SUFFICES ASSUME NEW h \in Group, h < g + 1
                   PROVE  h \in Busy' \/ row'[h][p].st = "PASS"
        BY <1>6
      <4>1. h = g \/ h < g
        BY <1>1 DEF Group
      <4> QED
        BY <1>1, <1>3, <1>7, <2>4, <3>2, <3>3, <4>1
    <3>6. \A h \in Group : c'.reaped # h
      BY <1>6, RunAssumption DEF Group
    <3> QED
      BY <3>1, <3>2, <3>4, <3>5, <3>6
  <2> QED
    BY <2>1, <2>2, <2>3, <2>6, <2>7, <2>8 DEF Dispatch
<1>19. Finished'
  BY <1>6 DEF Finished
<1> QED
  BY <1>14, <1>15, <1>16, <1>17, <1>18, <1>19 DEF Rest

-----------------------------------------------------------------------------
(* The invariant and what follows from it.                                 *)

LEMMA InitRest == Init => Rest
<1> SUFFICES ASSUME Init PROVE Rest
  OBVIOUS
<1>1. PICK r \in BOOLEAN : c = NewControl(r)
  BY DEF Init
<1>2. /\ c.at = "dispatch" /\ c.active = {} /\ c.reaped = 0 /\ c.phase = 0 /\ c.next = 1
      /\ ~ c.pruned /\ ~ c.bad /\ c.blocked = {} /\ \A g \in Group : c.last[g].st = "none"
  BY <1>1 DEF NewControl
<1>3. \A g \in Group : /\ t[g].at = "none" /\ t[g].norm = "none" /\ t[g].fall = "none"
                       /\ ~ t[g].filed
  BY DEF Init, NoTask, NewTask
<1>4. /\ \A g \in Group : ranks[g] = {} /\ sent[g] = {} /\ tomb[g] = {}
      /\ \A g \in Group, p \in Phase : row[g][p] = L!Planned
  BY DEF Init, L!LedgerInit
<1>5. Busy = {}
  BY <1>2, RunAssumption DEF Busy, Group
<1>6. Tenants /\ Handed
  BY <1>3, <1>4 DEF Tenants, Handed
<1>7. Kept
  BY <1>4 DEF Kept, L!Planned
<1>8. Open
  BY <1>2, <1>5 DEF Open
<1>9. Dispatch
  <2>1. \A q \in Phase : ~ (q < 0)
    BY DEF Phase
  <2>2. \A g \in Group : ~ (g < 1) /\ g # 0
    BY DEF Group
  <2>3. L!Planned # L!Blocked
    BY DEF L!Planned, L!Blocked
  <2> QED
    BY <1>2, <1>4, <1>5, <2>1, <2>2, <2>3 DEF Dispatch
<1>10. Finished
  BY <1>2 DEF Finished
<1> QED
  BY <1>6, <1>7, <1>8, <1>9, <1>10 DEF Rest

LEMMA StepKeeps == IInv /\ [Next]_vars => IInv'
<1> SUFFICES ASSUME IInv, [Next]_vars PROVE IInv'
  OBVIOUS
<1>0. TypeOK /\ Handed /\ Open
  BY DEF IInv
<1>1. CASE Controller \/ Signal \/ Killed
  <2>1. TypeOK'
    BY <1>0, <1>1, ControllerTyped
  <2>2. Rest'
    BY <1>1, LaunchKeeps, ReapKeeps, CollectsKeep, WaveKeeps, StageKeeps, EndsKeep, SignalKeeps
       DEF Controller
  <2> QED
    BY <2>1, <2>2 DEF IInv, Rest
<1>2. CASE \E g \in Group : Task(g) \/ \E p \in Phase : Arrives(g, p)
  <2>1. TypeOK' /\ Rest'
    BY <1>0, <1>2, NodesTyped, TaskKeeps
  <2> QED
    BY <2>1 DEF IInv, Rest
<1>3. CASE UNCHANGED vars
  BY <1>3 DEF IInv, TypeOK, Tenants, Handed, Gone, Kept, Open, Busy, Dispatch, Dispatching,
       AllPassed, ReturnsZero, Finished, vars
<1> QED
  BY <1>1, <1>2, <1>3 DEF Next

\* Every reachable state satisfies the inductive invariant.
THEOREM Invariance == Spec => []IInv
<1>1. Init => IInv
  BY TypeInit, InitRest DEF IInv, Rest
<1> QED
  BY <1>1, StepKeeps, PTL DEF Spec

\* The state of a run keeps its type, whatever fails and whenever it is interrupted.
THEOREM TypeCorrect == Spec => []TypeOK
<1>1. IInv => TypeOK
  BY DEF IInv
<1> QED
  BY <1>1, Invariance, PTL

\* The nodes of a group never run ranks of two phases: what may run there is the task
\* whose workspace exists, and a workspace is given up only when all of it is gone.
THEOREM Tenancy == Spec => []OneTenant
<1>1. IInv => OneTenant
  <2> SUFFICES ASSUME IInv, NEW g \in Group
               PROVE  Cardinality(ranks[g]) <= 1
    BY DEF OneTenant
  <2>1. ranks[g] \subseteq {ws[g]}
    BY DEF IInv, TypeOK, Tenants
  <2>2. ranks[g] = {} \/ ranks[g] = {ws[g]}
    BY <2>1
  <2>3. Cardinality({}) = 0 /\ Cardinality({ws[g]}) = 1
    BY FS_EmptySet, FS_Singleton
  <2> QED
    BY <2>2, <2>3
<1> QED
  BY <1>1, Invariance, PTL

\* A task that is open, or was closed with its cleanup in doubt, keeps its workspace, and
\* the common files are pruned only when there is none left.
THEOREM Evidence == Spec => []EvidenceKept
<1>1. IInv => EvidenceKept
  <2> SUFFICES ASSUME IInv PROVE EvidenceKept
    OBVIOUS
  <2>1. \A g \in Group, p \in Phase :
          row[g][p].st \notin {"planned", "BLOCKED"} /\ ~ row[g][p].clean => ws[g] = p
    BY DEF IInv, Kept
  <2>2. ASSUME c.pruned, NEW g \in Group
        PROVE  ws[g] = NoWs /\ t[g].at = "none"
    <3>1. ws[g] = NoWs
      BY <2>2 DEF IInv, Open
    <3>2. t[g].at # "none" => ws[g] \in Phase
      BY DEF IInv, Tenants, TypeOK, TaskRec
    <3> QED
      BY <3>1, <3>2, PhaseIsNoWs
  <2> QED
    BY <2>1, <2>2 DEF EvidenceKept
<1> QED
  BY <1>1, Invariance, PTL

\* A run that was not cancelled and reports nothing bad has passed every phase of every
\* group.
THEOREM NoSilence == Spec => []NoSilentFailure
<1>1. IInv => NoSilentFailure
  <2> SUFFICES ASSUME IInv, c.at = "over", ~ c.bad, ~ c.cancelled, NEW g \in Group, NEW p \in Phase
               PROVE  row[g][p] = [st |-> "PASS", clean |-> TRUE]
    BY DEF NoSilentFailure
  <2>1. row[g][p].st = "PASS"
    BY DEF IInv, Finished, AllPassed
  <2>2. row[g][p].clean
    BY <2>1 DEF IInv, Kept
  <2>3. row[g][p] \in L!Row
    BY DEF IInv, TypeOK
  <2> QED
    BY <2>1, <2>2, <2>3 DEF L!Row
<1> QED
  BY <1>1, Invariance, PTL

\* A row only goes on as the ledger promises: the controller starts a phase of a group
\* after the earlier ones are closed clean, and closes what it started once.
LEMMA LaunchIsALedgerStep == ASSUME IInv, Launch PROVE [L!LedgerNext]_row
<1> DEFINE g == c.next
           p == c.phase
<1>0. TypeOK /\ Kept /\ Open /\ Dispatch /\ c.at = "dispatch"
  BY DEF IInv, Launch
<1>1. g \in Group /\ p \in Phase
  BY <1>0, RunAssumption DEF Launch, Room, TypeOK, ControlRec, Group
<1>2. /\ row[g][p] = L!Planned
      /\ \A h \in Group, q \in Phase : row[h][q] = L!Blocked => h \in c.blocked
      /\ p > 0 => \A h \in Group \ c.blocked : row[h][0].st = "PASS"
  BY <1>0, <1>1, RunAssumption DEF Dispatch, Dispatching, Group, TypeOK, ControlRec
<1>4. CASE UNCHANGED row
  BY <1>4
<1>5. CASE Publish(g, p, L!Blocked)
  BY <1>1, <1>2, <1>5 DEF Publish, L!LedgerNext, L!Block
<1>6. CASE Publish(g, p, L!Running) /\ g \notin c.blocked /\ ws[g] = NoWs
  <2>1. ASSUME NEW q \in Phase
        PROVE  row[g][q] = L!Planned \/ (L!Closed(row[g][q]) /\ row[g][q].clean)
    <3>1. row[g][q].st \in {"planned", "BLOCKED"} \/ row[g][q].clean
      BY <1>0, <1>1, <1>6, PhaseIsNoWs DEF Kept
    <3>2. row[g][q] # L!Blocked
      BY <1>1, <1>2, <1>6
    <3>3. row[g][q] \in {L!Planned, L!Running, L!Blocked} \/ L!Closed(row[g][q])
      BY <1>0, <1>1 DEF Kept
    <3> QED
      BY <3>1, <3>2, <3>3 DEF L!Running, L!Closed, L!Status
  <2>2. p > 0 => row[g][0].st = "PASS"
    BY <1>1, <1>2, <1>6
  <2>3. L!Start(g, p)
    BY <1>2, <1>6, <2>1, <2>2 DEF L!Start, Publish
  <2> QED
    BY <1>1, <2>3 DEF L!LedgerNext
<1> QED
  BY <1>4, <1>5, <1>6 DEF Launch, LaunchBlocked, LaunchRefused, LaunchStarts

LEMMA CollectIsALedgerStep ==
  ASSUME IInv, NEW g \in Busy, UNCHANGED row \/ (Acceptable(t[g]) /\ Publish(g, t[g].phase, t[g].result))
  PROVE  [L!LedgerNext]_row
<1> DEFINE p == t[g].phase
           r == t[g].result
<1>1. g \in Group /\ p \in Phase /\ row[g][p] = L!Running /\ r \in L!Row
  BY DEF IInv, TypeOK, Busy, Open, TaskRec, ControlRec
<1>2. CASE UNCHANGED row
  BY <1>2
<1>3. CASE Acceptable(t[g]) /\ Publish(g, p, r)
  <2>1. L!Closed(r) /\ (r.st = "PASS" => r.clean)
    BY <1>1, <1>3 DEF IInv, Handed, Acceptable
  <2>2. L!Close(g, p)
    BY <1>1, <1>3, <2>1 DEF L!Close, Publish
  <2> QED
    BY <1>1, <2>2 DEF L!LedgerNext
<1> QED
  BY <1>2, <1>3

LEMMA LedgerStep == IInv /\ [Next]_vars => [L!LedgerNext]_row
<1> SUFFICES ASSUME IInv, Next PROVE [L!LedgerNext]_row
  BY DEF vars
<1>1. CASE Launch
  BY <1>1, LaunchIsALedgerStep
<1>2. CASE CollectReaped
  <2>1. c.reaped \in Busy
    BY <1>2, RunAssumption DEF CollectReaped, IInv, Open, Busy, TypeOK, ControlRec, Group
  <2>2. LET r == t[c.reaped] IN UNCHANGED row \/ (Acceptable(r) /\ Publish(c.reaped, r.phase, r.result))
    BY <1>2 DEF CollectReaped, Collected
  <2> QED
    BY <2>1, <2>2, CollectIsALedgerStep
<1>3. CASE CollectWave \/ CollectCancelled
  <2>1. CASE UNCHANGED row
    BY <2>1
  <2>2. CASE \E g \in Group : /\ First(g)
                              /\ UNCHANGED row
                                 \/ (Acceptable(t[g]) /\ Publish(g, t[g].phase, t[g].result))
    BY <2>2, CollectIsALedgerStep DEF First, Busy
  <2> QED
    BY <1>3, <2>1, <2>2 DEF CollectWave, CollectCancelled, Collected
<1>4. CASE Reap \/ WaveBegins \/ StageEnds \/ RunOver \/ Signal \/ Killed
  BY <1>4 DEF Reap, WaveBegins, StageEnds, RunOver, Signal, Killed
<1>5. CASE \E g \in Group : Task(g) \/ \E p \in Phase : Arrives(g, p)
  BY <1>5, TaskProgress DEF IInv, Progress
<1> QED
  BY <1>1, <1>2, <1>3, <1>4, <1>5 DEF Next, Controller

\* facts.json implements the ledger: a run refines TaskLedger, for any number of groups,
\* stages and failures.
THEOREM LedgerRefined == Spec => LedgerKept
<1>1. Init => L!LedgerInit
  BY DEF Init
<1> QED
  BY <1>1, Invariance, LedgerStep, PTL DEF Spec, LedgerKept, L!LedgerSpec
================================================================================
