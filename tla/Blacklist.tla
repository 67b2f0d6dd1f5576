------------------------------- MODULE Blacklist -------------------------------
(***************************************************************************)
(* BlacklistManager of the controller: the records of the nodes that failed*)
(* (who is banned, and who fatally), written by one reporter at a time, and*)
(* the persistence thread, which saves them every few seconds while they   *)
(* change under it.  The controller may die at any step; what it reads when*)
(* it is started again depends on what the save had reached.               *)
(*                                                                         *)
(* Time is a choice: how many of the faults of a node lie in the window of *)
(* the soft ban, and which network faults in the window of the rack        *)
(* detector.  Scores order the degraded nodes and are left out, and so are *)
(* MANUAL faults, which nothing but a person reports.                      *)
(***************************************************************************)
EXTENDS Naturals, FiniteSets

CONSTANTS Node,
          SoftBan, AutoBan,   \* thresholds per fault type
          RackFault,          \* nodes with a network fault that make a rack fault
          MaxReports,         \* bound on the faults reported
          MaxFault            \* bound on failing writes and damaged files

FaultType == {"NETWORK", "HCU", "GRADIENT_INF"}

ASSUME BlacklistAssumption ==
  /\ SoftBan \in [FaultType -> Nat \ {0}] /\ AutoBan \in [FaultType -> Nat \ {0}]
  /\ RackFault \in Nat \ {0} /\ MaxReports \in Nat /\ MaxFault \in Nat

VARIABLES
  up,        \* the controller runs
  nodes,     \* _nodes
  report,    \* the report being made: its node and how far it is
  timeline,  \* the nodes in the rack detector's timeline
  recent,    \* nodes whose last fault is less than auto_whitelist_hours ago
  dirty,     \* _dirty
  save,      \* the save being made: its snapshot and how far it is
  main, bak, \* persistence_path and persistence_backup_path
  promised,  \* history: banned in the last save that came to its end, and since
  reports, faults

vars == <<up, nodes, report, timeline, recent, dirty, save, main, bak, promised,
          reports, faults>>
disk == <<main, bak, promised>>

NoRecord == [count |-> [f \in FaultType |-> 0], listed |-> FALSE, fatal |-> FALSE, soft |-> FALSE]
Fresh == [NoRecord EXCEPT !.listed = TRUE]
Empty == [n \in Node |-> NoRecord]

Banned(list, n) == list[n].fatal \/ list[n].soft

\* A file holds a list, is not there, or cannot be parsed.
Absent == [state |-> "absent"]
Torn == [state |-> "torn"]
Holding(list) == [state |-> "whole", list |-> list]
Whole(file) == file.state = "whole"

NoReport == [at |-> "none"]
NoSave == [at |-> "none"]

Init ==
  /\ up = FALSE /\ nodes = Empty /\ report = NoReport /\ timeline = {} /\ recent = {}
  /\ dirty = FALSE /\ save = NoSave
  /\ main = Absent /\ bak = Absent /\ promised = {}
  /\ reports = 0 /\ faults = 0

Fault == faults < MaxFault /\ faults' = faults + 1
NoFault == UNCHANGED faults

-----------------------------------------------------------------------------
(* report_fault, step by step: the save may come in between.               *)

\* The node that completes a rack fault is not recorded; those before it were.
RackFaultSeen(n) ==
  /\ up /\ report = NoReport /\ reports < MaxReports
  /\ reports' = reports + 1
  /\ \E kept \in SUBSET timeline : Cardinality(kept \cup {n}) >= RackFault
  /\ timeline' = {}
  /\ UNCHANGED <<up, nodes, report, recent, dirty, save, disk, faults>>

\* add_fault.  The time of this fault becomes last_fault_time.
Noted(n, f) ==
  /\ nodes' = [nodes EXCEPT ![n].listed = TRUE, ![n].count[f] = @ + 1]
  /\ recent' = recent \cup {n}

FaultNoted(n, f) ==
  /\ up /\ report = NoReport /\ reports < MaxReports
  /\ reports' = reports + 1
  /\ IF f = "NETWORK"
     THEN \E kept \in SUBSET timeline :
            /\ Cardinality(kept \cup {n}) < RackFault
            /\ timeline' = kept \cup {n}
     ELSE UNCHANGED timeline
  /\ Noted(n, f)
  /\ \E critical \in BOOLEAN :    \* the severity of the error code
       report' = [at |-> "noted", node |-> n, fatal |-> critical \/ f = "HCU", type |-> f]
  /\ UNCHANGED <<up, dirty, save, disk, faults>>

\* Of the faults of a type, any number but the one just noted may be too old.
SoftBans(r, f) ==
  {b \in BOOLEAN : /\ b => \E t \in FaultType : r.count[t] >= SoftBan[t]
                   /\ SoftBan[f] = 1 => b}

AutoBanned(r) == \E f \in FaultType : r.count[f] >= AutoBan[f]

Whitelisted(n) == n \notin recent

Judged(n, fatal, soft) ==
  LET r == nodes[n]
      f == r.fatal \/ fatal \/ AutoBanned(r)
      s == r.soft \/ (~ r.fatal /\ ~ fatal /\ soft)
  IN nodes' = [nodes EXCEPT ![n].fatal = f /\ ~ Whitelisted(n),
                            ![n].soft = s /\ ~ Whitelisted(n)]

FaultJudged ==
  /\ report.at = "noted"
  /\ \E soft \in SoftBans(nodes[report.node], report.type) : Judged(report.node, report.fatal, soft)
  /\ report' = [at |-> "judged"]
  /\ promised' = {n \in promised : Banned(nodes', n)}
  /\ UNCHANGED <<up, timeline, recent, dirty, save, main, bak, reports, faults>>

Reported ==
  /\ report.at = "judged"
  /\ report' = NoReport /\ dirty' = TRUE
  /\ UNCHANGED <<up, nodes, timeline, recent, save, disk, reports, faults>>

\* remove_node and clear_node_history, for a person to call after a repair.
Repaired(n) ==
  /\ up /\ report = NoReport /\ nodes[n].listed
  /\ \E r \in {NoRecord, Fresh} : nodes' = [nodes EXCEPT ![n] = r]
  /\ dirty' = TRUE /\ promised' = promised \ {n}
  /\ UNCHANGED <<up, report, timeline, recent, save, main, bak, reports, faults>>

HoursPass ==
  /\ report = NoReport /\ recent # {}
  /\ recent' = {}
  /\ UNCHANGED <<up, nodes, report, timeline, dirty, save, disk, reports, faults>>

-----------------------------------------------------------------------------
(* _persist_loop and save.                                                 *)

SnapshotTaken ==
  /\ up /\ save = NoSave /\ dirty
  /\ save' = [at |-> "taken", snapshot |-> nodes]
  /\ UNCHANGED <<up, nodes, report, timeline, recent, dirty, disk, reports, faults>>

\* Written to a temporary file and moved.
MainReplaced ==
  /\ save.at = "taken"
  /\ main' = Holding(save.snapshot)
  /\ save' = [save EXCEPT !.at = "moved"]
  /\ UNCHANGED <<up, nodes, report, timeline, recent, dirty, bak, promised, reports, faults>>

\* Cleared although nothing was saved.
Bug_SaveFailed ==
  /\ save.at = "taken" /\ Fault
  /\ save' = NoSave /\ dirty' = FALSE
  /\ UNCHANGED <<up, nodes, report, timeline, recent, disk, reports>>

SaveFailed ==
  /\ save.at = "taken" /\ Fault
  /\ save' = NoSave
  /\ UNCHANGED <<up, nodes, report, timeline, recent, dirty, disk, reports>>

\* shutil.copy2 truncates the backup before it fills it.  A failure is only logged.
CopyBegun ==
  /\ save.at = "moved"
  /\ \/ bak' = Torn /\ save' = [save EXCEPT !.at = "copying"] /\ NoFault
     \/ UNCHANGED bak /\ save' = [save EXCEPT !.at = "copied"] /\ Fault
  /\ UNCHANGED <<up, nodes, report, timeline, recent, dirty, main, promised, reports>>

CopyEnded ==
  /\ save.at = "copying"
  /\ \/ bak' = main /\ NoFault
     \/ UNCHANGED bak /\ Fault
  /\ save' = [save EXCEPT !.at = "copied"]
  /\ UNCHANGED <<up, nodes, report, timeline, recent, dirty, main, promised, reports>>

Persisted ==
  /\ save.at = "copied"
  /\ save' = NoSave /\ dirty' = FALSE
  /\ promised' = {n \in Node : Banned(save.snapshot, n) /\ Banned(nodes, n)}
  /\ UNCHANGED <<up, nodes, report, timeline, recent, main, bak, reports, faults>>

-----------------------------------------------------------------------------
(* The controller dies, and is started again.                              *)

\* Nothing is saved on the way out: the thread is a daemon, stop is not called.
Crash ==
  /\ up
  /\ up' = FALSE /\ nodes' = Empty /\ report' = NoReport /\ timeline' = {}
  /\ dirty' = FALSE /\ save' = NoSave
  /\ UNCHANGED <<recent, disk, reports, faults>>

\* The main file is damaged or removed while the controller is down.
Damaged ==
  /\ ~ up /\ Whole(main) /\ Fault
  /\ main' \in {Torn, Absent}
  /\ UNCHANGED <<up, nodes, report, timeline, recent, dirty, save, bak, promised, reports>>

\* The backup is forgotten.
Bug_Loaded == IF Whole(main) THEN main.list ELSE Empty

Loaded == IF Whole(main) THEN main.list
          ELSE IF main = Torn /\ Whole(bak) THEN bak.list ELSE Empty

\* Without a main file an empty list is written, whatever the backup holds; a list that
\* comes from the backup is saved again.  Either may fail.  A start that finds nothing to
\* load has forgotten every ban: the next saves promise anew.
Started ==
  /\ ~ up
  /\ up' = TRUE /\ nodes' = Loaded
  /\ IF main = Absent \/ (main = Torn /\ Whole(bak))
     THEN \/ main' = Holding(Loaded) /\ NoFault
          \/ UNCHANGED main /\ Fault
     ELSE UNCHANGED <<main, faults>>
  /\ promised' = IF main = Absent \/ ~ (Whole(main) \/ Whole(bak)) THEN {} ELSE promised
  /\ UNCHANGED <<report, timeline, recent, dirty, save, bak, reports>>

Next ==
  \/ \E n \in Node : \/ RackFaultSeen(n) \/ Repaired(n)
                     \/ \E f \in FaultType : FaultNoted(n, f)
  \/ FaultJudged \/ Reported \/ HoursPass
  \/ SnapshotTaken \/ MainReplaced \/ SaveFailed \/ CopyBegun \/ CopyEnded \/ Persisted
  \/ Crash \/ Damaged \/ Started

Spec == Init /\ [][Next]_vars

-----------------------------------------------------------------------------
(* What should hold.                                                       *)

\* What a completed save held, and nobody repaired since, is banned again after a restart,
\* wherever the controller died: a main file that was damaged is made up for by the backup
\* while at most one thing went wrong.  It says nothing of a main file that was removed: the
\* code then forgets every ban although a whole backup lies beside it; nor of a damaged one
\* whose backup cannot be read, because its copy failed or was cut short by the death.
RestartRemembers ==
  [][/\ ~ up /\ up' /\ faults < 2
     /\ main # Absent /\ (Whole(main) \/ Whole(bak))
     => \A n \in promised : Banned(nodes', n)]_vars

\* A ban whose report ended while nothing was being saved comes to the disk, however
\* often a save fails, unless the controller dies or the node is repaired before.
BanReachesDisk ==
  \A n \in Node :
    (up /\ dirty /\ save = NoSave /\ Banned(nodes, n)) ~>
      (~ up \/ (Whole(main) /\ Banned(main.list, n)) \/ ~ Banned(nodes, n))

\* The thread wakes up every persistence_interval, and writing ends one way or the other.
Fairness == WF_vars(SnapshotTaken \/ MainReplaced \/ CopyBegun \/ CopyEnded \/ Persisted)

FairSpec == Spec /\ Fairness

\* A ban of a node that stayed healthy for auto_whitelist_hours is lifted, as the module's
\* head and its configuration say.  It does not hold: the only place that lifts bans is the
\* judgement of a new fault of the node, whose time has just become its last_fault_time.
BansAreLifted ==
  \A n \in Node :
    (up /\ Banned(nodes, n) /\ n \notin recent) ~>
      (~ up \/ ~ Banned(nodes, n) \/ n \in recent)
================================================================================
