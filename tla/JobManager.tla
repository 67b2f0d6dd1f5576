----------------------------- MODULE JobManager -----------------------------
(***************************************************************************)
(* The controller of one training job: DistributedJobManager's loop, the   *)
(* state machine it drives, the event bus between it and the two monitor   *)
(* threads, the state file, and the training itself.                       *)
(*                                                                         *)
(* The manager thread is sequential.  It takes one event, or, when the bus *)
(* is empty, what next_action says, and then executes commands until one   *)
(* returns NONE: a stop is followed by a start without a look at the bus   *)
(* in between.  Meanwhile the monitors keep publishing, the training makes *)
(* progress, fails or dies, and the process may be killed and run again.   *)
(*                                                                         *)
(* running_state.json is opened with "w", which empties it, and then       *)
(* filled; either may fail, which is only logged, and the controller may   *)
(* die in between.                                                         *)
(*                                                                         *)
(* Launches are numbered; "run" is the last one.  Of the node pool only    *)
(* this is present: whether it has running nodes ("assigned"), and that    *)
(* processes on a node that is not in normal_nodes.txt are out of reach of *)
(* the stop command ("stranded").                                          *)
(***************************************************************************)
EXTENDS JobStateMachine, Sequences, FiniteSets

CONSTANTS MaxRun,      \* bound on launches
          MaxBus,      \* bound on waiting events
          MaxMishap,   \* bound on deaths of the controller, failed writes, changed
                       \* configurations and stops that miss a node
          Published    \* the signals the monitors publish: all of them, or fewer

ASSUME Bounds == MaxRun \in Nat /\ MaxBus \in Nat /\ MaxMishap \in Nat
ASSUME PublishedSignals == Published \subseteq LogSignal \cup NodeSignal

VARIABLES mgr,       \* where the manager thread is, see Place
          m,         \* the state machine in memory
          file,      \* run_state in running_state.json
          pen,       \* the write of the file: to be opened, to be filled, or "none"
          unsaved,   \* the last write of the file did not come to its end (history)
          tries,     \* failed stop attempts of the stop in progress
          assigned,  \* NodePool._running_nodes is not empty
          bus,       \* EventBus._queue
          watching,  \* LogMonitor's threads run
          cached,    \* a launch whose exit waits in FaultHandler's cache, or 0
          alerted,   \* LogMonitor.alerts["no_update"]
          run,       \* launches so far
          alive,     \* launches with processes on nodes the stop command reaches
          stranded,  \* launches with processes on nodes it does not reach
          slipped,   \* launches that slipped out of the controller's hands (history,
                     \* see OneInHand)
          logged,    \* the last launch has written to its log
          sick,      \* the last launch makes no more progress
          mishaps

written == <<file, pen, unsaved>>
manager == <<mgr, m, written, tries, assigned>>
monitor == <<watching, cached, alerted>>
training == <<run, alive, stranded, slipped, logged, sick>>
vars == <<manager, bus, monitor, training, mishaps>>

\* "loop" is the main loop, "start" waiting for nodes, "launch" with nodes
\* assigned, "launched" before the success is reported, "stop" before an attempt,
\* "stopped" after a successful one.
Place == {"down", "loop", "start", "launch", "launched", "stop", "stopped"}
Run == 1..MaxRun
Event == [sig : LogSignal \cup NodeSignal, where : Where, run : 0..MaxRun]

TypeOK ==
  /\ mgr \in Place
  /\ m \in Machine
  /\ file \in RunState \cup {Unread}
  /\ pen \in {"none", "open", "fill"} /\ unsaved \in BOOLEAN
  /\ tries \in 0..2
  /\ assigned \in BOOLEAN
  /\ bus \in Seq(Event)
  /\ watching \in BOOLEAN /\ alerted \in BOOLEAN /\ cached \in 0..MaxRun
  /\ run \in 0..MaxRun
  /\ alive \in SUBSET Run /\ stranded \in SUBSET Run /\ slipped \in SUBSET Run
  /\ logged \in BOOLEAN /\ sick \in BOOLEAN
  /\ mishaps \in 0..MaxMishap

NoMachine == [state |-> "INIT", phase |-> "none"]

Init ==
  /\ mgr = "down" /\ m = NoMachine /\ tries = 0 /\ assigned = FALSE
  /\ file = Unread /\ pen = "none" /\ unsaved = FALSE
  /\ bus = <<>>
  /\ watching = FALSE /\ cached = 0 /\ alerted = FALSE
  /\ run = 0 /\ alive = {} /\ stranded = {} /\ slipped = {} /\ logged = FALSE /\ sick = FALSE
  /\ mishaps = 0

Mishap == mishaps < MaxMishap /\ mishaps' = mishaps + 1
NoMishap == UNCHANGED mishaps

Living == alive \cup stranded

\* _set_state writes the file only when a handler changed the state.  The thread does
\* nothing else until the write has ended.
MoveTo(n) ==
  /\ m' = n
  /\ pen' = IF n.state = m.state THEN "none" ELSE "open"
  /\ UNCHANGED <<file, unsaved>>

Idle == pen = "none"

StopWatching == watching' = FALSE /\ cached' = 0 /\ alerted' = FALSE

-----------------------------------------------------------------------------
(* The manager thread.                                                     *)

\* _persist_state, open(path, "w"): the file is empty, or it could not be opened and is
\* what it was.
OpenFile ==
  /\ pen = "open"
  /\ \/ file' = Unread /\ pen' = "fill" /\ NoMishap
     \/ UNCHANGED file /\ pen' = "none" /\ Mishap
  /\ unsaved' = TRUE
  /\ UNCHANGED <<mgr, m, tries, assigned, bus, monitor, training>>

\* json.dump and close: all of it, or a beginning that does not parse.
FillFile ==
  /\ pen = "fill"
  /\ pen' = "none"
  /\ \/ file' = m.state /\ unsaved' = FALSE /\ NoMishap
     \/ UNCHANGED <<file, unsaved>> /\ Mishap
  /\ UNCHANGED <<mgr, m, tries, assigned, bus, monitor, training>>

\* Variant: STARTING is not written when the first start begins.
Bug_UnsavedStart ==
  /\ mgr = "down"
  /\ mgr' = "loop"
  /\ LET s == LoadedState(file, TRUE)
     IN  /\ m' = InitState(s)
         /\ assigned' = (assigned /\ s # "INIT")
         /\ watching' = (s \in {"PENDING", "RUNNING"})
  /\ UNCHANGED <<written, tries, bus, cached, alerted, training, mishaps>>

\* run: build the components, load the state file, restore.  "same" is whether the
\* configuration is the one the file was written with.  A controller that finds INIT
\* although launches live has forgotten them.
BootWith(same) ==
  /\ mgr = "down"
  /\ mgr' = "loop"
  /\ LET s == LoadedState(file, same)
         n == InitState(s)
     IN  /\ m' = n
         /\ pen' = IF n.state = s THEN "none" ELSE "open"
         /\ assigned' = (assigned /\ s # "INIT")
         /\ watching' = (n.state \in {"PENDING", "RUNNING"})
         /\ slipped' = IF s = "INIT" /\ (unsaved \/ ~ same)
                       THEN slipped \cup Living ELSE slipped
  /\ IF same THEN NoMishap ELSE Mishap
  /\ UNCHANGED <<file, unsaved, tries, bus, cached, alerted, run, alive, stranded, logged,
                 sick>>

Boot == \E same \in BOOLEAN : BootWith(same)

\* Where a command takes the thread.
Enter(cmd) ==
  CASE cmd = "START_TRAINING" -> "start"
    [] cmd = "STOP_TRAINING"  -> "stop"
    [] OTHER                  -> "loop"

\* Isolating a node of the current allocation puts its processes out of reach.  A
\* rank is turned into a node of the allocation that is current now.  Nothing
\* happens for a host that is not running, or a rank that does not parse, and the
\* callers do not all look at the answer.
Isolate(e) ==
  \/ /\ Isolates(m.state, e)
     /\ assigned' = FALSE
     /\ stranded' = stranded \cup (alive \cap {run})
     /\ slipped' = slipped \cup (alive \cap {run})
  \/ UNCHANGED <<assigned, stranded, slipped>>

TakeEvent ==
  /\ Idle /\ mgr = "loop" /\ bus # <<>>
  /\ MoveTo(Dispatch(m, Head(bus)))
  /\ mgr' = Enter(CommandOf(m, Head(bus)))
  /\ Isolate(Head(bus))
  /\ bus' = Tail(bus)
  /\ UNCHANGED <<tries, monitor, run, alive, logged, sick, mishaps>>

TakeAction ==
  /\ Idle /\ mgr = "loop" /\ bus = <<>>
  /\ NextAction(m) # "NONE"
  /\ mgr' = Enter(NextAction(m))
  /\ UNCHANGED <<m, written, tries, assigned, bus, monitor, training, mishaps>>

\* apply_node_num_resources returned enough nodes.
GetNodes ==
  /\ Idle /\ mgr = "start"
  /\ mgr' = "launch"
  /\ assigned' = TRUE
  /\ UNCHANGED <<m, written, tries, bus, monitor, training, mishaps>>

\* Bare metal with too few nodes: a RuntimeError ends the process.
NoNodes ==
  /\ Idle /\ mgr = "start" /\ Mishap
  /\ mgr' = "down" /\ m' = NoMachine /\ bus' = <<>> /\ StopWatching
  /\ UNCHANGED <<written, tries, assigned, training>>

NewRun ==
  /\ run < MaxRun
  /\ run' = run + 1
  /\ alive' = alive \cup {run + 1}
  /\ logged' = FALSE /\ sick' = FALSE
  /\ UNCHANGED stranded

LaunchOK ==
  /\ Idle /\ mgr = "launch"
  /\ NewRun
  /\ UNCHANGED slipped
  /\ mgr' = "launched"
  /\ UNCHANGED <<m, written, tries, assigned, bus, monitor, mishaps>>

\* A failed launch gives the nodes back and asks again, without a stop.
LaunchFails ==
  /\ Idle /\ mgr = "launch"
  /\ mgr' = "start"
  /\ assigned' = FALSE
  /\ UNCHANGED <<m, written, tries, bus, monitor, training, mishaps>>

\* The command timed out although the processes were started.
LaunchTimesOut ==
  /\ Idle /\ mgr = "launch"
  /\ NewRun
  /\ slipped' = slipped \cup {run'}
  /\ mgr' = "start"
  /\ assigned' = FALSE
  /\ UNCHANGED <<m, written, tries, bus, monitor, mishaps>>

Signalled(sig) == [sig |-> sig, where |-> "nowhere", run |-> run]

\* log_monitor.start, then START_SUCCESS.
ReportStart ==
  /\ Idle /\ mgr = "launched"
  /\ MoveTo(Dispatch(m, Signalled("START_SUCCESS")))
  /\ mgr' = Enter(CommandOf(m, Signalled("START_SUCCESS")))
  /\ watching' = TRUE
  /\ UNCHANGED <<tries, assigned, bus, cached, alerted, training, mishaps>>

\* Variant: the stop command is taken as done without being sent.
Bug_StopNotSent ==
  /\ Idle /\ mgr = "stop"
  /\ mgr' = "stopped" /\ tries' = 0
  /\ UNCHANGED <<m, written, assigned, bus, monitor, training, mishaps>>

\* launcher.stop(normal_nodes_file) returned 0.  Processes are killed on the nodes of that
\* file and on no others: a node that was isolated, that an expansion added without
\* entering it there, or that is missing because the file is empty or being rewritten,
\* keeps its own.  With no node in the file the command is not even sent.
StopOK ==
  /\ Idle /\ mgr = "stop"
  /\ mgr' = "stopped" /\ tries' = 0
  /\ alive' = {} /\ stranded' \in SUBSET Living
  /\ slipped' = slipped \cup stranded'
  /\ IF stranded' \subseteq stranded THEN NoMishap ELSE Mishap
  /\ UNCHANGED <<m, written, assigned, bus, monitor, run, logged, sick>>

\* Variant: one attempt too many.
Bug_FourthAttempt ==
  /\ Idle /\ mgr = "stop" /\ tries <= 2
  /\ tries' = tries + 1
  /\ UNCHANGED <<mgr, m, written, assigned, bus, monitor, training, mishaps>>

StopFails ==
  /\ Idle /\ mgr = "stop" /\ tries < 2
  /\ tries' = tries + 1
  /\ UNCHANGED <<mgr, m, written, assigned, bus, monitor, training, mishaps>>

\* The third failure: give the nodes back and start again all the same.
GiveUpStop ==
  /\ Idle /\ mgr = "stop" /\ tries = 2
  /\ tries' = 0 /\ assigned' = FALSE
  /\ StopWatching
  /\ MoveTo([m EXCEPT !.state = "STARTING"])
  /\ mgr' = "start"
  /\ slipped' = slipped \cup Living
  /\ UNCHANGED <<bus, run, alive, stranded, logged, sick, mishaps>>

\* report_fault, release_runing_nodes, log_monitor.stop, then STOP_SUCCESS.
ReportStop ==
  /\ Idle /\ mgr = "stopped"
  /\ MoveTo(Dispatch(m, Signalled("STOP_SUCCESS")))
  /\ mgr' = Enter(CommandOf(m, Signalled("STOP_SUCCESS")))
  /\ assigned' = FALSE
  /\ StopWatching
  /\ UNCHANGED <<tries, bus, training, mishaps>>

\* The process dies, also between opening and filling the file: what is in memory is
\* lost, the training goes on.
Crash ==
  /\ mgr # "down" /\ Mishap
  /\ mgr' = "down" /\ m' = NoMachine /\ tries' = 0 /\ bus' = <<>> /\ StopWatching
  /\ pen' = "none"
  /\ UNCHANGED <<file, unsaved, assigned, training>>

-----------------------------------------------------------------------------
(* The monitors.                                                           *)

Publish(sig, where, r) ==
  /\ sig \in Published
  /\ Len(bus) < MaxBus
  /\ bus' = Append(bus, [sig |-> sig, where |-> where, run |-> r])

Progressing == run \in alive /\ ~ sick

\* The first line of a start, and again every minute; and every iteration.
SeeLine ==
  /\ watching /\ Progressing /\ logged
  /\ \E sig \in {"LOG_RUNNING", "LOG_ITER"} : Publish(sig, "nowhere", run)
  /\ UNCHANGED <<manager, monitor, training, mishaps>>

\* A line about a loss or inf is published at once.
SeeLoss ==
  /\ watching /\ Progressing /\ logged
  /\ \E sig \in {"LOG_LOSS", "LOG_INF"}, where \in {"nowhere", "rank"} : Publish(sig, where, run)
  /\ UNCHANGED <<manager, monitor, training, mishaps>>

\* So is a torchrun root cause, which names a host and empties the cache.
SeeRootCause ==
  /\ watching /\ run \in alive /\ logged
  /\ \E where \in {"nowhere", "host"} : Publish("LOG_EXIT", where, run)
  /\ sick' = TRUE
  /\ cached' = 0
  /\ UNCHANGED <<manager, watching, alerted, run, alive, stranded, slipped, logged, mishaps>>

\* Other exit and hang lines wait FAULT_DELAY seconds for more of their kind.
CacheExit ==
  /\ watching /\ run \in alive /\ logged /\ cached = 0
  /\ "LOG_EXIT" \in Published
  /\ cached' = run
  /\ sick' = TRUE
  /\ UNCHANGED <<manager, bus, watching, alerted, run, alive, stranded, slipped, logged, mishaps>>

SendCached ==
  /\ watching /\ cached # 0
  /\ \E sig \in {"LOG_EXIT", "LOG_HANG"}, where \in Where : Publish(sig, where, cached)
  /\ cached' = 0
  /\ UNCHANGED <<manager, watching, alerted, training, mishaps>>

\* No line for too long, once per start of the monitor.
SeeNoUpdate ==
  /\ watching /\ ~ alerted
  /\ ~ (Progressing /\ logged)
  /\ Publish("LOG_HANG", "nowhere", run)
  /\ alerted' = TRUE
  /\ UNCHANGED <<manager, watching, cached, training, mishaps>>

\* The NHC monitor finds a faulty running node; it does not isolate it.
SeeBadNode ==
  /\ mgr # "down" /\ assigned
  /\ Publish("NODE_ABNORMAL", "nowhere", run)
  /\ UNCHANGED <<manager, monitor, training, mishaps>>

\* Slurm took the allocation away, and with it every process; the monitor
\* submits the job again and resets the pool to the nodes it is given.
SeeRelease ==
  /\ mgr # "down"
  /\ Publish("JOB_RELEASE", "nowhere", run)
  /\ alive' = {} /\ stranded' = {} /\ assigned' = FALSE
  /\ UNCHANGED <<mgr, m, written, tries, monitor, run, slipped, logged, sick, mishaps>>

-----------------------------------------------------------------------------
(* The training.                                                           *)

WriteLog ==
  /\ Progressing /\ ~ logged
  /\ logged' = TRUE
  /\ UNCHANGED <<manager, bus, monitor, run, alive, stranded, slipped, sick, mishaps>>

\* It hangs, or some of its ranks die while others wait for them.
Sicken ==
  /\ Progressing
  /\ sick' = TRUE
  /\ UNCHANGED <<manager, bus, monitor, run, alive, stranded, slipped, logged, mishaps>>

Die ==
  /\ \E r \in Living : alive' = alive \ {r} /\ stranded' = stranded \ {r}
  /\ UNCHANGED <<manager, bus, monitor, run, slipped, logged, sick, mishaps>>

-----------------------------------------------------------------------------
Manager ==
  \/ Boot \/ TakeEvent \/ TakeAction \/ GetNodes \/ LaunchOK \/ LaunchFails
  \/ LaunchTimesOut \/ ReportStart \/ StopOK \/ StopFails \/ GiveUpStop \/ ReportStop
  \/ OpenFile \/ FillFile

Monitors ==
  \/ SeeLine \/ SeeLoss \/ SeeRootCause \/ CacheExit \/ SendCached \/ SeeNoUpdate
  \/ SeeBadNode \/ SeeRelease

Training == WriteLog \/ Sicken \/ Die

Next == Manager \/ NoNodes \/ Crash \/ Monitors \/ Training

Spec == Init /\ [][Next]_vars

\* The code's threads keep running, a stop succeeds within three attempts and a
\* launch that is retried succeeds in the end.  Strong fairness of SeeNoUpdate
\* stands for a bus without bound.
Fairness ==
  /\ WF_vars(Boot) /\ WF_vars(TakeEvent) /\ SF_vars(TakeAction)
  /\ WF_vars(GetNodes) /\ SF_vars(LaunchOK) /\ WF_vars(ReportStart)
  /\ WF_vars(StopOK) /\ WF_vars(ReportStop)
  /\ WF_vars(OpenFile) /\ WF_vars(FillFile)
  /\ SF_vars(SeeNoUpdate)

\* Events are rarer than the loop takes them: a minute lies between two rounds of
\* the monitors, and get_event waits a second before next_action has its turn.
SlowMonitors == []<>(mgr = "loop" => bus = <<>>)

FairSpec == Spec /\ Fairness /\ SlowMonitors

-----------------------------------------------------------------------------
(***************************************************************************)
(* "RECOVERING: stop the old training first, then request nodes and start  *)
(* again" (architecture.md).  The code does not keep two launches apart in *)
(* every case.  A launch slips out of its hands                            *)
(*   - when a node is isolated before the stop, which then does not reach  *)
(*     it, or a stop reports success although it missed nodes otherwise,   *)
(*   - when three stops fail and it starts all the same,                   *)
(*   - when the launch command times out and is repeated without a stop,   *)
(*   - when a controller finds INIT: the file was cut, or the              *)
(*     configuration is another one,                                       *)
(* and in no other way: of the launches that did not slip, at most one has *)
(* processes, wherever the controller died, whichever write of the file    *)
(* failed and whatever the monitors reported.                              *)
(***************************************************************************)
Known == Living \ slipped

OneInHand == \A r, s \in Known : r = s

\* "The current stop kills the processes named python on the running nodes"
\* (recovery_workflow.md): after a successful stop nothing of the launch runs.  It does
\* not hold: the list the stop is sent to has lost the node that was just isolated.
StopStopsAll == mgr = "stopped" => run \notin Living

\* While a training lives, running_state.json says more than INIT, unless the last write
\* of it did not come to its end: whoever reads it next, with the same configuration,
\* will either watch that training or stop it.
FileKnowsTraining == Living # {} /\ ~ unsaved => file \notin {"INIT", Unread}

\* A controller that is started again while a training lives, with the configuration of
\* that training and a file whose write came to its end, goes on with it or recovers; it
\* does not begin a new job (recovery_workflow.md, restart, steps 2 and 4).
RestartRecovers ==
  [][BootWith(TRUE) /\ Living # {} /\ ~ unsaved => m'.state \in {"PENDING", "RECOVERING"}]_vars

\* The node that is isolated belongs to the launch that failed ("the node behind the
\* exit"), not to the one that replaced it.  It does not hold (README, section 7).
FaultBlamesItsRun ==
  [][TakeEvent /\ Head(bus).where = "rank" /\ Head(bus).run # run => UNCHANGED stranded]_vars

\* "It will be restarted after TRAIN_NO_UPDATE_THRESHOLD" (the alarm sent when the
\* state machine gives up on an event): a launch that stops making progress, for
\* whatever reason and whatever became of the events about it, is replaced.
Failed(r) == run = r /\ ~ Progressing

FailureIsReplaced == \A r \in 1..(MaxRun - 1) : Failed(r) ~> (run > r)

(***************************************************************************)
(* The whole controller implements RecoveryCycle, where a launch that      *)
(* slipped counts for nothing and a file whose write did not come to its   *)
(* end says nothing.                                                       *)
(***************************************************************************)
Record ==
  CASE unsaved                                   -> "torn"
    [] ~ unsaved /\ file \in {"PENDING", "RUNNING"} -> "training"
    [] ~ unsaved /\ file = "RECOVERING"             -> "recovering"
    [] OTHER                                        -> "new"

Cycle == INSTANCE RecoveryCycle WITH record <- Record, alive <- Known
CycleSpec == Cycle!Spec
=============================================================================
