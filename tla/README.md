# Formal models of cluster-manager-das

This directory is a verification project for the repository in `src/`: TLA+
modules translated from the code, TLC configurations that check them on small
instances, and theorems whose proofs TLAPS checks for every value of the
constants. `PROJECT.json` is the machine-readable index: which definition stands
for which lines of code (`map`), what each run checks (`runs`), which change of
the code would make each property fail (`mutants`), what was found (`findings`),
and which hazards of the code are covered (`hazards`).

How to run: `tlc -workers 2 -config X.cfg M` for a run (module and
configuration are in `PROJECT.json`), `tlapm M_proof.tla` for proofs.

Paths below are relative to `src/hcu-training-reliability/cluster_manager/` (CM)
unless they begin with another directory of `src/`.

## 1. Inventory

The repository is a set of Python tools that keep a long training job alive on a
cluster. The core is **hcu-training-reliability**: a controller process that
obtains nodes, launches a training with mpirun, watches its log and its nodes,
and restarts it without the faulty node. **hygon-ft-k8s** does the same on
Kubernetes. **hcu-envcheck** tests groups of nodes: a controller script runs a preflight
and stages of tests over them and stops what it started. **stack-analyzer** is an
inspection tool.

| part | state | operations | hard behaviour | correct when |
|---|---|---|---|---|
| controller loop (`controller/distributed_job_manager.py`) | the command it executes, failed stops | restore, take event, start, stop | retries; killed at any step while the training lives on | a launch is stopped before the next; a restart neither forgets a training nor starts a second one |
| state machine (`runtime/job_state_machine.py`) | state, recovery phase | one handler per state and event, `next_action`, `init_state` | events in states that have no handler | a failed launch is replaced in the end, whatever was dropped |
| state file (`runtime/run_state_manager.py`) | `running_state.json` | load, rewrite in place | truncated before it is written | once written, tells the next controller what lives |
| runtime context (`runtime/runtime_context.py`) | none of its own | turns ranks and hosts of an event into nodes and isolates them | the event may be about a launch that is gone | isolates nodes of the launch that failed |
| event bus (`event/event_bus.py`) | FIFO queue | publish, get | unbounded, never emptied between launches | |
| log monitor (`monitor/log_monitor.py`, `log_tracker.py`, `log_fault_handler.py`) | file, offset, offset files, two clocks, alarm, fault cache, timer | tail, cache, send after a delay, watch for silence, start, stop | three kinds of threads, timers that fire while they are cancelled, file changes, restart from offsets | no line lost, no cached fault lost or misattributed, silence reported once |
| node pool (`node_management/node_pool.py`) | total, running, backup, abnormal, normal; five files | add, isolate, heal, allocate, release, reset | deaths between operations, between the five writes and inside one; failed writes | a partition; never allocates a fatal node; whole files survive a restart |
| pool proxy and NHC monitor (`monitor/nhc_monitor.py`) | need_apply, required number; the pool under one lock | request, resubmission, queue check, recovery round | the lock is given up in the middle of a resubmission | exactly the nodes asked for; a request ends |
| Slurm adapter (`node_management/slurm_manager.py`) | job id, hostfile | sbatch, wait, count, cancel | pending counted as absent | one job at a time |
| node blacklist (`node_management/node_blacklist_manager.py`) | faults, score and bans of each node, dirty flag, file and backup | report, allocate, repair, save, load | persistence thread against reports, a death in a save | a ban is kept and comes to the disk |
| launchers (`launcher/`, `executor/`) | none | start, stop, probe | a command that times out after it took effect | |
| topology tests (`parallel/`) | none shared | pair nodes in rounds | | each pair meets once |
| Kubernetes operator (`hygon-ft-k8s/hygon_ft/operator/controller.py`) | leadership, pending groups; FaultEvents, taints, pods in the API server | elect, watch, group, taint, delete, write status | two replicas, a lease without precondition, crash between effect and status | one actor per fault; every fault handled |
| Kubernetes launcher (`hygon-ft-k8s/runtime/ft-launcher`) | none | report a fault, wait, choose the exit code | the answer may come too late | the pod lands elsewhere |
| node-health agent, taint recovery (`hygon-ft-k8s/hygon_ft/nodehealth/`) | owned taint | set, remove | read, modify, write of a shared list | only its own taint is removed |
| task guard of envcheck (`hcu-envcheck/hcu_envcheck/payloads/task_guard.sh`) | tombstone, epoch, member files, the process table of a node | run, stop | processes fork, hide and die while `/proc` is read; a delayed start | STOPPED is the truth, as far as two scans can tell |
| cluster controller of envcheck (`hcu-envcheck/cluster_run/controller.sh`, `hcu_envcheck/worker.sh`, `state_facts.py`) | active tasks, excluded groups, `facts.json`, workspaces | launch, watch, stop, collect, publish, cancel | signals between two commands, watchdog, a stop that is tried but not confirmed, a failing file system | one tenant at a time; facts are true and evidence is kept; no silent failure |
| node checks of envcheck (`hcu-envcheck/cluster_run/cli.py`, `active.py`, `task_control.py`, `extra_checks.py`; `hcu_envcheck/baremetal.py`, `cluster_checks.py`) | local ssh children, commands on the nodes, the cancel event, the report of the stop | probe, ibstat, bandwidth of every pair, cancel and wait, exit code | a child is given up while its command runs on or has not begun; a signal at any time; a stop that fails on one node | a confirmed stop leaves nothing alive; the exit code says no more than is so |
| verdicts of envcheck (`hcu_envcheck/rdma.py`, `ib_counters.py`, `preflight.py`, `environment.py`, `baremetal_cluster.py`) | none | findings of a node, its record, consistency and status of the cluster | evidence that is missing, stale, reset or saturated must not look like health | READY and PASS are earned |
| reports and pods of envcheck, webhook, stack-analyzer, hcu_resiliency_ext, notifications, configuration, tools | none that outlives a call | | | |

How they interact. The controller process runs four kinds of threads. The
*manager* thread owns the state machine; it takes events from the bus, calls the
launcher, asks the proxy for nodes and writes the state file. The *log* threads
(tail, silence watch, fault timers) publish `LOG_*` events. The *NHC* thread
probes nodes, publishes `NODE_ABNORMAL` and `JOB_RELEASE`, and changes the pool
through the proxy's re-entrant lock. Persistent state is in plain files: the
state file, the five list files, the hostfile, the list of added nodes and one
offset file per log. The training itself outlives the controller.

On Kubernetes the parts meet in the API server: launchers and node-health agents create
FaultEvents, the leading operator replica groups them, taints the node, deletes pods and
writes the status the launcher waits for; a user removes a taint after a repair. In
envcheck the controller, one subshell per group and the workers share a workspace per
group; on the nodes `task_guard` decides by a tombstone whether a rank may still start.

## 2. Modules

| module | models | used by |
|---|---|---|
| `PoolOps` | the pool's list operations and allocation, as pure operators | `NodePool`, `ResourceProxy` |
| `NodePool` | the pool with its files, crashes and restarts | |
| `NodeRoles` | abstract: each node has one role; what may change it | refined by `NodePool` |
| `JobStateMachine` | the state machine's transition functions | `JobManager` |
| `JobManager` | controller loop, state machine, bus, monitors, state file, training | |
| `RecoveryCycle` | abstract: record of the job and the set of live launches | refined by `JobManager` |
| `ResourceProxy` | request for nodes, NHC rounds, Slurm job, one lock | |
| `LogMonitor` | tail thread, silence watch, fault cache, timers, offsets, sessions | |
| `Blacklist` | reports, bans, persistence thread, file and backup, deaths | |
| `FaultOperator` | Kubernetes: replicas, groups, taint, delete, status; agents, launchers, recovery | `FaultReplicas` |
| `FaultReplicas` | the same with the election over the lease, and fairness | |
| `FaultLedger` | abstract: an event is raised, worked on, closed for a reason | refined by `FaultOperator` |
| `TaskGuard` | envcheck: run, owner, stop and the processes of one task on one node | |
| `ClusterRun` | envcheck: controller, tasks, workers, nodes, `facts.json`, workspaces | |
| `TaskLedger` | abstract: the rows of `facts.json` a reader may rely on | refined by `ClusterRun` |
| `CheckFindings` | what the evaluators of envcheck share: findings, the status they amount to, the worst of several | `RdmaVerdict` |
| `RdmaVerdict` | verdict on the RDMA evidence of one node, as pure operators | `NodeVerdict` |
| `NodeVerdict` | HCU samples, software, the record of one node | `FleetVerdict` |
| `FleetVerdict` | container inventory, consistency, status and scale of the cluster, ibstat and ib_write_bw | `CheckRun` |
| `CheckRun` | one basic check or bandwidth test: local children, remote commands, session, signals, stop, exit code | |
| `*_proof` | the theorems of the module in front of the underscore | |
| `MC*` | symmetry, thresholds, evidence for TLC | |

### NodePool

`pool` is the five in-memory lists (and `last`, the running nodes last released
or isolated from, which recycle mode takes again), `disk` the five `.txt` files. Every
public method of the class runs under one lock: it changes the lists, validates them and
writes the files. The change is one action (`Reset`, `AddTotal`, `AddNormal`,
`AddAbnormal`, `Apply`, `Release`; `Construct` for `__init__`), which sets `at` to the
first file. `_persist_all_nodes` is then five times `OpenFile` (the file is empty) and
`FillFile`; an open or a write that fails is `FileFails`: logged, the next file is
written. The slots file of an allocation, which comes before them, may fail too
(`Allocate`), and then none of the five is written. `Crash` may come anywhere; inside a
write the file keeps part of its names, the last one perhaps cut into another
(`Remains`). Nothing else runs until the files are written (`Ready`): the lock is held.

Two variables are history. `cut` says that the files are no snapshot of good lists, as a
write of them is under way, has failed or was cut short; it ends when all five were
written. `mixed` says that the lists in memory were read from such files; it ends with a
reset. `MaxMishap` bounds failed writes and deaths inside or between the five writes;
deaths elsewhere are free. `AppendSucc` is the append the proxy does after
`add_total_nodes`; the two are separate because the process may be killed between them,
and it may fail too (`known`). `EditHostfile` is the user, who may change the hostfile
while the controller is stopped. What the blacklist says of the nodes is an arbitrary
function `grade`. `ApplyList` and `RemoveAbnormal` model public methods that nothing
calls; they are not checked by a run and are covered by the theorem `InterfaceSafe`.

### JobManager

`mgr` is the place of the manager thread (`loop`, `start`, `launch`, `launched`,
`stop`, `stopped`, or `down`). A stop is followed by a start with no look at the
bus in between, as `_execute` does. `m` is the state machine in memory, `file`
its record. `MoveTo` begins a write of the record only when the state changed, as
`_set_state` does, and the thread does nothing else before it has ended: `OpenFile`
empties the file, `FillFile` fills it, either may fail, which the code only logs, and the
controller may die in between. `unsaved` is history: the last write did not come to its
end. `Boot` reads the file with the configuration it was written with or another one
(`BootWith`), which resets it to INIT.

Launches are numbered; `alive` and `stranded` say which have processes on nodes the stop
command reaches, and on nodes it does not. A node is out of its reach as soon as it was
isolated (`Isolate`), and a stop that reports success may miss nodes for other reasons
(`StopOK`). `slipped` is history: the launches that slipped out of the controller's hands,
in one of the five ways that stand above `OneInHand`; `Known` are the living ones that
did not. Of the node pool this module keeps only whether there is an allocation. The
monitors are reduced to what they may publish and when: `SeeLine`, `SeeLoss`,
`SeeRootCause`, `CacheExit`/`SendCached`, `SeeNoUpdate`, `SeeBadNode`, `SeeRelease`.

### ResourceProxy

A round of the request and a round of the monitor hold one lock, so each is one
action. `_resubmit_job` keeps the lock while it submits and waits, and gives it
up for its 180 second sleep: the places `submit`, `wait` and `nap` of each
thread, with `LockFree` the condition to enter. `Init` chooses the scheduler
(Slurm or none). Node probes, queue queries and the blacklist answer anything
until `calm`, and well after it. This is what liveness needs ("once all is
well").

### LogMonitor

A log is its number of complete lines and what a line says is chosen when it is
read (`ReadPlain`, `ReadFault`, `ReadRootCause`, `ReadIteration`,
`ReadCheckpoint`, `ReadBroken`). Files are ordered as the directory listing
orders them by name. Offsets on disk carry the mark "stopped". A timer is
`armed`, `due` (it has fired and waits for the lock, so it can no longer be
cancelled), or `stale` (the generation it belongs to is over). Time is two
clocks counted in ticks up to `Horizon`. `Start` contains the first scan of the
tail thread. `stop()` is three steps (`StopBegins`, `TailExits`, `StopEnds`),
with joins that succeed. `Crash` keeps only the offset files.

### Blacklist

`nodes` is `_nodes` with the number of faults of each type and the two bans; `report` is
the report being made. A report is three steps (`FaultNoted` = the record is appended,
`FaultJudged` = bans, `Reported` = the dirty flag), because nothing locks it against the
persistence thread, whose save is four (`SnapshotTaken`, `MainReplaced`, `CopyBegun`,
`CopyEnded`) before `Persisted` clears the flag; each may fail and the controller may
die between any two. `Started` is the constructor with `load`, which may itself write
the file. Which faults lie in a time window is a choice (`SoftBans`, `kept` of the rack
detector). Reports come one at a time: the proxy makes them under its lock. The snapshot
is taken at once, where the code converts node after node.

### FaultOperator, FaultReplicas

An event carries what its evidence asks for: its class, whether to taint and what to
delete (`AsksTaint`, `AsksPods`, `FollowsTaint`), the node it blames and whether it is
of the job. `pending` is the aggregation group of the job in each replica; its timer is
`ResolveFaultGroup`. A task is a FaultEvent in the hands of a thread: `taint`, `delete`,
`status`, then `suppress` for the rest of the group, each step one API call that may
fail (the outcome is recorded) or raise (the thread ends, or the stream starts again).
Leadership is read only before a task begins, so tasks outlive it. `FaultOperator` has
leadership as a choice, which is what the proofs are about; `FaultReplicas` replaces it
by the lease: `ReadLease`, then `WriteLease` with no precondition, and
`LeaseExpires`. `Recover` is the check tool with which a user removes the taint.

### TaskGuard

Processes are numbered in the order of birth, which stands for the start tick. A process
is a run, an owner, a task or an unrelated one; tasks fork, leave the session
(`Detaches`), make their environment unreadable (`Seals`) and exit. Sections under
`flock` are one action. A scan is two actions (`ScanBegins` lists `/proc`, the end of
the scan looks at the entries), so that births and deaths fall in between. The loops of
`stop` are `first`, `grace`, `verify`, `freeze` and `final`, each ended by its count or
its deadline. Any live task may fork, as often as there are numbers left, before the
tombstone or after it, while a scan looks or between scans. `now` and `before` of a stop
are history: whether a process was born while the scan under way looked, and while the
one before it looked, and whether by a parent whose environment could not be read
("dark"). `Outrun` is what they say of a stop that escaped them, see section 3.

### ClusterRun

`c` is the controller: where it is in `stage_dispatch`, `ACTIVE_PIDS`, the task it has
waited for but not collected (`reaped`), the excluded groups, the last status of each.
`launch_task` and `collect_task` defer signals and are one action each; `Signal` may
come between any two, `Killed` at any time. `t[g]` is `run_task` of a group with its
worker: setup, session, wait, fallback, ended. Everything of a task that goes over the
network or to the disk may fail, `MaxFault` times: a stop that is not confirmed, a
result that is not written, a workspace that is not made, facts that are not published,
or published and not noted. `sent`, `ranks` and `tomb` are the nodes of a group: starts
on their way, ranks that live, tombstones. That an answered stop is the truth and that a
tombstone refuses a late start is what `TaskGuard` shows. A group's nodes are one node:
the code asks for all of them to confirm.

### CheckRun and the verdicts

A job is a command on one node: a probe, an ibstat, a server or a client of a bandwidth
pair. `local` is its ssh child in the controller, `remote` the command itself; the two
have separate lives, so that the controller may give up on the child (`Expire`, `Lose`,
`CancelLocal`, `Break`) while the command is still `coming` or `alive`. `RemoteStart` is
the guard's registration, which refuses to start under a tombstone: that this is what
the guard does is shown by `TaskGuard`. `main` is the main thread: the body of the
session (`body`), `cancel_and_wait` (`stopping`), the `finally` of the session
(`leave`), after it (`closed`), after the last look at the signals (`raised`,
`returned`), where the handlers are still installed: a signal then is caught and
forgotten. `Signal` may come in any of these. `plan` is the decision
of the bandwidth test between ibstat and pairs.

`out[j]` is a tag of what a finished command reported; `Probes`, `IbStats` and `Averages`
say what a tag stands for. The four verdict modules compute from that evidence what the
code computes: a missing value (None) is the empty set, a finding is a severity and a
reason. `ReadyIsEarned`, `PassIsEarned` and `ScaleIsEarned` compare the result with a
definition of health (`HealthyCard`, `HealthyPort`, `HealthyNode`) that knows of no
findings.

## 3. Runs

All runs are on two workers; each ends within four minutes.

| run | bounds | distinct states | shows |
|---|---|---|---|
| `node_pool` (`MCNodePool`) | 3 nodes (symmetric), 1 failed or cut write, any number of other deaths | 4,583,594 | lists not read from cut files are a partition, a start exits only over cut files, allocation meets its contract, whole files give the assignment back, the pool implements `NodeRoles` |
| `job_manager` (`JobManager`) | 3 launches, 1 waiting event, 2 mishaps | 1,002,732 | of the launches that did not slip at most one lives, the file knows of it, a restart recovers it, the controller implements `RecoveryCycle`, a launch that failed is replaced |
| `job_manager_stop` | 2 launches, 2 waiting events, no mishap | stops at the violation | `StopStopsAll` is violated: section 7 |
| `resource_proxy` (`ResourceProxy`) | 3 nodes, 2 required | 217,120 | all nodes asked for or none, taken from the pool; a request ends |
| `log_monitor` (`LogMonitor`) | 2 files of 2 lines, 2 timers, 1 death | 1,250,996 | no line skipped, cached faults sent and of the right file, silence reported, once |
| `blacklist` (`Blacklist`) | 2 nodes, 2 reports, 2 failures, any number of deaths | 931,883 | a ban that was saved is found again after a restart, with one failure; a ban comes to the disk |
| `fault_operator` (`FaultOperator`) | 2 replicas, 2 events, 1 node, 1 mishap | 2,190,507 | "ready" means isolated; the operator keeps `FaultLedger` with any number of leaders |
| `fault_replicas` (`FaultReplicas`) | 2 replicas, 1 event, 1 crash, 1 failed call | 105,112 | every event is handled in the end |
| `task_guard` (`TaskGuard`) | 5 births, 2 repetitions of each loop, 1 stop | 1,843,870 | STOPPED means that nothing of the token lives or comes, unless forks outran the last two scans; stopping what never started succeeds |
| `cluster_run` (`ClusterRun`) | 2 groups, preflight and 1 stage, concurrency 2, 1 failure | 3,217,804 | evidence is kept, no failure is silent, `facts.json` keeps `TaskLedger` |
| `cluster_run_group` (`ClusterRun`) | 1 group, preflight and 3 stages, 3 failures | 619,276 | one tenant at a time; the run ends |
| `check_run` (`MCCheckRun`) | 2 nodes, both operations, 6 inventories, 45 kinds of probe, 1 mishap, a signal at any time, any command may hang | 1,307,035 | a confirmed stop leaves nothing alive; the exit code is honest; READY, PASS and the scale are earned; the run ends |

The type invariants of `LogMonitor`, `FaultOperator`, `TaskGuard`, `ClusterRun` and
`CheckRun` are in no run: they are theorems (section 4).

Why these bounds are enough to be of interest:

- *Nodes.* With three nodes a pool has a node in each of running, backup and
  abnormal at the same time, a request of one or two nodes may be met, missed by
  one, or met only with a degraded node, and hostfile and added nodes can be
  different sets. Nodes are interchangeable in the code, so they are symmetric
  in `node_pool`; that run has no liveness property.
- *Launches.* Three launches are needed for a stale event or a slipped launch of the
  first to meet the third. `MaxRun` stops the model, not the code, which is why
  `FailureIsReplaced` is asked only of the launches before the last.
- *Events of the controller.* One waiting event is enough to be overtaken by the state it
  is about: it may wait through a stop and a start, and the monitors publish the next as
  soon as it was taken. `Published` restricts the signals in each run to
  those that differ in what they do to the state. The theorems are for every set.
- *Mishaps.* Two in `job_manager`: a controller that is recovering dies again, or a death
  comes after a failed write, a changed configuration or a stop that missed a node. One in
  `node_pool`: one failed or cut write among any number of other deaths is enough to leave
  a mixture, have it read, and be repaired by a reset; a second one finds the files cut
  already. Deaths are not bounded in `blacklist`.
- *Lines and files.* Two lines in each of two files: an offset can be before, in the
  middle and at the end, a file can grow after a newer one exists, and a
  session can start with a newer, an older or a stopped file.
- *Ticks.* The thresholds (2, 1, 2, `Horizon` 2) separate "over no threshold",
  "over the no-update threshold" and "over both"; ages are cut off at `Horizon`,
  above which no comparison changes.
- *Blacklist.* Two reports and two nodes: a report can fall into the save of another, a
  rack fault (two nodes) completes, and thresholds 1 and 2 are met by one and two
  reports. Two failures: a save that fails and a file that is damaged.
- *FaultEvents.* Two events of three classes: one is suppressed by another of its group,
  by one of equal class, or stands alone; the agent's are without a job. `OneMishap`
  allows one crash or one other mishap in a behaviour; `fault_replicas` has both
  together, with one event and the lease.
- *Processes.* Five births hold a run, an owner, its payload and two more, forks or
  strangers: the escape from both scans needs two forks. Two repetitions of each loop, and
  both ends of each (found nothing, deadline): two clear scans in a row can be had after a
  scan that found something. One stop: the fallback is a second one, and the theorems are
  for any number.
- *Groups and stages.* Two groups and concurrency two: wave and rolling differ, one is
  collected while the other runs. Preflight and three stages with three failures on one
  group: a delayed start, an unconfirmed stop and a lost workspace in one behaviour.
- *Evidence.* One mishap is one probe, ibstat or bandwidth row with a defect, one lost or
  failed command, one stop that fails. Each defect of `MCProbes` changes one field of a
  healthy answer, or the fields that belong together: what hides a defect is the order and
  the severity of findings, and each of the evaluator's branches has a defect of its own.
  Two healthy answers (native InfiniBand and RoCE) let two healthy nodes disagree.

Deadlock is checked where the configuration does not say otherwise. It is switched off
where the system really stops: events all closed or births used up (`fault_operator`,
`fault_replicas`, `task_guard`) and a run that is over (`cluster_run`, `check_run`).

### Properties worth explaining

- `OneInHand`: at most one launch that did not slip has processes. A launch slips, and the
  next is started beside it, in five ways that the code takes and the model has: a stop
  that does not reach a node, above all the one isolated a moment before; a start after
  three failed stops; a launch command that timed out and is repeated; a state file that
  was cut; a changed configuration. The property does not excuse them, it says that there
  is no sixth: no death between two steps, no order of events, no stale event and no
  failed launch leads there. All five are in section 7.
- `AbortsOnlyTorn`, `Partition`, `NormalExcludesAbnormal`, `RestartKeepsAssignment` and
  `RolesSpec` of `NodePool` divide the moments of a death in two. Where a write of the
  files failed or was cut, nothing is promised: the code exits at the next start, or takes
  a mixture for its lists. Everywhere else (also with the lists changed and the files not
  yet opened, or an expansion half done) the next start accepts the files and finds in
  them the state of one moment.
- `AllocationContract` quantifies over all answers of the blacklist and all sizes:
  with enough usable backup nodes the pool returns exactly the number asked for, no
  fatal node, and a degraded one only when the clean backup nodes are too few.
- `RestartKeepsAssignment` holds while the hostfile was not edited, not
  rewritten by a resubmission, and every expansion was appended to its file (`known`).
- `RequestEnds` allows one other end, `Stuck`: `need_apply` is off and nothing
  is allocated. That this end is final is the theorem `StuckForever`.
- `SilenceReported` and `OneHang` together are "reported, and once per session".
- `RestartRemembers` is about what was promised: the bans a completed save held. It assumes
  at most one failure in all, that the main file was not removed, and that one of the two
  files is whole (a death during the copy leaves the backup torn); `BanReachesDisk` speaks
  of reports that end while nothing is saved. These limits are the code's, section 7.
- `DoneMeansIsolated`: a status "ready" for an event that asks for the isolation of its
  node means that the node had the taint after the event was raised and has it still,
  unless a user removed it. `LedgerKept` of the same module: whatever dies or is
  repeated, no event is closed that was neither worked on nor outweighed.
- `StoppedMeansGone` is the claim the whole of envcheck rests on: when `stop` prints
  STOPPED, no process of the token lives and none will, unless forks outran its last two
  scans (`Outrun`): one birth while each of them looked, or one of an unreadable parent
  while the last one looked. Without either half of the exception TLC finds a violation,
  so this is exactly what two scans are worth; an owner never escapes. `OneTenant` of
  `ClusterRun` and `ConfirmedMeansQuiet` of `CheckRun` take the guard's answer for true
  and therefore hold for stops that were not outrun.
- `EvidenceKept`, `NoSilentFailure` and `LedgerKept` of `ClusterRun` say what an operator
  may conclude from the files and the exit code after any accident; `OneTenant` what a
  measurement may rely on.
- `ConfirmedMeansQuiet` and `ExitIsHonest` of `CheckRun` are about commands that outlive
  their ssh: the first says that the report `confirmed` is the truth for ever after, the
  second what each exit code lets the caller believe, `BoundedLeftover` included. A signal
  after the last look is forgotten and the run exits as if it had not come; nothing was
  given up for it then, which is why the exit code is still honest of the nodes.
- `VerdictIsEarned` quantifies over every defect of the evidence: a verdict that says the
  cluster is fit implies `HealthyNode` of every node.

### Fairness

- `JobManager`: weak fairness for the manager thread's steps, the two of a write of the
  file included, and strong fairness
  where another action may disable a step again and again: `TakeAction` (disabled
  whenever an event arrives), `LaunchOK` (a launch that is retried succeeds in the
  end), and `SeeNoUpdate` (the model's bus is bounded, the code's is
  not). `SlowMonitors` says the bus is empty infinitely often when the thread
  looks: the monitors' rounds are a minute apart, the loop's a second. Stops succeed
  within three attempts or are given up on; nothing is assumed of the training.
- `ResourceProxy`: weak fairness for both threads, Slurm starts a submitted job,
  and `Calm` happens.
- `LogMonitor`: weak fairness of `Tick` and of `ReportHang`, the loop of
  `_monitor_no_update`. The other threads need not run.
- `Blacklist`: weak fairness of the persistence thread, which wakes every five seconds.
  A save may fail as often as `MaxFault` allows. Reports need not end.
- `FaultReplicas`: each replica's threads run and a dead one is started again by its
  Deployment; strong fairness of `Reconcile` (the stream begins anew every 300 seconds
  and delivers everything) and of `Closes` (a status that is written again and again is
  written once).
- `ClusterRun`: the controller and `run_task` take their steps; a worker that can be
  stopped is *not* trusted to end: the watchdog's time limit and the kill 27 seconds after
  TERM are what ends it. A worker whose session was missed has no watchdog; its payload
  is bounded by the limit `worker.sh` sets on its node, and only there is its end assumed.
- `CheckRun`: executors start what is due, a child ends (its answer, its deadline or the
  event, which is polled), a stop command is answered or fails, the main thread takes its
  steps (`Look` among them). Nothing is assumed of commands on the nodes.

## 4. Proofs

TLAPS checks these theorems for every value of the constants (any finite set of
nodes, any number of launches, events, deaths, files, lines, timers, processes, groups,
stages, failures). Each module's safety theorem is `Init => IInv`,
`IInv /\ [Next]_vars => IInv'` with one step per action, and `IInv => property`.

| theorem | statement | argument |
|---|---|---|
| `AllocationsMeetContract` (NodePool_proof) | the allocation operator meets its contract for all lists and all grades | cardinalities of the healthy-first choice |
| `PoolSafe`, `InterfaceSafe`; parts `PoolTyped`, `RecoverySafe` | `TypeOK`, `Partition`, `AbortsOnlyTorn`, `NormalExcludesAbnormal`, also with the two uncalled methods | good lists are in memory unless `mixed`, good files on disk unless `cut`; while the files are written, the ones behind `at` are those of the lists. A restart loads the files, so the invariant of memory alone is not inductive |
| `AllocationSafe` | `AllocationContract` in every reachable state | from `PoolSafe` and the contract |
| `RestartKept` | `RestartKeepsAssignment` | the partition of the whole files, and `FilesKnown`: as long as the hostfile is the first one and every expansion was appended, the list of all nodes on disk is the hostfile with the added nodes, which the constructor recognises, or empty as before the first construction |
| `BansSafe` (NodePool_proof, instance `B`) | `RestartRemembers` | the promised bans are in memory while the controller runs, in a main file that is whole, in the snapshot of a save that is on its way, and in the backup while nothing has failed or the main file is damaged (`BansKept`); a moved snapshot is the main file and the node of a report is a recent one (`SaveOrdered`). Holds while fewer than two things went wrong; types and order hold always |
| `PoolImplementsRoles` | `Spec => Roles!Spec` | the role of a node is read from memory while the process is up, what is saved from the disk; neither is known where the files were cut, and the step that makes it known again replaces all of it |
| `ControllerSafe`; parts `ControllerTyped`, `FileSafe` | `TypeOK`, `OneInHand`, `FileKnowsTraining` | a file whose write has ended agrees with memory but for RUNNING that became PENDING; STARTING may be in the file while a training lives, hence a controller that loads STARTING must stop first; nothing is alive in the places `start` and `launch` that did not slip; while `pen` is not "none" the thread stays where it is |
| `RestartSafe` | `RestartRecovers` | from the same invariant |
| `ControllerImplementsCycle` | `Spec => Cycle!Spec` | the record is a function of the file, "torn" while its last write has not come to its end; a launch that slipped counts for nothing |
| `RequestSafe`, `ServedSafe`; part `ProxyTyped` | `TypeOK`, `FullRequest`, `ServedFromPool` | running is empty or the full request; while `need_apply` is on and the request waits, it is empty; so the deficit is always the whole |
| `StuckForever` | a stuck request stays stuck | no action turns `need_apply` on without allocating |
| `MonitorTyped`, `CacheSafe` (parts `FileOwnsFaults`, `StoppedHoldsNothing`), `PositionSafe`, `AlarmSafe`, `StoppedSafe` | `TypeOK`; `Covered`, `OwnFile`, `StoppedIsSilent`; `NoLineSkipped`; `OneHang`; `StoppedOnlyAtStart` | the cache has a live timer of its generation, its file is the tracker's; offsets never exceed the lines handled; the alarm counts the hangs of a session (the second check can never report, lemma `SecondCheckIsIdle`) |
| `Types`, `GoodStatus`, `OperatorKeepsLedger` (FaultOperator_proof) | `TypeOK`, `DoneMeansIsolated`, `LedgerKept` | a task past its taint has a shielded event; a task that suppresses has an event that was worked on and is of the highest class of those it closes; an event never changes once it exists (`Grows`) |
| `GuardTypes`, `StoppedIsGone`, `UnstartedStops` | `TypeOK`, `StoppedMeansGone`, `NothingStartedStops` | `Provenance`: a process of the token has an owner whose registration raised the epoch; after the tombstone only forks are born. `Sweep`: a scan that looks has each process of the token among its entries, or a birth has been noted in `now`; of a stop whose scan before last was clear (`Settled`), no readable task lives that could fork, unless a birth was noted in the scan since; so what a second clear scan misses was born in both, or of an unreadable parent |
| `TypeCorrect`, `Tenancy`, `Evidence`, `NoSilence`, `LedgerRefined` (ClusterRun_proof) | `TypeOK`, `OneTenant`, `EvidenceKept`, `NoSilentFailure`, `LedgerKept` | one invariant of six parts: `Tenants` (starts and ranks are of the task's phase, or have a tombstone), `Handed` (what an ended task handed over is what its stop answered), `Kept` (an open row has the workspace), `Open` (RUNNING rows belong to the active tasks), `Dispatch` (rows of later phases are planned, closed groups are clean or excluded), `Finished` (what `bad` leaves out has passed). `OneTenant` follows because a clean close means a tombstone and no ranks, and an unclean one keeps the group from going on |
| `RunTyped`, `StopIsTrue` (CheckRun_proof) | `TypeOK`, `ConfirmedMeansQuiet` | `Sealed`: a node that confirmed has the tombstone and none of its commands lives; `OwnLives`: a child that has an answer has no command left, one that never started has none yet; `OneStop`: there is one stop, and "confirmed" means every node said so |
| `ExitHonest` | `ExitIsHonest` | `CleanEnd`: a session that closed without a stop cancelled nothing and, in a basic check, has the answer of every node, also when a signal came after the last look; `Final`: what the exit code was computed from changes no more |
| `VerdictEarned`; part `PassEarned` | `VerdictIsEarned`: `ReadyIsEarned`, `PassIsEarned`, `ScaleIsEarned` | READY and PASS are said of records without findings only; each evaluator, line by line, leaves no finding only if what it looked at is healthy (`Clean...` lemmas). Pairs are measured only where every ibstat passed (`PairsEarned`). Matching cards with agents removes agents one by one: that it leaves each card with one that fits is an induction over finite sets, by a least counterexample (`MinimalMember`, from the well-founded inclusion of finite sets) |

Assumptions are the named `ASSUME`s of the modules (finite `Node`, `Required` positive,
bounds natural, thresholds no later than `Horizon`, `None` no name); TLC evaluates them in
the runs of the module that states them. Those of `CheckRun` say that the cluster has
finitely many nodes, that an inventory and a probe have the fields the parsers fill
(`IsInspection`, `IsProbe`; a measurement is an integer here, a float in the program), that
the quorum is natural and the limits are any integers, for nothing checks their sign, and
that at most one scale is asked for. `BansSafe` needs no assumption.

The lemmas of `ResourceProxy_proof` and `NodePool_proof` on single operators of `PoolOps`
are each kept where they are used. `BansSafe` stands in `NodePool_proof` because the
blacklist grades the nodes of the pool: it is about an instance of `Blacklist` with
variables of its own and the same nodes.

The attempt to prove `RestartRemembers` changed the model. With three reports of one node there is a
state the run of two does not have: the controller dies while the backup is copied, the main
file is damaged, and the start finds neither whole. The bans are lost at this start, which
the property excludes; the history variable `promised` kept them nevertheless, and a later
start, with a main file that is whole, was blamed. `Started` now forgets what was promised
when it finds nothing to load. The inductive invariant was checked by TLC with one node and
three reports, and with two and two, before it was proved.

Only model-checked:

- The liveness properties (`FailureIsReplaced`, `RequestEnds`, `SilenceReported`,
  `EventHandled`, `RunEnds` of `ClusterRun` and of `CheckRun`, `BanReachesDisk`): fairness
  and ENABLED are outside this prover's reach.
- That the sum of the cards over all nodes is a number: the sum is a fold, and the
  induction through a fold takes an operator as parameter. `ScaleIsEarned` therefore says
  that the sum is not below the scale.

## 5. Not modelled, and why

- Parsers and patterns of log lines, the anomaly detector, recorders, HTTP sinks: data
  and I/O. What a line says is a choice in `LogMonitor`.
- Building and running commands: only outcomes (success, failure, time-out after
  effect) are modelled.
- Of envcheck: the parsing of text (what it yields is the input of the verdicts),
  `roce_health.py` (its status and the completeness of its rails are evidence), pods and
  Conda plans, details of a docker target, reports, rerun plans, starting and removing
  containers, the clush transport, the session of a container preflight, several
  bandwidth groups at a time, devices given by name and `max_tests`.
- Topology tests; webhook; stack-analyzer: a pass over data or a command and its answer,
  with no state shared between steps. Two pure algorithms in them (round pairing, stack
  trie) could be operator modules.
- `blacklist_api.py`: a second process on the same files (section 7).
- In `LogMonitor`: the fixed-file mode, joins that time out, several files with equal
  names. In `ResourceProxy`: the controller's death, Slurm jobs left behind, snapshots
  and hardware records. In `JobManager`: the pool's contents (in `NodePool` and
  `ResourceProxy`), and of the configuration what its arguments are (it matches the saved
  one or it does not). In `FaultOperator`:
  other owners of taints, alerts. In `TaskGuard`: unreadable bookkeeping files. In
  `ClusterRun`: the SSH permits, the reporter's own end, WARN and NA as statuses of their own.

## 6. Plan

Done, the most important behaviour first: `NodePool`, `JobManager`, `ResourceProxy`,
`LogMonitor`, `FaultOperator` with `FaultReplicas`, `TaskGuard`, `ClusterRun`,
`Blacklist`, `CheckRun` with the verdicts, each with its properties.

Left, in this order:

1. `JobManager` and `NodePool` in one module, which share `pool` and the files: the proofs
   of both would then carry over to the moment between an isolation and the stop.
2. `RunAndLog`: composition of `LogMonitor` and `JobManager`, to ask which launch a
   cached or late line is charged to.
3. `NodeTaint`: operator, taint recovery and other controllers, which read, modify and
   write the list of taints of one node. Property: only the owned taint is removed.
4. Pure operators: pairing of nodes in rounds (`parallel/`), merge of stacks
   (`stack-analyzer`), checked against their definitions on all small inputs.

## 7. Findings

### A disagreement that a run shows

- `StopStopsAll` of `JobManager` (run `job_manager_stop`): `handle_runtime_fault`
  isolates the faulty node before the stop, and the stop is sent to `normal_nodes.txt`,
  from which that node has just been removed (`distributed_job_manager.py:265`,
  `mpirun_launcher.py:241-279`). It reports success, and the next launch begins beside the
  processes that the node still has, against `docs/recovery_workflow.md:18`.

### Statements that do not hold

These are stated in the modules, or are a stated property without its precondition; they
are in no run, and can be seen to fail by putting them into a configuration:

- `FaultBlamesItsRun` of `JobManager` (`MaxRun = 2`, `MaxBus = 3`, `MaxMishap = 0`, all signals):
  a rank of a launch that was stopped is in range and is mapped onto the
  allocation of the next, so that a healthy node is isolated and the node that died stays
  (`runtime_context.py:304`, whose comment says that reporting failure "keeps the caller from
  restarting on the very node that just died").
- `RestartRecovers` of `JobManager` without `~ unsaved`, or with `Boot` for `BootWith(TRUE)`:
  `running_state.json` is truncated before it is written, and the write errors are
  swallowed (`run_state_manager.py:213-226`); a file of another configuration is reset
  (`:154-164`). A controller that reads either finds INIT and starts a new job beside the
  living one, against `docs/recovery_workflow.md:72-79`.
- `OneInHand` of `JobManager` with `Living` for `Known`, that is "never two launches at
  once": each of the five ways listed above `OneInHand` is a counterexample.
- `AbortsOnlyTorn` and `Partition` of `NodePool` without `cut` and `mixed`, that is "a start
  never aborts" and "the lists are always a partition" (rule 2 of the class,
  `node_pool.py:38-43`): a death or an error between the five writes leaves files on which
  `NodePool.__init__` exits at every start, or that it accepts although they are a mixture
  of two moments (`:502`). The first are repaired only by hand, the second by a reset.
- `BansAreLifted` of `Blacklist`: the head of the module (`node_blacklist_manager.py:12`),
  the comment of `auto_whitelist_hours` (`:85-86`) and `should_auto_whitelist` (`:453-454`)
  say that a node that stays healthy is released after those hours. The only place that
  looks is the report of a new fault of that node, whose time has just become its last
  fault's (`:842`): no ban is ever lifted by time.
- `SignalIsHeard` of `CheckRun`, "a run that received a signal does not exit as if it had
  finished": after `if received` (`task_control.py:311`) and before the handlers are
  restored (`:313-315`) a signal is caught, sets the event and is forgotten.
- `StoppedIsTruth` of `TaskGuard`, `StoppedMeansGone` without `Outrun`: two forks, each
  at the moment of one of the last two scans and its parent gone before it is looked at, or
  one fork of an unreadable parent during the last one (`task_guard.sh:178-206`).
- `RetryDecides` of `ResourceProxy` (configuration of `resource_proxy`): the warning for a
  failed queue query says "skip allocation decision and retry next round"
  (`nhc_monitor.py:1000`), but `need_apply` is turned off while nothing is allocated, and
  every later round only looks (`:1002`).
- `OneActor` of `FaultReplicas` (`ReplicasSpec`, one event, no crash, one fault): the lease
  is patched without a precondition and a leader learns of its loss at its next renewal,
  so two replicas process the same event (`controller.py:206`, against
  `hygon-ft-k8s/docs/FAULT_HANDLING_CN.md:18`, "only the leader").

### Seen in the code while modelling

- A failed write of a list file, of the state file or of `succ_additional_nodes.txt` is logged
  and forgotten; a failure of the slots file is raised, after the lists were changed and
  before they are written (`node_pool.py:1118-1120`).
- `start()` of the log monitor resets one of two clocks, so the silence before a session
  counts against it (`log_monitor.py:207`).
- After its sleep the monitor resets the pool under a training that was started meanwhile,
  to a hostfile that is stale (`nhc_monitor.py:796-804`); `update_hostfile` returns True
  without writing (`slurm_manager.py:297-298`).
- Three failed stops are followed by a start; a launch command that times out is
  repeated without a stop (`distributed_job_manager.py:249, 282`). `JobManager` has both.
- In PENDING a stale `LOG_RUNNING` leads to RUNNING, and `LOG_EXIT`, loss and inf are
  dropped, contrary to `recovery_workflow.md:28, 34-37`; the silence watch then replaces
  the launch (`FailureIsReplaced`).
- A late line of a launch that was stopped counts as the first line of the new session
  (`log_monitor.py:585`).
- In recycle mode a degraded node is used again while a clean one is idle
  (`node_pool.py:1034` against 954-955).
- `succ_additional_nodes.txt` is never emptied; a death before the append loses the
  running state (`nhc_monitor.py:861-863`). A resubmission clears the list of isolated
  nodes (`:773` against `recovery_workflow.md:49`).
- A pending Slurm job counts as absent and is submitted a second time
  (`slurm_manager.py:311-342`).
- A node added by an expansion is not in `normal_nodes.txt` (`node_pool.py:659`), the
  target of the stop command. A batch with one isolated node is refused as a whole
  (`:434-443`).
- A line whose handling raises is read again for ever and hides silence
  (`log_monitor.py:640`); a death between caching and sending loses the fault; a root
  cause followed by cached exit lines gives two events. The parser of root causes keeps its
  block across files and sessions (`log_parser.py:36`).
- The second hang check of the silence watch never reports (theorem `AlarmSafe`). A
  checkpoint without history is never judged a hang.
- `NHCMonitor` has no `_notify` (`nhc_monitor.py:250`); `fault_node_reasons` may be
  unbound (`:1322`); several names are joined by commas into one blacklist record (`:1289`).
- Blacklist (`node_blacklist_manager.py`): a report that ends while the file is saved is
  marked as saved (`:735`) and waits for the next one; with the main file removed the backup is
  ignored and later overwritten (`:617`); the backup is a copy of the new file, not of the
  previous one as the class says (`:545`, 578-581); nodes reported before a rack fault is
  complete are recorded all the same (`:488-489`, 788-792); a ban is never lifted by time,
  see above. `stop()` is called
  only by `reset_instance`, so the last seconds before an exit are not saved.
  `blacklist_api.py` starts a manager of its own and ends with `stop()`, which writes its
  older list over the controller's.
- Kubernetes operator: the NotReady watch loop never watches (`controller.py:498`),
  pending groups outlive leadership (`:610`), taints are replaced from a list read
  before (`:751-772`).
- Cluster controller: a signal between the removal of an ended task from `ACTIVE_PIDS` and
  its collection loses its result (`controller.sh:812`); its workspace stays, as
  `EvidenceKept` says. A workspace that cannot be made lets a group sit out one stage and
  take part in the next (`:732`). The worker's cleanup has 25 seconds, `stop_session` kills
  after 27. `rerun_plan.py` lists failed stages, but not one that was left RUNNING.
- Node checks: a signal after the look of the session's `finally` stops nothing; the basic
  check exits with 3 then, the bandwidth test with 130 (`ExitIsHonest`); one after the last
  look is forgotten altogether (`SignalIsHeard`). A basic check that
  exits with 0 may leave ibstat commands whose answer was lost, bounded by their `timeout`;
  a bandwidth test that is INCOMPLETE exits with 0 and cleans nothing up.
- Verdicts: the scale is assessed from the records without the consistency findings
  (`baremetal_cluster.py`, `_scale_assessment`); incomplete GID evidence of an Ethernet port is
  UNKNOWN even where RDMA is not required, unlike all other evidence.
