------------------------------ MODULE CheckRun ------------------------------
(* One run of hcu-envcheck's node checks: the controller, its local ssh       *)
(* children, the commands they start on the nodes, and the session that has   *)
(* to leave nothing behind (cluster_run/cli.py, active.py, task_control.py;    *)
(* hcu_envcheck/baremetal.py, cluster_checks.py, baremetal_cluster.py).        *)
(*                                                                            *)
(* "basic" probes every node whose container is fit and then asks each for    *)
(* its IB ports; "ib" asks for the ports and then measures the bandwidth of   *)
(* every ordered pair of nodes with a server and a client.  A local child and  *)
(* its remote command have separate lives: the controller gives up on the      *)
(* child (deadline, lost connection, Ctrl+C) while the command runs on, or     *)
(* before it has even begun.  FleetVerdict says what the evidence amounts to.  *)
EXTENDS FleetVerdict

CONSTANTS
    Nodes,
    Operations,     \* the operations asked for
    Policy,         \* of the command line
    Probes,         \* tag -> what a probe that ran to its end reports
    Good,           \* the tag of an answer nothing is wrong with
    Sound,          \* the tags that are no defect by themselves
    IbStats,        \* tag -> what ibstat reports
    Averages,       \* tag -> the bandwidth row of a pair
    Minimum,        \* the least average bandwidth asked for, or none
    Inspections,    \* the container inventories the run may begin with
    Budget          \* how many things may go wrong in one run

ASSUME NodesAssumption == IsFiniteSet(Nodes)
ASSUME BudgetAssumption == Budget \in Nat
ASSUME TagAssumption == Good \in Sound \cap DOMAIN Probes \cap DOMAIN IbStats \cap DOMAIN Averages
ASSUME OperationAssumption == Operations \subseteq {"basic", "ib"}

\* The inventory has an entry for every planned node.
ASSUME InventoryAssumption ==
    /\ Inspections # {}
    /\ \A i \in Inspections : DOMAIN i = Nodes /\ \A n \in Nodes : IsInspection(i[n])

\* An HCA for which ibstat lists no port counts as a port that is incomplete.
ASSUME EvidenceAssumption ==
    /\ \A t \in DOMAIN IbStats :
          /\ IbStats[t].ports \subseteq {"up", "down", "incomplete"}
          /\ IbStats[t].hcas # {} => IbStats[t].ports # {}
    /\ \A t \in DOMAIN Averages : Averages[t] \subseteq Int
    /\ Minimum \subseteq Int
    /\ \A t \in DOMAIN Probes : IsProbe(Probes[t])

\* A limit may be negative (nothing checks it); there is at most one scale.
ASSUME PolicyAssumption ==
    /\ Policy.quorum \in Nat /\ Policy.max_vram \in Int /\ Policy.max_util \in Int
    /\ \A s, t \in Policy.target_scale : s = t

VARIABLES
    op,             \* the operation of this run
    inspected,      \* run_container_status(), before the session opens
    local,          \* the ssh child of each job
    remote,         \* the command of each job on its node
    out,            \* what a finished job reported
    cancel,         \* RemoteTaskSession.cancel_event, shared by every executor
    signalled,      \* SIGINT or SIGTERM was received
    broken,         \* an exception is on its way out of the session
    plan,           \* "waiting", "pairs" or the status that made pairs pointless
    tomb,           \* the nodes where the stop tombstone is installed
    answer,         \* the answers of the stop in progress
    report,         \* RemoteTaskSession.last_report
    main,           \* where the main thread is
    exit,           \* the exit code
    budget
vars == <<op, inspected, local, remote, out, cancel, signalled, broken, plan,
          tomb, answer, report, main, exit, budget>>

Job(kind, node, peer) == [kind |-> kind, node |-> node, peer |-> peer]
Probe(n) == Job("probe", n, n)
State(n) == Job("state", n, n)
Server(a, b) == Job("server", b, a)
Client(a, b) == Job("client", a, b)

Pairs == {p \in Nodes \X Nodes : p[1] # p[2]}
Jobs == {Probe(n) : n \in Nodes} \cup {State(n) : n \in Nodes}
        \cup {Server(p[1], p[2]) : p \in Pairs} \cup {Client(p[1], p[2]) : p \in Pairs}
PairJobs == {j \in Jobs : j.kind \in {"server", "client"}}

Given == {"ok", "failed", "lost", "unlaunched", "timeout", "cancelled", "broken"}
Done(j) == local[j] \in Given
Tags == DOMAIN Probes \cup DOMAIN IbStats \cup DOMAIN Averages

Fresh == [n \in Nodes |-> "none"]

TypeOK ==
    /\ op \in Operations
    /\ inspected \in Inspections
    /\ local \in [Jobs -> {"idle", "running"} \cup Given]
    /\ remote \in [Jobs -> {"none", "coming", "alive", "ok", "failed", "gone"}]
    /\ out \in [Jobs -> Tags]
    /\ cancel \in BOOLEAN /\ signalled \in BOOLEAN /\ broken \in BOOLEAN
    /\ plan \in {"waiting", "pairs", "FAIL", "NOT_VERIFIED", "CANCELLED"}
    /\ tomb \subseteq Nodes
    /\ answer \in [Nodes -> {"none", "CONFIRMED", "FAILED", "UNCONFIRMED"}]
    /\ report \in {"none", "confirmed", "unconfirmed"}
    /\ main \in {"body", "stopping", "leave", "closed", "raised", "returned", "exited"}
    /\ exit \in {-1, 0, 2, 3, 130}
    /\ budget \in 0 .. Budget

Init ==
    /\ op \in Operations
    /\ inspected \in Inspections
    /\ op = "ib" => inspected = CHOOSE i \in Inspections : TRUE   \* it inspects no container
    /\ local = [j \in Jobs |-> "idle"]
    /\ remote = [j \in Jobs |-> "none"]
    /\ out = [j \in Jobs |-> Good]
    /\ cancel = FALSE /\ signalled = FALSE /\ broken = FALSE
    /\ plan = "waiting"
    /\ tomb = {} /\ answer = Fresh /\ report = "none"
    /\ main = "body" /\ exit = -1
    /\ budget = Budget

\* One thing more goes wrong, while the budget lasts.
Mishap == budget > 0 /\ budget' = budget - 1

----------------------------------------------------------------------------
(* Who runs what, and when. *)

\* Nodes whose container was rejected are reported and never probed.
Probed == IF op = "basic" THEN ReadyNodes(inspected, {}) ELSE Nodes

ProbesDone == \A n \in Probed : Done(Probe(n))
StatesDone == \A n \in Probed : Done(State(n))

Due(j) ==
    CASE j.kind = "probe" -> op = "basic" /\ j.node \in Probed
      [] j.kind = "state" -> /\ j.node \in Probed
                             /\ op = "basic" => ProbesDone /\ "platform" \in Policy.categories
      [] j.kind = "server" -> plan = "pairs"
      [] j.kind = "client" -> plan = "pairs" /\ local[Server(j.node, j.peer)] # "idle"

\* An exception on its way out of an executor schedules nothing more.
BodyDone ==
    \/ broken /\ \A j \in Jobs : local[j] # "running"
    \/ /\ ~broken
       /\ \A j \in Jobs : Due(j) => Done(j)
       /\ op = "basic" => ProbesDone
       /\ op = "ib" => plan # "waiting" /\ StatesDone

\* What the checks read of a job: only a sentinel with a zero code is "ok".
Result(j) == local[j]

----------------------------------------------------------------------------
(* The local child of a job (_run_bounded_process(), run_one(),              *)
(* _run_remote_command()).                                                   *)

\* The event is looked at under _process_lock, right before the child starts.
Launch(j) ==
    /\ main = "body" /\ ~broken
    /\ local[j] = "idle" /\ Due(j)
    /\ IF cancel
       THEN local' = [local EXCEPT ![j] = "cancelled"] /\ UNCHANGED remote
       ELSE local' = [local EXCEPT ![j] = "running"] /\ remote' = [remote EXCEPT ![j] = "coming"]
    /\ UNCHANGED <<op, inspected, out, cancel, signalled, broken, plan, tomb, answer, report, main, exit, budget>>

\* OSError from Popen: code 127 and no remote command.
LaunchFails(j) ==
    /\ main = "body" /\ ~broken /\ ~cancel
    /\ local[j] = "idle" /\ Due(j)
    /\ local' = [local EXCEPT ![j] = "unlaunched"]
    /\ Mishap
    /\ UNCHANGED <<op, inspected, remote, out, cancel, signalled, broken, plan, tomb, answer, report, main, exit>>

TagsFor(j) ==
    CASE j.kind = "probe" -> DOMAIN Probes
      [] j.kind = "state" -> DOMAIN IbStats
      [] OTHER -> DOMAIN Averages

\* The remote command ended and its sentinel came back; a set event overrides
\* the result of a command that was already over.
Deliver(j) ==
    /\ local[j] = "running" /\ remote[j] \in {"ok", "failed"}
    /\ IF cancel
       THEN local' = [local EXCEPT ![j] = "cancelled"] /\ UNCHANGED <<out, budget>>
       ELSE /\ local' = [local EXCEPT ![j] = remote[j]]
            /\ \E t \in TagsFor(j) :
                 /\ out' = [out EXCEPT ![j] = t]
                 /\ IF t \in Sound THEN UNCHANGED budget ELSE remote[j] = "ok" /\ Mishap
    /\ remote' = [remote EXCEPT ![j] = "gone"]
    /\ UNCHANGED <<op, inspected, cancel, signalled, broken, plan, tomb, answer, report, main, exit>>

\* The connection drops: 255, or no sentinel.  The command is left to itself.
Lose(j) ==
    /\ local[j] = "running" /\ ~cancel
    /\ local' = [local EXCEPT ![j] = "lost"]
    /\ Mishap
    /\ UNCHANGED <<op, inspected, remote, out, cancel, signalled, broken, plan, tomb, answer, report, main, exit>>

\* The local deadline passes: 124, and the transport group is killed.  A
\* command may always hang, so this is no matter of the budget.
Expire(j) ==
    /\ local[j] = "running" /\ ~cancel
    /\ local' = [local EXCEPT ![j] = "timeout"]
    /\ UNCHANGED <<op, inspected, remote, out, cancel, signalled, broken, plan, tomb, answer, report, main, exit, budget>>

\* The child polls the event at least every 100 ms.
CancelLocal(j) ==
    /\ local[j] = "running" /\ cancel
    /\ local' = [local EXCEPT ![j] = "cancelled"]
    /\ UNCHANGED <<op, inspected, remote, out, cancel, signalled, broken, plan, tomb, answer, report, main, exit, budget>>

\* The result could not be archived: cancel_local() and out of the executor.  An
\* exception of a pair's client or server, or a server that is collected too late,
\* stays in its pair (IB_WRITE_BW_EXECUTOR_ERROR, code 125).
Break(j) ==
    /\ local[j] = "running" /\ ~broken
    /\ local' = [local EXCEPT ![j] = "broken"]
    /\ IF j \in PairJobs THEN UNCHANGED <<cancel, broken>> ELSE cancel' = TRUE /\ broken' = TRUE
    /\ Mishap
    /\ UNCHANGED <<op, inspected, remote, out, signalled, plan, tomb, answer, report, main, exit>>

----------------------------------------------------------------------------
(* The command on the node.  managed_command() registers it before anything  *)
(* else, and refuses to start it once the tombstone is there.                *)

\* Mutant: the tombstone is not looked at.
Bug_RemoteStart(j) ==
    /\ remote[j] = "coming"
    /\ remote' = [remote EXCEPT ![j] = "alive"]
    /\ UNCHANGED <<op, inspected, local, out, cancel, signalled, broken, plan, tomb, answer, report, main, exit, budget>>

RemoteStart(j) ==
    /\ remote[j] = "coming"
    /\ remote' = [remote EXCEPT ![j] = IF j.node \in tomb THEN "gone" ELSE "alive"]
    /\ UNCHANGED <<op, inspected, local, out, cancel, signalled, broken, plan, tomb, answer, report, main, exit, budget>>

RemoteEnd(j) ==
    /\ remote[j] = "alive"
    /\ \/ remote' = [remote EXCEPT ![j] = "ok"] /\ UNCHANGED budget
       \/ remote' = [remote EXCEPT ![j] = "failed"] /\ Mishap
    /\ UNCHANGED <<op, inspected, local, out, cancel, signalled, broken, plan, tomb, answer, report, main, exit>>

----------------------------------------------------------------------------
(* The bandwidth test of a group (_run_ib_checks(), extra_checks._run()). *)

StateStatus(n) == IbStateStatus(Result(State(n)), IbStats[out[State(n)]])

Plan ==
    /\ op = "ib" /\ main = "body" /\ ~broken
    /\ plan = "waiting" /\ StatesDone
    /\ plan' = IF cancel THEN "CANCELLED"
               ELSE IF Cardinality(Nodes) < 2 \/ \E n \in Nodes : StateStatus(n) # "PASS" THEN "NOT_VERIFIED"
               ELSE IF \E n, m \in Nodes : Cardinality(IbStats[out[State(n)]].hcas) # Cardinality(IbStats[out[State(m)]].hcas)
                    THEN "FAIL" ELSE "pairs"
    /\ UNCHANGED <<op, inspected, local, remote, out, cancel, signalled, broken, tomb, answer, report, main, exit, budget>>

\* `client or server`: the client's code first; either timeout counts.
PairResult(p) ==
    LET c == Result(Client(p[1], p[2]))
        s == Result(Server(p[1], p[2]))
    IN IF "timeout" \in {c, s} THEN "timeout" ELSE IF c # "ok" THEN c ELSE s

\* A client's exception ends the pair; a server's counts as its code, a failure.
PairStatus(p) ==
    IF Result(Client(p[1], p[2])) = "broken" THEN "NOT_VERIFIED"
    ELSE IbWriteBwStatus(PairResult(p), Averages[out[Client(p[1], p[2])]], Minimum)

\* What the pairs amount to, if the event is not set before they are evaluated.
Measured == IF plan # "pairs" THEN plan ELSE AggregateStatus({PairStatus(p) : p \in Pairs})

GroupStatus == IF cancel THEN "CANCELLED" ELSE Measured

\* Mutant: only a command that ran and returned non-zero is a failed probe.
Bug_Failed ==
    IF op = "ib" THEN GroupStatus \in {"FAIL", "CANCELLED"}
    ELSE \E n \in Probed : Result(Probe(n)) = "failed"

\* NOT_VERIFIED is INCOMPLETE to the run, and INCOMPLETE is no failure.
Failed ==
    IF op = "ib" THEN GroupStatus \in {"FAIL", "CANCELLED"}
    ELSE \E n \in Probed : Result(Probe(n)) # "ok"

----------------------------------------------------------------------------
(* The main thread and the session. *)

\* The handler only notes the signal.  It stays installed until the session is left.
Signal ==
    /\ main # "exited" /\ ~signalled
    /\ signalled' = TRUE /\ cancel' = TRUE
    /\ UNCHANGED <<op, inspected, local, remote, out, broken, plan, tomb, answer, report, main, exit, budget>>

\* cancel_and_wait(): the event, and a stop on every planned node through
\* executors of its own.
BeginStop == main' = "stopping" /\ cancel' = TRUE /\ answer' = Fresh

BodyEnds ==
    /\ main = "body" /\ BodyDone
    /\ IF broken \/ Failed THEN BeginStop ELSE main' = "leave" /\ UNCHANGED <<cancel, answer>>
    /\ UNCHANGED <<op, inspected, local, remote, out, signalled, broken, plan, tomb, report, exit, budget>>

OnNode(n) == {j \in Jobs : j.node = n}
Kill(n) == [j \in Jobs |-> IF j.node = n /\ remote[j] = "alive" THEN "gone" ELSE remote[j]]

\* The guard installs the tombstone, kills what is registered and finds nothing.
StopConfirmed(n) ==
    /\ main = "stopping" /\ answer[n] = "none"
    /\ tomb' = tomb \cup {n}
    /\ remote' = Kill(n)
    /\ answer' = [answer EXCEPT ![n] = "CONFIRMED"]
    /\ UNCHANGED <<op, inspected, local, out, cancel, signalled, broken, plan, report, main, exit, budget>>

\* It finds something that does not die, or its answer does not come back:
\* whatever it did on the node by then stands.
StopFails(n) ==
    /\ main = "stopping" /\ answer[n] = "none"
    /\ \/ /\ \E j \in OnNode(n) : remote[j] = "alive"
          /\ tomb' = tomb \cup {n} /\ answer' = [answer EXCEPT ![n] = "FAILED"] /\ UNCHANGED remote
       \/ /\ answer' = [answer EXCEPT ![n] = "UNCONFIRMED"]
          /\ \/ UNCHANGED <<tomb, remote>>
             \/ tomb' = tomb \cup {n} /\ remote' \in {remote, Kill(n)}
    /\ Mishap
    /\ UNCHANGED <<op, inspected, local, out, cancel, signalled, broken, plan, report, main, exit>>

Stopped ==
    /\ main = "stopping" /\ \A n \in Nodes : answer[n] # "none"
    /\ report' = IF \A n \in Nodes : answer[n] = "CONFIRMED" THEN "confirmed" ELSE "unconfirmed"
    /\ main' = "leave"
    /\ UNCHANGED <<op, inspected, local, remote, out, cancel, signalled, broken, plan, tomb, answer, exit, budget>>

\* Mutant: the report of a stop that has been made is not looked at.
Bug_Leave ==
    /\ main = "leave"
    /\ IF cancel THEN BeginStop ELSE main' = "closed" /\ UNCHANGED <<cancel, answer>>
    /\ UNCHANGED <<op, inspected, local, remote, out, signalled, broken, plan, tomb, report, exit, budget>>

\* The `finally` of signal_handlers(): a set event without a report.
Leave ==
    /\ main = "leave"
    /\ IF cancel /\ report = "none" THEN BeginStop ELSE main' = "closed" /\ UNCHANGED <<cancel, answer>>
    /\ UNCHANGED <<op, inspected, local, remote, out, signalled, broken, plan, tomb, report, exit, budget>>

\* `if received: raise TaskInterrupted`, the last look: a signal between it and the
\* restoring of the handlers is caught and forgotten.
Look ==
    /\ main = "closed"
    /\ main' = IF signalled \/ broken THEN "raised" ELSE "returned"
    /\ UNCHANGED <<op, inspected, local, remote, out, cancel, signalled, broken, plan, tomb, answer, report, exit, budget>>

\* _execution_exit().  A signal too late for the `finally` has no report: the
\* basic check calls that unconfirmed, the bandwidth test cancelled.
ExitCode(interrupted) ==
    IF broken \/ report = "unconfirmed" \/ (interrupted /\ report = "none" /\ op = "basic") THEN 3
    ELSE IF interrupted THEN 130
    ELSE IF report = "confirmed" THEN 2 ELSE 0

Close ==
    /\ main \in {"raised", "returned"}
    /\ main' = "exited" /\ exit' = ExitCode(main = "raised")
    /\ UNCHANGED <<op, inspected, local, remote, out, cancel, signalled, broken, plan, tomb, answer, report, budget>>

----------------------------------------------------------------------------
LocalStep(j) == Launch(j) \/ Deliver(j) \/ Expire(j) \/ CancelLocal(j)
MainStep == Plan \/ BodyEnds \/ Stopped \/ Leave \/ Look \/ Close

Next ==
    \/ \E j \in Jobs :
          \/ Launch(j) \/ LaunchFails(j) \/ Deliver(j) \/ Lose(j) \/ Expire(j)
          \/ CancelLocal(j) \/ Break(j) \/ RemoteStart(j) \/ RemoteEnd(j)
    \/ \E n \in Nodes : StopConfirmed(n) \/ StopFails(n)
    \/ Signal \/ Plan \/ BodyEnds \/ Stopped \/ Leave \/ Look \/ Close

Spec == Init /\ [][Next]_vars

----------------------------------------------------------------------------
(* Safety. *)

\* A stop confirmed on every node means that nothing of this run lives on a
\* node, now or ever after: not even a command whose ssh was still connecting
\* when the controller gave up on it (cancel_and_wait(), the task guard).
ConfirmedMeansQuiet == report = "confirmed" => \A j \in Jobs : remote[j] # "alive"

\* Commands that are left without a stop are those a `timeout` on the node
\* bounds, and whose result the run does not count as a failure.
BoundedLeftover(j) == j.kind # "probe" /\ local[j] \in {"lost", "timeout", "broken"}

\* A pair that was measured, or whose time ran out, or whose client raised.
PairIsNoFailure(p) ==
    \/ "timeout" \in {local[Client(p[1], p[2])], local[Server(p[1], p[2])]}
    \/ local[Client(p[1], p[2])] = "broken"
    \/ /\ local[Client(p[1], p[2])] = "ok" /\ local[Server(p[1], p[2])] = "ok"
       /\ ~ \E a \in Averages[out[Client(p[1], p[2])]], m \in Minimum : a < m

\* What the exit code lets the caller believe (_execution_exit()): after 2 the
\* nodes are clear; after 130 too, unless the signal came when the session had
\* already closed without a stop; after 0 every probe came back, no pair was found
\* failing and what may still run is bounded; and a run that gave up a command for a
\* signal never looks like one that finished.
ExitIsHonest ==
    main = "exited" =>
        /\ exit = 2 => \A j \in Jobs : remote[j] # "alive"
        /\ exit \in {0, 130} => \A j \in Jobs : remote[j] \in {"coming", "alive"} =>
                                    BoundedLeftover(j) \/ (exit = 130 /\ remote[j] = "coming" /\ j.node \in tomb)
        /\ (exit = 0 /\ op = "basic") => \A n \in Probed : local[Probe(n)] = "ok"
        /\ (exit = 0 /\ plan = "pairs") => \A p \in Pairs : PairIsNoFailure(p)
        /\ exit \in {0, 2} => \A j \in Jobs : local[j] # "cancelled"

\* What the session promises of a signal while its handlers are installed.  It does not
\* hold: one that comes after the last look is caught, and the run exits as it would have.
SignalIsHeard == main = "exited" /\ signalled => exit \in {130, 3}

----------------------------------------------------------------------------
(* Verdicts. *)

TransportKind(result) == IF result = "failed" THEN "REMOTE_COMMAND_FAILED" ELSE "SSH_TRANSPORT_FAILED"

\* The record of a node when the report is built, after its ibstat was added.
RecordOf(n) ==
    IF n \notin Probed THEN ExcludedRecord(inspected, n, {})
    ELSE LET probe == IF Result(Probe(n)) = "ok" THEN EvaluateNode(Probes[out[Probe(n)]], Policy)
                      ELSE TransportIncomplete(TransportKind(Result(Probe(n))))
         IN IF "platform" \in Policy.categories THEN AddCheckToRecord(probe, StateStatus(n), "IB_STATE") ELSE probe

Records == [n \in Nodes |-> RecordOf(n)]

\* What a healthy node looks like, said once and without any finding.  A card:
\* every sample of every metric is there and in range, it agrees with the agent
\* of its address, and it was at work in fewer samples than the quorum.
HealthyCard(p, c) ==
    LET Sample(m, i) == ValueOf(p.smi[m][i][c])
        Busy(m, limit(_)) == Cardinality({i \in DOMAIN p.smi[m] : Sample(m, i) * 100 > limit(i)})
    IN /\ \A m \in Metrics : p.smi[m] # <<>> /\ \A i \in DOMAIN p.smi[m] : c \in DOMAIN p.smi[m][i] /\ Known(p.smi[m][i][c])
       /\ \A m \in {"percent", "util"} : \A i \in DOMAIN p.smi[m] : Sample(m, i) \in 0 .. 100
       /\ \E a \in Range(p.agents) :
             /\ BdfOf(p.bus, c) \in {{}, a.bdf} \/ ~RocBdfsKnown(p.agents)
             /\ \A i \in DOMAIN p.smi["total"] :
                   Sample("total", i) > 0 /\ \E t \in a.total : Sample("total", i) - t \in -2 .. 2
       /\ Busy("util", LAMBDA i : Policy.max_util * 100) < Policy.quorum
       /\ Busy("used", LAMBDA i : Policy.max_vram * (Sample("total", i) + CapacityToleranceMib)) < Policy.quorum

\* A port: it is up, a native one has a LID and a subnet manager and an
\* Ethernet one a GID on an interface that is up, and it counted no error in a
\* window that could have shown one.
HealthyPort(net, port) ==
    /\ ActiveLinkUp(port) /\ Known(port.window)
    /\ IF port.link_layer = "INFINIBAND" THEN port.lid # {0} /\ port.sm_lid # {0}
       ELSE \E g \in port.gids : \E n \in g.netdev : g.valid /\ net.interfaces[n].link = "UP"
    /\ \A c \in RequiredCounters :
          LET w == ValueOf(port.window)
          IN /\ c \in DOMAIN w.before /\ c \in DOMAIN w.after /\ Known(w.interval)
             /\ w.after[c] = w.before[c] /\ w.after[c] # Saturated[c]

\* A node: the expected cards, all healthy, a device node, and RDMA devices the
\* verbs can open whose ports are healthy and of one kind.
HealthyNode(p) ==
    /\ p.payload
    /\ "resource" \in Policy.categories =>
          /\ MissingOr(Policy.expected, LAMBDA k : Cardinality(HyCards(p.smi, p.bus)) = k)
          /\ \A c \in HyCards(p.smi, p.bus) : HealthyCard(p, c)
    /\ "platform" \in Policy.categories => p.env.kfd
    /\ ("platform" \in Policy.categories /\ RdmaRequired(Policy)) =>
          /\ p.net.devices # {}
          /\ \A d \in p.net.devices : d.open = {0} /\ \A port \in d.ports : HealthyPort(p.net, port)
          /\ Cardinality({port.link_layer : port \in PortsOf(p.net)}) = 1

\* READY is only said of a cluster all of whose nodes were probed to the end
\* and are healthy, with one image, one protocol and one fabric.
ReadyIsEarned ==
    (main = "exited" /\ exit = 0 /\ op = "basic" /\ ReportStatus(Records, Policy) = "READY") =>
        /\ \A n \in Nodes : n \in Probed /\ HealthyNode(Probes[out[Probe(n)]])
        /\ \A n, m \in Nodes : inspected[n].image_id = inspected[m].image_id
        /\ "platform" \in Policy.categories =>
              /\ \A n \in Nodes : local[State(n)] = "ok" /\ IbStats[out[State(n)]].ports = {"up"}
              /\ \A n, m \in Nodes : {port.link_layer : port \in PortsOf(Probes[out[Probe(n)]].net)}
                                     = {port.link_layer : port \in PortsOf(Probes[out[Probe(m)]].net)}

\* PASS is only said of a bandwidth test whose ports were all up, that measured every
\* ordered pair and found no measurement below the minimum.
PassIsEarned ==
    (main = "exited" /\ exit = 0 /\ op = "ib" /\ Measured = "PASS") =>
        /\ Pairs # {}
        /\ \A n \in Nodes : local[State(n)] = "ok" /\ IbStats[out[State(n)]].ports = {"up"}
        /\ \A p \in Pairs :
              /\ local[Server(p[1], p[2])] = "ok" /\ local[Client(p[1], p[2])] = "ok"
              /\ \E a \in Averages[out[Client(p[1], p[2])]] : \A m \in Minimum : a >= m

\* The scale asked for is only said to be passed when healthy nodes have it.
ScaleIsEarned ==
    (main = "exited" /\ exit = 0 /\ op = "basic" /\ ScaleStatus(Records, Policy) = "FULL_SCALE_PASSED") =>
        /\ \A n \in Nodes : n \in Probed /\ HealthyNode(Probes[out[Probe(n)]])
        /\ \A scale \in Policy.target_scale :
              ~ (SumFunction([n \in {m \in Nodes : MetricsComplete(Probes[out[Probe(m)]])} |->
                                  Cardinality(HyCards(Probes[out[Probe(n)]].smi, Probes[out[Probe(n)]].bus))]) < scale)

\* What a run says of the cluster, READY, PASS or the scale, its evidence shows.
VerdictIsEarned == ReadyIsEarned /\ PassIsEarned /\ ScaleIsEarned

----------------------------------------------------------------------------
(* Liveness.  The deadline of each child, the polling of the event and the   *)
(* bounded stop command keep the run moving whatever the nodes do.           *)
Fairness ==
    /\ \A j \in Jobs : WF_vars(Launch(j)) /\ WF_vars(Expire(j) \/ CancelLocal(j) \/ Deliver(j))
    /\ \A n \in Nodes : WF_vars(StopConfirmed(n) \/ StopFails(n))
    /\ WF_vars(MainStep)

FairSpec == Spec /\ Fairness

\* The run ends, however many commands hang and whenever the signal comes.
RunEnds == <>(main = "exited")
=============================================================================
