---------------------------- MODULE NodeVerdict ----------------------------
(* What one node's probe amounts to: the HCU samples of hy-smi against the   *)
(* agents of rocminfo (parsers.py, preflight.py), the software environment    *)
(* (environment.py) and the record they make (baremetal_cluster.py).          *)
(*                                                                            *)
(* A probe result is [ok, payload, smi_path, roc_path, commands, smi, bus,    *)
(* agents, env, net].  smi maps each metric to the sequence of its samples,   *)
(* a sample maps the cards it reports to the value it gives (or none); an     *)
(* agent is [id, bdf, total].  The policy is what the command line asked for. *)
EXTENDS RdmaVerdict

Metrics == {"total", "used", "available", "percent", "util"}
CapacityToleranceMib == 1
AccountingToleranceMib == 512

----------------------------------------------------------------------------
(* parse_hy_smi_samples(). *)

CardsOf(out) == DOMAIN out

\* The values a metric has for a card, by the sample that gives them; a sample
\* that does not report the card, or not this value, is skipped and not counted.
SamplesOf(smi, metric, card) ==
    [i \in {j \in DOMAIN smi[metric] : card \in CardsOf(smi[metric][j]) /\ Known(smi[metric][j][card])}
        |-> ValueOf(smi[metric][i][card])]

SampleCount(smi) == CHOOSE n \in {Len(smi[m]) : m \in Metrics} : \A m \in Metrics : Len(smi[m]) <= n

\* A command that lists no card at all is a ParseError, as is no sample.
SmiParses(smi) ==
    /\ smi["total"] # <<>> /\ smi["util"] # <<>>
    /\ \A m \in Metrics : \A i \in DOMAIN smi[m] : CardsOf(smi[m][i]) # {}

HyCards(smi, bus) ==
    CardsOf(bus) \cup UNION {UNION {CardsOf(smi[m][i]) : i \in DOMAIN smi[m]} : m \in Metrics}

BdfOf(bus, card) == IF card \in CardsOf(bus) THEN bus[card] ELSE {}

PeakOf(samples) == {v \in Range(samples) : \A w \in Range(samples) : w <= v}
FloorOf(samples) == {v \in Range(samples) : \A w \in Range(samples) : v <= w}
LastOf(samples) == {samples[i] : i \in {j \in DOMAIN samples : \A k \in DOMAIN samples : k <= j}}

----------------------------------------------------------------------------
(* _match_agents(): by PCI address where both tools give one, else the first *)
(* agent no earlier card took.                                               *)

\* {agent.bdf: agent}: the last agent with an address wins it.
AgentAt(agents, bdf) ==
    LET at == {i \in DOMAIN agents : Known(bdf) /\ agents[i].bdf = bdf}
    IN {agents[i] : i \in {j \in at : \A k \in at : k <= j}}

FirstUnused(agents, used) ==
    LET free == {a \in Range(agents) : a.id \notin used}
    IN {a \in free : \A b \in free : a.id <= b.id}

RocBdfsKnown(agents) == \E a \in Range(agents) : Known(a.bdf)

AgentFor(agents, bdf, used) ==
    IF AgentAt(agents, bdf) # {} THEN AgentAt(agents, bdf)
    ELSE IF Known(bdf) /\ RocBdfsKnown(agents) THEN {}
    ELSE FirstUnused(agents, used)

\* The cards in ascending order: each takes its agent from those that the cards
\* before it left.
IsMatch(m, cards, bus, agents) ==
    \A c \in cards : m[c] = AgentFor(agents, BdfOf(bus, c), {a.id : a \in UNION {m[d] : d \in {e \in cards : e < c}}})

MatchAgents(smi, bus, agents) ==
    CHOOSE m \in [HyCards(smi, bus) -> SUBSET Range(agents)] : IsMatch(m, HyCards(smi, bus), bus, agents)

MatchFindings(smi, bus, agents) ==
    LET Twice(bdfs, S) == \E x, y \in S : x # y /\ Known(bdfs[x]) /\ bdfs[x] = bdfs[y]
        cards == HyCards(smi, bus)
    IN Raise(\/ Twice([c \in cards |-> BdfOf(bus, c)], cards)
             \/ Twice([i \in DOMAIN agents |-> agents[i].bdf], DOMAIN agents)
             \/ \E c \in cards : /\ Known(BdfOf(bus, c)) /\ RocBdfsKnown(agents)
                                 /\ AgentAt(agents, BdfOf(bus, c)) = {},
             "FAIL", "HCU_BDF_MAPPING_MISMATCH")

----------------------------------------------------------------------------
(* evaluate_metrics(): the findings of one card. *)

ExceedCount(samples, limit, whole) == Cardinality({i \in DOMAIN samples : samples[i] * 100 > limit * whole})

\* Percentages need a total, and a total of zero gives none.
Percentable(total) == KnownAnd(total, LAMBDA t : t > 0)

BusyFindings(count, quorum, fail, warn) ==
    Raise(count >= quorum, "FAIL", fail) \cup Raise(0 < count /\ count < quorum, "WARN", warn)

OutOfRange(samples, low, high) == \E v \in Range(samples) : v < low \/ v > high

SampleFindings(smi, card) ==
    LET samples == [m \in Metrics |-> SamplesOf(smi, m, card)]
        total == LastOf(samples["total"])
    IN Raise(\E m \in Metrics : Cardinality(DOMAIN samples[m]) # SampleCount(smi), "UNKNOWN", "HCU_SAMPLE_INCOMPLETE")
       \cup Raise(\E v, w \in Range(samples["total"]) : v - w > CapacityToleranceMib,
                  "FAIL", "VRAM_CAPACITY_UNSTABLE")
       \cup Raise(\/ \E v \in Range(samples["total"]) : v <= 0
                  \/ KnownAnd(total, LAMBDA t :
                        \E m \in {"used", "available"} : OutOfRange(samples[m], 0, t + AccountingToleranceMib))
                  \/ \E m \in {"percent", "util"} : OutOfRange(samples[m], 0, 100),
                  "UNKNOWN", "HCU_METRIC_OUT_OF_RANGE")

CardFindings(smi, card, agent, policy) ==
    LET total == LastOf(SamplesOf(smi, "total", card))
        used == SamplesOf(smi, "used", card)
        util == SamplesOf(smi, "util", card)
        available == FloorOf(SamplesOf(smi, "available", card))
        reported == PeakOf(SamplesOf(smi, "percent", card))
        memoryCount == IF Percentable(total) THEN ExceedCount(used, policy.max_vram, ValueOf(total)) ELSE 0
        agentTotal == UNION {a.total : a \in agent}
        reserved == {t - u - v : t \in total, u \in PeakOf(used), v \in available}
        gap == \E t \in total, u \in PeakOf(used), r \in reported :
                  t > 0 /\ (100 * u - r * t > 2 * t \/ r * t - 100 * u > 2 * t)
    IN SampleFindings(smi, card)
       \cup Raise({} \in {total, PeakOf(used), available, PeakOf(util), agentTotal}, "UNKNOWN", "HCU_METRIC_MISSING")
       \cup Raise(\E t \in total, a \in agentTotal :
                     t - a > CapacityToleranceMib \/ a - t > CapacityToleranceMib,
                  "FAIL", "VRAM_CAPACITY_SOURCE_MISMATCH")
       \cup BusyFindings(memoryCount, policy.quorum, "VRAM_IN_USE", "TRANSIENT_VRAM_ACTIVITY")
       \cup BusyFindings(ExceedCount(util, policy.max_util, 100), policy.quorum, "HCU_BUSY", "TRANSIENT_HCU_ACTIVITY")
       \cup Raise(\E r \in reserved : r < -AccountingToleranceMib \/ r > AccountingToleranceMib, "WARN", "VRAM_ACCOUNTING_GAP")
       \cup Raise(gap, "WARN", "VRAM_PERCENT_SOURCE_MISMATCH")

MetricFindings(p, policy) ==
    LET cards == HyCards(p.smi, p.bus)
        match == MatchAgents(p.smi, p.bus, p.agents)
    IN Raise(KnownAnd(policy.expected, LAMBDA n : Cardinality(cards) # n), "FAIL", "HCU_DEVICE_COUNT_MISMATCH")
       \cup Raise(Len(p.agents) # Cardinality(cards), "FAIL", "ROCINFO_HYSMI_DEVICE_COUNT_MISMATCH")
       \cup MatchFindings(p.smi, p.bus, p.agents)
       \cup UNION {CardFindings(p.smi, c, match[c], policy) : c \in cards}

\* The resource half of a record: a tool that is missing, a command that
\* failed, output that does not parse, or the metrics themselves.
MetricsReadable(p) == p.smi_path /\ p.roc_path /\ p.commands
MetricsComplete(p) == MetricsReadable(p) /\ SmiParses(p.smi) /\ p.agents # <<>>

ResourceFindings(p, policy) ==
    Raise(~p.smi_path, "FAIL", "HY_SMI_NOT_FOUND")
    \cup Raise(~p.roc_path, "FAIL", "ROCMINFO_NOT_FOUND")
    \cup Raise(~p.commands, "UNKNOWN", "HCU_METRIC_COMMAND_FAILED")
    \cup Raise(MetricsReadable(p) /\ ~MetricsComplete(p), "UNKNOWN", "HCU_METRIC_PARSE_FAILED")
    \cup (IF MetricsComplete(p) THEN MetricFindings(p, policy) ELSE {})

----------------------------------------------------------------------------
(* evaluate_environment() and evaluate_baremetal_environment(). *)

NoSoftware == [dtk |-> FALSE, hipcc |-> FALSE, rccl |-> FALSE, nccl |-> FALSE, ucx |-> FALSE,
               packages |-> {}, torch |-> "missing", hip |-> FALSE, hcu |-> FALSE, count |-> {}]

\* A docker or conda target never falls back to what the host has installed.
SelectedSoftware(env, policy) ==
    IF policy.software = "host-python" THEN env.host
    ELSE IF env.target = {} THEN NoSoftware ELSE ValueOf(env.target)

Check(ok, required, reason) == Raise(~ok, IF required THEN "FAIL" ELSE "WARN", reason)

TorchFindings(soft, policy) ==
    IF "torch" \notin policy.packages THEN {}
    ELSE IF soft.torch # "importable" THEN {Finding("FAIL", "TORCH_IMPORT_FAILED")}
    ELSE Check(soft.hip, FALSE, "TORCH_NOT_HIP_BUILD")
         \cup Check(soft.hcu, TRUE, "TORCH_HCU_UNAVAILABLE")
         \cup Check(MissingOr(policy.expected, LAMBDA n : soft.count = {n}), TRUE, "TORCH_DEVICE_COUNT_MISMATCH")

SoftwareFindings(soft, policy) ==
    Check(soft.dtk, FALSE, "DTK_VERSION_UNAVAILABLE")
    \cup Check(soft.hipcc, policy.compiler, "HIPCC_NOT_AVAILABLE")
    \cup Check(policy.packages \ {"torch"} \subseteq soft.packages, TRUE, "PYTHON_PACKAGE_NOT_FOUND")
    \cup Check(soft.rccl \/ soft.nccl, policy.rccl, "RCCL_LIBRARY_NOT_FOUND")
    \cup Check(soft.ucx, policy.ucx, "UCX_NOT_AVAILABLE")
    \cup TorchFindings(soft, policy)

RdmaRequired(policy) ==
    policy.rdma \/ policy.min_rdma > 0 \/ policy.protocol # "auto" \/ policy.rdma_policy

RdmaMinimum(policy) ==
    IF RdmaRequired(policy) /\ policy.min_rdma = 0 THEN 1 ELSE policy.min_rdma

RdmaCountFindings(net, policy) ==
    LET least == IF RdmaRequired(policy) THEN RdmaMinimum(policy) ELSE 1
        active == {d.name : d \in {d \in net.devices : \E p \in d.ports : ActiveLinkUp(p)}}
    IN Check(Cardinality(net.devices) >= least, RdmaRequired(policy), "RDMA_DEVICE_COUNT_INSUFFICIENT")
       \cup Check(Cardinality(active) >= least, RdmaRequired(policy), "RDMA_DEVICE_NOT_ACTIVE")

TargetFindings(env, policy) ==
    Raise(policy.software # "host-python" /\ env.target_status # "SUCCESS", "FAIL", "SOFTWARE_TARGET_PROBE_FAILED")
    \cup Raise(policy.software = "docker"
               /\ env.cleanup \notin {"REMOVED", "REMOVED_AUTOMATICALLY", "NOT_CREATED"},
               "UNKNOWN", "DOCKER_PROBE_CLEANUP_FAILED")

PlatformFindings(p, policy) ==
    Check(p.env.driver, FALSE, "DRIVER_VERSION_UNAVAILABLE")
    \cup Check(p.env.module, FALSE, "HYCU_DRIVER_NOT_LOADED")
    \cup Check(p.env.kfd, TRUE, "HCU_DEVICE_NODE_MISSING")
    \cup SoftwareFindings(SelectedSoftware(p.env, policy), policy)
    \cup RdmaCountFindings(p.net, policy)
    \cup RdmaFindings(p.net, RdmaRequired(policy), policy.protocol, policy.rdma_policy)
    \cup TargetFindings(p.env, policy)

----------------------------------------------------------------------------
(* evaluate_node_result(): the record of a node. *)

\* The static values the cluster compares; without the platform category only
\* what the resource comparison reads.
Environment(p, policy) ==
    IF "platform" \in policy.categories
    THEN [driver_version |-> IF p.env.driver THEN {p.env.version} ELSE {},
          rdma_current_protocol |-> {CurrentProtocol(p.net)},
          rdma_fabric_profile |-> FabricProfile(p.net, RdmaRequired(policy), policy.protocol),
          mem_total |-> p.env.memory]
    ELSE [mem_total |-> p.env.memory]

Record(status, findings, reachable, count, environment) ==
    [status |-> status, findings |-> findings, reachable |-> reachable,
     count |-> count, environment |-> environment]

NoEnvironment == <<>>

\* _transport_incomplete(): only a remote command that ran and failed proves
\* the node reachable.
TransportIncomplete(kind) ==
    Record("INCOMPLETE", {Finding("UNKNOWN", kind)}, kind = "REMOTE_COMMAND_FAILED", {}, NoEnvironment)

OutputInvalid == Record("INCOMPLETE", {Finding("UNKNOWN", "NODE_PROBE_OUTPUT_INVALID")}, TRUE, {}, NoEnvironment)

EvaluateNode(p, policy) ==
    LET findings == (IF "platform" \in policy.categories THEN PlatformFindings(p, policy) ELSE {})
                    \cup (IF "resource" \in policy.categories THEN ResourceFindings(p, policy) ELSE {})
    IN IF ~p.payload THEN OutputInvalid
       ELSE Record(StatusOf(findings), findings, TRUE,
                   IF MetricsComplete(p) THEN {Cardinality(HyCards(p.smi, p.bus))} ELSE {},
                   Environment(p, policy))

\* The shape of the evidence of a probe: finitely many numbered cards, sequences
\* of samples, and numbers where the tools print numbers.
IsProbe(p) ==
    /\ p.payload \in BOOLEAN /\ p.env.kfd \in BOOLEAN
    /\ IsFiniteSet(HyCards(p.smi, p.bus)) /\ HyCards(p.smi, p.bus) \subseteq Int
    /\ \A m \in Metrics :
          /\ p.smi[m] \in Seq(Range(p.smi[m]))
          /\ \A i \in DOMAIN p.smi[m] : \A c \in CardsOf(p.smi[m][i]) : p.smi[m][i][c] \subseteq Int
    /\ \A a \in Range(p.agents) : a.id \in Int /\ a.total \subseteq Int
    /\ \A port \in PortsOf(p.net) : \A w \in port.window : Range(w.before) \cup Range(w.after) \subseteq Int
============================================================================
