---------------------------- MODULE RdmaVerdict ----------------------------
(* rdma.py and ib_counters.py of hcu-envcheck: what the network evidence of  *)
(* one node amounts to.  A port is classified by its link layer and its GID   *)
(* table, never by the hardware; the node's protocol follows from its ports;  *)
(* then come the userspace verbs check, the endpoint and the counter window   *)
(* of each kind of port, and the DCB and configuration evidence of RoCE.      *)
(*                                                                            *)
(* A network is [devices, interfaces, candidates, userspace, health, rails];  *)
(* a device [name, ports, open] with `open` the return code of ibv_devinfo.   *)
(* roce_health.py is taken as evidence: its status is `health`, and `rails`   *)
(* says whether the pause, FEC and DCB evidence of every rail is complete.    *)
EXTENDS CheckFindings

ValidGids(port) == {g \in port.gids : g.valid}
MappedGids(port) == {g \in ValidGids(port) : Known(g.netdev)}

GidEvidenceComplete(port) == port.gid_status = "COMPLETE"

RoceVersions(port) ==
    {g.type : g \in {h \in MappedGids(port) : h.type \in {"v1", "v2"}}}

\* classify_rdma_port(): "IB/RoCE v1" is an IB GID on an InfiniBand link and
\* proves RoCE on an Ethernet link only together with a netdev.
ClassifyPort(port) ==
    CASE port.link_layer = "INFINIBAND" -> "NATIVE_INFINIBAND"
      [] port.link_layer = "ETHERNET" /\ ~GidEvidenceComplete(port) -> "ETHERNET_RDMA_EVIDENCE_INCOMPLETE"
      [] port.link_layer = "ETHERNET" /\ GidEvidenceComplete(port) /\ RoceVersions(port) # {} -> "ROCE"
      [] port.link_layer = "ETHERNET" /\ GidEvidenceComplete(port) /\ RoceVersions(port) = {} -> "ETHERNET_RDMA_UNCONFIRMED"
      [] OTHER -> "UNKNOWN"

ActiveLinkUp(port) == port.state = {"ACTIVE"} /\ port.phys_state = {"LINKUP"}

PortsOf(net) == UNION {d.ports : d \in net.devices}
PortsIn(net, protocol) == {p \in PortsOf(net) : ClassifyPort(p) = protocol}

----------------------------------------------------------------------------
(* The protocol of the node. *)

CurrentProtocol(net) ==
    LET Seen == {ClassifyPort(p) : p \in PortsOf(net)}
        Active == Seen \cap {"NATIVE_INFINIBAND", "ROCE"}
        Weak == Seen \ Active
    IN CASE Cardinality(Active) > 1 -> "MIXED"
         [] Cardinality(Active) = 1 /\ Weak # {} -> "MIXED_OR_INCOMPLETE"
         [] Cardinality(Active) = 1 /\ Weak = {} -> CHOOSE p \in Active : TRUE
         [] Active = {} /\ "ETHERNET_RDMA_EVIDENCE_INCOMPLETE" \in Seen -> "ETHERNET_RDMA_EVIDENCE_INCOMPLETE"
         [] Active = {} /\ "ETHERNET_RDMA_EVIDENCE_INCOMPLETE" \notin Seen
              /\ "ETHERNET_RDMA_UNCONFIRMED" \in Seen -> "ETHERNET_RDMA_UNCONFIRMED"
         [] Seen = {"UNKNOWN"} -> "UNKNOWN"
         [] Seen = {} -> "NO_RDMA_PORTS"

ProtocolFindings(net, required) ==
    LET p == CurrentProtocol(net)
    IN Raise(p = "MIXED", "FAIL", "RDMA_PROTOCOL_MIXED_ON_NODE")
       \cup Raise(p \notin {"MIXED", "NATIVE_INFINIBAND", "ROCE"},
                  IF required THEN "UNKNOWN" ELSE "WARN", "RDMA_PROTOCOL_EVIDENCE_MISSING")

Actual(expected) ==
    CASE expected = "ib" -> "NATIVE_INFINIBAND" [] expected = "roce" -> "ROCE" [] OTHER -> "none"

\* A protocol that differs from the expected one is a mismatch, unless the
\* ports that could prove it are the very ones whose evidence is incomplete.
ExpectedEvidenceIncomplete(net, expected) ==
    LET Seen == {ClassifyPort(p) : p \in PortsOf(net)}
    IN \/ CurrentProtocol(net) \in {"UNKNOWN", "ETHERNET_RDMA_EVIDENCE_INCOMPLETE"}
       \/ /\ CurrentProtocol(net) = "MIXED_OR_INCOMPLETE"
          /\ Actual(expected) \in Seen
          /\ "ETHERNET_RDMA_UNCONFIRMED" \notin Seen
          /\ expected = "ib" => "ETHERNET_RDMA_EVIDENCE_INCOMPLETE" \notin Seen

ExpectedFindings(net, expected) ==
    IF expected = "auto" \/ CurrentProtocol(net) = Actual(expected) THEN {}
    ELSE IF ExpectedEvidenceIncomplete(net, expected)
         THEN {Finding("UNKNOWN", "RDMA_EXPECTED_PROTOCOL_EVIDENCE_MISSING")}
         ELSE {Finding("FAIL", "RDMA_PROTOCOL_MISMATCH")}

----------------------------------------------------------------------------
(* _evaluate_rdma_userspace(): can the verbs API use the HCAs sysfs shows?   *)
(* userspace = [tool, rc, enumerated]: is ibv_devices there, its return code *)
(* (if it is known) and the devices it listed.                               *)

UserspaceStatus(net) ==
    LET u == net.userspace
        Names == {d.name : d \in net.devices}
        Opens == {d.open : d \in net.devices}
    IN CASE Names = {} -> "NOT_APPLICABLE"
         [] Names # {} /\ (~u.tool \/ u.rc = {}) -> "UNKNOWN"
         [] Names # {} /\ u.tool /\ u.rc # {} /\ (u.rc # {0} \/ ~(Names \subseteq u.enumerated)) -> "FAIL"
         [] Names # {} /\ u.tool /\ u.rc = {0} /\ Names \subseteq u.enumerated ->
              IF \E o \in Opens : o # {} /\ o # {0} THEN "FAIL"
              ELSE IF {} \in Opens THEN "UNKNOWN" ELSE "PASS"

----------------------------------------------------------------------------
(* Counter windows.  The counters stand for the required ones and            *)
(* port_xmit_wait, the advisory one; Saturated is where a PMA counter stops  *)
(* (the 32-bit limit of the advisory one scaled into TLC's integers).        *)

RequiredCounters == {"link_downed", "symbol_error"}
Advisory == "port_xmit_wait"
CounterNames == RequiredCounters \cup {Advisory}
Saturated == [c \in CounterNames |->
                CASE c = "link_downed" -> 255 [] c = "symbol_error" -> 65535 [] OTHER -> 4294967]

IntervalValid(w) ==
    KnownAnd(w.interval, LAMBDA i : 1 <= i /\ (i <= 60 \/ 4 * i <= 5 * w.configured))

Reading(snapshot, c) == IF c \in DOMAIN snapshot THEN {snapshot[c]} ELSE {}

\* Mutant: a counter that went backwards counts as one that did not grow.
Bug_IbMetric(w, c) ==
    IF ~IntervalValid(w) \/ {} \in {Reading(w.before, c), Reading(w.after, c)} THEN "UNKNOWN"
    ELSE IF w.after[c] > w.before[c] THEN (IF c = Advisory THEN "WARN" ELSE "FAIL") ELSE "PASS"

\* The status of one counter between the two snapshots.
IbMetric(w, c) ==
    LET b == Reading(w.before, c)
        a == Reading(w.after, c)
    IN IF ~IntervalValid(w) \/ b = {} \/ a = {} THEN "UNKNOWN"
       ELSE LET before == ValueOf(b) after == ValueOf(a)
            IN CASE after < before -> "UNKNOWN"                                  \* reset or wrap
                 [] after = before /\ before = Saturated[c] -> "UNKNOWN"
                 [] after = before /\ before # Saturated[c] -> "PASS"
                 [] after > before -> IF c = Advisory THEN "WARN" ELSE "FAIL"

\* Missing advisory evidence is not decisive; its growth is.
IbCounterPort(port) ==
    IF port.window = {} \/ ValueOf(port.window).status \in {"DISABLED", "INVALID_INTERVAL"} THEN "UNKNOWN"
    ELSE LET w == ValueOf(port.window)
         IN Worst({IbMetric(w, c) : c \in RequiredCounters}
                  \cup ({IbMetric(w, Advisory)} \cap {"WARN", "FAIL"}))

\* RoCE compares what either snapshot holds; saturation counts after growth,
\* and evidence that is not complete is UNKNOWN next to whatever was seen.
RoceMetric(w, c) ==
    LET b == Reading(w.before, c)
        a == Reading(w.after, c)
    IN IF ~IntervalValid(w) \/ b = {} \/ a = {} \/ ValueOf(a) < ValueOf(b) THEN "UNKNOWN"
       ELSE IF ValueOf(a) > ValueOf(b) THEN (IF c = Advisory THEN "WARN" ELSE "FAIL")
       ELSE IF \E d \in CounterNames : ValueOf(a) = Saturated[d] THEN "UNKNOWN" ELSE "PASS"

RoceComparable(w) ==
    {c \in RequiredCounters :
        /\ IntervalValid(w)
        /\ c \in DOMAIN w.before \cap DOMAIN w.after
        /\ w.after[c] >= w.before[c]}

RoceCounterPort(port) ==
    IF port.window = {} \/ ValueOf(port.window).status \in {"DISABLED", "INVALID_INTERVAL"} THEN "UNKNOWN"
    ELSE LET w == ValueOf(port.window)
             selected == DOMAIN w.before \cup DOMAIN w.after
             incomplete == \/ selected = {}
                           \/ RoceComparable(w) = {}
                           \/ w.status # "COMPLETE"
                           \/ ~(RequiredCounters \subseteq DOMAIN w.before \cap DOMAIN w.after)
         IN Worst({RoceMetric(w, c) : c \in selected}
                  \cup (IF incomplete THEN {"UNKNOWN"} ELSE {}))

CounterStatus(ports, PortStatus(_)) ==
    IF ports = {} THEN "NOT_APPLICABLE" ELSE Worst({PortStatus(p) : p \in ports})

CounterReason(kind, status) ==
    CASE status = "FAIL" -> IF kind = "ib" THEN "IB_COUNTER_ERROR_GROWTH" ELSE "ROCE_COUNTER_ERROR_OR_DROP_GROWTH"
      [] status = "WARN" -> IF kind = "ib" THEN "IB_CONGESTION_SIGNAL_GROWTH" ELSE "ROCE_CONGESTION_SIGNAL_GROWTH"
      [] OTHER -> IF kind = "ib" THEN "IB_COUNTER_HEALTH_EVIDENCE_MISSING" ELSE "ROCE_COUNTER_HEALTH_EVIDENCE_MISSING"

CounterFindings(net, required, expected) ==
    LET ib == CounterStatus(PortsIn(net, "NATIVE_INFINIBAND"), IbCounterPort)
        roce == CounterStatus(PortsIn(net, "ROCE"), RoceCounterPort)
    IN AddCheck(Exposed(ib, required \/ expected = "ib"), CounterReason("ib", ib))
       \cup AddCheck(Exposed(roce, required \/ expected = "roce"), CounterReason("roce", roce))

----------------------------------------------------------------------------
(* Endpoints. *)

MtuInverted(port) ==
    /\ Known(port.active_mtu) /\ Known(port.max_mtu)
    /\ ValueOf(port.active_mtu) > ValueOf(port.max_mtu)

StateKnown(port) == Known(port.state) /\ Known(port.phys_state)

IbDefinitiveFail(port) ==
    \/ StateKnown(port) /\ ~ActiveLinkUp(port)
    \/ port.lid = {0}
    \/ port.sm_lid = {0}
    \/ port.gids_complete /\ ValidGids(port) = {}
    \/ port.pkeys_complete /\ port.pkeys = {}
    \/ MtuInverted(port)

IbEvidenceMissing(port) ==
    \/ {} \in {port.state, port.phys_state, port.subnet_prefix}
    \/ {} \in {port.lid, port.sm_lid, port.rate, port.active_mtu, port.max_mtu}
    \/ ~port.gids_complete
    \/ ~port.pkeys_complete

IbEndpoint(net) ==
    LET ports == PortsIn(net, "NATIVE_INFINIBAND")
    IN CASE ports = {} -> "NOT_APPLICABLE"
         [] \E p \in ports : IbDefinitiveFail(p) -> "FAIL"
         [] ports # {} /\ (\A p \in ports : ~IbDefinitiveFail(p)) ->
              IF \E p \in ports : IbEvidenceMissing(p) THEN "UNKNOWN" ELSE "PASS"

MappedNetdevs(net) ==
    UNION {UNION {g.netdev : g \in ValidGids(p)} : p \in PortsIn(net, "ROCE")}

RoceMtus(net) ==
    UNION {net.interfaces[n].mtu : n \in MappedNetdevs(net) \cap DOMAIN net.interfaces}

RoceNotReady(net) ==
    \/ \E p \in PortsIn(net, "ROCE") : StateKnown(p) /\ ~ActiveLinkUp(p)
    \/ \E n \in MappedNetdevs(net) \cap DOMAIN net.interfaces : net.interfaces[n].link = "DOWN"
    \/ Cardinality(RoceMtus(net)) > 1

RoceEvidenceMissing(net) ==
    \/ \E p \in PortsIn(net, "ROCE") : ~StateKnown(p) \/ p.rate = {}
    \/ \E n \in MappedNetdevs(net) :
         \/ n \notin DOMAIN net.interfaces
         \/ net.interfaces[n].link \notin {"UP", "DOWN"}
         \/ net.interfaces[n].mtu = {}

\* A RoCE port always has a mapped GID here: without one it is UNCONFIRMED.
RoceEndpoint(net) ==
    CASE PortsIn(net, "ROCE") = {} -> "NOT_APPLICABLE"
      [] PortsIn(net, "ROCE") # {} /\ RoceNotReady(net) -> "FAIL"
      [] PortsIn(net, "ROCE") # {} /\ ~RoceNotReady(net) ->
           IF RoceEvidenceMissing(net) THEN "UNKNOWN" ELSE "PASS"

\* Ethernet ports that are no RoCE ports: the missing GID evidence is UNKNOWN
\* even where RDMA is not required, the missing GID fails only if RoCE is expected.
RoceGidFindings(net, expected) ==
    IF PortsIn(net, "ROCE") # {} THEN {}
    ELSE IF PortsIn(net, "ETHERNET_RDMA_EVIDENCE_INCOMPLETE") # {}
         THEN {Finding("UNKNOWN", "ROCE_GID_EVIDENCE_MISSING")}
         ELSE IF PortsIn(net, "ETHERNET_RDMA_UNCONFIRMED") = {} THEN {}
         ELSE IF expected = "roce" THEN {Finding("FAIL", "ROCE_GID_NOT_CONFIGURED")}
         ELSE {Finding("WARN", "ETHERNET_RDMA_PROTOCOL_UNCONFIRMED")}

EndpointReason(kind, status) ==
    CASE status = "UNKNOWN" -> IF kind = "ib" THEN "IB_ENDPOINT_EVIDENCE_MISSING" ELSE "ROCE_ENDPOINT_EVIDENCE_MISSING"
      [] OTHER -> IF kind = "ib" THEN "IB_ENDPOINT_NOT_READY" ELSE "ROCE_ENDPOINT_NOT_READY"

EndpointFindings(net, required, expected) ==
    LET ib == IbEndpoint(net)
        roce == RoceEndpoint(net)
    IN AddCheck(Exposed(ib, required \/ expected = "ib"), EndpointReason("ib", ib))
       \cup AddCheck(Exposed(roce, required \/ expected = "roce"), EndpointReason("roce", roce))
       \cup RoceGidFindings(net, expected)

----------------------------------------------------------------------------
(* RoCE host configuration.  An interface carries a set of DCB targets, each *)
(* with the sections whose command ran, those with output, and whether the   *)
(* PFC, ETS, APP and DCBX tables found in them are whole.                    *)

Sections == {"pfc", "ets", "app", "buffer", "dcbx"}

DcbTargets(net, netdevs) == UNION {net.interfaces[n].dcb : n \in netdevs \cap DOMAIN net.interfaces}

DcbNetdevs(net) ==
    IF MappedNetdevs(net) # {} THEN MappedNetdevs(net)
    ELSE IF PortsIn(net, "ETHERNET_RDMA_UNCONFIRMED") \cup PortsIn(net, "ETHERNET_RDMA_EVIDENCE_INCOMPLETE") # {}
         THEN net.candidates ELSE {}

\* An interface nobody reported, or one without commands, counts as a target
\* none of whose sections ran.
DcbStatus(net) ==
    LET netdevs == DcbNetdevs(net)
        targets == DcbTargets(net, netdevs)
        bare == \E n \in netdevs : n \notin DOMAIN net.interfaces \/ net.interfaces[n].dcb = {}
    IN IF netdevs = {} THEN "NOT_APPLICABLE"
       ELSE IF \A t \in targets : t.ran = {} THEN "INCOMPLETE"
       ELSE IF bare \/ \E t \in targets : t.ran # Sections THEN "PARTIAL"
       ELSE IF \E t \in targets : t.output # Sections \/ ~t.whole THEN "COLLECTED_POLICY_INCOMPLETE"
       ELSE "COLLECTED_POLICY_UNVALIDATED"

RoceRelevant(net, expected, policy) ==
    \/ PortsIn(net, "ROCE") # {}
    \/ PortsIn(net, "ETHERNET_RDMA_UNCONFIRMED") # {}
    \/ PortsIn(net, "ETHERNET_RDMA_EVIDENCE_INCOMPLETE") # {}
    \/ expected = "roce"
    \/ policy

ConfigurationFindings(net, required, expected, policy) ==
    LET strict == required \/ expected = "roce"
        health == CASE net.health = "UNVALIDATED" -> "WARN"
                    [] OTHER -> Exposed(net.health, strict \/ policy)
    IN (IF PortsIn(net, "ROCE") = {} THEN {}
        ELSE IF DcbStatus(net) = "COLLECTED_POLICY_UNVALIDATED"
             THEN {Finding("WARN", "ROCE_DCB_POLICY_NOT_VALIDATED")}
             ELSE {Finding(Exposed("UNKNOWN", strict), "ROCE_DCB_CONFIGURATION_INCOMPLETE")})
       \cup (IF RoceRelevant(net, expected, policy)
             THEN AddCheck(health, "ROCE_CONFIGURATION_CHAIN") ELSE {})

----------------------------------------------------------------------------
(* evaluate_rdma_network(): the findings, and the two fields of the summary  *)
(* the cluster compares.                                                     *)

RdmaFindings(net, required, expected, policy) ==
    LET user == UserspaceStatus(net)
    IN ProtocolFindings(net, required)
       \cup ExpectedFindings(net, expected)
       \cup AddCheck(Exposed(user, required \/ expected # "auto"), "RDMA_USERSPACE")
       \cup EndpointFindings(net, required, expected)
       \cup CounterFindings(net, required, expected)
       \cup ConfigurationFindings(net, required, expected, policy)

\* The rails of a port, named by device and port, not by enumeration order.
IbPortProfile(net) ==
    UNION {{[device |-> d.name, port |-> p.port, subnet |-> p.subnet_prefix, pkeys |-> p.pkeys,
             active |-> p.active_mtu, max |-> p.max_mtu, rate |-> p.rate] :
                p \in {q \in d.ports : ClassifyPort(q) = "NATIVE_INFINIBAND"}} : d \in net.devices}

\* Of a GID its interface, version and MTU stand for the layout of the rail
\* (index, prefix, networks, VLAN, DCB policy).
RocePortProfile(net) ==
    UNION {{[device |-> d.name, port |-> p.port, rate |-> p.rate,
             layout |-> {[netdev |-> g.netdev, version |-> g.type,
                          mtu |-> UNION {net.interfaces[n].mtu : n \in g.netdev \cap DOMAIN net.interfaces}] :
                             g \in MappedGids(p)}] :
                p \in {q \in d.ports : ClassifyPort(q) = "ROCE"}} : d \in net.devices}

\* Evidence short of a PASS is no profile at all (None): it can only be
\* reported missing, never compared.
FabricProfile(net, required, expected) ==
    CASE CurrentProtocol(net) = "NATIVE_INFINIBAND" /\ IbEndpoint(net) = "PASS" -> {IbPortProfile(net)}
      [] CurrentProtocol(net) = "ROCE" /\ RoceEndpoint(net) = "PASS"
           /\ DcbStatus(net) = "COLLECTED_POLICY_UNVALIDATED"
           /\ net.rails -> {RocePortProfile(net)}
      [] OTHER -> {}
============================================================================
