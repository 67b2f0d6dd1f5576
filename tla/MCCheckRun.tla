----------------------------- MODULE MCCheckRun -----------------------------
(* The instance of CheckRun that TLC checks: two nodes, a healthy probe and   *)
(* what each kind of defect makes of it, one or several fields at a time.     *)
EXTENDS CheckRun

MCPolicy ==
    [expected |-> {2}, quorum |-> 2, max_vram |-> 5, max_util |-> 5,
     categories |-> {"platform", "resource"}, compiler |-> FALSE,
     rdma |-> TRUE, min_rdma |-> 0, protocol |-> "auto", rdma_policy |-> FALSE,
     rccl |-> TRUE, ucx |-> FALSE, packages |-> {"torch"}, software |-> "host-python",
     strict |-> FALSE, target_scale |-> {4}]

\* Every metric sampled three times on two cards.
Row(v) == (0 :> {v}) @@ (1 :> {v})
Samples(v) == <<Row(v), Row(v), Row(v)>>
GoodSmi == ("total" :> Samples(65536)) @@ ("used" :> Samples(1000)) @@ ("available" :> Samples(64536))
           @@ ("percent" :> Samples(2)) @@ ("util" :> Samples(0))
GoodBus == (0 :> {"b0"}) @@ (1 :> {"b1"})
Agent(id, bdf) == [id |-> id, bdf |-> {bdf}, total |-> {65536}]

GoodSoftware == [dtk |-> TRUE, hipcc |-> TRUE, rccl |-> TRUE, nccl |-> FALSE, ucx |-> FALSE,
                 packages |-> {}, torch |-> "importable", hip |-> TRUE, hcu |-> TRUE, count |-> {2}]
GoodEnv == [driver |-> TRUE, version |-> "6.2", module |-> TRUE, kfd |-> TRUE, host |-> GoodSoftware,
            target |-> {}, target_status |-> "NOT_REQUESTED", cleanup |-> "NOT_CREATED", memory |-> {512}]

Counters(downed, symbol, wait) ==
    ("link_downed" :> downed) @@ ("symbol_error" :> symbol) @@ ("port_xmit_wait" :> wait)
Window(before, after) ==
    [status |-> "COMPLETE", before |-> before, after |-> after, interval |-> {10}, configured |-> 10]
Quiet == Window(Counters(3, 0, 7), Counters(3, 0, 7))

IbPort ==
    [port |-> 1, link_layer |-> "INFINIBAND", gid_status |-> "COMPLETE",
     gids |-> {[valid |-> TRUE, netdev |-> {}, type |-> "v1"]}, gids_complete |-> TRUE,
     pkeys |-> {65535}, pkeys_complete |-> TRUE, state |-> {"ACTIVE"}, phys_state |-> {"LINKUP"},
     lid |-> {4}, sm_lid |-> {1}, rate |-> {400}, active_mtu |-> {4096}, max_mtu |-> {4096},
     subnet_prefix |-> {"fe80"}, window |-> {Quiet}]
RocePort ==
    [IbPort EXCEPT !.link_layer = "ETHERNET", !.gids = {[valid |-> TRUE, netdev |-> {"eth2"}, type |-> "v2"]}]

Dcb == [ran |-> Sections, output |-> Sections, whole |-> TRUE]
Device(name, port) == [name |-> name, ports |-> {port}, open |-> {0}]
Net(port) ==
    [devices |-> {Device("mlx5_0", port)},
     interfaces |-> "eth2" :> [link |-> "UP", mtu |-> {9000}, dcb |-> {Dcb}],
     candidates |-> {"eth2"},
     userspace |-> [tool |-> TRUE, rc |-> {0}, enumerated |-> {"mlx5_0", "mlx5_1"}],
     health |-> "UNVALIDATED", rails |-> TRUE]

Healthy == [payload |-> TRUE, smi_path |-> TRUE, roc_path |-> TRUE, commands |-> TRUE,
            smi |-> GoodSmi, bus |-> GoodBus, agents |-> <<Agent(1, "b0"), Agent(2, "b1")>>,
            env |-> GoodEnv, net |-> Net(IbPort)]

WithNet(net) == [Healthy EXCEPT !.net = net]
WithPort(port) == WithNet(Net(port))
WithWindow(w) == WithPort([IbPort EXCEPT !.window = {w}])
WithRoceWindow(w) == WithPort([RocePort EXCEPT !.window = {w}])
WithSmi(metric, i, card, v) == [Healthy EXCEPT !.smi[metric][i][card] = v]

MCProbes ==
    [tag \in {"good", "roce"} |-> IF tag = "good" THEN Healthy ELSE WithPort(RocePort)]
    \* The payload and the HCUs.
    @@ ("garbled" :> [Healthy EXCEPT !.payload = FALSE])
    @@ ("no_tool" :> [Healthy EXCEPT !.smi_path = FALSE, !.smi = [m \in Metrics |-> <<>>], !.bus = <<>>])
    @@ ("command_failed" :> [Healthy EXCEPT !.commands = FALSE])
    @@ ("no_agents" :> [Healthy EXCEPT !.agents = <<>>])
    @@ ("card_gone" :> [Healthy EXCEPT !.smi = [m \in Metrics |-> [i \in 1 .. 3 |-> 0 :> GoodSmi[m][i][0]]],
                                       !.bus = 0 :> {"b0"}, !.agents = <<Agent(1, "b0")>>])
    @@ ("sample_missing" :> WithSmi("util", 2, 1, {}))
    @@ ("zero_total" :> [Healthy EXCEPT !.smi["total"] = Samples(0)])
    @@ ("unstable" :> WithSmi("total", 2, 0, {65534}))
    @@ ("out_of_range" :> WithSmi("util", 3, 0, {101}))
    @@ ("busy_once" :> WithSmi("util", 2, 0, {80}))
    @@ ("busy" :> [Healthy EXCEPT !.smi["util"] = <<Row(80), Row(0), Row(80)>>])
    @@ ("memory_busy" :> [Healthy EXCEPT !.smi["used"] = Samples(9000), !.smi["available"] = Samples(56536),
                                         !.smi["percent"] = Samples(14)])
    @@ ("total_mismatch" :> [Healthy EXCEPT !.agents = <<Agent(1, "b0"), [Agent(2, "b1") EXCEPT !.total = {65534}]>>])
    @@ ("wrong_bdf" :> [Healthy EXCEPT !.agents = <<Agent(1, "b0"), Agent(2, "b7")>>])
    @@ ("no_bdf" :> [Healthy EXCEPT !.bus = (0 :> {}) @@ (1 :> {"b1"}), !.agents = <<Agent(2, "b1"), Agent(1, "b0")>>])
    \* The platform and its software.
    @@ ("no_kfd" :> [Healthy EXCEPT !.env.kfd = FALSE])
    @@ ("old_driver" :> [Healthy EXCEPT !.env.version = "6.1"])
    @@ ("no_driver" :> [Healthy EXCEPT !.env.driver = FALSE])
    @@ ("less_memory" :> [Healthy EXCEPT !.env.memory = {256}])
    @@ ("torch_broken" :> [Healthy EXCEPT !.env.host.torch = "broken"])
    @@ ("torch_count" :> [Healthy EXCEPT !.env.host.count = {1}])
    @@ ("no_rccl" :> [Healthy EXCEPT !.env.host.rccl = FALSE])
    \* The RDMA ports.
    @@ ("no_rdma" :> WithNet([Net(IbPort) EXCEPT !.devices = {}]))
    @@ ("port_down" :> WithPort([IbPort EXCEPT !.state = {"DOWN"}]))
    @@ ("state_unread" :> WithPort([IbPort EXCEPT !.state = {}]))
    @@ ("no_subnet_manager" :> WithPort([IbPort EXCEPT !.sm_lid = {0}]))
    @@ ("slower" :> WithPort([IbPort EXCEPT !.rate = {200}]))
    @@ ("mixed" :> WithNet([Net(IbPort) EXCEPT !.devices = {Device("mlx5_0", IbPort), Device("mlx5_1", RocePort)}]))
    @@ ("second_down" :> WithNet([Net(IbPort) EXCEPT !.devices =
            {Device("mlx5_0", IbPort), Device("mlx5_1", [IbPort EXCEPT !.phys_state = {"POLLING"}])}]))
    @@ ("gid_incomplete" :> WithPort([RocePort EXCEPT !.gid_status = "PARTIAL"]))
    @@ ("gid_unmapped" :> WithPort([RocePort EXCEPT !.gids = {[valid |-> TRUE, netdev |-> {}, type |-> "v2"]}]))
    @@ ("roce_link_down" :> WithNet([Net(RocePort) EXCEPT !.interfaces["eth2"].link = "DOWN"]))
    @@ ("roce_no_dcb" :> WithNet([Net(RocePort) EXCEPT !.interfaces["eth2"].dcb = {}]))
    @@ ("verbs_failed" :> WithNet([Net(IbPort) EXCEPT !.devices = {[Device("mlx5_0", IbPort) EXCEPT !.open = {1}]}]))
    @@ ("verbs_missing" :> WithNet([Net(IbPort) EXCEPT !.userspace.enumerated = {}]))
    \* Their counters.
    @@ ("growth" :> WithWindow(Window(Counters(3, 0, 7), Counters(3, 1, 7))))
    @@ ("congestion" :> WithWindow(Window(Counters(3, 0, 7), Counters(3, 0, 9))))
    @@ ("counter_reset" :> WithWindow(Window(Counters(3, 0, 7), Counters(0, 0, 7))))
    @@ ("saturated" :> WithWindow(Window(Counters(255, 0, 7), Counters(255, 0, 7))))
    @@ ("no_second_read" :> WithWindow([Quiet EXCEPT !.after = "link_downed" :> 3]))
    @@ ("bad_interval" :> WithWindow([Quiet EXCEPT !.interval = {}]))
    @@ ("roce_growth" :> WithRoceWindow(Window(Counters(3, 0, 7), Counters(4, 0, 7))))
    @@ ("roce_partial" :> WithRoceWindow([Quiet EXCEPT !.status = "PARTIAL"]))

MCIbStats ==
    ("good" :> [hcas |-> {"mlx5_0"}, ports |-> {"up"}])
    @@ ("down" :> [hcas |-> {"mlx5_0"}, ports |-> {"down"}])
    @@ ("partial" :> [hcas |-> {"mlx5_0", "mlx5_1"}, ports |-> {"up", "incomplete"}])
    @@ ("none" :> [hcas |-> {}, ports |-> {}])
    @@ ("extra" :> [hcas |-> {"mlx5_0", "mlx5_1"}, ports |-> {"up"}])

MCAverages == ("good" :> {360}) @@ ("low" :> {90}) @@ ("unread" :> {})

\* The inventory of the containers: both fit, one stopped, one missing, one
\* that did not answer, and two images.
Fit == [answer |-> "metadata", name |-> TRUE, image |-> "train:1", image_id |-> "a", running |-> TRUE]
BothFit == [n \in Nodes |-> Fit]
MCInspections ==
    {BothFit} \cup {[BothFit EXCEPT ![CHOOSE n \in Nodes : TRUE] = i] :
        i \in {[Fit EXCEPT !.running = FALSE], [Fit EXCEPT !.image_id = "b"], [Fit EXCEPT !.answer = "none"],
               [Fit EXCEPT !.name = FALSE], [Fit EXCEPT !.answer = "absent"]}}
=============================================================================
