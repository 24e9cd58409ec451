------------------------------- MODULE MCNode -------------------------------
(***************************************************************************)
(* What runs on a node beside the pods' own network: the start of the      *)
(* agent, services and floating IPs on the gateway bridge, the bridge's    *)
(* flows themselves, health checks, the annotation of the host's           *)
(* addresses, the configuration, and the manager of the OVN databases,     *)
(* each in several small worlds. A behaviour is one of these modules; the  *)
(* variables of the others are not used in it.                             *)
(***************************************************************************)
EXTENDS Integers, Sequences, FiniteSets

CONSTANTS a, b, f1, f2, l1, l2

VARIABLES side, world, budget, api, fifo, deltas, store, stream, up, mid, sockets, cache,
          flowChan, ofm, bridge, ofport, ipt, routes, fips, fipq, flags, eps, svcq, epq,
          services, endpoints, serving, busy, lost, host, queue, pc, addresses, node, changes,
          causes, count, ct, pkt, ovn, answered, left, ovs, krn, file, mode, cni, upgrade,
          version, cluster, topo, members, running, hung, listed, next, retries, check,
          conf, subnets, auth

vars == <<side, world, budget, api, fifo, deltas, store, stream, up, mid, sockets, cache,
         flowChan, ofm, bridge, ofport, ipt, routes, fips, fipq, flags, eps, svcq, epq,
         services, endpoints, serving, busy, lost, host, queue, pc, addresses, node, changes,
         causes, count, ct, pkt, ovn, answered, left, ovs, krn, file, mode, cni, upgrade,
         version, cluster, topo, members, running, hung, listed, next, retries, check,
         conf, subnets, auth>>

\* NodeServices: two services and two floating IPs.  Each world has the gateway
\* mode, the services, the floating IPs' pods, and how often objects change, commands
\* fail, the agent restarts and the patch port is renumbered.
SvcWorld(gwmode, specs, fipset, changed, fa, re, mo) ==
  [mode |-> gwmode, specs |-> specs, fips |-> fipset, changes |-> changed,
   faults |-> fa, restarts |-> re, moves |-> mo]
Spec1(np, ext, ing) == [np |-> np, ext |-> ext, ing |-> ing, head |-> FALSE]
SvcWorlds == {
  SvcWorld("shared", {Spec1(31, {"local"}, FALSE), Spec1(32, {"far"}, TRUE)}, {}, 3, 1, 1, 0),
  SvcWorld("shared", {Spec1(31, {}, FALSE), Spec1(0, {"local"}, FALSE)}, {}, 4, 0, 0, 0),
  SvcWorld("shared", {Spec1(31, {}, FALSE)}, {"none", "p"}, 3, 0, 1, 1),
  SvcWorld("local", {Spec1(31, {"local", "near"}, TRUE), Spec1(0, {"far"}, FALSE)}, {}, 3, 1, 1, 0),
  SvcWorld("local", {Spec1(0, {"far", "local"}, FALSE)}, {"none", "p"}, 4, 0, 0, 0) }

\* HealthChecks: two services with up to two endpoints on the node.
HealthWorld(changed, epChanged, fa, re) ==
  [changes |-> changed, epChanges |-> epChanged, faults |-> fa, restarts |-> re]
HealthWorlds == { HealthWorld(3, 2, 1, 0), HealthWorld(3, 2, 0, 1) }

\* BridgeFlows: the gateway mode, whether packets to a pod are checked for their
\* size, whether pods are reached directly, and the conversations.
FlowWorld(gwmode, mtu, direct, convs) ==
  [mode |-> gwmode, mtu |-> mtu, podDirect |-> direct, convs |-> convs]
FlowWorlds == {
  FlowWorld("shared", FALSE, FALSE, {"host_svc_host", "pod_svc_host", "ext_np_host"}),
  FlowWorld("shared", TRUE, FALSE, {"host_svc_pod", "ext_np_pod", "pod_ext"}),
  FlowWorld("shared", TRUE, TRUE, {"ext_pod", "ext_lb_pod", "ext_np_big"}),
  FlowWorld("shared", TRUE, TRUE, {"ext_pod", "bfd", "advert"}),
  FlowWorld("shared", FALSE, FALSE, {"ext_fip", "ext_host", "host_ext"}),
  FlowWorld("shared", FALSE, FALSE, {"ext_host", "geneve", "pod_err"}),
  FlowWorld("local", TRUE, FALSE, {"ext_host", "pod_ext", "ext_pod"}),
  FlowWorld("local", TRUE, FALSE, {"ext_pod", "bfd", "advert"}),
  FlowWorld("local", FALSE, FALSE, {"host_ext", "ext_fip", "pod_err"}) }

\* NodeStart: the modes a start may have, the configured gateway interface, whether
\* node ports are on, whether OVS keeps transient ports, the masters' topology
\* versions, what an old agent left, and crashes, reboots, losses, cleanups and
\* commands that fail unnoticed.
StartWorld(modes, intf, nodeport, transient, versions, old, cr, reb, lo, cl, fa) ==
  [modes |-> modes, intf |-> intf, nodeport |-> nodeport, transient |-> transient,
   versions |-> versions, old |-> old, crashes |-> cr, reboots |-> reb,
   losses |-> lo, cleanups |-> cl, faults |-> fa]
StartWorlds == {
  StartWorld({"shared", "local"}, "auto", TRUE, TRUE, <<4>>, FALSE, 2, 1, 0, 1, 0),
  StartWorld({"shared"}, "auto", TRUE, TRUE, <<2, 0>>, TRUE, 2, 1, 0, 0, 1),
  StartWorld({"shared", "local"}, "auto", FALSE, FALSE, <<3>>, FALSE, 1, 0, 1, 0, 1),
  StartWorld({"shared", "disabled"}, "nic", TRUE, TRUE, <<0, 4>>, FALSE, 1, 1, 1, 1, 0),
  StartWorld({"local"}, "auto", TRUE, TRUE, <<0, 0>>, TRUE, 1, 1, 0, 1, 1) }

\* DBManager: the database pods, those whose server runs, members of servers that
\* are gone, the addresses that are known, failed commands, lost pods.
DBWorld(dbpods, started, dead, knows, fa, lo) ==
  [pods |-> dbpods, started |-> started, gone |-> dead, known |-> knows,
   faults |-> fa, losses |-> lo]
DBWorlds == {
  DBWorld({1, 2, 3}, {1, 2, 3}, {}, {1, 2, 3}, 1, 1),
  DBWorld({1, 2, 3}, {1, 2, 3}, {4, 5}, {1, 2}, 0, 0),
  DBWorld({1, 2, 4}, {1, 2}, {3}, {1, 2, 3}, 1, 0),
  DBWorld({1, 2, 3, 4}, {1, 2, 3}, {5}, {1, 2}, 0, 0),
  DBWorld({1, 2, 4}, {1, 2, 4}, {5}, {1, 2}, 1, 0) }

\* Config: addresses of four bits in each family; configurations that differ in
\* the networks, the hybrid overlay, the sources of an option, the gateway flags,
\* further options, and the connection to the databases, which changes, fails and
\* is interrupted.
E4(base, mask, len) == [fam |-> "v4", base |-> base, mask |-> mask, host |-> len]
E6(base, mask, len) == [fam |-> "v6", base |-> base, mask |-> mask, host |-> len]
Malformed == [fam |-> "bad", base |-> 0, mask |-> 0, host |-> 0]
DefaultConf ==
  [cluster |-> <<E4(0, 1, 2)>>, service |-> <<E4(8, 2, 0)>>, compat |-> <<>>, mtu |-> 1400, loglevel |-> 4,
   cnilogfile |-> "", plugin |-> "ovn", token |-> "", cacert |-> "",
   apiserver |-> [scheme |-> "http", host |-> "localhost"], mode |-> "", interface |-> "", nexthop |-> "", vlan |-> 0,
   join4 |-> E4(12, 3, 0), join6 |-> E6(0, 3, 0), egressip |-> FALSE, lease |-> 60, renew |-> 30, retry |-> 20,
   targets |-> <<>>, hybrid |-> FALSE, hybridSubnets |-> <<>>, vxlan |-> 4789, nodeMode |-> "full",
   families |-> {}]
NoDB == [address |-> <<>>, privkey |-> "", cert |-> "", ca |-> "", cn |-> ""]
Plain ==
  [path |-> "default", found |-> FALSE, parses |-> TRUE, sa |-> <<>>, env |-> <<>>, file |-> <<>>, cli |-> <<>>,
   clusterSubnet |-> <<>>, serviceClusterIPRange |-> <<>>, gatewayMode |-> "", initGateways |-> FALSE,
   gatewayLocal |-> FALSE, files |-> {"sa-ca", "sb-key", "sb-cert", "own"},
   db |-> [d \in {"nb", "sb"} |-> [cli |-> NoDB, file |-> NoDB]]]
File(f) == [Plain EXCEPT !.path = "named", !.found = TRUE, !.file = f]

Networks ==
  {[Plain EXCEPT !.cli = [cluster |-> c, service |-> s]] :
     c \in {<<E4(0, 2, 3), E4(4, 2, 0)>>, <<E4(0, 1, 0), E6(8, 1, 0)>>, <<E6(8, 1, 3)>>,
            <<E4(0, 1, 2), E4(4, 2, 3)>>, <<E4(0, 0, 2)>>, <<E4(0, 3, 3)>>, <<E6(8, 1, 4)>>, <<Malformed>>},
     s \in {<<E4(8, 2, 0)>>, <<E6(4, 2, 0)>>, <<E6(4, 2, 0), E4(8, 2, 0)>>, <<E4(8, 2, 0), E4(14, 3, 0)>>,
            <<E4(4, 2, 0)>>, <<Malformed>>}}
Hybrids ==
  {[Plain EXCEPT !.cli = [hybrid |-> TRUE, hybridSubnets |-> h, vxlan |-> v], !.file = [nodeMode |-> n],
                 !.found = TRUE] :
     h \in {<<>>, <<E4(14, 3, 4)>>, <<E4(12, 2, 3)>>, <<E6(4, 2, 0)>>}, v \in {4789, 65536},
     n \in {"full", "smart-nic", "other"}}
Opt(o, vs) == {<<>>} \cup {[x \in {o} |-> v] : v \in vs}
Http(h) == [scheme |-> "http", host |-> h]
Servers ==
  {[Plain EXCEPT !.env = e, !.file = f, !.found = TRUE, !.cli = c] :
     e \in Opt("apiserver", {Http("localhost"), Http("a")}),
     f \in Opt("apiserver", {Http("localhost"), Http("b")}),
     c \in Opt("apiserver", {Http("localhost"), Http("c"), [scheme |-> "ftp", host |-> "c"]})}
Tokens ==
  {[Plain EXCEPT !.sa = s, !.env = e, !.file = f, !.found = TRUE, !.cli = c] :
     s \in Opt("token", {"s"}), e \in Opt("token", {"e"}), f \in Opt("token", {"f"}), c \in Opt("token", {"c"})}
  \cup {[Plain EXCEPT !.sa = [cacert |-> "sa-ca"], !.env = e] : e \in Opt("cacert", {"own", "missing"})}
Gateways ==
  {[File(f) EXCEPT !.gatewayMode = g, !.initGateways = i, !.gatewayLocal = l, !.cli = v] :
     f \in {<<>>, [mode |-> "local"], [mode |-> "local", interface |-> "eth0"], [interface |-> "eth0"],
           [nexthop |-> "gw"], [mode |-> "odd"]},
     g \in {"", "shared"}, i \in BOOLEAN, l \in BOOLEAN, v \in Opt("vlan", {7})}
Others ==
  {[File(f) EXCEPT !.cli = c] :
     f \in {[lease |-> 30], [lease |-> 31], [renew |-> 20], [retry |-> 29, mtu |-> 9000],
            [targets |-> <<"bad">>], [targets |-> <<"t">>], [compat |-> <<E4(14, 3, 0)>>], [cnilogfile |-> "mine"]},
     c \in {<<>>, [lease |-> 60], [renew |-> 21, mtu |-> 1400], [service |-> <<E4(10, 3, 0)>>, loglevel |-> 5]}}
  \cup {[Plain EXCEPT !.path = "named"], [Plain EXCEPT !.found = TRUE, !.parses = FALSE],
        [Plain EXCEPT !.clusterSubnet = <<E4(0, 2, 0)>>, !.serviceClusterIPRange = <<E4(4, 2, 0)>>]}

DB(s, h) == [NoDB EXCEPT !.address = <<<<s, h>>>>]
SouthCLI(db) == [Plain EXCEPT !.db["sb"].cli = db]
SSL(h) == [DB("ssl", h) EXCEPT !.cn = "ovn"]
Auths ==
  {Plain, SouthCLI(SSL("m1")), SouthCLI(DB("tcp", "m2")),
   [SouthCLI([SSL("m1") EXCEPT !.privkey = "own", !.ca = "my-ca"]) EXCEPT !.db["sb"].file = SSL("m3")]}
BadAuths ==
  {SouthCLI(DB("ssl", "m1")), SouthCLI([DB("tcp", "m1") EXCEPT !.cert = "own"]),
   SouthCLI([NoDB EXCEPT !.cert = "own"]), SouthCLI([SSL("m1") EXCEPT !.cert = "missing"]),
   SouthCLI([NoDB EXCEPT !.address = <<<<"ssl", "m1">>, <<"tcp", "m2">>>>]),
   [Plain EXCEPT !.db["nb"].cli = SSL("m1")],
   [SouthCLI(SSL("m1")) EXCEPT !.cli = [nodeMode |-> "smart-nic-host"]]}

ConfigWorld(now, then, fa, cr) == [asked |-> now, later |-> then, faults |-> fa, crashes |-> cr]
ConfigWorlds ==
  {ConfigWorld(q, <<>>, 0, 0) :
     q \in Networks \cup Hybrids \cup Servers \cup Tokens \cup Gateways \cup Others \cup BadAuths}
  \cup {ConfigWorld(q, <<r>>, 1, 1) : q \in Auths, r \in Auths \cup BadAuths}

Svc == INSTANCE NodeServices WITH
  Services <- {a, b}, FIPs <- {f1, f2}, Worlds <- SvcWorlds

Hlt == INSTANCE HealthChecks WITH
  Services <- {a, b}, Counts <- {0, 1, 2}, Worlds <- HealthWorlds

Adr == INSTANCE NodeAddresses WITH
  Links <- {l1, l2}, Addresses <- {"a", "b", "m"}, Unfit <- {"m"}, MaxChanges <- 3,
  MaxFailures <- 1, MaxCrashes <- 1

Brg == INSTANCE BridgeFlows WITH
  Worlds <- FlowWorlds

Stt == INSTANCE NodeStart WITH
  Worlds <- StartWorlds

Dbm == INSTANCE DBManager WITH
  Addresses <- 1 .. 5, MaxSid <- 7, MaxClusterStatusRetry <- 1, Worlds <- DBWorlds

Cfg == INSTANCE Config WITH
  Saved <- DefaultConf, Width <- [v4 |-> 4, v6 |-> 4], HostLen <- [v4 |-> 3, v6 |-> 3],
  Worlds <- ConfigWorlds

NotSvc == <<eps, svcq, epq, services, endpoints, serving, busy, lost, host, queue, pc,
            addresses, node, changes, causes, count, ct, pkt, ovn, answered, left, ovs, krn,
            file, mode, cni, upgrade, version, cluster, topo, members, running, hung,
            listed, next, retries, check, conf, subnets, auth>>
NotHlt == <<fifo, deltas, store, stream, mid, sockets, cache, flowChan, ofm, bridge, ofport,
            ipt, routes, fips, fipq, flags, host, queue, pc, addresses, node, changes, causes,
            count, ct, pkt, ovn, answered, left, ovs, krn, file, mode, cni, upgrade, version,
            cluster, topo, members, running, hung, listed, next, retries, check, conf, subnets, auth>>
NotAdr == <<world, budget, fifo, deltas, store, stream, up, mid, sockets, cache, flowChan, ofm,
            bridge, ofport, ipt, routes, fips, fipq, flags, eps, svcq, epq, services, endpoints,
            serving, busy, lost, ct, pkt, ovn, answered, left, ovs, krn, file, mode, cni,
            upgrade, version, cluster, topo, members, running, hung, listed, next,
            retries, check, conf, subnets, auth>>
NotBrg == <<budget, api, fifo, deltas, store, stream, up, mid, sockets, cache, flowChan, ofm,
            bridge, ofport, ipt, routes, fips, fipq, flags, eps, svcq, epq, services, endpoints,
            serving, busy, lost, host, queue, pc, addresses, node, changes, causes, count, left,
            ovs, krn, file, mode, cni, upgrade, version, cluster, topo, members,
            running, hung, listed, next, retries, check, conf, subnets, auth>>
NotStt == <<budget, api, fifo, deltas, store, stream, up, mid, sockets, cache, flowChan, ofm,
            bridge, ofport, ipt, routes, fips, fipq, flags, eps, svcq, epq, services, endpoints,
            serving, busy, lost, host, queue, addresses, node, changes, count, ct, pkt,
            ovn, answered, members, running, hung, listed, next, retries, check, conf, subnets, auth>>
NotDbm == <<budget, api, fifo, deltas, store, stream, up, mid, sockets, cache, flowChan, ofm,
            bridge, ofport, ipt, routes, fips, fipq, flags, eps, svcq, epq, services, endpoints,
            serving, busy, lost, host, queue, pc, addresses, node, changes, count, ct, pkt, ovn,
            answered, ovs, krn, mode, cni, upgrade, version, cluster, topo, conf, subnets, auth>>
NotCfg == <<budget, api, fifo, deltas, store, stream, up, mid, sockets, cache, flowChan, ofm,
            bridge, ofport, ipt, routes, fips, fipq, flags, eps, svcq, epq, services, endpoints,
            serving, busy, lost, host, queue, addresses, node, changes, causes, count, ct, pkt,
            ovn, answered, left, krn, file, mode, cni, upgrade, version, cluster, topo,
            members, running, hung, listed, next, retries, check>>

\* what a behaviour of one side does not use
Unused == 0

Init ==
  \/ /\ side = "services" /\ Svc!Init
     /\ conf = Unused /\ subnets = Unused /\ auth = Unused
     /\ eps = Unused /\ svcq = Unused /\ epq = Unused /\ services = Unused
     /\ endpoints = Unused /\ serving = Unused /\ busy = Unused /\ lost = Unused
     /\ host = Unused /\ queue = Unused /\ pc = Unused /\ addresses = Unused /\ node = Unused
     /\ changes = Unused /\ causes = Unused /\ count = Unused /\ ct = Unused /\ pkt = Unused
     /\ ovn = Unused /\ answered = Unused /\ left = Unused /\ ovs = Unused /\ krn = Unused
     /\ file = Unused /\ mode = Unused /\ cni = Unused /\ upgrade = Unused /\ version = Unused
     /\ cluster = Unused /\ topo = Unused  /\ members = Unused
     /\ running = Unused /\ hung = Unused /\ listed = Unused /\ next = Unused
     /\ retries = Unused /\ check = Unused
  \/ /\ side = "health" /\ Hlt!Init
     /\ conf = Unused /\ subnets = Unused /\ auth = Unused
     /\ fifo = Unused /\ deltas = Unused /\ store = Unused /\ stream = Unused /\ mid = Unused
     /\ sockets = Unused /\ cache = Unused /\ flowChan = Unused /\ ofm = Unused
     /\ bridge = Unused /\ ofport = Unused /\ ipt = Unused /\ routes = Unused /\ fips = Unused
     /\ fipq = Unused /\ flags = Unused /\ host = Unused /\ queue = Unused /\ pc = Unused
     /\ addresses = Unused /\ node = Unused /\ changes = Unused /\ causes = Unused
     /\ count = Unused /\ ct = Unused /\ pkt = Unused /\ ovn = Unused /\ answered = Unused
     /\ left = Unused /\ ovs = Unused /\ krn = Unused /\ file = Unused /\ mode = Unused
     /\ cni = Unused /\ upgrade = Unused /\ version = Unused /\ cluster = Unused
     /\ topo = Unused  /\ members = Unused /\ running = Unused
     /\ hung = Unused /\ listed = Unused /\ next = Unused /\ retries = Unused
     /\ check = Unused
  \/ /\ side = "addresses" /\ Adr!Init
     /\ conf = Unused /\ subnets = Unused /\ auth = Unused
     /\ world = Unused /\ budget = Unused /\ fifo = Unused /\ deltas = Unused
     /\ store = Unused /\ stream = Unused /\ up = Unused /\ mid = Unused /\ sockets = Unused
     /\ cache = Unused /\ flowChan = Unused /\ ofm = Unused /\ bridge = Unused
     /\ ofport = Unused /\ ipt = Unused /\ routes = Unused /\ fips = Unused /\ fipq = Unused
     /\ flags = Unused /\ eps = Unused /\ svcq = Unused /\ epq = Unused /\ services = Unused
     /\ endpoints = Unused /\ serving = Unused /\ busy = Unused /\ lost = Unused
     /\ ct = Unused /\ pkt = Unused /\ ovn = Unused /\ answered = Unused /\ left = Unused
     /\ ovs = Unused /\ krn = Unused /\ file = Unused /\ mode = Unused /\ cni = Unused
     /\ upgrade = Unused /\ version = Unused /\ cluster = Unused /\ topo = Unused
      /\ members = Unused /\ running = Unused /\ hung = Unused
     /\ listed = Unused /\ next = Unused /\ retries = Unused /\ check = Unused
  \/ /\ side = "bridge" /\ Brg!Init
     /\ conf = Unused /\ subnets = Unused /\ auth = Unused
     /\ budget = Unused /\ api = Unused /\ fifo = Unused /\ deltas = Unused /\ store = Unused
     /\ stream = Unused /\ up = Unused /\ mid = Unused /\ sockets = Unused /\ cache = Unused
     /\ flowChan = Unused /\ ofm = Unused /\ bridge = Unused /\ ofport = Unused
     /\ ipt = Unused /\ routes = Unused /\ fips = Unused /\ fipq = Unused /\ flags = Unused
     /\ eps = Unused /\ svcq = Unused /\ epq = Unused /\ services = Unused
     /\ endpoints = Unused /\ serving = Unused /\ busy = Unused /\ lost = Unused
     /\ host = Unused /\ queue = Unused /\ pc = Unused /\ addresses = Unused /\ node = Unused
     /\ changes = Unused /\ causes = Unused /\ count = Unused /\ left = Unused /\ ovs = Unused
     /\ krn = Unused /\ file = Unused /\ mode = Unused /\ cni = Unused /\ upgrade = Unused
     /\ version = Unused /\ cluster = Unused /\ topo = Unused 
     /\ members = Unused /\ running = Unused /\ hung = Unused /\ listed = Unused
     /\ next = Unused /\ retries = Unused /\ check = Unused
  \/ /\ side = "start" /\ Stt!Init
     /\ conf = Unused /\ subnets = Unused /\ auth = Unused
     /\ budget = Unused /\ api = Unused /\ fifo = Unused /\ deltas = Unused /\ store = Unused
     /\ stream = Unused /\ up = Unused /\ mid = Unused /\ sockets = Unused /\ cache = Unused
     /\ flowChan = Unused /\ ofm = Unused /\ bridge = Unused /\ ofport = Unused
     /\ ipt = Unused /\ routes = Unused /\ fips = Unused /\ fipq = Unused /\ flags = Unused
     /\ eps = Unused /\ svcq = Unused /\ epq = Unused /\ services = Unused
     /\ endpoints = Unused /\ serving = Unused /\ busy = Unused /\ lost = Unused
     /\ host = Unused /\ queue = Unused /\ addresses = Unused /\ node = Unused
     /\ changes = Unused /\ count = Unused /\ ct = Unused /\ pkt = Unused
     /\ ovn = Unused /\ answered = Unused /\ members = Unused /\ running = Unused
     /\ hung = Unused /\ listed = Unused /\ next = Unused /\ retries = Unused
     /\ check = Unused
  \/ /\ side = "database" /\ Dbm!Init
     /\ conf = Unused /\ subnets = Unused /\ auth = Unused
     /\ budget = Unused /\ api = Unused /\ fifo = Unused /\ deltas = Unused /\ store = Unused
     /\ stream = Unused /\ up = Unused /\ mid = Unused /\ sockets = Unused /\ cache = Unused
     /\ flowChan = Unused /\ ofm = Unused /\ bridge = Unused /\ ofport = Unused
     /\ ipt = Unused /\ routes = Unused /\ fips = Unused /\ fipq = Unused /\ flags = Unused
     /\ eps = Unused /\ svcq = Unused /\ epq = Unused /\ services = Unused
     /\ endpoints = Unused /\ serving = Unused /\ busy = Unused /\ lost = Unused
     /\ host = Unused /\ queue = Unused /\ pc = Unused /\ addresses = Unused /\ node = Unused
     /\ changes = Unused /\ count = Unused /\ ct = Unused /\ pkt = Unused /\ ovn = Unused
     /\ answered = Unused /\ ovs = Unused /\ krn = Unused /\ mode = Unused /\ cni = Unused
     /\ upgrade = Unused /\ version = Unused /\ cluster = Unused /\ topo = Unused
  \/ /\ side = "config" /\ Cfg!Init
     /\ budget = Unused /\ api = Unused /\ fifo = Unused /\ deltas = Unused
     /\ store = Unused /\ stream = Unused /\ up = Unused /\ mid = Unused
     /\ sockets = Unused /\ cache = Unused /\ flowChan = Unused /\ ofm = Unused
     /\ bridge = Unused /\ ofport = Unused /\ ipt = Unused /\ routes = Unused
     /\ fips = Unused /\ fipq = Unused /\ flags = Unused /\ eps = Unused /\ svcq = Unused
     /\ epq = Unused /\ services = Unused /\ endpoints = Unused /\ serving = Unused
     /\ busy = Unused /\ lost = Unused /\ host = Unused /\ queue = Unused
     /\ addresses = Unused /\ node = Unused /\ changes = Unused /\ causes = Unused
     /\ count = Unused /\ ct = Unused /\ pkt = Unused /\ ovn = Unused /\ answered = Unused
     /\ left = Unused /\ krn = Unused /\ file = Unused /\ mode = Unused /\ cni = Unused
     /\ upgrade = Unused /\ version = Unused /\ cluster = Unused /\ topo = Unused
      /\ members = Unused /\ running = Unused /\ hung = Unused
     /\ listed = Unused /\ next = Unused /\ retries = Unused /\ check = Unused

Next ==
  \/ side = "services" /\ Svc!Next /\ UNCHANGED <<side, NotSvc>>
  \/ side = "health" /\ Hlt!Next /\ UNCHANGED <<side, NotHlt>>
  \/ side = "addresses" /\ Adr!Next /\ UNCHANGED <<side, NotAdr>>
  \/ side = "bridge" /\ Brg!Next /\ UNCHANGED <<side, NotBrg>>
  \/ side = "start" /\ Stt!Next /\ UNCHANGED <<side, NotStt>>
  \/ side = "database" /\ Dbm!Next /\ UNCHANGED <<side, NotDbm>>
  \/ side = "config" /\ Cfg!Next /\ UNCHANGED <<side, NotCfg>>

\* Fairness of each module in its own behaviours, as the modules state it.
IsSvc == side = "services"
IsStt == side = "start"
SvcVars == Svc!vars
SttVars == Stt!vars
BrgVars == Brg!vars
DbmVars == Dbm!vars
CfgVars == Cfg!vars
Spec ==
  /\ Init /\ [][Next]_vars
  /\ WF_SvcVars(IsSvc /\ Svc!Pop) /\ WF_SvcVars(IsSvc /\ Svc!Handle)
  /\ WF_SvcVars(IsSvc /\ Svc!InitGateway) /\ WF_SvcVars(IsSvc /\ Svc!RegisterHandlers)
  /\ \A i \in {f1, f2} : WF_SvcVars(IsSvc /\ Svc!HandleFloatingIP(i))
  /\ WF_SvcVars(IsSvc /\ Svc!Periodic /\ UNCHANGED world)
  /\ WF_SttVars(IsStt /\ Stt!StartStep) /\ WF_SttVars(IsStt /\ Stt!UpgradeStep)
  /\ WF_SttVars(IsStt /\ Stt!CheckManagementPortHealth)
  /\ WF_SttVars(IsStt /\ Stt!MasterAllocatesSubnet)
  /\ WF_BrgVars(side = "bridge" /\ Brg!Next)
  /\ \A i \in 1 .. 5 : /\ WF_DbmVars(side = "database" /\ i \in world.pods /\ Dbm!Checker(i))
                       /\ WF_DbmVars(side = "database" /\ Dbm!Server(i))
  /\ WF_CfgVars(side = "config" /\ Cfg!Process) /\ WF_CfgVars(side = "config" /\ Cfg!Restart)

-----------------------------------------------------------------------------
\* When no event is left, the host's sockets, rules and routes are those of the
\* services (NodeServices!HostMatchesServices).
HostMatchesServices == IsSvc => Svc!HostMatchesServices

\* A wanted flow with no change on its way never leaves the bridge, and the bridge
\* ends with exactly the wanted flows (NodeServices!FlowsKept, FlowsCatchUp).
BridgeKeepsFlows ==
  /\ [][IsSvc => Svc!KeepsSettled]_vars
  /\ <>[](IsSvc => Svc!FlowsAsWanted)

\* What the node tells others is true once every change is handled: a health check
\* answers with the number of endpoints, and the annotation has the host's addresses
\* (HealthChecks!HealthTruthful, NodeAddresses!AddressesAnnotated).
ReportsTruthful ==
  /\ side = "health" => Hlt!HealthTruthful
  /\ side = "addresses" => Adr!AddressesAnnotated

\* Every packet ends where it belongs and every reply is back at its client
\* (BridgeFlows!RepliesReturn).
RepliesReturn == <>[](side = "bridge" => Brg!AllReturned)

\* The agent comes up again after every crash and reboot, and one that is up has
\* the host of its gateway mode, whatever earlier starts left
\* (NodeStart!StartCompletes, HostMatchesMode).
StartCompletes ==
  /\ [](IsStt => Stt!HostMatchesMode)
  /\ []<>(IsStt => Stt!Started)


\* A configuration that is accepted is the one asked for and has no address twice
\* and the same families everywhere; an agent that is up has given ovn-controller
\* its database, whatever failed before; and a start ends (Config!ConfigTakesHold).
ConfigTakesHold ==
  /\ [](side = "config" => Cfg!AcceptedIsCoherent /\ Cfg!UpIsConnected)
  /\ []<>(side = "config" => Cfg!Decided)
=============================================================================
