----------------------------- MODULE MCServices -----------------------------
(***************************************************************************)
(* What the master keeps for services, gateways and the hybrid overlay:    *)
(* load balancers, unidling, gateway routers, and the subnets and ports of *)
(* the hybrid overlay, each in several small worlds. A behaviour is one of *)
(* Services, of Unidling, of GatewayRouters or of HybridMaster; the        *)
(* variables of the others are not used in it.                             *)
(***************************************************************************)
EXTENDS Integers, Sequences, FiniteSets

CONSTANTS s1, s2, n1, n2, n3, e1, e2, c1, c2, x1, masquerade, v1, v2, nodeVIP, hs1, hs2, h1, h2,
          none

VARIABLES side, services, slices, notified, queue, delayed, requeues, sync, tracker, lbs,
          gateways, skipped, fullSync, repair, conf, budget, disturbed, informer, serviceVIPToName,
          events, batch, handling, waiting, api, known, starting, proc, failed, lrpIPCache, nats,
          switches, gr, routes, policies, natRules, world, pending, up, eh, allocated, job, sw,
          policy, binding, loose, leaked, undone

vars == <<side, services, slices, notified, queue, delayed, requeues, sync, tracker, lbs,
         gateways, skipped, fullSync, repair, conf, budget, disturbed, informer, serviceVIPToName,
         events, batch, handling, waiting, api, known, starting, proc, failed, lrpIPCache, nats, switches,
         gr, routes, policies, natRules, world, pending, up, eh, allocated, job, sw, policy,
         binding, loose, leaked, undone>>

\* Services: two services and two nodes.  Each world has the services, the first
\* one's endpoints, the gateways, the configuration, and the changes: services,
\* endpoints, gateways, failed commands, restarts.
SvcPort(ip, n, np, ext) == [ip |-> ip, port |-> n, nodePort |-> np, ext |-> ext]
Service(svcPorts, idled) == [ports |-> svcPorts, idled |-> idled, clusterIP |-> TRUE, deleting |-> FALSE]
NoService == [ports |-> {}, idled |-> FALSE, clusterIP |-> FALSE, deleting |-> FALSE]
Plain    == Service({SvcPort(c1, 80, 0, {})}, FALSE)
Sleepy   == Service({SvcPort(c1, 80, 31, {})}, TRUE)
TwoPorts == Service({SvcPort(c1, 80, 0, {}), SvcPort(c1, 443, 31, {})}, FALSE)
Exposed  == Service({SvcPort(c1, 80, 31, {x1})}, FALSE)
Other    == Service({SvcPort(c2, 80, 32, {})}, FALSE)
Leaving  == [Exposed EXCEPT !.deleting = TRUE]
OnPods   == {<<e1, TRUE>>, <<e2, FALSE>>}
OnHosts  == {<<n1, TRUE>>}

SvcWorld(a, b, ea, gws, idling, shared, sv, ep, gw, fa, re) ==
  [services |-> [s \in {s1, s2} |-> IF s = s1 THEN a ELSE b],
   slices |-> [s \in {s1, s2} |-> IF s = s1 THEN ea ELSE {}],
   gateways |-> gws, conf |-> [idling |-> idling, shared |-> shared],
   budget |-> [svc |-> sv, eps |-> ep, gw |-> gw, fault |-> fa, restart |-> re]]
SvcWorlds == {
  SvcWorld(Exposed, NoService, OnPods, {n1}, TRUE, TRUE, 1, 1, 0, 1, 0),      \* changes and a failure
  SvcWorld(Sleepy, NoService, OnPods, {n1}, TRUE, TRUE, 1, 2, 0, 0, 0),       \* idling and back
  SvcWorld(TwoPorts, NoService, OnHosts, {n1}, FALSE, TRUE, 0, 0, 2, 0, 0),   \* gateways come and go
  SvcWorld(Plain, Other, OnPods, {n1, n2}, TRUE, FALSE, 1, 0, 1, 0, 0),       \* two services, local mode
  SvcWorld(Exposed, NoService, OnHosts, {n1, n2}, TRUE, TRUE, 1, 0, 0, 1, 0), \* a node is passed over
  SvcWorld(Exposed, NoService, OnHosts, {n1}, TRUE, TRUE, 1, 0, 0, 0, 1),     \* a restart
  SvcWorld(Sleepy, NoService, {}, {n1}, TRUE, TRUE, 0, 1, 0, 1, 1),           \* a restart of an idled service
  SvcWorld(Plain, NoService, OnPods, {n1}, FALSE, TRUE, 1, 0, 0, 0, 1),       \* a restart without idling
  SvcWorld(Plain, NoService, OnPods, {n1}, TRUE, TRUE, 1, 0, 0, 3, 0) }       \* retries given up

\* Unidling: a service with two virtual IPs, which may pass to another.
IdleWorlds == {
  [services |-> [s \in {"a", "b"} |-> IF s = "a" THEN {v1, v2} ELSE {}],
   budget |-> [svc |-> 2, packet |-> 2, fault |-> 1, restart |-> 1]] }

\* GatewayRouters: up to three nodes, the name of the last ending in the first's.
\* Each world has two nodes, the gateway mode and those a restart may choose,
\* whether the database is that of the former topology, and the changes: the
\* nodes that may, how often, failed commands, restarts.
Node(m, addr, hosts, mac, np) ==
  [mode |-> m, addr |-> addr, hosts |-> hosts, mac |-> mac, np |-> np, subnet |-> FALSE, nat |-> 0]
NoNode   == Node("none", 0, {}, FALSE, FALSE)
Bare     == Node("unset", 0, {}, FALSE, FALSE)
Gateway  == Node("on", 1, {1}, TRUE, TRUE)
Moved    == Node("on", 2, {1, 2}, TRUE, TRUE)
NoPorts  == Node("on", 1, {1}, TRUE, FALSE)
Disabled == Node("disabled", 0, {}, TRUE, FALSE)

Router(on, p, j, lb) ==
  [on |-> on, phys |-> p, join |-> j, ext |-> p, snat |-> 0, lbs |-> lb, worker |-> lb,
   uses |-> {}, switch |-> IF lb THEN {"gateway"} ELSE {}]
Empty == [switches |-> {}, gr |-> [n \in {n1, n2, n3} |-> Router(FALSE, 0, 0, FALSE)],
          routes |-> {}, policies |-> {}, natRules |-> {}]
Former == [switches |-> {n1, n2},
           gr |-> [n \in {n1, n2, n3} |-> IF n = n3 THEN Router(FALSE, 0, 0, FALSE)
                     ELSE Router(TRUE, 1, IF n = n1 THEN 8 ELSE 9, TRUE)],
           routes |-> {<<<<"join", i>>, i>> : i \in {8, 9}} \cup {<<<<"src", n1>>, 8>>, <<<<"src", n2>>, 9>>},
           policies |-> {<<k, n, IF k = "inter" THEN 0 ELSE 1>> : k \in {"subnet", "mgmt", "inter"}, n \in {n1, n2}},
           natRules |-> {<<1, n1>>, <<2, n2>>}]

Sh == {"shared"}
Lo == {"local"}
GwWorld(m, oa, ob, mode, modes, old, names, no, fa, re) ==
  [api |-> [n \in {n1, n2, n3} |-> IF n = n1 THEN oa ELSE IF n = m THEN ob ELSE NoNode],
   before |-> IF old THEN Former ELSE Empty,
   conf |-> [up |-> FALSE, mode |-> mode, modes |-> modes, old |-> old, noSNAT |-> FALSE,
             noSNATs |-> IF modes = Sh \cup Lo THEN BOOLEAN ELSE {FALSE}],
   budget |-> [node |-> no, names |-> names, fault |-> fa, restart |-> re]]
GwWorlds == {
  GwWorld(n2, Bare, NoNode, "shared", Sh, FALSE, {n1}, 2, 0, 0),       \* annotations, a node comes and goes
  GwWorld(n2, Gateway, NoNode, "shared", Sh, FALSE, {n1}, 1, 1, 0),    \* a failure
  GwWorld(n2, Gateway, Gateway, "shared", Sh, FALSE, {n1}, 1, 0, 1),   \* two nodes and a restart
  GwWorld(n3, Gateway, Gateway, "shared", Sh, FALSE, {}, 0, 0, 0),     \* the names
  GwWorld(n2, Gateway, NoNode, "local", Lo, FALSE, {n1}, 1, 1, 0), \* local mode
  GwWorld(n2, Gateway, Gateway, "local", Lo, FALSE, {}, 0, 0, 0),
  GwWorld(n2, Gateway, NoNode, "local", Sh \cup Lo, FALSE, {}, 0, 0, 1),  \* the mode changes at a restart
  GwWorld(n2, [Gateway EXCEPT !.subnet = TRUE, !.nat = 1], NoNode, "local", Sh \cup Lo, TRUE, {}, 0, 0, 1) }

\* HybridMaster: two nodes and two subnets.  Changes: nodes that come and go,
\* labels, heartbeats, failures, restarts.
HybWorld(kinds, comes, goes, labels, updates, faults, restarts) ==
  [kinds |-> kinds, comes |-> comes, goes |-> goes, labels |-> labels,
   updates |-> updates, faults |-> faults, restarts |-> restarts]
HybWorlds == {
  HybWorld({TRUE}, 3, 2, 0, 0, 0, 0), HybWorld({TRUE}, 3, 1, 0, 1, 0, 0),
  HybWorld({TRUE}, 2, 1, 0, 0, 2, 0), HybWorld({TRUE}, 2, 1, 0, 0, 1, 1),
  HybWorld({FALSE}, 1, 1, 0, 1, 1, 0), HybWorld({FALSE}, 2, 0, 0, 0, 0, 0),
  HybWorld({FALSE}, 1, 1, 0, 0, 1, 1), HybWorld(BOOLEAN, 1, 1, 1, 0, 0, 0) }

Svc == INSTANCE Services WITH
  Services <- {s1, s2}, Nodes <- {n1, n2}, PodIPs <- {e1, e2}, Masquerade <- masquerade,
  Specs <- {Plain, Sleepy, TwoPorts, Exposed, Other, Leaving}, Slices <- {{}, OnPods, OnHosts},
  MaxRetries <- 2, Worlds <- SvcWorlds

Idle == INSTANCE Unidling WITH
  Services <- {"a", "b"}, VIPs <- {v1, v2}, NodeVIPs <- {nodeVIP}, Worlds <- IdleWorlds

Gw == INSTANCE GatewayRouters WITH
  Nodes <- {n1, n2, n3}, Suffix <- {<<n1, n3>>}, JoinIPs <- {2, 3}, NatIPs <- {1, 2, 3},
  Objects <- {Bare, Gateway, Moved, NoPorts, Disabled}, Worlds <- GwWorlds

Hyb == INSTANCE HybridMaster WITH
  Keys <- {n1, n2}, None <- none, MaxRetries <- 1, Subnets <- {hs1, hs2}, HostSubnets <- {h1, h2},
  Worlds <- HybWorlds

NotSvc == <<informer, serviceVIPToName, events, batch, handling, waiting, api, known, starting, proc,
            failed, lrpIPCache, nats, switches, gr, routes, policies, natRules, world, pending,
            up, eh, allocated, job, sw, policy, binding, loose, leaked, undone>>
NotIdle == <<slices, notified, queue, delayed, requeues, sync, tracker, lbs, gateways, skipped,
             fullSync, repair, conf, api, known, starting, proc, failed, lrpIPCache, nats, switches, gr,
             routes, policies, natRules, world, pending, up, eh, allocated, job, sw, policy,
             binding, loose, leaked, undone>>
NotGw == <<services, slices, notified, queue, delayed, requeues, sync, tracker, lbs, gateways,
           skipped, fullSync, repair, informer, serviceVIPToName, batch, handling, waiting, world, pending, up, eh,
           allocated, job, sw, policy, binding, loose, leaked, undone>>
NotHyb == <<services, slices, notified, queue, delayed, requeues, sync, tracker, lbs, gateways,
            skipped, fullSync, repair, conf, disturbed, informer, serviceVIPToName, events, batch,
            handling, waiting, known, starting, proc, failed, lrpIPCache, nats, switches, gr, routes,
            policies, natRules>>

\* what a behaviour of one side does not use
Unused == 0

Init ==
  \/ /\ side = "services" /\ Svc!Init
     /\ informer = Unused /\ serviceVIPToName = Unused /\ events = Unused /\ batch = Unused
     /\ handling = Unused /\ waiting = Unused /\ api = Unused /\ known = Unused /\ starting = Unused
     /\ proc = Unused /\ failed = Unused /\ lrpIPCache = Unused /\ nats = Unused
     /\ switches = Unused /\ gr = Unused /\ routes = Unused /\ policies = Unused
     /\ natRules = Unused /\ world = Unused /\ pending = Unused /\ up = Unused /\ eh = Unused
     /\ allocated = Unused /\ job = Unused /\ sw = Unused /\ policy = Unused
     /\ binding = Unused /\ loose = Unused /\ leaked = Unused /\ undone = Unused
  \/ /\ side = "unidling" /\ Idle!Init
     /\ slices = Unused /\ notified = Unused /\ queue = Unused /\ delayed = Unused
     /\ requeues = Unused /\ sync = Unused /\ tracker = Unused /\ lbs = Unused
     /\ gateways = Unused /\ skipped = Unused /\ fullSync = Unused /\ repair = Unused /\ conf = Unused
     /\ api = Unused /\ known = Unused /\ starting = Unused /\ proc = Unused
     /\ failed = Unused /\ lrpIPCache = Unused /\ nats = Unused /\ switches = Unused
     /\ gr = Unused /\ routes = Unused /\ policies = Unused /\ natRules = Unused
     /\ world = Unused /\ pending = Unused /\ up = Unused /\ eh = Unused /\ allocated = Unused
     /\ job = Unused /\ sw = Unused /\ policy = Unused /\ binding = Unused /\ loose = Unused
     /\ leaked = Unused /\ undone = Unused
  \/ /\ side = "gateways" /\ Gw!Init
     /\ services = Unused /\ slices = Unused /\ notified = Unused /\ queue = Unused
     /\ delayed = Unused /\ requeues = Unused /\ sync = Unused /\ tracker = Unused
     /\ lbs = Unused /\ gateways = Unused /\ skipped = Unused /\ fullSync = Unused /\ repair = Unused
     /\ informer = Unused /\ serviceVIPToName = Unused /\ batch = Unused /\ handling = Unused /\ waiting = Unused
     /\ world = Unused /\ pending = Unused /\ up = Unused /\ eh = Unused /\ allocated = Unused
     /\ job = Unused /\ sw = Unused /\ policy = Unused /\ binding = Unused /\ loose = Unused
     /\ leaked = Unused /\ undone = Unused
  \/ /\ side = "hybrid" /\ Hyb!Init
     /\ services = Unused /\ slices = Unused /\ notified = Unused /\ queue = Unused
     /\ delayed = Unused /\ requeues = Unused /\ sync = Unused /\ tracker = Unused
     /\ lbs = Unused /\ gateways = Unused /\ skipped = Unused /\ fullSync = Unused /\ repair = Unused
     /\ conf = Unused /\ disturbed = Unused /\ informer = Unused /\ serviceVIPToName = Unused
     /\ events = Unused /\ batch = Unused /\ handling = Unused /\ waiting = Unused /\ known = Unused
     /\ starting = Unused /\ proc = Unused /\ failed = Unused /\ lrpIPCache = Unused
     /\ nats = Unused /\ switches = Unused /\ gr = Unused /\ routes = Unused
     /\ policies = Unused /\ natRules = Unused

Next ==
  \/ side = "services" /\ Svc!Next /\ UNCHANGED <<side, NotSvc>>
  \/ side = "unidling" /\ Idle!Next /\ UNCHANGED <<side, NotIdle>>
  \/ side = "gateways" /\ Gw!Next /\ UNCHANGED <<side, NotGw>>
  \/ side = "hybrid" /\ Hyb!Next /\ UNCHANGED <<side, NotHyb>>

OnIdle == side = "unidling" /\ UNCHANGED <<side, NotIdle>>
\* Fairness of Unidling for its own behaviours.
Spec == /\ Init /\ [][Next]_vars
        /\ WF_vars(OnIdle /\ Idle!Handle) /\ WF_vars(OnIdle /\ Idle!Run)

-----------------------------------------------------------------------------
\* Once every sync is over, each virtual IP is on the load balancers it belongs
\* on and nowhere else, and the map that unidling looks packets up in names the
\* owner of each (Services!VIPsMatchServices, Unidling!NamesOwner).
VIPsMatchServices ==
  /\ side = "services" => Svc!VIPsMatchServices
  /\ side = "unidling" => Idle!NamesOwner

\* An idled service has no virtual IP on the balancers that reject its traffic
\* (Services!MovedToIdling).
MovedToIdling == side = "services" => Svc!MovedToIdling

\* A packet for an idled service wakes it up (Unidling!PacketWakesService).
PacketWakesService == []<>(side = "unidling" => Idle!AllAwake)

\* The gateway routers, routes, policies and NAT rules are those of the nodes
\* (GatewayRouters!GatewaysMatchNodes).
GatewaysMatchNodes == side = "gateways" => Gw!GatewaysMatchNodes

\* No node is given a join address that another's router has
\* (GatewayRouters!JoinAddressKept).
JoinAddressKept == side = "gateways" => Gw!JoinAddressKept

\* No two nodes have the same hybrid subnet, and what the hybrid overlay
\* controller keeps follows the nodes (HybridMaster!HybridSubnetsDistinct,
\* HybridFollowsNodes).
HybridFollowsNodes ==
  side = "hybrid" => Hyb!HybridSubnetsDistinct /\ Hyb!HybridFollowsNodes
=============================================================================
