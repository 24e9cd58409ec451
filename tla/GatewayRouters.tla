--------------------------- MODULE GatewayRouters ---------------------------
(***************************************************************************)
(* The gateway router of each node: what the node handler of the master    *)
(* creates for it from the node's annotations, on the router itself and on *)
(* the cluster router that all nodes share (routes, policies and, in local *)
(* gateway mode, the NAT of the management port), and how it is removed.   *)
(* The handlers of different nodes run in parallel, each of many commands  *)
(* of OVN, any of which may fail; a failed part is repeated when the next  *)
(* update of the node arrives.                                             *)
(*                                                                         *)
(* One address family.  The subnet of a node is named by the node, and so  *)
(* is its management port's address, which the subnet determines.  How     *)
(* subnets are allocated is NodeSubnets.                                   *)
(***************************************************************************)
EXTENDS Integers, Sequences, FiniteSets

CONSTANTS Nodes,      \* names of nodes
          Suffix,     \* <<n, m>>: the name n is a proper suffix of the name m
          JoinIPs,    \* addresses of the join switch, numbers in their order
          NatIPs,     \* node-local NAT addresses, numbers from 1
          Objects,    \* what a node agent annotates its node with
          Worlds      \* initial nodes, OVN contents, gateway modes and bounds

VARIABLES api,        \* the node objects of the API server
          events,     \* per node: objects its handler was not called with yet
          known,      \* per node: the object of the last call
          starting,   \* nodes that existed at the start and are not added yet
          proc,       \* per node: the running handler
          failed,     \* addNodeFailed, mgmtPortFailed and gatewaysFailed
          lrpIPCache, \* the join address of each node, 0 when it has none
          nats,       \* NAT addresses in use by the allocator
          switches,   \* OVN: node switches
          gr,         \* OVN: gateway routers
          routes,     \* OVN, cluster router: <<prefix, next hop>>
          policies,   \* OVN, cluster router: <<kind, node, host address>>
          natRules,   \* OVN, cluster router: <<NAT address, node>>
          conf,       \* the gateway mode and DisableSNATMultipleGWs, those of later
                      \* starts, an old topology
          budget, disturbed

vars == <<api, events, known, starting, proc, failed, lrpIPCache, nats, switches, gr, routes,
          policies, natRules, conf, budget, disturbed>>
memory == <<known, starting, failed>>
ovn    == <<switches, gr, routes, policies, natRules>>

Absent == [mode |-> "none", addr |-> 0, hosts |-> {}, mac |-> FALSE, np |-> FALSE,
           subnet |-> FALSE, nat |-> 0]
\* A gateway router with its addresses and its SNAT; whether the node has gateway
\* and worker balancers; those its router and its switch use.
NoRouter == [on |-> FALSE, phys |-> 0, join |-> 0, ext |-> 0, snat |-> 0, lbs |-> FALSE,
             worker |-> FALSE, uses |-> {}, switch |-> {}]
Idle == [todo |-> <<>>, obj |-> Absent, ip |-> 0, nat |-> 0, found |-> {}, add |-> FALSE, delete |-> FALSE]

Local  == conf.mode = "local"
Shared == conf.mode = "shared"
Lowest(S) == CHOOSE x \in S : \A y \in S : x <= y

\* Prefixes of the cluster router: a join address, the source subnet of a node.
\* The next hop 0 is the management port of the node.
ToJoin(ip)   == <<"join", ip>>
FromNode(n)  == <<"src", n>>
AddRoute(rs, prefix, hop) == {r \in rs : r[1] # prefix} \cup {<<prefix, hop>>}

---------------------------------------------------------------------------
\* The handler of a node.

Busy(n) == proc[n].todo # <<>>
At(n, step) == Busy(n) /\ Head(proc[n].todo) = step
Then(n) == proc' = [proc EXCEPT ![n].todo = Tail(@)]

\* What the handler does for an object: whether the gateway's annotations or
\* the subnet changed since the last one decides, and what failed before.
AddFunc == <<"addnode", "mgmt", "gateway">>
UpdateFunc(n, old, new) ==
  (IF n \in failed.add THEN <<"addnode">> ELSE <<>>)
  \o (IF n \in failed.mgmt \/ old.mac # new.mac \/ old.subnet # new.subnet THEN <<"mgmt">> ELSE <<>>)
  \o (IF n \in failed.gw \/ old.subnet # new.subnet \/ old.hosts # new.hosts
         \/ <<old.mode, old.addr, old.np>> # <<new.mode, new.addr, new.np>>
      THEN <<"gateway">> ELSE <<>>)
GatewayCleanup == <<"unroute", "unrouter", "unbalance", "unpolicy">>
DeleteFunc == <<"delete">> \o GatewayCleanup \o <<"release">>

WatchNodes(n) ==
  /\ ~Busy(n) /\ events[n] # <<>> /\ conf.up
  /\ starting # {} => n \in starting /\ \A m \in Nodes : ~Busy(m)
  /\ LET old == known[n]
         new == Head(events[n])
     IN  proc' = [proc EXCEPT ![n] = [Idle EXCEPT !.obj = IF new = Absent THEN old ELSE new,
                    !.add = old = Absent, !.delete = new = Absent,
                    !.todo = IF new = Absent THEN DeleteFunc
                             ELSE IF old = Absent THEN AddFunc ELSE UpdateFunc(n, old, new)]]
  /\ known' = [known EXCEPT ![n] = Head(events[n])]
  /\ events' = [events EXCEPT ![n] = Tail(@)]
  /\ starting' = starting \ {n}
  /\ UNCHANGED <<api, failed, lrpIPCache, nats, ovn, conf, budget, disturbed>>

\* A mutant: a gateway that was set up in part is not tried again.
FailAddOnly(n) ==
  LET step == Head(proc[n].todo) IN
  /\ failed' = IF step = "addnode" /\ proc[n].add THEN [k \in DOMAIN failed |-> failed[k] \cup {n}]
               ELSE IF step = "mgmt" THEN [failed EXCEPT !.mgmt = @ \cup {n}] ELSE failed
  /\ proc' = [proc EXCEPT ![n].todo = IF step = "mgmt" THEN Tail(@)
                                      ELSE IF proc[n].delete THEN <<"release">> ELSE <<>>]

\* A step fails.  What follows depends on the part it belongs to: without the
\* node nothing else is tried, without the management port the gateway is, and
\* a node that is gone loses its join address whatever was cleaned up.
Fail(n) ==
  LET step == Head(proc[n].todo) IN
  /\ failed' =
       IF step = "addnode"
         THEN IF proc[n].add THEN [k \in DOMAIN failed |-> failed[k] \cup {n}] ELSE failed
       ELSE IF step = "mgmt" THEN [failed EXCEPT !.mgmt = @ \cup {n}]
       ELSE IF proc[n].delete THEN failed ELSE [failed EXCEPT !.gw = @ \cup {n}]
  /\ proc' = [proc EXCEPT ![n].todo = IF step = "mgmt" THEN Tail(@)
                                      ELSE IF proc[n].delete THEN <<"release">> ELSE <<>>]

\* Commands whose error is passed on.  A NAT address just taken is given back,
\* though its rule may be in OVN.
Fallible == {"addnode", "mgmt", "router", "joinport", "balancers", "workers", "extport", "joinroute",
             "subnetroute", "snat", "clusterlbs", "policies", "morepolicies", "nat", "annotate", "unrouter", "unbalance"}
CommandFails(n) ==
  /\ budget.fault > 0 /\ Busy(n) /\ Head(proc[n].todo) \in Fallible
  /\ Fail(n)
  /\ budget' = [budget EXCEPT !.fault = @ - 1]
  /\ nats' = IF At(n, "annotate") THEN nats \ {proc[n].nat} ELSE nats
  /\ disturbed' = disturbed \cup (IF At(n, "annotate") THEN {"unannotated"} ELSE {})
                            \cup (IF proc[n].delete THEN {"uncleaned"} ELSE {})
  /\ UNCHANGED <<api, events, known, starting, lrpIPCache, ovn, conf>>

---------------------------------------------------------------------------
\* Join addresses.

\* ensureJoinLRPIPs: the address in the cache, or the lowest that is free.
FreeJoinIPs == JoinIPs \ {lrpIPCache[m] : m \in Nodes}
EnsureJoinLRPIPs(n) ==
  IF lrpIPCache[n] # 0 THEN lrpIPCache
  ELSE [lrpIPCache EXCEPT ![n] = Lowest(FreeJoinIPs)]
CanEnsure(n) == lrpIPCache[n] # 0 \/ FreeJoinIPs # {}

\* addNode: the subnet's annotation, the node's switch, its join address.
AddNode(n) ==
  /\ At(n, "addnode")
  /\ IF CanEnsure(n)
     THEN /\ switches' = switches \cup {n}
          /\ lrpIPCache' = EnsureJoinLRPIPs(n)
          /\ Then(n)
          /\ failed' = [failed EXCEPT !.add = @ \ {n}]
          /\ LET first == ~proc[n].obj.subnet /\ api[n].mode # "none" /\ ~api[n].subnet
                 new == [api[n] EXCEPT !.subnet = TRUE]
             IN  /\ api' = IF first THEN [api EXCEPT ![n] = new] ELSE api
                 /\ events' = IF first THEN [events EXCEPT ![n] = Append(@, new)] ELSE events
     ELSE Fail(n) /\ UNCHANGED <<api, events, switches, lrpIPCache>>
  /\ UNCHANGED <<known, starting, nats, gr, routes, policies, natRules, conf, budget, disturbed>>

\* syncNodeManagementPort: in local mode the node's subnet leaves through it.
SyncNodeManagementPort(n) ==
  /\ At(n, "mgmt")
  /\ IF proc[n].obj.mac
     THEN /\ routes' = IF Local THEN AddRoute(routes, FromNode(n), 0) ELSE routes
          /\ failed' = [failed EXCEPT !.mgmt = @ \ {n}]
          /\ Then(n)
     ELSE Fail(n) /\ UNCHANGED routes
  /\ UNCHANGED <<api, events, known, starting, lrpIPCache, nats, switches, gr, policies, natRules,
                 conf, budget, disturbed>>

---------------------------------------------------------------------------
\* Setting up a gateway.

GatewayInit ==
  <<"router", "joinport", "balancers", "workers", "extport", "joinroute", "subnetroute", "snat">>
SyncGatewayLogicalNetwork ==
  <<"join">> \o GatewayInit \o <<"clusterlbs", "annotations", "policies", "morepolicies", "nat", "annotate", "done">>

\* syncNodeGateway: an annotation that is missing is an error, a subnet that is
\* missing is not.
SyncNodeGateway(n) ==
  /\ At(n, "gateway")
  /\ LET o == proc[n].obj
         hasSubnet == o.subnet \/ proc[n].add
     IN  IF o.mode = "unset" \/ (o.mode = "on" /\ hasSubnet /\ Shared /\ o.hosts = {})
         THEN Fail(n)
         ELSE /\ proc' = [proc EXCEPT ![n].todo =
                   IF o.mode = "disabled" THEN GatewayCleanup \o <<"release", "done">>
                   ELSE IF hasSubnet THEN SyncGatewayLogicalNetwork ELSE <<"done">>]
              /\ UNCHANGED failed
  /\ UNCHANGED <<api, events, known, starting, lrpIPCache, nats, ovn, conf, budget, disturbed>>

JoinLRPIPs(n) ==
  /\ At(n, "join")
  /\ IF CanEnsure(n)
     THEN /\ lrpIPCache' = EnsureJoinLRPIPs(n)
          /\ proc' = [proc EXCEPT ![n].todo = Tail(@), ![n].ip = EnsureJoinLRPIPs(n)[n]]
          /\ UNCHANGED failed
     ELSE Fail(n) /\ UNCHANGED lrpIPCache
  /\ UNCHANGED <<api, events, known, starting, nats, ovn, conf, budget, disturbed>>

\* gatewayInit on the gateway router itself: the router with its host's address,
\* and its port to the join switch.
SetRouter(n, g) ==
  /\ gr' = [gr EXCEPT ![n] = g] /\ Then(n)
  /\ UNCHANGED <<api, events, memory, lrpIPCache, nats, switches, routes, policies, natRules,
                 conf, budget, disturbed>>
CreateRouter(n) ==
  \/ At(n, "router")   /\ SetRouter(n, [gr[n] EXCEPT !.on = TRUE, !.phys = proc[n].obj.addr])
  \/ At(n, "joinport") /\ SetRouter(n, [gr[n] EXCEPT !.join = proc[n].ip])

\* Its balancers for node ports.  In shared mode the router has these and no
\* others from now on, in local mode the node's switch has them.
NodePortBalancers(n) ==
  /\ At(n, "balancers")
  /\ LET g == [gr[n] EXCEPT !.lbs = TRUE] IN
     SetRouter(n, IF ~proc[n].obj.np THEN gr[n]
                  ELSE IF Local THEN [g EXCEPT !.switch = @ \cup {"gateway"}]
                  ELSE [g EXCEPT !.uses = {"gateway"}])

\* The balancers of the worker.  In shared mode they take the place of the
\* gateway's on the node's switch, and to remove none from there fails.
WorkerBalancers(n) ==
  /\ At(n, "workers")
  /\ LET g == [gr[n] EXCEPT !.worker = TRUE] IN
     \/ Local /\ SetRouter(n, g)
     \/ Shared /\ gr[n].lbs /\ SetRouter(n, [g EXCEPT !.switch = (@ \ {"gateway"}) \cup {"worker"}])
     \/ /\ Shared /\ ~gr[n].lbs
        /\ gr' = [gr EXCEPT ![n] = g] /\ Fail(n)
        /\ UNCHANGED <<api, events, known, starting, lrpIPCache, nats, switches, routes, policies,
                       natRules, conf, budget, disturbed>>

\* Its external switch and port.
ExternalSwitch(n) == At(n, "extport") /\ SetRouter(n, [gr[n] EXCEPT !.ext = proc[n].obj.addr])

\* The SNAT of the cluster's subnets: in shared mode to the host's address,
\* unless the pods have SNATs of their own; else what there was is removed.
UpdateRouterSNAT(g, addr) == [g EXCEPT !.snat = addr]
DefaultSNAT(n) ==
  /\ At(n, "snat")
  /\ SetRouter(n, UpdateRouterSNAT(gr[n], IF Shared /\ ~conf.noSNAT THEN proc[n].obj.addr ELSE 0))

\* In shared mode the router gets the cluster's balancers back.
ClusterBalancers(n) ==
  /\ At(n, "clusterlbs")
  /\ SetRouter(n, IF Local THEN gr[n] ELSE [gr[n] EXCEPT !.uses = @ \cup {"cluster"}])

\* gatewayInit on the cluster router: the way to the gateway's join address,
\* and in shared mode the way out of the node's subnet.
ClusterRoutes(n) ==
  /\ \/ At(n, "joinroute") /\ routes' = AddRoute(routes, ToJoin(proc[n].ip), proc[n].ip)
     \/ At(n, "subnetroute") /\ routes' = IF Shared THEN AddRoute(routes, FromNode(n), proc[n].ip) ELSE routes
  /\ Then(n)
  /\ UNCHANGED <<api, events, memory, lrpIPCache, nats, switches, gr, policies, natRules, conf, budget, disturbed>>

\* The rest of syncGatewayLogicalNetwork reads annotations of the object the
\* handler was called with.
ParseAnnotations(n) ==
  /\ At(n, "annotations")
  /\ IF proc[n].obj.subnet /\ proc[n].obj.mac
     THEN Then(n) /\ UNCHANGED failed
     ELSE Fail(n)
  /\ UNCHANGED <<api, events, known, starting, lrpIPCache, nats, ovn, conf, budget, disturbed>>

---------------------------------------------------------------------------
\* Policies of the cluster router.

\* The host addresses that traffic of the node's pods reaches through the node.
HostAddresses(o) == {o.addr} \cup (IF Shared THEN o.hosts ELSE {})

\* findPolicyBasedRoutes lists the subnet policies whose text has the node's
\* name before a quote: its own, and those of names that end in it.
FindPolicyBasedRoutes(n) ==
  {p \in policies : p[1] = "subnet" /\ (p[2] = n \/ <<n, p[2]>> \in Suffix)}

\* syncPolicyBasedRoutes, first half.
ListPolicies(n) ==
  /\ At(n, "policies")
  /\ proc' = [proc EXCEPT ![n].todo = Tail(@), ![n].found = FindPolicyBasedRoutes(n)]
  /\ UNCHANGED <<api, events, memory, lrpIPCache, nats, ovn, conf, budget, disturbed>>

DeletePolicyBasedRoutes(found) == policies \ found
CreatePolicyBasedRoutes(ps, n, hosts) == ps \cup {<<"subnet", n, a>> : a \in hosts}

\* Second half: none of those listed is recognised (a quote inside a listed
\* match is doubled), so all are deleted, and the node's are created.  In local
\* mode two more are created, in which no quote occurs, so none is ever found;
\* in shared mode the one between nodes is removed.
AddPolicyBasedRoutes(n) ==
  /\ At(n, "morepolicies")
  /\ IF proc[n].found \subseteq policies
     THEN LET kept == DeletePolicyBasedRoutes(proc[n].found)
              synced == CreatePolicyBasedRoutes(kept, n, HostAddresses(proc[n].obj))
          IN  /\ policies' = IF Local THEN synced \cup {<<"mgmt", n, proc[n].obj.addr>>, <<"inter", n, 0>>}
                             ELSE synced \ {<<"inter", n, 0>>}
              /\ Then(n) /\ UNCHANGED failed
              /\ disturbed' = disturbed
                   \cup (IF \E p \in proc[n].found : p[2] # n THEN {"suffix"} ELSE {})
                   \cup (IF Local /\ \E p \in kept : p[1] = "mgmt" /\ p[2] = n /\ p[3] # proc[n].obj.addr
                         THEN {"stale"} ELSE {})
     ELSE Fail(n) /\ UNCHANGED <<policies, disturbed>>
  /\ UNCHANGED <<api, events, known, starting, lrpIPCache, nats, switches, gr, routes, natRules, conf, budget>>

---------------------------------------------------------------------------
\* NAT of the management port, in local mode.

\* addNodeLocalNatEntries: the address the object names, or one that is free.
AddNodeLocalNatEntries(n) ==
  /\ At(n, "nat")
  /\ \/ /\ Shared
        /\ Then(n) /\ UNCHANGED <<failed, nats, natRules, disturbed>>
     \/ /\ Local
        /\ \E ip \in IF proc[n].obj.nat # 0 THEN {proc[n].obj.nat} ELSE NatIPs \ nats :
             /\ natRules' = {r \in natRules : r[1] # ip} \cup {<<ip, n>>}
             /\ nats' = nats \cup {ip}
             /\ proc' = [proc EXCEPT ![n].todo = Tail(@), ![n].nat = ip]
        /\ disturbed' = IF proc[n].obj.nat = 0 /\ api[n].nat # 0 THEN disturbed \cup {"outdated"} ELSE disturbed
        /\ UNCHANGED failed
     \/ /\ Local /\ proc[n].obj.nat = 0 /\ NatIPs \subseteq nats
        /\ Fail(n) /\ UNCHANGED <<nats, natRules, disturbed>>
  /\ UNCHANGED <<api, events, known, starting, lrpIPCache, switches, gr, routes, policies, conf, budget>>

\* A new address is annotated on the node, which fails when the node is gone.
AnnotateNat(n) ==
  /\ At(n, "annotate")
  /\ IF Shared \/ proc[n].obj.nat # 0
     THEN Then(n) /\ UNCHANGED <<api, events, failed, nats, disturbed>>
     ELSE IF api[n] = Absent
     THEN /\ Fail(n) /\ nats' = nats \ {proc[n].nat}
          /\ disturbed' = disturbed \cup {"unannotated"}
          /\ UNCHANGED <<api, events>>
     ELSE LET new == [api[n] EXCEPT !.nat = proc[n].nat] IN
          /\ api' = [api EXCEPT ![n] = new]
          /\ events' = [events EXCEPT ![n] = Append(@, new)]
          /\ Then(n) /\ UNCHANGED <<failed, nats, disturbed>>
  /\ UNCHANGED <<known, starting, lrpIPCache, ovn, conf, budget>>

\* OVN drops a balancer that is destroyed from the routers and switches.
WithoutBalancers(g) ==
  [g EXCEPT !.lbs = FALSE, !.uses = @ \ {"gateway"}, !.switch = @ \ {"gateway"}]

\* The end: without node ports the gateway's balancers are destroyed; with them
\* all services are synced (Services).
GatewayDone(n) ==
  /\ At(n, "done")
  /\ gr' = IF proc[n].obj.mode = "on" /\ ~proc[n].obj.np THEN [gr EXCEPT ![n] = WithoutBalancers(gr[n])] ELSE gr
  /\ failed' = [failed EXCEPT !.gw = @ \ {n}]
  /\ Then(n)
  /\ UNCHANGED <<api, events, known, starting, lrpIPCache, nats, switches, routes, policies, natRules,
                 conf, budget, disturbed>>

---------------------------------------------------------------------------
\* Removing a gateway.

\* staticRouteCleanup: every route over the address of the gateway's port.
StaticRouteCleanup(rs, ip) == {r \in rs : ip = 0 \/ r[2] # ip}
\* removeLRPolicies and the NAT rule of the node's management port.
RemoveLRPolicies(ps, n, kinds) == {p \in ps : p[2] # n \/ p[1] \notin kinds}
AllKinds == {"subnet", "mgmt", "inter"}
DelNatRules(rs, n) ==
  IF Cardinality({r \in rs : r[2] = n}) = 1 THEN {r \in rs : r[2] # n} ELSE rs

GatewayGone(n) ==
  /\ \/ /\ At(n, "unroute")
        /\ routes' = StaticRouteCleanup(routes, gr[n].join)
        /\ disturbed' = IF \E m \in Nodes \ {n} : gr[n].join # 0 /\ lrpIPCache[m] = gr[n].join
                        THEN disturbed \cup {"reshuffled"} ELSE disturbed
        /\ UNCHANGED <<gr, policies, natRules>>
     \/ /\ At(n, "unrouter")
        /\ gr' = [gr EXCEPT ![n] = [NoRouter EXCEPT !.lbs = gr[n].lbs, !.worker = gr[n].worker, !.switch = gr[n].switch]]
        /\ UNCHANGED <<routes, policies, natRules, disturbed>>
     \/ /\ At(n, "unbalance")
        /\ gr' = [gr EXCEPT ![n] = WithoutBalancers(gr[n])]
        /\ UNCHANGED <<routes, policies, natRules, disturbed>>
     \/ /\ At(n, "unpolicy")
        /\ policies' = RemoveLRPolicies(policies, n, AllKinds)
        /\ natRules' = DelNatRules(natRules, n)
        /\ UNCHANGED <<routes, gr, disturbed>>
  /\ Then(n)
  /\ UNCHANGED <<api, events, memory, lrpIPCache, nats, switches, conf, budget>>

ReleaseJoinLRPIPs(n) ==
  /\ At(n, "release")
  /\ lrpIPCache' = [lrpIPCache EXCEPT ![n] = 0]
  /\ failed' = IF proc[n].delete THEN [k \in DOMAIN failed |-> failed[k] \ {n}] ELSE failed
  /\ Then(n)
  /\ UNCHANGED <<api, events, known, starting, nats, ovn, conf, budget, disturbed>>

\* deleteNode: the NAT address the last object named, the node's switch, the
\* gateway, the join address.
DeleteNode(n) ==
  /\ At(n, "delete")
  /\ nats' = IF Local THEN nats \ {proc[n].obj.nat} ELSE nats
  /\ switches' = switches \ {n}
  /\ gr' = [gr EXCEPT ![n].switch = {}]
  /\ Then(n)
  /\ UNCHANGED <<api, events, memory, lrpIPCache, routes, policies, natRules, conf, budget, disturbed>>

---------------------------------------------------------------------------
\* Nodes, and the start of the master.

\* A node agent annotates its node, or the node is created or deleted.  What
\* the master annotated stays with the object.
NodeChanges(n, o) ==
  /\ budget.node > 0 /\ n \in budget.names
  /\ LET new == IF o = Absent \/ api[n] = Absent THEN o
                ELSE [o EXCEPT !.subnet = api[n].subnet, !.nat = api[n].nat]
     IN  /\ new # api[n]
         /\ api' = [api EXCEPT ![n] = new]
         /\ events' = IF conf.up THEN [events EXCEPT ![n] = Append(@, new)] ELSE events
  /\ budget' = [budget EXCEPT !.node = @ - 1]
  /\ UNCHANGED <<memory, proc, lrpIPCache, nats, ovn, conf, disturbed>>

\* kubelet's heartbeat updates a node; it matters when something has failed.
Heartbeat(n) ==
  /\ conf.up /\ api[n] # Absent /\ events[n] = <<>> /\ ~Busy(n)
  /\ \E k \in DOMAIN failed : n \in failed[k]
  /\ events' = [events EXCEPT ![n] = <<api[n]>>]
  /\ UNCHANGED <<api, memory, proc, lrpIPCache, nats, ovn, conf, budget, disturbed>>

\* The master stops.  Lost for good: an address not annotated yet, and the rest
\* of a deletion whose switch, by which syncNodes finds it, is gone.
Crash ==
  /\ conf.up /\ budget.restart > 0
  /\ disturbed' = disturbed
       \cup (IF \E n \in Nodes : At(n, "annotate") /\ Local /\ proc[n].obj.nat = 0 THEN {"unannotated"} ELSE {})
       \cup (IF \E n \in Nodes : Busy(n) /\ proc[n].delete /\ ~At(n, "delete") THEN {"cutoff"} ELSE {})
  /\ budget' = [budget EXCEPT !.restart = @ - 1]
  /\ conf' = [conf EXCEPT !.up = FALSE]
  /\ events' = [n \in Nodes |-> <<>>]
  /\ known' = [n \in Nodes |-> Absent]
  /\ proc' = [n \in Nodes |-> Idle]
  /\ failed' = [k \in DOMAIN failed |-> {}]
  /\ lrpIPCache' = [n \in Nodes |-> 0]
  /\ nats' = {} /\ starting' = {}
  /\ UNCHANGED <<api, ovn>>

Existing == {n \in Nodes : api[n] # Absent}

\* upgradeOVNTopology, from a topology with one join switch per node.  Every
\* gateway loses its old join port and the routes over it, the gateway of a node
\* that is gone goes as a whole; in shared mode cleanupDGP removes what local
\* mode needs, also of the nodes that exist.
MultiJoin == {n \in Nodes : conf.old /\ gr[n].join \notin JoinIPs \cup {0}}
CleanupDGP(mode) == mode = "shared" /\ conf.old

\* The join switch manager knows the subnets of one switch.  The addresses of a
\* gateway's port are kept if they are in them, but they are looked up under the
\* name of the node.
GetSwitchSubnets(name) == IF name = "join" THEN JoinIPs ELSE {}
GetJoinLRPAddresses(n) == {gr[n].join} \cap GetSwitchSubnets(n)

\* StartClusterMaster takes the annotated NAT addresses; syncNodes reserves the
\* join addresses that it finds, which are none, and deletes the nodes that are
\* gone; the others are added one by one.
SyncNodes(mode, noSNAT) ==
  /\ ~conf.up
  /\ mode \in conf.modes /\ noSNAT \in conf.noSNATs
  /\ conf' = [conf EXCEPT !.up = TRUE, !.mode = mode, !.noSNAT = noSNAT, !.old = FALSE]
  /\ nats' = IF mode = "local" THEN {api[n].nat : n \in Existing} \ {0} ELSE {}
  /\ LET gone == (switches \cup MultiJoin) \ Existing
         kinds(n) == IF n \in gone THEN AllKinds ELSE IF CleanupDGP(mode) THEN {"inter", "mgmt"} ELSE {}
         cleared == {n \in Existing : CleanupDGP(mode)} \cup gone
     IN  /\ switches' = switches \ gone
         /\ gr' = [n \in Nodes |-> IF n \in gone THEN [NoRouter EXCEPT !.worker = gr[n].worker]
                                   ELSE IF n \in MultiJoin THEN [gr[n] EXCEPT !.join = 0] ELSE gr[n]]
         /\ routes' = {r \in routes : \A n \in gone \cup MultiJoin : gr[n].join = 0 \/ r[2] # gr[n].join}
         /\ policies' = {p \in policies : p[1] \notin kinds(p[2])}
         /\ natRules' = {r \in natRules : r[2] \notin cleared \/ DelNatRules(natRules, r[2]) = natRules}
  /\ lrpIPCache' = [n \in Nodes |-> IF n \in Existing /\ GetJoinLRPAddresses(n) # {}
                                     THEN gr[n].join ELSE lrpIPCache[n]]
  /\ starting' = Existing
  /\ events' = [n \in Nodes |-> IF n \in Existing THEN <<api[n]>> ELSE <<>>]
  /\ disturbed' = IF mode = "shared" /\ ~conf.old /\ (natRules # {} \/ \E p \in policies : p[1] = "mgmt")
                  THEN disturbed \cup {"leftover"} ELSE disturbed
  /\ UNCHANGED <<api, known, proc, failed, budget>>

---------------------------------------------------------------------------
Init ==
  \E w \in Worlds :
    /\ api = w.api /\ conf = w.conf /\ budget = w.budget
    /\ events = [n \in Nodes |-> <<>>] /\ known = [n \in Nodes |-> Absent] /\ starting = {}
    /\ proc = [n \in Nodes |-> Idle] /\ failed = [add |-> {}, mgmt |-> {}, gw |-> {}]
    /\ lrpIPCache = [n \in Nodes |-> 0] /\ nats = {}
    /\ switches = w.before.switches /\ gr = w.before.gr /\ routes = w.before.routes
    /\ policies = w.before.policies /\ natRules = w.before.natRules
    /\ disturbed = {}

Handler(n) ==
  \/ WatchNodes(n) \/ AddNode(n) \/ SyncNodeManagementPort(n)
  \/ SyncNodeGateway(n) \/ JoinLRPIPs(n) \/ CreateRouter(n) \/ NodePortBalancers(n)
  \/ WorkerBalancers(n) \/ ExternalSwitch(n) \/ DefaultSNAT(n) \/ ClusterBalancers(n) \/ ClusterRoutes(n) \/ ParseAnnotations(n)
  \/ ListPolicies(n) \/ AddPolicyBasedRoutes(n) \/ AddNodeLocalNatEntries(n) \/ AnnotateNat(n) \/ GatewayDone(n)
  \/ GatewayGone(n) \/ ReleaseJoinLRPIPs(n) \/ DeleteNode(n)

Next ==
  \/ \E n \in Nodes :
       \/ Handler(n) \/ CommandFails(n) \/ Heartbeat(n)
       \/ \E o \in Objects \cup {Absent} : NodeChanges(n, o)
  \/ Crash
  \/ \E mode \in {"shared", "local"}, noSNAT \in BOOLEAN : SyncNodes(mode, noSNAT)

Spec == Init /\ [][Next]_vars

---------------------------------------------------------------------------
\* Properties.

Quiet ==
  /\ conf.up /\ \A n \in Nodes : ~Busy(n) /\ events[n] = <<>>
  /\ \A k \in DOMAIN failed : failed[k] = {}

On == {n \in Nodes : api[n].mode = "on"}

\* What a gateway router and the cluster router should hold for a node.
RouterMatches(n) ==
  /\ gr[n].on /\ gr[n].phys = api[n].addr /\ gr[n].ext = api[n].addr /\ gr[n].join = lrpIPCache[n]
  /\ gr[n].snat = IF Shared /\ ~conf.noSNAT THEN api[n].addr ELSE 0
  /\ gr[n].lbs = api[n].np /\ gr[n].worker
  /\ Shared => /\ gr[n].uses = {"cluster"} \cup {b \in {"gateway"} : api[n].np}
               /\ gr[n].switch = {"worker"}
  /\ Local => ("gateway" \in gr[n].switch) = api[n].np
RoutesMatch(n) ==
  {r \in routes : r[1] = FromNode(n)} = {<<FromNode(n), IF Shared THEN lrpIPCache[n] ELSE 0>>}
PoliciesMatch(n) ==
  {p \in policies : p[2] = n} =
    {<<"subnet", n, a>> : a \in HostAddresses(api[n])}
    \cup (IF Local THEN {<<"mgmt", n, api[n].addr>>, <<"inter", n, 0>>} ELSE {})
NatMatches(n) ==
  {r \in natRules : r[2] = n} = IF Local THEN {<<api[n].nat, n>>} ELSE {}

\* However the handlers of the nodes overlapped, failed, were repeated on a
\* heartbeat or were cut off by a restart, perhaps into the other gateway mode,
\* once nothing is left to do every node with a gateway has its router, the
\* balancers on it and on its switch that the mode calls for, its
\* own join address with the routes over it, its policies and its NAT rule, and
\* a node without one has none of them.  Not so when the clean-up of a deleted
\* node failed, an address's annotation could not be stored or was not yet in
\* the object used, the host's address changed in local mode, a node's name is
\* the end of another's, local mode was left without an upgrade, or a gateway
\* was removed while another node had been given its join address.
GatewaysMatchNodes ==
  Quiet /\ disturbed = {} =>
    /\ \A n \in On :
         /\ RouterMatches(n) /\ RoutesMatch(n) /\ PoliciesMatch(n) /\ NatMatches(n)
         /\ <<ToJoin(lrpIPCache[n]), lrpIPCache[n]>> \in routes
         /\ \A m \in On \ {n} : lrpIPCache[m] # lrpIPCache[n]
    /\ \A n \in Nodes \ On :
         /\ ~gr[n].on /\ \A p \in policies : p[2] # n
         /\ \A r \in natRules : r[2] # n
         /\ \A r \in routes : r[1] = FromNode(n) => r[2] = 0
    /\ Local => nats = {api[n].nat : n \in Existing} \ {0}

\* "For each existing node, reserve its joinSwitch LRP IPs if they already
\* exist." (master.go:1318): no node is given an address that the gateway
\* router of another has.
JoinAddressKept ==
  disturbed = {} => \A n, m \in Nodes : n # m /\ lrpIPCache[n] # 0 => gr[m].join # lrpIPCache[n]
=============================================================================
