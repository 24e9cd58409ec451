------------------------------ MODULE Services ------------------------------
(***************************************************************************)
(* The services controller: which load balancer of OVN holds which virtual *)
(* IP of a service, and with which targets.  A virtual IP is on the        *)
(* cluster's balancer when all its endpoints are pods, on the balancers of *)
(* every gateway router and node switch when some endpoint is a host (and  *)
(* always for node ports and external IPs), and on the idling balancer     *)
(* when the service is idled.  Syncs of different services run in          *)
(* parallel, each of several commands, and a tracker in memory remembers   *)
(* where the controller put each virtual IP.                               *)
(*                                                                         *)
(* The protocol of a port is part of its number, as the controller keeps   *)
(* one balancer of each kind per protocol.  One address family.  A         *)
(* transaction with the queries it is built from is one step; the host     *)
(* address of a node is the node itself.  A node whose balancer or address *)
(* a query does not find is passed over with a line in the log, and the    *)
(* sync goes on: it is in skipped from then on.                            *)
(***************************************************************************)
EXTENDS Integers, FiniteSets

CONSTANTS Services,     \* names of services
          Nodes,        \* nodes, and their physical addresses
          PodIPs,       \* addresses in the cluster's subnets
          Masquerade,   \* the address that stands for the node itself on its gateway
          Specs,        \* the services that can be created or updated to
          Slices,       \* the endpoints a service can have: sets of <<address, ready>>
          MaxRetries,   \* how often a failed sync is repeated
          Worlds        \* the initial states and the bounds on changes and faults

\* PodIPs, Nodes and {Masquerade} are disjoint.

VARIABLES services,   \* the informer's cache: name -> service or None
          slices,     \* the informer's cache: name -> its endpoints
          notified,   \* services whose handlers were not called yet
          queue,      \* the work queue: services to sync
          delayed,    \* failed services that wait for their retry
          requeues,   \* failures in a row
          sync,       \* the sync of each service that is running
          tracker,    \* name -> the virtual IPs it has and where: <<vip, kind>>
          lbs,        \* OVN: <<balancer, virtual IP, targets>>
          gateways,   \* OVN: nodes with a gateway router and balancers
          skipped,    \* nodes a sync has passed over
          fullSync,   \* a gateway was set up and has not asked for the full sync
          repair,     \* the repair at the start: its phase, the balancers left,
                      \* the cluster IPs it has listed
          conf,       \* OVNEmptyLbEvents and the shared gateway mode
          budget,     \* changes and faults left
          disturbed   \* causes of a lasting difference that have occurred

vars == <<services, slices, notified, queue, delayed, requeues, sync, tracker, lbs,
          gateways, skipped, fullSync, repair, conf, budget, disturbed>>
cluster == <<services, slices, notified>>
work    == <<queue, delayed, requeues>>

\* No service, or one without a cluster IP, which the controller treats alike.
None == [ports |-> {}, idled |-> FALSE, clusterIP |-> FALSE, deleting |-> FALSE]
Idle == [pc |-> "idle", svc |-> None, eps |-> {}, vips |-> {}, tracked |-> {}, ports |-> {},
         port |-> [nodePort |-> 0, ext |-> {}]]
Done == [phase |-> "done", left |-> {}, vips |-> {}]

---------------------------------------------------------------------------
\* Virtual IPs and load balancers.

ClusterLB    == <<"cluster", "all">>
IdlingLB     == <<"idling", "all">>
GatewayLB(n) == <<"gateway", n>>
WorkerLB(n)  == <<"worker", n>>

VIP(ip, port) == <<ip, port>>

\* utils.go: the addresses of the nodes with a gateway router, of those whose
\* look-up does not fail.
GetNodeIPs(missed) == gateways \ missed

\* utils.go: every virtual IP of a service.
CollectServiceVIPs(svc, missed) ==
  UNION { {VIP(p.ip, p.port)}
          \cup {VIP(n, p.nodePort) : n \in IF p.nodePort = 0 THEN {} ELSE GetNodeIPs(missed)}
          \cup {VIP(x, p.port) : x \in p.ext} : p \in svc.ports }

\* util/kube.go: the endpoints that are ready.
GetLbEndpoints(s) == {e[1] : e \in {f \in slices[s] : f[2]}}
HasValidEndpoint(s) == GetLbEndpoints(s) # {}

HasHostEndpoints(eps) == ~ (eps \subseteq PodIPs)
SvcNeedsIdling(svc) == conf.idling /\ svc.idled

\* loadbalancer.go: set the targets of virtual IPs; remove virtual IPs.
CreateLoadBalancerVIPs(db, entries) ==
  {e \in db : \A f \in entries : f[1] # e[1] \/ f[2] # e[2]} \cup entries
DeleteLoadBalancerVIPs(db, balancers, vips) == {e \in db : e[1] \notin balancers \/ e[2] \notin vips}

\* A gateway reaches its own host under a special address.
UpdateIPsSlice(targets, n) == IF n \in targets THEN (targets \ {n}) \cup {Masquerade} ELSE targets

\* utils.go: the entries of service addresses on every node, in shared mode
\* both on the gateway router and on the node's switch.
NodeEntries(n, vips, targets) ==
  {<<GatewayLB(n), v, IF conf.shared THEN UpdateIPsSlice(targets, n) ELSE targets>> : v \in vips}
  \cup {<<WorkerLB(n), v, targets>> : v \in IF conf.shared THEN vips ELSE {}}
PerNodeVIPs(ips, port, targets, missed) ==
  UNION {NodeEntries(n, {VIP(ip, port) : ip \in ips}, targets) : n \in gateways \ missed}
PerNodePhysicalVIPs(port, targets, missed) ==
  UNION {NodeEntries(n, {VIP(n, port)}, targets) : n \in gateways \ missed}

NodeLBs == {GatewayLB(n) : n \in gateways} \cup {WorkerLB(n) : n \in gateways}

\* The balancers of the nodes when some are not found: without the one of the
\* gateway router the one of the switch is not looked for.
FoundLBs(missed) == {l \in NodeLBs : l \notin missed /\ GatewayLB(l[2]) \notin missed}

\* utils.go: the balancers deleteVIPsFromNonIdlingOVNBalancers,
\* deleteVIPsFromIdlingBalancer and deleteNodeVIPs remove from.
DeleteVIPsFromNonIdling(vips, missed) ==
  DeleteLoadBalancerVIPs(lbs, {ClusterLB} \cup FoundLBs(missed), vips)
DeleteVIPsFromIdling(vips) == IF conf.idling THEN DeleteLoadBalancerVIPs(lbs, {IdlingLB}, vips) ELSE lbs
DeleteNodeVIPs(vips, missed) ==
  DeleteLoadBalancerVIPs(lbs, {l \in FoundLBs(missed) : conf.shared \/ l[1] = "gateway"}, vips)

\* Look-ups of these nodes failed, in one fault of the database's connection.
PassedOver(missed) ==
  /\ missed = {} \/ budget.fault > 0
  /\ budget' = IF missed = {} THEN budget ELSE [budget EXCEPT !.fault = @ - 1]
  /\ skipped' = skipped \cup missed
NodesOf(balancers) == {l[2] : l \in balancers}

\* What is not about a node that was passed over.
Heeded(db) == {e \in db : e[1][2] \notin skipped /\ e[2][1] \notin skipped}

---------------------------------------------------------------------------
\* The service tracker.

TrackedVIPs(s) == {t[1] : t \in tracker[s]}
\* service_tracker.go: the balancer of a virtual IP, "" when it is unknown.
GetLoadBalancer(s, v) ==
  IF \E t \in tracker[s] : t[1] = v THEN (CHOOSE t \in tracker[s] : t[1] = v)[2] ELSE ""
UpdateService(s, vips, kind) ==
  [tracker EXCEPT ![s] = {t \in @ : t[1] \notin vips} \cup {<<v, kind>> : v \in vips}]
DeleteServiceVIPs(s, vips) == [tracker EXCEPT ![s] = {t \in @ : t[1] \notin vips}]

\* A virtual IP of this service is in OVN and the tracker does not know it.
Untracked(s, svc) == \E e \in Heeded(lbs) : e[2] \in CollectServiceVIPs(svc, {}) \ TrackedVIPs(s)

---------------------------------------------------------------------------
\* One sync of a service.

Running == repair.phase = "done"
At(s, pc) == sync[s].pc = pc
Go(s, pc) == sync' = [sync EXCEPT ![s].pc = pc]

\* What is done for a port after the step it has finished.
AfterPort(s, port, done) ==
  IF done = "cluster" /\ port.nodePort # 0 THEN "nodeport"
  ELSE IF done # "external" /\ port.ext # {} THEN "external"
  ELSE IF sync[s].ports = {} THEN "trim" ELSE "port"

\* processNextWorkItem takes a service no worker works on; syncServices reads
\* it and the virtual IPs it had.
SyncServices(s) ==
  /\ Running /\ s \in queue /\ At(s, "idle")
  /\ queue' = queue \ {s}
  /\ sync' = [sync EXCEPT ![s] = [Idle EXCEPT !.pc = IF services[s].clusterIP THEN "list" ELSE "trim",
                                               !.svc = services[s], !.tracked = TrackedVIPs(s)]]
  /\ UNCHANGED <<cluster, delayed, requeues, tracker, lbs, gateways, skipped, fullSync, repair, conf, budget, disturbed>>

\* The endpoint slices decide between the idling and the other balancers.
ListEndpoints(s, missed) ==
  /\ At(s, "list")
  /\ missed # {} => \E p \in sync[s].svc.ports : p.nodePort # 0
  /\ PassedOver(missed)
  /\ LET svc == sync[s].svc IN
     sync' = [sync EXCEPT ![s].pc = IF SvcNeedsIdling(svc) /\ ~HasValidEndpoint(s) THEN "idling" ELSE "unidle",
                          ![s].eps = GetLbEndpoints(s), ![s].vips = CollectServiceVIPs(svc, missed)]
  /\ UNCHANGED <<cluster, work, tracker, lbs, gateways, fullSync, repair, conf, disturbed>>

\* One round of addServiceToIdlingBalancer: a virtual IP goes to the idling
\* balancer and the tracker says so.
AddServiceToIdlingBalancer(s) ==
  /\ At(s, "idling")
  /\ \E v \in sync[s].vips :
       /\ GetLoadBalancer(s, v) # "idling" \/ <<IdlingLB, v, {}>> \notin lbs
       /\ lbs' = CreateLoadBalancerVIPs(lbs, {<<IdlingLB, v, {}>>})
       /\ tracker' = UpdateService(s, {v}, "idling")
  /\ UNCHANGED <<cluster, work, sync, gateways, skipped, fullSync, repair, conf, budget, disturbed>>

\* When all are there, those the tracker does not have on the idling balancer
\* are removed from the others; what the service no longer has is left to trim.
IdlingDone(s) ==
  /\ At(s, "idling")
  /\ \A v \in sync[s].vips : GetLoadBalancer(s, v) = "idling" /\ <<IdlingLB, v, {}>> \in lbs
  /\ LET toRemoveFromNonIdling == {v \in sync[s].vips : GetLoadBalancer(s, v) # "idling"} IN
     lbs' = DeleteVIPsFromNonIdling(toRemoveFromNonIdling, {})
  /\ sync' = [sync EXCEPT ![s].pc = "trim", ![s].tracked = @ \ sync[s].vips]
  /\ UNCHANGED <<cluster, work, tracker, gateways, skipped, fullSync, repair, conf, budget, disturbed>>

\* A service that is not idled leaves the idling balancer, if it was there or
\* may have been.
LeaveIdling(s) ==
  /\ At(s, "unidle")
  /\ LET toRemoveFromIdling == {v \in sync[s].vips : GetLoadBalancer(s, v) \in {"", "idling"}} IN
     lbs' = DeleteVIPsFromIdling(toRemoveFromIdling)
  /\ sync' = [sync EXCEPT ![s].pc = IF sync[s].svc.ports = {} THEN "trim" ELSE "port",
                          ![s].ports = sync[s].svc.ports]
  /\ UNCHANGED <<cluster, work, tracker, gateways, skipped, fullSync, repair, conf, budget, disturbed>>

\* With an endpoint on a host a cluster IP is balanced on every node.
OnNodes(s) == HasHostEndpoints(sync[s].eps) /\ conf.shared

\* The cluster IP of the next port gets its endpoints.
CreateVIP(s, missed) ==
  /\ At(s, "port")
  /\ missed # {} => OnNodes(s)
  /\ PassedOver(missed)
  /\ \E p \in sync[s].ports :
       /\ sync' = [sync EXCEPT ![s].pc = "move", ![s].port = p, ![s].ports = @ \ {p}]
       /\ lbs' = CreateLoadBalancerVIPs(lbs,
            IF OnNodes(s) THEN PerNodeVIPs({p.ip}, p.port, sync[s].eps, missed)
                          ELSE {<<ClusterLB, VIP(p.ip, p.port), sync[s].eps>>})
  /\ UNCHANGED <<cluster, work, tracker, gateways, fullSync, repair, conf, disturbed>>

\* It leaves the balancers of the other kind (always the cluster's, which is
\* looked up under a key the tracker does not use), and is tracked.
MoveVIP(s, missed) ==
  /\ At(s, "move")
  /\ PassedOver(NodesOf(missed))
  /\ LET p == sync[s].port
         v == VIP(p.ip, p.port)
         leavesNodes == ~OnNodes(s) /\ GetLoadBalancer(s, v) # "cluster"
     IN  /\ missed # {} => leavesNodes
         /\ lbs' = IF OnNodes(s) THEN DeleteLoadBalancerVIPs(lbs, {ClusterLB}, {v})
                   ELSE IF leavesNodes THEN DeleteNodeVIPs({v}, missed) ELSE lbs
         /\ tracker' = UpdateService(s, {v}, IF OnNodes(s) THEN "node" ELSE "cluster")
         /\ sync' = [sync EXCEPT ![s].pc = AfterPort(s, p, "cluster"), ![s].tracked = @ \ {v}]
  /\ UNCHANGED <<cluster, work, gateways, fullSync, repair, conf, disturbed>>

\* The node port, on the address of every node,
NodePort(s, missed) ==
  /\ At(s, "nodeport")
  /\ PassedOver(missed)
  /\ lbs' = CreateLoadBalancerVIPs(lbs, PerNodePhysicalVIPs(sync[s].port.nodePort, sync[s].eps, missed))
  /\ Go(s, "nodeips")
  /\ UNCHANGED <<cluster, work, tracker, gateways, fullSync, repair, conf, disturbed>>

\* A mutant: its virtual IPs are not marked as processed.
UnmarkedNodePort(s, missed) ==
  /\ At(s, "nodeips")
  /\ PassedOver(missed)
  /\ tracker' = UpdateService(s, {VIP(n, sync[s].port.nodePort) : n \in GetNodeIPs(missed)}, "node")
  /\ sync' = [sync EXCEPT ![s].pc = AfterPort(s, sync[s].port, "nodeport")]
  /\ UNCHANGED <<cluster, work, lbs, gateways, fullSync, repair, conf, disturbed>>

\* whose addresses are then asked for again, to be tracked.
TrackNodePort(s, missed) ==
  /\ At(s, "nodeips")
  /\ PassedOver(missed)
  /\ LET p == sync[s].port
         vips == {VIP(n, p.nodePort) : n \in GetNodeIPs(missed)}
     IN  /\ tracker' = UpdateService(s, vips, "node")
         /\ sync' = [sync EXCEPT ![s].pc = AfterPort(s, p, "nodeport"), ![s].tracked = @ \ vips]
  /\ UNCHANGED <<cluster, work, lbs, gateways, fullSync, repair, conf, disturbed>>

\* External and ingress addresses.
ExternalIPs(s, missed) ==
  /\ At(s, "external")
  /\ PassedOver(missed)
  /\ LET p == sync[s].port
         vips == {VIP(x, p.port) : x \in p.ext}
     IN  /\ lbs' = CreateLoadBalancerVIPs(lbs, PerNodeVIPs(p.ext, p.port, sync[s].eps, missed))
         /\ tracker' = UpdateService(s, vips, "node")
         /\ sync' = [sync EXCEPT ![s].pc = AfterPort(s, p, "external"), ![s].tracked = @ \ vips]
  /\ UNCHANGED <<cluster, work, gateways, fullSync, repair, conf, disturbed>>

\* Their failure is logged and forgotten.
ExternalIPsFail(s) ==
  /\ At(s, "external") /\ budget.fault > 0
  /\ LET vips == {VIP(x, sync[s].port.port) : x \in sync[s].port.ext} IN
       /\ tracker' = UpdateService(s, vips, "node")
       /\ sync' = [sync EXCEPT ![s].pc = AfterPort(s, sync[s].port, "external"), ![s].tracked = @ \ vips]
  /\ budget' = [budget EXCEPT !.fault = @ - 1]
  /\ disturbed' = disturbed \cup {"external"}
  /\ UNCHANGED <<cluster, work, lbs, gateways, skipped, fullSync, repair, conf>>

\* deleteVIPsFromAllOVNBalancers, two transactions, for all the virtual IPs of
\* a service that is gone or headless and for those a service no longer has.
TrimNonIdling(s, missed) ==
  /\ At(s, "trim")
  /\ missed # {} => sync[s].tracked # {}
  /\ PassedOver(NodesOf(missed))
  /\ lbs' = DeleteVIPsFromNonIdling(sync[s].tracked, missed)
  /\ Go(s, "trim2")
  /\ UNCHANGED <<cluster, work, tracker, gateways, fullSync, repair, conf, disturbed>>

\* The tracker forgets them, and the sync has succeeded.
TrimIdling(s) ==
  /\ At(s, "trim2")
  /\ lbs' = DeleteVIPsFromIdling(sync[s].tracked)
  /\ tracker' = DeleteServiceVIPs(s, sync[s].tracked)
  /\ sync' = [sync EXCEPT ![s] = Idle]
  /\ requeues' = [requeues EXCEPT ![s] = 0]
  /\ UNCHANGED <<cluster, queue, delayed, gateways, skipped, fullSync, repair, conf, budget, disturbed>>

\* The step that is next runs a command whose error ends the sync.
RunsCommand(s) ==
  \/ sync[s].pc \in {"idling", "port", "nodeport", "nodeips"}
  \/ At(s, "unidle") /\ conf.idling /\ \E v \in sync[s].vips : GetLoadBalancer(s, v) \in {"", "idling"}
  \/ At(s, "trim") /\ sync[s].tracked # {}
  \/ At(s, "trim2") /\ conf.idling /\ sync[s].tracked # {}
  \/ At(s, "move") /\ (OnNodes(s) \/ GetLoadBalancer(s, VIP(sync[s].port.ip, sync[s].port.port)) # "cluster")

\* A command of the sync fails.  handleErr tries again later, MaxRetries times.
HandleErr(s) ==
  /\ RunsCommand(s) /\ budget.fault > 0
  /\ budget' = [budget EXCEPT !.fault = @ - 1]
  /\ sync' = [sync EXCEPT ![s] = Idle]
  /\ LET retry == requeues[s] < MaxRetries IN
       /\ delayed' = IF retry THEN delayed \cup {s} ELSE delayed
       /\ requeues' = [requeues EXCEPT ![s] = IF retry THEN @ + 1 ELSE 0]
       /\ disturbed' = disturbed
            \cup (IF retry THEN {} ELSE {"dropped"})
            \cup (IF services[s] # sync[s].svc /\ Untracked(s, sync[s].svc) THEN {"untracked"} ELSE {})
  /\ UNCHANGED <<cluster, queue, tracker, lbs, gateways, skipped, fullSync, repair, conf>>

\* The rate limiter's delay is over.
AddRateLimited(s) ==
  /\ s \in delayed
  /\ delayed' = delayed \ {s}
  /\ queue' = queue \cup {s}
  /\ UNCHANGED <<cluster, requeues, sync, tracker, lbs, gateways, skipped, fullSync, repair, conf, budget, disturbed>>

---------------------------------------------------------------------------
\* The cluster, the informers' handlers, and the gateways.

\* A virtual IP another service still holds in the tracker or in its sync.
Held(s, svc) ==
  \E r \in Services \ {s}, v \in CollectServiceVIPs(svc, {}) :
     v \in TrackedVIPs(r) \cup CollectServiceVIPs(services[r], {}) \cup CollectServiceVIPs(sync[r].svc, {})

\* A service is created, changed or deleted.  The API server gives an address
\* to one service at a time; a service that is being deleted is only deleted.
ServiceChanges(s, svc) ==
  /\ budget.svc > 0
  /\ svc # services[s]
  /\ services[s].deleting => svc = None
  /\ \A r \in Services \ {s} : {p.ip : p \in svc.ports} \cap {p.ip : p \in services[r].ports} = {}
  /\ services' = [services EXCEPT ![s] = svc]
  /\ notified' = IF svc.deleting \/ repair.phase = "down" THEN notified ELSE notified \cup {s}
  /\ budget' = [budget EXCEPT !.svc = @ - 1]
  /\ disturbed' = disturbed
       \cup (IF Held(s, svc) THEN {"reused"} ELSE {})
       \cup (IF At(s, "idle") /\ Untracked(s, services[s]) /\ repair.phase # "down"
            THEN {"untracked"} ELSE {})
  /\ UNCHANGED <<slices, work, sync, tracker, lbs, gateways, skipped, fullSync, repair, conf>>

EndpointsChange(s, eps) ==
  /\ budget.eps > 0
  /\ eps # slices[s]
  /\ slices' = [slices EXCEPT ![s] = eps]
  /\ notified' = IF repair.phase = "down" THEN notified ELSE notified \cup {s}
  /\ budget' = [budget EXCEPT !.eps = @ - 1]
  /\ UNCHANGED <<services, work, sync, tracker, lbs, gateways, skipped, fullSync, repair, conf, disturbed>>

\* onServiceAdd/Update/Delete and onEndpointSliceAdd/Update/Delete queue the
\* service (an update of a service being deleted is not passed on).
OnEvent(s) ==
  /\ s \in notified
  /\ notified' = notified \ {s}
  /\ queue' = queue \cup {s}
  /\ UNCHANGED <<services, slices, delayed, requeues, sync, tracker, lbs, gateways, skipped, fullSync, repair, conf, budget, disturbed>>

\* The balancer of a node's switch still has a virtual IP no service will set.
Kept(n) ==
  \E e \in lbs : e[1] = WorkerLB(n) /\ \A s \in Services : GetLoadBalancer(s, e[2]) # "node" \/ ~At(s, "idle")

\* syncGatewayLogicalNetwork sets up the gateway of a node with its balancers,
\* and then asks for a sync of every service; gatewayCleanup destroys those of
\* the gateway router, and leaves the switch's for the node's return.
GatewayAdded(n) ==
  /\ budget.gw > 0 /\ repair.phase # "down" /\ n \notin gateways
  /\ gateways' = gateways \cup {n}
  /\ fullSync' = TRUE
  /\ budget' = [budget EXCEPT !.gw = @ - 1]
  /\ disturbed' = IF Kept(n) THEN disturbed \cup {"kept"} ELSE disturbed
  /\ UNCHANGED <<cluster, work, sync, tracker, lbs, skipped, repair, conf>>

RequestFullSync ==
  /\ fullSync
  /\ fullSync' = FALSE
  /\ queue' = queue \cup {s \in Services : services[s] # None}
  /\ UNCHANGED <<cluster, delayed, requeues, sync, tracker, lbs, gateways, skipped, repair, conf, budget, disturbed>>

GatewayRemoved(n) ==
  /\ budget.gw > 0 /\ repair.phase # "down" /\ n \in gateways
  /\ gateways' = gateways \ {n}
  /\ lbs' = {e \in lbs : e[1] # GatewayLB(n)}
  /\ budget' = [budget EXCEPT !.gw = @ - 1]
  /\ UNCHANGED <<cluster, work, sync, tracker, skipped, fullSync, repair, conf, disturbed>>

---------------------------------------------------------------------------
\* The start of the master.

\* The master stops; queue and tracker are lost with it.
Crash ==
  /\ budget.restart > 0 /\ Running
  /\ budget' = [budget EXCEPT !.restart = @ - 1]
  /\ queue' = {} /\ delayed' = {} /\ notified' = {}
  /\ requeues' = [s \in Services |-> 0]
  /\ sync' = [s \in Services |-> Idle]
  /\ tracker' = [s \in Services |-> {}]
  /\ fullSync' = FALSE
  /\ repair' = [Done EXCEPT !.phase = "down"]
  /\ UNCHANGED <<services, slices, lbs, gateways, skipped, conf, disturbed>>

\* repair.go: the cluster IPs of the services of Kubernetes.
SvcVIPs == UNION {{VIP(p.ip, p.port) : p \in services[s].ports} : s \in Services}

\* It starts: the informers list what exists, and the repair lists balancers
\* and services before the workers start.  Without idling there is no idling
\* balancer to list, and the repair gives up before it has repaired anything.
Start ==
  /\ repair.phase = "down"
  /\ notified' = {s \in Services : services[s] # None \/ slices[s] # {}}
  /\ fullSync' = TRUE
  /\ repair' = IF conf.idling
                THEN [phase |-> "repair", left |-> {ClusterLB, IdlingLB} \cup NodeLBs, vips |-> SvcVIPs]
                ELSE Done
  /\ disturbed' = IF conf.idling THEN disturbed ELSE disturbed \cup {"unrepaired"}
  /\ UNCHANGED <<services, slices, work, sync, tracker, lbs, gateways, skipped, conf, budget>>

\* runOnce removes from a balancer what was not a cluster IP of a service.
RunOnce(l) ==
  /\ l \in repair.left
  /\ lbs' = {e \in lbs : e[1] = l => e[2] \in repair.vips}
  /\ repair' = IF repair.left = {l} THEN Done ELSE [repair EXCEPT !.left = @ \ {l}]
  /\ UNCHANGED <<cluster, work, sync, tracker, gateways, skipped, fullSync, conf, budget, disturbed>>

\* A failed transaction ends the repair; the workers start all the same.
RepairFails ==
  /\ repair.left # {} /\ budget.fault > 0
  /\ repair' = Done
  /\ budget' = [budget EXCEPT !.fault = @ - 1]
  /\ disturbed' = disturbed \cup {"unrepaired"}
  /\ UNCHANGED <<cluster, work, sync, tracker, lbs, gateways, skipped, fullSync, conf>>

---------------------------------------------------------------------------
Init ==
  \E w \in Worlds :
    /\ services = w.services /\ slices = w.slices
    /\ gateways = w.gateways /\ conf = w.conf /\ budget = w.budget
    /\ notified = {s \in Services : w.services[s] # None \/ w.slices[s] # {}}
    /\ queue = {} /\ delayed = {}
    /\ requeues = [s \in Services |-> 0]
    /\ sync = [s \in Services |-> Idle]
    /\ tracker = [s \in Services |-> {}]
    /\ lbs = {} /\ skipped = {} /\ repair = Done /\ fullSync = FALSE /\ disturbed = {}

Worker(s) ==
  \/ SyncServices(s) \/ AddServiceToIdlingBalancer(s) \/ IdlingDone(s) \/ LeaveIdling(s)
  \/ \E missed \in SUBSET gateways :
       ListEndpoints(s, missed) \/ CreateVIP(s, missed) \/ NodePort(s, missed)
         \/ TrackNodePort(s, missed) \/ ExternalIPs(s, missed)
  \/ \E missed \in SUBSET NodeLBs : MoveVIP(s, missed) \/ TrimNonIdling(s, missed)
  \/ TrimIdling(s)

Repair == \E l \in {ClusterLB, IdlingLB} \cup NodeLBs : RunOnce(l)

Next ==
  \/ \E s \in Services :
       \/ Worker(s) \/ HandleErr(s) \/ ExternalIPsFail(s) \/ AddRateLimited(s) \/ OnEvent(s)
       \/ \E svc \in Specs \cup {None} : ServiceChanges(s, svc)
       \/ \E eps \in Slices : EndpointsChange(s, eps)
  \/ \E n \in Nodes : GatewayAdded(n) \/ GatewayRemoved(n)
  \/ RequestFullSync \/ Crash \/ Start \/ Repair \/ RepairFails

Spec == Init /\ [][Next]_vars

---------------------------------------------------------------------------
\* Properties.

Quiet ==
  /\ Running /\ notified = {} /\ queue = {} /\ delayed = {} /\ ~fullSync
  /\ \A s \in Services : At(s, "idle")

Idled(s) == SvcNeedsIdling(services[s]) /\ ~HasValidEndpoint(s)

\* What the balancers should hold for a service.
Wanted(s) ==
  LET eps == GetLbEndpoints(s) IN
  IF ~services[s].clusterIP THEN {}
  ELSE IF Idled(s) THEN {<<IdlingLB, v, {}>> : v \in CollectServiceVIPs(services[s], {})}
  ELSE UNION { (IF HasHostEndpoints(eps) /\ conf.shared THEN PerNodeVIPs({p.ip}, p.port, eps, {})
                ELSE {<<ClusterLB, VIP(p.ip, p.port), eps>>})
               \cup (IF p.nodePort = 0 THEN {} ELSE PerNodePhysicalVIPs(p.nodePort, eps, {}))
               \cup PerNodeVIPs(p.ext, p.port, eps, {}) : p \in services[s].ports }

\* An idled service's virtual IPs outside the idling balancer.
LeftOutside == {e \in lbs : e[1] # IdlingLB /\ \E s \in Services : Idled(s) /\ e[2] \in CollectServiceVIPs(services[s], {})}

\* What is on the balancers in use.
Present == {e \in lbs : e[1] \in {ClusterLB, IdlingLB} \cup NodeLBs}

\* Whatever the order in which services, endpoints and gateways changed while
\* the workers' syncs ran, failed, were repeated or were cut off by a restart,
\* when no sync is left every virtual IP is on the balancers it belongs on,
\* with the endpoints of its service, and nowhere else.  Not so when a retry
\* was given up, the error of an external address was dropped, an address was
\* reused before its old holder was cleaned up, a service changed while the
\* tracker missed one of its virtual IPs, a node came back to a balancer that
\* had kept old virtual IPs, or the repair did not run; and a node a sync has
\* passed over may miss or keep entries, on its own balancers and at its own
\* address, but nothing else does.  What stays outside the
\* idling balancer is the subject of MovedToIdling.
VIPsMatchServices ==
  Quiet /\ disturbed = {} /\ (\A s \in Services : ~services[s].deleting)
    => Heeded(Present \ LeftOutside) = Heeded(UNION {Wanted(s) : s \in Services})

\* "we need to move the VIP from the main loadbalancer ... to the idling
\* loadbalancer" (services_controller.go:279): an idled service has no virtual
\* IP on the balancers that reject its traffic.
MovedToIdling == Quiet /\ disturbed = {} => LeftOutside = {}
=============================================================================
