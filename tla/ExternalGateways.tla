-------------------------- MODULE ExternalGateways --------------------------
(***************************************************************************)
(* External gateways of the pods of a namespace (pkg/ovn/egressgw.go):     *)
(* addresses that the namespace's annotation names, and addresses of       *)
(* gateway pods that serve the namespace.  Every pod has a source route to *)
(* each of them on its gateway router.                                     *)
(*                                                                         *)
(* The namespace, every pod and every gateway pod have an informer thread. *)
(* What they do with the namespace's lock held is one step; a new pod      *)
(* takes it three times, to copy the annotated gateways, to copy those of  *)
(* gateway pods, and to add the routes.  Gateway mode is local and pods    *)
(* without a gateway have a NAT rule of their own                          *)
(* (DisableSNATMultipleGWs), so that every branch of the code runs.        *)
(***************************************************************************)
EXTENDS Integers, Sequences, FiniteSets

CONSTANTS Pods, GwPods, GWs,
          Annotations,    \* values of the annotation: gateways and bfd
          Worlds          \* what exists at first, and a bound on what may happen then

GatewayInfo == [gws : SUBSET GWs, bfd : BOOLEAN]

VARIABLES
  \* The API server.
  annotation,    \* of the namespace
  pods,          \* "none", "noip" (scheduled) or "ip" (status.podIPs is set)
  gwPods,        \* what the annotations of a gateway pod say
  nsEv, podEv, gwEv,
  \* The controller: the namespaceInfo, and the gateways a pod's thread copied.
  routingExternalGWs, routingExternalPodGWs,
  podExternalRoutes,   \* the gateways of the routes added for each pod
  ports,               \* the pods in the port cache
  thread,
  \* The northbound database.
  routes,        \* of each pod: pairs gateway, bfd
  policies,      \* the pods whose traffic bypasses the default gateway
  snat,          \* the pods with a NAT rule of their own
  bfdRows,
  budget, disturbed

apiVars  == <<annotation, pods, gwPods>>
evVars   == <<nsEv, podEv, gwEv>>
infoVars == <<routingExternalGWs, routingExternalPodGWs, podExternalRoutes>>
ovnVars  == <<routes, policies, snat, bfdRows>>
vars     == <<apiVars, evVars, infoVars, ports, thread, ovnVars, budget, disturbed>>

None == [gws |-> {}, bfd |-> FALSE]
Idle == [pc |-> "idle"]
Spend(kind) == budget[kind] > 0 /\ budget' = [budget EXCEPT ![kind] = @ - 1]
Note(what)  == disturbed' = disturbed \cup what

----------------------------------------------------------------------------
\* The API server.

ChangeAnnotation ==
  /\ Spend("ns")
  /\ \E a \in Annotations \ {annotation} : annotation' = a /\ nsEv' = Append(nsEv, <<annotation, a>>)
  /\ UNCHANGED <<pods, gwPods, podEv, gwEv, infoVars, ports, thread, ovnVars, disturbed>>

ChangePod(p) ==
  /\ Spend("pod")
  /\ \/ pods[p] = "none" /\ pods' = [pods EXCEPT ![p] = "noip"] /\ podEv' = [podEv EXCEPT ![p] = Append(@, "add")]
     \/ pods[p] = "noip" /\ p \in ports /\ pods' = [pods EXCEPT ![p] = "ip"] /\ UNCHANGED podEv
     \/ pods[p] # "none" /\ pods' = [pods EXCEPT ![p] = "none"] /\ podEv' = [podEv EXCEPT ![p] = Append(@, "delete")]
  /\ UNCHANGED <<annotation, gwPods, nsEv, gwEv, infoVars, ports, thread, ovnVars, disturbed>>

\* A gateway pod that appears, changes its annotations or goes.  An update
\* removes the old gateways first, with the lock given up in between.
ChangeGwPod(g) ==
  /\ Spend("gw")
  /\ \E new \in ({None} \cup Annotations) \ {gwPods[g]} :
       /\ gwPods' = [gwPods EXCEPT ![g] = new]
       /\ gwEv' = [gwEv EXCEPT ![g] = @ \o (IF gwPods[g] = None THEN <<>> ELSE <<None>>) \o (IF new = None THEN <<>> ELSE <<new>>)]
  /\ UNCHANGED <<annotation, pods, nsEv, podEv, infoVars, ports, thread, ovnVars, disturbed>>

----------------------------------------------------------------------------
\* Routes.

\* lr-route-add --may-exist: a route of the pod to that gateway stays as it is.
RoutesAdd(p, gateways) ==
  routes[p] \cup {<<g, \E i \in gateways : g \in i.gws /\ i.bfd>> :
                    g \in (UNION {i.gws : i \in gateways}) \ {r[1] : r \in routes[p]}}

\* A route with BFD brings its BFD row.
WithBFD == bfdRows' = bfdRows \cup {r[1] : r \in {q \in UNION {routes'[p] : p \in Pods} : q[2]}}

\* cleanUpBFDEntry: the BFD row of a gateway goes with the last route that uses it.
CleanUpBFDEntry(gws) == {g \in bfdRows : g \notin gws \/ \E p \in Pods : <<g, TRUE>> \in routes'[p]}

\* The pods a change of gateways reaches: their status has addresses.
ExistingPods == {p \in Pods : pods[p] = "ip"}
\* Pods with a port, or a copy of the gateways, that it does not reach.
Unreached == {p \in Pods : pods[p] # "ip" /\ (p \in ports \/ thread[p].pc # "idle")}

\* The gateways pod p has a route to, and those of routes that the master before
\* a restart added and this one has not added again yet.
Has(p)  == {r[1] : r \in routes[p]}
Left(p) == Has(p) \ podExternalRoutes[p]
Early(gws) == IF \E p \in Pods : Left(p) \cap gws # {} THEN {"early"} ELSE {}

\* The local gateway's policy that sends a pod's traffic to its gateway router,
\* where the routes are, and the NAT rule of a pod without gateways, for pods ps.
AddHybridRoutePolicyForPod(ps) == policies \cup ps
DelHybridRoutePolicyForPod(ps) == policies \ ps
AddPerPodGRSNAT(ps)            == snat \cup ps
DeletePerPodGRSNAT(ps)         == snat \ ps

\* addGWRoutesForNamespace
AddGWRoutesForNamespace(egress) ==
  /\ routes' = [p \in Pods |-> IF p \in ExistingPods THEN RoutesAdd(p, {egress}) ELSE routes[p]]
  /\ policies' = IF egress.gws = {} THEN policies ELSE AddHybridRoutePolicyForPod(ExistingPods)
  /\ podExternalRoutes' = [p \in Pods |-> IF p \in ExistingPods THEN podExternalRoutes[p] \cup egress.gws ELSE podExternalRoutes[p]]

\* deleteGWRoutesForNamespace and addExternalGWsForNamespace, in one step.
ReplaceGWRoutes(remove, egress) ==
  LET old(p)  == IF remove THEN {r \in routes[p] : r[1] \notin podExternalRoutes[p]} ELSE routes[p]
      kept(p) == IF remove THEN {} ELSE podExternalRoutes[p]
      new(p)  == IF p \in ExistingPods THEN egress.gws ELSE {}
  IN /\ routes' = [p \in Pods |-> old(p) \cup {<<g, egress.bfd>> : g \in new(p) \ {r[1] : r \in old(p)}}]
     /\ policies' = {p \in policies : ~ remove \/ podExternalRoutes[p] = {}} \cup {p \in Pods : new(p) # {}}
     /\ podExternalRoutes' = [p \in Pods |-> kept(p) \cup new(p)]
     /\ bfdRows' = (IF remove THEN CleanUpBFDEntry(UNION {podExternalRoutes[p] : p \in Pods}) ELSE bfdRows)
                   \cup {r[1] : r \in {q \in UNION {routes'[p] : p \in Pods} : q[2]}}

----------------------------------------------------------------------------
\* The namespace's thread: the part of updateNamespace for the gateways.

UpdateNamespace ==
  /\ nsEv # <<>>
  /\ LET old == Head(nsEv)[1]
         new == Head(nsEv)[2]
     IN /\ ReplaceGWRoutes(old.gws # {}, new)
        /\ routingExternalGWs' = new
        /\ snat' = IF old.gws = {} /\ (routingExternalGWs.gws # {} \/ \E g \in GwPods : routingExternalPodGWs[g] # None)
                   THEN DeletePerPodGRSNAT(ports)
                   ELSE IF new.gws = {} /\ \A g \in GwPods : routingExternalPodGWs[g] = None
                   THEN AddPerPodGRSNAT({p \in ports : pods[p] # "none"})
                   ELSE snat
        /\ Note((IF old.gws # {} /\ \E g \in GwPods : routingExternalPodGWs[g] # None THEN {"wiped"} ELSE {})
                \cup (IF Unreached # {} THEN {"noip"} ELSE {}) \cup Early(old.gws))
  /\ nsEv' = Tail(nsEv)
  /\ UNCHANGED <<apiVars, podEv, gwEv, routingExternalPodGWs, ports, thread, budget>>

\* Gateway pods: addPodExternalGWForNamespace.
AddPodExternalGW(g) ==
  /\ gwEv[g] # <<>> /\ Head(gwEv[g]) # None
  /\ routingExternalPodGWs' = [routingExternalPodGWs EXCEPT ![g] = Head(gwEv[g])]
  /\ AddGWRoutesForNamespace(Head(gwEv[g]))
  /\ WithBFD
  /\ Note(IF Unreached # {} THEN {"noip"} ELSE {})
  /\ gwEv' = [gwEv EXCEPT ![g] = Tail(@)]
  /\ UNCHANGED <<apiVars, nsEv, podEv, routingExternalGWs, ports, thread, snat, budget>>

\* deletePodGWRoutesForNamespace.
Others(g) == routingExternalGWs.gws \cup UNION {routingExternalPodGWs[h].gws : h \in GwPods \ {g}}
\* Mutant: the policy stays when the last gateway of a pod goes.
DeletePodExternalGWOnly(g) ==
  /\ gwEv[g] # <<>> /\ Head(gwEv[g]) = None
  /\ LET gone(p) == routingExternalPodGWs[g].gws \cap podExternalRoutes[p]
     IN /\ routes' = [p \in Pods |-> {r \in routes[p] : r[1] \notin gone(p)}]
        /\ podExternalRoutes' = [p \in Pods |-> podExternalRoutes[p] \ gone(p)]
        /\ bfdRows' = CleanUpBFDEntry(UNION {gone(p) : p \in Pods})
  /\ routingExternalPodGWs' = [routingExternalPodGWs EXCEPT ![g] = None]
  /\ Note((IF routingExternalPodGWs[g].gws \cap Others(g) # {} THEN {"shared"} ELSE {}) \cup Early(routingExternalPodGWs[g].gws))
  /\ gwEv' = [gwEv EXCEPT ![g] = Tail(@)]
  /\ UNCHANGED <<apiVars, nsEv, podEv, routingExternalGWs, ports, thread, policies, snat, budget>>
DeletePodExternalGW(g) ==
  /\ gwEv[g] # <<>> /\ Head(gwEv[g]) = None
  /\ LET gone(p) == routingExternalPodGWs[g].gws \cap podExternalRoutes[p]
     IN /\ routes' = [p \in Pods |-> {r \in routes[p] : r[1] \notin gone(p)}]
        /\ podExternalRoutes' = [p \in Pods |-> podExternalRoutes[p] \ gone(p)]
        /\ policies' = DelHybridRoutePolicyForPod({p \in Pods : gone(p) # {} /\ podExternalRoutes'[p] = {}})
        /\ bfdRows' = CleanUpBFDEntry(UNION {gone(p) : p \in Pods})
  /\ routingExternalPodGWs' = [routingExternalPodGWs EXCEPT ![g] = None]
  /\ Note((IF routingExternalPodGWs[g].gws \cap Others(g) # {} THEN {"shared"} ELSE {}) \cup Early(routingExternalPodGWs[g].gws))
  /\ gwEv' = [gwEv EXCEPT ![g] = Tail(@)]
  /\ UNCHANGED <<apiVars, nsEv, podEv, routingExternalGWs, ports, thread, snat, budget>>

----------------------------------------------------------------------------
\* A pod's thread: the end of addLogicalPort.

\* The port is in the cache; the annotated gateways are copied.
GetRoutingExternalGWs(p) ==
  /\ thread[p] = Idle /\ podEv[p] # <<>> /\ Head(podEv[p]) = "add"
  /\ ports' = ports \cup {p}
  /\ thread' = [thread EXCEPT ![p] = [pc |-> "podgws", gateways |-> {routingExternalGWs} \ {None}]]
  /\ podEv' = [podEv EXCEPT ![p] = Tail(@)]
  /\ UNCHANGED <<apiVars, nsEv, gwEv, infoVars, ovnVars, budget, disturbed>>

GetRoutingPodGWs(p) ==
  /\ thread[p].pc = "podgws"
  /\ thread' = [thread EXCEPT ![p] = [pc |-> "routes", gateways |-> @.gateways \cup ({routingExternalPodGWs[g] : g \in GwPods} \ {None})]]
  /\ UNCHANGED <<apiVars, evVars, infoVars, ports, ovnVars, budget, disturbed>>

\* addGWRoutesForPod, or a NAT rule for a pod without gateways.
AddGWRoutesForPod(p) ==
  /\ thread[p].pc = "routes"
  /\ LET gateways == thread[p].gateways
         gws      == UNION {i.gws : i \in gateways}
     IN IF gws = {} THEN /\ snat' = AddPerPodGRSNAT({p})
                         /\ UNCHANGED <<routes, policies, podExternalRoutes>>
                    ELSE /\ routes' = [routes EXCEPT ![p] = RoutesAdd(p, gateways)]
                         /\ policies' = AddHybridRoutePolicyForPod({p})
                         /\ podExternalRoutes' = [podExternalRoutes EXCEPT ![p] = @ \cup gws]
                         /\ UNCHANGED snat
  /\ WithBFD
  /\ Note(IF thread[p].gateways # ({routingExternalGWs} \cup {routingExternalPodGWs[g] : g \in GwPods}) \ {None} THEN {"raced"} ELSE {})
  /\ thread' = [thread EXCEPT ![p] = Idle]
  /\ UNCHANGED <<apiVars, evVars, routingExternalGWs, routingExternalPodGWs, ports, budget>>

\* deleteLogicalPort: deletePerPodGRSNAT and deleteGWRoutesForPod.
DeleteGWRoutesForPod(p) ==
  /\ thread[p] = Idle /\ podEv[p] # <<>> /\ Head(podEv[p]) = "delete"
  /\ IF p \in ports
     THEN /\ routes' = [routes EXCEPT ![p] = {r \in @ : r[1] \notin podExternalRoutes[p]}]
          /\ policies' = IF podExternalRoutes[p] = {} THEN policies ELSE DelHybridRoutePolicyForPod({p})
          /\ bfdRows' = CleanUpBFDEntry(podExternalRoutes[p])
          /\ podExternalRoutes' = [podExternalRoutes EXCEPT ![p] = {}]
          /\ snat' = DeletePerPodGRSNAT({p})
     ELSE UNCHANGED <<ovnVars, podExternalRoutes>>
  /\ Note(IF Left(p) = {} THEN {} ELSE {"early"})
  /\ ports' = ports \ {p}
  /\ podEv' = [podEv EXCEPT ![p] = Tail(@)]
  /\ UNCHANGED <<apiVars, nsEv, gwEv, routingExternalGWs, routingExternalPodGWs, thread, budget>>

----------------------------------------------------------------------------
\* A restart: AddNamespace reads the annotation, then the pods are added again.
Restart ==
  /\ Spend("restart")
  /\ Note(IF nsEv # <<>> \/ (\E p \in Pods : podEv[p] # <<>> \/ thread[p] # Idle) \/ (\E g \in GwPods : gwEv[g] # <<>>)
          THEN {"stale"} ELSE {})
  /\ routingExternalGWs' = annotation
  /\ routingExternalPodGWs' = [g \in GwPods |-> None]
  /\ podExternalRoutes' = [p \in Pods |-> {}]
  /\ ports' = {}
  /\ thread' = [p \in Pods |-> Idle]
  /\ nsEv' = <<>>
  /\ podEv' = [p \in Pods |-> IF pods[p] = "none" THEN <<>> ELSE <<"add">>]
  /\ gwEv' = [g \in GwPods |-> IF gwPods[g] = None THEN <<>> ELSE <<gwPods[g]>>]
  /\ UNCHANGED <<apiVars, ovnVars>>

Init ==
  \E w \in Worlds :
    /\ annotation = w.annotation /\ pods = w.pods /\ gwPods = w.gwPods /\ budget = w.budget
    /\ nsEv = <<>>
    /\ podEv = [p \in Pods |-> IF pods[p] = "none" THEN <<>> ELSE <<"add">>]
    /\ gwEv = [g \in GwPods |-> IF gwPods[g] = None THEN <<>> ELSE <<gwPods[g]>>]
    /\ routingExternalGWs = annotation
    /\ routingExternalPodGWs = [g \in GwPods |-> None]
    /\ podExternalRoutes = [p \in Pods |-> {}]
    /\ ports = {} /\ thread = [p \in Pods |-> Idle]
    /\ routes = [p \in Pods |-> {}] /\ policies = {} /\ snat = {} /\ bfdRows = {}
    /\ disturbed = {}

Next ==
  \/ ChangeAnnotation \/ UpdateNamespace \/ Restart
  \/ \E p \in Pods : \/ ChangePod(p) \/ GetRoutingExternalGWs(p) \/ GetRoutingPodGWs(p)
                     \/ AddGWRoutesForPod(p) \/ DeleteGWRoutesForPod(p)
  \/ \E g \in GwPods : ChangeGwPod(g) \/ AddPodExternalGW(g) \/ DeletePodExternalGW(g)

Spec == Init /\ [][Next]_vars

----------------------------------------------------------------------------
\* Types.
TypeOK ==
  /\ annotation \in GatewayInfo /\ pods \in [Pods -> {"none", "noip", "ip"}]
  /\ gwPods \in [GwPods -> GatewayInfo]
  /\ nsEv \in Seq(GatewayInfo \X GatewayInfo)
  /\ podEv \in [Pods -> Seq({"add", "delete"})] /\ gwEv \in [GwPods -> Seq(GatewayInfo)]
  /\ routingExternalGWs \in GatewayInfo /\ routingExternalPodGWs \in [GwPods -> GatewayInfo]
  /\ podExternalRoutes \in [Pods -> SUBSET GWs] /\ ports \subseteq Pods
  /\ thread \in [Pods -> {Idle} \cup [pc : {"podgws", "routes"}, gateways : SUBSET GatewayInfo]]
  /\ routes \in [Pods -> SUBSET (GWs \X BOOLEAN)]
  /\ policies \subseteq Pods /\ snat \subseteq Pods /\ bfdRows \subseteq GWs

Gateways == annotation.gws \cup UNION {gwPods[g].gws : g \in GwPods}
Settled  == nsEv = <<>> /\ (\A p \in Pods : podEv[p] = <<>> /\ thread[p] = Idle) /\ \A g \in GwPods : gwEv[g] = <<>>

\* Once every event is handled, a pod has a route to each gateway of its
\* namespace and to no other, bypasses the default gateway if and only if it has
\* a route, and no BFD session outlives its last route; a pod that is gone has
\* nothing.  Except after a copy of the gateways went stale before its use,
\* where a pod's status lacked its addresses, where two sources name one
\* gateway, where the annotation changed beside gateway pods, and where
\* something changed while the master was down, or went before it had added the
\* routes again.  (egressgw.go:106-156, 178-350)
RoutesFollowGateways ==
  Settled /\ disturbed = {} =>
    /\ \A p \in Pods : Has(p) = (IF pods[p] = "none" THEN {} ELSE Gateways)
    /\ policies = {p \in Pods : Has(p) # {}}
    /\ \A g \in bfdRows : \E p \in Pods : <<g, TRUE>> \in routes[p]

\* A namespace that gets the annotation loses the NAT rules of its pods
\* (namespace.go:252).
AnnotatedHasNoSNAT ==
  Settled /\ disturbed = {} /\ annotation.gws # {} => snat = {}
=============================================================================
