---------------------------- MODULE NodeServices ----------------------------
(***************************************************************************)
(* What the node agent keeps for the services of the cluster (gateway.go,  *)
(* gateway_shared_intf.go, gateway_localnet.go, gateway_iptables.go,       *)
(* port_claim.go) and the open flow manager that carries its flow cache    *)
(* into the bridge (healthcheck.go).                                       *)
(*                                                                         *)
(* The service informer handles events one at a time, but its DeltaFIFO    *)
(* hands over all the changes of one service together, so the changes of   *)
(* two services are not handled in the order they were made.  The floating *)
(* IP informer has several queues: changes of two floating IPs are handled *)
(* in any order.  The open flow manager's thread copies the whole cache to *)
(* the bridge when asked, and every 15 seconds.  The agent may die between *)
(* two events: the kernel closes its sockets, while the bridge's flows,    *)
(* the iptables rules and the routes stay.                                 *)
(***************************************************************************)
EXTENDS Naturals, Sequences, FiniteSets, SequencesExt

CONSTANTS Services, FIPs,
          Worlds      \* records: mode, specs, fips, changes, faults, restarts, moves

VARIABLES
    world, budget,
    api,              \* the services of the cluster; None where there is none
    fifo, deltas,     \* the informer's DeltaFIFO: its keys and their changes
    store, stream,    \* the informer's store, and the events not yet handled
    up,               \* "down", "init" before the handlers are registered, or "on"
    mid,              \* the second half of an update in progress, or None
    sockets,          \* localPortManager.portsMap: the ports the agent holds
    cache, flowChan,  \* openflowManager: keys of flowCache, and its channel
    ofm,              \* the patch port number read when the manager was made
    bridge,           \* the flows in the bridge: their keys and patch port number
    ofport,           \* the patch port's number now
    ipt, routes,      \* the iptables rules and the routes of table 6
    fips, fipq,       \* the floating IPs on this node, and their unhandled events
    flags             \* causes of the differences the README lists

svcVars == <<api, fifo, deltas, store, stream>>
hostVars == <<sockets, ipt, routes>>
flowVars == <<cache, flowChan, ofm, bridge, ofport>>
fipVars == <<fips, fipq>>
vars == <<world, budget, svcVars, up, mid, hostVars, flowVars, fipVars, flags>>

-----------------------------------------------------------------------------
(***************************************************************************)
(* What a service asks of the node.  A service has a node port or 0, its   *)
(* external addresses, and whether a cloud load balancer gave it an        *)
(* ingress address; "local" is an address of the node, "near" is in one of *)
(* its networks and "far" is in none.                                      *)
(***************************************************************************)
None == [np |-> 0, ext |-> {}, ing |-> FALSE, head |-> TRUE]
Exists(sp) == ~sp.head

Shared == world.mode = "shared"

\* updateServiceFlowCache: the keys of a service's flows
FlowKeys(s, sp) ==
    IF ~Exists(sp) THEN {}
    ELSE {<<"NodePort", s, p>> : p \in {sp.np} \ {0}}
         \cup {<<"External", s, e>> : e \in sp.ext}
         \cup (IF sp.ing THEN {<<"Ingress", s, "lb">>} ELSE {})

\* getNodePortIPTRules, getExternalIPTRules, getLoadBalancerIPTRules
NodePortRules(sp, target) == {<<"np", p, target>> : p \in {sp.np} \ {0}}
ExternalRules(s, es) == {<<"ext", e, s>> : e \in es}
LoadBalancerRules(s, sp) == IF sp.ing THEN {<<"lb", "lb", s>>} ELSE {}

\* getGatewayIPTRules: without gateway addresses the target is the cluster IP
GatewayRules(s, sp, gateway) ==
    IF ~Exists(sp) THEN {}
    ELSE NodePortRules(sp, IF gateway THEN "gateway" ELSE s) \cup ExternalRules(s, sp.ext)

\* the rules and the routes of localPortWatcher.addService and deleteService
LocalRules(s, sp) ==
    IF ~Exists(sp) THEN {}
    ELSE LoadBalancerRules(s, sp) \cup NodePortRules(sp, s)
            \cup ExternalRules(s, sp.ext \cap {"local"})

LocalRoutes(sp) == IF Shared \/ ~Exists(sp) THEN {} ELSE sp.ext \cap {"far"}

Rules(s, sp) == IF Shared THEN GatewayRules(s, sp, FALSE) ELSE LocalRules(s, sp)

\* handleService: the ports a service claims, by address and number; those of
\* addresses that are not the node's are skipped
Claims(s, sp) ==
    IF ~Exists(sp) THEN {}
    ELSE {<<s, "", p>> : p \in {sp.np} \ {0}} \cup {<<s, e, 80>> : e \in sp.ext \cap {"local"}}

SameAddress(c, d) == c[2] = d[2] /\ c[3] = d[3]

\* open: a port that another service's socket holds cannot be opened
Openable(held, claims) == {c \in claims : \A d \in held : ~SameAddress(c, d)}
Open(held, claims) == held \cup Openable(held, claims)

\* a change of the code: only the node ports are closed
CloseNodePorts(held, claims) == held \ {c \in claims : c[2] = ""}
Close(held, claims) == held \ claims

Flag(f) == flags' = flags \cup f

Spend(what) == /\ budget[what] > 0
               /\ budget' = [budget EXCEPT ![what] = @ - 1]

\* addIptRules and delIptRules: a command may fail, its error is swallowed
\* (errors.Wrapf of nil) and the other rules are still handled
IptError == <<"iptables", "failed">>
IptFailed(failed) == {IptError : r \in failed}

\* ip route replace and ip route del: an error is logged
RouteFailed(how, failed) == {<<how, e>> : e \in failed}

\* The commands of an event: those that fail are some of the rules to be
\* changed and some of the routes.
Commands(rules, rs, f, how, Done(_, _)) ==
    \E bad \in SUBSET rules, lost \in SUBSET rs :
        /\ Cardinality(bad) + Cardinality(lost) <= budget.fault
        /\ budget' = [budget EXCEPT !.fault = @ - Cardinality(bad) - Cardinality(lost)]
        /\ Done(bad, lost)
        /\ Flag(f \cup IptFailed(bad) \cup RouteFailed(how, lost))

AddToHost(rules, rs, f) ==
    LET Done(bad, lost) == ipt' = ipt \cup (rules \ bad) /\ routes' = routes \cup (rs \ lost)
    IN Commands(rules \ ipt, rs, f, "route", Done)

DelFromHost(rules, rs, f) ==
    LET Done(bad, lost) == ipt' = ipt \ (rules \ bad) /\ routes' = routes \ (rs \ lost)
    IN Commands(rules \cap ipt, rs \cap routes, f, "stale", Done)

-----------------------------------------------------------------------------
(***************************************************************************)
(* The cluster and the informer.                                           *)
(***************************************************************************)
\* a service is created, changed or deleted; node ports are unique
ApiChange(s, sp) ==
    /\ Spend("change")
    /\ sp # api[s]
    /\ sp.np # 0 => \A t \in Services \ {s} : api[t].np # sp.np
    /\ api' = [api EXCEPT ![s] = sp]
    /\ IF up = "down" THEN UNCHANGED <<fifo, deltas>>
       ELSE /\ deltas' = [deltas EXCEPT ![s] = Append(@, sp)]
            /\ fifo' = IF s \in ToSet(fifo) THEN fifo ELSE Append(fifo, s)
    /\ UNCHANGED <<world, store, stream, up, mid, hostVars, flowVars, fipVars, flags>>

\* the informer hands over every change of the first service in its queue
Pop ==
    /\ up # "down" /\ fifo # <<>>
    /\ LET s  == Head(fifo)
           ds == <<store[s]>> \o deltas[s]
       IN  /\ stream' = stream \o [i \in 1..Len(deltas[s]) |->
                                      [svc |-> s, old |-> ds[i], new |-> ds[i + 1]]]
           /\ store' = [store EXCEPT ![s] = Last(ds)]
           /\ deltas' = [deltas EXCEPT ![s] = <<>>]
    /\ fifo' = Tail(fifo)
    /\ UNCHANGED <<world, budget, api, up, mid, hostVars, flowVars, fipVars, flags>>

\* before the handlers are registered an event reaches nobody
NoHandler ==
    /\ up = "init" /\ stream # <<>>
    /\ stream' = Tail(stream)
    /\ UNCHANGED <<world, budget, api, fifo, deltas, store, up, mid, hostVars, flowVars, fipVars,
                   flags>>

\* gateway.AddService: port claims, flows, iptables rules and routes
AddService ==
    /\ up = "on" /\ mid = <<>> /\ stream # <<>>
    /\ ~Exists(Head(stream).old) /\ Exists(Head(stream).new)
    /\ LET s  == Head(stream).svc
           sp == Head(stream).new
       IN  /\ sockets' = Open(sockets, Claims(s, sp))
           /\ cache' = IF Shared THEN cache \cup FlowKeys(s, sp) ELSE cache
           /\ flowChan' = (flowChan \/ Shared)
           /\ AddToHost(Rules(s, sp), LocalRoutes(sp),
                        {<<"unclaimed", s>> : c \in Claims(s, sp) \ Open(sockets, Claims(s, sp))})
    /\ stream' = Tail(stream)
    /\ UNCHANGED <<world, api, fifo, deltas, store, up, mid, ofm, bridge, ofport,
                   fipVars>>

\* a route is deleted although another service uses the same address
CutRoutes(s, sp) ==
    {<<"route", e>> : e \in {x \in LocalRoutes(sp) :
                                \E t \in Services \ {s} : x \in store[t].ext \cup api[t].ext}}

\* gateway.DeleteService; the port of a claim that failed was never opened
DeleteService ==
    /\ up = "on" /\ mid = <<>> /\ stream # <<>>
    /\ Exists(Head(stream).old) /\ ~Exists(Head(stream).new)
    /\ LET s  == Head(stream).svc
           sp == Head(stream).old
       IN  /\ sockets' = Close(sockets, Claims(s, sp))
           /\ cache' = IF Shared THEN cache \ FlowKeys(s, sp) ELSE cache
           /\ flowChan' = (flowChan \/ Shared)
           /\ DelFromHost(Rules(s, sp), LocalRoutes(sp), CutRoutes(s, sp))
    /\ stream' = Tail(stream)
    /\ UNCHANGED <<world, api, fifo, deltas, store, up, mid, ofm, bridge, ofport,
                   fipVars>>

\* the first half of gateway.UpdateService: the claims are renewed and the
\* old service's flows, rules and routes are taken away
UpdateService ==
    /\ up = "on" /\ mid = <<>> /\ stream # <<>>
    /\ Exists(Head(stream).old) /\ Exists(Head(stream).new)
    /\ LET s == Head(stream).svc
           o == Head(stream).old
           n == Head(stream).new
           closed == Close(sockets, Claims(s, o))
           same == o.np = n.np /\ o.ext = n.ext
       IN  /\ sockets' = IF same THEN sockets ELSE Open(closed, Claims(s, n))
           /\ cache' = IF Shared THEN cache \ FlowKeys(s, o) ELSE cache
           /\ DelFromHost(Rules(s, o), LocalRoutes(o), CutRoutes(s, o) \cup
                   {<<"unclaimed", s>> : c \in Claims(s, n) \ Open(closed, Claims(s, n))})
    /\ mid' = <<Head(stream)>>
    /\ stream' = Tail(stream)
    /\ UNCHANGED <<world, api, fifo, deltas, store, up, flowChan, ofm, bridge, ofport,
                   fipVars>>

\* the second half: the new service's flows, rules and routes
UpdateServiceAdds ==
    /\ up = "on" /\ mid # <<>>
    /\ LET s == mid[1].svc
           n == mid[1].new
       IN  /\ cache' = IF Shared THEN cache \cup FlowKeys(s, n) ELSE cache
           /\ AddToHost(Rules(s, n), LocalRoutes(n), {})
    /\ flowChan' = (flowChan \/ Shared)
    /\ mid' = <<>>
    /\ UNCHANGED <<world, svcVars, up, sockets, ofm, bridge, ofport, fipVars>>

-----------------------------------------------------------------------------
(***************************************************************************)
(* Floating IPs on this node: one flow each, keyed by the pod and the      *)
(* address.                                                                *)
(***************************************************************************)
FIPKeys(v) == {<<"FloatingIP", v, "fip">>} \ {<<"FloatingIP", "none", "fip">>}

\* a floating IP comes to this node for a pod ("none" when it is elsewhere)
FIPChange(f, v) ==
    /\ Spend("change")
    /\ v # fips[f]
    /\ v # "none" => \A g \in FIPs \ {f} : fips[g] # v
    /\ fips' = [fips EXCEPT ![f] = v]
    /\ fipq' = IF up = "on" THEN [fipq EXCEPT ![f] = Append(@, <<fips[f], v>>)] ELSE fipq
    /\ UNCHANGED <<world, svcVars, up, mid, hostVars, flowVars, flags>>

\* AddFloatingIP, UpdateFloatingIP and DeleteFloatingIP
HandleFloatingIP(f) ==
    /\ up = "on" /\ fipq[f] # <<>>
    /\ LET e == Head(fipq[f])
       IN  /\ cache' = (cache \ FIPKeys(e[1])) \cup FIPKeys(e[2])
           /\ Flag(IF \E g \in FIPs \ {f} : fips[g] = e[1] /\ e[1] # "none"
                   THEN {<<"rekeyed", e[1]>>} ELSE {})
    /\ flowChan' = TRUE
    /\ fipq' = [fipq EXCEPT ![f] = Tail(@)]
    /\ UNCHANGED <<world, budget, svcVars, up, mid, hostVars, ofm, bridge, ofport, fips>>

-----------------------------------------------------------------------------

\* OvnNode.Start: gateway.Run is started when waiter.Wait has returned
Runs == up = "on"

\* syncFlows after a request
FlowSync ==
    /\ Runs /\ flowChan
    /\ flowChan' = FALSE
    /\ bridge' = [keys |-> cache, port |-> ofm]
    /\ UNCHANGED <<world, budget, svcVars, up, mid, hostVars, cache, ofm, ofport, fipVars, flags>>

\* ReplaceOFFlows fails: the error is logged and the request is gone
FlowSyncFails ==
    /\ Runs /\ flowChan
    /\ Spend("fault")
    /\ flowChan' = FALSE
    /\ UNCHANGED <<world, svcVars, up, mid, hostVars, cache, ofm, bridge, ofport, fipVars, flags>>

\* the agent is gone: what it held in memory and its sockets
Dies ==
    /\ up' = "down" /\ mid' = <<>> /\ sockets' = {}
    /\ fifo' = <<>> /\ stream' = <<>> /\ deltas' = [s \in Services |-> <<>>]
    /\ fipq' = [f \in FIPs |-> <<>>]
    /\ cache' = {} /\ flowChan' = FALSE
    /\ UNCHANGED <<api, store, ipt, routes, ofm, bridge, ofport, fips>>

\* a change of the code: the port number is not compared
PeriodicNoCheck ==
    /\ Runs
    /\ bridge' = [keys |-> cache, port |-> ofm]
    /\ UNCHANGED <<budget, svcVars, up, mid, hostVars, cache, flowChan, ofm, ofport, fipVars, flags>>

\* every 15 seconds: the process exits when the patch port's number has
\* changed, otherwise all flows are replaced
Periodic ==
    /\ Runs
    /\ IF ofm # ofport
       THEN Dies /\ UNCHANGED <<budget, flags>>
       ELSE /\ bridge' = [keys |-> cache, port |-> ofm]
            /\ UNCHANGED <<budget, svcVars, up, mid, hostVars, cache, flowChan, ofm, ofport,
                           fipVars, flags>>

\* ovn-controller makes the patch port again
PatchMoves ==
    /\ Spend("move")
    /\ ofport' = 1 - ofport
    /\ UNCHANGED <<world, svcVars, up, mid, hostVars, cache, flowChan, ofm, bridge, fipVars, flags>>

-----------------------------------------------------------------------------
(***************************************************************************)
(* Start and end of the agent.                                             *)
(***************************************************************************)
Crash ==
    /\ up # "down"
    /\ Spend("restart")
    /\ Dies
    /\ UNCHANGED <<world, flags>>

\* initFunc: the flow cache holds the default flows; in shared mode the first
\* flow sync waits for the services
InitGateway ==
    /\ up = "down"
    /\ up' = "init"
    /\ cache' = {<<"DEFAULT", "", "">>}
    /\ flowChan' = ~Shared
    /\ ofm' = ofport
    /\ store' = api
    /\ UNCHANGED <<world, budget, api, fifo, deltas, stream, mid, hostVars, bridge, ofport,
                   fipVars, flags>>

\* the claims of the existing services, opened in some order
OpenAll(order) ==
    FoldLeft(LAMBDA held, s : Open(held, Claims(s, store[s])), {}, order)

\* syncSharedGatewayIptRules and localPortWatcher.SyncServices: the rules made
\* after the two chains are cleared; the local mode makes those with the
\* gateway's address, which its addService and deleteService never use
KeepIPTRules == UNION {GatewayRules(s, store[s], ~Shared) : s \in Services}

\* removeStaleRoutes gives the whole line that ip route list printed to ip
\* route del as one argument, which ip refuses: every route stays
StaleRoutes == routes \ UNION {LocalRoutes(store[s]) : s \in Services}

\* gateway.Init: SyncServices and then AddService for every existing service,
\* SyncFloatingIP and AddFloatingIP for every floating IP
RegisterHandlers ==
    /\ up = "init"
    /\ up' = "on"
    /\ \E order \in SetToSeqs(Services) :
          LET rules == KeepIPTRules \cup UNION {Rules(s, store[s]) : s \in Services}
              Done(bad, lost) ==
                  /\ ipt' = rules \ bad
                  /\ routes' = routes \cup (UNION {LocalRoutes(store[s]) : s \in Services} \ lost)
          IN /\ sockets' = OpenAll(order)
             /\ Commands(rules, UNION {LocalRoutes(store[s]) : s \in Services},
                    {<<"unclaimed", s>> : s \in {t \in Services :
                        ~(Claims(t, store[t]) \subseteq OpenAll(order))}}
                    \cup {<<"synced", s>> : s \in {t \in Services : ~Shared /\ Exists(store[t])}}
                    \cup RouteFailed("stale", StaleRoutes), "route", Done)
    /\ cache' = cache \cup UNION {FIPKeys(fips[f]) : f \in FIPs}
                      \cup (IF Shared THEN UNION {FlowKeys(s, store[s]) : s \in Services} ELSE {})
    /\ flowChan' = TRUE
    /\ UNCHANGED <<world, svcVars, mid, ofm, bridge, ofport, fipVars>>

-----------------------------------------------------------------------------
Init ==
    /\ world \in Worlds
    /\ budget = [change |-> world.changes, fault |-> world.faults,
                 restart |-> world.restarts, move |-> world.moves]
    /\ api = [s \in Services |-> None] /\ store = api
    /\ fifo = <<>> /\ stream = <<>> /\ deltas = [s \in Services |-> <<>>]
    /\ up = "down" /\ mid = <<>>
    /\ sockets = {} /\ ipt = {} /\ routes = {}
    /\ cache = {} /\ flowChan = FALSE /\ ofm = 0 /\ ofport = 0
    /\ bridge = [keys |-> {}, port |-> 0]
    /\ fips = [f \in FIPs |-> "none"] /\ fipq = [f \in FIPs |-> <<>>]
    /\ flags = {}

Handle == AddService \/ DeleteService \/ UpdateService \/ UpdateServiceAdds

Agent ==
    \/ Pop \/ NoHandler
    \/ AddService \/ DeleteService \/ UpdateService \/ UpdateServiceAdds
    \/ \E f \in FIPs : HandleFloatingIP(f)
    \/ FlowSync
    \/ Periodic /\ UNCHANGED world
    \/ InitGateway
    \/ RegisterHandlers

Next ==
    \/ Agent
    \/ \E s \in Services, sp \in world.specs \cup {None} : ApiChange(s, sp)
    \/ \E f \in FIPs, v \in world.fips : FIPChange(f, v)
    \/ FlowSyncFails \/ PatchMoves \/ Crash

Fairness ==
    /\ WF_vars(Pop) /\ WF_vars(Handle) /\ WF_vars(InitGateway) /\ WF_vars(RegisterHandlers)
    /\ \A f \in FIPs : WF_vars(HandleFloatingIP(f))
    /\ WF_vars(Periodic /\ UNCHANGED world)

Spec == Init /\ [][Next]_vars /\ Fairness

-----------------------------------------------------------------------------
(***************************************************************************)
(* Properties.                                                             *)
(***************************************************************************)
Quiet == up = "on" /\ fifo = <<>> /\ stream = <<>> /\ mid = <<>>

Wanted ==
    {<<"DEFAULT", "", "">>}
        \cup (IF Shared THEN UNION {FlowKeys(s, api[s]) : s \in Services} ELSE {})
        \cup UNION {FIPKeys(fips[f]) : f \in FIPs}

\* the differences with a known cause
Unclaimed(s) == <<"unclaimed", s>> \in flags
FromSync(s, r) ==     \* a rule that only SyncServices of the local mode makes
    <<"synced", s>> \in flags /\ (r[3] = "gateway" \/ (r[1] = "ext" /\ r[3] = s))
AnyIptFailed == IptError \in flags

\* When no event is left, the host holds for every service the sockets, the
\* iptables rules and the routes that the service asks for, and nothing else:
\* however its changes were delivered, cut by a restart or followed by
\* another service's.  Left out are rules after an iptables command failed,
\* routes whose own command failed or that two services share, and the stale
\* ones that a start finds (portClaimWatcher, nodePortWatcher, localPortWatcher).
HostMatchesServices ==
    Quiet =>
        /\ \A s \in Services : ~Unclaimed(s) => Claims(s, api[s]) \subseteq sockets
        /\ sockets \subseteq UNION {Claims(s, api[s]) : s \in Services}
        /\ ~AnyIptFailed => \A s \in Services : Rules(s, api[s]) \subseteq ipt
        /\ ~AnyIptFailed => \A r \in ipt : \E s \in Services : r \in Rules(s, api[s]) \/ FromSync(s, r)
        /\ \A s \in Services : \A e \in LocalRoutes(api[s]) :
              e \in routes \/ <<"route", e>> \in flags
        /\ \A e \in routes :
              (\E s \in Services : e \in LocalRoutes(api[s])) \/ <<"stale", e>> \in flags

\* a service without a change on its way, and the flows without one
Settled(s) == /\ s \notin ToSet(fifo) /\ store[s] = api[s]
              /\ \A i \in 1..Len(stream) : stream[i].svc # s
              /\ mid # <<>> => mid[1].svc # s

SettledKeys ==
    (IF Shared THEN UNION {FlowKeys(s, api[s]) : s \in {t \in Services : Settled(t)}} ELSE {})
    \cup (IF flags = {} /\ \A f \in FIPs : fipq[f] = <<>>
          THEN UNION {FIPKeys(fips[f]) : f \in FIPs} ELSE {})

\* A flow that is wanted and has no change on its way never leaves the bridge,
\* whatever else is synced and even when the agent starts again: the comment
\* "defer flowSync until syncService() to prevent the existing service
\* OpenFlows being deleted" of newSharedGatewayOpenFlowManager.
KeepsSettled == \A k \in bridge.keys \cap SettledKeys : k \in bridge'.keys
FlowsKept == [][KeepsSettled]_vars

\* The bridge ends with exactly the flows that are wanted, sent to the patch
\* port as it is numbered now: a lost request, a failed replacement, a moved
\* port or a restart only delays it (openflowManager.Run).
FlowsAsWanted ==
    \/ bridge = [keys |-> Wanted, port |-> ofport]
    \/ \E v \in world.fips : <<"rekeyed", v>> \in flags
FlowsCatchUp == <>[]FlowsAsWanted
=============================================================================
