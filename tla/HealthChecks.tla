---------------------------- MODULE HealthChecks ----------------------------
(***************************************************************************)
(* The health check server of load balancer services: what it answers for  *)
(* a service tells the cloud's load balancer whether this node has an      *)
(* endpoint of it.  loadBalancerHealthChecker (healthcheck.go) is called   *)
(* by the service informer's thread and by the endpoints informer's, and   *)
(* keeps two maps without a lock; the server behind it                     *)
(* (kube/healthcheck/healthcheck.go) has one.  Go ends the process when it *)
(* notices two threads in one map, and it may fail to notice.              *)
(***************************************************************************)
EXTENDS Naturals, Sequences, FiniteSets, Functions

CONSTANTS Services, Counts,
          Worlds      \* records: changes, epChanges, faults, restarts

VARIABLES
    world, budget,
    api, eps,          \* the services with a health check, and local endpoints (0: none)
    svcq, epq,         \* the events on their way to the two threads
    up,
    services,          \* loadBalancerHealthChecker.services
    endpoints,         \* loadBalancerHealthChecker.endpoints
    serving,           \* server.services: the count each open listener reports
    busy,              \* threads between their map write and the server's lock
    lost               \* services whose endpoints the server was not told of, or whose
                       \* listener failed

vars == <<world, budget, api, eps, svcq, epq, up, services, endpoints, serving, busy, lost>>

Spend(what) == /\ budget[what] > 0
               /\ budget' = [budget EXCEPT ![what] = @ - 1]

-----------------------------------------------------------------------------
(***************************************************************************)
(* server: both operations hold its lock.                                  *)
(***************************************************************************)
\* SyncServices: close what is not wanted, open the rest with a count of 0; a
\* listener that cannot be opened is skipped until the next call
SyncServices(wanted, fails) ==
    [s \in (wanted \ fails) \cup (DOMAIN serving \cap wanted) |->
        IF s \in DOMAIN serving THEN serving[s] ELSE 0]

\* a change of the code: a service that is missing keeps its count
SyncEndpointsKeeps(counts) ==
    [s \in DOMAIN serving |-> IF s \in DOMAIN counts THEN counts[s] ELSE serving[s]]

\* SyncEndpoints: counts of unknown services are dropped, missing ones are 0
SyncEndpoints(counts) ==
    [s \in DOMAIN serving |-> IF s \in DOMAIN counts THEN counts[s] ELSE 0]

Extend(f, s, v) == [x \in DOMAIN f \cup {s} |-> IF x = s THEN v ELSE f[x]]
Drop(f, s) == [x \in DOMAIN f \ {s} |-> f[x]]

-----------------------------------------------------------------------------
(***************************************************************************)
(* The cluster.                                                            *)
(***************************************************************************)
ServiceChanges(s) ==
    /\ Spend("change")
    /\ api' = (api \cup {s}) \ (api \cap {s})
    /\ svcq' = IF up THEN Append(svcq, <<s, s \notin api>>) ELSE svcq
    /\ UNCHANGED <<world, eps, epq, up, services, endpoints, serving, busy, lost>>

\* endpoints are added, changed or removed (countLocalEndpoints)
EndpointsChange(s, n) ==
    /\ Spend("ep")
    /\ n # eps[s]
    /\ eps' = [eps EXCEPT ![s] = n]
    /\ epq' = IF up THEN Append(epq, <<s, n>>) ELSE epq
    /\ UNCHANGED <<world, api, svcq, up, services, endpoints, serving, busy, lost>>

-----------------------------------------------------------------------------
(***************************************************************************)
(* The two threads.  A handler writes its map and then calls the server.   *)
(***************************************************************************)
AddService ==
    /\ up /\ "svc" \notin busy /\ svcq # <<>> /\ Head(svcq)[2]
    /\ services' = services \cup {Head(svcq)[1]}
    /\ busy' = busy \cup {"svc"}
    /\ svcq' = Tail(svcq)
    /\ UNCHANGED <<world, budget, api, eps, epq, up, endpoints, serving, lost>>

DeleteService ==
    /\ up /\ "svc" \notin busy /\ svcq # <<>> /\ ~Head(svcq)[2]
    /\ services' = services \ {Head(svcq)[1]}
    /\ endpoints' = Drop(endpoints, Head(svcq)[1])
    /\ busy' = busy \cup {"svc"}
    /\ svcq' = Tail(svcq)
    /\ lost' = (lost \ {<<"listen", Head(svcq)[1]>>})
                   \cup {<<"order", s>> : s \in {Head(svcq)[1]} \cap DOMAIN endpoints}
    /\ UNCHANGED <<world, budget, api, eps, epq, up, serving>>

ServerSyncsServices ==
    /\ up /\ "svc" \in busy
    /\ serving' = SyncServices(services, {})
    /\ busy' = busy \ {"svc"}
    /\ UNCHANGED <<world, budget, api, eps, svcq, epq, up, services, endpoints, lost>>

\* a listener cannot be opened: nobody answers for the service
ListenFails(s) ==
    /\ up /\ "svc" \in busy /\ s \in services \ DOMAIN serving
    /\ Spend("fault")
    /\ serving' = SyncServices(services, {s})
    /\ lost' = lost \cup {<<"listen", s>>}
    /\ busy' = busy \ {"svc"}
    /\ UNCHANGED <<world, api, eps, svcq, epq, up, services, endpoints>>

\* AddEndpoints and UpdateEndpoints ignore a service that is not known yet
SetEndpoints ==
    /\ up /\ "ep" \notin busy /\ epq # <<>> /\ Head(epq)[2] # 0
    /\ LET s == Head(epq)[1]
       IN  IF s \in services
           THEN /\ endpoints' = Extend(endpoints, s, Head(epq)[2])
                /\ lost' = lost \ {<<"order", s>>}
                /\ busy' = busy \cup {"ep"}
           ELSE lost' = lost \cup {<<"order", s>>} /\ UNCHANGED <<endpoints, busy>>
    /\ epq' = Tail(epq)
    /\ UNCHANGED <<world, budget, api, eps, svcq, up, services, serving>>

DeleteEndpoints ==
    /\ up /\ "ep" \notin busy /\ epq # <<>> /\ Head(epq)[2] = 0
    /\ endpoints' = Drop(endpoints, Head(epq)[1])
    /\ busy' = busy \cup {"ep"}
    /\ lost' = lost \ {<<"order", Head(epq)[1]>>}
    /\ epq' = Tail(epq)
    /\ UNCHANGED <<world, budget, api, eps, svcq, up, services, serving>>

ServerSyncsEndpoints ==
    /\ up /\ "ep" \in busy
    /\ serving' = SyncEndpoints(endpoints)
    /\ lost' = (lost \ {<<"order", s>> : s \in DOMAIN endpoints \cap DOMAIN serving})
                    \cup {<<"order", s>> : s \in DOMAIN endpoints \ DOMAIN serving}
    /\ busy' = busy \ {"ep"}
    /\ UNCHANGED <<world, budget, api, eps, svcq, epq, up, services, endpoints>>

-----------------------------------------------------------------------------
(***************************************************************************)
(* The agent's end and start.                                              *)
(***************************************************************************)
Dies ==
    /\ up' = FALSE /\ svcq' = <<>> /\ epq' = <<>>
    /\ services' = {} /\ endpoints' = <<>> /\ serving' = <<>> /\ busy' = {} /\ lost' = {}

Crash == up /\ Spend("restart") /\ Dies /\ UNCHANGED <<world, api, eps>>

\* both threads are in the maps and the runtime notices
ConcurrentMapAccess ==
    up /\ busy = {"svc", "ep"} /\ Spend("restart") /\ Dies /\ UNCHANGED <<world, api, eps>>

\* gateway.Init registers the service handler, whose existing services are
\* added before the endpoints handler is registered
Start ==
    /\ ~up /\ up' = TRUE
    /\ services' = api
    /\ endpoints' = [s \in {t \in api : eps[t] # 0} |-> eps[s]]
    /\ serving' = [s \in api |-> eps[s]]
    /\ lost' = {<<"order", s>> : s \in {t \in Services \ api : eps[t] # 0}}
    /\ UNCHANGED <<world, budget, api, eps, svcq, epq, busy>>

-----------------------------------------------------------------------------
Init ==
    /\ world \in Worlds
    /\ budget = [change |-> world.changes, ep |-> world.epChanges, fault |-> world.faults,
                 restart |-> world.restarts]
    /\ api = {} /\ eps = [s \in Services |-> 0]
    /\ svcq = <<>> /\ epq = <<>> /\ up = FALSE
    /\ services = {} /\ endpoints = <<>> /\ serving = <<>> /\ busy = {} /\ lost = {}

Threads ==
    \/ AddService \/ DeleteService \/ ServerSyncsServices
    \/ SetEndpoints \/ DeleteEndpoints \/ ServerSyncsEndpoints
    \/ Start

Next ==
    \/ Threads
    \/ \E s \in Services : ServiceChanges(s) \/ ListenFails(s)
    \/ \E s \in Services, n \in Counts : EndpointsChange(s, n)
    \/ Crash \/ ConcurrentMapAccess

Spec == Init /\ [][Next]_vars /\ WF_vars(Threads)

-----------------------------------------------------------------------------
(***************************************************************************)
(* Properties.                                                             *)
(***************************************************************************)
Quiet == up /\ busy = {} /\ svcq = <<>> /\ epq = <<>>

\* When both threads are idle, exactly the services with a health check port
\* answer, each with the number of its endpoints on this node: no order of the
\* two informers' events makes the load balancer avoid a node that has
\* endpoints or use one that has none.  The exceptions are a listener that
\* failed and endpoints that came before their service, which
\* AddEndpoints drops (healthcheck.go).
HealthTruthful ==
    Quiet =>
        /\ DOMAIN serving \subseteq api
        /\ \A s \in api : /\ <<"listen", s>> \notin lost => s \in DOMAIN serving
                         /\ (s \in DOMAIN serving /\ \A c \in {"listen", "order"} : <<c, s>> \notin lost)
                                => serving[s] = eps[s]
=============================================================================
