----------------------------- MODULE HybridNode -----------------------------
(***************************************************************************)
(* The hybrid overlay controller of an ordinary Linux node                 *)
(* (hybrid-overlay/pkg/controller/node.go, node_linux.go).  Pods of this   *)
(* node and nodes of the cluster come through two event handlers, one      *)
(* worker for pods and ten for nodes; what they want on br-ext goes into   *)
(* flowCache, one entry per cookie, and a third thread replaces the        *)
(* bridge's flows by the cache when asked and every 30 seconds.            *)
(***************************************************************************)
EXTENDS EventHandler

CONSTANTS Pods, Remotes,   \* pods of this node, hybrid nodes
          Me,              \* this node
          IPs,             \* pod addresses; a cookie is the address
          Details,         \* subnet, address and MAC of a hybrid node
          MACs,            \* values of this node's DRMAC annotation
          Worlds           \* records: ips (addresses used), mac, sw and left (what is there at
                           \* first), pods, ends, nodes, macs, faults, restarts

Nodes == Remotes \cup {Me}
Base == "0x0"              \* the cookie of the bridge's own flows

VARIABLES
    world, budget,
    api,           \* pods: [ip, term]; nodes: [details, hybrid], for this node the DRMAC
                   \* ("bare": none), and whether it is labelled as a hybrid one
    pending,       \* the versions the watches have still to deliver
    up, peh, neh,  \* podEventHandler and nodeEventHandler
    sw,            \* the master has made this node's logical switch
    job,           \* keys whose worker is in EnsureHybridOverlayBridge: the MAC
                   \* and the pod's address it read
    drMAC, initialized,
    flowCache,     \* cookie -> [flow, learned, ignoreLearn]
    request,       \* flowChan holds a request
    bridge,        \* br-ext: its flows by cookie, None: there is no bridge
    table20,       \* the cookies of the learned flows on br-ext
    lost           \* keys whose flow the controller has given up or cannot keep right

vars == <<world, budget, api, pending, up, peh, neh, sw, job, drMAC, initialized, flowCache,
          request, bridge, table20, lost>>
env  == <<world, api, up, sw>>
flow == <<flowCache, request>>
ofp  == <<bridge, table20>>

Spend(what) == /\ budget[what] > 0
               /\ budget' = [budget EXCEPT ![what] = @ - 1]

Write(k, obj) ==
    /\ api' = [api EXCEPT ![k] = obj]
    /\ pending' = IF up THEN [pending EXCEPT ![k] = Append(@, obj)] ELSE pending

-----------------------------------------------------------------------------
(***************************************************************************)
(* The cluster.                                                            *)
(***************************************************************************)
PodComes(p) ==
    /\ Spend("pod") /\ api[p] = None
    /\ Write(p, [ip |-> None, term |-> FALSE])

\* the master's annotation; an address is free once its pod's object is gone
PodAnnotated(p, ip) ==
    /\ UNCHANGED budget
    /\ api[p] # None /\ api[p].ip = None /\ ip \in world.ips
    /\ \A q \in Pods : api[q] # None => api[q].ip # ip
    /\ Write(p, [api[p] EXCEPT !.ip = ip])

PodTerminates(p) ==
    /\ Spend("end") /\ api[p] # None /\ ~api[p].term
    /\ Write(p, [api[p] EXCEPT !.term = TRUE])

PodGoes(p) ==
    /\ UNCHANGED budget
    /\ api[p] # None /\ api[p].term
    /\ Write(p, None)

NodeObject(d, hybrid) == [details |-> d, hybrid |-> hybrid]
RemoteChanges(n, obj) ==
    /\ Spend("node") /\ api[n] # obj
    /\ Write(n, obj)

\* the hybrid overlay master sets this node's DRMAC
MACChanges(m) ==
    /\ Spend("mac") /\ api[Me].details # m
    /\ Write(Me, NodeObject(m, FALSE))

ClusterStep ==
    /\ \/ \E p \in Pods : PodComes(p)
       \/ \E p \in Pods, ip \in IPs : PodAnnotated(p, ip)
       \/ \E p \in Pods : PodTerminates(p)
       \/ \E p \in Pods : PodGoes(p)
       \/ \E n \in Remotes : RemoteChanges(n, None)
       \/ \E n \in Remotes, d \in Details \cup {"bare"}, hybrid \in BOOLEAN :
             RemoteChanges(n, NodeObject(d, hybrid))
       \/ \E m \in MACs : MACChanges(m)
    /\ UNCHANGED <<world, up, peh, neh, sw, job, drMAC, initialized, flow, ofp, lost>>

SwitchComes ==
    /\ ~sw /\ sw' = TRUE
    /\ UNCHANGED <<world, budget, api, pending, up, peh, neh, job, drMAC, initialized,
                   flow, ofp, lost>>

-----------------------------------------------------------------------------
(***************************************************************************)
(* The informers, with the filters podChanged and nodeChanged.             *)
(***************************************************************************)
PodWanted(old, new) == ~new.term /\ (old = None \/ old.ip # new.ip)

\* nodeChanged does not look at the labels
NodeWanted(old, new) == old = None \/ old.details # new.details
Relabelled(old, new) == old # None /\ new # None /\ old.hybrid # new.hybrid

DeliverPod(p) ==
    /\ up /\ pending[p] # <<>>
    /\ LET obj == Head(pending[p])
       IN  peh' = IF obj = None THEN OnDelete(peh, p)
                  ELSE OnSet(peh, p, obj, PodWanted(peh.cache[p], obj))
    /\ pending' = [pending EXCEPT ![p] = Tail(@)]
    /\ UNCHANGED <<env, budget, neh, job, drMAC, initialized, flow, ofp, lost>>

DeliverNode(n) ==
    /\ up /\ pending[n] # <<>>
    /\ LET obj == Head(pending[n])
           old == neh.cache[n]
       IN  /\ neh' = IF obj = None THEN OnDelete(neh, n)
                     ELSE OnSet(neh, n, obj, NodeWanted(old, obj))
           /\ lost' = IF Relabelled(old, obj) /\ ~NodeWanted(old, obj) THEN lost \cup {n} ELSE lost
    /\ pending' = [pending EXCEPT ![n] = Tail(@)]
    /\ UNCHANGED <<env, budget, peh, job, drMAC, initialized, flow, ofp>>

RetryDue ==
    /\ up
    /\ \/ \E p \in peh.delayed : peh' = Due(peh, p) /\ UNCHANGED neh
       \/ \E n \in neh.delayed : neh' = Due(neh, n) /\ UNCHANGED peh
    /\ UNCHANGED <<env, budget, pending, job, drMAC, initialized, flow, ofp, lost>>

-----------------------------------------------------------------------------
(***************************************************************************)
(* flowCache, under flowMutex.                                             *)
(***************************************************************************)
\* updateFlowCacheEntry and requestFlowSync: a learned flow of the cookie is dropped
Entry(f, ignore) == [flow |-> f, learned |-> FALSE, ignoreLearn |-> ignore]
UpdateEntries(new) ==
    /\ flowCache' = [c \in DOMAIN flowCache \cup DOMAIN new |->
                        IF c \in DOMAIN new THEN new[c] ELSE flowCache[c]]
    /\ request' = TRUE
UpdateEntry(c, f, ignore) == UpdateEntries([x \in {c} |-> Entry(f, ignore)])

\* deleteFlowsByCookie asks for no sync
DeleteEntry(c) ==
    /\ flowCache' = [x \in DOMAIN flowCache \ {c} |-> flowCache[x]]
    /\ UNCHANGED request

Drops(h, k) == { x \in {k} : Dropped(h, k) }

-----------------------------------------------------------------------------
(***************************************************************************)
(* The pod worker: AddPod and DeletePod.                                   *)
(***************************************************************************)
\* the flow AddPod makes: the address is the cookie
PodFlow(p, mac) == [pod |-> p, mac |-> mac]

\* getPodDetails: a pod without its annotation has no address
Addr(obj) == IF obj = None THEN None ELSE obj.ip

\* the pods whose flow p's handler replaces or deletes, as events of two pods and
\* the queue may come in another order than the address changed hands
Overtaken(p, ip) == { q \in Pods \ {p} : ip \in DOMAIN flowCache /\ flowCache[ip].flow.pod = q }

PodStart(p) ==
    /\ up /\ peh.running = {} /\ peh.queue # <<>> /\ p = Head(peh.queue)
    /\ LET h   == Get(peh)
           obj == peh.cache[p]
           old == peh.deleted[p]
       IN  \/ /\ obj # None /\ obj.ip # None /\ initialized
              /\ UpdateEntry(obj.ip, PodFlow(p, drMAC), TRUE)
              /\ peh' = Synced(h, p)
              /\ lost' = (lost \ {p}) \cup Overtaken(p, obj.ip)
              /\ UNCHANGED job
           \* the lister must know this node
           \/ /\ Addr(obj) # None /\ ~initialized /\ neh.cache[Me] # None
              /\ peh' = h
              /\ job' = [job EXCEPT ![p] = [mac |-> neh.cache[Me].details, ip |-> obj.ip]]
              /\ UNCHANGED <<flow, lost>>
           \* no annotation: AddPod deletes, and that fails as well
           \/ /\ IF obj = None THEN Addr(old) = None
                 ELSE Addr(obj) # None => ~initialized /\ neh.cache[Me] = None
              /\ peh' = Failed(h, p)
              /\ lost' = lost \cup Drops(h, p)
              /\ UNCHANGED <<flow, job>>
           \/ /\ obj = None /\ Addr(old) # None
              /\ DeleteEntry(old.ip)
              /\ peh' = SyncedDelete(h, p)
              /\ lost' = lost \cup Overtaken(p, old.ip)
              /\ UNCHANGED job
    /\ UNCHANGED <<env, budget, pending, neh, drMAC, initialized, ofp>>

-----------------------------------------------------------------------------
(***************************************************************************)
(* The node workers: AddNode, hybridOverlayNodeUpdate and DeleteNode.      *)
(***************************************************************************)
\* getNodeDetails: subnet, address and MAC are all there
Complete(d) == d \in Details

\* hybridOverlayNodeUpdate: details that are missing take the tunnel away; a node
\* that is not labelled, or not any more, is left alone, and so in DeleteNode
UpdateNode(n, obj) ==
    IF ~obj.hybrid THEN UNCHANGED flow
    ELSE IF Complete(obj.details) THEN UpdateEntry(n, obj.details, FALSE) ELSE DeleteEntry(n)
DeleteNode(n, obj) == IF obj.hybrid THEN DeleteEntry(n) ELSE UNCHANGED flow

\* the tunnel stays for a node that is left alone
LeftAlone(n, obj) == IF obj.hybrid THEN lost \ {n} ELSE lost \cup ({n} \cap DOMAIN flowCache)

NodeStart(n) ==
    /\ up /\ neh.queue # <<>> /\ n = Head(neh.queue)
    /\ LET h   == Get(neh)
           obj == neh.cache[n]
           old == neh.deleted[n]
       IN  \/ /\ n # Me /\ obj # None
              /\ UpdateNode(n, obj)
              /\ lost' = LeftAlone(n, obj)
              /\ neh' = Synced(h, n)
              /\ UNCHANGED job
           \/ /\ n # Me /\ obj = None
              /\ DeleteNode(n, old)
              /\ lost' = LeftAlone(n, old)
              /\ neh' = SyncedDelete(h, n)
              /\ UNCHANGED job
           \/ /\ n = Me /\ obj # None /\ ~initialized
              /\ neh' = h
              /\ job' = [job EXCEPT ![Me] = [mac |-> obj.details, ip |-> None]]
              /\ UNCHANGED <<flow, lost>>
           \/ /\ n = Me /\ obj # None /\ initialized
              /\ neh' = Synced(h, n)
              /\ UNCHANGED <<flow, lost, job>>
    /\ UNCHANGED <<env, budget, pending, peh, drMAC, initialized, ofp>>

-----------------------------------------------------------------------------
(***************************************************************************)
(* EnsureHybridOverlayBridge, in the pod worker or in this node's.         *)
(***************************************************************************)
Leave(k, ok) ==
    /\ job' = [job EXCEPT ![k] = None]
    /\ IF k = Me
       THEN neh' = (IF ok THEN Synced(neh, k) ELSE Failed(neh, k)) /\ UNCHANGED peh
       ELSE peh' = (IF ok THEN Synced(peh, k) ELSE Failed(peh, k)) /\ UNCHANGED neh

\* getLocalNodeSubnet found the switch, but the copy has no DRMAC: no error.  AddPod
\* goes on: without a MAC it fails, and with the one that this node's worker has
\* set meanwhile, with or without the bridge, it makes the pod's flow
NoMACYet(k) ==
    /\ up /\ sw /\ job[k] # None /\ job[k].mac = "bare"
    /\ \/ /\ k = Me \/ drMAC = None
          /\ Leave(k, k = Me)
          /\ lost' = IF k = Me THEN lost ELSE lost \cup Drops(peh, k)
          /\ UNCHANGED flow
       \/ /\ k # Me /\ drMAC # None
          /\ UpdateEntry(job[k].ip, PodFlow(k, drMAC), TRUE)
          /\ Leave(k, TRUE)
          /\ lost' = (lost \ {k}) \cup Overtaken(k, job[k].ip)
    /\ UNCHANGED <<env, budget, pending, drMAC, initialized, ofp>>

\* the commands, the flows of the bridge for the DRMAC, and the flag; in the pod
\* worker AddPod goes on to the pod's own flow
BridgeReady(k) ==
    /\ up /\ sw /\ job[k] # None /\ job[k].mac \in MACs
    /\ drMAC' = job[k].mac
    /\ bridge' = IF bridge = None THEN <<>> ELSE bridge
    /\ UpdateEntries([c \in {Base} \cup ({job[k].ip} \ {None}) |->
           IF c = Base THEN Entry(PodFlow(None, job[k].mac), FALSE)
           ELSE Entry(PodFlow(k, job[k].mac), TRUE)])
    /\ initialized' = TRUE
    /\ Leave(k, TRUE)
    \* the other worker made it from another copy: flows with two MACs
    /\ lost' = IF initialized /\ drMAC # job[k].mac THEN lost \cup Pods
               ELSE (lost \ {k}) \cup Overtaken(k, job[k].ip)
    /\ UNCHANGED <<env, budget, pending, table20>>

\* the wait of 300 s is over, or a command fails: drMAC may be set by then
BridgeFails(k) ==
    /\ up /\ job[k] # None
    /\ IF sw THEN Spend("fault") ELSE UNCHANGED budget
    /\ drMAC' \in {drMAC} \cup (IF sw THEN MACs \cap {job[k].mac} ELSE {})
    /\ Leave(k, FALSE)
    /\ lost' = lost \cup Drops(IF k = Me THEN neh ELSE peh, k)
    /\ UNCHANGED <<env, pending, initialized, flow, ofp>>

-----------------------------------------------------------------------------
(***************************************************************************)
(* syncFlows: learned flows of cached cookies are kept, except at the      *)
(* first sync after the entry changed; then the flows are replaced.        *)
(***************************************************************************)
Learn(c, e) ==
    IF c \notin table20 THEN e
    ELSE IF e.ignoreLearn THEN [e EXCEPT !.ignoreLearn = FALSE, !.learned = FALSE]
    ELSE [e EXCEPT !.learned = TRUE]

\* a change of the code: the 30 second timer only runs while a request waits
TimerOnlyAsked == request

\* the timer fires by itself
Timer == TRUE

SyncFlows ==
    /\ up /\ bridge # None /\ (request \/ Timer)
    /\ request' = FALSE
    /\ flowCache' = [c \in DOMAIN flowCache |-> Learn(c, flowCache[c])]
    /\ bridge' = [c \in DOMAIN flowCache |-> flowCache[c].flow]
    /\ table20' = { c \in DOMAIN flowCache : Learn(c, flowCache[c]).learned }
    /\ UNCHANGED <<env, budget, pending, peh, neh, job, drMAC, initialized, lost>>

\* the dump fails, or the replacement: the request is used up
SyncFails ==
    /\ up /\ request
    /\ bridge # None => budget["fault"] > 0
    /\ budget' = IF bridge = None THEN budget ELSE [budget EXCEPT !["fault"] = @ - 1]
    /\ request' = FALSE
    /\ UNCHANGED <<env, pending, peh, neh, job, drMAC, initialized, flowCache, ofp, lost>>

-----------------------------------------------------------------------------
Dies ==
    /\ up /\ Spend("restart")
    /\ up' = FALSE
    /\ pending' = [k \in Keys |-> <<>>]
    /\ peh' = NewHandler /\ neh' = NewHandler
    /\ job' = [k \in Keys |-> None]
    /\ drMAC' = None /\ initialized' = FALSE
    /\ flowCache' = <<>> /\ request' = FALSE
    /\ UNCHANGED <<world, api, sw, ofp, lost>>

\* the first list of each informer, and newNodeController; terminating objects are
\* not enqueued
Starts ==
    /\ ~up /\ up' = TRUE
    /\ LET pods  == [k \in Keys |-> IF k \in Pods THEN api[k] ELSE None]
           nodes == [k \in Keys |-> IF k \in Nodes THEN api[k] ELSE None]
           live  == [Listed(pods) EXCEPT !.queue = SelectSeq(@, LAMBDA p : ~api[p].term)]
       IN  peh' = live /\ neh' = Listed(nodes)
    /\ lost' = {}
    /\ request' = TRUE
    /\ UNCHANGED <<world, budget, api, pending, sw, job, drMAC, initialized, flowCache, ofp>>

-----------------------------------------------------------------------------
Init ==
    /\ world \in Worlds
    /\ budget = [pod |-> world.pods, end |-> world.ends, node |-> world.nodes,
                 mac |-> world.macs, fault |-> world.faults, restart |-> world.restarts]
    /\ api = [k \in Keys |-> IF k = Me THEN NodeObject(world.mac, FALSE) ELSE None]
    /\ pending = [k \in Keys |-> <<>>]
    /\ up = FALSE
    /\ peh = NewHandler /\ neh = NewHandler
    /\ sw = world.sw
    /\ job = [k \in Keys |-> None]
    /\ drMAC = None /\ initialized = FALSE
    /\ flowCache = <<>> /\ request = FALSE
    \* the bridge of an earlier run may be there, with flows it had learned
    /\ bridge = IF world.left THEN <<>> ELSE None
    /\ table20 = IF world.left THEN world.ips ELSE {}
    /\ lost = {}

AgentStep ==
    \/ \E p \in Pods : DeliverPod(p)
    \/ \E n \in Nodes : DeliverNode(n)
    \/ RetryDue
    \/ \E p \in Pods : PodStart(p)
    \/ \E n \in Nodes : NodeStart(n)
    \/ \E k \in Pods \cup {Me} : NoMACYet(k)
    \/ \E k \in Pods \cup {Me} : BridgeReady(k)
    \/ \E k \in Pods \cup {Me} : BridgeFails(k)
    \/ SyncFlows
    \/ SyncFails
    \/ Starts

Next == ClusterStep \/ SwitchComes \/ AgentStep \/ Dies

\* the agent's threads run, and one that died is started again
Spec == Init /\ [][Next]_vars /\ WF_vars(AgentStep)

-----------------------------------------------------------------------------
(***************************************************************************)
(* Properties.                                                             *)
(***************************************************************************)
\* the cookies whose flow the bridge should have, and the flow
Wanted(c) ==
    CASE c = Base -> [pod |-> None, mac |-> drMAC]
      [] OTHER -> [pod |-> CHOOSE p \in Pods : api[p] # None /\ api[p].ip = c, mac |-> drMAC]

Live == { p \in Pods : api[p] # None /\ api[p].ip # None /\ ~api[p].term }

\* Once the cluster rests, br-ext ends up with the tunnel of every hybrid node that
\* is complete and of no other (but for one whose label came or went), and, where the bridge could be set up, with the
\* dispatch flow of every pod: through commands and syncs that fail, requests that
\* meet a full channel, and restarts.
FlowsMatch ==
    bridge # None /\ initialized =>
        /\ Base \in DOMAIN bridge /\ bridge[Base] = Wanted(Base)
        /\ \A n \in Remotes \ lost :
              IF api[n] # None /\ api[n].hybrid /\ Complete(api[n].details)
              THEN n \in DOMAIN bridge /\ bridge[n] = api[n].details
              ELSE n \notin DOMAIN bridge
        /\ \A p \in Live \ lost :
              api[p].ip \in DOMAIN bridge /\ bridge[api[p].ip] = Wanted(api[p].ip)
FlowsFollowCluster == <>[]FlowsMatch
=============================================================================
