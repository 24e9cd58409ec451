---------------------------- MODULE HybridMaster ----------------------------
(***************************************************************************)
(* The hybrid overlay controller of the master                             *)
(* (hybrid-overlay/pkg/controller/master.go).  It gives each hybrid node,  *)
(* which is outside OVN, a subnet, and each ordinary node an overlay port, *)
(* a reroute policy with its MAC binding, and the annotation with the      *)
(* port's MAC.  Ten workers of one EventHandler run it; the master proper  *)
(* gives ordinary nodes their host subnets and switches.                   *)
(***************************************************************************)
EXTENDS EventHandler

CONSTANTS Subnets,    \* what HybridOverlay.ClusterSubnets holds, cut to node size
          HostSubnets,
          Worlds      \* records: kinds, comes, goes, labels, updates, faults, restarts

Nodes == Keys

VARIABLES
    world, budget,
    api,          \* the node objects: [hybrid, sub, host, mac], None: no such node
    pending,      \* the versions the watch has still to deliver
    up, eh,
    allocated,    \* allocator: the subnets taken
    job,          \* what the node's worker is doing: [at, obj, sub, mac], None: nothing
    sw,           \* OVN: the node's switch [port, mgmt, excl], None: there is none
    policy,       \* OVN: next hop of the node's reroute policy
    binding,      \* OVN: the MAC bindings <<next hop, MAC>> of the node's router port
    loose,        \* subnets released while a node may be using them
    leaked,       \* subnets nobody will release before the next start
    undone        \* nodes whose work was dropped, or half done and taken for done

vars == <<world, budget, api, pending, up, eh, allocated, job, sw, policy, binding,
          loose, leaked, undone>>
ovn  == <<sw, policy, binding>>
rest == <<world, up>>

Spend(what) == /\ budget[what] > 0
               /\ budget' = [budget EXCEPT ![what] = @ - 1]

\* IPAddrToHWAddr(GetNodeHybridOverlayIfAddr(subnet)): MACs are named by the subnet
\* whose third address they come from
DefaultMAC(host) == host
NextHop(host) == host

Host(n) == IF api[n] = None THEN None ELSE api[n].host

\* every write of a node object is a version the informer will see
Write(n, obj) ==
    /\ api' = [api EXCEPT ![n] = obj]
    /\ pending' = IF up THEN [pending EXCEPT ![n] = Append(@, obj)] ELSE pending

-----------------------------------------------------------------------------
(***************************************************************************)
(* The cluster and the master proper.                                      *)
(***************************************************************************)
NodeComes(n, hybrid) ==
    /\ Spend("come") /\ api[n] = None /\ hybrid \in world.kinds
    /\ Write(n, [hybrid |-> hybrid, sub |-> None, host |-> None, mac |-> None])
    /\ UNCHANGED <<rest, eh, allocated, job, ovn, loose, leaked, undone>>

NodeGoes(n) ==
    /\ Spend("go") /\ api[n] # None
    /\ Write(n, None)
    /\ undone' = IF up THEN undone ELSE undone \cup {n}
    /\ UNCHANGED <<rest, eh, allocated, job, ovn, loose, leaked>>

\* the label of NoHostSubnetNodes is put on or taken off: what the node had in its
\* other role stays
Relabel(n) ==
    /\ Spend("label") /\ api[n] # None
    /\ Write(n, [api[n] EXCEPT !.hybrid = ~@])
    /\ undone' = undone \cup {n}
    /\ UNCHANGED <<rest, eh, allocated, job, ovn, loose, leaked>>

\* any other change of the object, such as the kubelet's heartbeat
Heartbeat(n) ==
    /\ Spend("update") /\ api[n] # None
    /\ Write(n, api[n])
    /\ UNCHANGED <<rest, eh, allocated, job, ovn, loose, leaked, undone>>

HostSubnetComes(n, h) ==
    /\ up /\ api[n] # None /\ ~api[n].hybrid /\ api[n].host = None
    /\ \A m \in Nodes : Host(m) # h
    /\ Write(n, [api[n] EXCEPT !.host = h])
    /\ UNCHANGED <<rest, budget, eh, allocated, job, ovn, loose, leaked, undone>>

\* ensureNodeLogicalNetwork excludes both addresses of a new switch
SwitchComes(n) ==
    /\ up /\ sw[n] = None /\ Host(n) # None
    /\ sw' = [sw EXCEPT ![n] = [port |-> None, mgmt |-> FALSE, excl |-> "both"]]
    /\ UNCHANGED <<rest, budget, api, pending, eh, allocated, job, policy, binding,
                   loose, leaked, undone>>

\* UpdateNodeSwitchExcludeIPs: it never counts the hybrid port, and the two
\* callers exclude each other
Exclude(s) == [s EXCEPT !.excl = IF s.mgmt THEN "hybrid" ELSE "both"]

\* the management port, and its own call of UpdateNodeSwitchExcludeIPs
ManagementPortComes(n) ==
    /\ up /\ sw[n] # None /\ ~sw[n].mgmt
    /\ sw' = [sw EXCEPT ![n] = Exclude([@ EXCEPT !.mgmt = TRUE])]
    /\ UNCHANGED <<rest, budget, api, pending, eh, allocated, job, policy, binding,
                   loose, leaked, undone>>

\* deleteNode, or syncNodes at a start
SwitchGoes(n) ==
    /\ up /\ sw[n] # None /\ Host(n) = None
    /\ sw' = [sw EXCEPT ![n] = None]
    /\ UNCHANGED <<rest, budget, api, pending, eh, allocated, job, policy, binding,
                   loose, leaked, undone>>

\* a deleted copy that no worker has taken up: an object that comes under the same
\* name hides it
Unhandled(n) ==
    /\ eh.deleted[n] # None
    /\ job[n] # None => ~(job[n].at \in {"delete", "unpolicy", "forget"}
                           /\ job[n].obj = eh.deleted[n])

\* the informer delivers the next version: ReceiveAllUpdates
Deliver(n) ==
    /\ up /\ pending[n] # <<>>
    /\ LET obj    == Head(pending[n])
           hidden == obj # None /\ Unhandled(n)
       IN  /\ eh' = IF obj = None THEN OnDelete(eh, n) ELSE OnSet(eh, n, obj, TRUE)
           /\ leaked' = IF hidden THEN leaked \cup ({eh.deleted[n].sub} \ {None}) ELSE leaked
           /\ undone' = IF hidden /\ obj.hybrid /\ ~eh.deleted[n].hybrid
                        THEN undone \cup {n} ELSE undone
    /\ pending' = [pending EXCEPT ![n] = Tail(@)]
    /\ UNCHANGED <<rest, budget, api, allocated, job, ovn, loose>>

RetryDue(n) ==
    /\ up /\ n \in eh.delayed
    /\ eh' = Due(eh, n)
    /\ UNCHANGED <<rest, budget, api, pending, allocated, job, ovn, loose, leaked, undone>>

-----------------------------------------------------------------------------
(***************************************************************************)
(* syncHandler for one key: Start reads the cache and takes the branch.    *)
(***************************************************************************)
Succeed(n) == /\ eh' = Synced(eh, n)
              /\ job' = [job EXCEPT ![n] = None]

FailWith(n, left) == /\ eh' = Failed(eh, n)
                     /\ job' = [job EXCEPT ![n] = None]
                     /\ undone' = undone \cup left \cup { m \in {n} : Dropped(eh, n) }
Fail(n) == FailWith(n, {})

GoTo(n, j) == job' = [job EXCEPT ![n] = j]

Free == Subnets \ allocated

\* hybridOverlayNodeEnsureSubnet, up to the annotation
EnsureSubnet(n, obj) ==
    \/ /\ obj.sub # None
       /\ GoTo(n, [at |-> "synced", obj |-> obj, sub |-> None, mac |-> None])
       /\ UNCHANGED allocated
    \/ /\ obj.sub = None
       /\ \E s \in Free :
             /\ allocated' = allocated \cup {s}
             /\ GoTo(n, [at |-> "annotate", obj |-> obj, sub |-> s, mac |-> None])
    \/ /\ obj.sub = None /\ Free = {}
       /\ GoTo(n, [at |-> "error", obj |-> obj, sub |-> None, mac |-> None])
       /\ UNCHANGED allocated

\* handleOverlayPort, up to its first command.  The port's addresses hold a MAC and
\* no IP, which GetPortAddresses refuses, so the port's MAC is always unknown
HandleOverlayPort(n, obj) ==
    LET mac == IF obj.mac # None THEN obj.mac ELSE DefaultMAC(obj.host)
    IN  GoTo(n, IF obj.host # None
                THEN [at |-> "policy", obj |-> obj, sub |-> None, mac |-> mac]
                ELSE [at |-> IF obj.mac # None THEN "unport" ELSE "synced",
                      obj |-> obj, sub |-> None, mac |-> None])

Start(n) ==
    /\ up /\ eh.queue # <<>> /\ n = Head(eh.queue)
    /\ eh' = Get(eh)
    /\ LET obj == eh.cache[n]
       IN  \/ /\ obj # None /\ obj.hybrid
              /\ EnsureSubnet(n, obj)
           \/ /\ obj # None /\ ~obj.hybrid
              /\ HandleOverlayPort(n, obj)
              /\ UNCHANGED allocated
           \/ /\ obj = None
              /\ GoTo(n, [at |-> IF eh.deleted[n] = None THEN "error" ELSE "delete",
                          obj |-> eh.deleted[n], sub |-> None, mac |-> None])
              /\ UNCHANGED allocated
    /\ UNCHANGED <<rest, budget, api, pending, ovn, loose, leaked, undone>>

At(n, where) == up /\ job[n] # None /\ job[n].at = where

Finish(n) ==
    /\ \/ At(n, "synced") /\ Succeed(n) /\ UNCHANGED undone
       \/ At(n, "error") /\ Fail(n)
    /\ UNCHANGED <<rest, budget, api, pending, allocated, ovn, loose, leaked>>

-----------------------------------------------------------------------------

\* setupHybridLRPolicySharedGw: an exact match ends the work for this subnet, its
\* MAC binding included; otherwise the old policy goes and a new one comes
SetupPolicy(n) ==
    /\ policy' = [policy EXCEPT ![n] = NextHop(job[n].obj.host)]
    /\ GoTo(n, [job[n] EXCEPT !.at = IF policy[n] = NextHop(job[n].obj.host)
                                     THEN "port" ELSE "bind"])

Policy(n) ==
    /\ At(n, "policy")
    /\ SetupPolicy(n)
    /\ UNCHANGED <<rest, budget, api, pending, eh, allocated, sw, binding, loose, leaked,
                   undone>>

\* CreateMACBinding: an existing binding is kept, and none is ever removed
CreateMACBinding(n) ==
    /\ At(n, "bind")
    /\ binding' = [binding EXCEPT ![n] = @ \cup {<<NextHop(job[n].obj.host), job[n].mac>>}]
    /\ GoTo(n, [job[n] EXCEPT !.at = "port"])
    /\ UNCHANGED <<rest, budget, api, pending, eh, allocated, sw, policy, loose, leaked,
                   undone>>

\* lsp-add, and UpdateNodeSwitchExcludeIPs; there may be no switch yet
AddPort(n) ==
    /\ At(n, "port")
    /\ IF sw[n] # None
       THEN /\ sw' = [sw EXCEPT ![n] = Exclude([@ EXCEPT !.port = job[n].mac])]
            /\ GoTo(n, [job[n] EXCEPT !.at = IF job[n].obj.mac = None THEN "annotate"
                                             ELSE "synced"])
            /\ UNCHANGED <<eh, undone>>
       ELSE Fail(n) /\ UNCHANGED sw
    /\ UNCHANGED <<rest, budget, api, pending, allocated, policy, binding, loose, leaked>>

\* deleteOverlayPort ignores errors
DeleteOverlayPort(s) == IF s = None THEN None ELSE [s EXCEPT !.port = None]

DeletePort(n) ==
    /\ At(n, "unport")
    /\ sw' = [sw EXCEPT ![n] = DeleteOverlayPort(@)]
    /\ GoTo(n, [job[n] EXCEPT !.at = "annotate"])
    /\ UNCHANGED <<rest, budget, api, pending, eh, allocated, policy, binding, loose, leaked,
                   undone>>

\* a command fails; a policy without its MAC binding passes for complete next time
CommandFails(n) ==
    /\ Spend("fault")
    /\ At(n, "policy") \/ At(n, "bind") \/ At(n, "port") \/ At(n, "unpolicy")
    /\ FailWith(n, { m \in {n} : At(n, "bind") })
    /\ policy' \in {policy, [policy EXCEPT ![n] = IF At(n, "policy") THEN None ELSE @]}
    /\ UNCHANGED <<rest, api, pending, allocated, sw, binding, loose, leaked>>

-----------------------------------------------------------------------------
(***************************************************************************)
(* annotator.Run: one patch by the node's name, with what Set and Delete   *)
(* left in changes.                                                        *)
(***************************************************************************)
Changed(n) ==
    IF job[n].sub # None THEN [api[n] EXCEPT !.sub = job[n].sub]
    ELSE [api[n] EXCEPT !.mac = job[n].mac]

\* the MAC may be that of another node's subnet, gone under the same name
Misnamed(n) == { m \in {n} : job[n].mac # None /\ job[n].obj.host # Host(n) }

\* the copy was old: a subnet that the node got since is overwritten
Annotate(n) ==
    /\ At(n, "annotate") /\ api[n] # None
    /\ Write(n, Changed(n))
    /\ leaked' = leaked \cup { s \in Subnets : job[n].sub # None /\ api[n].sub = s }
    /\ undone' = undone \cup Misnamed(n)
    /\ Succeed(n)
    /\ UNCHANGED <<rest, budget, allocated, ovn, loose>>

\* AddNode's error path: releaseNodeSubnet
ReleaseAllocated(n) == allocated' = allocated \ {job[n].sub}

AnnotateFails(n) ==
    /\ At(n, "annotate")
    /\ \/ api[n] = None /\ UNCHANGED budget
       \/ Spend("fault")
    /\ ReleaseAllocated(n)
    /\ Fail(n)
    /\ UNCHANGED <<rest, api, pending, ovn, loose, leaked>>

\* the patch is made and its reply is lost: the node's subnet is released
AnnotateReplyLost(n) ==
    /\ At(n, "annotate") /\ api[n] # None
    /\ Spend("fault")
    /\ Write(n, Changed(n))
    /\ ReleaseAllocated(n)
    /\ loose' = loose \cup ({job[n].sub} \ {None})
    /\ leaked' = leaked \cup { s \in Subnets : job[n].sub # None /\ api[n].sub = s }
    /\ FailWith(n, Misnamed(n))
    /\ UNCHANGED <<rest, ovn>>

-----------------------------------------------------------------------------
(***************************************************************************)
(* DeleteNode, and what syncHandler does after it.                         *)
(***************************************************************************)
\* a second try releases the subnet once more, though others may have it by now
DeleteNode(n) ==
    /\ At(n, "delete")
    /\ LET obj == job[n].obj
       IN  /\ allocated' = allocated \ {obj.sub}
           /\ loose' = IF eh.requeues[n] > 0 THEN loose \cup ({obj.sub} \ {None}) ELSE loose
           /\ leaked' = leaked \ {obj.sub}
           /\ sw' = [sw EXCEPT ![n] = IF obj.mac # None /\ ~obj.hybrid
                                      THEN DeleteOverlayPort(@) ELSE @]
    /\ GoTo(n, [job[n] EXCEPT !.at = "unpolicy"])
    /\ UNCHANGED <<rest, budget, api, pending, eh, policy, binding, undone>>

\* removeHybridLRPolicySharedGW
RemovePolicy(n) ==
    /\ At(n, "unpolicy")
    /\ policy' = [policy EXCEPT ![n] = None]
    /\ GoTo(n, [job[n] EXCEPT !.at = "forget"])
    /\ UNCHANGED <<rest, budget, api, pending, eh, allocated, sw, binding, loose, leaked,
                   undone>>

\* deletedIndexer.Delete takes away a copy that came since: its deletion fails
Forget(n) ==
    /\ At(n, "forget")
    /\ eh' = SyncedDelete(eh, n)
    /\ GoTo(n, None)
    /\ leaked' = leaked \cup { s \in Subnets : /\ eh.deleted[n].sub = s
                                               /\ eh.deleted[n] # job[n].obj }
    /\ UNCHANGED <<rest, budget, api, pending, allocated, ovn, loose, undone>>

-----------------------------------------------------------------------------
(***************************************************************************)
(* The master's end and start.                                             *)
(***************************************************************************)
\* a change of the code: the allocator starts empty
MarkNothing == {}

\* NewMaster marks the subnets of the nodes that GetNodes returns
MarkExisting == { api[n].sub : n \in { m \in Nodes : api[m] # None } } \ {None}

Dies ==
    /\ up /\ Spend("restart")
    /\ up' = FALSE
    /\ eh' = NewHandler
    /\ pending' = [n \in Nodes |-> <<>>]
    /\ job' = [n \in Nodes |-> None]
    /\ allocated' = {}
    \* work cut off: a deletion is forgotten, and a policy may lack its binding
    /\ undone' = undone \cup { n \in Nodes : \/ At(n, "bind")
                                             \/ None \in Range(pending[n])
                                             \/ eh.deleted[n] # None }
    /\ UNCHANGED <<world, api, ovn, loose, leaked>>

NewMaster ==
    /\ ~up
    /\ up' = TRUE
    /\ allocated' = MarkExisting
    /\ eh' = Listed(api)
    /\ leaked' = {}
    /\ UNCHANGED <<world, budget, api, pending, job, ovn, loose, undone>>

-----------------------------------------------------------------------------
Init ==
    /\ world \in Worlds
    /\ budget = [come |-> world.comes, go |-> world.goes, label |-> world.labels,
                 update |-> world.updates, fault |-> world.faults,
                 restart |-> world.restarts]
    /\ api = [n \in Nodes |-> None]
    /\ pending = [n \in Nodes |-> <<>>]
    /\ up = TRUE
    /\ eh = NewHandler
    /\ allocated = {}
    /\ job = [n \in Nodes |-> None]
    /\ sw = [n \in Nodes |-> None]
    /\ policy = [n \in Nodes |-> None]
    /\ binding = [n \in Nodes |-> {}]
    /\ loose = {} /\ leaked = {} /\ undone = {}

Next ==
    \/ \E n \in Nodes, hybrid \in BOOLEAN : NodeComes(n, hybrid)
    \/ \E n \in Nodes, h \in HostSubnets : HostSubnetComes(n, h)
    \/ \E n \in Nodes : NodeGoes(n)
    \/ \E n \in Nodes : Relabel(n)
    \/ \E n \in Nodes : Heartbeat(n)
    \/ \E n \in Nodes : SwitchComes(n)
    \/ \E n \in Nodes : ManagementPortComes(n)
    \/ \E n \in Nodes : SwitchGoes(n)
    \/ \E n \in Nodes : Deliver(n)
    \/ \E n \in Nodes : RetryDue(n)
    \/ \E n \in Nodes : Start(n)
    \/ \E n \in Nodes : Finish(n)
    \/ \E n \in Nodes : Policy(n)
    \/ \E n \in Nodes : CreateMACBinding(n)
    \/ \E n \in Nodes : AddPort(n)
    \/ \E n \in Nodes : DeletePort(n)
    \/ \E n \in Nodes : CommandFails(n)
    \/ \E n \in Nodes : Annotate(n)
    \/ \E n \in Nodes : AnnotateFails(n)
    \/ \E n \in Nodes : AnnotateReplyLost(n)
    \/ \E n \in Nodes : DeleteNode(n)
    \/ \E n \in Nodes : RemovePolicy(n)
    \/ \E n \in Nodes : Forget(n)
    \/ Dies
    \/ NewMaster

Spec == Init /\ [][Next]_vars

-----------------------------------------------------------------------------
(***************************************************************************)
(* Properties.                                                             *)
(***************************************************************************)
Annotated == { api[n].sub : n \in { m \in Nodes : api[m] # None } } \ {None}

Settled == /\ up /\ Idle(eh)
           /\ \A n \in Nodes : pending[n] = <<>>

\* Two nodes never have the same hybrid subnet in their annotations, and every
\* such subnet is taken in the allocator: across workers that read old copies,
\* failing patches, deletions that are retried and restarts, only a lost reply
\* (AddNode releases what the node has) or a retried deletion can break it.
HybridSubnetsDistinct ==
    /\ \A m, n \in Nodes :
          /\ m # n /\ api[m] # None /\ api[n] # None
          /\ api[m].sub # None /\ api[m].sub = api[n].sub
          => api[m].sub \in loose
    /\ up => \A s \in Annotated \ loose : s \in allocated

\* When the queue is empty, what the controller keeps follows the nodes: no subnet
\* is taken that no node has, and an ordinary node has its port with the annotated
\* MAC, the policy to its own subnet's address and the MAC binding for it, and its
\* switch keeps pods off both reserved addresses; a node that is gone has none.
HybridFollowsNodes ==
    Settled =>
        /\ allocated \subseteq Annotated \cup leaked
        /\ \A n \in Nodes \ undone :
              IF Host(n) # None
              THEN /\ policy[n] = NextHop(Host(n))
                   /\ <<policy[n], api[n].mac>> \in binding[n]
                   /\ sw[n] # None => sw[n].port = api[n].mac
              ELSE (api[n] = None \/ api[n].hybrid) => policy[n] = None
        /\ \A n \in Nodes : sw[n] # None =>
              sw[n].excl = IF sw[n].mgmt THEN "hybrid" ELSE "both"
=============================================================================
