-------------------------------- MODULE Pods --------------------------------
(***************************************************************************)
(* Logical ports of the pods of one node: pkg/ovn/pods.go, the pod and     *)
(* node handlers and the retry list of pkg/ovn/ovn.go, the node's IPAM in  *)
(* pkg/ovn/logical_switch_manager.go and pkg/ovn/port_cache.go.            *)
(*                                                                         *)
(* A pod's port is set up by addLogicalPort, which three kinds of          *)
(* goroutine run: the event queue of the pod's name, the retry loop (it    *)
(* holds retryPodsLock for a whole iteration) and the node handler (for    *)
(* the pods that existed before the node).  Each reads and writes four     *)
(* stores that share no lock: the pod's annotation in the API server, the  *)
(* port in OVN, the node's IPAM and the port cache.                        *)
(*                                                                         *)
(* An address stands for the pod's list of addresses (one per subnet of    *)
(* the node) and its MAC.  Pods are not host-networked; namespaces,        *)
(* gateways and QoS only enter as calls of addLogicalPort that may fail.   *)
(***************************************************************************)
EXTENDS Integers, FiniteSets

CONSTANTS Names,        \* pod names: one logical port and one event queue each
          MaxUIDs,      \* bound: pods created with the same name, one by one
          IPs,          \* the addresses of the node's subnet
          MaxFaults,    \* bound: failing calls to OVN or to the API server
          MaxRestarts,  \* bound: restarts of ovnkube-master
          NodeLate,     \* TRUE: the node joins while the pods' handler runs
          Reuse,        \* when a name may be used again: "any" time, once the events
                        \* of its last pod are "handled", or once the port of that
                        \* pod has "expired" from the cache
          NewAtBoot,    \* TRUE: pods without an annotation while the master boots
          None, Alias   \* no value; a pointer to the node handler's loop variable

ASSUME BoundsAssumption == /\ MaxUIDs \in Nat \ {0}
                           /\ MaxFaults \in Nat
                           /\ MaxRestarts \in Nat
ASSUME TogglesAssumption == /\ {NodeLate, NewAtBoot} \subseteq BOOLEAN
                            /\ Reuse \in {"any", "handled", "expired"}
ASSUME ThreadsAssumption == {"retry", "node"} \cap Names = {}
UIDs    == Names \X (1 .. MaxUIDs)
Threads == Names \cup {"retry", "node"}

\* What the code reads of a pod: its UID, whether spec.nodeName is set, and the
\* address in its k8s.ovn.org/pod-networks annotation.
PodObj == [uid : UIDs, sched : BOOLEAN, ann : IPs \cup {None}]

Events    == [type : {"add", "update", "delete"}, obj : PodObj]
PortInfos == [ip : IPs, expires : BOOLEAN]

ASSUME NoneAssumption == /\ None # Alias /\ None \notin IPs
                         /\ {None, Alias} \cap PodObj = {}
                         /\ None \notin Events \cup PortInfos

NameOf(p) == p.uid[1]

VARIABLES
  pod,        \* API server: the pod of each name, or None
  created,    \* API server: how many pods were created with each name
  store,      \* the informer's copy of pod
  queue,      \* the informer's event queue of each name (it holds one event)
  lsp,        \* OVN: the address of each logical port, or None without a port
  switch,     \* logicalSwitchManager.cache has the node
  ipam,       \* the allocated addresses of the node's IPAM
  portCache,  \* portCache.cache: [ip, expires], or None
  retryPods,  \* oc.retryPods: the pod to retry (or Alias), or None
  retryKey,   \* the key iterateRetryPods is at
  due,        \* the keys it has still to visit
  todo,       \* the listed pods that the node handler has still to visit
  loopPod,    \* the loop variable `pod' of the node handler
  th,         \* the threads: where they are and their local variables
  boot,       \* how far Run has come: "nodes", "sync", "adds" or "run"
  joined,     \* the node is in the API server
  faults, restarts,
  flags       \* what happened that the README lists

api      == <<pod, created>>
informer == <<store, queue>>
mem      == <<switch, ipam, portCache>>
retry    == <<retryPods, retryKey, due>>
loop     == <<todo, loopPod>>
phase    == <<boot, joined, restarts, flags>>
vars     == <<api, informer, lsp, mem, retry, loop, th, phase, faults>>

-----------------------------------------------------------------------------
Thread(pc, p) == [pc |-> pc, obj |-> p, seen |-> FALSE, ip |-> None]
Idle          == Thread("idle", None)

\* The pod a thread works on: its own copy, or what the loop variable holds now.
Pod(t)  == IF th[t].obj = Alias THEN loopPod ELSE th[t].obj
Port(t) == NameOf(Pod(t))

At(t, pc)   == th[t].pc = pc
Goto(t, pc) == th' = [th EXCEPT ![t].pc = pc]

\* retryPodsLock: iterateRetryPods holds it until the iteration ends.
LockFree == At("retry", "idle")

Fault == faults > 0 /\ faults' = faults - 1
Flag(f, b) == flags' = IF b THEN flags \cup {f} ELSE flags

\* addLogicalPort and ensurePod return to their caller.
Return(t, ok) ==
  /\ th' = [th EXCEPT ![t] =
       CASE t = "retry"              -> Thread("iterate", None)
         [] t # "retry" /\ ~ok       -> Thread("track", @.obj)
         [] t = "node" /\ ok         -> Thread("loop", None)
         [] t \in Names /\ ok        -> Idle]
  /\ retryPods' = IF t = "retry" /\ ok THEN [retryPods EXCEPT ![retryKey] = None]
                  ELSE retryPods

\* ensurePod with addPort: unscheduled pods are left for later.
EnsurePod(p) == IF p.sched THEN "wait" ELSE "track"

-----------------------------------------------------------------------------
\* The API server and the informer (external to the repository).

\* The events of the last pod with this name are handled.
Forgotten(n) == store[n] = None /\ queue[n] = None /\ At(n, "idle")

MayCreate(n) ==
  /\ pod[n] = None /\ created[n] < MaxUIDs
  /\ Reuse # "any" => Forgotten(n)
  /\ Reuse = "expired" => portCache[n] = None
  /\ NewAtBoot \/ boot = "run"

CreatePod(n, s) ==
  /\ MayCreate(n)
  /\ created' = [created EXCEPT ![n] = @ + 1]
  /\ pod' = [pod EXCEPT ![n] = [uid |-> <<n, created'[n]>>, sched |-> s, ann |-> None]]
  /\ Flag("hurried", ~Forgotten(n) \/ portCache[n] # None)
  /\ UNCHANGED <<informer, lsp, mem, retry, loop, th, boot, joined, restarts, faults>>

SchedulePod(n) ==
  /\ pod[n] # None /\ ~pod[n].sched
  /\ NewAtBoot \/ boot = "run"
  /\ pod' = [pod EXCEPT ![n].sched = TRUE]
  /\ UNCHANGED <<created, informer, lsp, mem, retry, loop, th, phase, faults>>

DeletePod(n) ==
  /\ pod[n] # None
  /\ pod' = [pod EXCEPT ![n] = None]
  /\ UNCHANGED <<created, informer, lsp, mem, retry, loop, th, phase, faults>>

\* The watch brings the store up to date with the API server; once the handler
\* is registered the change is also queued for it.  A pod that was replaced is
\* first seen to be deleted.
Event(old, new) ==
  CASE old = None -> [type |-> "add", obj |-> new]
    [] new = None -> [type |-> "delete", obj |-> old]
    [] OTHER      -> [type |-> "update", obj |-> new]

Deliver(n) ==
  /\ store[n] # pod[n]
  /\ boot \in {"nodes", "run"} /\ queue[n] = None
  /\ LET new == IF store[n] # None /\ pod[n] # None /\ store[n].uid # pod[n].uid
                THEN None ELSE pod[n]
     IN  /\ store' = [store EXCEPT ![n] = new]
         /\ queue' = IF boot = "run" THEN [queue EXCEPT ![n] = Event(store[n], new)]
                     ELSE queue
  /\ UNCHANGED <<api, lsp, mem, retry, loop, th, phase, faults>>

-----------------------------------------------------------------------------
\* The pod handler: AddFunc, UpdateFunc and DeleteFunc of WatchPods.

Take(n, type) ==
  /\ At(n, "idle")
  /\ queue[n] # None /\ queue[n].type = type
  /\ queue' = [queue EXCEPT ![n] = None]

PodAdd(n) ==
  /\ Take(n, "add")
  /\ th' = [th EXCEPT ![n] = Thread(EnsurePod(queue[n].obj), queue[n].obj)]
  /\ UNCHANGED <<api, store, lsp, mem, retry, loop, phase, faults>>

\* The retry list after checkAndDeleteRetryPod.
WithoutEntry(u) == [retryPods EXCEPT ![u] = None]

\* checkAndDeleteRetryPod decides whether the update sets the port up; if not,
\* the pod's bandwidth and gateways are, and when that fails it is retried.
PodUpdate(n) ==
  /\ Take(n, "update")
  /\ LockFree
  /\ LET p == queue[n].obj IN
     /\ \/ /\ th' = [th EXCEPT ![n] = CASE ~p.sched -> Thread("track", p)
                                        [] p.sched /\ retryPods[p.uid] # None -> Thread("wait", p)
                                        [] p.sched /\ retryPods[p.uid] = None -> Idle]
           /\ UNCHANGED faults
        \/ /\ p.sched /\ retryPods[p.uid] = None /\ Fault
           /\ th' = [th EXCEPT ![n] = Thread("track", p)]
     /\ retryPods' = WithoutEntry(p.uid)
  /\ UNCHANGED <<api, store, lsp, mem, retryKey, due, loop, phase>>

\* deleteLogicalPort looks the port up in the cache: an entry that waits for
\* its removal is found as well.
PodDelete(n) ==
  /\ Take(n, "delete")
  /\ LockFree
  /\ LET p   == queue[n].obj
         hit == portCache[n] # None
     IN  /\ retryPods' = WithoutEntry(p.uid)
         /\ th' = [th EXCEPT ![n] =
                     [pc   |-> "lspdel",
                      obj  |-> p,
                      seen |-> hit,
                      ip   |-> IF hit THEN portCache[n].ip
                               ELSE IF p.sched THEN p.ann ELSE None]]
  /\ UNCHANGED <<api, store, lsp, mem, retryKey, due, loop, phase, faults>>

\* A failing LSPDel is logged and the deletion goes on.
OvnNBLSPDel(n) ==
  /\ At(n, "lspdel")
  /\ \/ lsp' = [lsp EXCEPT ![n] = None] /\ UNCHANGED <<faults, flags>>
     \/ Fault /\ Flag("undeleted", TRUE) /\ UNCHANGED lsp
  /\ Goto(n, "release")
  /\ UNCHANGED <<api, informer, mem, retry, loop, boot, joined, restarts>>

\* ReleaseIPs, which does nothing for a node without IPAM or without an address.
Released(ip) == IF switch THEN ipam \ {ip} ELSE ipam

ReleasePortIPs(n) ==
  /\ At(n, "release")
  /\ ipam' = Released(th[n].ip)
  /\ th' = [th EXCEPT ![n] = IF @.seen THEN [@ EXCEPT !.pc = "uncache"] ELSE Idle]
  /\ UNCHANGED <<api, informer, lsp, switch, portCache, retry, loop, phase, faults>>

\* portCache.remove marks the entry; its timer removes it a minute later.
UncachePort(n) ==
  /\ At(n, "uncache")
  /\ portCache' = IF portCache[n] = None THEN portCache
                  ELSE [portCache EXCEPT ![n].expires = TRUE]
  /\ th' = [th EXCEPT ![n] = Idle]
  /\ UNCHANGED <<api, informer, lsp, switch, ipam, retry, loop, phase, faults>>

ExpirePort(n) ==
  /\ portCache[n] # None /\ portCache[n].expires
  /\ portCache' = [portCache EXCEPT ![n] = None]
  /\ UNCHANGED <<api, informer, lsp, switch, ipam, retry, loop, th, phase, faults>>

-----------------------------------------------------------------------------
\* addLogicalPort, one action between two accesses to a store.

\* Polls the switch manager for 30 seconds.
WaitForNodeLogicalSwitch(t) ==
  /\ At(t, "wait")
  /\ IF switch THEN Goto(t, "get") /\ UNCHANGED retryPods
     ELSE Return(t, FALSE)
  /\ UNCHANGED <<api, informer, lsp, mem, retryKey, due, loop, phase, faults>>

\* Mutant of GetPort: a pod's annotation is not looked at.
GetPortIgnoresAnnotation(t) ==
  /\ At(t, "get")
  /\ th' = [th EXCEPT ![t].pc = "addr", ![t].seen = lsp[Port(t)] # None]
  /\ UNCHANGED <<api, informer, lsp, mem, retry, loop, phase, faults>>

\* LSPGet decides whether the transaction will hold an LSPAdd.
GetPort(t) ==
  /\ At(t, "get")
  /\ \/ /\ th' = [th EXCEPT ![t].pc = IF Pod(t).ann # None THEN "reserve" ELSE "addr",
                            ![t].seen = lsp[Port(t)] # None]
        /\ UNCHANGED <<retryPods, faults>>
     \/ Fault /\ Return(t, FALSE)
  /\ UNCHANGED <<api, informer, lsp, mem, retryKey, due, loop, phase>>

\* Without an annotation, the address of the existing port is tried first.
GetPortAddresses(t) ==
  /\ At(t, "addr")
  /\ \/ /\ th' = [th EXCEPT ![t].pc = "assign", ![t].ip = lsp[Port(t)]]
        /\ UNCHANGED <<retryPods, faults>>
     \/ Fault /\ Return(t, FALSE)
  /\ UNCHANGED <<api, informer, lsp, mem, retryKey, due, loop, phase>>

\* AllocateIPs marks addresses that are known already.  Its callers take
\* ErrAllocated as success: whoever holds the address.
Reserved(A) == ipam \cup A

\* The annotated address.
ReserveAnnotated(t) ==
  /\ At(t, "reserve")
  /\ IF switch
     THEN /\ ipam' = Reserved({Pod(t).ann})
          /\ th' = [th EXCEPT ![t].pc = "execute", ![t].ip = Pod(t).ann]
          /\ UNCHANGED retryPods
     ELSE Return(t, FALSE) /\ UNCHANGED ipam
  /\ UNCHANGED <<api, informer, lsp, switch, portCache, retryKey, due, loop, phase, faults>>

\* Mutant of Candidates: the allocator hands out addresses in use.
AnyCandidate(t) == IF th[t].ip # None THEN {th[t].ip} ELSE IPs

\* The port's address, ErrAllocated taken as success, or else the next free one.
Candidates(t) == IF th[t].ip # None THEN {th[t].ip} ELSE IPs \ ipam

AssignAddress(t) ==
  /\ At(t, "assign")
  /\ \/ \E a \in Candidates(t) :
          /\ switch
          /\ ipam' = ipam \cup {a}
          /\ th' = [th EXCEPT ![t].pc = "annotate", ![t].ip = a]
          /\ UNCHANGED retryPods
     \/ /\ ~switch \/ Candidates(t) = {}
        /\ Return(t, FALSE)
        /\ UNCHANGED ipam
  /\ UNCHANGED <<api, informer, lsp, switch, portCache, retryKey, due, loop, phase, faults>>

\* Mutant of SetAnnotationsOnPod: an error does not release the address.
SetAnnotationsLeaks(t) ==
  /\ At(t, "annotate")
  /\ \/ /\ pod[Port(t)] # None
        /\ pod' = [pod EXCEPT ![Port(t)].ann = th[t].ip]
        /\ Goto(t, "execute")
        /\ UNCHANGED <<retryPods, faults>>
     \/ /\ IF pod[Port(t)] # None THEN Fault ELSE UNCHANGED faults
        /\ Return(t, FALSE)
        /\ UNCHANGED pod
  /\ UNCHANGED <<created, informer, lsp, mem, retryKey, due, loop, phase>>

\* A merge patch by name: whatever pod has the name now is annotated.  When it
\* fails the deferred function releases the address.
SetAnnotationsOnPod(t) ==
  /\ At(t, "annotate")
  /\ \/ /\ pod[Port(t)] # None
        /\ pod' = [pod EXCEPT ![Port(t)].ann = th[t].ip]
        /\ Goto(t, "execute")
        /\ UNCHANGED <<ipam, retryPods, faults>>
     \/ /\ IF pod[Port(t)] # None THEN Fault ELSE UNCHANGED faults
        /\ ipam' = Released(th[t].ip)
        /\ Return(t, FALSE)
        /\ UNCHANGED pod
  /\ UNCHANGED <<created, informer, lsp, switch, portCache, retryKey, due, loop, phase>>

\* The attempt fails with a pod annotated that its copy, which will be retried,
\* does not show to be.
Unfinished(t) == Flag("unfinished", Pod(t).ann = None)

\* One transaction.  LSPAdd of an existing port fails; setting the columns of a
\* port that is gone changes nothing.
ExecutePort(t) ==
  /\ At(t, "execute")
  /\ \/ /\ th[t].seen \/ lsp[Port(t)] = None
        /\ lsp' = IF th[t].seen /\ lsp[Port(t)] = None THEN lsp
                  ELSE [lsp EXCEPT ![Port(t)] = th[t].ip]
        /\ Goto(t, "cache")
        /\ UNCHANGED <<retryPods, faults, flags>>
     \/ /\ IF th[t].seen \/ lsp[Port(t)] = None THEN Fault ELSE UNCHANGED faults
        /\ Return(t, FALSE)
        /\ Unfinished(t)
        /\ UNCHANGED lsp
  /\ UNCHANGED <<api, informer, mem, retryKey, due, loop, boot, joined, restarts>>

\* LSPGet, portCache.add, then the namespace, the gateway routes, port security
\* and the bandwidth of the pod, any of which may fail.
CachePort(t) ==
  /\ At(t, "cache")
  /\ \/ /\ lsp[Port(t)] # None
        /\ portCache' = [portCache EXCEPT ![Port(t)] =
                           [ip |-> th[t].ip, expires |-> FALSE]]
        /\ \/ Return(t, TRUE) /\ UNCHANGED <<faults, flags>>
           \/ Return(t, FALSE) /\ Fault /\ Unfinished(t)
     \/ /\ lsp[Port(t)] = None
        /\ Return(t, FALSE)
        /\ Unfinished(t)
        /\ UNCHANGED <<portCache, faults>>
  /\ UNCHANGED <<api, informer, lsp, switch, ipam, retryKey, due, loop, boot, joined, restarts>>

AddLogicalPort(t) ==
  \/ WaitForNodeLogicalSwitch(t)
  \/ GetPort(t)
  \/ GetPortAddresses(t)
  \/ ReserveAnnotated(t)
  \/ AssignAddress(t)
  \/ SetAnnotationsOnPod(t)
  \/ ExecutePort(t)
  \/ CachePort(t)

\* Mutant of AddRetryPod: the failed pod is forgotten.
AddRetryPodForgets(t) ==
  /\ At(t, "track")
  /\ LockFree
  /\ th' = [th EXCEPT ![t] = IF t = "node" THEN Thread("loop", None) ELSE Idle]
  /\ UNCHANGED <<api, informer, lsp, mem, retry, loop, phase, faults>>

\* addRetryPod.  The node handler passes a pointer to its loop variable.
AddRetryPod(t) ==
  /\ At(t, "track")
  /\ LockFree
  /\ retryPods' = [retryPods EXCEPT ![Pod(t).uid] = th[t].obj]
  /\ th' = [th EXCEPT ![t] = IF t = "node" THEN Thread("loop", None) ELSE Idle]
  /\ UNCHANGED <<api, informer, lsp, mem, retryKey, due, loop, phase, faults>>

-----------------------------------------------------------------------------
\* iterateRetryPods: the entries S have waited for a minute.

RetryBegin(S) ==
  /\ boot \in {"sync", "adds", "run"}
  /\ At("retry", "idle")
  /\ S # {} /\ \A u \in S : retryPods[u] # None
  /\ due' = S
  /\ Goto("retry", "iterate")
  /\ UNCHANGED <<api, informer, lsp, mem, retryPods, retryKey, loop, phase, faults>>

\* ensurePod of a pod that is not scheduled leaves its entry alone.
RetryNext(u) ==
  /\ At("retry", "iterate")
  /\ u \in due
  /\ due' = due \ {u}
  /\ retryKey' = u
  /\ LET o == retryPods[u]
         p == IF o = Alias THEN loopPod ELSE o
     IN  th' = IF p.sched THEN [th EXCEPT !["retry"] = Thread("wait", o)] ELSE th
  /\ UNCHANGED <<api, informer, lsp, mem, retryPods, loop, phase, faults>>

RetryEnd ==
  /\ At("retry", "iterate")
  /\ due = {}
  /\ retryKey' = None
  /\ Goto("retry", "idle")
  /\ UNCHANGED <<api, informer, lsp, mem, retryPods, due, loop, phase, faults>>

-----------------------------------------------------------------------------
\* The node handler's AddFunc: the switch with an empty IPAM, then the pods that
\* the API server has on the node.

NodeAdd ==
  /\ At("node", "idle") /\ ~switch
  /\ boot = "nodes" \/ (boot = "run" /\ ~joined)
  /\ switch' = TRUE
  /\ ipam' = {}
  /\ joined' = TRUE
  /\ Goto("node", "list")
  /\ UNCHANGED <<api, informer, lsp, portCache, retry, loop, boot, restarts, faults, flags>>

NodeList ==
  /\ At("node", "list")
  /\ todo' = {pod[n] : n \in {m \in Names : pod[m] # None /\ pod[m].sched}}
  /\ Goto("node", "loop")
  /\ UNCHANGED <<api, informer, lsp, mem, retry, loopPod, phase, faults>>

NodeNextPod(p) ==
  /\ At("node", "loop")
  /\ p \in todo
  /\ todo' = todo \ {p}
  /\ loopPod' = p
  /\ th' = [th EXCEPT !["node"] = Thread(EnsurePod(p), Alias)]
  /\ UNCHANGED <<api, informer, lsp, mem, retry, phase, faults>>

NodeAdded ==
  /\ At("node", "loop")
  /\ todo = {}
  /\ Goto("node", "idle")
  /\ UNCHANGED <<api, informer, lsp, mem, retry, loop, phase, faults>>

-----------------------------------------------------------------------------
\* ovnkube-master restarts: its memory is lost, its informers list the pods
\* afresh, and Run registers the node handler before the pod handler.

Restart ==
  /\ restarts < MaxRestarts
  /\ NewAtBoot \/ \A n \in Names : pod[n] # None /\ pod[n].sched => pod[n].ann # None
  /\ restarts' = restarts + 1
  /\ boot' = IF joined THEN "nodes" ELSE "sync"
  /\ store' = pod
  /\ queue' = [n \in Names |-> None]
  /\ switch' = FALSE
  /\ ipam' = {}
  /\ portCache' = [n \in Names |-> None]
  /\ retryPods' = [u \in UIDs |-> None]
  /\ retryKey' = None
  /\ due' = {}
  /\ todo' = {}
  /\ loopPod' = None
  /\ th' = [t \in Threads |-> Idle]
  /\ UNCHANGED <<api, lsp, joined, faults, flags>>

\* WatchNodes returns when the handler has added the nodes that exist.
WatchNodesReturns ==
  /\ boot = "nodes" /\ switch /\ At("node", "idle")
  /\ boot' = "sync"
  /\ UNCHANGED <<api, informer, lsp, mem, retry, loop, th, joined, restarts, faults, flags>>

\* The ports that syncPods expects: those of annotated pods in the store.
Expected == {n \in Names : store[n] # None /\ store[n].sched /\ store[n].ann # None}

\* syncPods, then the initial add of every pod in the store.
SyncPods ==
  /\ boot = "sync"
  /\ boot' = "adds"
  /\ ipam' = IF switch THEN Reserved({store[n].ann : n \in {m \in Expected : store[m] # None}})
             ELSE ipam
  /\ lsp' = [n \in Names |-> IF joined /\ n \notin Expected THEN None ELSE lsp[n]]
  /\ queue' = [n \in Names |-> IF store[n] = None THEN None ELSE Event(None, store[n])]
  /\ UNCHANGED <<api, store, switch, portCache, retry, loop, th, joined, restarts, faults, flags>>

\* The handler is registered once the initial adds have been processed.
WatchPodsReturns ==
  /\ boot = "adds"
  /\ \A n \in Names : queue[n] = None /\ At(n, "idle")
  /\ boot' = "run"
  /\ UNCHANGED <<api, informer, lsp, mem, retry, loop, th, joined, restarts, faults, flags>>

-----------------------------------------------------------------------------
Init ==
  /\ pod = [n \in Names |-> None]
  /\ created = [n \in Names |-> 0]
  /\ store = [n \in Names |-> None]
  /\ queue = [n \in Names |-> None]
  /\ lsp = [n \in Names |-> None]
  /\ switch = ~NodeLate
  /\ ipam = {}
  /\ portCache = [n \in Names |-> None]
  /\ retryPods = [u \in UIDs |-> None]
  /\ retryKey = None
  /\ due = {}
  /\ todo = {}
  /\ loopPod = None
  /\ th = [t \in Threads |-> Idle]
  /\ boot = "run"
  /\ joined = ~NodeLate
  /\ faults = MaxFaults
  /\ restarts = 0
  /\ flags = {}

HandlePod(n) ==
  \/ PodAdd(n) \/ PodUpdate(n) \/ PodDelete(n)
  \/ OvnNBLSPDel(n) \/ ReleasePortIPs(n) \/ UncachePort(n)

Cluster ==
  \/ \E n \in Names : \/ \E s \in BOOLEAN : CreatePod(n, s)
                      \/ SchedulePod(n)
                      \/ DeletePod(n)
  \/ Restart

Master ==
  \/ \E n \in Names : Deliver(n) \/ HandlePod(n) \/ ExpirePort(n)
  \/ \E t \in Threads : AddLogicalPort(t) \/ AddRetryPod(t)
  \/ \E S \in SUBSET UIDs : RetryBegin(S)
  \/ \E u \in UIDs : RetryNext(u)
  \/ RetryEnd
  \/ NodeAdd \/ NodeList \/ NodeAdded
  \/ \E p \in todo : NodeNextPod(p)
  \/ WatchNodesReturns \/ SyncPods \/ WatchPodsReturns

Next == Cluster \/ Master

Spec == Init /\ [][Next]_vars

\* Fairness: every goroutine is scheduled, the watch delivers what changed, and
\* an entry that stays in the retry list is due sooner or later (the loop runs
\* every 30 seconds, an entry is due after 60).  A handler that waits for
\* retryPodsLock gets it in the end (sync.Mutex does not starve).  Nothing
\* obliges the cluster to create, schedule or delete a pod, or a call to fail.
Fairness ==
  /\ \A n \in Names : WF_vars(Deliver(n)) /\ WF_vars(HandlePod(n)) /\ WF_vars(ExpirePort(n))
  /\ \A t \in Threads : WF_vars(AddLogicalPort(t)) /\ WF_vars(AddRetryPod(t))
  /\ \A t \in Names \cup {"node"} : SF_vars(AddRetryPod(t))
  /\ \A n \in Names : SF_vars(PodUpdate(n) \/ PodDelete(n))
  /\ \A u \in UIDs : WF_vars(\E S \in SUBSET UIDs : u \in S /\ RetryBegin(S))
  /\ WF_vars(\E u \in UIDs : RetryNext(u))
  /\ WF_vars(RetryEnd)
  /\ WF_vars(NodeAdd \/ NodeList \/ NodeAdded \/ \E p \in todo : NodeNextPod(p))
  /\ WF_vars(WatchNodesReturns \/ SyncPods) /\ WF_vars(WatchPodsReturns)

FairSpec == Spec /\ Fairness

-----------------------------------------------------------------------------
PCs == {"idle", "wait", "get", "addr", "reserve", "assign", "annotate", "execute",
        "cache", "track", "lspdel", "release", "uncache", "iterate", "list", "loop"}

\* Every variable holds values of its type.
TypeOK ==
  /\ pod \in [Names -> PodObj \cup {None}]
  /\ created \in [Names -> 0 .. MaxUIDs]
  /\ store \in [Names -> PodObj \cup {None}]
  /\ queue \in [Names -> Events \cup {None}]
  /\ lsp \in [Names -> IPs \cup {None}]
  /\ switch \in BOOLEAN
  /\ ipam \subseteq IPs
  /\ portCache \in [Names -> PortInfos \cup {None}]
  /\ retryPods \in [UIDs -> PodObj \cup {None, Alias}]
  /\ retryKey \in UIDs \cup {None}
  /\ due \subseteq UIDs
  /\ todo \subseteq PodObj
  /\ loopPod \in PodObj \cup {None}
  /\ th \in [Threads -> [pc : PCs, obj : PodObj \cup {None, Alias},
                         seen : BOOLEAN, ip : IPs \cup {None}]]
  /\ boot \in {"nodes", "sync", "adds", "run"}
  /\ joined \in BOOLEAN
  /\ faults \in 0 .. MaxFaults
  /\ restarts \in 0 .. MaxRestarts
  /\ flags \subseteq {"hurried", "unfinished", "undeleted"}

Annotated(n) == pod[n] # None /\ pod[n].ann # None

Working(t) == th[t].pc \in {"get", "addr", "reserve", "assign", "annotate", "execute",
                            "cache", "lspdel", "release", "uncache"}

\* The master has nothing left to do but to retry.
Settled ==
  /\ boot = "run"
  /\ \A t \in Threads : At(t, "idle")
  /\ \A n \in Names : queue[n] = None /\ store[n] = pod[n]

Connected(n) == Annotated(n) /\ lsp[n] = pod[n].ann

\* Two pods of a node never carry the same address in their annotations, however
\* addLogicalPort interleaves in the pod handlers, the retry loop and the node
\* handler.
UniqueIPs ==
  \A m, n \in Names : m # n /\ Annotated(m) /\ Annotated(n) => pod[m].ann # pod[n].ann

\* Once the master runs, the address a pod is annotated with stays allocated in
\* the node's IPAM until the pod is deleted: AllocateNextIPs gives it to nobody.
ReservedIPs ==
  boot = "run" => \A n \in Names : Annotated(n) => pod[n].ann \in ipam

\* Between the first LSPGet of addLogicalPort and its return, and while
\* deleteLogicalPort runs, no other thread works on the same port: the retry
\* list and its lock keep the retry loop and the pod handlers apart.
OneThreadPerPort ==
  \A s, t \in Threads : s # t /\ Working(s) /\ Working(t) => Port(s) # Port(t)

\* deleteLogicalPort never gives back an address that the annotation of a pod
\* with another name holds.
ReleasesOwnAddress ==
  \A n \in Names : At(n, "release") /\ th[n].ip # None =>
    \A m \in Names \ {n} : Annotated(m) => pod[m].ann # th[n].ip

\* When every event has been handled, only addresses of existing pods are still
\* allocated: addLogicalPort and deleteLogicalPort released all the others.
NoLeak == Settled => \A a \in ipam : \E n \in Names : Annotated(n) /\ pod[n].ann = a

\* When every event has been handled, a port belongs to a pod that exists and has
\* the address of that pod's annotation (also when addLogicalPort was cut off by
\* a restart), and a scheduled pod without a port is in the retry list.
PortsMatch ==
  Settled => \A n \in Names :
    /\ lsp[n] # None => Connected(n)
    /\ pod[n] # None /\ pod[n].sched /\ lsp[n] = None => retryPods[pod[n].uid] # None

\* An entry of the retry list holds the pod that addRetryPod filed it under.
RetryTracksItself ==
  \A u \in UIDs : retryPods[u] # None =>
    IF retryPods[u] = Alias THEN loopPod.uid = u ELSE retryPods[u].uid = u

\* addLogicalPort never changes the address in a pod's annotation: the CNI plugin
\* configures the pod with the first one it reads.
KeepsAnnotation ==
  \A n \in Names :
    Annotated(n) /\ pod'[n] # None /\ pod'[n].uid = pod[n].uid
      => pod'[n].ann = pod[n].ann

\* addLogicalPort annotates the pod it was called for, never a later one that has
\* the same name.
AnnotatesOwn ==
  \A t \in Threads :
    At(t, "annotate") /\ pod' # pod /\ th'[t].pc = "execute"
      => pod[Port(t)].uid = Pod(t).uid

\* A pod that is connected keeps its annotation, and so its address, whatever
\* call fails, however its name is used again and whatever copy of it a thread
\* works on.
KeepsConnected ==
  \A n \in Names :
    Connected(n) /\ pod'[n] # None /\ pod'[n].uid = pod[n].uid
      => pod'[n].ann = pod[n].ann

\* While the master runs no two threads work on one port, whatever fails.
\* Unless something happened that flags names, two pods never have the same
\* address, an address that a pod is annotated with stays allocated, and no
\* other pod's handler releases it while the master runs.
AddressesOwned ==
  /\ restarts = 0 => OneThreadPerPort
  /\ flags = {} => UniqueIPs /\ ReservedIPs /\ (restarts = 0 => ReleasesOwnAddress)

\* When every event has been handled and flags names nothing, the ports are
\* those of the pods, with the annotated addresses, and while the master runs
\* no other address is left allocated.
SettledMatches == flags = {} => PortsMatch /\ (restarts = 0 => NoLeak)

\* The annotation of a connected pod never changes, whatever fails.  Unless
\* something happened that flags names no annotation does, and while the master
\* runs it is only written by a thread that works for that pod.
AnnotationsKept ==
  [][KeepsConnected /\ (flags = {} => KeepsAnnotation /\ (restarts = 0 => AnnotatesOwn))]_vars

\* Whatever call of addLogicalPort failed before, and also when the node joins
\* after the pod, a scheduled pod gets an annotation and a port: the retry list,
\* the node handler and the pod handler do not lose it between them.
AllPlugged ==
  \A n \in Names : pod[n] # None /\ pod[n].sched => Annotated(n) /\ lsp[n] # None
EventuallyPlugged == []<>AllPlugged
=============================================================================
