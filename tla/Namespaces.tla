----------------------------- MODULE Namespaces -----------------------------
(***************************************************************************)
(* Namespaces in ovnkube-master (pkg/ovn/namespace.go): the table of       *)
(* namespaceInfo objects and its two-lock protocol, the address set and    *)
(* the multicast port group each namespace keeps in the OVN northbound     *)
(* database, the handlers of the namespace queue, of the pod queue and of  *)
(* the node queue that use them, and the goroutine that destroys the       *)
(* address set of a deleted namespace twenty seconds later.                *)
(*                                                                         *)
(* One step of a worker is one critical section or one database command.   *)
(* namespacesMutex is held only inside a step.  IPv4 and IPv6 sets follow  *)
(* the same code, so one family stands for both; a pod (or a node's        *)
(* management port) is named by its own address.                           *)
(***************************************************************************)
EXTENDS Integers, Sequences, FiniteSets

CONSTANTS NS,         \* namespace names
          Pods,       \* pods, each also its IP address; a pod lives once
          Nodes,      \* node names, each also its management port's IP address
          NsOf,       \* the namespace of each pod
          HostNS,     \* config.Kubernetes.HostNetworkNamespace
          MaxInfos,   \* bound: namespaceInfo objects ever created
          MaxUpdates, \* bound: annotation changes
          Faults,     \* of BOOLEAN: may a database command return an error?
          Leftovers,  \* does OVN hold what an earlier master left?
          LaggingDelete, \* may a namespace be created again while the
                      \* controller has still to handle its deletion?
          None

ASSUME NsOfAssumption == NsOf \in [Pods -> NS]
ASSUME HostNSAssumption == HostNS \in NS
ASSUME RowsAssumption == None \notin [uuid : Nat, ips : SUBSET (Pods \cup Nodes)]
ASSUME GroupsAssumption == \A ports \in SUBSET Pods : ports # None
ASSUME BoundsAssumption == MaxInfos \in Nat /\ MaxUpdates \in Nat
ASSUME SwitchAssumption == Faults \cup {Leftovers, LaggingDelete} \subseteq BOOLEAN
ASSUME DisjointAssumption ==
  /\ NS \cap Pods = {} /\ NS \cap Nodes = {} /\ Pods \cap Nodes = {}
  /\ (NS \cup Pods \cup Nodes) \cap Int = {}
  /\ None \notin NS \cup Pods \cup Nodes \cup Int

Infos == 1 .. MaxInfos
IPs   == Pods \cup Nodes

\* A worker is the queue thread of a namespace, a pod or a node; worker i in
\* Infos is the goroutine that destroys the address set of namespaceInfo i.
Workers == NS \cup Pods \cup Nodes \cup Infos

VARIABLES
  \* The API server and the informers.
  lister,      \* does the namespace exist?
  annotated,   \* its multicast annotation
  updates,     \* annotation changes so far
  nsQueue,     \* events of each namespace not yet handled
  phase,       \* "none", "pending", "running" (has PodIP) or "gone"
  podQueue,    \* events of each pod not yet handled
  nodeTodo,    \* nodes whose addNode has still to succeed
  \* The controller.
  namespaces,  \* oc.namespaces
  nsOf,        \* the name namespaceInfo i was created for
  addressSet,  \* namespaceInfo.addressSet: None or its uuid and cached ips
  multicast,   \* namespaceInfo.multicastEnabled
  owner,       \* who holds namespaceInfo.Mutex
  infos,       \* namespaceInfo objects created so far
  retryPods,   \* oc.retryPods
  portCache,   \* oc.logicalPortCache
  panicked,    \* a handler dereferenced a nil address set
  \* The workers.
  pc, job,     \* where each is, and the event it is handling
  cur,         \* the namespaceInfo it is looking at
  listed,      \* pod addresses read for a new address set
  found,       \* the uuid that `find address_set` returned
  \* The northbound database.
  sets,        \* the address set of each namespace: None, or uuid and ips
  uuids,       \* uuids handed out so far
  group,       \* the namespace port group: None, or its ports
  \* The environment.
  faulty       \* does the database fail at times?  It stays as it is.

apiVars  == <<lister, annotated, updates, phase>>
ctrlVars == <<namespaces, nsOf, addressSet, multicast, owner, infos>>
podVars  == <<retryPods, portCache>>
thrVars  == <<pc, job, cur, listed, found>>
dbVars   == <<sets, uuids, group>>
qVars    == <<nsQueue, podQueue, nodeTodo>>
vars == <<apiVars, qVars, ctrlVars, podVars, panicked, thrVars, dbVars, faulty>>

Event(op, on) == [op |-> op, mcast |-> on]
NoJob == Event("none", FALSE)
SetRec(u, ips) == [uuid |-> u, ips |-> ips]
PodsIn(ns) == {p \in Pods : NsOf[p] = ns}
Live(p)    == phase[p] \in {"pending", "running"}

Target(w) ==
  IF w \in NS THEN w
  ELSE IF w \in Pods THEN NsOf[w]
  ELSE IF w \in Nodes THEN HostNS ELSE nsOf[w]

Goto(w, l) == pc' = [pc EXCEPT ![w] = l]

-----------------------------------------------------------------------------
\* Init is the moment WatchNamespaces has run syncNamespaces: an address set
\* whose namespace is gone has been destroyed, one whose namespace exists may
\* hold anything, and every object in the listers has its add event queued.

Init ==
  /\ lister \in [NS -> BOOLEAN]
  /\ annotated \in [NS -> BOOLEAN]
  /\ \A ns \in NS : annotated[ns] => lister[ns]
  /\ updates = 0
  /\ phase \in [Pods -> {"none", "running"}]
  /\ \A p \in Pods : phase[p] = "running" => lister[NsOf[p]]
  /\ nsQueue = [ns \in NS |-> IF lister[ns] THEN <<Event("add", annotated[ns])>> ELSE <<>>]
  /\ podQueue = [p \in Pods |-> IF phase[p] = "running" THEN <<Event("add", FALSE)>> ELSE <<>>]
  /\ nodeTodo \in SUBSET Nodes
  /\ namespaces = [ns \in NS |-> None]
  /\ nsOf = [i \in Infos |-> None]
  /\ addressSet = [i \in Infos |-> None]
  /\ multicast = [i \in Infos |-> FALSE]
  /\ owner = [i \in Infos |-> None]
  /\ infos = 0
  /\ retryPods = {}
  /\ portCache = {}
  /\ panicked = FALSE
  /\ pc = [w \in Workers |-> "idle"]
  /\ job = [w \in Workers |-> NoJob]
  /\ cur = [w \in Workers |-> None]
  /\ listed = [w \in Workers |-> {}]
  /\ found = [w \in Workers |-> None]
  /\ uuids = 0
  /\ IF Leftovers
     THEN /\ sets \in [NS -> {None, SetRec(0, IPs)}]
          /\ \A ns \in NS : sets[ns] # None => lister[ns]
          /\ group \in [NS -> {None, {}}]
     ELSE /\ sets = [ns \in NS |-> None]
          /\ group = [ns \in NS |-> None]
  /\ faulty \in Faults

-----------------------------------------------------------------------------
\* The API server.

QueuedAdds ==
  UNION {{<<ns, k>> : k \in {j \in DOMAIN nsQueue[ns] : nsQueue[ns][j].op = "add"}} : ns \in NS}

CreateNS(ns) ==
  /\ ~lister[ns] /\ infos + Cardinality(QueuedAdds) < MaxInfos
  /\ LaggingDelete \/ (nsQueue[ns] = <<>> /\ pc[ns] = "idle")
  /\ lister' = [lister EXCEPT ![ns] = TRUE]
  /\ \E on \in BOOLEAN :
       /\ annotated' = [annotated EXCEPT ![ns] = on]
       /\ nsQueue' = [nsQueue EXCEPT ![ns] = Append(@, Event("add", on))]
  /\ UNCHANGED <<updates, phase, podQueue, nodeTodo, ctrlVars, podVars, thrVars, dbVars>>

UpdateNS(ns) ==
  /\ lister[ns] /\ updates < MaxUpdates
  /\ updates' = updates + 1
  /\ annotated' = [annotated EXCEPT ![ns] = ~@]
  /\ nsQueue' = [nsQueue EXCEPT ![ns] = Append(@, Event("update", ~annotated[ns]))]
  /\ UNCHANGED <<lister, phase, podQueue, nodeTodo, ctrlVars, podVars, thrVars, dbVars>>

\* A namespace disappears only after its last pod.
DeleteNS(ns) ==
  /\ lister[ns]
  /\ \A p \in PodsIn(ns) : ~Live(p)
  /\ lister' = [lister EXCEPT ![ns] = FALSE]
  /\ annotated' = [annotated EXCEPT ![ns] = FALSE]
  /\ nsQueue' = [nsQueue EXCEPT ![ns] = Append(@, Event("delete", FALSE))]
  /\ UNCHANGED <<updates, phase, podQueue, nodeTodo, ctrlVars, podVars, thrVars, dbVars>>

CreatePod(p) ==
  /\ phase[p] = "none" /\ lister[NsOf[p]]
  /\ phase' = [phase EXCEPT ![p] = "pending"]
  /\ podQueue' = [podQueue EXCEPT ![p] = Append(@, Event("add", FALSE))]
  /\ UNCHANGED <<lister, annotated, updates, nsQueue, nodeTodo, ctrlVars, podVars, thrVars, dbVars>>

\* The kubelet reports PodIP once the pod's port is set up.
PodGetsIP(p) ==
  /\ phase[p] = "pending"
  /\ podQueue[p] = <<>> /\ p \notin retryPods /\ pc[p] = "idle"
  /\ phase' = [phase EXCEPT ![p] = "running"]
  /\ UNCHANGED <<lister, annotated, updates, qVars, ctrlVars, podVars, thrVars, dbVars>>

DeletePod(p) ==
  /\ Live(p)
  /\ phase' = [phase EXCEPT ![p] = "gone"]
  /\ podQueue' = [podQueue EXCEPT ![p] = Append(@, Event("delete", FALSE))]
  /\ UNCHANGED <<lister, annotated, updates, nsQueue, nodeTodo, ctrlVars, podVars, thrVars, dbVars>>

API ==
  \/ \E ns \in NS : CreateNS(ns) \/ UpdateNS(ns) \/ DeleteNS(ns)
  \/ \E p \in Pods : CreatePod(p) \/ PodGetsIP(p) \/ DeletePod(p)

-----------------------------------------------------------------------------
\* The end of a handler: what the worker does next depends on its outcome.

\* Mutant of Outcome: a failed pod is not kept for a retry.
OutcomeNoRetry(w, ok) ==
  /\ UNCHANGED retryPods
  /\ nodeTodo' = IF w \in Nodes /\ ok THEN nodeTodo \ {w} ELSE nodeTodo

\* A failed pod goes to retryPods, a failed node stays in addNodeFailed; the
\* other handlers only log.  Nobody retries a pod for its delete event.
Outcome(w, ok) ==
  /\ retryPods' = IF w \in Pods /\ job[w].op = "add"
                  THEN (IF ok THEN retryPods \ {w} ELSE retryPods \cup {w})
                  ELSE retryPods
  /\ nodeTodo' = IF w \in Nodes /\ ok THEN nodeTodo \ {w} ELSE nodeTodo

Finish(w, ok) ==
  /\ Outcome(w, ok)
  /\ Goto(w, "idle")
  /\ job' = [job EXCEPT ![w] = NoJob]
  /\ cur' = [cur EXCEPT ![w] = None]

Unlock(w) == owner' = [owner EXCEPT ![cur[w]] = None]

-----------------------------------------------------------------------------
\* Handlers start: each worker serves its queue in order.

StartNS(ns) ==
  /\ pc[ns] = "idle" /\ nsQueue[ns] # <<>> /\ Head(nsQueue[ns]).op # "add"
  /\ job' = [job EXCEPT ![ns] = Head(nsQueue[ns])]
  /\ nsQueue' = [nsQueue EXCEPT ![ns] = Tail(@)]
  /\ Goto(ns, "lookup")
  /\ UNCHANGED <<apiVars, podQueue, nodeTodo, ctrlVars, podVars, cur, listed, found, dbVars>>

\* AddNamespace begins with createNamespaceLocked.
createNamespaceLocked(ns) ==
  LET i == infos + 1 IN
  /\ pc[ns] = "idle" /\ nsQueue[ns] # <<>> /\ Head(nsQueue[ns]).op = "add"
  /\ i \in Infos
  /\ job' = [job EXCEPT ![ns] = Head(nsQueue[ns])]
  /\ nsQueue' = [nsQueue EXCEPT ![ns] = Tail(@)]
  /\ infos' = i
  /\ namespaces' = [namespaces EXCEPT ![ns] = i]
  /\ nsOf' = [nsOf EXCEPT ![i] = ns]
  /\ owner' = [owner EXCEPT ![i] = ns]
  /\ cur' = [cur EXCEPT ![ns] = i]
  /\ Goto(ns, "list")
  /\ UNCHANGED <<apiVars, podQueue, nodeTodo, addressSet, multicast, podVars, listed, found, dbVars>>

\* addLogicalPort, from the queue or from iterateRetryPods, has put the port
\* in the cache by the time it calls addPodToNamespace.
StartPodAdd(p) ==
  /\ pc[p] = "idle"
  /\ \/ /\ podQueue[p] # <<>> /\ Head(podQueue[p]).op = "add"
        /\ podQueue' = [podQueue EXCEPT ![p] = Tail(@)]
     \/ /\ p \in retryPods
        /\ UNCHANGED podQueue
  /\ job' = [job EXCEPT ![p] = Event("add", FALSE)]
  /\ portCache' = portCache \cup {p}
  /\ Goto(p, "lookup")
  /\ UNCHANGED <<apiVars, nsQueue, nodeTodo, ctrlVars, retryPods, cur, listed, found, dbVars>>

\* The pod DeleteFunc drops the retry entry; deleteLogicalPort asks for the
\* namespace only when the port is in the cache.
StartPodDelete(p) ==
  /\ pc[p] = "idle" /\ podQueue[p] # <<>> /\ Head(podQueue[p]).op = "delete"
  /\ podQueue' = [podQueue EXCEPT ![p] = Tail(@)]
  /\ job' = IF p \in portCache THEN [job EXCEPT ![p] = Event("delete", FALSE)] ELSE job
  /\ retryPods' = retryPods \ {p}
  /\ Goto(p, IF p \in portCache THEN "lookup" ELSE "idle")
  /\ UNCHANGED <<apiVars, nsQueue, nodeTodo, ctrlVars, portCache, cur, listed, found, dbVars>>

\* ensureNodeLogicalNetwork adds the node's addresses to the host namespace.
StartNode(n) ==
  /\ pc[n] = "idle" /\ n \in nodeTodo
  /\ job' = [job EXCEPT ![n] = Event("add", FALSE)]
  /\ Goto(n, "lookup")
  /\ UNCHANGED <<apiVars, qVars, ctrlVars, podVars, cur, listed, found, dbVars>>

\* time.After(20 * time.Second) fires.
DestroyTimer(i) ==
  /\ pc[i] = "sleep"
  /\ Goto(i, "lookup")
  /\ UNCHANGED <<apiVars, qVars, ctrlVars, podVars, job, cur, listed, found, dbVars>>

-----------------------------------------------------------------------------
\* getNamespaceLocked, waitForNamespaceLocked and deleteNamespaceLocked.

Waits(w) == w \in Pods \cup Nodes /\ job[w].op = "add"

\* getNamespaceLocked returns nil: a waiter polls again, the destroyer goes
\* on without a lock, everybody else is done.
NilInfo(w) ==
  /\ Goto(w, IF Waits(w) THEN "lookup" ELSE IF w \in Infos THEN "destroy" ELSE "idle")
  /\ job' = IF Waits(w) THEN job ELSE [job EXCEPT ![w] = NoJob]
  /\ cur' = [cur EXCEPT ![w] = None]

Lookup(w) ==
  /\ pc[w] = "lookup"
  /\ IF namespaces[Target(w)] = None
     THEN NilInfo(w)
     ELSE /\ cur' = [cur EXCEPT ![w] = namespaces[Target(w)]]
          /\ Goto(w, "lock")
          /\ UNCHANGED job
  /\ UNCHANGED <<apiVars, qVars, ctrlVars, podVars, listed, found, dbVars>>

\* "timeout waiting for namespace event"
WaitTimeout(w) ==
  /\ pc[w] = "lookup" /\ Waits(w) /\ namespaces[Target(w)] = None
  /\ Finish(w, FALSE)
  /\ UNCHANGED <<apiVars, nsQueue, podQueue, ctrlVars, portCache, listed, found, dbVars>>

Lock(w) ==
  /\ pc[w] = "lock" /\ owner[cur[w]] = None
  /\ owner' = [owner EXCEPT ![cur[w]] = w]
  /\ Goto(w, "recheck")
  /\ UNCHANGED <<apiVars, qVars, namespaces, nsOf, addressSet, multicast, infos,
                 podVars, job, cur, listed, found, dbVars>>

\* Mutant of Stale: the table is not looked at again after nsInfo.Lock().
NeverStale(w) == FALSE

Stale(w) == namespaces[Target(w)] # cur[w]

RecheckStale(w) ==
  /\ pc[w] = "recheck" /\ Stale(w)
  /\ Unlock(w)
  /\ NilInfo(w)
  /\ UNCHANGED <<apiVars, qVars, namespaces, nsOf, addressSet, multicast, infos,
                 podVars, listed, found, dbVars>>

\* Where a caller goes on once it has the locked namespaceInfo.
AfterLock(w) ==
  IF w \in NS THEN "multicast"
  ELSE IF w \in Infos THEN (IF addressSet[cur[w]] # None THEN "skip" ELSE "destroy")
  ELSE IF job[w].op = "delete" THEN "remove"
  ELSE IF addressSet[cur[w]] = None THEN "list" ELSE "add"

RecheckOK(w) ==
  /\ pc[w] = "recheck" /\ ~Stale(w) /\ ~(w \in NS /\ job[w].op = "delete")
  /\ Goto(w, AfterLock(w))
  /\ UNCHANGED <<apiVars, qVars, ctrlVars, podVars, job, cur, listed, found, dbVars>>

-----------------------------------------------------------------------------
\* The address set object: commands on the row with the uuid it remembers.

RowExists(ns, u) == sets[ns] # None /\ sets[ns].uuid = u

\* Mutant of WriteRow: the cache is not updated.
WriteRowOnly(i, add, del, done) ==
  /\ sets' = IF done THEN [sets EXCEPT ![nsOf[i]].ips = (@ \ del) \cup add] ELSE sets
  /\ UNCHANGED addressSet

\* setIPs, addIPs and deleteIPs on the row of namespaceInfo i: the cache
\* follows a write that was done.
WriteRow(i, add, del, done) ==
  /\ sets' = IF done THEN [sets EXCEPT ![nsOf[i]].ips = (@ \ del) \cup add] ELSE sets
  /\ addressSet' = IF done THEN [addressSet EXCEPT ![i].ips = (@ \ del) \cup add] ELSE addressSet

\* May this command succeed?  Only a faulty database fails by itself.
Ok == IF faulty THEN BOOLEAN ELSE {TRUE}

\* Both mutexes are held: the set is emptied (an error is only logged), the
\* destroyer is started, and the entry leaves the table.
deleteNamespaceLocked(ns) ==
  LET i == cur[ns] IN
  /\ pc[ns] = "recheck" /\ job[ns].op = "delete" /\ ~Stale(ns)
  /\ IF addressSet[i] = None
     THEN /\ pc' = [pc EXCEPT ![ns] = "cleanup"]
          /\ UNCHANGED <<sets, addressSet, job>>
     ELSE /\ \E ok \in Ok : WriteRow(i, {}, IPs, ok /\ RowExists(ns, addressSet[i].uuid))
          /\ pc' = [pc EXCEPT ![ns] = "cleanup", ![i] = "sleep"]
          /\ job' = [job EXCEPT ![i] = Event("destroy", FALSE)]
  /\ namespaces' = [namespaces EXCEPT ![ns] = None]
  /\ UNCHANGED <<apiVars, qVars, nsOf, multicast, owner, infos, podVars,
                 cur, listed, found, uuids, group>>

\* The rest of deleteNamespace: multicastDeleteNamespace, then the unlock.
\* (Network policies and gateway routes belong to other components.)
Cleanup(ns) ==
  LET i == cur[ns] IN
  /\ pc[ns] = "cleanup"
  /\ multicast' = [multicast EXCEPT ![i] = FALSE]
  /\ \E ok \in Ok :
       /\ multicast[i] /\ ok => addressSet[i] # None
       /\ group' = IF multicast[i] /\ ok THEN [group EXCEPT ![ns] = None] ELSE group
  /\ Unlock(ns)
  /\ Finish(ns, TRUE)
  /\ UNCHANGED <<apiVars, nsQueue, podQueue, namespaces, nsOf, addressSet, infos,
                 portCache, listed, found, sets, uuids>>

\* The deferred goroutine ends: the namespace is back with an address set ...
SkipDestroy(i) ==
  /\ pc[i] = "skip"
  /\ Unlock(i)
  /\ Finish(i, TRUE)
  /\ UNCHANGED <<apiVars, nsQueue, podQueue, namespaces, nsOf, addressSet, multicast, infos,
                 portCache, listed, found, dbVars>>

\* ... or addressSet.Destroy runs, with the new namespaceInfo locked if there
\* was one, without any lock if there was none.
Destroy(i) ==
  LET ns == nsOf[i] IN
  /\ pc[i] = "destroy"
  /\ \E ok \in Ok :
       sets' = IF ok /\ RowExists(ns, addressSet[i].uuid)
               THEN [sets EXCEPT ![ns] = None] ELSE sets
  /\ IF cur[i] = None THEN UNCHANGED owner ELSE Unlock(i)
  /\ Finish(i, TRUE)
  /\ UNCHANGED <<apiVars, nsQueue, podQueue, namespaces, nsOf, addressSet, multicast, infos,
                 portCache, listed, found, uuids, group>>

-----------------------------------------------------------------------------
\* createNamespaceAddrSetAllPods, by AddNamespace or by whoever finds the
\* namespace without an address set.  The addresses collected for the host
\* network namespace are overwritten by the ones of the pods.

ListPods(w) ==
  /\ pc[w] = "list"
  /\ listed' = [listed EXCEPT ![w] = {p \in PodsIn(Target(w)) : phase[p] = "running"}]
  /\ Goto(w, "find")
  /\ UNCHANGED <<apiVars, qVars, ctrlVars, podVars, job, cur, found, dbVars>>

\* NewAddressSet failed: AddNamespace logs and goes on without an address
\* set, the others give up.
CreateFailed(w) ==
  IF w \in NS
  THEN Goto(w, "multicast") /\ UNCHANGED <<owner, job, cur, retryPods, nodeTodo>>
  ELSE Unlock(w) /\ Finish(w, FALSE)

FindSet(w) ==
  /\ pc[w] = "find"
  /\ \/ /\ found' = [found EXCEPT ![w] = IF sets[Target(w)] = None THEN None
                                          ELSE sets[Target(w)].uuid]
        /\ Goto(w, "write")
        /\ UNCHANGED <<owner, job, cur, listed, retryPods, nodeTodo>>
     \/ /\ faulty
        /\ CreateFailed(w)
        /\ listed' = [listed EXCEPT ![w] = {}]
        /\ UNCHANGED found
  /\ UNCHANGED <<apiVars, nsQueue, podQueue, namespaces, nsOf, addressSet, multicast, infos,
                 portCache, dbVars>>

\* The uuid of the row found, or of the one `create address_set` returns.
RowUUID(w) == IF found[w] = None THEN uuids + 1 ELSE found[w]

\* Set the addresses of the row found, or create the row.  The row may be
\* gone since, and then the command fails.
WriteSet(w) ==
  LET ns == Target(w)
      u  == RowUUID(w)
      possible == IF found[w] = None THEN sets[ns] = None ELSE RowExists(ns, u)
  IN
  /\ pc[w] = "write"
  /\ \/ /\ possible
        /\ sets' = [sets EXCEPT ![ns] = SetRec(u, listed[w])]
        /\ uuids' = IF found[w] = None THEN u ELSE uuids
        /\ addressSet' = [addressSet EXCEPT ![cur[w]] = SetRec(u, listed[w])]
        /\ Goto(w, IF w \in NS THEN "multicast" ELSE "add")
        /\ UNCHANGED <<owner, job, cur, retryPods, nodeTodo>>
     \/ /\ ~possible \/ faulty
        /\ CreateFailed(w)
        /\ UNCHANGED <<sets, uuids, addressSet>>
  /\ listed' = [listed EXCEPT ![w] = {}]
  /\ found' = [found EXCEPT ![w] = None]
  /\ UNCHANGED <<apiVars, nsQueue, podQueue, namespaces, nsOf, multicast, infos, portCache, group>>

-----------------------------------------------------------------------------
\* addPodToNamespace and the host-namespace part of ensureNodeLogicalNetwork:
\* AddIPs skips what the cache already holds; a pod then joins the multicast
\* port group of a namespace that has one.

AddIPs(w) ==
  LET i == cur[w]
      ns == Target(w)
      joins == w \in Pods /\ multicast[i]
  IN
  /\ pc[w] = "add"
  /\ \E ok \in Ok :
       LET present == w \in addressSet[i].ips
           wrote == ~present /\ ok /\ RowExists(ns, addressSet[i].uuid)
           joined == (present \/ wrote) /\ joins /\ group[ns] # None
       IN
       /\ WriteRow(i, {w}, {}, wrote)
       /\ \E ok2 \in Ok :
            /\ group' = IF joined /\ ok2 THEN [group EXCEPT ![ns] = @ \cup {w}] ELSE group
            /\ Finish(w, (present \/ wrote) /\ (joins => joined /\ ok2))
  /\ Unlock(w)
  /\ UNCHANGED <<apiVars, nsQueue, podQueue, namespaces, nsOf, multicast, infos, portCache,
                 listed, found, uuids>>

\* deletePodFromNamespace: an error of DeleteIPs returns before the port group
\* is touched, and is only logged by deleteLogicalPort.
RemoveIPs(p) ==
  LET i == cur[p]
      ns == NsOf[p]
      known == addressSet[i] # None /\ p \in addressSet[i].ips
  IN
  /\ pc[p] = "remove"
  /\ \E ok \in Ok :
       LET wrote == known /\ ok /\ RowExists(ns, addressSet[i].uuid) IN
       /\ WriteRow(i, {}, {p}, wrote)
       /\ group' = IF (~known \/ wrote) /\ multicast[i] /\ group[ns] # None
                   THEN [group EXCEPT ![ns] = @ \ {p}] ELSE group
  /\ Unlock(p)
  /\ Finish(p, TRUE)
  /\ UNCHANGED <<apiVars, nsQueue, podQueue, namespaces, nsOf, multicast, infos, portCache,
                 listed, found, uuids>>

-----------------------------------------------------------------------------
\* multicastUpdateNamespace, the last step of AddNamespace and the one part of
\* updateNamespace that concerns this module.  multicastEnabled is assigned
\* before the policy is created or deleted, and stays so if that fails; a
\* failed creation may leave the port group without its ACLs.

\* Mutant of Ports: the pods already there are not added to the group.
NoPorts(ns) == {}

Ports(ns) == {p \in PodsIn(ns) : Live(p) /\ p \in portCache}
GroupPorts(ns) == IF group[ns] = None THEN {} ELSE group[ns]

multicastUpdateNamespace(ns) ==
  LET i == cur[ns]
      enabled == job[ns].mcast
  IN
  /\ pc[ns] = "multicast"
  /\ multicast' = [multicast EXCEPT ![i] = enabled]
  /\ \/ /\ enabled = multicast[i]
        /\ UNCHANGED group
     \/ /\ enabled /\ ~multicast[i] /\ addressSet[i] # None
        /\ \E ports \in (IF faulty THEN SUBSET Ports(ns) ELSE {Ports(ns)}) :
             group' = [group EXCEPT ![ns] = GroupPorts(ns) \cup ports]
     \/ /\ ~enabled /\ multicast[i] /\ addressSet[i] # None
        /\ group' = [group EXCEPT ![ns] = None]
     \/ /\ enabled # multicast[i] /\ faulty
        /\ group' \in {group} \cup (IF enabled THEN {[group EXCEPT ![ns] = GroupPorts(ns)]} ELSE {})
  /\ Unlock(ns)
  /\ Finish(ns, TRUE)
  /\ UNCHANGED <<apiVars, nsQueue, podQueue, namespaces, nsOf, addressSet, infos, portCache,
                 listed, found, sets, uuids>>

\* getMulticastACLIgrMatch calls a method of the nil address set.
Panic(ns) ==
  LET i == cur[ns] IN
  /\ \/ pc[ns] = "multicast" /\ job[ns].mcast # multicast[i]
     \/ pc[ns] = "cleanup" /\ multicast[i]
  /\ addressSet[i] = None
  /\ panicked' = TRUE
  /\ UNCHANGED <<apiVars, qVars, ctrlVars, podVars, thrVars, dbVars>>

-----------------------------------------------------------------------------
Locking(w) == Lookup(w) \/ Lock(w) \/ RecheckStale(w) \/ RecheckOK(w)
Creating(w) == ListPods(w) \/ FindSet(w) \/ WriteSet(w)

NSStep(ns) ==
  \/ StartNS(ns) \/ createNamespaceLocked(ns)
  \/ Locking(ns) \/ Creating(ns)
  \/ deleteNamespaceLocked(ns) \/ Cleanup(ns) \/ multicastUpdateNamespace(ns)

PodStep(p) ==
  \/ StartPodAdd(p) \/ StartPodDelete(p)
  \/ Locking(p) \/ Creating(p) \/ AddIPs(p) \/ RemoveIPs(p)

NodeStep(n) == StartNode(n) \/ Locking(n) \/ Creating(n) \/ AddIPs(n)

DestroyerStep(i) == DestroyTimer(i) \/ Locking(i) \/ SkipDestroy(i) \/ Destroy(i)

Step ==
  \/ API
  \/ \E ns \in NS : NSStep(ns)
  \/ \E p \in Pods : PodStep(p)
  \/ \E n \in Nodes : NodeStep(n)
  \/ \E i \in Infos : DestroyerStep(i)
  \/ \E w \in Pods \cup Nodes : WaitTimeout(w)

Next ==
  /\ ~panicked /\ UNCHANGED faulty
  /\ \/ Step /\ UNCHANGED panicked
     \/ \E ns \in NS : Panic(ns)

Spec == Init /\ [][Next]_vars

\* Go schedules every runnable goroutine, the mutexes hand over to their
\* waiters, the timer fires and iterateRetryPods runs every 30 seconds.
Running(A) == ~panicked /\ A /\ UNCHANGED <<panicked, faulty>>
Fairness ==
  /\ \A ns \in NS : WF_vars(Running(NSStep(ns)))
  /\ \A p \in Pods : WF_vars(Running(PodStep(p)))
  /\ \A n \in Nodes : WF_vars(Running(NodeStep(n)))
  /\ \A i \in Infos : WF_vars(Running(DestroyerStep(i)))

FairSpec == Spec /\ Fairness

-----------------------------------------------------------------------------
(***************************************************************************)
(* Properties.                                                             *)
(***************************************************************************)

Labels == {"idle", "sleep", "lookup", "lock", "recheck", "list", "find", "write",
           "add", "remove", "multicast", "cleanup", "skip", "destroy"}

Rows == {None} \cup [uuid : Nat, ips : SUBSET IPs]

\* Types.  A port group only has ports of pods, a worker is at a label of its code and
\* a row that an address set names by its uuid was returned by OVN.
TypeOK ==
  /\ namespaces \in [NS -> Infos \cup {None}]
  /\ nsOf \in [Infos -> NS \cup {None}]
  /\ owner \in [Infos -> Workers \cup {None}]
  /\ addressSet \in [Infos -> Rows]
  /\ multicast \in [Infos -> BOOLEAN]
  /\ infos \in 0 .. MaxInfos
  /\ pc \in [Workers -> Labels]
  /\ cur \in [Workers -> Infos \cup {None}]
  /\ sets \in [NS -> Rows]
  /\ group \in [NS -> {None} \cup SUBSET Pods]
  /\ retryPods \subseteq Pods /\ portCache \subseteq Pods /\ nodeTodo \subseteq Nodes

\* The labels at which a worker has been given a locked namespaceInfo.
Holding(w) ==
  \/ pc[w] \in {"list", "find", "write", "add", "remove", "multicast", "skip"}
  \/ pc[w] = "destroy" /\ cur[w] # None

\* ovn.go: "Use oc.getNamespaceLocked() or oc.waitForNamespaceLocked() to get a
\* locked namespaceInfo for a Namespace".  Whoever got one holds its mutex, and
\* it is the namespace's current one until the mutex is released: nobody works
\* on an object that has left the table, although the table is not locked.
LockedInfoIsCurrent ==
  \A w \in Workers :
    Holding(w) => owner[cur[w]] = w /\ namespaces[Target(w)] = cur[w]

\* A pod handler that raced with the deletion of the namespace never puts an
\* address back into the emptied set, which policies still refer to.
DeletedSetStaysEmpty ==
  \A ns \in NS :
    (namespaces[ns] = None /\ \E i \in Infos : nsOf[i] = ns)
      => (sets[ns] = None \/ sets[ns].ips = {})

\* The cached addresses of a namespace, by which AddIPs and DeleteIPs decide
\* what to send, are the ones in OVN as long as the row is there, and the
\* cached uuid is the row's: a namespace created again never goes on with the
\* row, or with the addresses, of the one before it.
CacheMatchesOVN ==
  \A ns \in NS : LET i == namespaces[ns] IN
    (i # None /\ addressSet[i] # None /\ sets[ns] # None) => sets[ns] = addressSet[i]

Quiet(ns) ==
  /\ nsQueue[ns] = <<>> /\ pc[ns] = "idle"
  /\ \A p \in PodsIn(ns) : podQueue[p] = <<>> /\ p \notin retryPods /\ pc[p] = "idle"
  /\ ns = HostNS => nodeTodo = {} /\ \A n \in Nodes : pc[n] = "idle"

\* namespaceInfo: "addressSet is an address set object that holds the IP addresses
\* of all pods in the namespace."  Once the handlers have caught up with the
\* API, an existing namespace whose row has not been destroyed under it has
\* exactly its live pods in the row and, when multicast is enabled, exactly
\* their ports in its port group, whatever order the namespace, pod and node
\* queues were served in.
CaughtUp ==
  \A ns \in NS : (Quiet(ns) /\ lister[ns] /\ sets[ns] # None) =>
    LET live == {p \in PodsIn(ns) : Live(p)}
    IN  /\ namespaces[ns] # None
        /\ sets[ns].ips \cap Pods = live
        /\ multicast[namespaces[ns]] = annotated[ns]
        /\ annotated[ns] => group[ns] = live

\* Without failures, what OVN has for a namespace is what its pods and its
\* annotation ask for, once the handlers have caught up, and the set of a
\* deleted namespace stays empty.
CalmCatchesUp == ~faulty => CaughtUp /\ DeletedSetStaysEmpty

\* The comment at the deferred deletion: "Check to see if the NS was re-added in
\* the meanwhile. If so, only delete if the new NS's AddressSet shouldn't exist."
LiveSetNotDestroyed ==
  \A ns \in NS : LET i == namespaces[ns] IN
    (i # None /\ owner[i] = None /\ addressSet[i] # None) => sets[ns] # None

\* A deleted namespace that is not created again loses its address set.
DeletedSetIsDestroyed ==
  \A ns \in NS : <>[](~lister[ns]) => <>[](sets[ns] = None)

\* A pod that stays gets into the address set of its namespace, although its
\* handler may time out waiting for the namespace and have to be retried.
InSet(p) == sets[NsOf[p]] # None /\ p \in sets[NsOf[p]].ips
PodReachesSet == \A p \in Pods : <>[]Live(p) => <>[]InSet(p)

=============================================================================
