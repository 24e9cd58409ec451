------------------------------ MODULE Policies ------------------------------
(***************************************************************************)
(* Network policies of one namespace (pkg/ovn/policy.go): the port group   *)
(* of each policy, and the two default-deny port groups of the namespace,  *)
(* in which a pod stays as long as some policy selects it.                 *)
(*                                                                         *)
(* Policies have one informer thread, namespaces another, a pod its own;   *)
(* a thread calls the pod handlers of all policies one after the other.    *)
(* A step is what happens between two points where another thread may get  *)
(* in: taking a lock, or the gap between counting a reference and          *)
(* committing it.  What the rules of a policy allow is in PolicyPeers.     *)
(***************************************************************************)
EXTENDS Integers, Sequences, FiniteSets, SequencesExt, TLC

CONSTANTS Pods, Policies,
          Types,     \* spec.policyTypes of each policy
          Rules,     \* the policies with egress rules
          Worlds,    \* what exists at first, a bound on what may happen then
          MaxGen     \* bound: incarnations of one policy, ports of one pod

Dirs    == {"ingress", "egress"}
Objects == Policies \X (1..MaxGen)      \* networkPolicy objects
Idle    == [pc |-> "idle"]
NoGroup == [exists |-> FALSE, ports |-> {}]
Fresh   == [writer |-> "", readers |-> {}, deleted |-> FALSE, uuid |-> FALSE,
            rules |-> FALSE, localPods |-> [x \in Pods |-> 0]]

VARIABLES
  \* The API server, as the informers' stores have it.
  policies,    \* policies that exist
  pods,        \* {} for no pod, else the set of the policies selecting it, in a set
  ns,          \* the namespace exists
  policyEv, podEv, nsEv,   \* events not handled yet
  \* The controller.
  nsInfo,      \* its existence, its lock, networkPolicies
  np,          \* the networkPolicy objects
  gen,         \* how many objects each policy has had
  handlers,    \* objects whose pod handler is registered
  dead,        \* objects whose pod handler has its tombstone
  informer,    \* the thread that adds a handler to the pod informer, or ""
  refs,        \* lspIngressDenyCache and lspEgressDenyCache
  cache,       \* the port logicalPortCache has for a pod, 0 if none
  thread,      \* what each thread is doing
  \* The northbound database.
  port,        \* the logical port of each pod, 0 if none
  deny,        \* the default-deny port groups
  group,       \* the policies' port groups
  acls,        \* policies whose port group has its ACLs
  \* Bounds and history.
  budget, ports, disturbed

apiVars  == <<policies, pods, ns>>
evVars   == <<policyEv, podEv, nsEv>>
ctlVars  == <<nsInfo, np, gen, handlers, dead, informer, refs, cache, thread>>
dbVars   == <<port, deny, group, acls>>
histVars == <<budget, ports, disturbed>>
vars     == <<apiVars, evVars, ctlVars, dbVars, histVars>>

Threads == {"policy", "ns"} \cup Pods
Selects(p, s) == \E chosen \in s : p \in chosen
Spend(kind)   == budget[kind] > 0 /\ budget' = [budget EXCEPT ![kind] = @ - 1]
Note(what)    == disturbed' = disturbed \cup what

----------------------------------------------------------------------------
\* The API server.

ChangePolicy(p) ==
  /\ Spend("policy")
  /\ policies' = IF p \in policies THEN policies \ {p} ELSE policies \cup {p}
  /\ policyEv' = Append(policyEv, <<IF p \in policies THEN "delete" ELSE "add", p>>)
  /\ p \notin policies => ns
  /\ UNCHANGED <<pods, ns, podEv, nsEv, ctlVars, dbVars, ports, disturbed>>

UpdatePolicy(p) ==
  /\ p \in policies /\ Spend("policy")
  /\ policyEv' = Append(policyEv, <<"update", p>>)
  /\ UNCHANGED <<apiVars, podEv, nsEv, ctlVars, dbVars, ports, disturbed>>

\* A pod is created, relabelled or deleted.
ChangePod(x) ==
  /\ Spend("pod")
  /\ \E s \in {{}} \cup {{chosen} : chosen \in SUBSET Policies} :
       /\ s # pods[x] /\ (pods[x] = {} => ns)
       /\ pods' = [pods EXCEPT ![x] = s]
       /\ podEv' = [podEv EXCEPT ![x] = Append(@, <<pods[x], s>>)]
  /\ UNCHANGED <<policies, ns, policyEv, nsEv, ctlVars, dbVars, ports, disturbed>>

\* The objects in a namespace go before it does.
ChangeNamespace ==
  /\ Spend("ns")
  /\ ns => policies = {} /\ \A x \in Pods : pods[x] = {}
  /\ ns' = ~ ns
  /\ nsEv' = Append(nsEv, IF ns THEN "delete" ELSE "add")
  /\ UNCHANGED <<policies, pods, policyEv, podEv, ctlVars, dbVars, ports, disturbed>>

Environment ==
  \/ \E p \in Policies : ChangePolicy(p) \/ UpdatePolicy(p)
  \/ \E x \in Pods : ChangePod(x)
  \/ ChangeNamespace

----------------------------------------------------------------------------
\* Locks and references.

CanLock(o)  == np[o].writer = "" /\ np[o].readers = {}
CanRLock(o) == np[o].writer = ""

\* The directions that localPodAddDefaultDeny counts for a policy, and those
\* localPodDelDefaultDeny counts for an object, which may have lost its rules.
DenyDirs(p, rules) ==
  {d \in Dirs : \/ d = "ingress" /\ Types[p] # {"egress"}
                \/ d = "egress"  /\ (Types[p] = {"egress"} \/ rules \/ Types[p] = Dirs)}
AddDirs(o) == DenyDirs(o[1], o[1] \in Rules)
DelDirs(o) == DenyDirs(o[1], np[o].rules)

Counted(S, dirs, by) ==
  [d \in Dirs |-> [x \in Pods |->
     IF d \in dirs /\ x \in S /\ refs[d][x] + by >= 0 THEN refs[d][x] + by ELSE refs[d][x]]]

\* The transaction to prepare: a first reference adds the port to the group,
\* the last one to go removes it.
\* Mutant: every reference that goes removes the port.
EveryRemoval(S, dirs) == {<<d, x>> \in dirs \X S : refs[d][x] > 0}
FirstRefs(S, dirs) == {<<d, x>> \in dirs \X S : refs[d][x] = 0}
LastRefs(S, dirs)  == {<<d, x>> \in dirs \X S : refs[d][x] = 1}

\* Committing it.  A port that is gone does not join, a group that is gone
\* fails the whole transaction.
DenyAdd(tx) ==
  [d \in Dirs |-> IF \A t \in tx : deny[t[1]].exists
                  THEN [deny[d] EXCEPT !.ports = @ \cup {t[2] : t \in {u \in tx : u[1] = d /\ u[3] = port[u[2]]}}]
                  ELSE deny[d]]
DenyDel(tx) ==
  [d \in Dirs |-> IF \A t \in tx : deny[t[1]].exists
                  THEN [deny[d] EXCEPT !.ports = @ \ {t[2] : t \in {u \in tx : u[1] = d /\ u[3] = port[u[2]]}}]
                  ELSE deny[d]]
Tx(pairs, portOf) == {<<q[1], q[2], portOf[q[2]]>> : q \in pairs}

\* Another thread has counted a reference to the same port and not committed.
Uncommitted(t) == IF thread[t].pc \in {"added", "deleted", "set", "destroyed"} THEN thread[t].tx ELSE {}
Overtaking(me, S, dirs) ==
  {w \in {"overtaken"} : \E t \in Threads \ {me} : \E c \in Uncommitted(t) : c[1] \in dirs /\ c[2] \in S}

\* The policies' port groups: a port that is gone does not join.
CreatePortGroup(p) == [group EXCEPT ![p].exists = TRUE]
DeletePortGroup(p) == [group EXCEPT ![p] = NoGroup]
AddToPortGroup(p, x, info) ==
  IF group[p].exists /\ info = port[x] THEN [group EXCEPT ![p].ports = @ \cup {x}] ELSE group
DeleteFromPortGroup(p, x, info) ==
  IF info = port[x] THEN [group EXCEPT ![p].ports = @ \ {x}] ELSE group
SetPortGroup(p, infos) == [group EXCEPT ![p].ports = {x \in DOMAIN infos : infos[x] = port[x]}]

CreateDefaultDenyPortGroups == [d \in Dirs |-> [deny[d] EXCEPT !.exists = TRUE]]

----------------------------------------------------------------------------
\* The pod handlers of a policy.  Thread t runs them for pod x and object o.

\* The cached port is that of a pod that is gone, or whose deletion waits.
Outdated(x) == \/ cache[x] # port[x]
               \/ \E i \in DOMAIN podEv[x] : podEv[x][i][2] = {}
               \/ thread[x] # Idle /\ thread[x].ev[2] = {}

Busy(t, pc) == thread[t].pc = pc
\* Mutant: the read lock is not released.
RUnlockForgotten(o, t) == np
RUnlock(o, t) == [np EXCEPT ![o].readers = @ \ {t}]
Goto(t, to) == thread' = [thread EXCEPT ![t] = to]
Todo(t)     == thread[t].todo
Return(t)   == Goto(t, [thread[t] EXCEPT !.pc = "handlers"])

\* handleLocalPodSelectorAddFunc up to the lock.
AddFunc(t, x, o, rest) ==
  /\ Goto(t, IF cache[x] = 0 \/ np[o].localPods[x] # 0
             THEN [thread[t] EXCEPT !.todo = rest]
             ELSE [thread[t] EXCEPT !.todo = rest, !.pc = "add", !.pod = x, !.obj = o, !.info = cache[x]])
  /\ Note({w \in {"stale"} : cache[x] # 0 /\ np[o].localPods[x] = 0 /\ Outdated(x)})
  /\ UNCHANGED <<np, refs>>

\* handleLocalPodSelectorDelFunc up to the lock.
DelFunc(t, x, o, rest) ==
  /\ IF cache[x] = 0 \/ np[o].localPods[x] = 0
     THEN /\ Goto(t, [thread[t] EXCEPT !.todo = rest])
          /\ Note({w \in {"lost"} : np[o].localPods[x] # 0})
          /\ UNCHANGED np
     ELSE /\ Goto(t, [thread[t] EXCEPT !.todo = rest, !.pc = "del", !.pod = x, !.obj = o, !.info = cache[x]])
          /\ np' = [np EXCEPT ![o].localPods[x] = 0]
          /\ UNCHANGED disturbed
  /\ UNCHANGED refs

\* Under the read lock: count.
CountAdd(t) ==
  LET o == thread[t].obj
      x == thread[t].pod
  IN /\ Busy(t, "add") /\ CanRLock(o)
     /\ IF np[o].deleted
        THEN Return(t) /\ UNCHANGED <<np, refs, disturbed>>
        ELSE /\ np' = [np EXCEPT ![o].readers = @ \cup {t}]
             /\ refs' = Counted({x}, AddDirs(o), 1)
             /\ Note(Overtaking(t, {x}, AddDirs(o)))
             /\ Goto(t, [thread[t] EXCEPT !.pc = "added",
                  !.tx = Tx(FirstRefs({x}, AddDirs(o)), [y \in {x} |-> thread[t].info])])
     /\ UNCHANGED <<apiVars, evVars, nsInfo, gen, handlers, dead, informer, cache, dbVars, budget, ports>>

CountDel(t) ==
  LET o == thread[t].obj
      x == thread[t].pod
  IN /\ Busy(t, "del") /\ CanRLock(o)
     /\ IF np[o].deleted
        THEN Return(t) /\ Note({"lost"}) /\ UNCHANGED <<np, refs>>
        ELSE /\ np' = [np EXCEPT ![o].readers = @ \cup {t}]
             /\ refs' = Counted({x}, DelDirs(o), -1)
             /\ Goto(t, [thread[t] EXCEPT !.pc = "deleted",
                  !.tx = Tx(LastRefs({x}, DelDirs(o)), [y \in {x} |-> thread[t].info])])
             /\ Note(Overtaking(t, {x}, DelDirs(o)))
     /\ UNCHANGED <<apiVars, evVars, nsInfo, gen, handlers, dead, informer, cache, dbVars, budget, ports>>

\* Commit to the default-deny groups and to the policy's port group.
CommitAdd(t) ==
  LET o == thread[t].obj
      x == thread[t].pod
  IN /\ Busy(t, "added")
     /\ deny' = DenyAdd(thread[t].tx)
     /\ group' = AddToPortGroup(o[1], x, thread[t].info)
     /\ np' = [np EXCEPT ![o].readers = @ \ {t},
                         ![o].localPods[x] = IF np[o].uuid THEN thread[t].info ELSE @]
     /\ Return(t)
     /\ UNCHANGED <<apiVars, evVars, nsInfo, gen, handlers, dead, informer, refs, cache,
                    port, acls, histVars>>

CommitDel(t) ==
  LET o == thread[t].obj
      x == thread[t].pod
  IN /\ Busy(t, "deleted")
     /\ deny' = DenyDel(thread[t].tx)
     /\ group' = DeleteFromPortGroup(o[1], x, thread[t].info)
     /\ np' = RUnlock(o, t)
     /\ Return(t)
     /\ UNCHANGED <<apiVars, evVars, nsInfo, gen, handlers, dead, informer, refs, cache,
                    port, acls, histVars>>

HandlerSteps(t) == CountAdd(t) \/ CountDel(t) \/ CommitAdd(t) \/ CommitDel(t)

----------------------------------------------------------------------------
\* A pod's thread (forEachQueuedHandler): the handlers registered when the
\* event is taken, in any order; "main" is the handler of WatchPods.

NoCall == [pc |-> "handlers", pod |-> CHOOSE x \in Pods : TRUE,
           obj |-> CHOOSE o \in Objects : TRUE, info |-> 0, tx |-> {}]

TakePodEvent(x) ==
  /\ thread[x] = Idle /\ podEv[x] # <<>> /\ informer = ""
  /\ Goto(x, NoCall @@ [ev |-> Head(podEv[x]), todo |-> handlers, main |-> TRUE])
  /\ podEv' = [podEv EXCEPT ![x] = Tail(@)]
  /\ UNCHANGED <<apiVars, policyEv, nsEv, nsInfo, np, gen, handlers, dead, informer, refs,
                 cache, dbVars, histVars>>

\* The pod's own handler: a port and its cache entry for a pod, or no port; the
\* entry stays for a minute.  The annotation it writes comes back as an update.
MainPodHandler(x) ==
  LET new == thread[x].ev[2]
  IN /\ Busy(x, "handlers") /\ thread[x].main
     /\ Goto(x, [thread[x] EXCEPT !.main = FALSE])
     /\ CASE new # {} /\ port[x] = 0 /\ pods[x] # {} ->
             /\ ports[x] < MaxGen
             /\ ports' = [ports EXCEPT ![x] = @ + 1]
             /\ port'  = [port EXCEPT ![x] = ports'[x]]
             /\ cache' = [cache EXCEPT ![x] = ports'[x]]
             /\ podEv' = [podEv EXCEPT ![x] = Append(@, <<pods[x], pods[x]>>)]
             /\ UNCHANGED <<deny, group>>
          [] new # {} /\ ~ (port[x] = 0 /\ pods[x] # {}) ->
             UNCHANGED <<port, cache, ports, podEv, deny, group>>
          [] new = {} ->
             /\ port' = [port EXCEPT ![x] = 0]
             /\ deny' = [d \in Dirs |-> [deny[d] EXCEPT !.ports = @ \ {x}]]
             /\ group' = [p \in Policies |-> [group[p] EXCEPT !.ports = @ \ {x}]]
             /\ UNCHANGED <<cache, ports, podEv>>
     /\ UNCHANGED <<apiVars, policyEv, nsEv, nsInfo, np, gen, handlers, dead, informer, refs,
                    acls, budget, disturbed>>

\* Calling the handler of one object, unless its tombstone is set.
CallHandler(x) ==
  LET old == thread[x].ev[1]
      new == thread[x].ev[2]
  IN /\ Busy(x, "handlers")
     /\ \E o \in Todo(x) :
          CASE o \notin dead /\ Selects(o[1], new) -> AddFunc(x, x, o, Todo(x) \ {o})
            [] o \notin dead /\ Selects(o[1], old) /\ ~ Selects(o[1], new) -> DelFunc(x, x, o, Todo(x) \ {o})
            [] OTHER -> Goto(x, [thread[x] EXCEPT !.todo = @ \ {o}]) /\ UNCHANGED <<np, refs, disturbed>>
     /\ UNCHANGED <<apiVars, evVars, nsInfo, gen, handlers, dead, informer, cache, dbVars,
                    budget, ports>>

PodEventDone(x) ==
  /\ Busy(x, "handlers") /\ Todo(x) = {} /\ ~ thread[x].main
  /\ Goto(x, Idle)
  /\ UNCHANGED <<apiVars, evVars, nsInfo, np, gen, handlers, dead, informer, refs, cache, dbVars, histVars>>

\* The minute is over.
ExpirePort(x) ==
  /\ cache[x] # 0 /\ port[x] = 0 /\ thread[x] = Idle
  /\ cache' = [cache EXCEPT ![x] = 0]
  /\ UNCHANGED <<apiVars, evVars, nsInfo, np, gen, handlers, dead, informer, refs, thread, dbVars, histVars>>

PodThread(x) == TakePodEvent(x) \/ MainPodHandler(x) \/ CallHandler(x) \/ PodEventDone(x) \/ HandlerSteps(x)

----------------------------------------------------------------------------
\* The policies' thread.

Current(p) == <<p, gen[p]>>

\* addNetworkPolicy under the namespace's lock.
StartAdd(p) ==
  \/ /\ nsInfo.exists /\ nsInfo.lock = ""
     /\ \/ /\ Current(p) \in nsInfo.policies
           /\ Goto("policy", Idle)
           /\ UNCHANGED <<nsInfo, gen, np, deny, budget, disturbed>>
        \/ /\ Current(p) \notin nsInfo.policies /\ gen[p] < MaxGen
           /\ gen' = [gen EXCEPT ![p] = @ + 1]
           /\ np' = [np EXCEPT ![<<p, gen[p] + 1>>] = Fresh]
           /\ nsInfo' = [nsInfo EXCEPT !.policies = @ \cup {<<p, gen[p] + 1>>}]
           /\ deny' = IF nsInfo.policies = {} THEN CreateDefaultDenyPortGroups ELSE deny
           /\ Goto("policy", [pc |-> "create", obj |-> <<p, gen[p] + 1>>])
           /\ UNCHANGED <<budget, disturbed>>
        \/ \* A default-deny group cannot be created.
           /\ Current(p) \notin nsInfo.policies /\ nsInfo.policies = {} /\ Spend("fault")
           /\ Goto("policy", Idle) /\ Note({"fault"})
           /\ UNCHANGED <<nsInfo, gen, np, deny>>
  \/ \* waitForNamespaceLocked gives up.
     /\ ~ nsInfo.exists /\ Goto("policy", Idle) /\ Note({"nowait"})
     /\ UNCHANGED <<nsInfo, gen, np, deny, budget>>

TakeAddPolicy ==
  /\ thread["policy"] = Idle /\ policyEv # <<>> /\ Head(policyEv)[1] = "add"
  /\ policyEv' = Tail(policyEv)
  /\ StartAdd(Head(policyEv)[2])
  /\ UNCHANGED <<apiVars, podEv, nsEv, handlers, dead, informer, refs, cache, port, group, acls, ports>>

\* The second half of an update.
AddUpdatedPolicy ==
  /\ Busy("policy", "readd")
  /\ StartAdd(thread["policy"].obj[1])
  /\ UNCHANGED <<apiVars, evVars, handlers, dead, informer, refs, cache, port, group, acls, ports>>

\* addNetworkPolicy under the policy's lock: its port group and its rules.
\* The early return does not unlock.
CreateGroup ==
  LET o == thread["policy"].obj
  IN /\ Busy("policy", "create") /\ CanLock(o)
     /\ \/ /\ group' = CreatePortGroup(o[1])
           /\ \/ np' = [np EXCEPT ![o].uuid = TRUE, ![o].rules = o[1] \in Rules] /\ UNCHANGED budget
                 /\ Note({w \in {"late"} : np[o].deleted})
              \/ \* The address set of the egress rules cannot be created.
                 /\ o[1] \in Rules /\ Spend("fault") /\ Note({"fault"})
                 /\ np' = [np EXCEPT ![o].uuid = TRUE]
           /\ Goto("policy", [NoCall EXCEPT !.pc = "select", !.obj = o])
        \/ /\ Spend("fault") /\ Note({"fault", "locked"})
           /\ np' = [np EXCEPT ![o].writer = "policy"]
           /\ Goto("policy", Idle)
           /\ UNCHANGED group
     /\ UNCHANGED <<apiVars, evVars, nsInfo, gen, handlers, dead, informer, refs, cache,
                    port, deny, acls, ports>>

\* handleLocalPodSelector: the informer is locked, the pods in its store are
\* handed to handleLocalPodSelectorSetPods.
SetPods ==
  LET o     == thread["policy"].obj
      items == {x \in Pods : Selects(o[1], pods[x])}
      toAdd == {x \in items : cache[x] # 0 /\ np[o].localPods[x] = 0}
      after == [NoCall EXCEPT !.pc = "handlers", !.obj = o] @@ [todo |-> items, self |-> o]
  IN /\ Busy("policy", "select") /\ CanLock(o) /\ informer = ""
     /\ informer' = "policy"
     /\ IF np[o].deleted
        THEN Goto("policy", after) /\ UNCHANGED <<np, refs, disturbed>>
        ELSE /\ np' = [np EXCEPT ![o].writer = "policy"]
             /\ refs' = Counted(toAdd, AddDirs(o), 1)
             /\ Goto("policy", [after EXCEPT !.pc = "set", !.tx = Tx(FirstRefs(toAdd, AddDirs(o)), cache)]
                                @@ [set |-> [x \in toAdd |-> cache[x]]])
             /\ Note(Overtaking("policy", toAdd, AddDirs(o)) \cup {w \in {"stale"} : \E x \in toAdd : Outdated(x)})
     /\ UNCHANGED <<apiVars, evVars, nsInfo, gen, handlers, dead, cache, dbVars, budget, ports>>

CommitSet ==
  LET o   == thread["policy"].obj
      set == thread["policy"].set
  IN /\ Busy("policy", "set")
     /\ deny' = DenyAdd(thread["policy"].tx)
     /\ group' = SetPortGroup(o[1], set)
     /\ np' = [np EXCEPT ![o].writer = "", ![o].localPods = set @@ @]
     /\ Return("policy")
     /\ UNCHANGED <<apiVars, evVars, nsInfo, gen, handlers, dead, informer, refs, cache, port, acls, histVars>>

\* The informer hands the same pods to the new handler one by one.
InitialAdd ==
  /\ Busy("policy", "handlers")
  /\ \E x \in Todo("policy") : AddFunc("policy", x, thread["policy"].self, Todo("policy") \ {x})
  /\ UNCHANGED <<apiVars, evVars, nsInfo, gen, handlers, dead, informer, cache, dbVars, budget, ports>>

RegisterHandler ==
  /\ Busy("policy", "handlers") /\ Todo("policy") = {}
  /\ handlers' = handlers \cup {thread["policy"].self} /\ informer' = ""
  /\ Goto("policy", [pc |-> "acls", obj |-> thread["policy"].self])
  /\ UNCHANGED <<apiVars, evVars, nsInfo, np, gen, dead, refs, cache, dbVars, histVars>>

AddNetworkPolicyACL ==
  LET o == thread["policy"].obj
  IN /\ Busy("policy", "acls") /\ CanLock(o)
     /\ acls' = IF np[o].deleted THEN acls ELSE acls \cup {o[1]}
     /\ Goto("policy", Idle)
     /\ UNCHANGED <<apiVars, evVars, nsInfo, np, gen, handlers, dead, informer, refs, cache, port, deny, group, histVars>>

\* deleteNetworkPolicy keeps the namespace's lock to the end.
TakeDeletePolicy ==
  LET type == Head(policyEv)[1]
      p    == Head(policyEv)[2]
      o    == Current(p)
      then == IF type = "update" THEN [pc |-> "readd", obj |-> o] ELSE Idle
  IN /\ thread["policy"] = Idle /\ policyEv # <<>> /\ type # "add"
     /\ nsInfo.lock = ""
     /\ policyEv' = Tail(policyEv)
     /\ IF nsInfo.exists /\ o \in nsInfo.policies
        THEN /\ nsInfo' = [nsInfo EXCEPT !.lock = "policy", !.policies = @ \ {o}]
             /\ Goto("policy", [pc |-> "destroy", obj |-> o, then |-> then, tx |-> {}])
        ELSE Goto("policy", then) /\ UNCHANGED nsInfo
     /\ UNCHANGED <<apiVars, podEv, nsEv, np, gen, handlers, dead, informer, refs, cache, dbVars, histVars>>

ShutdownHandlers(o) ==
  /\ dead' = IF o \in handlers THEN dead \cup {o} ELSE dead
  /\ handlers' = handlers \ {o}

\* destroyNetworkPolicy: under the policy's lock the handlers are shut down and
\* the references given back, ...
Destroy(t) ==
  LET o    == thread[t].obj
      mine == {x \in Pods : np[o].localPods[x] # 0}
  IN /\ Busy(t, "destroy") /\ CanLock(o)
     /\ np' = [np EXCEPT ![o].deleted = TRUE, ![o].writer = t]
     /\ ShutdownHandlers(o)
     /\ refs' = Counted(mine, DelDirs(o), -1)
     /\ Goto(t, [thread[t] EXCEPT !.pc = "destroyed", !.tx = Tx(LastRefs(mine, DelDirs(o)), np[o].localPods)])
     /\ Note(Overtaking(t, mine, DelDirs(o)))
     /\ UNCHANGED <<apiVars, evVars, nsInfo, gen, informer, cache, dbVars, budget, ports>>

\* ... then the removals are committed and the groups deleted.
CommitDestroy(t) ==
  LET o == thread[t].obj
  IN /\ Busy(t, "destroyed")
     /\ deny' = IF nsInfo.policies = {} THEN [d \in Dirs |-> NoGroup] ELSE DenyDel(thread[t].tx)
     /\ group' = IF np[o].uuid THEN DeletePortGroup(o[1]) ELSE group
     /\ acls' = IF np[o].uuid THEN acls \ {o[1]} ELSE acls
     /\ np' = [np EXCEPT ![o].writer = ""]
     /\ nsInfo' = IF t = "policy" THEN [nsInfo EXCEPT !.lock = ""] ELSE nsInfo
     /\ Goto(t, thread[t].then)
     /\ UNCHANGED <<apiVars, evVars, gen, handlers, dead, informer, refs, cache, port, histVars>>

PolicyThread ==
  \/ TakeAddPolicy \/ AddUpdatedPolicy \/ CreateGroup \/ SetPods \/ CommitSet
  \/ InitialAdd \/ RegisterHandler \/ AddNetworkPolicyACL
  \/ TakeDeletePolicy \/ Destroy("policy") \/ CommitDestroy("policy") \/ HandlerSteps("policy")

----------------------------------------------------------------------------
\* The namespace's thread.

AddNamespace ==
  /\ thread["ns"] = Idle /\ nsEv # <<>> /\ Head(nsEv) = "add"
  /\ nsEv' = Tail(nsEv)
  /\ nsInfo' = [nsInfo EXCEPT !.exists = TRUE]
  /\ UNCHANGED <<apiVars, policyEv, podEv, np, gen, handlers, dead, informer, refs, cache, thread, dbVars, histVars>>

\* deleteNamespace destroys the policies it still finds.
DeleteNamespace ==
  /\ thread["ns"] = Idle /\ nsEv # <<>> /\ Head(nsEv) = "delete" /\ nsInfo.lock = ""
  /\ nsEv' = Tail(nsEv)
  /\ nsInfo' = [nsInfo EXCEPT !.exists = FALSE, !.lock = "ns"]
  /\ Goto("ns", [pc |-> "policies"])
  /\ UNCHANGED <<apiVars, policyEv, podEv, np, gen, handlers, dead, informer, refs, cache, dbVars, histVars>>

DeleteNamespacePolicies ==
  /\ Busy("ns", "policies")
  /\ \/ \E o \in nsInfo.policies :
          /\ nsInfo' = [nsInfo EXCEPT !.policies = @ \ {o}]
          /\ Goto("ns", [pc |-> "destroy", obj |-> o, tx |-> {}, then |-> [pc |-> "policies"]])
     \/ /\ nsInfo.policies = {}
        /\ nsInfo' = [nsInfo EXCEPT !.lock = ""]
        /\ Goto("ns", Idle)
  /\ UNCHANGED <<apiVars, evVars, np, gen, handlers, dead, informer, refs, cache, dbVars, histVars>>

NamespaceThread ==
  AddNamespace \/ DeleteNamespace \/ DeleteNamespacePolicies \/ Destroy("ns") \/ CommitDestroy("ns")

----------------------------------------------------------------------------
\* The master restarts.  Namespaces and pods are handled before policies are
\* watched; syncNetworkPolicies then removes the port groups of policies that
\* are gone, if they have an address set.
Restart ==
  /\ Spend("restart")
  /\ nsInfo' = [exists |-> ns, lock |-> "", policies |-> {}]
  /\ handlers' = {} /\ dead' = {} /\ informer' = ""
  /\ refs' = [d \in Dirs |-> [x \in Pods |-> 0]]
  /\ thread' = [t \in Threads |-> Idle]
  /\ \A x \in Pods : pods[x] # {} /\ port[x] = 0 => ports[x] < MaxGen
  /\ ports' = [x \in Pods |-> IF pods[x] # {} /\ port[x] = 0 THEN ports[x] + 1 ELSE ports[x]]
  /\ port'  = [x \in Pods |-> IF pods[x] # {} THEN (IF port[x] = 0 THEN ports'[x] ELSE port[x]) ELSE 0]
  /\ cache' = port'
  /\ deny'  = [d \in Dirs |-> [deny[d] EXCEPT !.ports = {x \in @ : port'[x] # 0 /\ port[x] # 0}]]
  /\ group' = [p \in Policies |->
                 IF p \notin policies /\ p \in Rules THEN NoGroup
                 ELSE [group[p] EXCEPT !.ports = {x \in @ : port'[x] # 0 /\ port[x] # 0}]]
  /\ acls' = {p \in acls : p \in policies \/ p \notin Rules}
  /\ policyEv' \in SetToSeqs({<<"add", p>> : p \in policies})
  /\ podEv' = [x \in Pods |-> <<>>] /\ nsEv' = <<>>
  /\ Note({"restart"})
  /\ UNCHANGED <<apiVars, np, gen>>

\* The master starts with the pods handled and the policies not yet.
Init ==
  /\ \E w \in Worlds : pods = w.pods /\ budget = w.budget
                        /\ policies = w.policies /\ policyEv = SetToSeq({<<"add", p>> : p \in w.policies})
  /\ ns = TRUE /\ nsEv = <<>>
  /\ podEv = [x \in Pods |-> <<>>]
  /\ nsInfo = [exists |-> TRUE, lock |-> "", policies |-> {}]
  /\ np = [o \in Objects |-> Fresh]
  /\ gen = [p \in Policies |-> 0]
  /\ handlers = {} /\ dead = {} /\ informer = ""
  /\ refs = [d \in Dirs |-> [x \in Pods |-> 0]]
  /\ cache = [x \in Pods |-> IF pods[x] = {} THEN 0 ELSE 1] /\ port = cache /\ ports = cache
  /\ thread = [t \in Threads |-> Idle]
  /\ deny = [d \in Dirs |-> NoGroup]
  /\ group = [p \in Policies |-> NoGroup] /\ acls = {}
  /\ disturbed = {}

Controller == PolicyThread \/ NamespaceThread \/ \E x \in Pods : PodThread(x) \/ ExpirePort(x)

Next == Environment \/ Controller \/ Restart

\* Every thread runs; the port cache's timer fires.
Fairness ==
  /\ WF_vars(PolicyThread) /\ WF_vars(NamespaceThread)
  /\ \A x \in Pods : WF_vars(PodThread(x))

Spec == Init /\ [][Next]_vars /\ Fairness

----------------------------------------------------------------------------
Quiet == /\ \A t \in Threads : thread[t] = Idle
         /\ policyEv = <<>> /\ nsEv = <<>> /\ \A x \in Pods : podEv[x] = <<>>

SelectedBy(p)   == {x \in Pods : port[x] # 0 /\ Selects(p, pods[x])}
Wanted(d)       == UNION {SelectedBy(p) : p \in {q \in policies : d \in DenyDirs(q, q \in Rules)}}

\* A pod that some policy selects is in the namespace's default-deny groups
\* once all events are handled and no command failed: localPodAddDefaultDeny
\* counts references "to ensure we don't accidentally open up a pod".
SelectedPodIsDenied ==
  (Quiet /\ disturbed \cap {"fault", "nowait", "restart"} = {}) =>
    \A d \in Dirs : Wanted(d) \subseteq deny[d].ports

\* Once all events are handled a pod is in the default-deny groups exactly if
\* some policy selects it, and in the port groups of exactly those policies,
\* which have their ACLs: whatever the order in which policies, pods and the
\* namespace come, change and go, unless one of the races that break it was
\* met (a port that is still cached for an earlier pod, a reference lost to
\* a concurrent deletion, a commit overtaken by another, a policy created for
\* a namespace that is gone) or a command failed.  A restart may leave more in
\* the groups of policies that went meanwhile, but not less.
PortGroupsMatch ==
  (Quiet /\ disturbed \subseteq {"restart"}) =>
    /\ \A d \in Dirs : Wanted(d) \subseteq deny[d].ports
    /\ \A p \in policies : group[p].ports = SelectedBy(p) /\ group[p].exists /\ p \in acls
    /\ disturbed = {} => /\ \A d \in Dirs : deny[d].ports = Wanted(d)
                         /\ \A p \in Policies \ policies : ~ group[p].exists /\ p \notin acls

LockHeld == nsInfo.lock # ""
LockFree == nsInfo.lock = "" \/ "locked" \in disturbed

\* Whoever takes the namespace's lock to delete policies lets go of it again,
\* whatever handlers are in the middle of a call, unless a policy's own lock
\* was left behind by the early return of addNetworkPolicy.
NamespaceLockReleased == LockHeld ~> LockFree
=============================================================================
