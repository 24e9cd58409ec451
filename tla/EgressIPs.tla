----------------------------- MODULE EgressIPs ------------------------------
(***************************************************************************)
(* Egress IPs (pkg/ovn/egressip.go): addresses given to egress nodes, and  *)
(* a reroute policy with its NAT rule for every selected pod and address.  *)
(*                                                                         *)
(* EgressIP objects have one informer thread, a node has its own, and a    *)
(* goroutine dials the nodes.  Each of them moves an EgressIP in steps:    *)
(* release, remove handlers and rules, assign, register handlers, write    *)
(* the status.  A step is what a mutex makes one.  What a namespace's or a *)
(* pod's event does is one step too.                                       *)
(***************************************************************************)
EXTENDS Integers, Sequences, FiniteSets, SequencesExt

CONSTANTS Names, Nodes, Pods, Namespaces,
          NsOf,      \* the namespace of a pod
          Specs,     \* sequences of addresses an EgressIP may ask for
          Hosts,     \* the addresses in the subnet of each node
          Own,       \* the address of each node itself
          Garbled,   \* what does not parse as an address
          Worlds     \* what exists at first, a bound on what may happen then

VARIABLES
  \* The API server, as the informers' stores have it.
  eip,         \* EgressIP objects: spec, status items, resource version
  node,        \* nodes: existence, egress label, Ready condition, primary-ifaddr annotation
  up,          \* the nodes that answer a dial
  matches,     \* the namespaces the EgressIPs select
  pods,        \* "none", "noip" or "ip"
  eipEv, nodeEv, nsEv, podEv,   \* events not handled yet
  \* The controller.
  allocator,   \* egressNode of each node known to it
  retry,       \* assignmentRetry
  retryLock,   \* the thread with assignmentRetryMutex, or ""
  nsHandlers, podHandlers,      \* registered handlers, with the object they captured
  nsCache, podCache,            \* namespaceHandlerCache, podHandlerCache
  dying,       \* handlers whose removal waits for the informer's lock
  serial,      \* handlers registered so far for an EgressIP
  podRetry,
  thread,
  \* The northbound database.
  rules,       \* reroute policies and NAT rules of pods
  noReroute,   \* the nodes that traffic of egress pods reaches directly
  budget, disturbed

apiVars  == <<eip, node, up, matches, pods>>
evVars   == <<eipEv, nodeEv, nsEv, podEv>>
hVars    == <<nsHandlers, podHandlers, nsCache, podCache, dying, serial, podRetry>>
ctlVars  == <<allocator, retry, retryLock, hVars, thread>>
histVars == <<budget, disturbed>>
vars     == <<apiVars, evVars, ctlVars, rules, noReroute, histVars>>

Idle    == [pc |-> "idle"]
Absent  == [exists |-> FALSE, spec |-> <<>>, items |-> {}, rv |-> 0]
NoNode  == [exists |-> FALSE, label |-> FALSE, ready |-> FALSE, addr |-> FALSE]
Unknown == [known |-> FALSE, ips |-> {}, assignable |-> FALSE, ready |-> FALSE, reachable |-> FALSE]
Movers  == {"eip", "reach"} \cup Nodes
Spend(kind) == budget[kind] > 0 /\ budget' = [budget EXCEPT ![kind] = @ - 1]
Note(what)  == disturbed' = disturbed \cup what
Goto(t, to) == thread' = [thread EXCEPT ![t] = to]
Busy(t, pc) == thread[t].pc = pc

----------------------------------------------------------------------------
\* The API server and the world.

ChangeEgressIP(e) ==
  /\ Spend("eip")
  /\ \/ /\ ~ eip[e].exists
        /\ \E s \in Specs : eip' = [eip EXCEPT ![e] = [exists |-> TRUE, spec |-> s, items |-> {}, rv |-> @.rv + 1]]
        /\ eipEv' = Append(eipEv, <<"add", e, Absent, eip'[e]>>)
     \/ /\ eip[e].exists
        /\ \E s \in Specs \ {eip[e].spec} : eip' = [eip EXCEPT ![e].spec = s, ![e].rv = @ + 1]
        /\ eipEv' = Append(eipEv, <<"update", e, eip[e], eip'[e]>>)
     \/ /\ eip[e].exists
        /\ eip' = [eip EXCEPT ![e] = [Absent EXCEPT !.rv = eip[e].rv]]
        /\ eipEv' = Append(eipEv, <<"delete", e, eip[e], Absent>>)
  /\ UNCHANGED <<node, up, matches, pods, nodeEv, nsEv, podEv, ctlVars, rules, disturbed, noReroute>>

\* A node comes, goes, is labelled, changes its condition or is annotated with
\* the address of its primary interface.
ChangeNode(n) ==
  /\ Spend("node")
  /\ \E new \in {NoNode} \cup [exists : {TRUE}, label : BOOLEAN, ready : BOOLEAN, addr : BOOLEAN] :
       /\ new # node[n] /\ (new.exists /\ node[n].addr => new.addr)
       /\ node' = [node EXCEPT ![n] = new]
       /\ nodeEv' = [nodeEv EXCEPT ![n] = Append(@, <<node[n], new>>)]
  /\ UNCHANGED <<eip, up, matches, pods, eipEv, nsEv, podEv, ctlVars, rules, disturbed, noReroute>>

ChangeReachability(n) ==
  /\ Spend("dial")
  /\ up' = IF n \in up THEN up \ {n} ELSE up \cup {n}
  /\ UNCHANGED <<eip, node, matches, pods, evVars, ctlVars, rules, disturbed, noReroute>>

ChangeNamespace(s) ==
  /\ Spend("ns")
  /\ matches' = IF s \in matches THEN matches \ {s} ELSE matches \cup {s}
  /\ nsEv' = [nsEv EXCEPT ![s] = Append(@, s \in matches')]
  /\ UNCHANGED <<eip, node, up, pods, eipEv, nodeEv, podEv, ctlVars, rules, disturbed, noReroute>>

\* A pod is created, gets its address or is deleted.
ChangePod(x) ==
  /\ Spend("pod")
  /\ \E new \in CASE pods[x] = "none" -> {"noip"} [] pods[x] = "noip" -> {"ip", "none"} [] pods[x] = "ip" -> {"none"} :
       /\ pods' = [pods EXCEPT ![x] = new]
       /\ podEv' = [podEv EXCEPT ![x] = Append(@, <<pods[x], new>>)]
  /\ UNCHANGED <<eip, node, up, matches, eipEv, nodeEv, nsEv, ctlVars, rules, disturbed, noReroute>>

Environment ==
  \/ \E e \in Names : ChangeEgressIP(e)
  \/ \E n \in Nodes : ChangeNode(n) \/ ChangeReachability(n)
  \/ \E s \in Namespaces : ChangeNamespace(s)
  \/ \E x \in Pods : ChangePod(x)

----------------------------------------------------------------------------
\* The allocator.

Assignable == {n \in Nodes : allocator[n].known /\ allocator[n].assignable /\ allocator[n].ready /\ allocator[n].reachable}
Allocations == UNION {allocator[n].ips : n \in Nodes}

\* getSortedEgressData: nodes with fewer addresses first.
SortedNodes ==
  {s \in [1..Cardinality(Assignable) -> Assignable] :
     \A i, j \in DOMAIN s : i < j => s[i] # s[j] /\ Cardinality(allocator[s[i]].ips) <= Cardinality(allocator[s[j]].ips)}

\* assignEgressIPs: it stops with an error at an address that does not parse or
\* is a node's own, and keeps what it has assigned before.
Unfit(ip) == ip \in Garbled \/ \E n \in Nodes : allocator[n].known /\ ip = Own[n]
UnfitAt(spec) == SelectInSeq(spec, Unfit)
FitPrefix(spec) == IF UnfitAt(spec) = 0 THEN spec ELSE SubSeq(spec, 1, UnfitAt(spec) - 1)

\* An address that nobody has goes to the first node that can host it and has
\* none for this EgressIP yet.
AssignEgressIPs(spec, order) ==
  FoldLeft(LAMBDA acc, ip :
    LET able == {i \in DOMAIN order : ip \in Hosts[order[i]] /\ \A a \in acc : a[2] # order[i]}
    IN IF ip \in Allocations \/ able = {} THEN acc
       ELSE acc \cup {<<ip, order[CHOOSE i \in able : \A j \in able : i <= j]>>},
    {}, FitPrefix(spec))

ReleaseEgressIPs(items) ==
  [n \in Nodes |-> [allocator[n] EXCEPT !.ips = {ip \in @ : <<ip, n>> \notin items}]]

----------------------------------------------------------------------------
\* Rules and handlers.

PodsOf(S) == {x \in Pods : NsOf[x] \in S}

\* A reroute policy is found by EgressIP, pod and gateway of the node, a NAT
\* rule by EgressIP, pod and address, on the router of the node.
ReroutePolicy(e, i, x) == [type |-> "policy", eip |-> e, on |-> i[2], pod |-> x]
NATRule(e, i, x)       == [type |-> "nat", eip |-> e, on |-> i, pod |-> x]
RulesFor(e, items, S)  == {ReroutePolicy(e, i, x) : i \in items, x \in S} \cup {NATRule(e, i, x) : i \in items, x \in S}
RulesOf(items, S)      == UNION {RulesFor(e, items[e], S) : e \in Names}

\* addPodEgressIP and deletePodEgressIP for pods as the caller sees them.
AddPodEgressIP(e, items, withIP) == rules \cup RulesFor(e, items, withIP)
DeletePodEgressIP(e, items, withIP) == rules \ RulesFor(e, items, withIP)

\* deleteNamespacePodsEgressIP: the pods the API server lists.
\* Mutant: the pods' rules stay.
DeleteNoPodsEgressIP(e, items, S) == rules
ListedPods(S) == {x \in PodsOf(S) : pods[x] = "ip" /\ x \notin podRetry}
DeleteNamespacePodsEgressIP(e, items, S) == DeletePodEgressIP(e, items, ListedPods(S))

CacheOf(cache, e) == {h \in {cache[e]} : h.n > 0}
NoHandler == [n |-> 0]

\* Two threads move the same EgressIP, or one of them loses track of it.
Rivals(t, e) == {u \in Movers \ {t} : thread[u].pc \notin {"idle", "next", "list", "nodes"} /\ thread[u].name = e}

----------------------------------------------------------------------------
\* Moving an EgressIP.  name and obj are the object given to the function;
\* kind says what calls it.

Job(kind, e, obj, todo, nodes) ==
  [pc |-> "release", kind |-> kind, name |-> e, obj |-> obj, new |-> Absent, todo |-> todo, nodes |-> nodes]

Release(t) ==
  /\ Busy(t, "release")
  /\ allocator' = ReleaseEgressIPs(thread[t].obj.items)
  /\ Goto(t, [thread[t] EXCEPT !.pc = "clean"])
  /\ Note({w \in {"raced"} : Rivals(t, thread[t].name) # {}}
          \cup {w \in {"freed"} : retry \ {thread[t].name} # {} /\ thread[t].obj.items # {}})
  /\ UNCHANGED <<apiVars, evVars, retry, retryLock, hVars, rules, budget, noReroute>>

\* The rest of deleteEgressIP.  RemoveNamespaceHandler and RemovePodHandler get
\* copies of the handlers: they stay alive until the informer drops them.
\* On an error nothing more is done.
Clean(t) ==
  LET e     == thread[t].name
      after == CASE thread[t].kind = "delete" -> Idle
                 [] thread[t].kind = "update" -> [thread[t] EXCEPT !.pc = "relock"]
                 [] OTHER -> [thread[t] EXCEPT !.pc = "assign", !.obj.items = {}]
  IN /\ Busy(t, "clean")
     /\ dying' = dying \cup CacheOf(nsCache, e) \cup CacheOf(podCache, e)
     /\ nsCache' = [nsCache EXCEPT ![e] = NoHandler]
     /\ podCache' = [podCache EXCEPT ![e] = NoHandler]
     /\ \/ /\ rules' = DeleteNamespacePodsEgressIP(e, thread[t].obj.items, matches)
           /\ Goto(t, after)
           /\ Note({w \in {"missed"} : \E r \in rules : r.eip = e /\ r.pod \notin ListedPods(matches)})
           /\ UNCHANGED budget
        \/ /\ Spend("fault") /\ Note({"fault"})
           /\ Goto(t, IF thread[t].kind \in {"add", "lost"} THEN [thread[t] EXCEPT !.pc = "next"] ELSE after)
           /\ UNCHANGED rules
     /\ UNCHANGED <<apiVars, evVars, allocator, retry, retryLock, nsHandlers, podHandlers, serial, podRetry, noReroute>>

\* The second half of an update waits for assignmentRetryMutex.
Relock(t) ==
  /\ Busy(t, "relock") /\ retryLock = ""
  /\ retryLock' = t
  /\ Goto(t, [thread[t] EXCEPT !.pc = "assign", !.obj = [thread[t].new EXCEPT !.items = {}]])
  /\ UNCHANGED <<apiVars, evVars, allocator, retry, hVars, rules, histVars, noReroute>>

NeedsRetry(items, spec) == Cardinality(items) < Len(spec)

Assign(t) ==
  LET e    == thread[t].name
      spec == thread[t].obj.spec
      refused == Assignable # {} /\ UnfitAt(spec) # 0
  IN /\ Busy(t, "assign")
     /\ \E order \in SortedNodes : LET items == AssignEgressIPs(spec, order) IN
          /\ allocator' = [n \in Nodes |-> [allocator[n] EXCEPT !.ips = @ \cup {i[1] : i \in {j \in items : j[2] = n}}]]
          /\ retry' = IF NeedsRetry(items, spec) /\ ~ refused THEN retry \cup {e} ELSE retry
          /\ Goto(t, [thread[t] EXCEPT !.pc = IF items = {} \/ refused THEN "update" ELSE "register", !.obj.items = items])
     /\ Note({w \in {"raced"} : Rivals(t, e) # {} \/ (retryLock \notin {"", t} /\ retry' # retry)})
     /\ UNCHANGED <<apiVars, evVars, retryLock, hVars, rules, budget, noReroute>>

\* The rest of addEgressIP: the new handler is given the matching namespaces,
\* and in each a new pod handler is given the pods.  One cache entry for all
\* pod handlers of an EgressIP.
PodHandler(e, items, n, s) == [eip |-> e, items |-> items, n |-> n, ns |-> s]
Register(t) ==
  LET e     == thread[t].name
      items == thread[t].obj.items
      n     == serial[e] + 1
      new   == {PodHandler(e, items, n, s) : s \in matches}
  IN /\ Busy(t, "register")
     /\ serial' = [serial EXCEPT ![e] = n]
     /\ nsHandlers' = nsHandlers \cup {PodHandler(e, items, n, "")}
     /\ nsCache' = [nsCache EXCEPT ![e] = PodHandler(e, items, n, "")]
     /\ podHandlers' = podHandlers \cup new
     /\ \E h \in (IF new = {} THEN {podCache[e]} ELSE new) : podCache' = [podCache EXCEPT ![e] = h]
     /\ podRetry' = (podRetry \cup {x \in PodsOf(matches) : pods[x] = "noip"}) \ {x \in PodsOf(matches) : pods[x] = "ip"}
     /\ rules' = AddPodEgressIP(e, items, {x \in PodsOf(matches) : pods[x] = "ip"})
     /\ Goto(t, [thread[t] EXCEPT !.pc = "update"])
     /\ Note({w \in {"overwritten"} : Cardinality(new) > 1} \cup {w \in {"raced"} : CacheOf(nsCache, e) # {}})
     /\ UNCHANGED <<apiVars, evVars, allocator, retry, retryLock, dying, budget, noReroute>>

\* updateEgressIPWithRetry: with a stale object every attempt is a conflict.
UpdateStatus(e, obj) ==
  IF eip[e].exists /\ eip[e].rv = obj.rv /\ eip[e].items # obj.items
  THEN [eip EXCEPT ![e].items = obj.items, ![e].rv = @ + 1] ELSE eip
Conflict(e, obj) == ~ eip[e].exists \/ eip[e].rv # obj.rv

Update(t) ==
  LET e   == thread[t].name
      obj == thread[t].obj
      all == Cardinality(obj.items) = Len(obj.spec)
  IN /\ Busy(t, "update")
     /\ \/ /\ eip' = UpdateStatus(e, obj)
           /\ Note({w \in {"conflict"} : Conflict(e, obj)}
                   \cup {w \in {"unseen"} : ~ Conflict(e, obj) /\ \E i \in obj.items : i[2] \notin Assignable})
           /\ UNCHANGED budget
        \/ /\ Spend("fault") /\ Note({"fault"})
           /\ UNCHANGED eip
     /\ IF thread[t].kind \in {"create", "update"}
        THEN Goto(t, Idle) /\ retryLock' = "" /\ UNCHANGED retry
        ELSE /\ Goto(t, [thread[t] EXCEPT !.pc = "next"])
             /\ retry' = IF thread[t].kind = "add" /\ all /\ ~ Conflict(e, obj) /\ budget' = budget THEN retry \ {e} ELSE retry
             /\ UNCHANGED retryLock
     /\ UNCHANGED <<node, up, matches, pods, evVars, allocator, hVars, rules, noReroute>>

Move(t) == Release(t) \/ Clean(t) \/ Relock(t) \/ Assign(t) \/ Register(t) \/ Update(t)

----------------------------------------------------------------------------
\* The thread of the EgressIP informer (WatchEgressIP).

TakeAdd ==
  LET obj == Head(eipEv)[4]
      job == Job("create", Head(eipEv)[2], obj, {}, {})
  IN /\ thread["eip"] = Idle /\ eipEv # <<>> /\ Head(eipEv)[1] = "add" /\ retryLock = ""
     /\ eipEv' = Tail(eipEv) /\ retryLock' = "eip"
     /\ Goto("eip", [job EXCEPT !.pc = IF obj.items = {} THEN "assign" ELSE "register"])
     /\ UNCHANGED <<apiVars, nodeEv, nsEv, podEv, allocator, retry, hVars, rules, histVars, noReroute>>

TakeChange ==
  LET ev == Head(eipEv)
  IN /\ thread["eip"] = Idle /\ eipEv # <<>> /\ ev[1] # "add"
     /\ eipEv' = Tail(eipEv)
     /\ Goto("eip", [Job(ev[1], ev[2], ev[3], {}, {}) EXCEPT !.new = ev[4]])
     /\ UNCHANGED <<apiVars, nodeEv, nsEv, podEv, allocator, retry, retryLock, hVars, rules, histVars, noReroute>>

EgressIPThread == TakeAdd \/ TakeChange \/ Move("eip")

----------------------------------------------------------------------------
\* Egress nodes.  addEgressNode tries the EgressIPs that wait again, and
\* deleteEgressNode moves those with an address on the node.

\* Mutant: the EgressIPs of the node are not found.
DeleteEgressNodeOnly(t, n, rest) == [pc |-> "list", kind |-> "lost", node |-> "", nodes |-> rest]
AddEgressNode(t, rest)       == [pc |-> "list", kind |-> "add", node |-> "", nodes |-> rest]
DeleteEgressNode(t, n, rest) == [pc |-> "list", kind |-> "lost", node |-> n, nodes |-> rest]

\* addEgressNode takes the mutex; deleteEgressNode lists the EgressIPs and has
\* their objects as of now, or gives up when it cannot.
List(t) ==
  LET on == {e \in Names : \E i \in eip[e].items : i[2] = thread[t].node}
      go(kind, todo) == Goto(t, [Job(kind, "", Absent, todo, thread[t].nodes) EXCEPT !.pc = "next"])
  IN /\ Busy(t, "list")
     /\ \/ /\ thread[t].kind = "add" /\ retryLock = "" /\ retryLock' = t
           /\ go("add", {<<e, Absent>> : e \in retry})
           /\ UNCHANGED histVars
        \/ /\ thread[t].kind = "lost"
           /\ \/ go("lost", {<<e, eip[e]>> : e \in on}) /\ UNCHANGED histVars
              \/ on # {} /\ go("lost", {}) /\ Spend("fault") /\ Note({"fault"})
           /\ UNCHANGED retryLock
     /\ UNCHANGED <<apiVars, evVars, allocator, retry, hVars, rules, noReroute>>

\* The next EgressIP: addEgressNode gets the object now, and passes over one
\* that is gone or that it cannot get (both stay in assignmentRetry).
NextEgressIP(t) ==
  /\ Busy(t, "next")
  /\ \/ \E item \in thread[t].todo :
          LET rest == thread[t].todo \ {item}
              obj  == IF thread[t].kind = "add" THEN eip[item[1]] ELSE item[2]
              skip == Goto(t, [thread[t] EXCEPT !.todo = rest])
          IN /\ \/ obj.exists /\ Goto(t, Job(thread[t].kind, item[1], obj, rest, thread[t].nodes)) /\ UNCHANGED histVars
                \/ ~ obj.exists /\ skip /\ UNCHANGED histVars
                \/ obj.exists /\ thread[t].kind = "add" /\ skip /\ Spend("fault") /\ Note({"fault"})
             /\ UNCHANGED retryLock
     \/ /\ thread[t].todo = {}
        /\ Goto(t, IF thread[t].nodes = {} THEN Idle ELSE [pc |-> "nodes", nodes |-> thread[t].nodes])
        /\ retryLock' = IF retryLock = t THEN "" ELSE retryLock
        /\ UNCHANGED histVars
  /\ UNCHANGED <<apiVars, evVars, allocator, retry, hVars, rules, noReroute>>

\* WatchEgressNodes.  initEgressIPAllocator enters a node once it is annotated;
\* what is set of a node that is not known is lost.
Known(n, new)     == IF allocator[n].known \/ ~ new.addr THEN allocator[n] ELSE [Unknown EXCEPT !.known = TRUE]
Reachable(n, new) == Known(n, new).known /\ (Known(n, new).reachable \/ n \in up)
Enter(n, as)      == allocator' = IF as.known THEN [allocator EXCEPT ![n] = as] ELSE allocator

\* addNodeForEgress, with the policy that keeps traffic to the node direct; when
\* that fails the node is not entered.
AddNode(n, new) ==
  \/ /\ noReroute' = noReroute \cup {n}
     /\ Enter(n, [Known(n, new) EXCEPT !.assignable = @ \/ new.label, !.ready = @ \/ new.ready, !.reachable = Reachable(n, new)])
     /\ Goto(n, IF new.label /\ new.ready /\ Reachable(n, new) THEN AddEgressNode(n, {}) ELSE Idle)
     /\ UNCHANGED histVars
  \/ /\ Spend("fault") /\ Note({"undirect"})
     /\ Enter(n, [allocator[n] EXCEPT !.assignable = @ \/ new.label, !.ready = @ \/ new.ready, !.reachable = @ \/ n \in up])
     /\ Goto(n, IF allocator[n].known /\ new.label /\ new.ready /\ allocator'[n].reachable THEN AddEgressNode(n, {}) ELSE Idle)
     /\ UNCHANGED noReroute

UpdateNode(n, old, new) ==
  LET flags == [Known(n, new) EXCEPT !.ready = new.ready, !.reachable = Reachable(n, new)]
  IN /\ CASE ~ old.label /\ ~ new.label -> Enter(n, Known(n, new)) /\ Goto(n, Idle)
          [] old.label /\ ~ new.label ->
               Enter(n, [Known(n, new) EXCEPT !.assignable = FALSE]) /\ Goto(n, DeleteEgressNode(n, n, {}))
          [] ~ old.label /\ new.label ->
               /\ Enter(n, [flags EXCEPT !.assignable = TRUE])
               /\ Goto(n, IF new.ready /\ Reachable(n, new) THEN AddEgressNode(n, {}) ELSE Idle)
          [] old.label /\ new.label ->
               /\ Enter(n, flags)
               /\ Goto(n, CASE old.ready = new.ready -> Idle
                            [] old.ready /\ ~ new.ready -> DeleteEgressNode(n, n, {})
                            [] OTHER -> IF Reachable(n, new) THEN AddEgressNode(n, {}) ELSE Idle)
     /\ Note({w \in {"late"} : old.label /\ new.label /\ new.addr /\ ~ allocator[n].known})
     /\ UNCHANGED <<noReroute, budget>>

\* deleteNodeForEgress drops the node with its allocations, unless the policy
\* cannot be removed.
DeleteNode(n, old) ==
  /\ \/ /\ noReroute' = noReroute \ {n}
        /\ allocator' = [allocator EXCEPT ![n] = Unknown]
        /\ UNCHANGED histVars
     \/ /\ Spend("fault") /\ Note({"undropped"})
        /\ UNCHANGED <<noReroute, allocator>>
  /\ Goto(n, IF old.label THEN DeleteEgressNode(n, n, {}) ELSE Idle)

TakeNodeEvent(n) ==
  LET old == Head(nodeEv[n])[1]
      new == Head(nodeEv[n])[2]
  IN /\ thread[n] = Idle /\ nodeEv[n] # <<>>
     /\ nodeEv' = [nodeEv EXCEPT ![n] = Tail(@)]
     /\ \/ ~ old.exists /\ AddNode(n, new)
        \/ old.exists /\ new.exists /\ UpdateNode(n, old, new)
        \/ ~ new.exists /\ DeleteNode(n, old)
     /\ UNCHANGED <<apiVars, eipEv, nsEv, podEv, retry, retryLock, hVars, rules>>

NodeThread(n) == TakeNodeEvent(n) \/ List(n) \/ NextEgressIP(n) \/ Move(n)

\* checkEgressNodesReachability, every 5 seconds.
CheckReachability ==
  LET tried   == {n \in Nodes : allocator[n].known /\ allocator[n].assignable /\ allocator[n].ready}
      changed == {n \in tried : allocator[n].reachable # (n \in up)}
  IN /\ thread["reach"] = Idle /\ changed # {}
     /\ allocator' = [n \in Nodes |-> IF n \in tried THEN [allocator[n] EXCEPT !.reachable = n \in up] ELSE allocator[n]]
     /\ Goto("reach", [pc |-> "nodes", nodes |-> {<<n, allocator[n].reachable>> : n \in changed}])
     /\ UNCHANGED <<apiVars, evVars, retry, retryLock, hVars, rules, histVars, noReroute>>

\* The object of a node that is gone, or that cannot be got, has no name.
ReachabilityChanged ==
  /\ Busy("reach", "nodes")
  /\ \E c \in thread["reach"].nodes, n \in Nodes \cup {""} :
       LET rest == thread["reach"].nodes \ {c}
       IN /\ \/ n = (IF node[c[1]].exists THEN c[1] ELSE "") /\ UNCHANGED histVars
             \/ n = "" /\ node[c[1]].exists /\ Spend("fault") /\ Note({"fault"})
          /\ Goto("reach", IF c[2] THEN DeleteEgressNode("reach", n, rest) ELSE AddEgressNode("reach", rest))
  /\ UNCHANGED <<apiVars, evVars, allocator, retry, retryLock, hVars, rules, noReroute>>

ReachThread == CheckReachability \/ ReachabilityChanged \/ List("reach") \/ NextEgressIP("reach") \/ Move("reach")

----------------------------------------------------------------------------
\* The threads of namespaces and pods call the handlers registered when the
\* event was taken, in any order.

TakeNamespaceEvent(s) ==
  /\ thread[s] = Idle /\ nsEv[s] # <<>>
  /\ nsEv' = [nsEv EXCEPT ![s] = Tail(@)]
  /\ Goto(s, [pc |-> "call", ev |-> Head(nsEv[s]), todo |-> nsHandlers])
  /\ UNCHANGED <<apiVars, eipEv, nodeEv, podEv, allocator, retry, retryLock, hVars, rules, histVars, noReroute>>

\* addNamespaceEgressIP: there is one cache entry for the pod handlers of all
\* namespaces of an EgressIP.
AddNamespaceEgressIP(h, s) ==
  LET withIP == {x \in PodsOf({s}) : pods[x] = "ip"}
      new    == PodHandler(h.eip, h.items, serial[h.eip] + 1, s)
  IN /\ podHandlers' = podHandlers \cup {new}
     /\ podCache' = [podCache EXCEPT ![h.eip] = new]
     /\ serial' = [serial EXCEPT ![h.eip] = @ + 1]
     /\ podRetry' = (podRetry \cup {x \in PodsOf({s}) : pods[x] = "noip"}) \ withIP
     /\ rules' = AddPodEgressIP(h.eip, h.items, withIP)
     /\ Note({w \in {"overwritten"} : CacheOf(podCache, h.eip) # {}} \cup {w \in {"zombie"} : h \notin nsHandlers \ dying})
     /\ UNCHANGED dying

\* deleteNamespaceEgressIP removes the pod handler in the cache.
DeleteNamespaceEgressIP(h, s) ==
  /\ dying' = dying \cup CacheOf(podCache, h.eip)
  /\ podCache' = [podCache EXCEPT ![h.eip] = NoHandler]
  /\ rules' = DeleteNamespacePodsEgressIP(h.eip, h.items, {s})
  /\ Note({w \in {"missed"} : \E r \in rules : r.eip = h.eip /\ r.pod \in PodsOf({s}) \ ListedPods({s})}
          \cup {w \in {"overwritten"} : \E c \in CacheOf(podCache, h.eip) : c.ns # s})
  /\ UNCHANGED <<podHandlers, serial, podRetry>>

CallNamespaceHandler(s) ==
  /\ Busy(s, "call")
  /\ \E h \in thread[s].todo :
       /\ Goto(s, [thread[s] EXCEPT !.todo = @ \ {h}])
       /\ IF thread[s].ev THEN AddNamespaceEgressIP(h, s) ELSE DeleteNamespaceEgressIP(h, s)
  /\ UNCHANGED <<apiVars, evVars, allocator, retry, retryLock, nsHandlers, nsCache, budget, noReroute>>

TakePodEvent(x) ==
  /\ thread[x] = Idle /\ podEv[x] # <<>>
  /\ podEv' = [podEv EXCEPT ![x] = Tail(@)]
  /\ Goto(x, [pc |-> "call", ev |-> Head(podEv[x]), todo |-> {h \in podHandlers : h.ns = NsOf[x]}])
  /\ UNCHANGED <<apiVars, eipEv, nodeEv, nsEv, allocator, retry, retryLock, hVars, rules, histVars, noReroute>>

\* The pod handler of addNamespaceEgressIP: podRetry is by pod, not by EgressIP.
CallPodHandler(x) ==
  LET old == thread[x].ev[1]
      new == thread[x].ev[2]
  IN /\ Busy(x, "call")
     /\ \E h \in thread[x].todo :
          /\ Goto(x, [thread[x] EXCEPT !.todo = @ \ {h}])
          /\ \/ /\ new = "noip"
                /\ podRetry' = podRetry \cup {x}
                /\ UNCHANGED rules
             \/ /\ new = "ip" /\ x \in podRetry
                /\ podRetry' = podRetry \ {x}
                /\ rules' = AddPodEgressIP(h.eip, h.items, {x})
             \/ /\ new = "none" /\ x \notin podRetry
                /\ rules' = DeletePodEgressIP(h.eip, h.items, IF old = "ip" THEN {x} ELSE {})
                /\ UNCHANGED podRetry
             \/ /\ (new = "ip" /\ x \notin podRetry) \/ (new = "none" /\ x \in podRetry)
                /\ UNCHANGED <<rules, podRetry>>
          /\ Note({w \in {"zombie"} : h \notin podHandlers \ dying /\ rules' # rules}
                  \cup {w \in {"twice"} : new = "ip" /\ thread[x].todo # {h}})
     /\ UNCHANGED <<apiVars, evVars, allocator, retry, retryLock, nsHandlers, podHandlers, nsCache, podCache, dying, serial, budget, noReroute>>

CallsDone(t) ==
  /\ Busy(t, "call") /\ thread[t].todo = {}
  /\ Goto(t, Idle)
  /\ UNCHANGED <<apiVars, evVars, allocator, retry, retryLock, hVars, rules, histVars, noReroute>>

\* The informer gets to drop a handler.
DropHandler(h) ==
  /\ nsHandlers' = nsHandlers \ {h} /\ podHandlers' = podHandlers \ {h} /\ dying' = dying \ {h}
  /\ UNCHANGED <<apiVars, evVars, allocator, retry, retryLock, nsCache, podCache, serial, podRetry, thread, rules, histVars, noReroute>>

Caller(t) == CallsDone(t) \/ (t \in Namespaces /\ (TakeNamespaceEvent(t) \/ CallNamespaceHandler(t)))
                          \/ (t \in Pods /\ (TakePodEvent(t) \/ CallPodHandler(t)))
DropHandlers == \E h \in dying : DropHandler(h)

----------------------------------------------------------------------------
\* Restart.  WatchEgressNodes comes first; syncEgressIPs clears a status with
\* an address on a node that cannot have it, and the initial add of such an
\* EgressIP has the object from before.  Addresses in a valid status are not
\* entered in the allocator.

ValidAssignment(items) ==
  items # {} /\ \A i \in items : /\ node[i[2]].addr /\ i[1] \in Hosts[i[2]]
                                 /\ \A n \in Nodes : node[n].addr => i[1] # Own[n]
                                 /\ \A j \in items : i[2] = j[2] => i = j

Restart ==
  LET kept == [e \in Names |-> IF ValidAssignment(eip[e].items) THEN eip[e].items ELSE {}]
      bad  == {e \in Names : eip[e].items # kept[e]}
      live == SetToSeq({e \in Names : eip[e].exists})
  IN /\ Spend("restart")
     /\ allocator' = [n \in Nodes |-> IF node[n].addr
          THEN [known |-> TRUE, ips |-> {}, assignable |-> node[n].label, ready |-> node[n].ready, reachable |-> n \in up]
          ELSE Unknown]
     /\ eip' = [e \in Names |-> IF e \in bad THEN [eip[e] EXCEPT !.items = {}, !.rv = @ + 1] ELSE eip[e]]
     /\ eipEv' = [k \in DOMAIN live |-> <<"add", live[k], Absent, [eip[live[k]] EXCEPT !.items = kept[live[k]]]>>]
     /\ nodeEv' = [n \in Nodes |-> <<>>] /\ nsEv' = [s \in Namespaces |-> <<>>] /\ podEv' = [x \in Pods |-> <<>>]
     /\ retry' = {} /\ retryLock' = "" /\ nsHandlers' = {} /\ podHandlers' = {} /\ dying' = {} /\ podRetry' = {}
     /\ nsCache' = [e \in Names |-> NoHandler] /\ podCache' = nsCache'
     /\ thread' = [t \in DOMAIN thread |-> Idle]
     /\ Note({w \in {"invalid"} : bad # {}} \cup {w \in {"forgotten"} : \E e \in Names : kept[e] # {}}
             \cup {w \in {"leftover"} : \/ \E n \in noReroute : ~ node[n].exists
                                        \/ ~ rules \subseteq RulesOf(kept, {x \in PodsOf(matches) : pods[x] = "ip"})}
             \cup {w \in {"partial"} : \E e \in Names : kept[e] # {} /\ Cardinality(kept[e]) < Len(eip[e].spec)})
     /\ noReroute' = noReroute \cup {n \in Nodes : node[n].exists}
     /\ UNCHANGED <<node, up, matches, pods, serial, rules>>

----------------------------------------------------------------------------
\* At first everything a world has is settled.
Init ==
  \E w \in Worlds :
    LET held(n) == UNION {{i[1] : i \in {j \in w.eip[e].items : j[2] = n}} : e \in Names}
        placed  == {e \in Names : w.eip[e].items # {}}
        hs(ss)  == {PodHandler(e, w.eip[e].items, 1, s) : e \in placed, s \in ss}
        cached(s) == [e \in Names |-> IF e \in placed THEN PodHandler(e, w.eip[e].items, 1, s) ELSE NoHandler]
    IN /\ eip = w.eip /\ node = w.node /\ up = Nodes /\ matches = w.matches /\ pods = w.pods
       /\ eipEv = <<>> /\ nodeEv = [n \in Nodes |-> <<>>]
       /\ nsEv = [s \in Namespaces |-> <<>>] /\ podEv = [x \in Pods |-> <<>>]
       /\ allocator = [n \in Nodes |-> IF node[n].addr
            THEN [known |-> TRUE, ips |-> held(n), assignable |-> node[n].label, ready |-> node[n].ready, reachable |-> TRUE]
            ELSE Unknown]
       /\ retry = {e \in Names : Cardinality(w.eip[e].items) < Len(w.eip[e].spec)} /\ retryLock = ""
       /\ serial = [e \in Names |-> 1] /\ dying = {}
       /\ nsHandlers = hs({""}) /\ nsCache = cached("")
       /\ podHandlers = hs(w.matches)
       /\ podCache = IF w.matches = {} THEN [e \in Names |-> NoHandler] ELSE cached(CHOOSE s \in w.matches : TRUE)
       /\ podRetry = IF placed = {} THEN {} ELSE {x \in PodsOf(w.matches) : w.pods[x] = "noip"}
       /\ thread = [t \in Movers \cup Namespaces \cup Pods |-> Idle]
       /\ rules = RulesOf([e \in Names |-> w.eip[e].items], {x \in PodsOf(w.matches) : w.pods[x] = "ip"})
       /\ noReroute = {n \in Nodes : w.node[n].exists}
       /\ disturbed = {} /\ budget = w.budget

Next ==
  \/ Environment
  \/ EgressIPThread \/ ReachThread \/ DropHandlers
  \/ \E n \in Nodes : NodeThread(n)
  \/ \E t \in Namespaces \cup Pods : Caller(t)
  \/ Restart

Fairness ==
  /\ WF_vars(EgressIPThread) /\ WF_vars(ReachThread) /\ WF_vars(DropHandlers)
  /\ \A n \in Nodes : WF_vars(NodeThread(n))
  /\ \A t \in Namespaces \cup Pods : WF_vars(Caller(t))

Spec == Init /\ [][Next]_vars /\ Fairness

----------------------------------------------------------------------------
TypeOK ==
  /\ \A e \in Names : eip[e].spec \in Specs \cup {<<>>} /\ eip[e].rv \in Nat
  /\ retry \subseteq Names /\ retryLock \in Movers \cup {""}
  /\ \A r \in rules : r.eip \in Names /\ r.pod \in Pods

Quiet ==
  /\ \A t \in DOMAIN thread : thread[t] = Idle
  /\ eipEv = <<>> /\ dying = {}
  /\ \A n \in Nodes : nodeEv[n] = <<>> /\ (allocator[n].assignable /\ allocator[n].ready => allocator[n].reachable = (n \in up))
  /\ \A s \in Namespaces : nsEv[s] = <<>>
  /\ \A x \in Pods : podEv[x] = <<>>
Calm(but) == Quiet /\ disturbed \subseteq but

\* Once everything is handled, each selected pod has a reroute policy and a NAT
\* rule for every address in the status of its EgressIP, and no others, and
\* traffic to the nodes that exist, and no others, is not rerouted.  An EgressIP
\* with an address that is refused may lack rules for the addresses before it:
\* they are in its status, and no handlers are registered.
Refusable(e) == \E k \in DOMAIN eip[e].spec : eip[e].spec[k] \in Garbled \cup {Own[n] : n \in Nodes}
RulesMatchStatus ==
  Calm({"forgotten", "partial", "unseen", "freed", "late", "undirect", "undropped"}) =>
    LET due == RulesOf([e \in Names |-> eip[e].items], {x \in PodsOf(matches) : pods[x] = "ip"})
    IN /\ rules \subseteq due
       /\ \A r \in due \ rules : Refusable(r.eip)
       /\ noReroute = {n \in Nodes : node[n].exists} \/ disturbed \cap {"undirect", "undropped"} # {}

\* Once everything is handled, the allocator has the addresses that are in the
\* statuses, so that none is given twice and none is lost.
AllocatorMatchesStatus ==
  Calm({"overwritten", "zombie", "missed", "twice", "freed", "late", "undirect"}) =>
    \A n \in Nodes : allocator[n].ips = {i[1] : i \in {j \in UNION {eip[e].items : e \in Names} : j[2] = n}}

\* An EgressIP that lacks an address, and has none that is refused, is in
\* assignmentRetry, and none lacks an address that is free while a labelled,
\* ready and reachable node that it does not use yet could host it.
NoneWaitsInVain ==
  Calm({"overwritten", "zombie", "missed", "twice"}) =>
    \A e \in Names : eip[e].exists /\ Cardinality(eip[e].items) < Len(eip[e].spec) /\ ~ Refusable(e) =>
      /\ e \in retry
      /\ \A k \in DOMAIN eip[e].spec, n \in {m \in up : node[m].addr /\ node[m].label /\ node[m].ready} :
           eip[e].spec[k] \in Hosts[n] => eip[e].spec[k] \in Allocations \/ \E i \in eip[e].items : i[2] = n

Stranded(e, n) == (\E i \in eip[e].items : i[2] = n) /\ ~ (node[n].label /\ node[n].ready /\ n \in up)
NoneStranded   == disturbed # {} \/ \A e \in Names, n \in Nodes : ~ Stranded(e, n)

\* An address on a node that is gone, unlabelled, not ready or unreachable is
\* moved, or its EgressIP loses it: again and again there comes a time at which
\* no address is on such a node.
LeavesLostNode == []<>NoneStranded
=============================================================================
