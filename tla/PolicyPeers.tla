---------------------------- MODULE PolicyPeers ----------------------------
(***************************************************************************)
(* The peers of one rule of a network policy (pkg/ovn/policy.go,           *)
(* gress_policy.go): an address set with the peers' pods and the virtual   *)
(* IPs of the services, the address sets of the peers' namespaces, and the *)
(* ACL made of them.                                                       *)
(*                                                                         *)
(* A peer selects pods of the policy's own namespace ("pods"), namespaces  *)
(* ("ns"), or pods of namespaces ("nspods").  Every pod and every          *)
(* namespace has an informer thread, services share one, and so do         *)
(* policies.  A step is one handler call, or the part of it between two    *)
(* uses of the policy's lock.                                              *)
(***************************************************************************)
EXTENDS Integers, Sequences, FiniteSets, SequencesExt, TLC

CONSTANTS Peers,      \* the peers of the rule, in the order of the spec
          Kind,       \* what each peer selects
          Pods, Namespaces, Home, NsOf,   \* Home is the policy's namespace
          Services, Vips,
          Labels,     \* what a pod's or a namespace's labels may match
          Worlds,     \* what exists at first, a bound on what may happen then
          MaxGen      \* bound: incarnations of the policy

PeerSet == Range(Peers)
Idle    == [pc |-> "idle"]
NoSet   == [exists |-> FALSE, ips |-> {}]
Fresh   == [deleted |-> FALSE, namespaces |-> {}, podHandlers |-> {}, nsHandlers |-> {}]

VARIABLES
  \* The API server, as the informers' stores have it.
  policy,      \* the policy exists
  pods,        \* {} for no pod, else {<<peers whose pod selector it matches, it has an IP>>}
  matches,     \* peers whose namespace selector each namespace matches
  services,    \* the VIPs of each service, {} if there is none
  policyEv, podEv, nsEv, svcEv,   \* events not handled yet
  \* The controller.
  gen, np,     \* the networkPolicy objects so far; object g is np[g]
  podHandlers, \* the pod informer: records with serial number, object, peer, namespace
  nsHandlers,  \* the namespace informer: pairs of object and peer
  svcHandlers, \* the service informer: objects
  informer,    \* the namespace informer is locked to add a handler
  serial,      \* handlerCounter
  thread,
  \* The northbound database.
  aset,        \* the address set of each object
  acl,         \* the namespaces in the ACL's match, by object
  \* Bounds and history.
  budget, disturbed

apiVars  == <<policy, pods, matches, services>>
evVars   == <<policyEv, podEv, nsEv, svcEv>>
infVars  == <<podHandlers, nsHandlers, svcHandlers, informer, serial>>
dbVars   == <<aset, acl>>
histVars == <<budget, disturbed>>
vars     == <<apiVars, evVars, gen, np, infVars, thread, dbVars, histVars>>

Threads       == {"policy", "svc"} \cup Pods \cup Namespaces
PodMatches(peer, s) == \E v \in s : peer \in v[1]
HasIP(s)      == \E v \in s : v[2]
Spend(kind)   == budget[kind] > 0 /\ budget' = [budget EXCEPT ![kind] = @ - 1]
Note(what)    == disturbed' = disturbed \cup what
Goto(t, to)   == thread' = [thread EXCEPT ![t] = to]
Busy(t, pc)   == thread[t].pc = pc

----------------------------------------------------------------------------
\* The API server.

\* The peers that select pod x when it is s and its namespace matches m.
Selecting(x, s, m) ==
  {peer \in PeerSet : /\ PodMatches(peer, s)
                      /\ \/ Kind[peer] = "pods" /\ NsOf[x] = Home
                         \/ Kind[peer] = "nspods" /\ peer \in m}

ChangePolicy ==
  /\ Spend("policy")
  /\ policy' = ~ policy
  /\ policyEv' = Append(policyEv, IF policy THEN "delete" ELSE "add")
  /\ UNCHANGED <<pods, matches, services, podEv, nsEv, svcEv, gen, np, infVars, thread, dbVars, disturbed>>

\* A pod is created, gets its address, is relabelled or deleted.
ChangePod(x) ==
  /\ Spend("pod")
  /\ \E s \in {{}} \cup {{<<chosen, ip>>} : chosen \in Labels, ip \in BOOLEAN} :
       /\ s # pods[x] /\ (HasIP(pods[x]) => s = {} \/ HasIP(s))
       /\ pods' = [pods EXCEPT ![x] = s]
       /\ podEv' = [podEv EXCEPT ![x] = Append(@, <<pods[x], s>>)]
       /\ Note({w \in {"shared"} : /\ Selecting(x, s, matches[NsOf[x]]) # {}
                                   /\ ~ Selecting(x, pods[x], matches[NsOf[x]]) \subseteq Selecting(x, s, matches[NsOf[x]])})
  /\ UNCHANGED <<policy, matches, services, policyEv, nsEv, svcEv, gen, np, infVars, thread, dbVars>>

RelabelNamespace(n) ==
  /\ Spend("ns")
  /\ \E m \in Labels :
       /\ m # matches[n]
       /\ matches' = [matches EXCEPT ![n] = m]
       /\ nsEv' = [nsEv EXCEPT ![n] = Append(@, <<matches[n], m>>)]
       /\ Note({w \in {"unselected"} : \E peer \in matches[n] \ m : Kind[peer] = "nspods"}
            \cup {w \in {"shared"} : \E peer \in matches[n] \ m, p \in m : Kind[peer] = "ns" /\ Kind[p] = "ns"})
  /\ UNCHANGED <<policy, pods, services, policyEv, podEv, svcEv, gen, np, infVars, thread, dbVars>>

ChangeService(v) ==
  /\ Spend("svc")
  /\ \E ips \in SUBSET Vips :
       /\ ips # services[v] /\ Cardinality(ips) <= 1
       /\ services' = [services EXCEPT ![v] = ips]
       /\ svcEv' = Append(svcEv, <<services[v], ips>>)
       /\ Note({w \in {"shared"} : \E u \in Services \ {v} : services[u] \cap services[v] # {}})
  /\ UNCHANGED <<policy, pods, matches, policyEv, podEv, nsEv, gen, np, infVars, thread, dbVars>>

Environment ==
  \/ ChangePolicy
  \/ \E x \in Pods : ChangePod(x)
  \/ \E n \in Namespaces : RelabelNamespace(n)
  \/ \E v \in Services : ChangeService(v)

----------------------------------------------------------------------------
\* The address set of an object; nothing happens to one that is destroyed.

EnsurePeerAddressSet(g) == [aset EXCEPT ![g] = [exists |-> TRUE, ips |-> UNION Range(services)]]
Destroyed(g)            == [aset EXCEPT ![g] = NoSet]
AddIPs(as, ips)         == IF as.exists THEN [as EXCEPT !.ips = @ \cup ips] ELSE as
DeleteIPs(as, ips)      == [as EXCEPT !.ips = @ \ ips]
AddPeerPods(g, xs)      == [aset EXCEPT ![g] = AddIPs(@, xs)]
DeletePeerPod(g, xs)    == [aset EXCEPT ![g] = DeleteIPs(@, xs)]
DeletePeerSvcVip(as, vips) == DeleteIPs(as, vips)
AddPeerSvcVip(as, vips)    == AddIPs(as, vips)

\* The namespaces of an object's rule.
AddNamespaceAddressSets(g, namespaces) == np[g].namespaces \cup namespaces
AddNamespaceAddressSet(g, n) == np[g].namespaces \cup {n}
DelNamespaceAddressSet(g, n) == np[g].namespaces \ {n}

\* A pod's thread: the handlers registered when the event is taken.
TakePodEvent(x) ==
  /\ thread[x] = Idle /\ podEv[x] # <<>>
  /\ Goto(x, [pc |-> "handlers", ev |-> Head(podEv[x]), todo |-> {h \in podHandlers : h.ns = NsOf[x]}])
  /\ podEv' = [podEv EXCEPT ![x] = Tail(@)]
  /\ UNCHANGED <<apiVars, policyEv, nsEv, svcEv, gen, np, infVars, dbVars, histVars>>

\* handlePeerPodSelectorAddUpdate and handlePeerPodSelectorDelete.
CallPodHandler(x) ==
  LET old == thread[x].ev[1]
      new == thread[x].ev[2]
  IN /\ Busy(x, "handlers")
     /\ \/ \E h \in thread[x].todo :
             /\ Goto(x, [thread[x] EXCEPT !.todo = @ \ {h}])
             /\ aset' = CASE h \notin podHandlers -> aset
                          [] h \in podHandlers /\ PodMatches(h.peer, new) ->
                               IF HasIP(new) THEN AddPeerPods(h.g, {x}) ELSE aset
                          [] h \in podHandlers /\ ~ PodMatches(h.peer, new) ->
                               IF PodMatches(h.peer, old) /\ HasIP(old) THEN DeletePeerPod(h.g, {x}) ELSE aset
        \/ thread[x].todo = {} /\ Goto(x, Idle) /\ UNCHANGED aset
     /\ UNCHANGED <<apiVars, evVars, gen, np, infVars, acl, histVars>>

\* The services' thread: deletes the old VIPs, then adds the new ones.
HandleService ==
  /\ svcEv # <<>>
  /\ svcEv' = Tail(svcEv)
  /\ aset' = [g \in 1..MaxGen |->
                IF g \in svcHandlers
                THEN AddPeerSvcVip(DeletePeerSvcVip(aset[g], Head(svcEv)[1]), Head(svcEv)[2]) ELSE aset[g]]
  /\ UNCHANGED <<apiVars, policyEv, podEv, nsEv, gen, np, infVars, thread, acl, histVars>>

----------------------------------------------------------------------------
\* Adding a pod handler: the pods in the store are handed over in one go and
\* then one by one, the informer being locked.
NewPodHandler(g, peer, n) == [id |-> serial, g |-> g, peer |-> peer, ns |-> n]
InitialPods(peer, n) == {x \in Pods : NsOf[x] = n /\ PodMatches(peer, pods[x]) /\ HasIP(pods[x])}

AddPodHandler(g, peer, n) ==
  /\ podHandlers' = podHandlers \cup {NewPodHandler(g, peer, n)}
  /\ serial' = serial + 1
  /\ aset' = AddPeerPods(g, InitialPods(peer, n))

----------------------------------------------------------------------------
\* The namespace handlers.  Thread t calls that of peer in object g for n.

\* handlePeerNamespaceAndPodSelector's AddFunc: looks whether the policy is
\* deleted, adds a pod handler without the lock, ...
WatchPodsOf(t, g, peer, n, rest) ==
  /\ IF np[g].deleted
     THEN Goto(t, [thread[t] EXCEPT !.todo = rest])
     ELSE Goto(t, [thread[t] EXCEPT !.todo = rest, !.pc = "watch", !.g = g, !.peer = peer, !.n = n])
  /\ UNCHANGED <<np, podHandlers, serial, aset, acl>>

AddPodsOf(t) ==
  /\ Busy(t, "watch")
  /\ AddPodHandler(thread[t].g, thread[t].peer, thread[t].n)
  /\ Goto(t, [thread[t] EXCEPT !.pc = "keep", !.h = {NewPodHandler(thread[t].g, thread[t].peer, thread[t].n)}])
  /\ UNCHANGED <<apiVars, evVars, gen, np, nsHandlers, svcHandlers, informer, acl, histVars>>

\* ... looks again, and removes the handler if the policy is deleted.
\* Mutant: it does not look again.
KeepAnyway(t) ==
  /\ Busy(t, "keep")
  /\ np' = [np EXCEPT ![thread[t].g].podHandlers = @ \cup thread[t].h]
  /\ Goto(t, [thread[t] EXCEPT !.pc = "handlers"])
  /\ UNCHANGED <<apiVars, evVars, gen, infVars, dbVars, histVars>>
KeepPodsOf(t) ==
  /\ Busy(t, "keep")
  /\ IF np[thread[t].g].deleted
     THEN podHandlers' = podHandlers \ thread[t].h /\ UNCHANGED np
     ELSE np' = [np EXCEPT ![thread[t].g].podHandlers = @ \cup thread[t].h] /\ UNCHANGED podHandlers
  /\ Goto(t, [thread[t] EXCEPT !.pc = "handlers"])
  /\ UNCHANGED <<apiVars, evVars, gen, nsHandlers, svcHandlers, informer, serial, dbVars, histVars>>

\* Its DeleteFunc takes the namespace's pods out; the pod handler stays.
UnwatchPodsOf(t, g, n, rest) ==
  /\ aset' = DeletePeerPod(g, {x \in Pods : NsOf[x] = n /\ HasIP(pods[x])})
  /\ Goto(t, [thread[t] EXCEPT !.todo = rest])
  /\ UNCHANGED <<np, podHandlers, serial, acl>>

\* handlePeerNamespaceSelector: the namespace's address set joins or leaves
\* the rule, and the ACL follows.
\* The rule's ACL is found by the ids of the policy and the rule: it is created,
\* or its match is set to the new one.
AddOrModifyACLAllow(g, match) == [acl EXCEPT ![g] = match]
\* Mutant: the ACL keeps the match it had.
SetACLNever(g, namespaces) == acl
SetACL(g, namespaces) == AddOrModifyACLAllow(g, namespaces)

SelectNamespace(t, g, n, adding, rest) ==
  LET after == IF adding THEN AddNamespaceAddressSet(g, n) ELSE DelNamespaceAddressSet(g, n)
  IN /\ IF np[g].deleted \/ after = np[g].namespaces
        THEN UNCHANGED <<np, acl>>
        ELSE np' = [np EXCEPT ![g].namespaces = after] /\ acl' = SetACL(g, after)
     /\ Goto(t, [thread[t] EXCEPT !.todo = rest])
     /\ UNCHANGED <<podHandlers, serial, aset>>

TakeNamespaceEvent(n) ==
  /\ thread[n] = Idle /\ nsEv[n] # <<>> /\ ~ informer
  /\ nsEv' = [nsEv EXCEPT ![n] = Tail(@)]
  /\ Goto(n, [pc |-> "handlers", ev |-> Head(nsEv[n]), todo |-> nsHandlers,
              g |-> 0, peer |-> "", n |-> n, h |-> {}])
  /\ UNCHANGED <<apiVars, policyEv, podEv, svcEv, gen, np, infVars, dbVars, histVars>>

CallNamespaceHandler(n) ==
  LET old == thread[n].ev[1]
      new == thread[n].ev[2]
  IN /\ Busy(n, "handlers")
     /\ \/ \E h \in thread[n].todo :
             LET g == h[1]
                 peer == h[2]
                 rest == thread[n].todo \ {h}
             IN CASE h \in nsHandlers /\ peer \in new \ old /\ Kind[peer] = "nspods" -> WatchPodsOf(n, g, peer, n, rest)
                  [] h \in nsHandlers /\ peer \in old \ new /\ Kind[peer] = "nspods" -> UnwatchPodsOf(n, g, n, rest)
                  [] h \in nsHandlers /\ peer \in (new \ old) \cup (old \ new) /\ Kind[peer] = "ns" ->
                       SelectNamespace(n, g, n, peer \in new, rest)
                  [] OTHER -> Goto(n, [thread[n] EXCEPT !.todo = rest]) /\ UNCHANGED <<np, podHandlers, serial, aset, acl>>
        \/ thread[n].todo = {} /\ Goto(n, Idle) /\ UNCHANGED <<np, podHandlers, serial, aset, acl>>
     /\ UNCHANGED <<apiVars, evVars, gen, nsHandlers, svcHandlers, informer, histVars>>

NamespaceThread(n) == TakeNamespaceEvent(n) \/ CallNamespaceHandler(n) \/ AddPodsOf(n) \/ KeepPodsOf(n)

----------------------------------------------------------------------------
\* The policies' thread: addNetworkPolicy creates the rule's address set and
\* watches the services, ...
CreateRule ==
  LET g == gen + 1
  IN /\ thread["policy"] = Idle /\ policyEv # <<>> /\ Head(policyEv) = "add" /\ gen < MaxGen
     /\ policyEv' = Tail(policyEv)
     /\ gen' = g
     /\ aset' = EnsurePeerAddressSet(g)
     /\ svcHandlers' = svcHandlers \cup {g}
     /\ Goto("policy", [pc |-> "peers", left |-> Peers])
     /\ UNCHANGED <<apiVars, podEv, nsEv, svcEv, np, podHandlers, nsHandlers, informer, serial, acl, histVars>>

\* ... then goes through the peers, ...
PeerPodSelector ==
  /\ Busy("policy", "peers") /\ thread["policy"].left # <<>>
  /\ Kind[Head(thread["policy"].left)] = "pods"
  /\ AddPodHandler(gen, Head(thread["policy"].left), Home)
  /\ Goto("policy", [pc |-> "append", left |-> Tail(thread["policy"].left), list |-> np[gen].podHandlers,
                     h |-> {NewPodHandler(gen, Head(thread["policy"].left), Home)}])
  /\ UNCHANGED <<apiVars, evVars, gen, np, nsHandlers, svcHandlers, informer, acl, histVars>>

\* ... appending to podHandlerList without the lock.
AppendPodHandler ==
  /\ Busy("policy", "append")
  /\ np' = [np EXCEPT ![gen].podHandlers = thread["policy"].list \cup thread["policy"].h]
  /\ Note({w \in {"race"} : np[gen].podHandlers # thread["policy"].list})
  /\ Goto("policy", [pc |-> "peers", left |-> thread["policy"].left])
  /\ UNCHANGED <<apiVars, evVars, gen, infVars, dbVars, budget>>

PeerNamespaceSelector ==
  LET peer == Head(thread["policy"].left)
  IN /\ Busy("policy", "peers") /\ thread["policy"].left # <<>> /\ Kind[peer] = "ns"
     /\ np' = [np EXCEPT ![gen].namespaces = AddNamespaceAddressSets(gen, {n \in Namespaces : peer \in matches[n]}),
                         ![gen].nsHandlers = @ \cup {<<gen, peer>>}]
     /\ nsHandlers' = nsHandlers \cup {<<gen, peer>>}
     /\ Goto("policy", [pc |-> "peers", left |-> Tail(thread["policy"].left)])
     /\ UNCHANGED <<apiVars, evVars, gen, podHandlers, svcHandlers, informer, serial, dbVars, histVars>>

PeerNamespaceAndPodSelector ==
  LET peer == Head(thread["policy"].left)
  IN /\ Busy("policy", "peers") /\ thread["policy"].left # <<>> /\ Kind[peer] = "nspods"
     /\ informer' = TRUE
     /\ Goto("policy", [pc |-> "handlers", left |-> Tail(thread["policy"].left), self |-> peer,
                        todo |-> {n \in Namespaces : peer \in matches[n]},
                        g |-> gen, peer |-> peer, n |-> Home, h |-> {}])
     /\ UNCHANGED <<apiVars, evVars, gen, np, podHandlers, nsHandlers, svcHandlers, serial, dbVars, histVars>>

\* The namespaces that match already are handed to the new handler.
InitialNamespaces ==
  LET me == thread["policy"]
  IN /\ Busy("policy", "handlers")
     /\ \/ /\ \E n \in me.todo : WatchPodsOf("policy", gen, me.self, n, me.todo \ {n})
           /\ UNCHANGED <<nsHandlers, informer>>
        \/ /\ me.todo = {}
           /\ nsHandlers' = nsHandlers \cup {<<gen, me.self>>} /\ informer' = FALSE
           /\ np' = [np EXCEPT ![gen].nsHandlers = @ \cup {<<gen, me.self>>}]
           /\ Goto("policy", [pc |-> "peers", left |-> me.left])
           /\ UNCHANGED <<podHandlers, serial, aset, acl>>
     /\ UNCHANGED <<apiVars, evVars, gen, svcHandlers, histVars>>

\* ... and sets the ACL.
AddNetworkPolicyACL ==
  /\ Busy("policy", "peers") /\ thread["policy"].left = <<>>
  /\ acl' = SetACL(gen, np[gen].namespaces)
  /\ Goto("policy", Idle)
  /\ UNCHANGED <<apiVars, evVars, gen, np, infVars, aset, histVars>>

ShutdownHandlers(g) ==
  /\ podHandlers' = podHandlers \ np[g].podHandlers
  /\ nsHandlers' = nsHandlers \ np[g].nsHandlers
  /\ svcHandlers' = svcHandlers \ {g}

\* destroyNetworkPolicy: the handlers in the lists are shut down, the address
\* set and, with the port group, the ACL are gone.
DestroyRule ==
  /\ thread["policy"] = Idle /\ policyEv # <<>> /\ Head(policyEv) = "delete"
  /\ policyEv' = Tail(policyEv)
  /\ np' = [np EXCEPT ![gen].deleted = TRUE]
  /\ ShutdownHandlers(gen)
  /\ aset' = Destroyed(gen)
  /\ acl' = [acl EXCEPT ![gen] = {}]
  /\ UNCHANGED <<apiVars, podEv, nsEv, svcEv, gen, informer, serial, thread, histVars>>

PolicyThread ==
  \/ CreateRule \/ PeerPodSelector \/ AppendPodHandler \/ PeerNamespaceSelector
  \/ PeerNamespaceAndPodSelector \/ InitialNamespaces \/ AddPodsOf("policy") \/ KeepPodsOf("policy")
  \/ AddNetworkPolicyACL \/ DestroyRule

----------------------------------------------------------------------------
Init ==
  /\ \E w \in Worlds : pods = w.pods /\ matches = w.matches /\ services = w.services /\ budget = w.budget
  /\ policy = TRUE /\ policyEv = <<"add">>
  /\ podEv = [x \in Pods |-> <<>>] /\ nsEv = [n \in Namespaces |-> <<>>] /\ svcEv = <<>>
  /\ gen = 0 /\ np = [g \in 1..MaxGen |-> Fresh]
  /\ podHandlers = {} /\ nsHandlers = {} /\ svcHandlers = {} /\ informer = FALSE /\ serial = 1
  /\ thread = [t \in Threads |-> Idle]
  /\ aset = [g \in 1..MaxGen |-> NoSet] /\ acl = [g \in 1..MaxGen |-> {}]
  /\ disturbed = {}

Next ==
  \/ Environment \/ HandleService \/ PolicyThread
  \/ \E x \in Pods : TakePodEvent(x) \/ CallPodHandler(x)
  \/ \E n \in Namespaces : NamespaceThread(n)

Spec == Init /\ [][Next]_vars

----------------------------------------------------------------------------
Quiet == /\ \A t \in Threads : thread[t] = Idle
         /\ policyEv = <<>> /\ svcEv = <<>>
         /\ \A x \in Pods : podEv[x] = <<>>
         /\ \A n \in Namespaces : nsEv[n] = <<>>

\* Once all events are handled the rule lets in exactly its peers: the ACL
\* names the namespaces they select, and the address set has the addresses of
\* the pods and the VIPs.  Two things break it: a pod, a VIP or a namespace
\* that has two reasons to be there and loses one, and a namespace whose pods
\* were watched and that is no longer selected.
RuleMatchesPeers ==
  (Quiet /\ policy /\ "shared" \notin disturbed) =>
    /\ acl[gen] = {n \in Namespaces : \E peer \in matches[n] : Kind[peer] = "ns"}
    /\ "unselected" \notin disturbed =>
         aset[gen].ips = UNION Range(services) \cup
           {x \in Pods : HasIP(pods[x]) /\ Selecting(x, pods[x], matches[NsOf[x]]) # {}}

\* A deleted policy leaves no handler behind, even if a namespace handler is
\* adding one to it at that moment (unless two appends to its list collided).
NoHandlerLeft ==
  (Quiet /\ ~ policy /\ "race" \notin disturbed) =>
    podHandlers = {} /\ nsHandlers = {} /\ svcHandlers = {}
=============================================================================
