------------------------ MODULE MCNetworkPolicies ---------------------------
(***************************************************************************)
(* The two sides of network policies, each in several small worlds: which  *)
(* pods they apply to (Policies: two policies, two pods) and what a rule   *)
(* lets in (PolicyPeers: a peer of each kind, a pod in the policy's        *)
(* namespace and one in another); and the watch factory that policies get  *)
(* their pod handlers from (WatchFactory: two pods in two queues, two      *)
(* policies).  A behaviour is of one of the three; the variables of the    *)
(* others are not used in it.                                              *)
(***************************************************************************)
EXTENDS Integers, Sequences, FiniteSets, TLC

CONSTANTS p1, p2, a, b, np1, ns1, po1, home, other, s, u, vip, vip2, none

VARIABLES side, pods, podEv, nsEv, policyEv, np, gen, thread, budget, disturbed,
          policies, ns, nsInfo, handlers, dead, informer, refs, cache, port, deny, group, acls, ports,
          policy, matches, services, svcEv, podHandlers, nsHandlers, svcHandlers, serial, aset, acl,
          podNotes, policyNotes, events, lock, ownerOf, start, listener, adding, worker, remover, view,
          stopped

shared   == <<pods, podEv, nsEv, policyEv, np, gen, thread, informer, budget, disturbed>>
portVars == <<policies, ns, nsInfo, handlers, dead, refs, cache, port, deny, group, acls, ports>>
peerVars == <<policy, matches, services, svcEv, podHandlers, nsHandlers, svcHandlers, serial, aset, acl>>
newVars  == <<podNotes, policyNotes, events, lock, ownerOf, start, listener, adding, worker, remover,
              view, stopped>>
vars     == <<side, shared, portVars, peerVars, newVars>>

\* What a behaviour of the watch factory has no use for.
notFactory == <<podEv, nsEv, policyEv, gen, thread, informer, disturbed, ns, nsInfo, refs, cache, port, deny,
                group, acls, ports, peerVars>>

PortWorld(ps, pa, pb, po, pd, nsp, fa, re) ==
  [policies |-> ps, pods |-> [x \in {a, b} |-> IF x = a THEN pa ELSE pb],
   budget |-> [policy |-> po, pod |-> pd, ns |-> nsp, fault |-> fa, restart |-> re]]

\* Policies, pods and the namespace change; a command fails; a restart.
PortWorlds == {
  PortWorld({p1, p2}, {{p1, p2}}, {{p1}}, 2, 0, 0, 0, 0),
  PortWorld({p1}, {}, {}, 0, 2, 0, 0, 0),
  PortWorld({p1}, {{p1, p2}}, {}, 0, 2, 0, 0, 0),
  PortWorld({p1, p2}, {{p1, p2}}, {}, 1, 1, 0, 0, 0),
  PortWorld({p1, p2}, {{p1}}, {}, 1, 1, 0, 0, 0),
  PortWorld({p1}, {{p1, p2}}, {}, 2, 1, 0, 0, 0),
  PortWorld({p1}, {{p1, p2}}, {}, 1, 1, 2, 0, 0),
  PortWorld({p1}, {{p1, p2}}, {}, 1, 0, 0, 1, 0),
  PortWorld({p1}, {{p1, p2}}, {}, 1, 0, 0, 0, 1),
  PortWorld({p1}, {{p1, p2}}, {}, 0, 1, 0, 0, 1) }

PeerWorld(px, py, m, sv, po, pd, nn, sb) ==
  [pods |-> [x \in {a, b} |-> IF x = a THEN px ELSE py],
   matches |-> [n \in {home, other} |-> IF n = other THEN m ELSE {}],
   services |-> [v \in {s, u} |-> IF v = s THEN sv ELSE {}],
   budget |-> [policy |-> po, pod |-> pd, ns |-> nn, svc |-> sb]]

\* The policy, pods, namespaces and services change.
PeerWorlds == {
  PeerWorld({}, {<<{np1}, TRUE>>}, {np1}, {vip}, 2, 0, 1, 0),
  PeerWorld({<<{po1}, TRUE>>}, {<<{np1}, FALSE>>}, {np1}, {}, 1, 1, 0, 0),
  PeerWorld({}, {}, {}, {vip}, 1, 0, 0, 2),
  PeerWorld({}, {<<{np1}, TRUE>>}, {}, {}, 0, 1, 1, 0),
  PeerWorld({}, {}, {ns1}, {}, 1, 0, 2, 0),
  PeerWorld({}, {<<{np1}, TRUE>>}, {np1}, {}, 0, 1, 1, 0) }

FactoryWorld(pa, pb, x, changes, polChanges, stop) ==
  [pods |-> [o \in {a, b} |-> IF o = a THEN pa ELSE pb], policies |-> [z \in {p1, p2} |-> z = p1 /\ x],
   budget |-> [pod |-> [o \in {a, b} |-> IF o = a THEN changes ELSE 0], policy |-> polChanges, stop |-> stop]]

\* A pod and policies change while handlers are added; the factory is stopped.
FactoryWorlds == {
  FactoryWorld("red", none, TRUE, 1, 1, FALSE),
  FactoryWorld("red", none, TRUE, 1, 0, TRUE),
  FactoryWorld("blue", none, TRUE, 2, 0, FALSE),
  FactoryWorld("red", none, FALSE, 1, 2, FALSE),
  FactoryWorld("red", "blue", TRUE, 0, 1, FALSE) }

Ports == INSTANCE Policies WITH
  Pods <- {a, b}, Policies <- {p1, p2}, Rules <- {p1}, Worlds <- PortWorlds, MaxGen <- 2,
  Types <- [x \in {p1, p2} |-> IF x = p1 THEN {"ingress"} ELSE {"ingress", "egress"}]

Rule == INSTANCE PolicyPeers WITH
  Peers <- <<np1, ns1, po1>>, Pods <- {a, b}, Namespaces <- {home, other}, Home <- home,
  Kind <- [x \in {np1, ns1, po1} |-> CASE x = np1 -> "nspods" [] x = ns1 -> "ns" [] x = po1 -> "pods"],
  NsOf <- [x \in {a, b} |-> IF x = a THEN home ELSE other],
  Services <- {s, u}, Vips <- {vip, vip2}, Labels <- {{}, {np1}, {ns1}, {po1}},
  Worlds <- PeerWorlds, MaxGen <- 2

Factory == INSTANCE WatchFactory WITH
  Pods <- {a, b}, Policies <- {p1, p2}, Labels <- {"red", "blue"}, Queues <- {"q1", "q2"},
  QueueOf <- [o \in {a, b} |-> IF o = a THEN "q1" ELSE "q2"], QueueCap <- 1,
  Selects <- [x \in {p1, p2} |-> IF x = p1 THEN {"red"} ELSE {"red", "blue"}],
  MaxIds <- 4, Worlds <- FactoryWorlds, None <- none

Unused == 0
NoFactory == /\ podNotes = Unused /\ policyNotes = Unused /\ events = Unused /\ lock = Unused
             /\ ownerOf = Unused /\ start = Unused /\ listener = Unused /\ adding = Unused
             /\ worker = Unused /\ remover = Unused /\ view = Unused /\ stopped = Unused
NoPeers == /\ policy = Unused /\ matches = Unused /\ services = Unused /\ svcEv = Unused
           /\ podHandlers = Unused /\ nsHandlers = Unused /\ svcHandlers = Unused
           /\ serial = Unused /\ aset = Unused /\ acl = Unused
NoPorts == /\ ns = Unused /\ nsInfo = Unused /\ refs = Unused /\ cache = Unused /\ port = Unused
           /\ deny = Unused /\ group = Unused /\ acls = Unused /\ ports = Unused

Init ==
  \/ side = "ports" /\ Ports!Init /\ NoPeers /\ NoFactory
  \/ /\ side = "peers" /\ Rule!Init /\ NoPorts /\ NoFactory
     /\ policies = Unused /\ handlers = Unused /\ dead = Unused
  \/ /\ side = "factory" /\ Factory!Init /\ NoPorts /\ NoPeers
     /\ podEv = Unused /\ nsEv = Unused /\ policyEv = Unused /\ gen = Unused
     /\ thread = Unused /\ informer = Unused /\ disturbed = Unused

OnPorts == side = "ports" /\ UNCHANGED <<side, peerVars, newVars>>
OnFactory == side = "factory" /\ UNCHANGED <<side, notFactory>>

Next ==
  \/ OnPorts /\ Ports!Next
  \/ side = "peers" /\ Rule!Next /\ UNCHANGED <<side, portVars, newVars>>
  \/ OnFactory /\ Factory!Next

\* Policies!Fairness and WatchFactory!Fairness for the behaviours of each.
Spec == /\ Init /\ [][Next]_vars
        /\ WF_vars(OnPorts /\ Ports!PolicyThread) /\ WF_vars(OnPorts /\ Ports!NamespaceThread)
        /\ WF_vars(OnPorts /\ Ports!PodThread(a)) /\ WF_vars(OnPorts /\ Ports!PodThread(b))
        /\ WF_vars(OnFactory /\ Factory!enqueueEvent) /\ WF_vars(OnFactory /\ Factory!ListenerStep)
        /\ WF_vars(OnFactory /\ Factory!StartStep)
        /\ \A q \in {"q1", "q2"} : WF_vars(OnFactory /\ Factory!QueueStep(q))
        /\ \A t \in {"start", "listener"} : WF_vars(OnFactory /\ Factory!AddStep(t))
        /\ \A h \in 1 .. 4 : WF_vars(OnFactory /\ Factory!RemoverStep(h))

\* Policies!PortGroupsMatch: the default-deny groups hold exactly the pods some
\* policy selects, and a policy's port group exactly those it selects, once
\* the events of pods, policies and the namespace are handled.
PortGroupsMatch == side = "ports" => Ports!PortGroupsMatch

\* Policies!NamespaceLockReleased: a policy is never destroyed under a lock
\* that cannot be had, with the namespace's lock held meanwhile.
NamespaceLockReleased == (side = "ports" /\ Ports!LockHeld) ~> (side = "ports" => Ports!LockFree)

\* Policies!SelectedPodIsDenied: counting references never opens up a pod.
SelectedPodIsDenied == side = "ports" => Ports!SelectedPodIsDenied

\* PolicyPeers!RuleMatchesPeers and NoHandlerLeft: once the events are handled
\* a rule lets in exactly the peers it names, although pods, namespaces and
\* services came, changed and went on threads of their own, and a deleted
\* policy leaves no handler behind that would go on changing it.
PeersFollowed == side = "peers" => Rule!RuleMatchesPeers /\ Rule!NoHandlerLeft

\* WatchFactory!HandlersFollow: a handler is never called twice at a time for a
\* pod, and in the end every policy's handler, and no other, knows exactly the
\* pods its filter takes, although the store was listed and the handler put in
\* between notifications; nobody waits for an informer's lock for ever.
HandlersFollow == /\ [](side = "factory" => Factory!OneCallAtATime)
                  /\ <>[](side = "factory" => Factory!AllFollow)
=============================================================================
