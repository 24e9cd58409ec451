------------------------------ MODULE MCEgress ------------------------------
(***************************************************************************)
(* How traffic enters and leaves the cluster: addresses of EgressIPs,      *)
(* egress firewalls with their DNS names, external gateways of pods, and   *)
(* floating IPs, each in several small worlds. A behaviour is one of       *)
(* EgressIPs, EgressFirewalls, ExternalGateways or FloatingIPs; the        *)
(* variables of the others are not used in it.                             *)
(***************************************************************************)
EXTENDS Integers, Sequences, FiniteSets

CONSTANTS e1, e2, n1, n2, x1, x2, s1, s2, ip1, ip2, own, garbled, i1, i2, i3, net, one, p1, p2, w1, w2, g1,
          g2, q1, q2, c1, c2, c3

VARIABLES side, eip, node, up, matches, pods, eipEv, nodeEv, nsEv, podEv, allocator, retry,
          retryLock, nsHandlers, podHandlers, nsCache, podCache, dying, serial, podRetry,
          thread, rules, noReroute, budget, disturbed, fw, fwEv, nodes, answer, mode, lastMode,
          egressFirewalls, dnsEntries, dnsMap, queryOrder, adder, runner, acls, policies, asets,
          annotation, gwPods, gwEv, routingExternalGWs, routingExternalPodGWs,
          podExternalRoutes, ports, routes, snat, bfdRows, providers, claims, fips, ready,
          providerEv, claimEv, fipEv, boot, deaf, allocators, suballocators, fiOnNodes, watching,
          queue, sync, policy, nat

vars == <<side, eip, node, up, matches, pods, eipEv, nodeEv, nsEv, podEv, allocator, retry,
         retryLock, nsHandlers, podHandlers, nsCache, podCache, dying, serial, podRetry, thread,
         rules, noReroute, budget, disturbed, fw, fwEv, nodes, answer, mode, lastMode,
         egressFirewalls, dnsEntries, dnsMap, queryOrder, adder, runner, acls, policies, asets,
         annotation, gwPods, gwEv, routingExternalGWs, routingExternalPodGWs, podExternalRoutes,
         ports, routes, snat, bfdRows, providers, claims, fips, ready, providerEv, claimEv,
         fipEv, boot, deaf, allocators, suballocators, fiOnNodes, watching, queue, sync, policy, nat>>

\* EgressIPs: two of them, two nodes, a pod in each of two namespaces.  Each
\* world has its own changes: EgressIPs, nodes, dials, namespaces, pods, failed
\* updates, restarts.
Eip(spec, items) == [exists |-> TRUE, spec |-> spec, items |-> items, rv |-> 1]
NoEip == [exists |-> FALSE, spec |-> <<>>, items |-> {}, rv |-> 0]
Up == [exists |-> TRUE, label |-> TRUE, ready |-> TRUE, addr |-> TRUE]
Unlabelled == [Up EXCEPT !.label = FALSE]
Bare == [Up EXCEPT !.addr = FALSE]
Gone == [exists |-> FALSE, label |-> FALSE, ready |-> FALSE, addr |-> FALSE]
One == Eip(<<ip1>>, {<<ip1, n1>>})
Half == Eip(<<ip1, ip2>>, {<<ip1, n1>>})

EipWorld(a, m2, px, py, be, bn, bd, bs, bp, bf, br) ==
  [eip |-> [e \in {e1, e2} |-> IF e = e1 THEN a ELSE NoEip],
   node |-> [n \in {n1, n2} |-> IF n = n1 THEN Up ELSE m2],
   matches |-> {s1}, pods |-> [x \in {x1, x2} |-> IF x = x1 THEN px ELSE py],
   budget |-> [eip |-> be, node |-> bn, dial |-> bd, ns |-> bs, pod |-> bp, fault |-> bf, restart |-> br]]
EipWorlds == {
  EipWorld(One, Up, "ip", "none", 2, 0, 0, 0, 0, 0, 0),
  EipWorld(One, Unlabelled, "ip", "none", 0, 2, 0, 0, 0, 0, 0),
  EipWorld(Half, Unlabelled, "ip", "none", 0, 2, 0, 0, 0, 0, 0),
  EipWorld(One, Up, "ip", "none", 1, 1, 0, 0, 0, 0, 0),
  EipWorld(One, Up, "ip", "none", 0, 1, 1, 0, 0, 0, 0),
  EipWorld(One, Up, "ip", "none", 0, 0, 2, 0, 0, 0, 0),
  EipWorld(NoEip, Unlabelled, "ip", "none", 2, 0, 0, 0, 0, 0, 0),
  EipWorld(One, Up, "ip", "ip", 0, 1, 0, 1, 0, 0, 0),
  EipWorld(One, Up, "noip", "none", 0, 1, 0, 0, 2, 0, 0),
  EipWorld(One, Up, "noip", "ip", 0, 0, 0, 2, 1, 0, 0),
  EipWorld(One, Up, "ip", "none", 0, 1, 0, 0, 0, 1, 0),
  EipWorld(One, Up, "ip", "none", 0, 1, 0, 0, 0, 0, 1),
  EipWorld(One, Up, "ip", "none", 1, 0, 0, 0, 0, 0, 1),
  EipWorld(Half, Bare, "ip", "none", 0, 2, 0, 0, 0, 0, 0),
  EipWorld(One, Gone, "ip", "none", 0, 2, 0, 0, 0, 1, 0),
  EipWorld(One, Up, "ip", "none", 0, 0, 2, 0, 0, 1, 0),
  EipWorld(Half, Unlabelled, "ip", "none", 0, 1, 0, 0, 0, 1, 0) }

\* Egress firewalls of two namespaces: rules for an address, for all of them and
\* for a DNS name.  Each world has the firewalls, the gateway mode before, the
\* ACLs an earlier master left on the nodes and on the join switch, and the
\* changes: firewalls, nodes, answers, failures, crashes, modes.
Rule(dest, l4, action) == [dest |-> dest, ports |-> l4, action |-> action]
Port(proto, n) == [proto |-> proto, port |-> n]
DenyAll  == Rule(net, <<>>, "drop")
AllowOne == Rule(one, <<>>, "allow")
AllowUDP == Rule(one, <<Port("udp", 0), Port("udp", 5), Port("tcp", 6)>>, "allow")
ByName   == Rule("d1", <<>>, "allow")
Bad      == Rule("garbled", <<>>, "drop")
NoFirewall == [exists |-> FALSE, spec |-> <<>>, status |-> "none"]
Has(spec) == [exists |-> TRUE, spec |-> spec, status |-> "applied"]
Plain == Has(<<AllowOne, DenyAll>>)

Old(s, dir, m) ==
  LET on(dest) == [dest |-> dest, l4 |-> [q \in {"udp", "tcp", "sctp"} |-> <<>>], any |-> TRUE, extra |-> m]
  IN {[ns |-> s, match |-> on(net), action |-> "drop", prio |-> 9999, dir |-> dir],
      [ns |-> s, match |-> on(one), action |-> "allow", prio |-> 10000, dir |-> dir]}
FwWorld(a, b, m, onNodes, onJoin, bf, bn, bd, bx, bc, bm) ==
  [fw |-> [s \in {s1, s2} |-> IF s = s1 THEN a ELSE b], nodes |-> {n1},
   answer |-> [d \in {"d1", "d2"} |-> {i2}], mode |-> m,
   acls |-> [s \in {n1, n2, "join"} |-> IF s = "join" THEN onJoin ELSE IF s = n1 THEN onNodes ELSE {}],
   policies |-> onNodes # {},
   budget |-> [fw |-> bf, node |-> bn, dns |-> bd, fault |-> bx, crash |-> bc, mode |-> bm]]
FwWorlds == {
  FwWorld(NoFirewall, NoFirewall, "shared", {}, {}, 3, 0, 0, 0, 0, 0),
  FwWorld(NoFirewall, Plain, "shared", {}, {}, 2, 0, 0, 1, 0, 0),
  FwWorld(Plain, NoFirewall, "shared", {}, Old(s1, "to", "shared"), 2, 0, 0, 0, 1, 1),
  FwWorld(Plain, NoFirewall, "local", Old(s1, "from", "local"), {}, 1, 2, 0, 0, 0, 0),
  FwWorld(Plain, NoFirewall, "local", Old(s1, "to", "local"), {}, 1, 0, 0, 0, 1, 2),
  FwWorld(NoFirewall, Plain, "local", Old(s1, "from", "local") \cup Old(s2, "from", "local"), {}, 1, 0, 0, 1, 0, 1),
  FwWorld(Plain, Plain, "shared", {}, Old(s1, "to", "shared") \cup Old(s2, "from", "shared"), 1, 0, 0, 1, 1, 0),
  FwWorld(Has(<<ByName, DenyAll>>), NoFirewall, "shared", {}, {}, 0, 0, 2, 1, 1, 0),
  FwWorld(Has(<<ByName, DenyAll>>), Has(<<Rule("d2", <<>>, "allow")>>), "shared", {}, {}, 0, 0, 2, 1, 0, 0) }

\* External gateways of two pods: from the namespace's annotation and from a
\* gateway pod.  Changes: the annotation, pods, gateway pods, restarts.
Gws(gws, bfd) == [gws |-> gws, bfd |-> bfd]
NoGws == Gws({}, FALSE)
GwWorld(a, s, t, x, bn, bp, bg, br) ==
  [annotation |-> a, pods |-> [p \in {p1, p2} |-> IF p = p1 THEN s ELSE t],
   gwPods |-> [w \in {w1, w2} |-> IF w = w1 THEN x ELSE NoGws],
   budget |-> [ns |-> bn, pod |-> bp, gw |-> bg, restart |-> br]]
GwWorlds == {
  GwWorld(NoGws, "ip", "none", NoGws, 2, 2, 0, 0),
  GwWorld(NoGws, "ip", "noip", NoGws, 1, 0, 1, 0),
  GwWorld(Gws({g1}, FALSE), "ip", "none", NoGws, 1, 0, 1, 0),
  GwWorld(NoGws, "ip", "none", Gws({g1}, TRUE), 0, 1, 2, 0),
  GwWorld(Gws({g2}, TRUE), "ip", "ip", Gws({g1}, TRUE), 0, 0, 1, 1),
  GwWorld(Gws({g1}, TRUE), "ip", "none", NoGws, 1, 1, 0, 1),
  GwWorld(NoGws, "ip", "none", Gws({g1}, TRUE), 0, 1, 0, 1) }

\* FloatingIPs: a provider, a claim that exists and one that may be created, two
\* pods and two nodes; another provider with an address of the first, and its
\* claim.  Each world has the pods with an address, the nodes that are ready, and
\* how often providers, claims, pods and nodes change, API calls fail, the master
\* restarts, and database commands fail.
NoClaim == [ips |-> {}, phase |-> "none", assigned |-> FALSE]
FipWorld(ps, ns, pr, cl, po, no, fa, re, ov) ==
  [providers |-> {q1},
   claims |-> [c \in {c1, c2, c3} |-> IF c = c1 THEN [NoClaim EXCEPT !.ips = {1, 2}, !.phase = "new"]
                                 ELSE NoClaim],
   pods   |-> [p \in {x1, x2} |-> IF p \in ps THEN "ip" ELSE "none"],
   ready  |-> ns,
   budget |-> [provider |-> pr, claim |-> cl, pod |-> po, node |-> no, fault |-> fa, restart |-> re, ovn |-> ov]]
\* The second claim exists as well and asks for an address of the first.
Both(w) == [w EXCEPT !.claims[c2] = [NoClaim EXCEPT !.ips = {2}, !.phase = "new"]]
\* The other provider exists as well, with its claim.
Shared(w) ==
  [w EXCEPT !.providers = {q1, q2}, !.claims[c3] = [NoClaim EXCEPT !.ips = {2}, !.phase = "new"]]
FipWorlds == {
  FipWorld({x1}, {n1, n2}, 0, 0, 1, 1, 0, 0, 0),      \* pods and nodes come and go
  FipWorld({x1, x2}, {n1}, 0, 0, 1, 0, 1, 0, 0),      \* an API call fails
  FipWorld({}, {n1}, 0, 0, 2, 0, 0, 0, 0),
  FipWorld({x1, x2}, {n1}, 0, 0, 0, 1, 0, 1, 0),      \* the master restarts
  FipWorld({x1}, {n1}, 0, 0, 1, 0, 0, 1, 0),
  FipWorld({x1}, {n1}, 0, 0, 0, 2, 0, 0, 0),          \* the last node leaves and returns
  FipWorld({x1}, {n1}, 0, 2, 0, 0, 0, 0, 0),          \* claims change
  FipWorld({}, {}, 2, 1, 0, 0, 0, 0, 0),           \* the provider goes and returns
  FipWorld({x1}, {n1}, 1, 0, 0, 0, 1, 0, 0),
  FipWorld({x1}, {n1}, 0, 0, 1, 0, 0, 0, 1),          \* a database command fails
  FipWorld({x1}, {n1}, 0, 1, 0, 0, 0, 1, 0),          \* a claim is refused, then a restart
  FipWorld({x1}, {n1, n2}, 0, 0, 0, 1, 0, 1, 0),      \* a node is lost after a restart
  Both(FipWorld({}, {}, 2, 1, 0, 0, 0, 0, 0)),        \* claims return with their provider
  FipWorld({x1}, {n1}, 0, 0, 0, 2, 1, 0, 0),          \* a call of the node controller fails
  FipWorld({x1}, {n1}, 0, 1, 0, 0, 1, 0, 0),      \* a claim changes and a call fails
  Shared(FipWorld({x1}, {n1}, 0, 0, 0, 0, 0, 1, 0)) } \* two providers have the same address

Eips == INSTANCE EgressIPs WITH
  Names <- {e1, e2}, Nodes <- {n1, n2}, Pods <- {x1, x2}, Namespaces <- {s1, s2},
  NsOf <- [x \in {x1, x2} |-> IF x = x1 THEN s1 ELSE s2], Hosts <- [n \in {n1, n2} |-> {ip1, ip2} \cup {a \in {own} : n = n1}],
  Own <- [n \in {n1, n2} |-> IF n = n1 THEN own ELSE "elsewhere"], Garbled <- {garbled},
  Specs <- {<<ip1>>, <<ip1, ip2>>, <<ip2, own>>, <<garbled, ip2>>}, Worlds <- EipWorlds

Fw == INSTANCE EgressFirewalls WITH
  Namespaces <- {s1, s2}, Nodes <- {n1, n2}, Dests <- {net, one}, DNSNames <- {"d1", "d2"},
  Covers <- [d \in {net, one} |-> IF d = net THEN {i1, i2, i3} ELSE {i1}], Answers <- {{}, {i2}, {i3}},
  Packets <- [ip : {i1, i2, i3}, proto : {"udp", "tcp"}, port : {5, 6}],
  Specs <- {<<AllowOne, DenyAll>>, <<DenyAll, AllowOne>>, <<AllowUDP, Bad, DenyAll>>}, Worlds <- FwWorlds

Gw == INSTANCE ExternalGateways WITH
  Pods <- {p1, p2}, GwPods <- {w1, w2}, GWs <- {g1, g2},
  Annotations <- {NoGws, Gws({g1}, TRUE), Gws({g2}, FALSE)}, Worlds <- GwWorlds

Fip == INSTANCE FloatingIPs WITH
  Providers <- {q1, q2}, Claims <- {c1, c2, c3}, Pods <- {x1, x2}, Nodes <- {n1, n2},
  PairsOf <- [p \in {q1, q2} |-> IF p = q1 THEN {{1, 2, 3}} ELSE {{2}, {4}}],
  ProviderOf <- [c \in {c1, c2, c3} |-> IF c = c3 THEN q2 ELSE q1],
  Specs <- [c \in {c1, c2, c3} |-> IF c = c3 THEN {} ELSE {{1, 2}, {2}}], Worlds <- FipWorlds, MaxFips <- 5

NotEips == <<fw, fwEv, nodes, answer, mode, lastMode, egressFirewalls, dnsEntries, dnsMap,
             queryOrder, adder, runner, acls, policies, asets, annotation, gwPods, gwEv,
             routingExternalGWs, routingExternalPodGWs, podExternalRoutes, ports, routes, snat,
             bfdRows, providers, claims, fips, ready, providerEv, claimEv, fipEv, boot, deaf,
             allocators, suballocators, fiOnNodes, watching, queue, sync, policy, nat>>
NotFw == <<eip, node, up, matches, pods, eipEv, nodeEv, nsEv, podEv, allocator, retry,
           retryLock, nsHandlers, podHandlers, nsCache, podCache, dying, serial, podRetry,
           thread, rules, noReroute, annotation, gwPods, gwEv, routingExternalGWs,
           routingExternalPodGWs, podExternalRoutes, ports, routes, snat, bfdRows, providers,
           claims, fips, ready, providerEv, claimEv, fipEv, boot, deaf, allocators, suballocators,
           fiOnNodes, watching, queue, sync, policy, nat>>
NotGw == <<eip, node, up, matches, eipEv, nodeEv, allocator, retry, retryLock, nsHandlers,
           podHandlers, nsCache, podCache, dying, serial, podRetry, rules, noReroute, fw, fwEv,
           nodes, answer, mode, lastMode, egressFirewalls, dnsEntries, dnsMap, queryOrder,
           adder, runner, acls, asets, providers, claims, fips, ready, providerEv, claimEv,
           fipEv, boot, deaf, allocators, suballocators, fiOnNodes, watching, queue, sync, policy, nat>>
NotFip == <<eip, node, up, matches, eipEv, nsEv, allocator, retry, retryLock, nsHandlers,
            podHandlers, nsCache, podCache, dying, serial, podRetry, thread, rules, noReroute,
            fw, fwEv, nodes, answer, mode, lastMode, egressFirewalls, dnsEntries, dnsMap,
            queryOrder, adder, runner, acls, policies, asets, annotation, gwPods, gwEv,
            routingExternalGWs, routingExternalPodGWs, podExternalRoutes, ports, routes, snat,
            bfdRows>>

\* what a behaviour of one side does not use
Unused == 0

Init ==
  \/ /\ side = "eip" /\ Eips!Init
     /\ fw = Unused /\ fwEv = Unused /\ nodes = Unused /\ answer = Unused /\ mode = Unused
     /\ lastMode = Unused /\ egressFirewalls = Unused /\ dnsEntries = Unused
     /\ dnsMap = Unused /\ queryOrder = Unused /\ adder = Unused /\ runner = Unused
     /\ acls = Unused /\ policies = Unused /\ asets = Unused /\ annotation = Unused
     /\ gwPods = Unused /\ gwEv = Unused /\ routingExternalGWs = Unused
     /\ routingExternalPodGWs = Unused /\ podExternalRoutes = Unused /\ ports = Unused
     /\ routes = Unused /\ snat = Unused /\ bfdRows = Unused /\ providers = Unused
     /\ claims = Unused /\ fips = Unused /\ ready = Unused /\ providerEv = Unused
     /\ claimEv = Unused /\ fipEv = Unused /\ boot = Unused /\ deaf = Unused /\ allocators = Unused
     /\ suballocators = Unused /\ fiOnNodes = Unused /\ watching = Unused /\ queue = Unused
     /\ sync = Unused /\ policy = Unused /\ nat = Unused
  \/ /\ side = "firewall" /\ Fw!Init
     /\ eip = Unused /\ node = Unused /\ up = Unused /\ matches = Unused /\ pods = Unused
     /\ eipEv = Unused /\ nodeEv = Unused /\ nsEv = Unused /\ podEv = Unused
     /\ allocator = Unused /\ retry = Unused /\ retryLock = Unused /\ nsHandlers = Unused
     /\ podHandlers = Unused /\ nsCache = Unused /\ podCache = Unused /\ dying = Unused
     /\ serial = Unused /\ podRetry = Unused /\ thread = Unused /\ rules = Unused
     /\ noReroute = Unused /\ annotation = Unused /\ gwPods = Unused /\ gwEv = Unused
     /\ routingExternalGWs = Unused /\ routingExternalPodGWs = Unused
     /\ podExternalRoutes = Unused /\ ports = Unused /\ routes = Unused /\ snat = Unused
     /\ bfdRows = Unused /\ providers = Unused /\ claims = Unused /\ fips = Unused
     /\ ready = Unused /\ providerEv = Unused /\ claimEv = Unused /\ fipEv = Unused
     /\ boot = Unused /\ deaf = Unused /\ allocators = Unused /\ suballocators = Unused /\ fiOnNodes = Unused
     /\ watching = Unused /\ queue = Unused /\ sync = Unused /\ policy = Unused
     /\ nat = Unused
  \/ /\ side = "gateway" /\ Gw!Init
     /\ eip = Unused /\ node = Unused /\ up = Unused /\ matches = Unused /\ eipEv = Unused
     /\ nodeEv = Unused /\ allocator = Unused /\ retry = Unused /\ retryLock = Unused
     /\ nsHandlers = Unused /\ podHandlers = Unused /\ nsCache = Unused /\ podCache = Unused
     /\ dying = Unused /\ serial = Unused /\ podRetry = Unused /\ rules = Unused
     /\ noReroute = Unused /\ fw = Unused /\ fwEv = Unused /\ nodes = Unused
     /\ answer = Unused /\ mode = Unused /\ lastMode = Unused /\ egressFirewalls = Unused
     /\ dnsEntries = Unused /\ dnsMap = Unused /\ queryOrder = Unused /\ adder = Unused
     /\ runner = Unused /\ acls = Unused /\ asets = Unused /\ providers = Unused
     /\ claims = Unused /\ fips = Unused /\ ready = Unused /\ providerEv = Unused
     /\ claimEv = Unused /\ fipEv = Unused /\ boot = Unused /\ deaf = Unused /\ allocators = Unused
     /\ suballocators = Unused /\ fiOnNodes = Unused /\ watching = Unused /\ queue = Unused
     /\ sync = Unused /\ policy = Unused /\ nat = Unused
  \/ /\ side = "fip" /\ Fip!Init
     /\ eip = Unused /\ node = Unused /\ up = Unused /\ matches = Unused /\ eipEv = Unused
     /\ nsEv = Unused /\ allocator = Unused /\ retry = Unused /\ retryLock = Unused
     /\ nsHandlers = Unused /\ podHandlers = Unused /\ nsCache = Unused /\ podCache = Unused
     /\ dying = Unused /\ serial = Unused /\ podRetry = Unused /\ thread = Unused
     /\ rules = Unused /\ noReroute = Unused /\ fw = Unused /\ fwEv = Unused /\ nodes = Unused
     /\ answer = Unused /\ mode = Unused /\ lastMode = Unused /\ egressFirewalls = Unused
     /\ dnsEntries = Unused /\ dnsMap = Unused /\ queryOrder = Unused /\ adder = Unused
     /\ runner = Unused /\ acls = Unused /\ policies = Unused /\ asets = Unused
     /\ annotation = Unused /\ gwPods = Unused /\ gwEv = Unused /\ routingExternalGWs = Unused
     /\ routingExternalPodGWs = Unused /\ podExternalRoutes = Unused /\ ports = Unused
     /\ routes = Unused /\ snat = Unused /\ bfdRows = Unused

Next ==
  \/ side = "eip" /\ Eips!Next /\ UNCHANGED <<side, NotEips>>
  \/ side = "firewall" /\ Fw!Next /\ UNCHANGED <<side, NotFw>>
  \/ side = "gateway" /\ Gw!Next /\ UNCHANGED <<side, NotGw>>
  \/ side = "fip" /\ Fip!Next /\ UNCHANGED <<side, NotFip>>

\* Weak fairness of every thread of EgressIPs, EgressFirewalls and FloatingIPs, each
\* in its own behaviours.
IsEip == side = "eip"
IsFw  == side = "firewall"
IsFip == side = "fip"
EipVars == Eips!vars
FwVars  == Fw!vars
FipVars == Fip!vars
Spec ==
  /\ Init /\ [][Next]_vars
  /\ WF_EipVars(IsEip /\ Eips!EgressIPThread) /\ WF_EipVars(IsEip /\ Eips!ReachThread)
  /\ WF_EipVars(IsEip /\ Eips!DropHandlers)
  /\ \A n \in {n1, n2} : WF_EipVars(IsEip /\ Eips!NodeThread(n))
  /\ \A t \in {s1, s2, x1, x2} : WF_EipVars(IsEip /\ Eips!Caller(t))
  /\ WF_FwVars(IsFw /\ Fw!HandleEvent) /\ WF_FwVars(IsFw /\ Fw!Requery)
  /\ WF_FwVars(IsFw /\ Fw!Republish) /\ WF_FwVars(IsFw /\ Fw!Start)
  /\ \A d \in {"d1", "d2"} : WF_FwVars(IsFw /\ Fw!Resolve(d)) /\ WF_FwVars(IsFw /\ Fw!Publish(d))
  /\ WF_FipVars(IsFip /\ Fip!HandleProvider) /\ WF_FipVars(IsFip /\ Fip!HandleClaim)
  /\ WF_FipVars(IsFip /\ Fip!HandleFip) /\ WF_FipVars(IsFip /\ Fip!WatchClaims) /\ WF_FipVars(IsFip /\ Fip!WatchFips)
  /\ WF_FipVars(IsFip /\ Fip!Worker)
  /\ \A p \in {x1, x2} : WF_FipVars(IsFip /\ Fip!HandlePod(p))
  /\ \A n \in {n1, n2} : WF_FipVars(IsFip /\ Fip!HandleNode(n))

-----------------------------------------------------------------------------
\* Once everything is handled, the reroute policies and NAT rules are those of
\* the addresses in the EgressIPs' statuses, the allocator holds the same
\* addresses, and no EgressIP lacks an address that a node could host
\* (EgressIPs!RulesMatchStatus, AllocatorMatchesStatus, NoneWaitsInVain).
EgressIPsServed ==
  side = "eip" => Eips!RulesMatchStatus /\ Eips!AllocatorMatchesStatus /\ Eips!NoneWaitsInVain

\* An address on a node that is lost is moved or given up
\* (EgressIPs!LeavesLostNode).
LeavesLostNode == []<>(side = "eip" => Eips!NoneStranded)

\* A packet meets the first rule of its namespace's firewall that fits it
\* (EgressFirewalls!FirstRuleDecides).
FirstRuleDecides == side = "firewall" => Fw!FirstRuleDecides

\* The place of a rule in the firewall decides its priority, after an update as
\* after a creation (EgressFirewalls!PlaceDecides).
PlaceDecides == side = "firewall" => Fw!PlaceDecides

\* The address set of a name follows the name servers' answers
\* (EgressFirewalls!NameFollowsDNS).
NameFollowsDNS == []<>(side = "firewall" => Fw!AllFollow)

\* A pod has the routes of its namespace's gateways and no others
\* (ExternalGateways!RoutesFollowGateways).
RoutesFollowGateways == side = "gateway" => Gw!RoutesFollowGateways

\* No two floating IPs carry the same address, no two claims hand out the same
\* one, and no NAT rule outlives the floating IP whose address will be given to
\* another pod (FloatingIPs!UniqueFloatingIPs, ClaimRangesDisjoint, NoStaleNat).
FloatingIPsUnique ==
  side = "fip" => Fip!UniqueFloatingIPs /\ Fip!ClaimRangesDisjoint /\ Fip!NoStaleNat

\* A pod that a claim selects gets a floating IP when one is free
\* (FloatingIPs!EventuallyFloating).
EventuallyFloating == []<>(side = "fip" => Fip!AllFloating)
=============================================================================
