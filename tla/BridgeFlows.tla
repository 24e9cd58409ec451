---------------------------- MODULE BridgeFlows ----------------------------
(***************************************************************************)
(* The OpenFlow pipeline the node agent writes into the gateway bridge     *)
(* (gateway_shared_intf.go, gateway_localnet.go, gateway.go).  The bridge  *)
(* has three ports: "phys" to the wire, "patch" to OVN and "LOCAL" to the  *)
(* host.  A flow is a table, a priority, a match on some header fields and *)
(* an action; a packet is passed from table to table through connection    *)
(* tracking with address translation until a flow outputs it.  OVN, the    *)
(* host's stack and the outside answer the packets that reach them, so a   *)
(* conversation is a request and the reply on its way back.                *)
(*                                                                         *)
(* Only one address family is kept: the code adds every flow once for each *)
(* family the cluster uses, with the same tables and priorities.           *)
(***************************************************************************)
EXTENDS Naturals, FiniteSets, FiniteSetsExt

CONSTANT Worlds     \* records: mode, mtu, podDirect, convs

VARIABLES
    world,          \* the configuration of this behaviour
    ct,             \* the kernel's connection tracking entries, by zone
    pkt,            \* the packet of every conversation, or where it was output
    ovn,            \* what OVN's load balancer remembers of a conversation
    answered        \* the conversations whose request reached its server

vars == <<world, ct, pkt, ovn, answered>>

-----------------------------------------------------------------------------
(***************************************************************************)
(* Addresses, zones and conversations.                                     *)
(***************************************************************************)
\* config.Default.ConntrackZone and the two zones after it
Zone == 64000
HostMasqCTZone == Zone + 1
OVNMasqCTZone == HostMasqCTZone + 1

Swap(t) == <<t[3], t[4], t[1], t[2]>>

(***************************************************************************)
(* A conversation: the port its request enters the bridge by, its header,  *)
(* the party that serves it, and whether it is too large for the pods.     *)
(* "hostMasq" is the address OVN sends a host backend's traffic to.        *)
(***************************************************************************)
Conv(in, src, dst, dp, kind, server, big) ==
    [in |-> in, src |-> src, dst |-> dst, dp |-> dp, kind |-> kind,
     server |-> server, big |-> big]

Conversation(c) ==
    CASE c = "host_svc_pod"  -> Conv("LOCAL", "host", "svc", "svcport", "ip", "pod", FALSE)
      [] c = "host_svc_host" -> Conv("LOCAL", "host", "svc", "svcport", "ip", "host", FALSE)
      [] c = "pod_svc_host"  -> Conv("patch", "host", "hostMasq", "bk", "ip", "host", FALSE)
      [] c = "ext_np_pod"    -> Conv("phys", "ext", "host", "np", "ip", "pod", FALSE)
      [] c = "ext_np_host"   -> Conv("phys", "ext", "host", "np", "ip", "host", FALSE)
      [] c = "ext_np_big"    -> Conv("phys", "ext", "host", "np", "ip", "icmp", TRUE)
      [] c = "ext_lb_pod"    -> Conv("phys", "ext", "lb", "svcport", "ip", "pod", FALSE)
      [] c = "ext_fip"       -> Conv("phys", "ext", "fip", "app", "ip", "pod", FALSE)
      [] c = "ext_pod"       -> Conv("phys", "ext", "pod", "app", "ip", "pod", FALSE)
      [] c = "ext_host"      -> Conv("phys", "ext", "host", "ssh", "ip", "host", FALSE)
      [] c = "pod_ext"       -> Conv("patch", "host", "ext", "www", "ip", "ext", FALSE)
      [] c = "pod_err"       -> Conv("patch", "host", "ext", "www", "ip", "error", FALSE)
      [] c = "host_ext"      -> Conv("LOCAL", "host", "ext", "www", "ip", "ext", FALSE)
      [] c = "geneve"        -> Conv("phys", "ext", "host", "geneve", "udp", "host", FALSE)
      [] c = "advert"        -> Conv("phys", "ext", "host", "none", "icmp6", "both", FALSE)
      [] c = "bfd"           -> Conv("phys", "ext", "host", "bfd", "udp", "both", FALSE)

Header(c) ==
    LET v == Conversation(c)
    IN  [in |-> v.in, tuple |-> <<v.src, c, v.dst, v.dp>>, kind |-> v.kind,
         shared |-> v.in = "phys", big |-> v.big, est |-> FALSE, rel |-> FALSE,
         inner |-> <<>>, label |-> 0, table |-> 0, at |-> {}]

-----------------------------------------------------------------------------
(***************************************************************************)
(* Flows.                                                                  *)
(***************************************************************************)
NoCT == [zone |-> 0, commit |-> FALSE, nat |-> <<"none">>, label |-> 0]
CT(zone, commit, nat, label) ==
    [zone |-> zone, commit |-> commit, nat |-> nat, label |-> label]

\* match: a function from header fields to the values the flow accepts
Flow(table, prio, match, track, mac, out, next) ==
    [table |-> table, prio |-> prio, match |-> match, track |-> track,
     mac |-> mac, out |-> out, next |-> next]

Output(table, prio, match, ports) == Flow(table, prio, match, NoCT, FALSE, ports, 0)
Track(table, prio, match, track, next) == Flow(table, prio, match, track, FALSE, {}, next)

IP == {"ip", "udp", "icmp", "icmp6"}

\* the action on what goes to OVN: straight out of the patch port, or to the
\* packet length check of table 11
ToOVN(table, prio, match) ==
    IF world.mtu THEN Track(table, prio, match, NoCT, 11)
    ELSE Output(table, prio, match, {"patch"})

\* table 0 of the shared gateway, in the order of the source
SharedTable0 ==
    { Output(0, 10, [in |-> {"phys"}, shared |-> {TRUE}], {"patch", "LOCAL"}),
      Flow(0, 100, [in |-> {"patch"}, kind |-> IP], CT(Zone, TRUE, <<"none">>, 0),
           FALSE, {"phys"}, 0),
      Output(0, 60, [in |-> {"phys"}, shared |-> {TRUE}, dp |-> {"geneve"}], {"LOCAL"}),
      Output(0, 55, [in |-> {"phys"}, dp |-> {"geneve"}], {"NORMAL"}),
      Track(0, 50, [in |-> {"phys"}, kind |-> IP], CT(Zone, FALSE, <<"none">>, 0), 1) }

\* the service hairpin: the masquerade addresses of the host and of OVN
HairpinTable0 ==
    { Track(0, 500, [in |-> {"patch"}, kind |-> IP, dst |-> {"hostMasq"}, src |-> {"host"}],
            CT(HostMasqCTZone, TRUE, <<"dst", "host">>, 0), 4),
      Track(0, 500, [in |-> {"LOCAL"}, kind |-> IP, dst |-> {"ovnMasq"}],
            CT(OVNMasqCTZone, FALSE, <<"back">>, 0), 5) }

\* host to service and the reply, for every service CIDR
ServiceTable0 ==
    { Track(0, 500, [in |-> {"LOCAL"}, kind |-> IP, dst |-> {"svc"}],
            CT(HostMasqCTZone, TRUE, <<"src", "hostMasq">>, 0), 2),
      Track(0, 500, [in |-> {"patch"}, kind |-> IP, src |-> {"svc"}, dst |-> {"hostMasq"}],
            CT(HostMasqCTZone, FALSE, <<"back">>, 0), 3) }

\* table 1: established connections and what relates to them belong to OVN, the
\* rest to the host
SharedTable1 ==
    { ToOVN(1, 100, [est |-> {TRUE}, kind |-> IP]),
      ToOVN(1, 100, [rel |-> {TRUE}, kind |-> IP]),
      Output(1, 10, [shared |-> {TRUE}], {"LOCAL"}),
      Output(1, 14, [kind |-> {"icmp6"}], {"patch", "LOCAL"}),
      Output(1, 13, [in |-> {"phys"}, dp |-> {"bfd"}], {"patch", "LOCAL"}),
      Output(1, 0, [in |-> {"phys", "patch", "LOCAL"}], {"NORMAL"}) }
    \cup (IF world.podDirect THEN {ToOVN(1, 15, [kind |-> IP, dst |-> {"pod"}])} ELSE {})

\* table 11: what is larger than the pods' MTU goes to the kernel
LengthTable ==
    IF world.mtu
    THEN { Output(11, 10, [big |-> {TRUE}], {"LOCAL"}),
           Output(11, 1, [big |-> BOOLEAN], {"patch"}) }
    ELSE {}

\* a change of the code: the host's reply skips the second zone
DispatchTablesShort ==
    { Flow(2, 1, [big |-> BOOLEAN], NoCT, TRUE, {"patch"}, 0),
      Flow(3, 1, [big |-> BOOLEAN], NoCT, TRUE, {"LOCAL"}, 0),
      Track(4, 1, [kind |-> IP], CT(OVNMasqCTZone, TRUE, <<"src", "ovnMasq">>, 0), 3),
      Track(5, 1, [kind |-> IP], NoCT, 2) }

\* tables 2 to 5: dispatch, and the second half of the hairpin's translation
DispatchTables ==
    { Flow(2, 1, [big |-> BOOLEAN], NoCT, TRUE, {"patch"}, 0),
      Flow(3, 1, [big |-> BOOLEAN], NoCT, TRUE, {"LOCAL"}, 0),
      Track(4, 1, [kind |-> IP], CT(OVNMasqCTZone, TRUE, <<"src", "ovnMasq">>, 0), 3),
      Track(5, 1, [kind |-> IP], CT(HostMasqCTZone, TRUE, <<"back">>, 0), 2) }

\* updateServiceFlowCache: node port, and load balancer or external address
ServiceFlows ==
    { ToOVN(0, 110, [in |-> {"phys"}, kind |-> IP, dp |-> {"np"}]),
      Output(0, 110, [in |-> {"patch"}, kind |-> IP, sp |-> {"np"}], {"phys"}),
      ToOVN(0, 110, [in |-> {"phys"}, kind |-> IP, dst |-> {"lb"}, dp |-> {"svcport"}]),
      Output(0, 110, [in |-> {"patch"}, kind |-> IP, src |-> {"lb"}, sp |-> {"svcport"}],
             {"phys"}) }

\* updateFloatingIPFlowCache
FloatingIPFlows ==
    { Output(0, 90, [in |-> {"phys"}, kind |-> IP, dst |-> {"fip"}], {"patch"}) }

SharedFlows ==
    SharedTable0 \cup HairpinTable0 \cup ServiceTable0 \cup SharedTable1
        \cup LengthTable \cup DispatchTables \cup ServiceFlows

\* newLocalGatewayOpenflowManager: OVN's connections are known by their label
LocalTable0 ==
    { Output(0, 10, [in |-> {"phys"}, shared |-> {TRUE}], {"patch", "LOCAL"}),
      Flow(0, 100, [in |-> {"patch"}, kind |-> IP], CT(Zone, TRUE, <<"none">>, 1),
           FALSE, {"phys"}, 0),
      Track(0, 50, [in |-> {"phys"}, kind |-> IP], CT(Zone, FALSE, <<"none">>, 0), 1),
      Output(0, 100, [in |-> {"LOCAL"}], {"phys"}),
      Output(0, 99, [in |-> {"patch"}], {"phys"}) }

LocalTable1 ==
    { ToOVN(1, 100, [label |-> {1}]),
      ToOVN(1, 15, [kind |-> IP, dst |-> {"pod"}]),
      Output(1, 14, [kind |-> {"icmp6"}], {"patch", "LOCAL"}),
      Output(1, 13, [in |-> {"phys"}, dp |-> {"bfd"}], {"patch", "LOCAL"}),
      Output(1, 10, [shared |-> {TRUE}], {"LOCAL"}),
      Output(1, 0, [in |-> {"phys", "patch", "LOCAL"}], {"NORMAL"}) }

LocalFlows == LocalTable0 \cup LocalTable1 \cup LengthTable

\* the flow cache entry "NORMAL", and the default and the other flows
Flows ==
    {Output(0, 0, [in |-> {"phys", "patch", "LOCAL"}], {"NORMAL"})}
    \cup (IF world.mode = "shared" THEN SharedFlows ELSE LocalFlows)
    \cup FloatingIPFlows

-----------------------------------------------------------------------------
(***************************************************************************)
(* The bridge: how Open vSwitch applies the flows.                         *)
(***************************************************************************)
Field(p, f) ==
    CASE f = "in" -> p.in [] f = "kind" -> p.kind [] f = "shared" -> p.shared
      [] f = "big" -> p.big [] f = "est" -> p.est [] f = "rel" -> p.rel [] f = "label" -> p.label
      [] f = "src" -> p.tuple[1] [] f = "sp" -> p.tuple[2]
      [] f = "dst" -> p.tuple[3] [] f = "dp" -> p.tuple[4]

Matches(f, p) ==
    f.table = p.table /\ \A x \in DOMAIN f.match : Field(p, x) \in f.match[x]

BestFlow(p) ==
    LET fs == {f \in Flows : Matches(f, p)}
    IN  CHOOSE f \in fs : \A g \in fs : g.prio <= f.prio

Translate(nat, t) ==
    CASE nat[1] = "src" -> [t EXCEPT ![1] = nat[2]]
      [] nat[1] = "dst" -> [t EXCEPT ![3] = nat[2]]
      [] OTHER -> t

Tracked(zone, t) == {e \in ct : e.zone = zone /\ (e.orig = t \/ e.reply = t)}

\* ct(...): commit a new connection or find the one of this packet, and
\* apply its translation in the packet's direction; an error message relates to
\* the connection of the packet it quotes
ConnTrack(c, p, k) ==
    LET t     == p.tuple
        known == Tracked(k.zone, t)
        quoted == Tracked(k.zone, p.inner)
        e     == CHOOSE x \in known : TRUE
        moved == IF t = e.orig THEN Swap(e.reply) ELSE Swap(e.orig)
        new   == [zone |-> k.zone, orig |-> t, reply |-> Swap(Translate(k.nat, t)),
                  label |-> k.label]
    IN  IF k.zone = 0 THEN [p |-> p, ct |-> ct]
        ELSE IF known # {}
             THEN [p |-> [p EXCEPT !.tuple = IF k.nat[1] = "none" THEN t ELSE moved,
                                   !.est = TRUE, !.label = e.label],
                   ct |-> ct]
             ELSE IF quoted # {}
             THEN [p |-> [p EXCEPT !.rel = TRUE, !.label = (CHOOSE x \in quoted : TRUE).label],
                   ct |-> ct]
             ELSE IF k.commit
                  THEN [p |-> [p EXCEPT !.tuple = Translate(k.nat, t), !.label = k.label],
                        ct |-> ct \cup {new}]
                  ELSE [p |-> p, ct |-> ct]

\* one table lookup; without a matching flow the packet is dropped
Lookup(c) ==
    /\ pkt[c].at = {}
    /\ LET p == pkt[c]
           f == BestFlow(p)
           r == ConnTrack(c, p, f.track)
           out == IF f.out = {"NORMAL"}
                  THEN (IF p.in = "phys" THEN {"LOCAL"} ELSE {"phys"}) ELSE f.out
       IN  IF \E g \in Flows : Matches(g, p)
           THEN /\ ct' = r.ct
                /\ pkt' = [pkt EXCEPT ![c] = [r.p EXCEPT !.shared = @ \/ f.mac,
                                                         !.at = out, !.table = f.next]]
           ELSE /\ pkt' = [pkt EXCEPT ![c].at = {"dropped"}]
                /\ UNCHANGED ct
    /\ UNCHANGED <<world, ovn, answered>>

-----------------------------------------------------------------------------
(***************************************************************************)
(* The three parties.                                                      *)
(***************************************************************************)
Send(c, in, tuple) ==
    pkt' = [pkt EXCEPT ![c] = [@ EXCEPT !.in = in, !.tuple = tuple, !.table = 0, !.at = {},
                                        !.est = FALSE, !.rel = FALSE, !.label = 0, !.shared = in = "phys"]]

\* the host's stack, or a server outside, answers a request
Answer(c, port) ==
    /\ pkt[c].at = {port} /\ c \notin answered
    /\ Conversation(c).server = (IF port = "LOCAL" THEN "host" ELSE "ext")
    /\ answered' = answered \cup {c}
    /\ Send(c, port, Swap(pkt[c].tuple))
    /\ UNCHANGED <<world, ct, ovn>>

\* a router outside answers with an error that quotes the request
RouterRefuses(c) ==
    /\ pkt[c].at = {"phys"} /\ c \notin answered /\ Conversation(c).server = "error"
    /\ answered' = answered \cup {c}
    /\ pkt' = [pkt EXCEPT ![c] = [Header(c) EXCEPT !.in = "phys", !.shared = TRUE, !.kind = "icmp",
                                      !.tuple = <<"router", "none", pkt[c].tuple[1], "none">>,
                                      !.inner = pkt[c].tuple]]
    /\ UNCHANGED <<world, ct, ovn>>

\* OVN answers from a pod
PodAnswers(c) ==
    /\ pkt[c].at = {"patch"} /\ c \notin answered /\ Conversation(c).server = "pod"
    /\ answered' = answered \cup {c}
    /\ Send(c, "patch", Swap(pkt[c].tuple))
    /\ UNCHANGED <<world, ct, ovn>>

\* OVN's load balancer sends the request on to a backend on the host
BalanceToHost(c) ==
    /\ pkt[c].at = {"patch"} /\ c \notin answered /\ c \notin DOMAIN ovn
    /\ Conversation(c).server = "host"
    /\ ovn' = [x \in DOMAIN ovn \cup {c} |-> IF x = c THEN pkt[c].tuple ELSE ovn[x]]
    /\ Send(c, "patch", <<"host", pkt[c].tuple[2], "hostMasq", "bk">>)
    /\ UNCHANGED <<world, ct, answered>>

\* and takes its translation back on the reply
BalanceBack(c) ==
    /\ pkt[c].at = {"patch"} /\ c \in answered /\ c \in DOMAIN ovn
    /\ pkt[c].tuple = <<"hostMasq", "bk", "host", ovn[c][2]>>
    /\ Send(c, "patch", Swap(ovn[c]))
    /\ ovn' = [x \in DOMAIN ovn \ {c} |-> ovn[x]]
    /\ UNCHANGED <<world, ct, answered>>

-----------------------------------------------------------------------------
Init ==
    /\ world \in Worlds
    /\ ct = {} /\ ovn = [x \in {} |-> <<>>] /\ answered = {}
    /\ pkt = [c \in world.convs |-> Header(c)]

Next ==
    \E c \in world.convs :
        Lookup(c) \/ Answer(c, "LOCAL") \/ Answer(c, "phys") \/ PodAnswers(c)
            \/ RouterRefuses(c) \/ BalanceToHost(c) \/ BalanceBack(c)

Spec == Init /\ [][Next]_vars /\ WF_vars(Next)

-----------------------------------------------------------------------------
(***************************************************************************)
(* Properties.                                                             *)
(***************************************************************************)
\* the reply as the client must see it: from where it sent its request
Reply(c) == Swap(Header(c).tuple)

\* a conversation that has ended as it must
Returned(c) ==
    CASE Conversation(c).server = "both" -> pkt[c].at = {"patch", "LOCAL"}
      [] Conversation(c).server = "icmp" ->
            pkt[c].at = (IF world.mtu THEN {"LOCAL"} ELSE {"patch"})
      [] Conversation(c).server = "error" -> c \in answered /\ pkt[c].at = {"patch"}
      [] OTHER -> /\ c \in answered
                  /\ pkt[c].at = {Conversation(c).in}
                  /\ pkt[c].tuple = Reply(c)

\* Every packet ends at the party it belongs to: no packet is dropped or
\* circles between the bridge, OVN and the host, what is too large for a pod
\* goes to the kernel, and a reply is back at the port its request came by, from
\* the address and port the client had asked, with every translation of the
\* bridge undone; an error about a pod's connection is back at OVN (newSharedGatewayOpenFlowManager's masquerade flows).
AllReturned == \A c \in world.convs : Returned(c)
RepliesReturn == <>[]AllReturned
=============================================================================
