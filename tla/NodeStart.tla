----------------------------- MODULE NodeStart -----------------------------
(***************************************************************************)
(* The start of the node agent (node.go Start) and what it leaves on the   *)
(* host: the management port (management-port.go, management-port_linux.go)*)
(* the gateway bridge with the addresses of the network card moved to it   *)
(* (gateway.go, nicstobridge.go), the bridge mappings, the local access    *)
(* bridge, the iptables chains, and the route of the cluster's services    *)
(* with its migration while the masters upgrade (node_upgrade.go).         *)
(*                                                                         *)
(* The agent is a daemon set: an error, a timeout or a crash at any step   *)
(* ends the process and it starts again, perhaps with another gateway mode.*)
(* A failing iptables command of the gateway and a failing removal of the  *)
(* local access bridge end nothing: the process goes on without them.      *)
(* What it did to the kernel and to Open vSwitch stays; a reboot empties   *)
(* the kernel, keeps the Open vSwitch database and gives the card back its *)
(* addresses.  The host has one card, one address and one service network. *)
(***************************************************************************)
EXTENDS Naturals, Sequences, FiniteSets

CONSTANT Worlds   \* records: modes, intf, nodeport, versions, old, and the
                  \* counts of crashes, reboots, losses, cleanups and of
                  \* failing commands that go unnoticed

VARIABLES
    world, left,  \* the world chosen, and what remains of its counts
    ovs,          \* Open vSwitch: what exists, and the bridge mappings
    krn,          \* the kernel: addresses, routes, rules and iptables
    file,         \* whether Open vSwitch drops transient ports at boot
    pc, mode,     \* the step Start is at, and the gateway mode it runs with
    cni,          \* how the CNI server waits for a port: "legacy" or "up"
    upgrade,      \* the step of the goroutine that waits for the masters
    version,      \* initialTopoVersion
    cluster,      \* subnet allocated, node annotated, southbound schema new
    topo,         \* the topology versions annotated on the master nodes
    causes        \* what this process missed: the rules and commands that
                  \* failed unnoticed, and "behind", the masters' upgrade
                  \* right after the CNI server was made

agent == <<pc, mode, cni, upgrade, version>>
vars == <<world, left, ovs, krn, file, agent, cluster, topo, causes>>

OvnHostToSvcOFTopoVersion == 3
OvnPortBindingTopoVersion == 4
OvnCurrentTopologyVersion == OvnPortBindingTopoVersion

-----------------------------------------------------------------------------
(***************************************************************************)
(* The kernel and Open vSwitch as the agent's helpers change them.         *)
(***************************************************************************)

\* netlink's RouteAdd: one route for a destination, so a second one is refused
\* with EEXIST, which every caller passes over
LinkRoutesAdd(k, dst, link) ==
    IF k.route[dst] = "none" THEN [k EXCEPT !.route[dst] = link] ELSE k

LinkRoutesDel(k, link, dsts) ==
    [k EXCEPT !.route = [d \in DOMAIN @ |-> IF d \in dsts /\ @[d] = link THEN "none" ELSE @[d]]]

\* the management port's address and the neighbour entry of its router
LinkAddrFlush(k) == [k EXCEPT !.mgmt = @ \ {"address"}]
LinkAddrAdd(k) == [k EXCEPT !.mgmt = @ \cup {"address"}]
LinkNeighAdd(k) == [k EXCEPT !.mgmt = @ \cup {"neighbour"}]

AddIptRules(k, rules) == [k EXCEPT !.ipt = @ \cup rules]
DelIptRules(k, rules) == [k EXCEPT !.ipt = @ \ rules]

\* addIptRules and delIptRules collect errors with errors.Wrapf, which makes
\* nil of a nil first error: the rules that fail are just missed
Unnoticed(failed) ==
    /\ Cardinality(failed) <= left.faults
    /\ left' = [left EXCEPT !.faults = @ - Cardinality(failed)]
    /\ causes' = causes \cup failed

\* a chain that a rule still jumps to cannot be deleted
DeleteChain(k, chain, jump) == IF jump \in k.ipt THEN k ELSE DelIptRules(k, {chain})

\* bridgedGatewayNodeSetup reads the mappings and writes them with this one
SetMapping(o, physnet) == [o EXCEPT !.maps = @ \cup {physnet}]

-----------------------------------------------------------------------------
(***************************************************************************)
(* The management port.                                                    *)
(***************************************************************************)
MgmtRules == {"mgmt-chain", "mgmt-jump", "mgmt-snat"}

\* newManagementPortIPFamilyConfig: the networks routed through the port
AllSubnets(m) == {"cluster"} \cup (IF m = "shared" THEN {} ELSE {"service"})

\* newManagementPortConfig: the link, brought up, and the subnets of the family
NewManagementPortConfig(m) == [link |-> "mp0", allSubnets |-> AllSubnets(m)]

\* the slate is not clean: the routes through the port stay
TearDownKeepsRoutes(k) == DelIptRules(LinkAddrFlush(k), {"mgmt-snat"})

\* tearDownManagementPortConfig starts from a clean slate
TearDownManagementPortConfig(k) ==
    DelIptRules(LinkRoutesDel(LinkAddrFlush(k), "mp0", {"cluster", "service"}), {"mgmt-snat"})

\* setupManagementPortConfig adds what is missing
SetupManagementPortConfig(k, m) ==
    LET cfg == NewManagementPortConfig(m)
        c == LinkRoutesAdd(LinkAddrAdd(k), "cluster", cfg.link)
        s == IF "service" \in cfg.allSubnets THEN LinkRoutesAdd(c, "service", cfg.link) ELSE c
    IN AddIptRules(LinkNeighAdd(s), MgmtRules)

ManagementPortComplete(k) ==
    /\ k.mgmt = {"address", "neighbour"}
    /\ k.route["cluster"] = "mp0"
    /\ MgmtRules \subseteq k.ipt

\* DelMgtPortIptRules
DelMgtPortIptRules(k) == DelIptRules(k, MgmtRules)

-----------------------------------------------------------------------------
(***************************************************************************)
(* The gateway bridge.                                                     *)
(***************************************************************************)

\* getDefaultGatewayInterfaceDetails: where the default route goes; "none"
\* when there is no default route
DefaultGatewayInterface == krn.route["default"]

\* getGatewayNextHops: the configured interface, else the default route's; the
\* next hop comes from the default route
GatewayInterface ==
    IF DefaultGatewayInterface = "none" THEN "none"
    ELSE IF world.intf = "auto" THEN DefaultGatewayInterface ELSE world.intf

\* getNetworkInterfaceIPAddresses finds an address on the interface
HasAddress(intf) == intf # "none" /\ krn.address = intf

\* the first command of NicToBridge: the bridge with the card as its port
NicToBridge == ovs' = [ovs EXCEPT !.bridge = TRUE, !.nic = TRUE]

\* setupLocalNodeAccessBridge without its bridge: the port and, in local mode,
\* the rules that let its traffic out
LocalAccessRules == {"nat-gw0"}

\* deleteLocalNodeAccessBridge: the bridge with its port, then its mapping
DeleteLocalBridge(o) == [o EXCEPT !.local = FALSE, !.gw0 = FALSE]
UnmapLocalNetwork(o) == [o EXCEPT !.maps = @ \ {"locnet"}]

-----------------------------------------------------------------------------
(***************************************************************************)
(* The iptables rules of the gateway, by mode.                             *)
(***************************************************************************)
Chains == {"chains"}
Jumps == {"jumps"}    \* nat PREROUTING and OUTPUT, the same for both modes
LegacyShared == {"filter-output", "filter-forward"}
LegacyLocal == {"filter-forward"}

\* handleGatewayIPTables makes the chains before it adds the jumps and again
\* before it deletes the old ones; a rule cannot jump to a missing chain
GatewayIPTables(k, legacy, failed) ==
    LET c == AddIptRules(k, Chains \ failed)
        j == IF Chains \subseteq c.ipt THEN AddIptRules(c, Jumps \ failed) ELSE c
    IN DelIptRules(AddIptRules(j, Chains), legacy \ failed)
InitSharedGatewayIPTables(k, failed) == GatewayIPTables(k, LegacyShared, failed)
InitLocalGatewayIPTables(k, failed) == GatewayIPTables(k, LegacyLocal, failed)

\* getLocalGatewayNATRules
LocalGatewayNATRules == {"nat-mp0"}

\* cleanupSharedGatewayIPTChains: the rules that jump to the chains stay
CleanupSharedGatewayIPTChains(k) == DeleteChain(k, "chains", "jumps")

-----------------------------------------------------------------------------
(***************************************************************************)
(* One step of Start.  Every step may instead be the last one: see Crash.  *)
(***************************************************************************)
Go(from, to) ==
    /\ pc = from
    /\ pc' = to
    /\ UNCHANGED <<world, mode, upgrade, cluster, topo>>

Step(from, to) == Go(from, to) /\ UNCHANGED <<left, causes>>
InOVS(from, to) == Step(from, to) /\ UNCHANGED <<krn, file, cni, version>>
InKernel(from, to) == Step(from, to) /\ UNCHANGED <<ovs, file, cni, version>>

\* a step whose iptables commands may fail
InIptables(from, to) == Go(from, to) /\ UNCHANGED <<ovs, file, cni, version>>

\* the process ends; its goroutines end with it
Ends ==
    /\ pc' = "down"
    /\ cni' = "none" /\ upgrade' = "none"
    /\ UNCHANGED <<world, ovs, krn, file, mode, version, cluster, topo>>

Boot(m) ==
    /\ pc = "down"
    /\ m \in world.modes
    /\ pc' = "ovn" /\ mode' = m
    /\ causes' = {}
    /\ UNCHANGED <<world, left, ovs, krn, file, cni, upgrade, version, cluster, topo>>

\* setupOVNNode
SetupOVNNode == InOVS("ovn", "subnet") /\ ovs' = [ovs EXCEPT !.ids = TRUE]

\* the column "up" of the port bindings tells whether OVN reports ready ports
GetOVNIfUpCheckMode == IF cluster.schema THEN "up" ELSE "legacy"

\* the wait for the master's subnet, then the CNI server made with what
\* getOVNIfUpCheckMode found
NewCNIServer ==
    /\ Step("subnet", "controller")
    /\ cluster.subnet
    /\ cni' = GetOVNIfUpCheckMode
    /\ UNCHANGED <<ovs, krn, file, version>>

\* ovn-controller connects and makes br-int with its flows once it is told the
\* addresses of the databases; without it the wait times out and Start fails
IsOVNControllerReady == ovs.ids

\* isOVNControllerReady, then the first commands of createManagementPort
CreateManagementPort ==
    /\ InOVS("controller", "teardown")
    /\ IsOVNControllerReady
    /\ ovs' = [ovs EXCEPT !.mgmt = TRUE]

TearDown == InKernel("teardown", "setup") /\ krn' = TearDownManagementPortConfig(krn)

Setup ==
    /\ InKernel("setup", "gateway")
    /\ ovs.mgmt
    /\ krn' = SetupManagementPortConfig(krn, mode)

\* initGateway as far as the mode's constructor, which in local mode starts
\* with the rules for the management port.  Next hops and addresses are looked
\* up in every mode.
InitGateway ==
    /\ mode # "disabled"
    /\ HasAddress(GatewayInterface)
    /\ InIptables("gateway", "bridge")
    /\ LET rules == IF mode = "local" THEN LocalGatewayNATRules ELSE {}
       IN \E failed \in SUBSET rules : Unnoticed(failed) /\ krn' = AddIptRules(krn, rules \ failed)

InitGatewayDisabled ==
    /\ mode = "disabled"
    /\ HasAddress(GatewayInterface)
    /\ InKernel("gateway", "annotate")
    /\ UNCHANGED krn

InitGatewayFails ==
    /\ pc = "gateway"
    /\ ~HasAddress(GatewayInterface)
    /\ Ends
    /\ UNCHANGED <<left, causes>>

\* gatewayInitInternal: a port of a bridge, or a bridge
BridgeExists ==
    /\ GatewayInterface = "br" \/ ovs.nic
    /\ InOVS("bridge", "mapping")
    /\ UNCHANGED ovs

\* gatewayInitInternal: neither, so the card becomes a port of a new bridge
BridgeMade ==
    /\ GatewayInterface = "nic" /\ ~ovs.nic
    /\ Step("bridge", "deladdr")
    /\ NicToBridge
    /\ file' = (file \/ world.transient)     \* setupDefaultFile, if there is one to write
    /\ UNCHANGED <<krn, cni, version>>

\* saveIPAddress removes the address: the kernel drops the routes it carried
DelAddress ==
    /\ InKernel("deladdr", "addaddr")
    /\ krn' = [LinkRoutesDel(krn, "nic", {"default"}) EXCEPT !.address = "none"]

AddAddress == InKernel("addaddr", "saveroute") /\ krn' = [krn EXCEPT !.address = "br"]

\* saveRoute
SaveRoute == InKernel("saveroute", "mapping") /\ krn' = LinkRoutesAdd(krn, "default", "br")

\* bridgedGatewayNodeSetup
BridgedGatewayNodeSetup ==
    /\ InOVS("mapping", IF mode = "local" THEN "addlocal" ELSE "masquerade")
    /\ ovs' = SetMapping(ovs, "physnet")

\* setupLocalNodeAccessBridge, one command a step
AddLocalBridge == InOVS("addlocal", "maplocal") /\ ovs' = [ovs EXCEPT !.local = TRUE]
MapLocalBridge == InOVS("maplocal", "portlocal") /\ ovs' = SetMapping(ovs, "locnet")
AddLocalPort == InOVS("portlocal", "natlocal") /\ ovs' = [ovs EXCEPT !.gw0 = TRUE]
NatLocalPort ==
    /\ InIptables("natlocal", "localrules")
    /\ \E failed \in SUBSET LocalAccessRules :
          Unnoticed(failed) /\ krn' = AddIptRules(krn, LocalAccessRules \ failed)

\* the rule that looks the table of the external IPs up, unless it is there
InitRoutingRules(k) == [k EXCEPT !.rule = TRUE]

\* the rest of newLocalGateway, with initRoutingRules
InitLocalGateway ==
    /\ InIptables("localrules", "annotate")
    /\ \E failed \in SUBSET (IF world.nodeport THEN Chains \cup Jumps \cup LegacyLocal ELSE {}) :
          /\ Unnoticed(failed)
          /\ krn' = IF world.nodeport THEN InitRoutingRules(InitLocalGatewayIPTables(krn, failed)) ELSE krn

\* the rest of newSharedGateway: a gateway is reachable only from a link that
\* has an address
AddMasqueradeRoute ==
    /\ InKernel("masquerade", "annotate")
    /\ krn.address = "br"
    /\ krn' = LinkRoutesAdd(krn, "masquerade", "br")

AddMasqueradeRouteFails ==
    /\ pc = "masquerade"
    /\ krn.address # "br"
    /\ Ends
    /\ UNCHANGED <<left, causes>>

\* nodeAnnotator.Run
Annotate ==
    /\ pc = "annotate"
    /\ pc' = "wait"
    /\ cluster' = [cluster EXCEPT !.annotated = TRUE]
    /\ UNCHANGED <<world, left, ovs, krn, file, mode, cni, upgrade, version, topo, causes>>

\* ovn-controller made the flows of the management port, and the patch port of
\* the mapped network
ManagementPortReady == cluster.annotated /\ ovs.mgmt
GatewayReady == cluster.annotated /\ "physnet" \in ovs.maps
Ready == ManagementPortReady /\ (mode # "disabled" => GatewayReady)

\* startupWaiter.Wait, with the functions that follow the waiting
Wait ==
    /\ InIptables("wait", "version")
    /\ Ready
    /\ LET inits == mode = "shared" /\ world.nodeport
       IN \E failed \in SUBSET (IF inits THEN Chains \cup Jumps \cup LegacyShared ELSE {}) :
             /\ Unnoticed(failed)
             /\ krn' = IF inits THEN InitSharedGatewayIPTables(krn, failed) ELSE krn

\* a gateway without an open flow manager has no bridge to name
NoBridge == pc = "version" /\ mode = "disabled" /\ Ends /\ UNCHANGED <<left, causes>>

\* detectInitialVersion: the version of the first master that has one
InitialVersion ==
    LET known == {i \in DOMAIN topo : topo[i] # 0}
    IN IF known = {} THEN 0 ELSE topo[CHOOSE i \in known : \A j \in known : i <= j]

DetectInitialVersion ==
    /\ mode # "disabled"
    /\ Step("version", "route")
    /\ version' = InitialVersion
    /\ UNCHANGED <<ovs, krn, file, cni>>

\* configureSvcRouteViaBridge
ConfigureSvcRouteViaBridge(k) == LinkRoutesAdd(k, "service", "br")

\* the rest of Start: the route of the services, and the goroutine that waits
\* for the masters
ServiceRoute ==
    /\ pc = "route"
    /\ pc' = "up"
    /\ krn' = IF mode # "shared" THEN krn
              ELSE IF version >= OvnHostToSvcOFTopoVersion THEN ConfigureSvcRouteViaBridge(krn)
              ELSE LinkRoutesAdd(krn, "service", "mp0")
    /\ upgrade' = IF version = OvnCurrentTopologyVersion THEN "none" ELSE "waiting"
    /\ UNCHANGED <<world, left, ovs, file, mode, cni, version, cluster, topo, causes>>

-----------------------------------------------------------------------------
(***************************************************************************)
(* The goroutine that waits for the masters' upgrade.                      *)
(***************************************************************************)
Migrates == version < OvnHostToSvcOFTopoVersion /\ mode = "shared"

Goes(from, to) ==
    /\ upgrade = from
    /\ upgrade' = to
    /\ UNCHANGED <<world, file, pc, mode, version, cluster, topo>>

Upgrade(from, to) == Goes(from, to) /\ UNCHANGED <<left, causes>>

\* detectUpgradeDone, for the master that was queued
DetectUpgradeDone ==
    /\ \E i \in DOMAIN topo : topo[i] = OvnCurrentTopologyVersion
    /\ Upgrade("waiting", IF Migrates THEN "delroute" ELSE "cni")
    /\ UNCHANGED <<ovs, krn, cni>>

\* upgradeServiceRoute: the old route, the new one, the local access bridge
DelServiceRoute ==
    /\ Upgrade("delroute", "addroute")
    /\ krn' = LinkRoutesDel(krn, "mp0", {"service"})
    /\ UNCHANGED <<ovs, cni>>

AddServiceRoute ==
    /\ Upgrade("addroute", "dellocal")
    /\ krn' = ConfigureSvcRouteViaBridge(krn)
    /\ UNCHANGED <<ovs, cni>>

DelLocalBridge ==
    /\ Upgrade("dellocal", "unmap")
    /\ ovs' = DeleteLocalBridge(ovs)
    /\ UNCHANGED <<krn, cni>>

UnmapLocalBridge ==
    /\ Upgrade("unmap", "cni")
    /\ ovs' = UnmapLocalNetwork(ovs)
    /\ UNCHANGED <<krn, cni>>

\* a failing command of deleteLocalNodeAccessBridge is a warning, and the
\* migration counts as done
DelLocalBridgeFails ==
    /\ \E from \in {"dellocal", "unmap"} : Goes(from, "cni")
    /\ left.faults > 0 /\ Unnoticed({"br-local"})
    /\ UNCHANGED <<ovs, krn, cni>>

\* EnableOVNPortUpSupport
EnableOVNPortUpSupport ==
    /\ Upgrade("cni", "none")
    /\ cni' = IF version < OvnPortBindingTopoVersion THEN "up" ELSE cni
    /\ UNCHANGED <<ovs, krn>>

\* checkManagementPortHealth, every 30 seconds
CheckManagementPortHealth ==
    /\ pc = "up"
    /\ krn' = SetupManagementPortConfig(krn, mode)
    /\ UNCHANGED <<world, left, ovs, file, agent, cluster, topo, causes>>

-----------------------------------------------------------------------------
(***************************************************************************)
(* CleanupClusterNode, run when the daemon set is deleted.                 *)
(***************************************************************************)
\* cleanupLocalnetGateway deletes the bridge that is mapped
CleanupLocalnetGateway(o) == IF "locnet" \in o.maps THEN [o EXCEPT !.local = FALSE, !.gw0 = FALSE] ELSE o

\* cleanupSharedGateway returns early without a mapped bridge
CleanupSharedGateway(k, o) == IF "physnet" \in o.maps THEN CleanupSharedGatewayIPTChains(k) ELSE k

CleanupClusterNode(m) ==
    /\ pc = "down" /\ m \in world.modes
    /\ left.cleanups > 0 /\ left' = [left EXCEPT !.cleanups = @ - 1]
    /\ ovs' = [IF m = "disabled" THEN ovs ELSE CleanupLocalnetGateway(ovs) EXCEPT !.maps = {}]
    /\ krn' = DelMgtPortIptRules(IF m = "disabled" THEN krn ELSE CleanupSharedGateway(krn, ovs))
    /\ UNCHANGED <<world, file, agent, cluster, topo, causes>>

-----------------------------------------------------------------------------
(***************************************************************************)
(* Everybody else.                                                         *)
(***************************************************************************)
\* an error, a timeout, a fatal log or a kill, at any step
Crash ==
    /\ pc # "down"
    /\ left.crashes > 0 /\ left' = [left EXCEPT !.crashes = @ - 1]
    /\ Ends
    /\ UNCHANGED causes

FreshKernel == [address |-> "nic", mgmt |-> {}, ipt |-> {}, rule |-> FALSE,
                route |-> [d \in {"default", "cluster", "service", "masquerade"} |->
                              IF d = "default" THEN "nic" ELSE "none"]]

\* the network configuration gives the card its address; transient ports go
\* if Open vSwitch was told so
Reboot ==
    /\ left.reboots > 0 /\ left' = [left EXCEPT !.reboots = @ - 1]
    /\ krn' = FreshKernel
    /\ ovs' = [ovs EXCEPT !.nic = @ /\ ~file]
    /\ pc' = "down" /\ cni' = "none" /\ upgrade' = "none"
    /\ UNCHANGED <<world, file, mode, version, cluster, topo, causes>>

\* another program flushes a part of the management port's configuration
Loses ==
    /\ left.losses > 0 /\ left' = [left EXCEPT !.losses = @ - 1]
    /\ \/ krn' = DelIptRules(krn, MgmtRules)
       \/ krn' = [krn EXCEPT !.mgmt = {}]
       \/ krn' = LinkRoutesDel(krn, "mp0", {"cluster"})
    /\ krn' # krn
    /\ UNCHANGED <<world, ovs, file, agent, cluster, topo, causes>>

MasterAllocatesSubnet ==
    /\ ~cluster.subnet
    /\ cluster' = [cluster EXCEPT !.subnet = TRUE]
    /\ UNCHANGED <<world, left, ovs, krn, file, agent, topo, causes>>

\* the databases are upgraded before the masters that use them
DatabaseUpgrades ==
    /\ ~cluster.schema
    /\ cluster' = [cluster EXCEPT !.schema = TRUE]
    /\ UNCHANGED <<world, left, ovs, krn, file, agent, topo, causes>>

\* a master sets its node's version after it brought the topology up to date
MasterUpgrades(i) ==
    /\ cluster.schema
    /\ topo[i] # OvnCurrentTopologyVersion
    /\ topo' = [topo EXCEPT ![i] = OvnCurrentTopologyVersion]
    /\ causes' = IF cni = "legacy" /\ pc # "up" THEN causes \cup {"behind"} ELSE causes
    /\ UNCHANGED <<world, left, ovs, krn, file, agent, cluster>>

-----------------------------------------------------------------------------
Init ==
    /\ world \in Worlds
    /\ left = [crashes |-> world.crashes, reboots |-> world.reboots,
               losses |-> world.losses, cleanups |-> world.cleanups, faults |-> world.faults]
    /\ ovs = [ids |-> FALSE, bridge |-> FALSE, nic |-> FALSE, mgmt |-> FALSE,
              local |-> world.old, gw0 |-> world.old,
              maps |-> IF world.old THEN {"locnet"} ELSE {}]
    /\ krn = [FreshKernel EXCEPT !.ipt = IF world.old THEN Chains \cup LegacyShared ELSE {}]
    /\ file = FALSE
    /\ pc = "down" /\ mode = "none" /\ cni = "none" /\ upgrade = "none" /\ version = 0
    /\ topo = world.versions
    /\ cluster = [subnet |-> FALSE, annotated |-> FALSE,
                  schema |-> \E i \in DOMAIN topo : topo[i] = OvnCurrentTopologyVersion]
    /\ causes = {}

StartStep ==
    \/ \E m \in world.modes : Boot(m)
    \/ SetupOVNNode \/ NewCNIServer
    \/ CreateManagementPort \/ TearDown \/ Setup
    \/ InitGateway \/ InitGatewayDisabled \/ InitGatewayFails
    \/ BridgeExists \/ BridgeMade \/ DelAddress \/ AddAddress \/ SaveRoute
    \/ BridgedGatewayNodeSetup
    \/ AddLocalBridge \/ MapLocalBridge \/ AddLocalPort \/ NatLocalPort \/ InitLocalGateway
    \/ AddMasqueradeRoute \/ AddMasqueradeRouteFails
    \/ Annotate \/ Wait \/ NoBridge \/ DetectInitialVersion \/ ServiceRoute

UpgradeStep ==
    \/ DetectUpgradeDone \/ DelServiceRoute \/ AddServiceRoute
    \/ DelLocalBridge \/ UnmapLocalBridge \/ DelLocalBridgeFails
    \/ EnableOVNPortUpSupport

Environment ==
    \/ Crash \/ Reboot \/ Loses
    \/ \E m \in world.modes : CleanupClusterNode(m)
    \/ DatabaseUpgrades \/ \E i \in DOMAIN topo : MasterUpgrades(i)

Next == StartStep \/ UpgradeStep \/ CheckManagementPortHealth \/ MasterAllocatesSubnet \/ Environment

\* the process runs, its timers tick, and the master gives a node its subnet
Fairness ==
    /\ WF_vars(StartStep)
    /\ WF_vars(UpgradeStep)
    /\ WF_vars(CheckManagementPortHealth)
    /\ WF_vars(MasterAllocatesSubnet)

Spec == Init /\ [][Next]_vars /\ Fairness

-----------------------------------------------------------------------------
(***************************************************************************)
(* Properties.                                                             *)
(***************************************************************************)

\* A start was cut while NicToBridge moved the address, or a reboot left the
\* card in the bridge with the address back on it: the next start takes the
\* card for a bridge's port and never moves anything.
Stranded == ovs.nic /\ ~(krn.address = "br" /\ krn.route["default"] = "br")

\* the service route that a shared start left before this local one
RouteOfOtherMode == mode = "local" /\ krn.route["service"] = "br"

\* one of the masters runs the current topology
MastersUpgraded == \E i \in DOMAIN topo : topo[i] = OvnCurrentTopologyVersion

SharedHost ==
    /\ krn.route["masquerade"] = "br"
    /\ \/ krn.route["service"] = IF upgrade = "waiting" /\ Migrates THEN "mp0" ELSE "br"
       \/ krn.route["service"] = "br" /\ MastersUpgraded
    /\ world.nodeport => LegacyShared \cap krn.ipt \subseteq causes
    /\ upgrade = "none" /\ Migrates /\ "br-local" \notin causes =>
          ~ovs.local /\ "locnet" \notin ovs.maps

LocalHost ==
    /\ ovs.local /\ ovs.gw0 /\ "locnet" \in ovs.maps
    /\ LocalGatewayNATRules \cup LocalAccessRules \subseteq krn.ipt \cup causes
    /\ world.nodeport => krn.rule /\ LegacyLocal \cap krn.ipt \subseteq causes
    /\ krn.route["service"] = "mp0" \/ RouteOfOtherMode

\* An agent that is up has the host of its gateway mode, whatever earlier
\* starts left: starts cut at any step, starts in the other mode, a cleanup, a
\* reboot, commands that failed unnoticed in them, or masters that upgraded
\* meanwhile.  Missing are only the rules whose own command failed in this
\* very process, which nothing reports (Start, initGateway, upgradeServiceRoute).
HostMatchesMode ==
    pc = "up" /\ upgrade \in {"none", "waiting"} /\ ~Stranded =>
        /\ "physnet" \in ovs.maps /\ ovs.nic
        /\ world.nodeport => /\ Chains \subseteq krn.ipt
                             /\ Jumps \subseteq krn.ipt \cup causes \/ Chains \subseteq causes
        /\ IF mode = "shared" THEN SharedHost ELSE LocalHost
        /\ upgrade = "none" /\ "behind" \notin causes /\ MastersUpgraded => cni = "up"

\* no start can complete
Blocked == Stranded \/ mode = "disabled" \/ (world.intf = "nic" /\ krn.address = "br")

\* The agent comes up again after every crash and every reboot, and what is
\* lost of the management port is put back (checkManagementPortHealth).
Started == Blocked \/ (pc = "up" /\ ManagementPortComplete(krn))
StartCompletes == []<>Started
=============================================================================
