------------------------------- MODULE Config -------------------------------
(***************************************************************************)
(* How a process gets its configuration (pkg/config) and the node agent    *)
(* its connection to the southbound database: options from the service     *)
(* account, the environment, the config file and the command line are laid *)
(* over the defaults group by group and validated in the order of          *)
(* initConfigWithPath, then SetDBAuth writes certificates and address into *)
(* OVS, command by command.  A process that is refused, fails or dies is   *)
(* started again, perhaps with another configuration, and finds in OVS     *)
(* what the last one left.                                                 *)
(*                                                                         *)
(* Options are the ones that some check or some other option depends on,   *)
(* and one plain one per group.  A network is [fam, base, mask], in a      *)
(* family of Width[fam] address bits; an entry of the cluster subnets also *)
(* has a host subnet length, 0 when left out, and "bad" is a malformed     *)
(* one.  No caller of InitConfig asks for options kept in OVS.             *)
(***************************************************************************)
EXTENDS Integers, Sequences, FiniteSets

CONSTANTS Saved,     \* the defaults (savedDefault, savedKubernetes...)
          Width,     \* the bits of an address
          HostLen,   \* the host subnet length when none is given
          Worlds     \* configurations, failing commands and crashes

VARIABLES world,     \* what is asked for now and later, and the faults left
          pc,
          conf,      \* the global configuration
          subnets,   \* configSubnets: every network, with what it is for
          auth,      \* OvnNorth and OvnSouth
          ovs        \* the Open_vSwitch row: SSL and external_ids:ovn-remote

vars == <<world, pc, conf, subnets, auth, ovs>>

asked  == world.asked
DBs    == {"nb", "sb"}
NoAuth == [address |-> <<>>, privkey |-> "", cert |-> "", ca |-> "", cn |-> "", scheme |-> "unix"]
NoSSL  == <<>>

-----------------------------------------------------------------------------
\* The pieces of the configuration.

\* Mutant: a source that does not name an option gives its default.
OverrideAlways(dst, src, group) ==
  [o \in DOMAIN dst |-> IF o \notin group THEN dst[o] ELSE IF o \in DOMAIN src THEN src[o] ELSE Saved[o]]

\* The fields of a group that are not what the defaults have.
overrideFields(dst, src, group) ==
  [o \in DOMAIN dst |-> IF o \in group /\ o \in DOMAIN src /\ src[o] # Saved[o] THEN src[o] ELSE dst[o]]

\* The command line; one flag has a default that is not the configuration's.
CLI == [o \in DOMAIN asked.cli \cup {"cnilogfile"} |->
          IF o \in DOMAIN asked.cli THEN asked.cli[o] ELSE "/var/log/cni"]

FileAndCLI(dst, group) == overrideFields(overrideFields(dst, asked.file, group), CLI, group)

HostSubnetLength(e) == IF e.host = 0 THEN HostLen[e.fam] ELSE e.host

\* Entries that ParseClusterSubnetEntries takes.
ParseClusterSubnetEntries(es) ==
  \A i \in DOMAIN es : /\ es[i].fam # "bad"
                       /\ es[i].fam = "v6" => HostSubnetLength(es[i]) = HostLen["v6"]
                       /\ HostSubnetLength(es[i]) > es[i].mask

Net(e) == [fam |-> e.fam, base |-> e.base, mask |-> e.mask]
Nets(use, es) == [i \in DOMAIN es |-> [use |-> use, net |-> Net(es[i])]]

\* net.IPNet.Contains; the network's own address is the first one.
Contains(n, fam, address) ==
  n.fam = fam /\ address \in n.base .. (n.base + 2 ^ (Width[n.fam] - n.mask) - 1)

checkForOverlaps ==
  \A i \in DOMAIN subnets : \A j \in 1 .. (i - 1) :
    LET si == subnets[i].net
        sj == subnets[j].net
    IN  ~ Contains(si, sj.fam, sj.base) /\ ~ Contains(sj, si.fam, si.base)

\* The uses that have a network of a family; join subnets have both always.
Uses(fam) == {subnets[i].use : i \in {k \in DOMAIN subnets : subnets[k].net.fam = fam}} \ {"join"}

checkIPFamilies ==
  CASE Uses("v6") = {}           -> {"v4"}
    [] Uses("v4") = {}           -> {"v6"}
    [] Uses("v4") = Uses("v6")   -> {"v4", "v6"}
    [] OTHER                     -> {}

-----------------------------------------------------------------------------
\* initConfigWithPath.

\* A group is built; an error ends the process.
Build(from, to, c, nets, ok) ==
  /\ pc = from
  /\ conf' = c
  /\ subnets' = subnets \o nets
  /\ pc' = IF ok THEN to ELSE "rejected"
  /\ UNCHANGED <<world, auth, ovs>>

\* A config file that is named has to be there, and one that is there to parse;
\* the CNI and logging options need nothing else.
readConfigFile ==
  Build("file", "default", FileAndCLI(conf, {"cnilogfile", "loglevel", "plugin"}), <<>>,
        /\ asked.path = "named" => asked.found
        /\ asked.found => asked.parses)

buildDefaultConfig ==
  LET c1 == FileAndCLI(conf, {"mtu", "cluster"})
      c2 == IF asked.clusterSubnet = <<>> THEN c1 ELSE [c1 EXCEPT !["cluster"] = asked.clusterSubnet]
  IN  Build("default", "kubernetes", c2, Nets("cluster", c2["cluster"]),
            c2["cluster"] # <<>> /\ ParseClusterSubnetEntries(c2["cluster"]))

\* Service account, environment, file, command line; then the legacy options of
\* the service networks.
buildKubernetesConfig ==
  LET c1 == overrideFields(conf, asked.sa, {"token", "cacert"})
      c2 == overrideFields(c1, asked.env, {"token", "cacert", "apiserver"})
      c3 == FileAndCLI(c2, {"token", "cacert", "apiserver", "compat", "service"})
      c4 == [c3 EXCEPT !["service"] = IF asked.serviceClusterIPRange # <<>> THEN asked.serviceClusterIPRange
                                      ELSE IF c3["compat"] # <<>> THEN c3["compat"] ELSE @]
      s  == c4["service"]
  IN  Build("kubernetes", "gateway", c4, Nets("service", s),
            /\ c4["cacert"] # "" => c4["cacert"] \in asked.files
            /\ c4["apiserver"].scheme \in {"http", "https"}
            /\ Len(s) \in 1 .. 2 /\ \A i \in DOMAIN s : s[i].fam # "bad"
            /\ Len(s) = 2 => s[1].fam # s[2].fam)

\* --gateway-mode, or else the deprecated flags.
GatewayFlag ==
  CASE asked.gatewayMode # "" -> asked.gatewayMode
    [] asked.gatewayMode = "" /\ asked.initGateways -> IF asked.gatewayLocal THEN "local" ELSE "shared"
    [] OTHER -> ""

\* The feature flags come before, and nothing depends on them.
buildGatewayConfig ==
  LET group == {"mode", "interface", "nexthop", "vlan", "join4", "join6"}
      c1 == overrideFields(FileAndCLI(conf, {"egressip"}), asked.file, group)
      c2 == overrideFields(c1, [o \in DOMAIN CLI \cup {"mode"} |-> IF o = "mode" THEN GatewayFlag ELSE CLI[o]],
                           group)
  IN  Build("gateway", "ha", c2, Nets("join", <<c2["join4"], c2["join6"]>>),
            /\ c2["mode"] \in {"", "shared", "local"}
            /\ c2["mode"] = "" => c2["interface"] = "" /\ c2["nexthop"] = ""
            /\ c2["mode"] # "shared" => c2["vlan"] = 0
            /\ c2["join4"].fam = "v4" /\ c2["join6"].fam = "v6")

buildMasterHAConfig ==
  LET c == FileAndCLI(conf, {"lease", "renew", "retry"})
  IN  Build("ha", "monitoring", c, <<>>, c["lease"] > c["renew"] /\ c["renew"] > c["retry"])

\* The collectors are taken when each is an address and a port.
buildMonitoringConfig ==
  LET c == FileAndCLI(conf, {"targets"})
  IN  Build("monitoring", "hybrid", c, <<>>, \A i \in DOMAIN c["targets"] : c["targets"][i] # "bad")

buildHybridOverlayConfig ==
  LET c == FileAndCLI(conf, {"hybrid", "hybridSubnets", "vxlan"})
  IN  Build("hybrid", "nb", c, IF c["hybrid"] THEN Nets("hybrid", c["hybridSubnets"]) ELSE <<>>,
            c["hybrid"] => ParseClusterSubnetEntries(c["hybridSubnets"]) /\ c["vxlan"] <= 65535)

\* The address decides on the certificates' defaults; file and command line
\* override them.  An address is a list of <<scheme, host>>.
Fields == {"privkey", "cert", "ca", "cn"}
AuthOf(d) ==
  LET cli  == asked.db[d].cli
      file == asked.db[d].file
      address == IF cli.address # <<>> THEN cli.address ELSE file.address
      ssl == address # <<>> /\ address[1][1] = "ssl"
      preset == [NoAuth EXCEPT !.privkey = IF ssl THEN d \o "-key" ELSE "", !.cert = IF ssl THEN d \o "-cert" ELSE "",
                               !.ca = IF ssl THEN d \o "-ca" ELSE ""]
  IN  [f \in DOMAIN NoAuth |->
         CASE f = "address" -> address
           [] f = "scheme"  -> IF address = <<>> THEN "unix" ELSE address[1][1]
           [] OTHER -> IF cli[f] # "" THEN cli[f] ELSE IF file[f] # "" THEN file[f] ELSE preset[f]]

parseAddress(a) == a[1][1] \in {"ssl", "tcp"} /\ \A i \in DOMAIN a : a[i][1] = a[1][1]

AuthIsValid(a) ==
  /\ a.address # <<>> => parseAddress(a.address)
  /\ a.scheme = "ssl" => \A f \in Fields : a[f] # ""
  /\ a.scheme # "ssl" => \A f \in Fields \ {"cn"} : a[f] = ""

buildOvnAuth(d) ==
  /\ pc = d
  /\ IF AuthIsValid(AuthOf(d))
     THEN auth' = [auth EXCEPT ![d] = AuthOf(d)] /\ pc' = (IF d = "nb" THEN "sb" ELSE "subnets")
     ELSE pc' = "rejected" /\ UNCHANGED auth
  /\ UNCHANGED <<world, conf, subnets, ovs>>

checkSubnets ==
  Build("subnets", "nodeMode", [conf EXCEPT !["families"] = checkIPFamilies], <<>>,
        checkForOverlaps /\ checkIPFamilies # {})

buildOvnKubeNodeConfig ==
  LET c == FileAndCLI(conf, {"nodeMode"})
  IN  Build("nodeMode", "accepted", c, <<>>,
            /\ c["nodeMode"] \in {"full", "smart-nic", "smart-nic-host"}
            /\ c["nodeMode"] # "full" => ~ c["hybrid"])

-----------------------------------------------------------------------------
\* OvnNode.Start: SetDBAuth for the northbound and then the southbound database.

Keys(d) == {auth[d].privkey, auth[d].cert}
Goto(l) == pc' = l /\ UNCHANGED <<world, conf, subnets, auth, ovs>>

\* On the host of a smart NIC there is no OVS.  Northbound, only files are looked at.
StartNode ==
  /\ pc = "accepted"
  /\ IF conf["nodeMode"] = "smart-nic-host" THEN Goto("up")
     ELSE IF auth["nb"].scheme = "ssl" /\ ~ (Keys("nb") \subseteq asked.files) THEN Goto("exited")
     ELSE Goto("auth")

SetDBAuth ==
  /\ pc = "auth"
  /\ CASE auth["sb"].scheme = "unix" -> Goto("up")
       [] auth["sb"].scheme = "tcp"  -> Goto("remote")
       [] auth["sb"].scheme = "ssl"  -> Goto(IF Keys("sb") \subseteq asked.files THEN "del-ssl" ELSE "exited")

\* Its commands, each of which may fail.
Command(from, to, row) ==
  /\ pc = from
  /\ \/ /\ ovs' = row /\ pc' = to
        /\ UNCHANGED world
     \/ /\ world.faults > 0
        /\ world' = [world EXCEPT !.faults = @ - 1]
        /\ pc' = "exited" /\ UNCHANGED ovs
  /\ UNCHANGED <<conf, subnets, auth>>

delSSL == Command("del-ssl", "set-ssl", [ovs EXCEPT !.ssl = NoSSL])
setSSL == Command("set-ssl", "remote",
                  [ovs EXCEPT !.ssl = <<auth["sb"].privkey, auth["sb"].cert, auth["sb"].ca>>])
setOVSExternalID == Command("remote", "up", [ovs EXCEPT !.remote = auth["sb"].address])

-----------------------------------------------------------------------------
\* The process ends and is started again, with what is asked for then.

Fresh ==
  /\ conf' = Saved /\ subnets' = <<>> /\ auth' = [d \in DBs |-> NoAuth]
  /\ pc' = "file"

Restart ==
  /\ pc \in {"rejected", "exited"}
  /\ Fresh /\ UNCHANGED <<world, ovs>>

Crash ==
  /\ world.crashes > 0 /\ pc # "file"
  /\ world' = [world EXCEPT !.crashes = @ - 1]
  /\ Fresh /\ UNCHANGED ovs

Reconfigure ==
  /\ world.later # <<>> /\ pc \in {"up", "rejected", "exited"}
  /\ world' = [world EXCEPT !.asked = Head(world.later), !.later = Tail(@)]
  /\ Fresh /\ UNCHANGED ovs

Init ==
  /\ world \in Worlds
  /\ pc = "file" /\ conf = Saved /\ subnets = <<>> /\ auth = [d \in DBs |-> NoAuth]
  /\ ovs = [ssl |-> NoSSL, remote |-> <<>>]

Process ==
  \/ readConfigFile \/ buildDefaultConfig \/ buildKubernetesConfig \/ buildGatewayConfig
  \/ buildMasterHAConfig \/ buildMonitoringConfig \/ buildHybridOverlayConfig
  \/ (\E d \in DBs : buildOvnAuth(d)) \/ checkSubnets \/ buildOvnKubeNodeConfig
  \/ StartNode \/ SetDBAuth \/ delSSL \/ setSSL \/ setOVSExternalID

Next == Process \/ Restart \/ Crash \/ Reconfigure

\* The process runs, and is started again by its supervisor.
Fairness == WF_vars(Process) /\ WF_vars(Restart)
Spec == Init /\ [][Next]_vars /\ Fairness

-----------------------------------------------------------------------------
\* Properties.

Accepted == pc \in {"accepted", "auth", "del-ssl", "set-ssl", "remote", "up"}
Addresses(n) == {<<n.fam, x>> : x \in n.base .. (n.base + 2 ^ (Width[n.fam] - n.mask) - 1)}
FamiliesOf(es) == {es[i].fam : i \in DOMAIN es}

\* What an option should be: the best source that says something else than the
\* default.  (The CNI's log file is not of them: its flag always does.)
Ranked == <<asked.sa, asked.env, asked.file, asked.cli>>
Saying(o) == {i \in 1 .. 4 : o \in DOMAIN Ranked[i] /\ Ranked[i][o] # Saved[o]}
Best(o) == IF Saying(o) = {} THEN Saved[o]
           ELSE Ranked[CHOOSE i \in Saying(o) : \A j \in Saying(o) : j <= i][o]
Ordinary == {"mtu", "loglevel", "plugin", "token", "cacert", "apiserver", "interface", "nexthop", "vlan",
             "lease", "renew", "retry", "hybrid", "hybridSubnets", "nodeMode", "egressip", "targets", "join4", "join6"}

\* A configuration that was accepted is the one asked for, option by option, no
\* address belongs to two of its networks, and pods and services have the same
\* IP families, which are the ones in use.
AcceptedIsCoherent ==
  Accepted =>
    /\ \A o \in Ordinary : conf[o] = Best(o)
    /\ \A i, j \in DOMAIN subnets :
         i # j => Addresses(subnets[i].net) \cap Addresses(subnets[j].net) = {}
    /\ FamiliesOf(conf["cluster"]) = conf["families"] /\ FamiliesOf(conf["service"]) = conf["families"]
    /\ conf["hybrid"] => FamiliesOf(conf["hybridSubnets"]) \in {{}, conf["families"]}

\* An agent that is up has told ovn-controller where its database is and which
\* certificates to use, whatever an earlier start has left half done.
UpIsConnected ==
  pc = "up" /\ conf["nodeMode"] # "smart-nic-host" /\ auth["sb"].scheme # "unix" =>
    /\ ovs.remote = auth["sb"].address
    /\ auth["sb"].scheme = "ssl" => ovs.ssl = <<auth["sb"].privkey, auth["sb"].cert, auth["sb"].ca>>

\* A start ends: up, or refused, or for want of a key file.
KeysMissing(d) == AuthOf(d).scheme = "ssl" /\ ~ ({AuthOf(d).privkey, AuthOf(d).cert} \subseteq asked.files)
Decided == pc \in {"up", "rejected"} \/ \E d \in DBs : KeysMissing(d)

\* All three.
ConfigTakesHold == [](AcceptedIsCoherent /\ UpIsConnected) /\ []<>Decided
=============================================================================
