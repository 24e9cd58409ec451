---------------------------- MODULE MCPodNetwork ----------------------------
(***************************************************************************)
(* How a node connects a pod: its interface through the CNI plugin and     *)
(* server, and its flow on the hybrid overlay's bridge. A behaviour is one *)
(* of CNI or of HybridNode; the variables of the other are not used in it. *)
(***************************************************************************)
EXTENDS Integers, Sequences, FiniteSets

CONSTANTS p1, p2, h1, r1, i1, i2, d1, d2, m1, m2, none

VARIABLES side, pod, watch, cached, gone, lsp, box, created, req, del, check,
          runningSandboxAdds, netns, ports, qos, bound, unprivileged, budget, disturbed, world,
          api, pending, up, peh, neh, sw, job, drMAC, initialized, flowCache, request, bridge,
          table20, lost

vars == <<side, pod, watch, cached, gone, lsp, box, created, req, del, check,
         runningSandboxAdds, netns, ports, qos, bound, unprivileged, budget, disturbed, world,
         api, pending, up, peh, neh, sw, job, drMAC, initialized, flowCache, request, bridge,
         table20, lost>>

\* CNI: one pod name with up to two instances.  Each world has the mode, and the
\* sandboxes, pods, rate limits, failed commands, sandboxes that die, ADDs that
\* are given up, CHECKs and restarts of the server.
CniWorld(unpriv, bo, po, lim, fa, di, ab, ch, re) ==
  [unprivileged |-> unpriv,
   budget |-> [boxes |-> bo, pod |-> po, inst |-> 0, delete |-> 1, limits |-> lim, fault |-> fa,
               die |-> di, abandon |-> ab, check |-> ch, restart |-> re]]
CniWorlds == {
  CniWorld(FALSE, 2, 2, {FALSE}, 0, 0, 0, 0, 0),     \* the pod is created again
  CniWorld(FALSE, 2, 1, {TRUE}, 1, 1, 0, 0, 0),      \* its sandbox dies, commands fail
  CniWorld(FALSE, 3, 1, {FALSE, TRUE}, 0, 1, 0, 1, 0),
  CniWorld(FALSE, 2, 1, {TRUE}, 1, 0, 0, 0, 1),
  CniWorld(FALSE, 1, 1, {FALSE}, 0, 0, 1, 0, 0),     \* an ADD outlives its DEL
  CniWorld(TRUE, 1, 1, {TRUE}, 0, 0, 1, 0, 1) }      \* unprivileged mode

\* HybridNode: two pods, a hybrid node and this node.  Each world has the pod
\* addresses, this node's annotation, whether its switch exists, whether flows were
\* left by an earlier agent, and how often pods come or end, the node or the
\* annotation changes, a command fails and the agent restarts.
HybWorld(ips, mac, switched, left, pods, ends, nodes, macs, fa, re) ==
  [ips |-> ips, mac |-> mac, sw |-> switched, left |-> left, pods |-> pods, ends |-> ends,
   nodes |-> nodes, macs |-> macs, faults |-> fa, restarts |-> re]
HybWorlds == {
  HybWorld({i1}, m1, TRUE, FALSE, 2, 1, 0, 0, 0, 0),
  HybWorld({i1}, "bare", FALSE, TRUE, 1, 0, 0, 1, 0, 1),
  HybWorld({i1}, m1, TRUE, FALSE, 1, 1, 0, 0, 1, 0),
  HybWorld({i1, i2}, m1, TRUE, TRUE, 2, 0, 0, 0, 0, 0),
  HybWorld({i1}, "bare", TRUE, FALSE, 1, 0, 0, 2, 0, 0),
  HybWorld({}, m1, TRUE, TRUE, 0, 0, 2, 0, 1, 1) }

Cni == INSTANCE CNI WITH
  Sandboxes <- {1, 2, 3}, Worlds <- CniWorlds

Hyb == INSTANCE HybridNode WITH
  Keys <- {p1, p2, r1, h1}, Pods <- {p1, p2}, Remotes <- {r1}, Me <- h1, IPs <- {i1, i2},
  Details <- {d1, d2}, MACs <- {m1, m2}, None <- none, MaxRetries <- 1, Worlds <- HybWorlds

NotCni == <<world, api, pending, up, peh, neh, sw, job, drMAC, initialized, flowCache, request,
            bridge, table20, lost>>
NotHyb == <<pod, watch, cached, gone, lsp, box, created, req, del, check, runningSandboxAdds,
            netns, ports, qos, bound, unprivileged, disturbed>>

\* what a behaviour of one side does not use
Unused == 0

Init ==
  \/ /\ side = "cni" /\ Cni!Init
     /\ world = Unused /\ api = Unused /\ pending = Unused /\ up = Unused /\ peh = Unused
     /\ neh = Unused /\ sw = Unused /\ job = Unused /\ drMAC = Unused /\ initialized = Unused
     /\ flowCache = Unused /\ request = Unused /\ bridge = Unused /\ table20 = Unused
     /\ lost = Unused
  \/ /\ side = "hybrid" /\ Hyb!Init
     /\ pod = Unused /\ watch = Unused /\ cached = Unused /\ gone = Unused /\ lsp = Unused
     /\ box = Unused /\ created = Unused /\ req = Unused /\ del = Unused /\ check = Unused
     /\ runningSandboxAdds = Unused /\ netns = Unused /\ ports = Unused /\ qos = Unused
     /\ bound = Unused /\ unprivileged = Unused /\ disturbed = Unused

Next ==
  \/ side = "cni" /\ Cni!Next /\ UNCHANGED <<side, NotCni>>
  \/ side = "hybrid" /\ Hyb!Next /\ UNCHANGED <<side, NotHyb>>

\* Fairness of each module in its own behaviours, as the modules state it.
IsCni == side = "cni"
CniVars == Cni!vars
HybVars == Hyb!vars
CniFairness ==
  /\ WF_CniVars(IsCni /\ Cni!Informer) /\ WF_CniVars(IsCni /\ Cni!CancelOldestPodAdd)
  /\ WF_CniVars(IsCni /\ Cni!MasterAdds) /\ WF_CniVars(IsCni /\ Cni!MasterDeletes)
  /\ WF_CniVars(IsCni /\ Cni!Bind) /\ WF_CniVars(IsCni /\ \E s \in {1, 2, 3} : Cni!RunPodSandbox(s))
  /\ \A s \in {1, 2, 3} :
       /\ WF_CniVars(IsCni /\ Cni!AddSteps(s)) /\ WF_CniVars(IsCni /\ Cni!TimesOut(s))
       /\ WF_CniVars(IsCni /\ Cni!CmdDel(s)) /\ WF_CniVars(IsCni /\ Cni!CmdCheck(s))
       /\ WF_CniVars(IsCni /\ Cni!RequestDel(s)) /\ WF_CniVars(IsCni /\ Cni!Forget(s))
Spec == Init /\ [][Next]_vars /\ CniFairness /\ WF_HybVars(side = "hybrid" /\ Hyb!AgentStep)

-----------------------------------------------------------------------------
\* The iface-id is at the sandbox it belongs to, with the pod's addresses and
\* rate, and a DEL leaves nothing of its sandbox (CNI!IfaceIDOfLatest,
\* NothingLeftAfterDel).
SandboxesKept == side = "cni" => Cni!IfaceIDOfLatest /\ Cni!NothingLeftAfterDel

\* A pod that stays and is annotated is connected at last (CNI!PodConnected).
PodConnected == []<>(side = "cni" => Cni!Connected)

\* The hybrid bridge ends up with the flows of the pods and of the hybrid nodes
\* (HybridNode!FlowsFollowCluster).
FlowsFollowCluster == <>[](side = "hybrid" => Hyb!FlowsMatch)
=============================================================================
