----------------------------- MODULE MCPodSetup -----------------------------
(***************************************************************************)
(* How the master sets up a pod: its namespace's address set and its       *)
(* logical port. A behaviour is one of Namespaces or of Pods; the          *)
(* variables of the other are not used in it.                              *)
(***************************************************************************)
EXTENDS Integers, Sequences, FiniteSets

CONSTANTS n1, p1, h1, i1, i2, none, alias

VARIABLES side, lister, annotated, updates, nsQueue, phase, podQueue, nodeTodo, namespaces,
          nsOf, addressSet, multicast, owner, infos, retryPods, portCache, panicked, pc, job,
          cur, listed, found, sets, uuids, group, faulty, pod, created, store, queue, lsp, switch, ipam,
          retryKey, due, todo, loopPod, th, boot, joined, faults, restarts, flags

vars == <<side, lister, annotated, updates, nsQueue, phase, podQueue, nodeTodo, namespaces,
         nsOf, addressSet, multicast, owner, infos, retryPods, portCache, panicked, pc, job,
         cur, listed, found, sets, uuids, group, faulty, pod, created, store, queue, lsp, switch, ipam,
         retryKey, due, todo, loopPod, th, boot, joined, faults, restarts, flags>>

Ns == INSTANCE Namespaces WITH
  NS <- {n1}, Pods <- {p1}, Nodes <- {h1}, NsOf <- [p \in {p1} |-> n1], HostNS <- n1,
  MaxInfos <- 1, MaxUpdates <- 0, Faults <- {FALSE}, Leftovers <- TRUE, LaggingDelete <- FALSE,
  None <- none

Port == INSTANCE Pods WITH
  Names <- {p1}, IPs <- {i1, i2}, MaxUIDs <- 1, MaxFaults <- 1, MaxRestarts <- 0, NodeLate <- TRUE,
  Reuse <- "expired", NewAtBoot <- FALSE, None <- none, Alias <- alias

NotNs == <<pod, created, store, queue, lsp, switch, ipam, retryKey, due, todo, loopPod, th,
           boot, joined, faults, restarts, flags>>
NotPort == <<lister, annotated, updates, nsQueue, phase, podQueue, nodeTodo, namespaces, nsOf,
             addressSet, multicast, owner, infos, panicked, pc, job, cur, listed, found, sets,
             uuids, group, faulty>>

\* what a behaviour of one side does not use
Unused == 0

Init ==
  \/ /\ side = "namespace" /\ Ns!Init
     /\ pod = Unused /\ created = Unused /\ store = Unused /\ queue = Unused /\ lsp = Unused
     /\ switch = Unused /\ ipam = Unused /\ retryKey = Unused /\ due = Unused /\ todo = Unused
     /\ loopPod = Unused /\ th = Unused /\ boot = Unused /\ joined = Unused /\ faults = Unused
     /\ restarts = Unused /\ flags = Unused
  \/ /\ side = "port" /\ Port!Init
     /\ lister = Unused /\ annotated = Unused /\ updates = Unused /\ nsQueue = Unused
     /\ phase = Unused /\ podQueue = Unused /\ nodeTodo = Unused /\ namespaces = Unused
     /\ nsOf = Unused /\ addressSet = Unused /\ multicast = Unused /\ owner = Unused
     /\ infos = Unused /\ panicked = Unused /\ pc = Unused /\ job = Unused /\ cur = Unused
     /\ listed = Unused /\ found = Unused /\ sets = Unused /\ uuids = Unused /\ group = Unused
     /\ faulty = Unused

Next ==
  \/ side = "namespace" /\ Ns!Next /\ UNCHANGED <<side, NotNs>>
  \/ side = "port" /\ Port!Next /\ UNCHANGED <<side, NotPort>>

\* Fairness of each module in its own behaviours, as the modules state it.
IsPort == side = "port"
NsVars   == Ns!vars
PortVars == Port!vars
Alive == side = "namespace" /\ ~panicked /\ UNCHANGED <<panicked, faulty>>
NsFairness ==
  /\ WF_NsVars(Alive /\ Ns!NSStep(n1)) /\ WF_NsVars(Alive /\ Ns!PodStep(p1))
  /\ WF_NsVars(Alive /\ Ns!NodeStep(h1)) /\ WF_NsVars(Alive /\ Ns!DestroyerStep(1))
PortFairness ==
  /\ WF_PortVars(IsPort /\ Port!Deliver(p1)) /\ WF_PortVars(IsPort /\ Port!HandlePod(p1))
  /\ WF_PortVars(IsPort /\ Port!ExpirePort(p1))
  /\ \A t \in {p1, "retry", "node"} : WF_PortVars(IsPort /\ Port!AddLogicalPort(t))
  /\ \A t \in {p1, "node"} : SF_PortVars(IsPort /\ Port!AddRetryPod(t))
  /\ WF_PortVars(IsPort /\ Port!AddRetryPod("retry"))
  /\ SF_PortVars(IsPort /\ (Port!PodUpdate(p1) \/ Port!PodDelete(p1)))
  /\ WF_PortVars(IsPort /\ Port!RetryBegin({<<p1, 1>>}))
  /\ WF_PortVars(IsPort /\ Port!RetryNext(<<p1, 1>>)) /\ WF_PortVars(IsPort /\ Port!RetryEnd)
  /\ WF_PortVars(IsPort /\ (Port!NodeAdd \/ Port!NodeList \/ Port!NodeAdded
                              \/ \E p \in todo : Port!NodeNextPod(p)))
  /\ WF_PortVars(IsPort /\ (Port!WatchNodesReturns \/ Port!SyncPods))
  /\ WF_PortVars(IsPort /\ Port!WatchPodsReturns)
Spec == Init /\ [][Next]_vars /\ NsFairness /\ PortFairness

-----------------------------------------------------------------------------
\* A pod that stays gets into its namespace's address set, and a deleted
\* namespace loses its set (Namespaces!PodReachesSet, DeletedSetIsDestroyed).
SetsFollowPods ==
  /\ <>[](side = "namespace" => Ns!Live(p1)) => <>[](side = "namespace" => Ns!InSet(p1))
  /\ <>[](side = "namespace" => ~lister[n1]) => <>[](side = "namespace" => sets[n1] = none)

\* A scheduled pod gets an annotation and a logical port (Pods!EventuallyPlugged).
EventuallyPlugged == []<>(side = "port" => Port!AllPlugged)
=============================================================================
