------------------------------- MODULE MCPods -------------------------------
(***************************************************************************)
(* Pods in three cases: up to four pods with three names while the master  *)
(* runs and no call fails, so that a name is used again; up to two pods    *)
(* with a restart of the master; and up to two pods with failing calls,    *)
(* the second of which may have the name of the first at any time.         *)
(***************************************************************************)
EXTENDS Pods, TLC, FiniteSetsExt

CONSTANTS n1, n2, n3, a1, a2

VARIABLE case

\* Names and addresses are only compared for equality.
PodSymmetry == Permutations(Names) \cup Permutations(IPs)

Recover == INSTANCE Pods WITH MaxUIDs <- 1, MaxRestarts <- 1
Disturb == INSTANCE Pods WITH MaxFaults <- 2, Reuse <- "any"

\* bound: the pods created in a behaviour, by their names
AtMost(k, counts) == MapThenSumSet(LAMBDA n : counts[n], Names) <= k

MCInit == \/ case = "calm" /\ Init
          \/ case = "restart" /\ Recover!Init
          \/ case = "disturbed" /\ Disturb!Init
MCNext == /\ \/ case = "calm" /\ Next /\ AtMost(4, created')
             \/ case = "restart" /\ Recover!Next /\ AtMost(2, created')
             \/ case = "disturbed" /\ Disturb!Next /\ AtMost(2, created')
          /\ UNCHANGED case
MCSpec == MCInit /\ [][MCNext]_<<vars, case>>

=============================================================================
