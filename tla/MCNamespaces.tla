---------------------------- MODULE MCNamespaces ----------------------------
(***************************************************************************)
(* Namespaces in two cases: a calm one with two pods and annotation        *)
(* changes, and one in which database commands fail and the node handler   *)
(* works on the host network's namespace, with one pod.                    *)
(***************************************************************************)
EXTENDS Namespaces, TLC

CONSTANTS n1, p1, p2, h1

OneNamespace == [p \in Pods |-> n1]
PodSymmetry == Permutations(Pods)

\* bound of the case with faults: the pods ever created
OnePod(phases) == Cardinality({p \in Pods : phases[p] # "none"}) <= 1

MCInit == /\ Init
          /\ IF faulty THEN nodeTodo = Nodes /\ OnePod(phase) ELSE nodeTodo = {}
MCNext == Next /\ (faulty => OnePod(phase') /\ updates' = 0)
MCSpec == MCInit /\ [][MCNext]_vars
=============================================================================
