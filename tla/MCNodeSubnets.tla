---------------------------- MODULE MCNodeSubnets ----------------------------
(***************************************************************************)
(* NodeSubnets with model values for the nodes and small cluster subnets.  *)
(***************************************************************************)
EXTENDS NodeSubnets, TLC

CONSTANTS n1, n2, n3

ThreeNodes == {n1, n2, n3}

\* One IPv4 range with two subnets, two IPv6 ranges with one each.
DualRanges == <<[fam |-> "v4", size |-> 2], [fam |-> "v6", size |-> 1],
                [fam |-> "v6", size |-> 1]>>
OneRange   == <<[fam |-> "v4", size |-> 2]>>

\* Single-stack and dual-stack, with conversions at a restart.
SingleOrDual == {{"v4"}, {"v4", "v6"}}
SingleStack  == {{"v4"}}

Times(i, j, k) == (n1 :> i) @@ (n2 :> j) @@ (n3 :> k)

Calm == [creates |-> Times(2, 1, 0), faults |-> 0, restarts |-> 0, lost |-> FALSE,
         deletes |-> "handled", reuse |-> "handled"]

\* One restart, or one failing call while nodes are deleted at any time, or more
\* nodes than subnets.
OneTrouble  == {[Calm EXCEPT !.restarts = 1],
                [Calm EXCEPT !.faults = 1, !.deletes = "any"],
                [Calm EXCEPT !.creates = Times(1, 1, 1)]}

\* One restart while nodes are deleted at any time.
FastDeletes == {[Calm EXCEPT !.creates = Times(1, 1, 1), !.restarts = 1, !.deletes = "any"]}

NodeSymmetry == Permutations(Nodes)

=============================================================================
