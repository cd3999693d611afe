---------------------------- MODULE MCConsensus -----------------------------
(***************************************************************************)
(* Instances of Consensus for TLC: three nodes, of which n1 is the local   *)
(* one, a quorum of two votes and the default threshold of 66.67%.         *)
(***************************************************************************)
EXTENDS Consensus, TLC

CONSTANTS n1, n2, n3

Listed(n, p) == [node |-> n, power |-> p]

\* A set without the local node, and a list that names n2 twice, first with no power at all,
\* which counts as one.
MCSets == {<<Listed(n2, 2)>>, <<Listed(n2, 0), Listed(n1, 1), Listed(n3, 2), Listed(n2, 2)>>}

Symmetry == Permutations(Handler) \cup Permutations(Admin)
=============================================================================
