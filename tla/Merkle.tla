------------------------------- MODULE Merkle -------------------------------
(***************************************************************************)
(* The Merkle tree of relyo-core (merkle.rs): how a tree is laid out in    *)
(* one vector, the proof of a leaf and its verification.  Bytes are counted*)
(* in units of 32: data is a sequence of units, a hash is one unit, which  *)
(* data may hold, too.  SHA3-256 is taken as free of collisions: a hash    *)
(* stands for what was hashed, and the zero hash is the hash of nothing.   *)
(***************************************************************************)
EXTENDS Integers, Sequences, SequencesExt, FiniteSetsExt

\* [0u8; 32], which pads the leaves and is the root of the empty tree.
Zero == <<"zero">>

\* 32 bytes that are no hash.
Plain(value) == <<"plain", value>>

sha3_256(data) == <<"hash", data>>

LeafHash(data) == sha3_256(data)

\* The hash of two hashes next to each other: that of a leaf with these 64 bytes.
NodeHash(left, right) == sha3_256(<<left, right>>)

\* usize::next_power_of_two.
NextPowerOfTwo(n) == Min({p \in {2^k : k \in 0..n} : p >= n})

\* Mutant: a padding that repeats the last leaf in place of the zero hash.
PaddingLast(hashes) ==
    [i \in 1..(NextPowerOfTwo(Len(hashes)) - Len(hashes)) |-> hashes[Len(hashes)]]

\* The zero hashes pushed after the leaves.
Padding(hashes) ==
    [i \in 1..(NextPowerOfTwo(Len(hashes)) - Len(hashes)) |-> Zero]

\* The internal nodes, level by level.  Every level starts right after the one
\* below it, so that the parent of nodes 2j - 1 and 2j is pushed as node
\* padded_len + j.
BuildUp(level) ==
    LET Push(nodes, j) == Append(nodes, NodeHash(nodes[2 * j - 1], nodes[2 * j]))
    IN  FoldLeft(Push, level, [j \in 1..(Len(level) - 1) |-> j])

\* MerkleTree::from_hashes
from_hashes(hashes) ==
    [nodes |-> IF hashes = <<>> THEN <<Zero>> ELSE BuildUp(hashes \o Padding(hashes)),
     leaf_count |-> Len(hashes)]

\* MerkleTree::from_leaves
from_leaves(leaves) == from_hashes([i \in DOMAIN leaves |-> LeafHash(leaves[i])])

\* MerkleTree::root
root(tree) == Last(tree.nodes)

\* Mutant: a walk that takes the node itself for its sibling where it is a right child.
StepUpLeft(tree, at) ==
    LET even == at.index % 2 = 0
    IN  [at EXCEPT !.siblings = Append(@, tree.nodes[at.start + at.index + 1 +
                                                     (IF even THEN 1 ELSE 0)]),
                   !.directions = Append(@, even),
                   !.index = @ \div 2, !.start = @ + at.size, !.size = @ \div 2]

\* One turn of the loop of proof: index is the place in the level that starts
\* at start and holds size nodes (both counted from 0, as in the code).
StepUp(tree, at) ==
    LET even == at.index % 2 = 0
        sibling == at.index + (IF even THEN 1 ELSE -1)
    IN  [at EXCEPT !.siblings = Append(@, tree.nodes[at.start + sibling + 1]),
                   !.directions = Append(@, even),
                   !.index = @ \div 2, !.start = @ + at.size, !.size = @ \div 2]

\* The loop of proof, up to the level of the root.
RECURSIVE Climb(_, _)
Climb(tree, at) == IF at.size = 1 THEN at ELSE Climb(tree, StepUp(tree, at))

\* None past the last leaf: padding cannot be proved.
HasProof(tree, leaf_index) == leaf_index < tree.leaf_count

\* MerkleTree::proof of the leaf at leaf_index, counted from 0.
proof(tree, leaf_index) ==
    LET top == Climb(tree, [index |-> leaf_index, start |-> 0,
                            size |-> NextPowerOfTwo(tree.leaf_count),
                            siblings |-> <<>>, directions |-> <<>>])
    IN  [leaf_hash |-> tree.nodes[leaf_index + 1],
         siblings |-> top.siblings, directions |-> top.directions]

\* MerkleProof::verify
verify(p, expected_root) ==
    LET Combine(current, i) ==
            IF p.directions[i] THEN NodeHash(current, p.siblings[i])
                               ELSE NodeHash(p.siblings[i], current)
    IN  FoldLeft(Combine, p.leaf_hash, [i \in 1..Len(p.siblings) |-> i]) = expected_root

-----------------------------------------------------------------------------

\* The proof of every leaf verifies against the root of its tree, and with the
\* hash of any other data in the place of the leaf it verifies no more
\* (proof and verify, whatever the number of leaves and the padding).
ProofsAreExact(leaves, Data) ==
    LET tree == from_leaves(leaves)
    IN  \A i \in {j \in 0..2 * Len(leaves) : HasProof(tree, j)} :
            \A d \in Data :
                verify([proof(tree, i) EXCEPT !.leaf_hash = LeafHash(d)], root(tree))
                    <=> d = leaves[i + 1]

\* Trees of one height, and lists in which no leaf is 64 bytes long, as two hashes
\* are: the leaves of checkpoint.rs are transaction hashes, of 32 bytes.
Comparable(leaves, other) ==
    \/ NextPowerOfTwo(Len(leaves)) = NextPowerOfTwo(Len(other))
    \/ \A leaf \in ToSet(leaves) \cup ToSet(other) : Len(leaf) # 2

\* Two comparable lists of leaves have one root only when they are the same list:
\* neither the padding nor the levels make two of them look alike (from_leaves).
\* Of other lists this is not true: leaves and nodes are hashed alike.
RootIsBinding(leaves, Lists) ==
    \A other \in Lists :
        Comparable(leaves, other) /\ root(from_leaves(other)) = root(from_leaves(leaves)) => other = leaves
=============================================================================
