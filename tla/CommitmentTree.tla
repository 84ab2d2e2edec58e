--------------------------- MODULE CommitmentTree ---------------------------
(***************************************************************************)
(* The Merkle tree twice: incrementally, as the pool contract keeps it     *)
(* (one filled subtree per level), and in full, as a prover rebuilds it    *)
(* from the commitments the pool's events carry.  The node hash is a free  *)
(* constructor, which is what collision freedom means.                     *)
(***************************************************************************)
EXTENDS Integers, Sequences, FiniteSets, SequencesExt

CONSTANTS
    Depth,          \* TREE_DEPTH and POOL_TREE_DEPTH
    ZeroLeaf,       \* the empty leaf, field element 0
    Commitments     \* what is inserted

ASSUME TreeAssumption ==
    /\ Depth \in Nat \ {0}
    /\ ZeroLeaf \notin Commitments

VARIABLES
    filled,         \* level |-> last left node completed there
    nextIndex,
    currentRoot,
    knownRoots,
    log             \* commitments in leaf order, as an indexer reads the events

vars == <<filled, nextIndex, currentRoot, knownRoots, log>>

Levels == 0 .. Depth - 1
Hash2(l, r) == <<l, r>>

\* zeros[0] is the empty leaf, zeros[i + 1] = H(zeros[i], zeros[i]).
Zeros[level \in 0 .. Depth] ==
    IF level = 0 THEN ZeroLeaf ELSE Hash2(Zeros[level - 1], Zeros[level - 1])

Pow2[n \in 0 .. Depth] == IF n = 0 THEN 1 ELSE 2 * Pow2[n - 1]
Capacity == Pow2[Depth]

\* The index of the node above leaf index at each level: the loops shift it.
IndexAt(index) ==
    LET idx[level \in 0 .. Depth] == IF level = 0 THEN index ELSE idx[level - 1] \div 2
    IN  idx

-----------------------------------------------------------------------------
(* The contract *)

Init ==
    /\ filled = [level \in Levels |-> Zeros[level]]
    /\ nextIndex = 0
    /\ currentRoot = Zeros[Depth]
    /\ knownRoots = {Zeros[Depth]}
    /\ log = << >>

\* Mutation: a right node overwrites the remembered left one.
M_ClimbAlwaysFills(t, idx, level) ==
    [filled |-> [t.filled EXCEPT ![level] = t.node],
     node   |-> IF idx % 2 = 0 THEN Hash2(t.node, Zeros[level]) ELSE Hash2(t.filled[level], t.node)]

\* One level of the insertion loop: a left node is remembered and paired with
\* the empty subtree, a right node is paired with the remembered left one.
Climb(t, idx, level) ==
    IF idx % 2 = 0
    THEN [filled |-> [t.filled EXCEPT ![level] = t.node], node |-> Hash2(t.node, Zeros[level])]
    ELSE [filled |-> t.filled, node |-> Hash2(t.filled[level], t.node)]

\* The loop over the levels, for the leaf cm at index.
Climbed(old, cm, index) ==
    LET t[level \in 0 .. Depth] ==
          IF level = 0 THEN [filled |-> old, node |-> cm]
          ELSE Climb(t[level - 1], IndexAt(index)[level - 1], level - 1)
    IN  t

\* Mutation: only the final root of a call is kept.
M_LastRoot(roots) == {Last(roots)}

KnownAfter(roots) == ToSet(roots)

\* insert_commitment on the stored tree t, for one commitment.
InsertCommitment(t, cm) ==
    LET top == Climbed(t.filled, cm, t.next)[Depth]
    IN  [next |-> t.next + 1, filled |-> top.filled, roots |-> Append(t.roots, top.node)]

\* The stored tree before and after each of the commitments of a call.
Inserted(cms) ==
    LET t[n \in 0 .. Len(cms)] ==
          IF n = 0 THEN [next |-> nextIndex, filled |-> filled, roots |-> << >>]
          ELSE InsertCommitment(t[n - 1], cms[n])
    IN  t

\* A deposit inserts one commitment, a transfer two; TreeFull at any of them
\* undoes them all.
Insert(cms) ==
    /\ nextIndex + Len(cms) <= Capacity
    /\ LET t == Inserted(cms)[Len(cms)]
       IN  /\ nextIndex' = t.next
           /\ filled' = t.filled
           /\ currentRoot' = Last(t.roots)
           /\ knownRoots' = knownRoots \cup KnownAfter(t.roots)
    /\ log' = log \o cms

Next ==
    \/ \E c \in Commitments : Insert(<<c>>)
    \/ \E c, d \in Commitments : Insert(<<c, d>>)

Spec == Init /\ [][Next]_vars

-----------------------------------------------------------------------------
(* The prover *)

EmptyTree == [level \in 0 .. Depth |-> << >>]

\* Mutation: a missing node is taken for an empty leaf at every level.
M_NodeAtLeafZero(nodes, level, index) ==
    IF index < Len(nodes[level]) THEN nodes[level][index + 1] ELSE ZeroLeaf

\* Nodes are stored densely from index 0; the rest of a level is empty.
NodeAt(nodes, level, index) ==
    IF index < Len(nodes[level]) THEN nodes[level][index + 1] ELSE Zeros[level]

\* Recomputes the parent of node idx of a level, extending the parents' level
\* when the parent is new.
Recompute(nodes, idx, level) ==
    LET parent == idx \div 2
        h      == Hash2(NodeAt(nodes, level, 2 * parent), NodeAt(nodes, level, 2 * parent + 1))
        above  == nodes[level + 1]
    IN  [nodes EXCEPT ![level + 1] =
            IF parent < Len(above) THEN [above EXCEPT ![parent + 1] = h] ELSE Append(above, h)]

\* The loop over the levels.
Recomputed(nodes, leaf) ==
    LET t[level \in 0 .. Depth] ==
          IF level = 0 THEN [nodes EXCEPT ![0] = Append(@, leaf)]
          ELSE Recompute(t[level - 1], IndexAt(Len(nodes[0]))[level - 1], level - 1)
    IN  t
TreeInsert(nodes, leaf) == Recomputed(nodes, leaf)[Depth]

\* The tree after each of the commitments.
Rebuilt(commitments) ==
    LET nodes[n \in 0 .. Len(commitments)] ==
          IF n = 0 THEN EmptyTree ELSE TreeInsert(nodes[n - 1], commitments[n])
    IN  nodes
RebuildTree(commitments) == Rebuilt(commitments)[Len(commitments)]

Root(nodes) == NodeAt(nodes, Depth, 0)

\* The sibling at each level, bottom up, of the leaf at a 0-based index.
Path(nodes, index) ==
    [k \in 1 .. Depth |->
        LET idx == IndexAt(index)[k - 1]
        IN  NodeAt(nodes, k - 1, IF idx % 2 = 0 THEN idx + 1 ELSE idx - 1)]

\* compute_root, in the prover and in the circuits: the k-th bit of the leaf index
\* says on which side of its k-th sibling the node is.
PathNodes(leaf, siblings, index) ==
    LET node[level \in 0 .. Depth] ==
          IF level = 0 THEN leaf
          ELSE IF IndexAt(index)[level - 1] % 2 = 0 THEN Hash2(node[level - 1], siblings[level])
                                                    ELSE Hash2(siblings[level], node[level - 1])
    IN  node
ComputeRoot(leaf, siblings, index) == PathNodes(leaf, siblings, index)[Depth]

-----------------------------------------------------------------------------
\* The textbook Merkle tree of the leaves cms, padded with empty leaves: level by
\* level, a node is the hash of the two below it.
MerkleNodes(cms) ==
    LET node[level \in 0 .. Depth] ==
          IF level = 0
          THEN [i \in Nat |-> IF i < Len(cms) THEN cms[i + 1] ELSE ZeroLeaf]
          ELSE [i \in Nat |-> Hash2(node[level - 1][2 * i], node[level - 1][2 * i + 1])]
    IN  node
MerkleRoot(cms) == MerkleNodes(cms)[Depth][0]

\* The root the contract maintains incrementally is the Merkle root of the whole
\* commitment log: filled subtrees left over from earlier insertions never leak
\* into a later root.
RootIsMerkleRoot ==
    /\ nextIndex = Len(log)
    /\ currentRoot = MerkleRoot(log)

\* Every state the tree went through has a known root of its own and nothing
\* else is known: ShieldedPool may represent a root by the leaves under it.
KnownRootsArePrefixes ==
    /\ knownRoots = {MerkleRoot(cms) : cms \in Prefixes(log)}
    /\ Cardinality(knownRoots) = Len(log) + 1

\* A prover that has read any prefix of the log, also one that ends inside a
\* transfer, rebuilds a tree whose root the contract knows and whose paths open
\* each position to the commitment inserted there and to no other.
ProverTreeAgrees ==
    \A cms \in Prefixes(log) :
       LET nodes == RebuildTree(cms)
       IN  /\ Root(nodes) \in knownRoots
           /\ \A i \in DOMAIN cms, c \in Commitments \cup {ZeroLeaf} :
                 ComputeRoot(c, Path(nodes, i - 1), i - 1) = Root(nodes) <=> c = cms[i]
=============================================================================
