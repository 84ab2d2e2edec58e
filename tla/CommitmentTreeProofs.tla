------------------------- MODULE CommitmentTreeProofs -------------------------
(***************************************************************************)
(* The commitment tree, for any depth and any commitments: the root that   *)
(* the contract keeps incrementally is the Merkle root of all commitments, *)
(* a root commits to the leaves under it, and the tree a prover rebuilds   *)
(* from any prefix of the log opens exactly what was inserted.             *)
(***************************************************************************)
EXTENDS CommitmentTree, SequenceTheorems, FiniteSetTheorems, WellFoundedInduction, TLAPS

-----------------------------------------------------------------------------
(* Induction, over a set of numbers *)

LEMMA LeastNatural ==
    ASSUME NEW T, T \subseteq Nat, T # {}
    PROVE  \E m \in T : \A n \in T : m <= n
  <1> DEFINE R == OpToRel(<, Nat)
  <1>1. IsWellFoundedOn(R, Nat)
    BY NatLessThanWellFounded, Zenon
  <1>2. \A x, y \in Nat : x < y => <<x, y>> \in R
    BY Zenon DEF OpToRel
  <1> HIDE DEF R
  <1>3. PICK m \in T : \A n \in T : <<n, m>> \notin R
    BY <1>1, WFMin
  <1>4. \A n \in T : n \in Nat /\ m \in Nat /\ ~(n < m)
    BY <1>2, <1>3
  <1>5. \A n \in T : m <= n
    BY <1>4
  <1> QED BY <1>5

\* What holds of 0 and passes from each number below N to the next.
LEMMA Induction ==
    ASSUME NEW N \in Nat, NEW T, 0 \in T, \A n \in 0 .. N - 1 : n \in T => n + 1 \in T
    PROVE  0 .. N \subseteq T
  <1> SUFFICES ASSUME (0 .. N) \ T # {} PROVE FALSE
    OBVIOUS
  <1> DEFINE U == (0 .. N) \ T
  <1>1. PICK m \in U : \A n \in U : m <= n
    <2>1. U \subseteq Nat /\ U # {}
      OBVIOUS
    <2> HIDE DEF U
    <2> QED BY <2>1, LeastNatural
  <1>2. m - 1 \in 0 .. N - 1 /\ m - 1 \in 0 .. N /\ ~(m <= m - 1)
    BY <1>1
  <1>3. m - 1 \in T
    BY <1>1, <1>2
  <1> QED BY <1>1, <1>2, <1>3

-----------------------------------------------------------------------------
(* The recursive functions are defined: a function that satisfies the        *)
(* equation up to some argument extends to the next one.                     *)

LEMMA ZerosDef ==
    /\ Zeros[0] = ZeroLeaf
    /\ \A k \in 0 .. Depth - 1 : Zeros[k + 1] = Hash2(Zeros[k], Zeros[k])
  <1> DEFINE IsRec(f, n) == f = [level \in 0 .. n |-> IF level = 0 THEN ZeroLeaf
                                                      ELSE Hash2(f[level - 1], f[level - 1])]
             T == {n \in Nat : \E f : IsRec(f, n)}
  <1>1. 0 \in T
    <2>1. IsRec([level \in 0 .. 0 |-> ZeroLeaf], 0)
      OBVIOUS
    <2> QED BY <2>1
  <1>2. ASSUME NEW n \in 0 .. Depth - 1, n \in T PROVE n + 1 \in T
    <2>1. PICK f : IsRec(f, n)
      BY <1>2
    <2> DEFINE g == [level \in 0 .. n + 1 |-> IF level = n + 1 THEN Hash2(f[n], f[n]) ELSE f[level]]
    <2>2. IsRec(g, n + 1)
      BY <2>1
    <2> HIDE DEF g, IsRec
    <2> QED BY <2>2
  <1>3. Depth \in T
    <2> HIDE DEF T
    <2> QED BY <1>1, <1>2, Induction, TreeAssumption
  <1>4. IsRec(Zeros, Depth)
    BY <1>3 DEF Zeros
  <1> QED BY <1>4, TreeAssumption

LEMMA Pow2Def ==
    /\ Pow2[0] = 1
    /\ \A k \in 0 .. Depth - 1 : Pow2[k + 1] = 2 * Pow2[k]
    /\ \A k \in 0 .. Depth : Pow2[k] \in Nat \ {0}
  <1> DEFINE IsRec(f, n) == f = [k \in 0 .. n |-> IF k = 0 THEN 1 ELSE 2 * f[k - 1]]
             T == {n \in Nat : \E f : IsRec(f, n)}
  <1>1. 0 \in T
    <2>1. IsRec([k \in 0 .. 0 |-> 1], 0)
      OBVIOUS
    <2> QED BY <2>1
  <1>2. ASSUME NEW n \in 0 .. Depth - 1, n \in T PROVE n + 1 \in T
    <2>1. PICK f : IsRec(f, n)
      BY <1>2
    <2> DEFINE g == [k \in 0 .. n + 1 |-> IF k = n + 1 THEN 2 * f[n] ELSE f[k]]
    <2>2. IsRec(g, n + 1)
      BY <2>1
    <2> HIDE DEF g, IsRec
    <2> QED BY <2>2
  <1>3. Depth \in T
    <2> HIDE DEF T
    <2> QED BY <1>1, <1>2, Induction, TreeAssumption
  <1>4. IsRec(Pow2, Depth)
    BY <1>3 DEF Pow2
  <1>5. Pow2[0] = 1 /\ \A k \in 0 .. Depth - 1 : Pow2[k + 1] = 2 * Pow2[k]
    BY <1>4, TreeAssumption
  <1> DEFINE N == {k \in 0 .. Depth : Pow2[k] \in Nat \ {0}}
  <1>6. 0 .. Depth \subseteq N
    <2>1. 0 \in N
      BY <1>5, TreeAssumption
    <2>2. \A n \in 0 .. Depth - 1 : n \in N => n + 1 \in N
      BY <1>5, TreeAssumption
    <2> HIDE DEF N
    <2> QED BY <2>1, <2>2, Induction, TreeAssumption
  <1> QED BY <1>5, <1>6

LEMMA IndexAtDef ==
    ASSUME NEW index \in Nat
    PROVE  /\ IndexAt(index)[0] = index
           /\ \A k \in 0 .. Depth - 1 : IndexAt(index)[k + 1] = IndexAt(index)[k] \div 2
           /\ \A k \in 0 .. Depth : IndexAt(index)[k] \in Nat
  <1> DEFINE IsRec(f, n) == f = [level \in 0 .. n |-> IF level = 0 THEN index ELSE f[level - 1] \div 2]
             T == {n \in Nat : \E f : IsRec(f, n)}
  <1>1. 0 \in T
    <2>1. IsRec([level \in 0 .. 0 |-> index], 0)
      OBVIOUS
    <2> QED BY <2>1
  <1>2. ASSUME NEW n \in 0 .. Depth - 1, n \in T PROVE n + 1 \in T
    <2>1. PICK f : IsRec(f, n)
      BY <1>2
    <2> DEFINE g == [level \in 0 .. n + 1 |-> IF level = n + 1 THEN f[n] \div 2 ELSE f[level]]
    <2>2. IsRec(g, n + 1)
      BY <2>1
    <2> HIDE DEF g, IsRec
    <2> QED BY <2>2
  <1>3. Depth \in T
    <2> HIDE DEF T
    <2> QED BY <1>1, <1>2, Induction, TreeAssumption
  <1>4. IsRec(IndexAt(index), Depth)
    BY <1>3 DEF IndexAt
  <1>5. /\ IndexAt(index)[0] = index
        /\ \A k \in 0 .. Depth - 1 : IndexAt(index)[k + 1] = IndexAt(index)[k] \div 2
    BY <1>4, TreeAssumption
  <1> DEFINE N == {k \in 0 .. Depth : IndexAt(index)[k] \in Nat}
  <1>6. 0 .. Depth \subseteq N
    <2>1. 0 \in N
      BY <1>5, TreeAssumption
    <2>2. \A n \in 0 .. Depth - 1 : n \in N => n + 1 \in N
      BY <1>5, TreeAssumption
    <2> HIDE DEF N
    <2> QED BY <2>1, <2>2, Induction, TreeAssumption
  <1> QED BY <1>5, <1>6

LEMMA ClimbedDef ==
    ASSUME NEW old, NEW cm, NEW index
    PROVE  /\ Climbed(old, cm, index)[0].filled = old /\ Climbed(old, cm, index)[0].node = cm
           /\ \A n \in 0 .. Depth - 1 :
                 Climbed(old, cm, index)[n + 1] = Climb(Climbed(old, cm, index)[n], IndexAt(index)[n], n)
  <1> DEFINE Base == [filled |-> old, node |-> cm]
             Step(x, n) == Climb(x, IndexAt(index)[n], n)
             IsRec(f, n) == f = [k \in 0 .. n |-> IF k = 0 THEN Base ELSE Step(f[k - 1], k - 1)]
             T == {n \in Nat : \E f : IsRec(f, n)}
  <1>1. 0 \in T
    <2> HIDE DEF Base
    <2>1. IsRec([k \in 0 .. 0 |-> Base], 0)
      OBVIOUS
    <2> QED BY <2>1
  <1>2. ASSUME NEW n \in 0 .. Depth - 1, n \in T PROVE n + 1 \in T
    <2> HIDE DEF Base, Step
    <2>1. PICK f : IsRec(f, n)
      BY <1>2
    <2> DEFINE g == [k \in 0 .. n + 1 |-> IF k = n + 1 THEN Step(f[n], n) ELSE f[k]]
    <2>2. IsRec(g, n + 1)
      BY <2>1
    <2> HIDE DEF g, IsRec
    <2> QED BY <2>2
  <1>3. Depth \in T
    <2> HIDE DEF T
    <2> QED BY <1>1, <1>2, Induction, TreeAssumption
  <1>4. IsRec(Climbed(old, cm, index), Depth)
    BY <1>3 DEF Climbed
  <1>5. \A n \in 0 .. Depth - 1 : Climbed(old, cm, index)[n + 1] = Step(Climbed(old, cm, index)[n], n)
    <2> HIDE DEF Base, Step
    <2> QED BY <1>4, TreeAssumption
  <1>6. Climbed(old, cm, index)[0] = Base
    <2> HIDE DEF Base, Step
    <2> QED BY <1>4, TreeAssumption
  <1> QED BY <1>5, <1>6

LEMMA InsertedDef ==
    ASSUME NEW cms, Len(cms) \in Nat
    PROVE  /\ Inserted(cms)[0].next = nextIndex /\ Inserted(cms)[0].filled = filled
              /\ Inserted(cms)[0].roots = << >>
           /\ \A n \in 0 .. Len(cms) - 1 :
                 Inserted(cms)[n + 1] = InsertCommitment(Inserted(cms)[n], cms[n + 1])
  <1>0. PICK size \in Nat : size = Len(cms)
    OBVIOUS
  <1> DEFINE Base == [next |-> nextIndex, filled |-> filled, roots |-> << >>]
             Step(x, k) == InsertCommitment(x, cms[k])
             IsRec(f, n) == f = [k \in 0 .. n |-> IF k = 0 THEN Base ELSE Step(f[k - 1], k)]
             T == {n \in Nat : \E f : IsRec(f, n)}
  <1>1. 0 \in T
    <2> HIDE DEF Base
    <2>1. IsRec([k \in 0 .. 0 |-> Base], 0)
      OBVIOUS
    <2> QED BY <2>1
  <1>2. ASSUME NEW n \in 0 .. size - 1, n \in T PROVE n + 1 \in T
    <2> HIDE DEF Base, Step
    <2>1. PICK f : IsRec(f, n)
      BY <1>2
    <2> DEFINE g == [k \in 0 .. n + 1 |-> IF k = n + 1 THEN Step(f[n], n + 1) ELSE f[k]]
    <2>2. IsRec(g, n + 1)
      BY <2>1
    <2> HIDE DEF g, IsRec
    <2> QED BY <2>2
  <1>3. size \in T
    <2> HIDE DEF T
    <2> QED BY <1>1, <1>2, Induction, <1>0
  <1>4. IsRec(Inserted(cms), size)
    BY <1>0, <1>3 DEF Inserted
  <1>5. \A n \in 0 .. size - 1 : Inserted(cms)[n + 1] = Step(Inserted(cms)[n], n + 1)
    <2> HIDE DEF Base, Step
    <2> QED BY <1>4, <1>0
  <1>6. Inserted(cms)[0] = Base
    <2> HIDE DEF Base, Step
    <2> QED BY <1>4, <1>0
  <1>7. /\ Inserted(cms)[0].next = nextIndex /\ Inserted(cms)[0].filled = filled
        /\ Inserted(cms)[0].roots = << >>
    BY <1>6
  <1>8. \A n \in 0 .. Len(cms) - 1 :
           Inserted(cms)[n + 1] = InsertCommitment(Inserted(cms)[n], cms[n + 1])
    BY <1>0, <1>5
  <1> HIDE DEF Base, Step
  <1> QED BY <1>7, <1>8

PushLeaf(nodes, leaf) == [nodes EXCEPT ![0] = Append(@, leaf)]

LEMMA RecomputedDef ==
    ASSUME NEW nodes, NEW leaf
    PROVE  /\ Recomputed(nodes, leaf)[0] = PushLeaf(nodes, leaf)
           /\ \A n \in 0 .. Depth - 1 :
                 Recomputed(nodes, leaf)[n + 1] =
                    Recompute(Recomputed(nodes, leaf)[n], IndexAt(Len(nodes[0]))[n], n)
  <1> DEFINE Base == [nodes EXCEPT ![0] = Append(@, leaf)]
             Step(x, n) == Recompute(x, IndexAt(Len(nodes[0]))[n], n)
             IsRec(f, n) == f = [k \in 0 .. n |-> IF k = 0 THEN Base ELSE Step(f[k - 1], k - 1)]
             T == {n \in Nat : \E f : IsRec(f, n)}
  <1>1. 0 \in T
    <2> HIDE DEF Base
    <2>1. IsRec([k \in 0 .. 0 |-> Base], 0)
      OBVIOUS
    <2> QED BY <2>1
  <1>2. ASSUME NEW n \in 0 .. Depth - 1, n \in T PROVE n + 1 \in T
    <2> HIDE DEF Base, Step
    <2>1. PICK f : IsRec(f, n)
      BY <1>2
    <2> DEFINE g == [k \in 0 .. n + 1 |-> IF k = n + 1 THEN Step(f[n], n) ELSE f[k]]
    <2>2. IsRec(g, n + 1)
      BY <2>1
    <2> HIDE DEF g, IsRec
    <2> QED BY <2>2
  <1>3. Depth \in T
    <2> HIDE DEF T
    <2> QED BY <1>1, <1>2, Induction, TreeAssumption
  <1>4. IsRec(Recomputed(nodes, leaf), Depth)
    BY <1>3 DEF Recomputed
  <1>5. \A n \in 0 .. Depth - 1 : Recomputed(nodes, leaf)[n + 1] = Step(Recomputed(nodes, leaf)[n], n)
    <2> HIDE DEF Base, Step
    <2> QED BY <1>4, TreeAssumption
  <1>6. Recomputed(nodes, leaf)[0] = Base
    <2> HIDE DEF Base, Step
    <2> QED BY <1>4, TreeAssumption
  <1> QED BY <1>5, <1>6 DEF PushLeaf

LEMMA RebuiltDef ==
    ASSUME NEW cms, Len(cms) \in Nat
    PROVE  /\ Rebuilt(cms)[0] = EmptyTree
           /\ \A n \in 0 .. Len(cms) - 1 :
                 Rebuilt(cms)[n + 1] = TreeInsert(Rebuilt(cms)[n], cms[n + 1])
  <1>0. PICK size \in Nat : size = Len(cms)
    OBVIOUS
  <1> DEFINE Base == EmptyTree
             Step(x, k) == TreeInsert(x, cms[k])
             IsRec(f, n) == f = [k \in 0 .. n |-> IF k = 0 THEN Base ELSE Step(f[k - 1], k)]
             T == {n \in Nat : \E f : IsRec(f, n)}
  <1>1. 0 \in T
    <2> HIDE DEF Base
    <2>1. IsRec([k \in 0 .. 0 |-> Base], 0)
      OBVIOUS
    <2> QED BY <2>1
  <1>2. ASSUME NEW n \in 0 .. size - 1, n \in T PROVE n + 1 \in T
    <2> HIDE DEF Base, Step
    <2>1. PICK f : IsRec(f, n)
      BY <1>2
    <2> DEFINE g == [k \in 0 .. n + 1 |-> IF k = n + 1 THEN Step(f[n], n + 1) ELSE f[k]]
    <2>2. IsRec(g, n + 1)
      BY <2>1
    <2> HIDE DEF g, IsRec
    <2> QED BY <2>2
  <1>3. size \in T
    <2> HIDE DEF T
    <2> QED BY <1>1, <1>2, Induction, <1>0
  <1>4. IsRec(Rebuilt(cms), size)
    BY <1>0, <1>3 DEF Rebuilt
  <1>5. \A n \in 0 .. size - 1 : Rebuilt(cms)[n + 1] = Step(Rebuilt(cms)[n], n + 1)
    <2> HIDE DEF Base, Step
    <2> QED BY <1>4, <1>0
  <1>6. Rebuilt(cms)[0] = Base
    <2> HIDE DEF Base, Step
    <2> QED BY <1>4, <1>0
  <1> QED BY <1>0, <1>5, <1>6

LEMMA PathNodesDef ==
    ASSUME NEW leaf, NEW siblings, NEW index
    PROVE  /\ PathNodes(leaf, siblings, index)[0] = leaf
           /\ \A n \in 0 .. Depth - 1 :
                 PathNodes(leaf, siblings, index)[n + 1] = IF IndexAt(index)[n] % 2 = 0
                       THEN Hash2(PathNodes(leaf, siblings, index)[n], siblings[n + 1])
                       ELSE Hash2(siblings[n + 1], PathNodes(leaf, siblings, index)[n])
  <1> DEFINE Base == leaf
             Step(x, k) == IF IndexAt(index)[k - 1] % 2 = 0
                             THEN Hash2(x, siblings[k]) ELSE Hash2(siblings[k], x)
             IsRec(f, n) == f = [k \in 0 .. n |-> IF k = 0 THEN Base ELSE Step(f[k - 1], k)]
             T == {n \in Nat : \E f : IsRec(f, n)}
  <1>1. 0 \in T
    <2> HIDE DEF Base
    <2>1. IsRec([k \in 0 .. 0 |-> Base], 0)
      OBVIOUS
    <2> QED BY <2>1
  <1>2. ASSUME NEW n \in 0 .. Depth - 1, n \in T PROVE n + 1 \in T
    <2> HIDE DEF Base, Step
    <2>1. PICK f : IsRec(f, n)
      BY <1>2
    <2> DEFINE g == [k \in 0 .. n + 1 |-> IF k = n + 1 THEN Step(f[n], n + 1) ELSE f[k]]
    <2>2. IsRec(g, n + 1)
      BY <2>1
    <2> HIDE DEF g, IsRec
    <2> QED BY <2>2
  <1>3. Depth \in T
    <2> HIDE DEF T
    <2> QED BY <1>1, <1>2, Induction, TreeAssumption
  <1>4. IsRec(PathNodes(leaf, siblings, index), Depth)
    BY <1>3 DEF PathNodes
  <1>5. \A n \in 0 .. Depth - 1 :
           PathNodes(leaf, siblings, index)[n + 1] = Step(PathNodes(leaf, siblings, index)[n], n + 1)
    <2> HIDE DEF Base, Step
    <2> QED BY <1>4, TreeAssumption
  <1>6. PathNodes(leaf, siblings, index)[0] = Base
    <2> HIDE DEF Base, Step
    <2> QED BY <1>4, TreeAssumption
  <1> QED BY <1>5, <1>6

LEMMA MerkleNodesDef ==
    ASSUME NEW cms
    PROVE  /\ MerkleNodes(cms)[0] = [i \in Nat |-> IF i < Len(cms) THEN cms[i + 1] ELSE ZeroLeaf]
           /\ \A n \in 0 .. Depth - 1 :
                 MerkleNodes(cms)[n + 1] =
                    [i \in Nat |-> Hash2(MerkleNodes(cms)[n][2 * i], MerkleNodes(cms)[n][2 * i + 1])]
  <1> DEFINE Base == [i \in Nat |-> IF i < Len(cms) THEN cms[i + 1] ELSE ZeroLeaf]
             Step(x, n) == [i \in Nat |-> Hash2(x[2 * i], x[2 * i + 1])]
             IsRec(f, n) == f = [k \in 0 .. n |-> IF k = 0 THEN Base ELSE Step(f[k - 1], k - 1)]
             T == {n \in Nat : \E f : IsRec(f, n)}
  <1>1. 0 \in T
    <2> HIDE DEF Base
    <2>1. IsRec([k \in 0 .. 0 |-> Base], 0)
      OBVIOUS
    <2> QED BY <2>1
  <1>2. ASSUME NEW n \in 0 .. Depth - 1, n \in T PROVE n + 1 \in T
    <2> HIDE DEF Base, Step
    <2>1. PICK f : IsRec(f, n)
      BY <1>2
    <2> DEFINE g == [k \in 0 .. n + 1 |-> IF k = n + 1 THEN Step(f[n], n) ELSE f[k]]
    <2>2. IsRec(g, n + 1)
      BY <2>1
    <2> HIDE DEF g, IsRec
    <2> QED BY <2>2
  <1>3. Depth \in T
    <2> HIDE DEF T
    <2> QED BY <1>1, <1>2, Induction, TreeAssumption
  <1>4. IsRec(MerkleNodes(cms), Depth)
    BY <1>3 DEF MerkleNodes
  <1>5. \A n \in 0 .. Depth - 1 : MerkleNodes(cms)[n + 1] = Step(MerkleNodes(cms)[n], n)
    <2> HIDE DEF Base, Step
    <2> QED BY <1>4, TreeAssumption
  <1>6. MerkleNodes(cms)[0] = Base
    <2> HIDE DEF Base, Step
    <2> QED BY <1>4, TreeAssumption
  <1> QED BY <1>5, <1>6
-----------------------------------------------------------------------------
(* Nodes and indices *)

NodeOf(cms, level, i) == MerkleNodes(cms)[level][i]

LEMMA NodeOfDef ==
    ASSUME NEW cms
    PROVE  /\ \A i \in Nat : NodeOf(cms, 0, i) = IF i < Len(cms) THEN cms[i + 1] ELSE ZeroLeaf
           /\ \A k \in 0 .. Depth - 1, i \in Nat :
                 NodeOf(cms, k + 1, i) = Hash2(NodeOf(cms, k, 2 * i), NodeOf(cms, k, 2 * i + 1))
           /\ MerkleRoot(cms) = NodeOf(cms, Depth, 0)
  <1>1. \A i \in Nat : NodeOf(cms, 0, i) = IF i < Len(cms) THEN cms[i + 1] ELSE ZeroLeaf
    <2>1. MerkleNodes(cms)[0] = [i \in Nat |-> IF i < Len(cms) THEN cms[i + 1] ELSE ZeroLeaf]
      BY MerkleNodesDef
    <2> QED BY <2>1 DEF NodeOf
  <1>2. ASSUME NEW k \in 0 .. Depth - 1, NEW i \in Nat
        PROVE  NodeOf(cms, k + 1, i) = Hash2(NodeOf(cms, k, 2 * i), NodeOf(cms, k, 2 * i + 1))
    <2>1. MerkleNodes(cms)[k + 1]
            = [j \in Nat |-> Hash2(MerkleNodes(cms)[k][2 * j], MerkleNodes(cms)[k][2 * j + 1])]
      BY MerkleNodesDef
    <2> QED BY <2>1 DEF NodeOf
  <1> QED BY <1>1, <1>2 DEF MerkleRoot, NodeOf

LEMMA Halves ==
    /\ \A n \in Nat : /\ n \div 2 \in Nat /\ n % 2 \in {0, 1}
                      /\ n % 2 = 0 => n = 2 * (n \div 2)
                      /\ n % 2 = 1 => n = 2 * (n \div 2) + 1
    /\ \A m, n \in Nat : m # n \div 2 => 2 * m # n /\ 2 * m + 1 # n
    /\ \A m, n \in Nat : m > n \div 2 => 2 * m > n /\ 2 * m + 1 > n
  OBVIOUS

\* To the right of a leaf's path there are only empty subtrees, if no leaf is.
LEMMA ZeroBeyond ==
    ASSUME NEW cms \in Seq(Commitments), NEW index \in Nat, Len(cms) <= index + 1
    PROVE  \A k \in 0 .. Depth, j \in Nat :
              j > IndexAt(index)[k] => NodeOf(cms, k, j) = Zeros[k]
  <1> DEFINE T == {k \in 0 .. Depth : \A j \in Nat : j > IndexAt(index)[k] => NodeOf(cms, k, j) = Zeros[k]}
  <1>1. 0 \in T
    <2>1. Len(cms) \in Nat
      BY LenProperties
    <2>2. ASSUME NEW j \in Nat, j > IndexAt(index)[0] PROVE NodeOf(cms, 0, j) = Zeros[0]
      <3>1. IndexAt(index)[0] = index
        BY IndexAtDef
      <3>2. ~(j < Len(cms))
        BY <2>1, <2>2, <3>1
      <3>3. NodeOf(cms, 0, j) = IF j < Len(cms) THEN cms[j + 1] ELSE ZeroLeaf
        BY NodeOfDef
      <3> QED BY <3>2, <3>3, ZerosDef
    <2> QED BY <2>2, TreeAssumption
  <1>2. ASSUME NEW k \in 0 .. Depth - 1, k \in T PROVE k + 1 \in T
    <2>1. k + 1 \in 0 .. Depth /\ k \in 0 .. Depth
      BY TreeAssumption
    <2>2. ASSUME NEW j \in Nat, j > IndexAt(index)[k + 1] PROVE NodeOf(cms, k + 1, j) = Zeros[k + 1]
      <3>1. IndexAt(index)[k] \in Nat /\ IndexAt(index)[k + 1] = IndexAt(index)[k] \div 2
        BY <2>1, IndexAtDef
      <3>2. 2 * j > IndexAt(index)[k] /\ 2 * j + 1 > IndexAt(index)[k] /\ 2 * j \in Nat /\ 2 * j + 1 \in Nat
        BY <3>1, <2>2, Halves
      <3>3. NodeOf(cms, k, 2 * j) = Zeros[k] /\ NodeOf(cms, k, 2 * j + 1) = Zeros[k]
        BY <3>2, <1>2
      <3> QED BY <3>3, NodeOfDef, ZerosDef
    <2> QED BY <2>1, <2>2
  <1>3. 0 .. Depth \subseteq T
    <2> HIDE DEF T
    <2> QED BY <1>1, <1>2, Induction, TreeAssumption
  <1> QED BY <1>3

LEMMA NoLeaves ==
    ASSUME NEW cms, Len(cms) = 0
    PROVE  \A k \in 0 .. Depth, j \in Nat : NodeOf(cms, k, j) = Zeros[k]
  <1> DEFINE T == {k \in 0 .. Depth : \A j \in Nat : NodeOf(cms, k, j) = Zeros[k]}
  <1>1. 0 \in T
    <2>1. ASSUME NEW j \in Nat PROVE NodeOf(cms, 0, j) = Zeros[0]
      <3>1. NodeOf(cms, 0, j) = IF j < Len(cms) THEN cms[j + 1] ELSE ZeroLeaf
        BY NodeOfDef
      <3> QED BY <3>1, ZerosDef
    <2> QED BY <2>1, TreeAssumption
  <1>2. ASSUME NEW k \in 0 .. Depth - 1, k \in T PROVE k + 1 \in T
    <2>1. ASSUME NEW j \in Nat PROVE NodeOf(cms, k + 1, j) = Zeros[k + 1]
      <3>1. NodeOf(cms, k + 1, j) = Hash2(NodeOf(cms, k, 2 * j), NodeOf(cms, k, 2 * j + 1))
        BY NodeOfDef
      <3>2. NodeOf(cms, k, 2 * j) = Zeros[k] /\ NodeOf(cms, k, 2 * j + 1) = Zeros[k]
        <4>1. 2 * j \in Nat /\ 2 * j + 1 \in Nat
          OBVIOUS
        <4> QED BY <4>1, <1>2
      <3>3. Zeros[k + 1] = Hash2(Zeros[k], Zeros[k])
        BY ZerosDef
      <3> QED BY <3>1, <3>2, <3>3
    <2> QED BY <2>1, TreeAssumption
  <1>3. 0 .. Depth \subseteq T
    <2> HIDE DEF T
    <2> QED BY <1>1, <1>2, Induction, TreeAssumption
  <1> QED BY <1>3

LEMMA IndexOfZero == \A k \in 0 .. Depth : IndexAt(0)[k] = 0
  <1> DEFINE T == {k \in 0 .. Depth : IndexAt(0)[k] = 0}
  <1>1. 0 \in T /\ \A k \in 0 .. Depth - 1 : k \in T => k + 1 \in T
    BY IndexAtDef, TreeAssumption
  <1> HIDE DEF T
  <1>2. 0 .. Depth \subseteq T
    BY <1>1, Induction, TreeAssumption
  <1> QED BY <1>2 DEF T

\* The next leaf's path runs at most one node further to the right.
LEMMA NextIndexAt ==
    ASSUME NEW index \in Nat
    PROVE  \A k \in 0 .. Depth :
              IndexAt(index + 1)[k] \in {IndexAt(index)[k], IndexAt(index)[k] + 1}
  <1> DEFINE T == {k \in 0 .. Depth :
                      IndexAt(index + 1)[k] \in {IndexAt(index)[k], IndexAt(index)[k] + 1}}
  <1>1. 0 \in T
    BY IndexAtDef, TreeAssumption
  <1>2. ASSUME NEW k \in 0 .. Depth - 1, k \in T PROVE k + 1 \in T
    <2> DEFINE a == IndexAt(index)[k]
               b == IndexAt(index + 1)[k]
    <2>1. k + 1 \in 0 .. Depth /\ k \in 0 .. Depth
      BY TreeAssumption
    <2>2. /\ a \in Nat /\ b \in Nat
          /\ IndexAt(index)[k + 1] = a \div 2 /\ IndexAt(index + 1)[k + 1] = b \div 2
      BY <2>1, IndexAtDef
    <2>3. b \in {a, a + 1}
      BY <1>2
    <2>4. b \div 2 \in {a \div 2, a \div 2 + 1}
      <3> HIDE DEF a, b
      <3> QED BY <2>2, <2>3
    <2> QED BY <2>1, <2>2, <2>4
  <1>3. 0 .. Depth \subseteq T
    <2> HIDE DEF T
    <2> QED BY <1>1, <1>2, Induction, TreeAssumption
  <1> QED BY <1>3

\* Every path of the tree ends in the one node at the top.
LEMMA IndexBound ==
    ASSUME NEW index \in Nat, index < Capacity
    PROVE  /\ \A k \in 0 .. Depth : IndexAt(index)[k] < Pow2[Depth - k]
           /\ IndexAt(index)[Depth] = 0
  <1> DEFINE T == {k \in 0 .. Depth : IndexAt(index)[k] < Pow2[Depth - k]}
  <1>1. 0 \in T
    BY IndexAtDef, TreeAssumption DEF Capacity
  <1>2. ASSUME NEW k \in 0 .. Depth - 1, k \in T PROVE k + 1 \in T
    <2> DEFINE m == Depth - (k + 1)
               a == IndexAt(index)[k]
    <2>1. /\ k + 1 \in 0 .. Depth /\ k \in 0 .. Depth
          /\ m \in 0 .. Depth - 1 /\ m \in 0 .. Depth /\ m + 1 = Depth - k
      BY TreeAssumption
    <2>2. a \in Nat /\ IndexAt(index)[k + 1] = a \div 2
      BY <2>1, IndexAtDef
    <2>3. a < Pow2[m + 1]
      BY <1>2, <2>1
    <2>4. Pow2[m + 1] = 2 * Pow2[m] /\ Pow2[m] \in Nat
      BY <2>1, Pow2Def
    <2>5. a \div 2 < Pow2[m]
      <3> HIDE DEF a, m
      <3> QED BY <2>2, <2>3, <2>4
    <2> QED BY <2>1, <2>2, <2>5
  <1>3. 0 .. Depth \subseteq T
    <2> HIDE DEF T
    <2> QED BY <1>1, <1>2, Induction, TreeAssumption
  <1>4. IndexAt(index)[Depth] \in Nat /\ IndexAt(index)[Depth] < 1
    <2>1. Depth \in 0 .. Depth /\ Depth - Depth = 0
      BY TreeAssumption
    <2> QED BY <2>1, <1>3, IndexAtDef, Pow2Def
  <1> QED BY <1>3, <1>4

\* One more leaf changes no node off its path.
LEMMA OnlyPathChanges ==
    ASSUME NEW cms \in Seq(Commitments), NEW cm \in Commitments
    PROVE  \A k \in 0 .. Depth, j \in Nat :
              j # IndexAt(Len(cms))[k] => NodeOf(Append(cms, cm), k, j) = NodeOf(cms, k, j)
  <1> DEFINE new == Append(cms, cm)
             i == Len(cms)
             T == {k \in 0 .. Depth :
                      \A j \in Nat : j # IndexAt(i)[k] => NodeOf(new, k, j) = NodeOf(cms, k, j)}
  <1>1. i \in Nat /\ Len(new) = i + 1 /\ \A n \in 1 .. i : new[n] = cms[n]
    BY LenProperties, AppendProperties
  <1>2. 0 \in T
    <2>1. ASSUME NEW j \in Nat, j # IndexAt(i)[0] PROVE NodeOf(new, 0, j) = NodeOf(cms, 0, j)
      <3>1. j # i /\ j + 1 \in Nat
        BY <1>1, <2>1, IndexAtDef
      <3>2. /\ NodeOf(cms, 0, j) = IF j < Len(cms) THEN cms[j + 1] ELSE ZeroLeaf
            /\ NodeOf(new, 0, j) = IF j < Len(new) THEN new[j + 1] ELSE ZeroLeaf
        BY NodeOfDef, Zenon
      <3>3. CASE j < i
        <4>1. j + 1 \in 1 .. i /\ j < Len(new)
          BY <1>1, <3>3
        <4> HIDE DEF new
        <4> QED BY <1>1, <3>2, <3>3, <4>1
      <3>4. CASE j > i
        <4>1. ~(j < i) /\ ~(j < Len(new))
          BY <1>1, <3>4
        <4> HIDE DEF new
        <4> QED BY <3>2, <4>1
      <3> QED BY <1>1, <3>1, <3>3, <3>4
    <2> QED BY <2>1, TreeAssumption
  <1>3. ASSUME NEW k \in 0 .. Depth - 1, k \in T PROVE k + 1 \in T
    <2>1. k + 1 \in 0 .. Depth /\ k \in 0 .. Depth
      BY TreeAssumption
    <2>2. ASSUME NEW j \in Nat, j # IndexAt(i)[k + 1]
          PROVE  NodeOf(new, k + 1, j) = NodeOf(cms, k + 1, j)
      <3>1. IndexAt(i)[k] \in Nat /\ IndexAt(i)[k + 1] = IndexAt(i)[k] \div 2
        BY <1>1, <2>1, IndexAtDef
      <3>2. 2 * j # IndexAt(i)[k] /\ 2 * j + 1 # IndexAt(i)[k] /\ 2 * j \in Nat /\ 2 * j + 1 \in Nat
        BY <3>1, <2>2, Halves
      <3>3. /\ NodeOf(new, k, 2 * j) = NodeOf(cms, k, 2 * j)
            /\ NodeOf(new, k, 2 * j + 1) = NodeOf(cms, k, 2 * j + 1)
        BY <3>2, <1>3
      <3> HIDE DEF new
      <3> QED BY <3>3, NodeOfDef
    <2> QED BY <2>1, <2>2
  <1>4. 0 .. Depth \subseteq T
    <2> HIDE DEF T
    <2> QED BY <1>2, <1>3, Induction, TreeAssumption
  <1> QED BY <1>4

-----------------------------------------------------------------------------
(* The contract's insertion *)

\* Where the next leaf's path goes to the right, the node on its left is
\* remembered; nothing is said of what the other levels remember.
Frontier(fill, cms) ==
    /\ DOMAIN fill = Levels
    /\ \A k \in Levels :
          IndexAt(Len(cms))[k] % 2 = 1 => fill[k] = NodeOf(cms, k, IndexAt(Len(cms))[k] - 1)

\* After some levels of the loop the node is the Merkle node on the new leaf's path.
LEMMA ClimbedNodes ==
    ASSUME NEW cms \in Seq(Commitments), NEW cm \in Commitments, NEW old, Frontier(old, cms)
    PROVE  \A k \in 0 .. Depth :
              LET t == Climbed(old, cm, Len(cms))[k]
                  idx == IndexAt(Len(cms))
              IN  /\ t.node = NodeOf(Append(cms, cm), k, idx[k])
                  /\ DOMAIN t.filled = Levels
                  /\ \A j \in Levels : t.filled[j] = IF j < k /\ idx[j] % 2 = 0
                                                     THEN NodeOf(Append(cms, cm), j, idx[j])
                                                     ELSE old[j]
  <1> DEFINE new == Append(cms, cm)
             i == Len(cms)
             idx == IndexAt(i)
             t == Climbed(old, cm, i)
             Good(k) == /\ t[k].node = NodeOf(new, k, idx[k])
                        /\ DOMAIN t[k].filled = Levels
                        /\ \A j \in Levels : t[k].filled[j] = IF j < k /\ idx[j] % 2 = 0
                                                              THEN NodeOf(new, j, idx[j])
                                                              ELSE old[j]
             T == {k \in 0 .. Depth : Good(k)}
  <1>1. /\ i \in Nat /\ Len(new) = i + 1 /\ new[i + 1] = cm
        /\ new \in Seq(Commitments) /\ Len(new) <= i + 1
    BY LenProperties, AppendProperties
  <1>2. idx[0] = i /\ \A k \in 0 .. Depth : idx[k] \in Nat
    BY <1>1, IndexAtDef
  <1>3. 0 \in T
    <2>1. t[0].node = cm /\ t[0].filled = old
      BY ClimbedDef
    <2>2. NodeOf(new, 0, i) = IF i < Len(new) THEN new[i + 1] ELSE ZeroLeaf
      BY <1>1, NodeOfDef, Zenon
    <2>3. NodeOf(new, 0, i) = cm
      <3> HIDE DEF new
      <3> QED BY <1>1, <2>2
    <2>4. \A j \in Levels : ~(j < 0)
      BY TreeAssumption DEF Levels
    <2> HIDE DEF t, new, idx
    <2> QED BY <1>2, <2>1, <2>3, <2>4, TreeAssumption DEF Frontier
  <1>4. ASSUME NEW k \in 0 .. Depth - 1, k \in T PROVE k + 1 \in T
    <2>1. k + 1 \in 0 .. Depth /\ k \in 0 .. Depth /\ k \in Levels
      BY TreeAssumption DEF Levels
    <2>2. t[k + 1] = Climb(t[k], idx[k], k)
      BY ClimbedDef
    <2>3. idx[k] \in Nat /\ idx[k + 1] = idx[k] \div 2
      BY <1>1, <2>1, IndexAtDef
    <2>4. NodeOf(new, k + 1, idx[k + 1])
            = Hash2(NodeOf(new, k, 2 * idx[k + 1]), NodeOf(new, k, 2 * idx[k + 1] + 1))
      BY <2>1, <1>2, NodeOfDef
    <2> HIDE DEF t, new, idx
    <2>5. Good(k)
      BY <1>4
    <2>6. CASE idx[k] % 2 = 0
      <3>1. 2 * idx[k + 1] = idx[k]
        BY <2>3, <2>6, Halves
      <3>2. NodeOf(new, k, idx[k] + 1) = Zeros[k]
        BY <1>1, <2>1, <2>3, ZeroBeyond DEF idx
      <3>3. /\ t[k + 1].filled = [t[k].filled EXCEPT ![k] = t[k].node]
            /\ t[k + 1].node = Hash2(t[k].node, Zeros[k])
        BY <2>2, <2>6 DEF Climb
      <3>4. t[k + 1].node = NodeOf(new, k + 1, idx[k + 1])
        BY <2>4, <2>5, <3>1, <3>2, <3>3
      <3>5. ASSUME NEW j \in Levels
            PROVE  t[k + 1].filled[j] = IF j < k + 1 /\ idx[j] % 2 = 0
                                        THEN NodeOf(new, j, idx[j]) ELSE old[j]
        <4>1. j \in Int /\ k \in Int
          BY TreeAssumption DEF Levels
        <4>2. CASE j = k
          <5>1. t[k + 1].filled[j] = t[k].node
            BY <2>1, <2>5, <3>3, <4>2
          <5>2. j < k + 1
            BY <4>1, <4>2
          <5> QED BY <5>1, <5>2, <2>5, <2>6, <4>2
        <4>3. CASE j # k
          <5>1. t[k + 1].filled[j] = t[k].filled[j]
            BY <2>5, <3>3, <4>3
          <5>2. j < k + 1 <=> j < k
            BY <4>1, <4>3
          <5> QED BY <5>1, <5>2, <2>5
        <4> QED BY <4>2, <4>3
      <3> QED BY <2>1, <2>5, <3>3, <3>4, <3>5
    <2>7. CASE idx[k] % 2 = 1
      <3>1. 2 * idx[k + 1] = idx[k] - 1 /\ 2 * idx[k + 1] + 1 = idx[k] /\ idx[k] - 1 \in Nat
        BY <2>3, <2>7, Halves
      <3>2. NodeOf(new, k, idx[k] - 1) = NodeOf(cms, k, idx[k] - 1)
        BY <2>1, <2>3, <3>1, OnlyPathChanges DEF idx, new
      <3>3. old[k] = NodeOf(cms, k, idx[k] - 1)
        BY <2>1, <2>7 DEF Frontier, idx
      <3>4. t[k].filled[k] = old[k]
        BY <2>1, <2>5
      <3>5. /\ t[k + 1].filled = t[k].filled
            /\ t[k + 1].node = Hash2(t[k].filled[k], t[k].node)
        BY <2>2, <2>7 DEF Climb
      <3>6. t[k + 1].node = NodeOf(new, k + 1, idx[k + 1])
        BY <2>4, <2>5, <3>1, <3>2, <3>3, <3>4, <3>5
      <3>7. ASSUME NEW j \in Levels
            PROVE  (j < k + 1 /\ idx[j] % 2 = 0) <=> (j < k /\ idx[j] % 2 = 0)
        <4>1. j \in Int /\ k \in Int
          BY TreeAssumption DEF Levels
        <4>2. CASE j = k
          BY <2>7, <4>2
        <4>3. CASE j # k
          BY <4>1, <4>3
        <4> QED BY <4>2, <4>3
      <3> QED BY <2>1, <2>5, <3>5, <3>6, <3>7
    <2> QED BY <2>3, <2>6, <2>7, Halves
  <1>5. 0 .. Depth \subseteq T
    <2> HIDE DEF T
    <2> QED BY <1>3, <1>4, Induction, TreeAssumption
  <1>6. \A k \in 0 .. Depth : Good(k)
    <2> HIDE DEF Good
    <2> QED BY <1>5
  <1> QED BY <1>6

\* One insertion computes the Merkle root of the longer log and remembers what the
\* next one needs.
LEMMA InsertionIsMerkle ==
    ASSUME NEW cms \in Seq(Commitments), NEW cm \in Commitments, NEW old, Frontier(old, cms),
           Len(cms) < Capacity
    PROVE  /\ Climbed(old, cm, Len(cms))[Depth].node = MerkleRoot(Append(cms, cm))
           /\ Frontier(Climbed(old, cm, Len(cms))[Depth].filled, Append(cms, cm))
  <1> DEFINE new == Append(cms, cm)
             i == Len(cms)
             idx == IndexAt(i)
             top == Climbed(old, cm, i)[Depth]
  <1>1. i \in Nat /\ Len(new) = i + 1
    BY LenProperties, AppendProperties
  <1>2. Depth \in 0 .. Depth /\ \A k \in Levels : k \in 0 .. Depth /\ k < Depth
    BY TreeAssumption DEF Levels
  <1>3. /\ top.node = NodeOf(new, Depth, idx[Depth])
        /\ DOMAIN top.filled = Levels
        /\ \A j \in Levels : top.filled[j] = IF j < Depth /\ idx[j] % 2 = 0
                                             THEN NodeOf(new, j, idx[j]) ELSE old[j]
    BY <1>2, ClimbedNodes
  <1>4. top.node = MerkleRoot(new)
    <2>1. idx[Depth] = 0
      BY <1>1, IndexBound
    <2> HIDE DEF top, new, idx
    <2> QED BY <2>1, <1>3, NodeOfDef
  <1>5. ASSUME NEW k \in Levels, IndexAt(i + 1)[k] % 2 = 1
        PROVE  top.filled[k] = NodeOf(new, k, IndexAt(i + 1)[k] - 1)
    <2> DEFINE a == idx[k]
               b == IndexAt(i + 1)[k]
    <2>1. a \in Nat /\ b \in {a, a + 1}
      BY <1>1, <1>2, IndexAtDef, NextIndexAt
    <2>2. CASE b = a + 1
      <3>1. a % 2 = 0 /\ b - 1 = a
        <4> HIDE DEF a, b
        <4>1. b % 2 = 1
          BY <1>5 DEF b
        <4> QED BY <2>1, <2>2, <4>1
      <3>2. top.filled[k] = NodeOf(new, k, a)
        BY <1>2, <1>3, <3>1
      <3> QED BY <3>1, <3>2
    <2>3. CASE b = a
      <3>1. a % 2 = 1
        BY <1>5, <2>3
      <3>2. a - 1 \in Nat /\ a - 1 # a
        <4> HIDE DEF a
        <4> QED BY <2>1, <3>1
      <3>3. top.filled[k] = old[k]
        <4> HIDE DEF top, new
        <4> QED BY <1>3, <3>1
      <3>4. old[k] = NodeOf(cms, k, a - 1)
        BY <3>1 DEF Frontier
      <3>5. NodeOf(new, k, a - 1) = NodeOf(cms, k, a - 1)
        <4>1. k \in 0 .. Depth
          BY <1>2
        <4> QED BY <4>1, <3>2, OnlyPathChanges
      <3> QED BY <2>3, <3>3, <3>4, <3>5
    <2> QED BY <2>1, <2>2, <2>3
  <1> HIDE DEF top, new
  <1>6. Frontier(top.filled, new)
    BY <1>1, <1>3, <1>5 DEF Frontier
  <1> QED BY <1>4, <1>6 DEF top, new

-----------------------------------------------------------------------------
(* A root commits to the leaves under it *)

\* Roots over at most Capacity commitments are equal only if the commitments are.
THEOREM RootsCommitToLeaves ==
    ASSUME NEW p \in Seq(Commitments), NEW q \in Seq(Commitments),
           Len(p) <= Capacity, Len(q) <= Capacity, MerkleRoot(p) = MerkleRoot(q)
    PROVE  p = q
  <1> DEFINE Same(n) == \A j \in Nat : j < Pow2[n] => NodeOf(p, Depth - n, j) = NodeOf(q, Depth - n, j)
             T == {n \in 0 .. Depth : Same(n)}
  <1>1. 0 \in T
    <2>1. Pow2[0] = 1 /\ Depth - 0 = Depth /\ 0 \in 0 .. Depth
      BY Pow2Def, TreeAssumption
    <2>2. NodeOf(p, Depth, 0) = NodeOf(q, Depth, 0)
      BY NodeOfDef
    <2>3. \A j \in Nat : j < 1 => j = 0
      OBVIOUS
    <2> QED BY <2>1, <2>2, <2>3
  <1>2. ASSUME NEW n \in 0 .. Depth - 1, n \in T PROVE n + 1 \in T
    <2> DEFINE k == Depth - (n + 1)
    <2>1. k \in 0 .. Depth - 1 /\ k + 1 = Depth - n /\ n + 1 \in 0 .. Depth /\ n \in 0 .. Depth
      BY TreeAssumption
    <2>2. Pow2[n + 1] = 2 * Pow2[n] /\ Pow2[n] \in Nat
      BY <2>1, Pow2Def
    <2>3. ASSUME NEW j \in Nat, j < Pow2[n + 1] PROVE NodeOf(p, k, j) = NodeOf(q, k, j)
      <3> DEFINE parent == j \div 2
      <3>1. parent \in Nat /\ parent < Pow2[n]
        BY <2>2, <2>3
      <3>2. NodeOf(p, k + 1, parent) = NodeOf(q, k + 1, parent)
        BY <1>2, <2>1, <3>1
      <3>3. /\ NodeOf(p, k + 1, parent)
                 = Hash2(NodeOf(p, k, 2 * parent), NodeOf(p, k, 2 * parent + 1))
            /\ NodeOf(q, k + 1, parent)
                 = Hash2(NodeOf(q, k, 2 * parent), NodeOf(q, k, 2 * parent + 1))
        BY <2>1, <3>1, NodeOfDef
      <3>4. /\ NodeOf(p, k, 2 * parent) = NodeOf(q, k, 2 * parent)
            /\ NodeOf(p, k, 2 * parent + 1) = NodeOf(q, k, 2 * parent + 1)
        BY <3>2, <3>3 DEF Hash2
      <3>5. j = 2 * parent \/ j = 2 * parent + 1
        BY <2>3, Halves
      <3> HIDE DEF parent
      <3> QED BY <3>4, <3>5
    <2> QED BY <2>1, <2>3
  <1>3. 0 .. Depth \subseteq T
    <2> HIDE DEF T
    <2> QED BY <1>1, <1>2, Induction, TreeAssumption
  <1>4. \A j \in Nat : j < Capacity => NodeOf(p, 0, j) = NodeOf(q, 0, j)
    <2>1. Depth \in T /\ Depth - Depth = 0
      BY <1>3, TreeAssumption
    <2> QED BY <2>1 DEF Capacity
  <1>5. Capacity \in Nat /\ Len(p) \in Nat /\ Len(q) \in Nat
    BY Pow2Def, TreeAssumption, LenProperties DEF Capacity
  <1>6. /\ \A i \in 1 .. Len(p) : p[i] \in Commitments /\ p[i] # ZeroLeaf
        /\ \A i \in 1 .. Len(q) : q[i] \in Commitments /\ q[i] # ZeroLeaf
    BY ElementOfSeq, TreeAssumption
  <1>7. \A i \in Nat \ {0} : i <= Capacity =>
           (IF i <= Len(p) THEN p[i] ELSE ZeroLeaf) = (IF i <= Len(q) THEN q[i] ELSE ZeroLeaf)
    <2> SUFFICES ASSUME NEW i \in Nat \ {0}, i <= Capacity
                 PROVE  (IF i <= Len(p) THEN p[i] ELSE ZeroLeaf)
                          = (IF i <= Len(q) THEN q[i] ELSE ZeroLeaf)
      OBVIOUS
    <2> DEFINE j == i - 1
    <2>1. /\ j \in Nat /\ j < Capacity /\ j + 1 = i
          /\ j < Len(p) <=> i <= Len(p)
          /\ j < Len(q) <=> i <= Len(q)
      BY <1>5
    <2>2. /\ NodeOf(p, 0, j) = IF j < Len(p) THEN p[j + 1] ELSE ZeroLeaf
          /\ NodeOf(q, 0, j) = IF j < Len(q) THEN q[j + 1] ELSE ZeroLeaf
      BY <2>1, NodeOfDef
    <2>3. NodeOf(p, 0, j) = NodeOf(q, 0, j)
      BY <2>1, <1>4
    <2> HIDE DEF j
    <2> QED BY <2>1, <2>2, <2>3
  <1>8. Len(p) = Len(q)
    <2>1. CASE Len(p) < Len(q)
      <3>1. Len(q) \in Nat \ {0} /\ Len(q) <= Capacity /\ ~(Len(q) <= Len(p)) /\ Len(q) \in 1 .. Len(q)
        BY <1>5, <2>1
      <3> QED BY <3>1, <1>6, <1>7
    <2>2. CASE Len(q) < Len(p)
      <3>1. Len(p) \in Nat \ {0} /\ Len(p) <= Capacity /\ ~(Len(p) <= Len(q)) /\ Len(p) \in 1 .. Len(p)
        BY <1>5, <2>2
      <3> QED BY <3>1, <1>6, <1>7
    <2> QED BY <1>5, <2>1, <2>2
  <1>9. \A i \in 1 .. Len(p) : p[i] = q[i]
    <2> SUFFICES ASSUME NEW i \in 1 .. Len(p) PROVE p[i] = q[i]
      OBVIOUS
    <2>1. i \in Nat \ {0} /\ i <= Capacity /\ i <= Len(p) /\ i <= Len(q)
      BY <1>5, <1>8
    <2> QED BY <2>1, <1>7
  <1> QED BY <1>8, <1>9, SeqEqual

-----------------------------------------------------------------------------
(* The inductive invariant of the contract's tree *)

TreeInv ==
    /\ log \in Seq(Commitments)
    /\ Len(log) <= Capacity
    /\ nextIndex = Len(log)
    /\ Frontier(filled, log)
    /\ currentRoot = MerkleRoot(log)
    /\ knownRoots = {MerkleRoot(SubSeq(log, 1, n)) : n \in 0 .. Len(log)}

LEMMA Prefix ==
    ASSUME NEW S, NEW s \in Seq(S), NEW n \in 0 .. Len(s)
    PROVE  /\ SubSeq(s, 1, n) \in Seq(S)
           /\ Len(SubSeq(s, 1, n)) = n
           /\ \A i \in 1 .. n : SubSeq(s, 1, n)[i] = s[i]
           /\ n < Len(s) => SubSeq(s, 1, n + 1) = Append(SubSeq(s, 1, n), s[n + 1])
  <1>1. ASSUME NEW k \in 0 .. Len(s)
        PROVE  /\ SubSeq(s, 1, k) \in Seq(S) /\ Len(SubSeq(s, 1, k)) = k
               /\ \A i \in 1 .. k : SubSeq(s, 1, k)[i] = s[i]
    <2>1. Len(s) \in Nat /\ k \in Nat
      BY LenProperties
    <2>2. \A i \in 1 .. k : s[i] \in S
      BY <2>1, ElementOfSeq
    <2>3. /\ SubSeq(s, 1, k) \in Seq(S)
          /\ Len(SubSeq(s, 1, k)) = IF 1 <= k THEN k - 1 + 1 ELSE 0
          /\ \A i \in 1 .. k - 1 + 1 : SubSeq(s, 1, k)[i] = s[1 + i - 1]
      BY <2>1, <2>2, SubSeqProperties
    <2> QED BY <2>1, <2>3
  <1>2. ASSUME n < Len(s) PROVE SubSeq(s, 1, n + 1) = Append(SubSeq(s, 1, n), s[n + 1])
    <2> DEFINE t == SubSeq(s, 1, n)
               u == SubSeq(s, 1, n + 1)
    <2>1. n + 1 \in 0 .. Len(s) /\ n + 1 \in 1 .. Len(s) /\ Len(s) \in Nat
      BY <1>2, LenProperties
    <2>2. s[n + 1] \in S
      BY <2>1, ElementOfSeq
    <2>3. /\ t \in Seq(S) /\ Len(t) = n /\ \A i \in 1 .. n : t[i] = s[i]
          /\ u \in Seq(S) /\ Len(u) = n + 1 /\ \A i \in 1 .. n + 1 : u[i] = s[i]
      BY <1>1, <2>1
    <2> HIDE DEF t, u
    <2>4. /\ Append(t, s[n + 1]) \in Seq(S) /\ Len(Append(t, s[n + 1])) = n + 1
          /\ \A i \in 1 .. n : Append(t, s[n + 1])[i] = t[i]
          /\ Append(t, s[n + 1])[n + 1] = s[n + 1]
      BY <2>2, <2>3, AppendProperties
    <2>5. \A i \in 1 .. n + 1 : Append(t, s[n + 1])[i] = u[i]
      <3>1. \A i \in 1 .. n + 1 : i \in 1 .. n \/ i = n + 1
        BY <2>1
      <3> QED BY <2>3, <2>4, <3>1
    <2> QED BY <2>3, <2>4, <2>5, SeqEqual DEF t, u
  <1> QED BY <1>1, <1>2

\* A list given by its entries, and one more.
LEMMA Longer ==
    ASSUME NEW n \in Nat, NEW s, s = [m \in 1 .. n |-> s[m]], NEW x
    PROVE  /\ Len(s) = n
           /\ Append(s, x) = [m \in 1 .. n + 1 |-> Append(s, x)[m]]
           /\ Append(s, x)[n + 1] = x
           /\ \A m \in 1 .. n : Append(s, x)[m] = s[m]
  <1> DEFINE S == {s[m] : m \in 1 .. n} \cup {x}
  <1>1. s \in [1 .. n -> S]
    OBVIOUS
  <1>2. s \in Seq(S)
    BY <1>1, SeqDef, Zenon
  <1>3. Len(s) = n
    BY <1>1, <1>2, LenProperties
  <1>4. Append(s, x) \in Seq(S) /\ Len(Append(s, x)) = n + 1
        /\ Append(s, x)[n + 1] = x /\ \A m \in 1 .. n : Append(s, x)[m] = s[m]
    BY <1>2, <1>3, AppendProperties
  <1>5. Append(s, x) \in [1 .. n + 1 -> S]
    <2> HIDE DEF S
    <2> QED BY <1>4, LenProperties
  <1>6. Append(s, x) = [m \in 1 .. n + 1 |-> Append(s, x)[m]]
    <2> HIDE DEF S
    <2> QED BY <1>5
  <1> QED BY <1>3, <1>4, <1>6

LEMMA TreeInit == Init => TreeInv
  <1> SUFFICES ASSUME Init PROVE TreeInv
    OBVIOUS
  <1>1. << >> \in Seq(Commitments) /\ Len(<< >>) = 0 /\ Capacity \in Nat
    BY EmptySeq, Pow2Def, TreeAssumption DEF Capacity
  <1> DEFINE none == << >>
  <1> HIDE DEF none
  <1>2. none \in Seq(Commitments) /\ Len(none) = 0 /\ log = none
    BY <1>1 DEF none, Init
  <1>3. \A k \in 0 .. Depth : IndexAt(0)[k] = 0
    BY IndexOfZero
  <1>4. Frontier(filled, log)
    <2>1. DOMAIN filled = Levels
      BY DEF Init
    <2>2. \A k \in Levels : IndexAt(Len(log))[k] % 2 # 1
      BY <1>2, <1>3, TreeAssumption DEF Levels
    <2> QED BY <2>1, <2>2 DEF Frontier
  <1>5. MerkleRoot(log) = Zeros[Depth]
    <2>1. NodeOf(log, Depth, 0) = Zeros[Depth]
      BY <1>2, NoLeaves, TreeAssumption
    <2> QED BY <2>1 DEF MerkleRoot, NodeOf
  <1>6. {MerkleRoot(SubSeq(log, 1, n)) : n \in 0 .. Len(log)} = {MerkleRoot(log)}
    <2>1. SubSeq(log, 1, 0) = log
      <3>1. SubSeq(log, 1, 0) = << >>
        BY SubSeqEmpty
      <3> QED BY <3>1, <1>2 DEF none
    <2>2. 0 .. Len(log) = {0}
      BY <1>2
    <2> QED BY <2>1, <2>2
  <1> QED BY <1>1, <1>2, <1>4, <1>5, <1>6 DEF TreeInv, Init

\* What is stored after each commitment of a call.
LEMMA InsertedStates ==
    ASSUME TreeInv, NEW cms \in Seq(Commitments), Len(log) + Len(cms) <= Capacity
    PROVE  \A n \in 0 .. Len(cms) :
              LET t == Inserted(cms)[n]
              IN  /\ t.next = Len(log) + n
                  /\ Frontier(t.filled, SubSeq(log \o cms, 1, Len(log) + n))
                  /\ t.roots = [m \in 1 .. n |-> t.roots[m]]
                  /\ \A m \in 1 .. n : t.roots[m] = MerkleRoot(SubSeq(log \o cms, 1, Len(log) + m))
  <1> DEFINE all == log \o cms
             L == Len(log)
             N == Len(cms)
             t == Inserted(cms)
             Good(n) == /\ t[n].next = L + n
                        /\ Frontier(t[n].filled, SubSeq(all, 1, L + n))
                        /\ t[n].roots = [m \in 1 .. n |-> t[n].roots[m]]
                        /\ \A m \in 1 .. n : t[n].roots[m] = MerkleRoot(SubSeq(all, 1, L + m))
             T == {n \in 0 .. N : Good(n)}
  <1>1. /\ log \in Seq(Commitments) /\ L \in Nat /\ N \in Nat /\ Capacity \in Nat
        /\ all \in Seq(Commitments) /\ Len(all) = L + N
        /\ \A i \in 1 .. L : all[i] = log[i]
        /\ \A n \in 0 .. N - 1 : all[L + (n + 1)] = cms[n + 1]
    <2>1. log \in Seq(Commitments)
      BY DEF TreeInv
    <2>2. L \in Nat /\ N \in Nat /\ Capacity \in Nat
      BY <2>1, LenProperties, Pow2Def, TreeAssumption DEF Capacity
    <2>3. /\ all \in Seq(Commitments) /\ Len(all) = L + N
          /\ \A i \in 1 .. L + N : all[i] = IF i <= L THEN log[i] ELSE cms[i - L]
      BY <2>1, ConcatProperties
    <2>4. \A n \in 0 .. N - 1 : /\ L + (n + 1) \in 1 .. L + N /\ ~(L + (n + 1) <= L)
                                /\ L + (n + 1) - L = n + 1
      BY <2>2
    <2>5. \A i \in 1 .. L : i \in 1 .. L + N /\ i <= L
      BY <2>2
    <2> HIDE DEF all, L, N
    <2> QED BY <2>1, <2>2, <2>3, <2>4, <2>5
  <1>2. SubSeq(all, 1, L) = log
    <2>1. L \in 0 .. Len(all)
      BY <1>1
    <2>2. /\ SubSeq(all, 1, L) \in Seq(Commitments) /\ Len(SubSeq(all, 1, L)) = L
          /\ \A i \in 1 .. L : SubSeq(all, 1, L)[i] = all[i]
      BY <2>1, <1>1, Prefix
    <2> QED BY <2>2, <1>1, SeqEqual
  <1>3. 0 \in T
    <2>1. t[0].next = nextIndex /\ t[0].filled = filled /\ t[0].roots = << >>
      BY <1>1, InsertedDef
    <2>2. L + 0 = L
      BY <1>1
    <2>3. t[0].roots = [m \in 1 .. 0 |-> t[0].roots[m]]
      BY <2>1
    <2>4. 0 \in 0 .. N /\ \A m \in 1 .. 0 : FALSE
      BY <1>1
    <2> HIDE DEF t, all
    <2> QED BY <1>1, <1>2, <2>1, <2>2, <2>3, <2>4 DEF TreeInv
  <1>4. ASSUME NEW n \in 0 .. N - 1, n \in T PROVE n + 1 \in T
    <2> DEFINE p == SubSeq(all, 1, L + n)
               cm == cms[n + 1]
               top == Climbed(t[n].filled, cm, t[n].next)[Depth]
    <2>1. /\ L + n \in 0 .. Len(all) /\ L + n < Len(all) /\ L + (n + 1) = L + n + 1
          /\ n + 1 \in 1 .. N /\ n + 1 \in 0 .. N /\ L + n < Capacity /\ n \in Nat
      BY <1>1
    <2>2. /\ p \in Seq(Commitments) /\ Len(p) = L + n
          /\ SubSeq(all, 1, L + (n + 1)) = Append(p, all[L + (n + 1)])
      BY <1>1, <2>1, Prefix
    <2>3. all[L + (n + 1)] = cm /\ cm \in Commitments
      BY <1>1, <2>1, ElementOfSeq
    <2>4. Good(n)
      BY <1>4
    <2>5. t[n + 1] = InsertCommitment(t[n], cm)
      BY <1>1, InsertedDef
    <2> HIDE DEF t, all, p, cm, L, N
    <2>6. /\ t[n + 1].next = t[n].next + 1
          /\ t[n + 1].filled = top.filled
          /\ t[n + 1].roots = Append(t[n].roots, top.node)
      BY <2>5 DEF InsertCommitment
    <2>7. /\ top.node = MerkleRoot(Append(p, cm))
          /\ Frontier(top.filled, Append(p, cm))
      <3>1. Frontier(t[n].filled, p) /\ t[n].next = Len(p) /\ Len(p) < Capacity
        BY <2>1, <2>2, <2>4 DEF p
      <3> QED BY <3>1, <2>2, <2>3, InsertionIsMerkle
    <2>8. SubSeq(all, 1, L + (n + 1)) = Append(p, cm)
      BY <2>2, <2>3
    <2> HIDE DEF top
    <2>9. /\ t[n + 1].roots = [m \in 1 .. n + 1 |-> t[n + 1].roots[m]]
          /\ t[n + 1].roots[n + 1] = top.node
          /\ \A m \in 1 .. n : t[n + 1].roots[m] = t[n].roots[m]
      <3> DEFINE s == t[n].roots
      <3>1. s = [m \in 1 .. n |-> s[m]]
        BY <2>4
      <3> HIDE DEF s
      <3>2. /\ Append(s, top.node) = [m \in 1 .. n + 1 |-> Append(s, top.node)[m]]
            /\ Append(s, top.node)[n + 1] = top.node
            /\ \A m \in 1 .. n : Append(s, top.node)[m] = s[m]
        BY <2>1, <3>1, Longer
      <3> QED BY <3>2, <2>6 DEF s
    <2>10. \A m \in 1 .. n + 1 : t[n + 1].roots[m] = MerkleRoot(SubSeq(all, 1, L + m))
      <3> SUFFICES ASSUME NEW m \in 1 .. n + 1
                   PROVE  t[n + 1].roots[m] = MerkleRoot(SubSeq(all, 1, L + m))
        OBVIOUS
      <3>1. CASE m = n + 1
        BY <2>7, <2>8, <2>9, <3>1
      <3>2. CASE m \in 1 .. n
        BY <2>4, <2>9, <3>2
      <3> QED BY <2>1, <3>1, <3>2
    <2>11. t[n + 1].next = L + (n + 1)
      BY <1>1, <2>4, <2>6
    <2> QED BY <2>1, <2>6, <2>7, <2>8, <2>9, <2>10, <2>11
  <1>5. 0 .. N \subseteq T
    <2> HIDE DEF T
    <2> QED BY <1>1, <1>3, <1>4, Induction
  <1>6. \A n \in 0 .. N : Good(n)
    <2> HIDE DEF Good
    <2> QED BY <1>5
  <1> QED BY <1>6

\* A call with any number of commitments, up to the room left, keeps the invariant.
LEMMA InsertStep ==
    ASSUME TreeInv, NEW cms \in Seq(Commitments), Len(cms) > 0, Insert(cms)
    PROVE  TreeInv'
  <1> DEFINE all == log \o cms
             L == Len(log)
             N == Len(cms)
             t == Inserted(cms)[N]
  <1>1. /\ log \in Seq(Commitments) /\ L \in Nat /\ N \in Nat /\ N >= 1
        /\ L + N <= Capacity /\ nextIndex = L
    BY LenProperties DEF TreeInv, Insert
  <1>2. /\ all \in Seq(Commitments) /\ Len(all) = L + N
        /\ \A i \in 1 .. L + N : all[i] = IF i <= L THEN log[i] ELSE cms[i - L]
    BY <1>1, ConcatProperties
  <1>3. /\ t.next = L + N
        /\ Frontier(t.filled, SubSeq(all, 1, L + N))
        /\ t.roots = [m \in 1 .. N |-> t.roots[m]]
        /\ \A m \in 1 .. N : t.roots[m] = MerkleRoot(SubSeq(all, 1, L + m))
    BY <1>1, InsertedStates
  <1>4. SubSeq(all, 1, L + N) = all
    <2> DEFINE u == SubSeq(all, 1, L + N)
    <2>1. L + N \in 0 .. Len(all)
      BY <1>1, <1>2
    <2>2. u \in Seq(Commitments) /\ Len(u) = L + N /\ \A i \in 1 .. L + N : u[i] = all[i]
      BY <2>1, <1>2, Prefix
    <2> HIDE DEF u
    <2>3. u = all
      BY <2>2, <1>2, SeqEqual
    <2> QED BY <2>3 DEF u
  <1>5. /\ nextIndex' = t.next /\ filled' = t.filled /\ currentRoot' = Last(t.roots)
        /\ knownRoots' = knownRoots \cup KnownAfter(t.roots) /\ log' = all
    BY DEF Insert
  <1> HIDE DEF t
  <1>6. Len(t.roots) = N
    <2> DEFINE s == t.roots
    <2>1. s = [m \in 1 .. N |-> s[m]]
      BY <1>3
    <2> HIDE DEF s
    <2>2. Len(s) = N
      BY <2>1, <1>1, Longer
    <2> QED BY <2>2 DEF s
  <1>7. currentRoot' = MerkleRoot(log')
    <2>1. t.roots[N] = MerkleRoot(all)
      <3>1. N \in 1 .. N
        BY <1>1
      <3>2. t.roots[N] = MerkleRoot(SubSeq(all, 1, L + N))
        BY <1>3, <3>1
      <3> QED BY <3>2, <1>4
    <2> QED BY <2>1, <1>5, <1>6 DEF Last
  <1>8. \A n \in 0 .. L : SubSeq(all, 1, n) = SubSeq(log, 1, n)
    <2> SUFFICES ASSUME NEW n \in 0 .. L PROVE SubSeq(all, 1, n) = SubSeq(log, 1, n)
      OBVIOUS
    <2>1. n \in 0 .. Len(all) /\ n \in 0 .. Len(log)
      BY <1>1, <1>2
    <2> DEFINE a == SubSeq(all, 1, n)
               b == SubSeq(log, 1, n)
    <2>2. /\ a \in Seq(Commitments) /\ Len(a) = n /\ \A i \in 1 .. n : a[i] = all[i]
          /\ b \in Seq(Commitments) /\ Len(b) = n /\ \A i \in 1 .. n : b[i] = log[i]
      BY <2>1, <1>1, <1>2, Prefix
    <2>3. \A i \in 1 .. n : all[i] = log[i]
      <3>1. \A i \in 1 .. n : i \in 1 .. L + N /\ i <= L
        BY <1>1
      <3> QED BY <1>2, <3>1
    <2> HIDE DEF a, b, all
    <2>4. a = b
      BY <2>2, <2>3, SeqEqual
    <2> QED BY <2>4 DEF a, b
  <1>9. knownRoots' = {MerkleRoot(SubSeq(log', 1, n)) : n \in 0 .. Len(log')}
    <2> DEFINE R(n) == MerkleRoot(SubSeq(all, 1, n))
    <2>1. knownRoots = {R(n) : n \in 0 .. L}
      BY <1>8 DEF TreeInv
    <2>2. KnownAfter(t.roots) = {R(L + m) : m \in 1 .. N}
      <3>1. DOMAIN t.roots = 1 .. N
        BY <1>3
      <3> QED BY <1>3, <3>1 DEF KnownAfter, ToSet
    <2> HIDE DEF R
    <2>3. {R(n) : n \in 0 .. L} \cup {R(L + m) : m \in 1 .. N} = {R(n) : n \in 0 .. L + N}
      <3>1. ASSUME NEW n \in 0 .. L + N PROVE n \in 0 .. L \/ \E m \in 1 .. N : n = L + m
        <4>1. n \in 0 .. L \/ (n - L \in 1 .. N /\ n = L + (n - L))
          BY <1>1
        <4> QED BY <4>1
      <3>2. \A m \in 1 .. N : L + m \in 0 .. L + N
        BY <1>1
      <3>3. 0 .. L \subseteq 0 .. L + N
        BY <1>1
      <3> QED BY <3>1, <3>2, <3>3
    <2> QED BY <1>2, <1>5, <2>1, <2>2, <2>3 DEF R
  <1> QED BY <1>1, <1>2, <1>3, <1>4, <1>5, <1>7, <1>9 DEF TreeInv

LEMMA TreeStep == TreeInv /\ [Next]_vars => TreeInv'
  <1> SUFFICES ASSUME TreeInv, [Next]_vars PROVE TreeInv'
    OBVIOUS
  <1>1. ASSUME NEW c \in Commitments, Insert(<<c>>) PROVE TreeInv'
    <2>1. <<c>> \in Seq(Commitments) /\ Len(<<c>>) > 0
      OBVIOUS
    <2> QED BY <1>1, <2>1, InsertStep
  <1>2. ASSUME NEW c \in Commitments, NEW d \in Commitments, Insert(<<c, d>>) PROVE TreeInv'
    <2>1. <<c, d>> \in Seq(Commitments) /\ Len(<<c, d>>) > 0
      OBVIOUS
    <2> QED BY <1>2, <2>1, InsertStep
  <1>3. CASE UNCHANGED vars
    BY <1>3 DEF vars, TreeInv, Frontier, NodeOf, MerkleRoot
  <1> QED BY <1>1, <1>2, <1>3 DEF Next

\* The filled nodes, the index and the roots always describe the log.
THEOREM TreeInvariant == Spec => []TreeInv
  BY TreeInit, TreeStep, PTL DEF Spec

\* The root the contract keeps by remembering one node per level is the Merkle root
\* of all commitments so far, for any depth and however calls of one and two
\* commitments alternate.
THEOREM RootIsMerkle == Spec => []RootIsMerkleRoot
  <1>1. TreeInv => RootIsMerkleRoot
    BY DEF TreeInv, RootIsMerkleRoot
  <1> QED BY <1>1, TreeInvariant, PTL

\* The known roots are one for each prefix of the log, all different.
LEMMA PrefixRoots == TreeInv => KnownRootsArePrefixes
  <1> SUFFICES ASSUME TreeInv PROVE KnownRootsArePrefixes
    OBVIOUS
  <1> DEFINE R(n) == MerkleRoot(SubSeq(log, 1, n))
             L == Len(log)
             f == [n \in 0 .. L |-> R(n)]
  <1>1. log \in Seq(Commitments) /\ L \in Nat /\ L <= Capacity /\ Capacity \in Nat
    BY LenProperties, Pow2Def, TreeAssumption DEF TreeInv, Capacity
  <1>2. knownRoots = {R(n) : n \in 0 .. L}
    BY DEF TreeInv
  <1>3. knownRoots = {MerkleRoot(cms) : cms \in Prefixes(log)}
    BY <1>2 DEF Prefixes
  <1>4. ASSUME NEW m \in 0 .. L, NEW n \in 0 .. L, R(m) = R(n) PROVE m = n
    <2> DEFINE a == SubSeq(log, 1, m)
               b == SubSeq(log, 1, n)
    <2>1. /\ a \in Seq(Commitments) /\ Len(a) = m /\ Len(a) <= Capacity
          /\ b \in Seq(Commitments) /\ Len(b) = n /\ Len(b) <= Capacity
      BY <1>1, Prefix
    <2>2. MerkleRoot(a) = MerkleRoot(b)
      BY <1>4
    <2> HIDE DEF a, b
    <2>3. a = b
      BY <2>1, <2>2, RootsCommitToLeaves
    <2> QED BY <2>1, <2>3
  <1> HIDE DEF R
  <1>5. f \in Bijection(0 .. L, knownRoots)
    BY <1>2, <1>4 DEF Bijection, Injection, Surjection, IsInjective
  <1>6. ExistsBijection(0 .. L, knownRoots)
    BY <1>5 DEF ExistsBijection
  <1>7. IsFiniteSet(0 .. L) /\ Cardinality(0 .. L) = L + 1
    BY <1>1, FS_Interval
  <1>8. Cardinality(knownRoots) = L + 1
    BY <1>6, <1>7, FS_Bijection
  <1> QED BY <1>3, <1>8 DEF KnownRootsArePrefixes

\* Every state of the log has a known root of its own and nothing else is known.
THEOREM KnownRootsAreOfPrefixes == Spec => []KnownRootsArePrefixes
  BY PrefixRoots, TreeInvariant, PTL

-----------------------------------------------------------------------------
(* Membership *)

\* The siblings of a leaf in the textbook tree lead from the leaf to the root.
LEMMA PathsOpen ==
    ASSUME NEW cms, NEW index \in Nat, index < Capacity, NEW siblings,
           \A k \in 0 .. Depth - 1 :
              LET i == IndexAt(index)[k]
              IN  siblings[k + 1] = NodeOf(cms, k, IF i % 2 = 0 THEN i + 1 ELSE i - 1)
    PROVE  ComputeRoot(NodeOf(cms, 0, index), siblings, index) = MerkleRoot(cms)
  <1> DEFINE node == PathNodes(NodeOf(cms, 0, index), siblings, index)
             idx == IndexAt(index)
             T == {k \in 0 .. Depth : node[k] = NodeOf(cms, k, idx[k])}
  <1>1. 0 \in T
    BY PathNodesDef, IndexAtDef, TreeAssumption
  <1>2. ASSUME NEW k \in 0 .. Depth - 1, k \in T PROVE k + 1 \in T
    <2>1. k + 1 \in 0 .. Depth /\ k \in 0 .. Depth
      BY TreeAssumption
    <2>2. idx[k] \in Nat /\ idx[k + 1] = idx[k] \div 2
      BY <2>1, IndexAtDef
    <2>3. node[k] = NodeOf(cms, k, idx[k])
      BY <1>2
    <2>4. node[k + 1] = IF idx[k] % 2 = 0 THEN Hash2(node[k], siblings[k + 1])
                                          ELSE Hash2(siblings[k + 1], node[k])
      BY PathNodesDef
    <2>5. NodeOf(cms, k + 1, idx[k + 1])
            = Hash2(NodeOf(cms, k, 2 * idx[k + 1]), NodeOf(cms, k, 2 * idx[k + 1] + 1))
      <3>1. idx[k + 1] \in Nat
        BY <2>1, IndexAtDef
      <3> QED BY <3>1, NodeOfDef
    <2>6. siblings[k + 1] = NodeOf(cms, k, IF idx[k] % 2 = 0 THEN idx[k] + 1 ELSE idx[k] - 1)
      OBVIOUS
    <2> HIDE DEF node, idx
    <2>7. CASE idx[k] % 2 = 0
      <3>1. 2 * idx[k + 1] = idx[k] /\ 2 * idx[k + 1] + 1 = idx[k] + 1
        BY <2>2, <2>7, Halves
      <3> QED BY <2>1, <2>3, <2>4, <2>5, <2>6, <2>7, <3>1
    <2>8. CASE idx[k] % 2 = 1
      <3>1. 2 * idx[k + 1] = idx[k] - 1 /\ 2 * idx[k + 1] + 1 = idx[k]
        BY <2>2, <2>8, Halves
      <3> QED BY <2>1, <2>3, <2>4, <2>5, <2>6, <2>8, <3>1
    <2> QED BY <2>2, <2>7, <2>8, Halves
  <1>3. 0 .. Depth \subseteq T
    <2> HIDE DEF T
    <2> QED BY <1>1, <1>2, Induction, TreeAssumption
  <1>4. node[Depth] = NodeOf(cms, Depth, idx[Depth])
    BY <1>3, TreeAssumption
  <1> QED BY <1>4, IndexBound, NodeOfDef DEF ComputeRoot

\* No choice of siblings opens a position of a Merkle root to anything but the leaf
\* that is there: the root check of the transfer and withdraw circuits, whose
\* siblings are the prover's to choose, accepts only inserted commitments.
THEOREM MembershipIsSound ==
    ASSUME NEW cms, NEW index \in Nat, index < Capacity, NEW leaf, NEW siblings,
           ComputeRoot(leaf, siblings, index) = MerkleRoot(cms)
    PROVE  leaf = IF index < Len(cms) THEN cms[index + 1] ELSE ZeroLeaf
  <1> DEFINE node == PathNodes(leaf, siblings, index)
             idx == IndexAt(index)
             T == {n \in 0 .. Depth : node[Depth - n] = NodeOf(cms, Depth - n, idx[Depth - n])}
  <1>1. 0 \in T
    <2>1. node[Depth] = NodeOf(cms, Depth, idx[Depth])
      BY IndexBound, NodeOfDef DEF ComputeRoot
    <2>2. Depth - 0 = Depth /\ 0 \in 0 .. Depth
      BY TreeAssumption
    <2> QED BY <2>1, <2>2
  <1>2. ASSUME NEW n \in 0 .. Depth - 1, n \in T PROVE n + 1 \in T
    <2> DEFINE k == Depth - (n + 1)
    <2>1. /\ k \in 0 .. Depth - 1 /\ k \in 0 .. Depth /\ k + 1 \in 0 .. Depth
          /\ k + 1 = Depth - n /\ n + 1 \in 0 .. Depth
      BY TreeAssumption
    <2>2. /\ idx[k] \in Nat /\ idx[k + 1] = idx[k] \div 2 /\ idx[k + 1] \in Nat
      BY <2>1, IndexAtDef
    <2>3. node[k + 1] = NodeOf(cms, k + 1, idx[k + 1])
      BY <1>2, <2>1
    <2>4. node[k + 1] = IF idx[k] % 2 = 0 THEN Hash2(node[k], siblings[k + 1])
                                          ELSE Hash2(siblings[k + 1], node[k])
      BY <2>1, PathNodesDef
    <2>5. NodeOf(cms, k + 1, idx[k + 1])
            = Hash2(NodeOf(cms, k, 2 * idx[k + 1]), NodeOf(cms, k, 2 * idx[k + 1] + 1))
      BY <2>1, <2>2, NodeOfDef
    <2>6. node[k] = NodeOf(cms, k, idx[k])
      <3> HIDE DEF node, idx, k
      <3>1. CASE idx[k] % 2 = 0
        <4>1. 2 * idx[k + 1] = idx[k]
          BY <2>2, <3>1, Halves
        <4> QED BY <2>3, <2>4, <2>5, <3>1, <4>1 DEF Hash2
      <3>2. CASE idx[k] % 2 = 1
        <4>1. 2 * idx[k + 1] + 1 = idx[k]
          BY <2>2, <3>2, Halves
        <4> QED BY <2>3, <2>4, <2>5, <3>2, <4>1 DEF Hash2
      <3> QED BY <2>2, <3>1, <3>2, Halves
    <2> QED BY <2>1, <2>6
  <1>3. 0 .. Depth \subseteq T
    <2> HIDE DEF T
    <2> QED BY <1>1, <1>2, Induction, TreeAssumption
  <1>4. node[0] = NodeOf(cms, 0, idx[0])
    <2>1. Depth \in T /\ Depth - Depth = 0
      <3> HIDE DEF T
      <3> QED BY <1>3, TreeAssumption
    <2> QED BY <2>1
  <1>5. leaf = NodeOf(cms, 0, index)
    BY <1>4, PathNodesDef, IndexAtDef
  <1>6. NodeOf(cms, 0, index) = IF index < Len(cms) THEN cms[index + 1] ELSE ZeroLeaf
    BY NodeOfDef, Zenon
  <1> QED BY <1>5, <1>6

-----------------------------------------------------------------------------
(* The prover's tree *)

\* How many nodes of a level have a leaf under them, of n leaves.
Width(n, level) == IF n = 0 THEN 0 ELSE IndexAt(n - 1)[level] + 1

\* A level that stores the first n nodes of the textbook tree and no more.
HoldsNodes(s, cms, level, n) == s = [i \in 1 .. n |-> NodeOf(cms, level, i - 1)]

\* What a rebuilt tree stores.
Dense(nodes, cms) ==
    /\ DOMAIN nodes = 0 .. Depth
    /\ \A k \in 0 .. Depth : HoldsNodes(nodes[k], cms, k, Width(Len(cms), k))

LEMMA WidthNext ==
    ASSUME NEW n \in Nat
    PROVE  /\ Width(n, 0) = n
           /\ \A k \in 0 .. Depth :
                 /\ IndexAt(n)[k] \in Nat /\ Width(n, k) \in Nat
                 /\ Width(n, k) \in {IndexAt(n)[k], IndexAt(n)[k] + 1}
                 /\ Width(n + 1, k) = IndexAt(n)[k] + 1
  <1>1. Width(n, 0) = n
    BY IndexAtDef DEF Width
  <1>2. ASSUME NEW k \in 0 .. Depth
        PROVE  /\ IndexAt(n)[k] \in Nat /\ Width(n, k) \in Nat
               /\ Width(n, k) \in {IndexAt(n)[k], IndexAt(n)[k] + 1}
               /\ Width(n + 1, k) = IndexAt(n)[k] + 1
    <2>1. IndexAt(n)[k] \in Nat
      BY IndexAtDef
    <2>2. n + 1 # 0 /\ (n + 1) - 1 = n
      OBVIOUS
    <2>3. Width(n + 1, k) = IndexAt(n)[k] + 1
      BY <2>2 DEF Width
    <2>4. CASE n = 0
      <3>1. IndexAt(n)[k] = 0
        BY <2>4, IndexOfZero
      <3> QED BY <2>3, <2>4, <3>1 DEF Width
    <2>5. CASE n # 0
      <3>1. n - 1 \in Nat /\ (n - 1) + 1 = n
        BY <2>5
      <3>2. IndexAt(n - 1)[k] \in Nat
        BY <3>1, IndexAtDef
      <3>3. IndexAt((n - 1) + 1)[k] \in {IndexAt(n - 1)[k], IndexAt(n - 1)[k] + 1}
        BY <3>1, NextIndexAt
      <3>4. IndexAt(n)[k] \in {IndexAt(n - 1)[k], IndexAt(n - 1)[k] + 1}
        BY <3>1, <3>3
      <3>5. Width(n, k) = IndexAt(n - 1)[k] + 1
        BY <2>5 DEF Width
      <3> QED BY <2>1, <2>3, <3>2, <3>4, <3>5
    <2> QED BY <2>4, <2>5
  <1> QED BY <1>1, <1>2

\* A dense level answers for every node of the textbook tree.
LEMMA NodeAtIsNode ==
    ASSUME NEW cms \in Seq(Commitments), NEW k \in 0 .. Depth, NEW j \in Nat, NEW nodes,
           HoldsNodes(nodes[k], cms, k, Width(Len(cms), k))
    PROVE  NodeAt(nodes, k, j) = NodeOf(cms, k, j)
  <1> DEFINE w == Width(Len(cms), k)
             s == nodes[k]
  <1>1. Len(cms) \in Nat /\ w \in Nat
    BY WidthNext, LenProperties
  <1>2. s = [i \in 1 .. w |-> NodeOf(cms, k, i - 1)]
    BY DEF HoldsNodes
  <1>3. Len(s) = w
    <2> HIDE DEF w, s
    <2>1. s = [i \in 1 .. w |-> s[i]]
      BY <1>2
    <2> QED BY <1>1, <2>1, Longer
  <1>4. CASE j < w
    <2>1. j + 1 \in 1 .. w /\ (j + 1) - 1 = j
      BY <1>1, <1>4
    <2>2. s[j + 1] = NodeOf(cms, k, j)
      <3> HIDE DEF w, s
      <3> QED BY <1>2, <2>1
    <2> QED BY <1>3, <1>4, <2>2 DEF NodeAt
  <1>5. CASE ~(j < w)
    <2>1. NodeOf(cms, k, j) = Zeros[k]
      <3>1. CASE Len(cms) = 0
        BY <3>1, NoLeaves
      <3>2. CASE Len(cms) # 0
        <4>1. Len(cms) - 1 \in Nat /\ Len(cms) <= (Len(cms) - 1) + 1
          BY <1>1, <3>2
        <4>2. w = IndexAt(Len(cms) - 1)[k] + 1
          BY <3>2 DEF Width
        <4>3. IndexAt(Len(cms) - 1)[k] \in Nat
          BY <4>1, IndexAtDef
        <4>4. j > IndexAt(Len(cms) - 1)[k]
          <5> HIDE DEF w
          <5> QED BY <1>5, <4>2, <4>3
        <4> QED BY <4>1, <4>4, ZeroBeyond
      <3> QED BY <3>1, <3>2
    <2> QED BY <1>3, <1>5, <2>1 DEF NodeAt
  <1> QED BY <1>4, <1>5

\* Recomputing a parent: it is replaced where it is stored and appended where not.
Extended(s, p, h) == IF p < Len(s) THEN [s EXCEPT ![p + 1] = h] ELSE Append(s, h)

\* The list of the first n values of a, and two that may differ at p.
FirstOf(s, a, n) == s = [m \in 1 .. n |-> a[m - 1]]
SameOff(a, b, p) == \A j \in Nat : j # p => b[j] = a[j]

LEMMA LevelExtended ==
    ASSUME NEW a, NEW b, NEW p \in Nat, NEW w \in {p, p + 1}, NEW s,
           SameOff(a, b, p), FirstOf(s, a, w)
    PROVE  FirstOf(Extended(s, p, b[p]), b, p + 1)
  <1> DEFINE h == b[p]
             r == Extended(s, p, h)
  <1>1. s = [m \in 1 .. w |-> s[m]]
    BY DEF FirstOf
  <1>2. w \in Nat /\ Len(s) = w
    BY <1>1, Longer
  <1>3. \A m \in 1 .. p : s[m] = b[m - 1]
    <2>1. ASSUME NEW m \in 1 .. p PROVE s[m] = b[m - 1]
      <3>1. m \in 1 .. w /\ m - 1 \in Nat /\ m - 1 # p
        OBVIOUS
      <3> QED BY <3>1 DEF FirstOf, SameOff
    <2> QED BY <2>1
  <1>4. \A m \in 1 .. p + 1 : m \in 1 .. p \/ (m = p + 1 /\ m - 1 = p)
    OBVIOUS
  <1>5. CASE w = p
    <2> HIDE DEF h
    <2>1. r = Append(s, h)
      BY <1>2, <1>5 DEF Extended
    <2>2. s = [m \in 1 .. p |-> s[m]]
      BY <1>1, <1>5
    <2>3. /\ Append(s, h) = [m \in 1 .. p + 1 |-> Append(s, h)[m]]
          /\ Append(s, h)[p + 1] = h
          /\ \A m \in 1 .. p : Append(s, h)[m] = s[m]
      BY <2>2, Longer
    <2> HIDE DEF r
    <2>4. r = [m \in 1 .. p + 1 |-> r[m]] /\ r[p + 1] = h /\ \A m \in 1 .. p : r[m] = b[m - 1]
      BY <1>3, <2>1, <2>3
    <2>5. r = [m \in 1 .. p + 1 |-> b[m - 1]]
      BY <1>4, <2>4 DEF h
    <2> QED BY <2>5 DEF FirstOf, r, h
  <1>6. CASE w = p + 1
    <2> HIDE DEF h
    <2>1. r = [s EXCEPT ![p + 1] = h]
      BY <1>2, <1>6 DEF Extended
    <2>2. DOMAIN s = 1 .. p + 1
      BY <1>1, <1>6
    <2>3. \A m \in 1 .. p : m # p + 1 /\ m \in 1 .. p + 1
      OBVIOUS
    <2>4. r = [m \in 1 .. p + 1 |-> IF m = p + 1 THEN h ELSE s[m]]
      BY <2>1, <2>2
    <2>5. r = [m \in 1 .. p + 1 |-> b[m - 1]]
      BY <1>3, <1>4, <2>3, <2>4 DEF h
    <2> QED BY <2>5 DEF FirstOf, h
  <1> QED BY <1>5, <1>6

\* One more leaf: each level below the one reached is that of the longer log.
LEMMA RecomputedNodes ==
    ASSUME NEW cms \in Seq(Commitments), NEW cm \in Commitments, NEW nodes, Dense(nodes, cms)
    PROVE  Dense(TreeInsert(nodes, cm), Append(cms, cm))
  <1> DEFINE new == Append(cms, cm)
             i == Len(cms)
             idx == IndexAt(i)
             x == Recomputed(nodes, cm)
             Below(n) == \A k \in 0 .. n : HoldsNodes(x[n][k], new, k, idx[k] + 1)
             Above(n) == \A k \in n + 1 .. Depth : x[n][k] = nodes[k]
             T == {n \in 0 .. Depth : DOMAIN x[n] = 0 .. Depth /\ Below(n) /\ Above(n)}
  <1>1. /\ i \in Nat /\ new \in Seq(Commitments) /\ Len(new) = i + 1
        /\ idx[0] = i /\ new[i + 1] = cm
    BY LenProperties, AppendProperties, IndexAtDef
  <1>2. \A k \in 0 .. Depth :
           /\ idx[k] \in Nat /\ Width(i, k) \in Nat /\ Width(i, k) \in {idx[k], idx[k] + 1}
           /\ Width(i + 1, k) = idx[k] + 1 /\ Width(i, 0) = i
    BY <1>1, WidthNext
  <1>3. /\ DOMAIN nodes = 0 .. Depth
        /\ \A k \in 0 .. Depth : HoldsNodes(nodes[k], cms, k, Width(i, k))
    BY DEF Dense
  <1>4. \A k \in 0 .. Depth, j \in Nat : j # idx[k] => NodeOf(new, k, j) = NodeOf(cms, k, j)
    BY OnlyPathChanges
  <1>5. nodes[0] = [m \in 1 .. i |-> nodes[0][m]] /\ Len(nodes[0]) = i
    <2>1. HoldsNodes(nodes[0], cms, 0, i)
      BY <1>2, <1>3, TreeAssumption
    <2>2. nodes[0] = [m \in 1 .. i |-> nodes[0][m]]
      <3> DEFINE s == nodes[0]
      <3>1. s = [m \in 1 .. i |-> NodeOf(cms, 0, m - 1)]
        BY <2>1 DEF HoldsNodes
      <3> HIDE DEF s, i
      <3>2. s = [m \in 1 .. i |-> s[m]]
        BY <3>1
      <3> QED BY <3>2 DEF s
    <2> QED BY <1>1, <2>2, Longer
  <1>6. 0 \in T
    <2>1. x[0] = [nodes EXCEPT ![0] = Append(nodes[0], cm)]
      BY RecomputedDef DEF PushLeaf
    <2>2. DOMAIN x[0] = 0 .. Depth /\ x[0][0] = Append(nodes[0], cm)
          /\ \A k \in 1 .. Depth : x[0][k] = nodes[k]
      <3> HIDE DEF x
      <3> QED BY <1>3, <2>1, TreeAssumption
    <2>3. HoldsNodes(x[0][0], new, 0, i + 1)
      <3> DEFINE s == nodes[0]
                 r == Append(s, cm)
      <3>1. /\ r = [m \in 1 .. i + 1 |-> r[m]]
            /\ r[i + 1] = cm
            /\ \A m \in 1 .. i : r[m] = s[m]
        BY <1>1, <1>5, Longer
      <3>2. \A m \in 1 .. i : s[m] = NodeOf(cms, 0, m - 1)
        BY <1>2, <1>3, TreeAssumption DEF HoldsNodes
      <3>3. ASSUME NEW m \in 1 .. i PROVE r[m] = NodeOf(new, 0, m - 1)
        <4>1. m - 1 \in Nat /\ m - 1 # idx[0] /\ 0 \in 0 .. Depth
          BY <1>1, TreeAssumption
        <4> QED BY <3>1, <3>2, <4>1, <1>4
      <3>4. r[i + 1] = NodeOf(new, 0, (i + 1) - 1)
        <4>1. NodeOf(new, 0, i) = IF i < Len(new) THEN new[i + 1] ELSE ZeroLeaf
          BY <1>1, NodeOfDef, Zenon
        <4>2. i < Len(new) /\ (i + 1) - 1 = i
          BY <1>1
        <4> HIDE DEF new, r
        <4> QED BY <1>1, <3>1, <4>1, <4>2
      <3> HIDE DEF r, s, new, i
      <3>5. \A m \in 1 .. i + 1 : r[m] = NodeOf(new, 0, m - 1)
        <4>1. \A m \in 1 .. i + 1 : m \in 1 .. i \/ m = i + 1
          BY <1>1
        <4> QED BY <3>3, <3>4, <4>1
      <3>6. r = [m \in 1 .. i + 1 |-> NodeOf(new, 0, m - 1)]
        BY <3>1, <3>5
      <3>7. HoldsNodes(r, new, 0, i + 1)
        BY <3>6 DEF HoldsNodes
      <3> QED BY <2>2, <3>7 DEF r, s
    <2>4. Below(0)
      <3>1. \A k \in 0 .. 0 : k = 0
        OBVIOUS
      <3> HIDE DEF x, new
      <3> QED BY <1>1, <2>3, <3>1
    <2> HIDE DEF x, new
    <2> QED BY <2>2, <2>4, TreeAssumption
  <1>7. ASSUME NEW n \in 0 .. Depth - 1, n \in T PROVE n + 1 \in T
    <2> DEFINE p == idx[n + 1]
               h == Hash2(NodeAt(x[n], n, 2 * p), NodeAt(x[n], n, 2 * p + 1))
               s == nodes[n + 1]
               r == Extended(s, p, h)
    <2>1. n + 1 \in 0 .. Depth /\ n \in 0 .. Depth /\ n + 1 \in n + 1 .. Depth
      BY TreeAssumption
    <2>2. /\ p \in Nat /\ p = idx[n] \div 2
      BY <1>1, <2>1, IndexAtDef
    <2>3. DOMAIN x[n] = 0 .. Depth /\ Below(n) /\ Above(n)
      BY <1>7
    <2>4. x[n + 1] = [x[n] EXCEPT ![n + 1] = r]
      <3>1. x[n + 1] = Recompute(x[n], idx[n], n)
        BY <1>5, RecomputedDef
      <3>2. x[n][n + 1] = s
        BY <2>1, <2>3
      <3> HIDE DEF x, idx
      <3>3. x[n + 1] = [x[n] EXCEPT ![n + 1] =
               IF p < Len(x[n][n + 1]) THEN [x[n][n + 1] EXCEPT ![p + 1] = h] ELSE Append(x[n][n + 1], h)]
        BY <2>2, <3>1 DEF Recompute
      <3> QED BY <3>2, <3>3 DEF Extended
    <2>5. h = NodeOf(new, n + 1, p)
      <3>1. HoldsNodes(x[n][n], new, n, Width(Len(new), n))
        <4>1. n \in 0 .. n
          OBVIOUS
        <4> QED BY <1>1, <1>2, <2>1, <2>3, <4>1
      <3>2. 2 * p \in Nat /\ 2 * p + 1 \in Nat
        BY <2>2
      <3>3. /\ NodeAt(x[n], n, 2 * p) = NodeOf(new, n, 2 * p)
            /\ NodeAt(x[n], n, 2 * p + 1) = NodeOf(new, n, 2 * p + 1)
        BY <1>1, <2>1, <3>1, <3>2, NodeAtIsNode
      <3>4. NodeOf(new, n + 1, p) = Hash2(NodeOf(new, n, 2 * p), NodeOf(new, n, 2 * p + 1))
        BY <2>2, NodeOfDef
      <3> QED BY <3>3, <3>4
    <2> HIDE DEF x, new, h, p
    <2>6. HoldsNodes(r, new, n + 1, p + 1)
      <3> DEFINE w == Width(i, n + 1)
                 a == MerkleNodes(cms)[n + 1]
                 b == MerkleNodes(new)[n + 1]
      <3>1. w \in {p, p + 1} /\ HoldsNodes(s, cms, n + 1, w)
        BY <1>2, <1>3, <2>1 DEF p
      <3>2. FirstOf(s, a, w)
        BY <3>1 DEF HoldsNodes, NodeOf, FirstOf
      <3>3. SameOff(a, b, p)
        BY <1>4, <2>1 DEF p, NodeOf, SameOff
      <3>4. h = b[p]
        BY <2>5 DEF NodeOf
      <3> HIDE DEF a, b, w, s
      <3>5. FirstOf(Extended(s, p, b[p]), b, p + 1)
        BY <2>2, <3>1, <3>2, <3>3, LevelExtended
      <3> QED BY <3>4, <3>5 DEF HoldsNodes, NodeOf, FirstOf, b
    <2> HIDE DEF r
    <2>7. /\ DOMAIN x[n + 1] = 0 .. Depth /\ x[n + 1][n + 1] = r
          /\ \A k \in 0 .. Depth : k # n + 1 => x[n + 1][k] = x[n][k]
      BY <2>1, <2>3, <2>4
    <2>8. Below(n + 1)
      <3> SUFFICES ASSUME NEW k \in 0 .. n + 1 PROVE HoldsNodes(x[n + 1][k], new, k, idx[k] + 1)
        OBVIOUS
      <3>1. CASE k = n + 1
        BY <2>6, <2>7, <3>1 DEF p
      <3>2. CASE k \in 0 .. n
        <4>1. k # n + 1 /\ k \in 0 .. Depth
          BY <3>2, TreeAssumption
        <4> QED BY <2>3, <2>7, <3>2, <4>1
      <3> QED BY <3>1, <3>2
    <2>9. Above(n + 1)
      <3> SUFFICES ASSUME NEW k \in n + 1 + 1 .. Depth PROVE x[n + 1][k] = nodes[k]
        OBVIOUS
      <3>1. k # n + 1 /\ k \in 0 .. Depth /\ k \in n + 1 .. Depth
        OBVIOUS
      <3> QED BY <2>3, <2>7, <3>1
    <2> QED BY <2>1, <2>7, <2>8, <2>9
  <1>8. 0 .. Depth \subseteq T
    <2> HIDE DEF T
    <2> QED BY <1>6, <1>7, Induction, TreeAssumption
  <1>9. DOMAIN x[Depth] = 0 .. Depth /\ Below(Depth)
    <2>1. Depth \in T
      <3> HIDE DEF T
      <3> QED BY <1>8, TreeAssumption
    <2> QED BY <2>1
  <1>10. Dense(x[Depth], new)
    <2> HIDE DEF x, new
    <2> QED BY <1>1, <1>2, <1>9 DEF Dense
  <1> QED BY <1>10 DEF TreeInsert

\* The tree rebuilt from a log holds the nodes of its textbook tree.
LEMMA RebuiltNodes ==
    ASSUME NEW cms \in Seq(Commitments)
    PROVE  Dense(RebuildTree(cms), cms)
  <1> DEFINE L == Len(cms)
             x == Rebuilt(cms)
             T == {n \in 0 .. L : Dense(x[n], SubSeq(cms, 1, n))}
  <1>1. L \in Nat
    BY LenProperties
  <1>2. 0 \in T
    <2>1. x[0] = EmptyTree
      BY <1>1, RebuiltDef
    <2> DEFINE none == SubSeq(cms, 1, 0)
    <2>2. Len(none) = 0
      BY <1>1, Prefix
    <2> HIDE DEF none
    <2>3. ASSUME NEW k \in 0 .. Depth PROVE HoldsNodes(EmptyTree[k], none, k, Width(Len(none), k))
      <3>1. Width(Len(none), k) = 0 /\ EmptyTree[k] = << >>
        BY <2>2 DEF Width, EmptyTree
      <3>2. << >> = [i \in 1 .. 0 |-> NodeOf(none, k, i - 1)]
        OBVIOUS
      <3> QED BY <3>1, <3>2 DEF HoldsNodes
    <2>4. DOMAIN EmptyTree = 0 .. Depth
      BY DEF EmptyTree
    <2>5. Dense(x[0], none)
      BY <2>1, <2>3, <2>4 DEF Dense
    <2> QED BY <1>1, <2>5 DEF none
  <1>3. ASSUME NEW n \in 0 .. L - 1, n \in T PROVE n + 1 \in T
    <2> DEFINE p == SubSeq(cms, 1, n)
    <2>1. n \in 0 .. L /\ n < L /\ n + 1 \in 1 .. L /\ n + 1 \in 0 .. L
      BY <1>1
    <2>2. p \in Seq(Commitments) /\ SubSeq(cms, 1, n + 1) = Append(p, cms[n + 1])
      BY <2>1, Prefix
    <2>3. cms[n + 1] \in Commitments
      BY <2>1, ElementOfSeq
    <2>4. x[n + 1] = TreeInsert(x[n], cms[n + 1])
      BY <1>1, RebuiltDef
    <2>5. Dense(x[n], p)
      BY <1>3
    <2>6. Dense(TreeInsert(x[n], cms[n + 1]), Append(p, cms[n + 1]))
      <3> HIDE DEF p, x
      <3> QED BY <2>2, <2>3, <2>5, RecomputedNodes
    <2> QED BY <2>1, <2>2, <2>4, <2>6
  <1>4. 0 .. L \subseteq T
    <2> HIDE DEF T
    <2> QED BY <1>1, <1>2, <1>3, Induction
  <1>5. Dense(x[L], SubSeq(cms, 1, L))
    <2>1. L \in 0 .. L
      BY <1>1
    <2> QED BY <1>4, <2>1
  <1>6. SubSeq(cms, 1, L) = cms
    <2> DEFINE u == SubSeq(cms, 1, L)
    <2>1. L \in 0 .. L
      BY <1>1
    <2>2. u \in Seq(Commitments) /\ Len(u) = L /\ \A i \in 1 .. L : u[i] = cms[i]
      BY <2>1, Prefix
    <2> HIDE DEF u
    <2>3. u = cms
      BY <2>2, SeqEqual
    <2> QED BY <2>3 DEF u
  <1> QED BY <1>5, <1>6 DEF RebuildTree

\* The prover's tree, its root and its paths, for any log.
LEMMA RebuiltTreeOpens ==
    ASSUME NEW cms \in Seq(Commitments), Len(cms) <= Capacity
    PROVE  LET nodes == RebuildTree(cms)
           IN  /\ Root(nodes) = MerkleRoot(cms)
               /\ \A i \in DOMAIN cms, c \in Commitments \cup {ZeroLeaf} :
                     ComputeRoot(c, Path(nodes, i - 1), i - 1) = Root(nodes) <=> c = cms[i]
  <1> DEFINE nodes == RebuildTree(cms)
  <1>1. Len(cms) \in Nat /\ Capacity \in Nat /\ DOMAIN cms = 1 .. Len(cms)
    BY LenProperties, Pow2Def, TreeAssumption DEF Capacity
  <1>2. \A k \in 0 .. Depth, j \in Nat : NodeAt(nodes, k, j) = NodeOf(cms, k, j)
    <2>1. Dense(nodes, cms)
      BY RebuiltNodes
    <2> HIDE DEF nodes
    <2> QED BY <2>1, NodeAtIsNode DEF Dense
  <1> HIDE DEF nodes
  <1>3. Root(nodes) = MerkleRoot(cms)
    BY <1>2, NodeOfDef, TreeAssumption DEF Root
  <1>4. ASSUME NEW i \in DOMAIN cms, NEW c
        PROVE  ComputeRoot(c, Path(nodes, i - 1), i - 1) = Root(nodes) <=> c = cms[i]
    <2> DEFINE sib == Path(nodes, i - 1)
               index == i - 1
    <2>1. index \in Nat /\ index < Capacity /\ index < Len(cms) /\ index + 1 = i
      BY <1>1
    <2>2. \A k \in 0 .. Depth - 1 :
             LET j == IndexAt(index)[k]
             IN  sib[k + 1] = NodeOf(cms, k, IF j % 2 = 0 THEN j + 1 ELSE j - 1)
      <3> SUFFICES ASSUME NEW k \in 0 .. Depth - 1
                   PROVE  LET j == IndexAt(index)[k]
                          IN  sib[k + 1] = NodeOf(cms, k, IF j % 2 = 0 THEN j + 1 ELSE j - 1)
        OBVIOUS
      <3> DEFINE j == IndexAt(index)[k]
                 other == IF j % 2 = 0 THEN j + 1 ELSE j - 1
      <3>1. k + 1 \in 1 .. Depth /\ (k + 1) - 1 = k /\ k \in 0 .. Depth
        BY TreeAssumption
      <3>2. j \in Nat
        BY <2>1, <3>1, IndexAtDef
      <3>3. other \in Nat
        <4> HIDE DEF j
        <4> QED BY <3>2
      <3>4. sib[k + 1] = NodeAt(nodes, k, other)
        BY <3>1 DEF Path
      <3> HIDE DEF sib, j
      <3>5. sib[k + 1] = NodeOf(cms, k, other)
        BY <1>2, <3>1, <3>3, <3>4
      <3> QED BY <3>5 DEF j
    <2>3. NodeOf(cms, 0, index) = IF index < Len(cms) THEN cms[index + 1] ELSE ZeroLeaf
      BY <2>1, NodeOfDef, Zenon
    <2> HIDE DEF sib, index
    <2>4. ComputeRoot(NodeOf(cms, 0, index), sib, index) = MerkleRoot(cms)
      BY <2>1, <2>2, PathsOpen
    <2>5. ComputeRoot(c, sib, index) = MerkleRoot(cms) => c = cms[i]
      <3>1. ASSUME ComputeRoot(c, sib, index) = MerkleRoot(cms) PROVE c = cms[i]
        <4>1. c = IF index < Len(cms) THEN cms[index + 1] ELSE ZeroLeaf
          BY <2>1, <3>1, MembershipIsSound
        <4> QED BY <2>1, <4>1
      <3> QED BY <3>1
    <2> QED BY <1>3, <2>1, <2>3, <2>4, <2>5 DEF sib, index
  <1> QED BY <1>3, <1>4 DEF nodes

\* Whatever prefix of the log a prover has read, the root of the tree it rebuilds is
\* known to the contract, and its paths open each position to the commitment
\* inserted there and to nothing else: two implementations of the tree, one of
\* which keeps a node per level and the other all of them, agree for any depth.
THEOREM ProversAgree == Spec => []ProverTreeAgrees
  <1>1. TreeInv => ProverTreeAgrees
    <2> SUFFICES ASSUME TreeInv, NEW cms \in Prefixes(log)
                 PROVE  LET nodes == RebuildTree(cms)
                        IN  /\ Root(nodes) \in knownRoots
                            /\ \A i \in DOMAIN cms, c \in Commitments \cup {ZeroLeaf} :
                                  ComputeRoot(c, Path(nodes, i - 1), i - 1) = Root(nodes) <=> c = cms[i]
      BY DEF ProverTreeAgrees
    <2>1. PICK n \in 0 .. Len(log) : cms = SubSeq(log, 1, n)
      BY DEF Prefixes
    <2>2. cms \in Seq(Commitments) /\ Len(cms) = n
      BY <2>1, Prefix DEF TreeInv
    <2>3. Len(cms) <= Capacity
      BY <2>1, <2>2, LenProperties, Pow2Def, TreeAssumption DEF TreeInv, Capacity
    <2>4. MerkleRoot(cms) \in knownRoots
      BY <2>1 DEF TreeInv
    <2> QED BY <2>2, <2>3, <2>4, RebuiltTreeOpens
  <1> QED BY <1>1, TreeInvariant, PTL

=============================================================================
