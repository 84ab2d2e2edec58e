------------------------------ MODULE Circuits ------------------------------
(***************************************************************************)
(* The transfer and withdraw circuits constraint by constraint, over the   *)
(* tree of module CommitmentTree.  Values live in a field in which the     *)
(* sums of a transfer are taken; hashes are free constructors: a           *)
(* commitment is one opaque value per note, a nullifier its key and index. *)
(* A statement can be proven when some witness satisfies the constraints.  *)
(***************************************************************************)
EXTENDS CommitmentTree

CONSTANTS
    FieldOrder,     \* the order of the scalar field
    ValueBits,      \* 64: the width of a note value
    SpendingKeys,
    Opening,        \* commitment |-> the note [key, value] under it
    Unopened        \* stands for any commitment not named by Opening

TwoTo[n \in 0 .. ValueBits + Depth] == IF n = 0 THEN 1 ELSE 2 * TwoTo[n - 1]

\* Neither an index nor the sum of two values wraps around in the field.
ASSUME CircuitAssumption ==
    /\ ValueBits \in Nat
    /\ FieldOrder \in Nat /\ TwoTo[ValueBits + 1] <= FieldOrder /\ TwoTo[Depth] <= FieldOrder
    /\ Commitments \subseteq DOMAIN Opening
    /\ \A c \in DOMAIN Opening : Opening[c] \in [key : SpendingKeys, value : 0 .. FieldOrder - 1]
    /\ \A c, d \in DOMAIN Opening : Opening[c] = Opening[d] => c = d
    /\ {Unopened, ZeroLeaf} \cap DOMAIN Opening = {} /\ Unopened # ZeroLeaf

\* Boolean witnesses, little-endian, and the field elements they recompose to,
\* bit by bit: Boolean::le_bits_to_fp.
Bits(n) == [1 .. n -> {0, 1}]
Recomposed(bits) ==
    LET sum[n \in 0 .. Len(bits)] ==
          IF n = 0 THEN 0 ELSE (sum[n - 1] + bits[n] * TwoTo[n - 1]) % FieldOrder
    IN  sum
FieldValue == [bits \in Bits(ValueBits) \cup Bits(Depth) |-> Recomposed(bits)[Len(bits)]]

\* Mutation: a value is one unconstrained field element.
M_AllocField == 0 .. FieldOrder - 1

\* alloc_u64: what a value recomposed from ValueBits bits can be.
AllocValue == {FieldValue[bits] : bits \in Bits(ValueBits)}

\* Gadgets of note.rs.
Commit(key, value) ==
    IF \E c \in DOMAIN Opening : Opening[c] = [key |-> key, value |-> value]
    THEN CHOOSE c \in DOMAIN Opening : Opening[c] = [key |-> key, value |-> value]
    ELSE Unopened
NullifierFor(key, index) == [key |-> key, index |-> index]

\* One level of the gadget of merkle.rs: the bit says on which side the node is.
Parent(node, sibling, bit) == IF bit = 1 THEN Hash2(sibling, node) ELSE Hash2(node, sibling)

\* As the hash is collision free, every node and sibling on the way to the root
\* is one of the tree.
Level(nodes, level) == {NodeAt(nodes, level, i) : i \in 0 .. Pow2[Depth - level] - 1}

\* One level of the loop, for all siblings and bits at once.
OneUp(reached, nodes, level) ==
    LET above == Level(nodes, level + 1)
    IN  {p \in {<<r[1], Append(r[2], bit), Parent(r[3], sibling, bit)>> :
                   r \in reached, sibling \in Level(nodes, level), bit \in {0, 1}} : p[3] \in above}

\* The paths of openable commitments up to a level, with their index bits and the
\* node there: <<commitment, bits, node>>.
Openable == DOMAIN Opening \cup {Unopened}
Reached(nodes) ==
    LET reach[k \in 0 .. Depth] ==
          IF k = 0 THEN {<<cm, << >>, cm>> : cm \in Openable \cap Level(nodes, 0)}
                   ELSE OneUp(reach[k - 1], nodes, k - 1)
    IN  reach

\* The commitments and index bits for which some siblings lead to the root.
Members(nodes) == {<<r[1], r[2]>> : r \in Reached(nodes)[Depth]}

-----------------------------------------------------------------------------
\* Mutations: the nullifier has index bits of its own; a note may leave out its
\* membership whatever its value.
M_LooseIndex(members, nf, value, key, bits) ==
    /\ value # 0 => \E b \in Bits(Depth) : <<Commit(key, value), b>> \in members
    /\ nf = NullifierFor(key, FieldValue[bits])
M_AnyDummy(members, nf, value, key, bits) == nf = NullifierFor(key, FieldValue[bits])

\* Constraints of one spent note: membership unless its value is 0, and in any
\* case the nullifier of the same key and index bits.
SpentConstraints(members, nf, value, key, bits) ==
    /\ value # 0 => <<Commit(key, value), bits>> \in members
    /\ nf = NullifierFor(key, FieldValue[bits])

\* The values for which a spent note's constraints have a witness.
SpendableValues(members, nf) ==
    {v \in AllocValue : \E key \in SpendingKeys, bits \in Bits(Depth) :
                           SpentConstraints(members, nf, v, key, bits)}

\* Likewise for a created note; its owner is a free witness.
CreatableValues(cm) == {v \in AllocValue : \E key \in SpendingKeys : Commit(key, v) = cm}

\* The sums are compared in the field.
NoInflation(v, w, c, d) == (v + w) % FieldOrder = (c + d) % FieldOrder

\* The inputs and outputs of a transfer share nothing but the sum: given what
\* each can be worth, some witness balances them.
TransferSatisfiable(spendable, creatable) ==
    \E v \in spendable[1], w \in spendable[2], c \in creatable[1], d \in creatable[2] :
       NoInflation(v, w, c, d)

\* Mutation: membership is conditional here as well.
M_WithdrawSkipsZero(members, nf, amount) ==
    \E key \in SpendingKeys, bits \in Bits(Depth) : SpentConstraints(members, nf, amount, key, bits)

\* Membership is unconditional, and the amount is a public field element.
WithdrawSatisfiable(members, nf, amount) ==
    \E key \in SpendingKeys, bits \in Bits(Depth) :
       /\ <<Commit(key, amount), bits>> \in members
       /\ nf = NullifierFor(key, FieldValue[bits])

-----------------------------------------------------------------------------
\* What ShieldedPool says a note spent in the transfer circuit is worth, over the
\* log: 0, or the note of that key at that index.
NotesAt(nf) ==
    {Opening[log[i]].value : i \in {j \in DOMAIN log : /\ Opening[log[j]].key = nf.key
                                                       /\ nf.index = j - 1}}

Nullifiers == [key : SpendingKeys, index : 0 .. Capacity - 1]
FitsWidth(value) == value < TwoTo[ValueBits]

\* Soundness and completeness of the transfer circuit.  Under the current root it
\* has a witness exactly when the notes at the nullifiers' own indices, or
\* dummies, are worth as much as the created notes, counted as integers: no
\* index, sibling, sum past the field order or oversized value makes it lie.
TransferCircuitIsRelation ==
    LET members   == Members(RebuildTree(log))
        spendable == [nf \in Nullifiers |-> SpendableValues(members, nf)]
        creatable == [cm \in DOMAIN Opening |-> CreatableValues(cm)]
    IN  /\ \A nf \in Nullifiers : spendable[nf] = {0} \cup {v \in NotesAt(nf) : FitsWidth(v)}
        /\ \A ins \in [1 .. 2 -> Range(spendable)], cms \in [1 .. 2 -> DOMAIN Opening] :
              TransferSatisfiable(ins, [k \in 1 .. 2 |-> creatable[cms[k]]]) <=>
                 /\ \A k \in 1 .. 2 : FitsWidth(Opening[cms[k]].value)
                 /\ \E v \in ins[1], w \in ins[2] :
                       v + w = Opening[cms[1]].value + Opening[cms[2]].value

\* Soundness and completeness of the withdraw circuit: exactly the amounts of the
\* note at the nullifier's index; nothing for dummies.
WithdrawCircuitIsRelation ==
    LET members == Members(RebuildTree(log))
    IN  \A nf \in Nullifiers, amount \in 0 .. FieldOrder - 1 :
           WithdrawSatisfiable(members, nf, amount) <=> amount \in NotesAt(nf)
=============================================================================
