---------------------------- MODULE ProtocolHash ----------------------------
(***************************************************************************)
(* The protocol hash as it is computed in three places: natively by the    *)
(* prover, as constraints in the circuits, and in the pool contract from   *)
(* generated tables of big-endian constants.  The field, the byte strings  *)
(* and the number of rounds are parameters; a byte string has two digits.  *)
(***************************************************************************)
EXTENDS Integers, Sequences

CONSTANTS
    FieldOrder,     \* the order of the scalar field, a prime
    Base,           \* digits of a byte string
    FullRounds,     \* FULL_ROUNDS
    PartialRounds,  \* PARTIAL_ROUNDS
    TreeDepth       \* POOL_TREE_DEPTH

ASSUME HashAssumption ==
    /\ FieldOrder \in Nat \ {0} /\ Base \in Nat \ {0}
    /\ FieldOrder <= Base * Base
    /\ FullRounds \in Nat /\ FullRounds % 2 = 0 /\ PartialRounds \in Nat /\ TreeDepth \in Nat

Fr == 0 .. FieldOrder - 1
FrBytes == (0 .. Base - 1) \X (0 .. Base - 1)

\* Big-endian; decoding reduces modulo the order.
FrToBytes(x) == <<x \div Base, x % Base>>
FrFromBytes(b) == (b[1] * Base + b[2]) % FieldOrder

\* The comparison of two arrays with FR_MINUS_ONE is lexicographic.
Canonical(b) ==
    LET max == FrToBytes(FieldOrder - 1)
    IN  b[1] < max[1] \/ (b[1] = max[1] /\ b[2] <= max[2])

-----------------------------------------------------------------------------
WIDTH == 3
Lanes == 1 .. WIDTH
Rounds == FullRounds + PartialRounds

Add(s, row) == [i \in Lanes |-> (s[i] + row[i]) % FieldOrder]

Mix(mds, s) ==
    [i \in Lanes |-> (mds[i][1] * s[1] + mds[i][2] * s[2] + mds[i][3] * s[3]) % FieldOrder]

Full(round) == round < FullRounds \div 2 \/ round >= FullRounds \div 2 + PartialRounds

\* All lanes in a full round, the first in a partial one.
Substitute(sbox, round, s) ==
    IF Full(round) THEN [i \in Lanes |-> sbox[s[i]]] ELSE [s EXCEPT ![1] = sbox[@]]

\* poseidon::permute and hash2 of the circuits crate.
Pow5 == [x \in Fr |-> (((x * x) % FieldOrder) * ((x * x) % FieldOrder) * x) % FieldOrder]
NativeRounds(params, state) ==
    LET after[round \in 0 .. Rounds] ==
          IF round = 0 THEN state
          ELSE Mix(params.mds, Substitute(Pow5, round - 1, Add(after[round - 1], params.ark[round])))
    IN  after
NativePermute(params, state) == NativeRounds(params, state)[Rounds]
NativeHash2(params, l, r) == NativePermute(params, <<0, l, r>>)[1]

\* The same over constraint variables: two squarings and a product.
GadgetSBox == [x \in Fr |->
    LET x2 == (x * x) % FieldOrder
        x4 == (x2 * x2) % FieldOrder
    IN  (x4 * x) % FieldOrder]
GadgetRounds(params, state) ==
    LET after[round \in 0 .. Rounds] ==
          IF round = 0 THEN state
          ELSE Mix(params.mds, Substitute(GadgetSBox, round - 1, Add(after[round - 1], params.ark[round])))
    IN  after
GadgetPermute(params, state) == GadgetRounds(params, state)[Rounds]
GadgetHash2(params, l, r) == GadgetPermute(params, <<0, l, r>>)[1]

\* MerkleTree::new of the prover.
NativeZeros(params) ==
    LET zero[level \in 0 .. TreeDepth] ==
          IF level = 0 THEN 0 ELSE NativeHash2(params, zero[level - 1], zero[level - 1])
    IN  zero

-----------------------------------------------------------------------------
\* The tables of poseidon_params.rs, as emit_poseidon_params computes them.
ARK(params) == [round \in 1 .. Rounds |-> [i \in Lanes |-> FrToBytes(params.ark[round][i])]]
MDS(params) == [i \in Lanes |-> [j \in Lanes |-> FrToBytes(params.mds[i][j])]]
\* Mutation: one level short.
M_ZEROSFromLeafHash(params) ==
    [k \in 1 .. TreeDepth + 1 |-> FrToBytes(NativeZeros(params)[IF k = 1 THEN 0 ELSE k - 2])]

ZEROS(params) == [k \in 1 .. TreeDepth + 1 |-> FrToBytes(NativeZeros(params)[k - 1])]

\* Mutation: the full rounds all run first.
M_ContractFullFirst(round) == round < FullRounds

ContractFull(round) ==
    round < FullRounds \div 2 \/ round >= FullRounds \div 2 + PartialRounds

Decoded(row) == [i \in Lanes |-> FrFromBytes(row[i])]
ContractSubstitute(round, s) ==
    IF ContractFull(round) THEN [i \in Lanes |-> Pow5[s[i]]] ELSE [s EXCEPT ![1] = Pow5[@]]

\* The contract: one round per row of its table, constants decoded on the way.
ContractRounds(ark, mds, state) ==
    LET matrix == [i \in Lanes |-> Decoded(mds[i])]
        after[round \in 0 .. Len(ark)] ==
          IF round = 0 THEN state
          ELSE Mix(matrix, ContractSubstitute(round - 1, Add(after[round - 1], Decoded(ark[round]))))
    IN  after
ContractPermute(ark, mds, state) == ContractRounds(ark, mds, state)[Len(ark)]

\* Byte strings in, byte string out.
ContractHash2(ark, mds, left, right) ==
    FrToBytes(ContractPermute(ark, mds, <<0, FrFromBytes(left), FrFromBytes(right)>>)[1])
=============================================================================
