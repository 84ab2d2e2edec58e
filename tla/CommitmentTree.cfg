\* A tree of depth 3 and the circuits over a field of 11 elements with values of
\* 2 bits: every index and every sum of two values fits the field, just.
SPECIFICATION Spec
CONSTANTS
    c1 = c1  c2 = c2  c3 = c3  c4 = c4  zero = zero  other = other  k1 = k1  k2 = k2
    Depth = 3
    ZeroLeaf = zero
    Commitments = {c1, c2}
    FieldOrder = 11
    ValueBits = 2
    SpendingKeys = {k1, k2}
    Opening <- KnownOpenings
    Unopened = other
INVARIANTS RootIsMerkleRoot KnownRootsArePrefixes ProverTreeAgrees TransferCircuitIsRelation WithdrawCircuitIsRelation
CHECK_DEADLOCK FALSE
