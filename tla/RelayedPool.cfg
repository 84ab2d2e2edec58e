\* Bundles in flight against deposits, transfers and withdrawals of two owners
\* and rotations; dummies as the tests make them, at leaf index 0.
SPECIFICATION RelaySpec
CONSTANTS
    u1 = u1  pool = pool  k1 = k1  k2 = k2  d1 = d1
    a1 = a1  vt = vt  vw = vw  vw2 = vw2
    Users = {u1}
    Pool = pool
    OwnerKeys = {k1, k2}
    DummyKeys = {d1}
    DummyIndices = {0}
    Encodings = {0, 1}
    NoteMax = 1
    Amounts <- SmallAmounts
    Capacity = 4
    Shapes <- TwoTwo
    CircuitOf <- Pinned
    InitialBalance = 1
    Gated = FALSE
    Admins = {a1}
    Verifiers = {vt, vw, vw2}
    InitialAdmin = a1
    InitialVerifier <- Slots
    RotationDelay = 1
    U64Max = 1
    MaxBundles = 2
 
PROPERTIES PaidAsProven 
CHECK_DEADLOCK FALSE
