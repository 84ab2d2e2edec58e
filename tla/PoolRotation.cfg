\* A small ledger under rotating verifiers, admins and attestations: both circuits
\* in either slot.  Owners may use their own key for a dummy, at any index.
SPECIFICATION Spec
CONSTANTS
    u1 = u1  pool = pool  k1 = k1  k2 = k2  d1 = d1
    a1 = a1  a2 = a2  vt = vt  vw = vw  vw2 = vw2
    Users = {u1}
    Pool = pool
    OwnerKeys = {k1}
    DummyKeys = {k1, d1}
    DummyIndices = {0, 1, 2}
    Encodings = {0, 1}
    NoteMax = 1
    Amounts <- SmallAmounts
    Capacity = 3
    Shapes <- TwoTwo
    CircuitOf <- Pinned
    InitialBalance = 2
    Gated = TRUE
    Admins = {a1, a2}
    Verifiers = {vt, vw, vw2}
    InitialAdmin = a1
    InitialVerifier <- Slots
    RotationDelay = 1
    U64Max = 1
INVARIANTS  SpentOnce  
 
CHECK_DEADLOCK FALSE
