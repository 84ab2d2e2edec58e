\* The note ledger alone: with a timestamp range of one value no rotation can
\* be queued.
SPECIFICATION Spec
CONSTANTS
    u1 = u1  pool = pool  k1 = k1  k2 = k2  d1 = d1
    a1 = a1  a2 = a2  vt = vt  vw = vw  vw2 = vw2
    Users = {u1}
    Pool = pool
    OwnerKeys = {k1, k2}
    DummyKeys = {d1}
    DummyIndices = {0, 1}
    Encodings = {0, 1}
    NoteMax = 2
    Amounts <- SmallAmounts
    Capacity = 5
    Shapes <- TwoTwo
    CircuitOf <- Pinned
    InitialBalance = 2
    Gated = FALSE
    Admins = {a1}
    Verifiers = {vt, vw, vw2}
    InitialAdmin = a1
    InitialVerifier <- Slots
    RotationDelay = 1
    U64Max = 0
INVARIANTS TypeOK  SpentOnce KnownRootsArePast 
PROPERTIES  ImplementsLedger
CHECK_DEADLOCK FALSE
