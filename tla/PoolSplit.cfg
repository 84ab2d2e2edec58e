\* README.md: a transfer creates exactly two notes.
SPECIFICATION Spec
CONSTANTS
    u1 = u1  pool = pool  k1 = k1  k2 = k2  d1 = d1
    a1 = a1  a2 = a2  vt = vt  vw = vw  vw2 = vw2
    Users = {u1}
    Pool = pool
    OwnerKeys = {k1}
    DummyKeys = {d1}
    DummyIndices = {0, 1}
    Encodings = {0, 1}
    NoteMax = 1
    Amounts <- SmallAmounts
    Capacity = 4
    Shapes <- AnySplit
    CircuitOf <- Pinned
    InitialBalance = 2
    Gated = FALSE
    Admins = {a1}
    Verifiers = {vt, vw, vw2}
    InitialAdmin = a1
    InitialVerifier <- Slots
    RotationDelay = 1
    U64Max = 0
PROPERTIES TransferCreatesTwoNotes
CHECK_DEADLOCK FALSE
