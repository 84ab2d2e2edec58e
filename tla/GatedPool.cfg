\* Two claims routed to two verifiers, under an admin that is handed over, and a
\* pool that asks for one of them; the clock runs just long enough for the
\* credentials to run out and for a rotation of each kind to take effect.
SPECIFICATION GatedSpec
CONSTANTS
    i1 = i1  s1 = s1  a1 = a1  a2 = a2
    alice = alice  bob = bob  kyc = kyc  income = income  r1 = r1  r2 = r2
    vKyc = vKyc  vIncome = vIncome
    pool = pool  k1 = k1  d1 = d1  pa = pa  vt = vt  vw = vw
    Issuers = {i1}
    SigningKeys = {s1}
    Admins = {a1, a2}
    InitialAdmin = a1
    Delay = 0
    U64Max = 2
    MaxActionId = 1
    Users = {alice, bob}
    ClaimTypes = {kyc, income}
    KindOf <- Kind
    Verifiers = {vKyc, vIncome}
    CircuitOf <- Circuits
    Credentials <- TwoClaims
    Encodings = {0}
    RotationDelay = 1
    GateClaim = kyc
    Pool = pool
    OwnerKeys = {k1}
    DummyKeys = {d1}
    DummyIndices = {0}
    NoteMax = 1
    Amounts = {0, 1}
    Capacity = 2
    Shapes <- TwoTwo
    PoolAdmins = {pa}
    InitialPoolAdmin = pa
    PoolVerifiers = {vt, vw}
    InitialVerifier <- Slots
    PoolCircuitOf <- Pinned
    PoolDelay = 2
    InitialBalance = 1
 
PROPERTIES HandoffImplementsTimelock DepositsAreBacked
CHECK_DEADLOCK FALSE
