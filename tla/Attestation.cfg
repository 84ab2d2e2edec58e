\* One claim, two credentials, a registry whose issuers come and go, and an admin
\* handoff that falls due as the last ledger closes.
SPECIFICATION FairSpec
CONSTANTS
    i1 = i1  s1 = s1  s2 = s2  a1 = a1
    alice = alice  kyc = kyc  r1 = r1  r2 = r2  vKyc = vKyc
    Issuers = {i1}
    SigningKeys = {s1, s2}
    Admins = {a1}
    InitialAdmin = a1
    Delay = 1
    U64Max = 4
    MaxActionId = 3
    Users = {alice}
    ClaimTypes = {kyc}
    KindOf <- OneKind
    Verifiers = {vKyc}
    CircuitOf <- OneCircuit
    Credentials <- TwoCredentials
    Encodings = {0, 1}
    RotationDelay = 4
INVARIANTS TypeOK RevocationHolds BackedByCredential
PROPERTIES  AttestationsRunOut
CHECK_DEADLOCK FALSE
