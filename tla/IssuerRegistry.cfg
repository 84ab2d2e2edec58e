SPECIFICATION RegistrySpec
CONSTANTS
    i1 = i1  i2 = i2  s1 = s1  s2 = s2  a1 = a1  a2 = a2
    Issuers = {i1, i2}
    SigningKeys = {s1, s2}
    Admins = {a1, a2}
    InitialAdmin = a1
    Delay = 1
    U64Max = 2
    MaxActionId = 4
SYMMETRY Symmetry
INVARIANTS RegistryTypeOK KeysConsistent
PROPERTIES QueuedAsAnnounced TrustChangesAnnounced
CHECK_DEADLOCK FALSE
