SPECIFICATION GovFairSpec
CONSTANTS
    a1 = a1  a2 = a2  v1 = v1  v2 = v2
    Admins = {a1, a2}
    Verifiers = {v1, v2}
    InitialAdmin = a1
    InitialVerifier <- Slots
    RotationDelay = 2
    U64Max = 5
INVARIANTS GovTypeOK
PROPERTIES ImplementsTimelock 
CHECK_DEADLOCK FALSE
