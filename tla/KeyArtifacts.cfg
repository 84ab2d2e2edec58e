\* Two builders, each of either version of the sources, killed anywhere,
\* and one damaged line; 13 scalars under 16 byte strings.
SPECIFICATION Spec
CONSTANTS
    b1 = b1  wip = wip
    FieldOrder = 13
    CoordOrder = 17
    Base = 4
    FullRounds = 4
    PartialRounds = 3
    TreeDepth = 3
    Garbage = Garbage
    Short = Short
    Builds = {b1, wip}
    Setup <- SomeSetup
    Parameters <- SomeParameters
    Inputs <- SomeInputs
    Proofs <- SomeProofs
    Encodings <- SomeEncodings
    Tears <- SomeTears
    MaxBuilds = 2
    MaxDamage = 1
INVARIANTS  ManifestVouchesOneBuild  FinishedBuildIsConsistent ContractHashIsProtocolHash
CHECK_DEADLOCK FALSE
