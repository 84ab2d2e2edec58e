------------------------------ MODULE GatedPool ------------------------------
(***************************************************************************)
(* A shielded pool deployed with an attestation gate, composed with the    *)
(* attestation registry and the issuer registry behind it: three contracts *)
(* on one ledger with one clock.  Where module ShieldedPool lets the       *)
(* gate's answers change at will, here they are what the registry says.    *)
(***************************************************************************)
EXTENDS AttestationRegistry, Sequences, FiniteSets

CONSTANTS
    GateClaim,          \* GateConfig::required_claim
    Pool,
    OwnerKeys, DummyKeys, DummyIndices,
    NoteMax, Amounts, Capacity, Shapes,
    PoolAdmins, InitialPoolAdmin,
    PoolVerifiers, InitialVerifier, PoolCircuitOf,
    PoolDelay,
    InitialBalance

ASSUME GateAssumption ==
    /\ GateClaim \in ClaimTypes
    /\ Pool \notin Users
    /\ DummyIndices \subseteq 0 .. Capacity - 1
    /\ Amounts \subseteq Int
    /\ Shapes \subseteq (Nat \X Nat)
    /\ NoteMax \in Nat /\ Capacity \in Nat
    /\ InitialBalance \in Nat /\ PoolDelay \in Nat
    /\ PoolCircuitOf \in [PoolVerifiers -> {"transfer", "withdraw"}]
    /\ InitialPoolAdmin \in PoolAdmins
    /\ InitialVerifier \in [{"Transfer", "Withdraw"} -> PoolVerifiers]

VARIABLES
    poolAdmin, verifier, pending,
    balance, leaves, knownRoots, nullifiers

poolVars == <<poolAdmin, verifier, pending, balance, leaves, knownRoots, nullifiers>>
gatedVars == <<vars, poolVars>>

\* Users the gate lets in: AttestationClient::check for the required claim.
Attested == {u \in Users : Check(u, GateClaim)}

P == INSTANCE ShieldedPoolProps WITH
    admin         <- poolAdmin,
    Admins        <- PoolAdmins,
    InitialAdmin  <- InitialPoolAdmin,
    Verifiers     <- PoolVerifiers,
    CircuitOf     <- PoolCircuitOf,
    RotationDelay <- PoolDelay,
    attested      <- Attested,
    Gated         <- TRUE

GatedInit == Init /\ P!Init

\* A call of the pool: it reads the registries and changes nothing there.
PoolCall ==
    /\ UNCHANGED vars
    /\ \/ P!LedgerCall
       \/ P!GovCall /\ UNCHANGED <<balance, leaves, knownRoots, nullifiers>>

\* A call of a registry, or a later ledger.
RegistryCall == Next /\ UNCHANGED poolVars

GatedNext == PoolCall \/ RegistryCall

GatedSpec == GatedInit /\ [][GatedNext]_gatedVars

-----------------------------------------------------------------------------
\* Funds enter the pool only from somebody who at that moment holds a credential
\* for the required claim that has not run out and is not revoked, whatever was
\* revoked, re-presented, rerouted or rekeyed before in the registries.
DepositsAreBacked ==
    [][\A u \in Users : balance'[u] < balance[u] /\ leaves' # leaves =>
          \E cred \in Credentials :
             /\ cred.subject = u /\ cred.claim = GateClaim
             /\ now <= cred.expiry
             /\ Field(cred.ref) \notin revoked]_gatedVars

\* The gate is shut, to everybody and for good, once no credential for the claim
\* is left that is neither revoked nor run out; and even then every unspent note
\* can be withdrawn by its owner.
GateShut ==
    \A cred \in Credentials : cred.claim = GateClaim =>
       now > cred.expiry \/ Field(cred.ref) \in revoked
ShutGateHoldsNoNotes ==
    GateShut => Attested = {} /\ P!EveryNoteCanExit
=============================================================================
