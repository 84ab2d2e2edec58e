------------------------- MODULE AttestationRegistry -------------------------
(***************************************************************************)
(* The attestation registry together with the issuer registry it calls     *)
(* (by EXTENDS: one ledger, one clock).  Attestation circuits are not in   *)
(* the repository: a proof exists for the public inputs of present() when  *)
(* an issuer signed a matching credential that lasts at least as long.     *)
(***************************************************************************)
EXTENDS IssuerRegistry

CONSTANTS
    Users,
    ClaimTypes,
    KindOf,             \* ClaimType::kind: claim type |-> kind
    Verifiers,
    CircuitOf,          \* verifier |-> the kind whose circuit it pins
    Credentials,        \* [key, ref, claim, subject, expiry], signed off chain
    Encodings,          \* multiples of the field order added to a 32-byte input
    RotationDelay       \* of this registry's own admin handoff

Kinds == {KindOf[c] : c \in ClaimTypes}
Refs == {c.ref : c \in Credentials}

\* A 32-byte input: a field element and the multiple of the order added to it.
RefBytes == [elem : Refs, enc : Encodings]
Field(elem) == [elem |-> elem, enc |-> 0]

ASSUME AttestationAssumption ==
    /\ CircuitOf \in [Verifiers -> Kinds]
    /\ \A c \in Credentials :
          /\ c.key \in SigningKeys /\ c.claim \in ClaimTypes
          /\ c.subject \in Users /\ c.expiry \in Nat
    /\ 0 \in Encodings /\ Encodings \subseteq Nat
    /\ RotationDelay \in Nat

VARIABLES
    attestationAdmin,
    pendingAdmin,   \* DataKey::PendingAdminRotation: {} or one [admin, eta]
    verifierFor,    \* DataKey::Verifier: kind |-> verifier, routed kinds only
    attestation,    \* DataKey::Attestation: <<user, claim>> |-> [ref, expiresAt]
    revoked         \* DataKey::Revoked: keyed by 32 bytes

routeVars == <<attestationAdmin, pendingAdmin, verifierFor>>
attestationVars == <<routeVars, attestation, revoked>>
vars == <<registryState, attestationVars>>

Init ==
    /\ RegistryInit
    /\ attestationAdmin = InitialAdmin
    /\ pendingAdmin = {}
    /\ verifierFor = NoKeys
    /\ attestation = NoKeys
    /\ revoked = {}

-----------------------------------------------------------------------------
\* Mutation: expired only from the second ledger after the expiry on.
M_ExpiredLate(record) == now > record.expiresAt + 1

Expired(record) == now > record.expiresAt

\* Mutation: a revocation stops presentations only.
M_CheckForgetsRevocation(user, claim) ==
    /\ <<user, claim>> \in DOMAIN attestation
    /\ ~Expired(attestation[<<user, claim>>])

\* What other contracts ask; an attestation is valid through its expiry.
Check(user, claim) ==
    /\ <<user, claim>> \in DOMAIN attestation
    /\ ~Expired(attestation[<<user, claim>>])
    /\ attestation[<<user, claim>>].ref \notin revoked

\* Mutation: the credential reference is silently reduced into the field.
M_AnyRefEncoding(ref) == TRUE

CanonicalRef(ref) == ref.enc = 0

\* Mutation: the user is not bound into the statement.
M_UserNotBound(v, key, ref, claim, user, expiresAt) ==
    /\ CanonicalRef(ref)
    /\ CircuitOf[v] = KindOf[claim]
    /\ \E c \in Credentials : /\ c.key = key /\ c.ref = ref.elem /\ c.claim = claim
                             /\ expiresAt <= c.expiry

\* Mutation: the expiry presented is not bound to the credential's.
M_AnyExpiry(v, key, ref, claim, user, expiresAt) ==
    /\ CanonicalRef(ref)
    /\ CircuitOf[v] = KindOf[claim]
    /\ \E c \in Credentials : /\ c.key = key /\ c.ref = ref.elem
                             /\ c.claim = claim /\ c.subject = user

\* A verifier accepts the best proof the caller can have made for these inputs.
Verify(v, key, ref, claim, user, expiresAt) ==
    /\ CanonicalRef(ref)
    /\ CircuitOf[v] = KindOf[claim]
    /\ \E c \in Credentials :
          /\ c.key = key /\ c.ref = ref.elem
          /\ c.claim = claim /\ c.subject = user
          /\ expiresAt <= c.expiry

\* Mutation: the issuer key is not looked up.
M_KeyAlwaysActive(key) == TRUE

KeyAccepted(key) == IsKeyActive(key)
NotRevoked(ref) == ref \notin revoked

\* The user signs.  A second presentation of a claim replaces the first.
Present(user, claim, key, ref, expiresAt) ==
    /\ expiresAt > now
    /\ KeyAccepted(key)
    /\ NotRevoked(ref)
    /\ KindOf[claim] \in DOMAIN verifierFor
    /\ Verify(verifierFor[KindOf[claim]], key, ref, claim, user, expiresAt)
    /\ attestation' = Put(attestation, <<user, claim>>, [ref |-> ref, expiresAt |-> expiresAt])
    /\ UNCHANGED <<registryState, routeVars, revoked>>

\* Any active issuer may revoke any reference, also one that is not canonical.
RevokeCredential(i, ref) ==
    /\ IsIssuer(i)
    /\ revoked' = revoked \cup {ref}
    /\ UNCHANGED <<registryState, routeVars, attestation>>

\* No timelock of its own: the admin is expected to be one.
SetVerifier(caller, kind, v) ==
    /\ caller = attestationAdmin
    /\ verifierFor' = Put(verifierFor, kind, v)
    /\ UNCHANGED <<registryState, attestationAdmin, pendingAdmin, attestation, revoked>>

-----------------------------------------------------------------------------
QueueAdminRotation(caller, newAdmin) ==
    /\ caller = attestationAdmin
    /\ now + RotationDelay <= U64Max
    /\ pendingAdmin' = {[admin |-> newAdmin, eta |-> now + RotationDelay]}
    /\ UNCHANGED <<registryState, attestationAdmin, verifierFor, attestation, revoked>>

CancelAdminRotation(caller) ==
    /\ caller = attestationAdmin
    /\ pendingAdmin # {}
    /\ pendingAdmin' = {}
    /\ UNCHANGED <<registryState, attestationAdmin, verifierFor, attestation, revoked>>

\* Mutation: due one second early.
M_HandoffDueEarly(p) == now + 1 >= p.eta

HandoffDue(p) == now >= p.eta

\* The outgoing admin signs.
ExecuteAdminRotation(caller) ==
    /\ caller = attestationAdmin
    /\ \E p \in pendingAdmin : HandoffDue(p) /\ attestationAdmin' = p.admin
    /\ pendingAdmin' = {}
    /\ UNCHANGED <<registryState, verifierFor, attestation, revoked>>

\* Present is called with any arguments, at any time and any number of times.
AttestationNext ==
    \/ \E u \in Users, c \in ClaimTypes, k \in SigningKeys, ref \in RefBytes,
          expiresAt \in 0 .. U64Max : Present(u, c, k, ref, expiresAt)
    \/ \E i \in Issuers, ref \in RefBytes : RevokeCredential(i, ref)
    \/ \E caller \in Admins :
          \/ \E kind \in Kinds, v \in Verifiers : SetVerifier(caller, kind, v)
          \/ \E a \in Admins : QueueAdminRotation(caller, a)
          \/ CancelAdminRotation(caller)
          \/ ExecuteAdminRotation(caller)

Next ==
    \/ RegistryNext /\ UNCHANGED attestationVars
    \/ AttestationNext

Spec == Init /\ [][Next]_vars

\* Ledgers keep closing; nobody has to call anything.
FairSpec == Spec /\ WF_vars(LedgerClose /\ UNCHANGED attestationVars)

-----------------------------------------------------------------------------
\* Types of the registry's state; every recorded reference is canonical.
TypeOK ==
    /\ RegistryTypeOK
    /\ attestationAdmin \in Admins
    /\ pendingAdmin \subseteq [admin : Admins, eta : RotationDelay .. U64Max]
    /\ \A p, q \in pendingAdmin : p = q
    /\ DOMAIN verifierFor \subseteq Kinds
    /\ \A k \in DOMAIN verifierFor : verifierFor[k] \in Verifiers
    /\ DOMAIN attestation \subseteq Users \X ClaimTypes
    /\ \A uc \in DOMAIN attestation :
          attestation[uc] \in [ref : {Field(r) : r \in Refs}, expiresAt : 1 .. U64Max]
    /\ revoked \subseteq RefBytes

\* Once the canonical reference of a credential is revoked, no attestation made
\* from that credential checks, before or after, under any encoding.
RevocationHolds ==
    \A u \in Users, c \in ClaimTypes :
       Check(u, c) => Field(attestation[<<u, c>>].ref.elem) \notin revoked

\* Whoever checks holds a credential about that very claim that has not run out:
\* an attestation neither outlives its credential nor moves to another user.
BackedByCredential ==
    \A u \in Users, c \in ClaimTypes :
       Check(u, c) => \E cred \in Credentials :
                         /\ cred.subject = u /\ cred.claim = c
                         /\ cred.ref = attestation[<<u, c>>].ref.elem
                         /\ now <= cred.expiry

\* A user starts to check only by presenting a credential whose issuer's key is
\* active in the issuer registry at that moment and whose reference is not
\* revoked: no lapse of time, rotation, reactivation, re-routing or revocation
\* makes an attestation valid (again).
GrantNeedsActiveIssuer ==
    [][\A u \in Users, c \in ClaimTypes :
          ~Check(u, c) /\ Check(u, c)' =>
             \E cred \in Credentials :
                /\ cred.subject = u /\ cred.claim = c
                /\ IsKeyActive(cred.key)
                /\ Field(cred.ref) \notin revoked
                /\ cred.expiry > now]_vars

\* Unless somebody signed a credential without end, every attestation runs out for
\* good by the mere passing of time: nothing can extend it past its credential.
AttestationsRunOut ==
    (\A cred \in Credentials : cred.expiry < U64Max) =>
       \A u \in Users, c \in ClaimTypes : <>[]~Check(u, c)

\* The admin handoff implements the announced-for-the-full-delay promise.
HandoffPromise == INSTANCE Timelock WITH
    Items     <- {"Admin"},
    Values    <- Admins,
    Delay     <- RotationDelay,
    setting   <- [i \in {"Admin"} |-> attestationAdmin],
    announced <- [i \in {x \in {"Admin"} : pendingAdmin # {}} |->
                     LET p == CHOOSE p \in pendingAdmin : TRUE
                     IN  [target |-> p.admin, since |-> p.eta - RotationDelay]],
    clock     <- now

\* Nobody becomes admin of the attestation registry who was not announced for
\* the whole delay, however the handoffs are queued, requeued and canceled.
HandoffImplementsTimelock == HandoffPromise!Spec
=============================================================================
