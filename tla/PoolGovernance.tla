--------------------------- MODULE PoolGovernance ---------------------------
(***************************************************************************)
(* The governance half of the shielded pool contract: the two verifier     *)
(* slots, the admin, and the timelocked rotation of each.  A contract call *)
(* is atomic and a panic undoes it, so every entry point is one action     *)
(* whose guard is the negation of its panics.                              *)
(***************************************************************************)
EXTENDS Integers

CONSTANTS
    Admins,             \* addresses that may hold or be offered the admin role
    Verifiers,          \* addresses of deployed zk_verifier instances
    InitialAdmin,
    InitialVerifier,    \* slot |-> verifier, fixed by the constructor
    RotationDelay,      \* seconds, fixed by the constructor
    U64Max              \* u64::MAX: no timestamp and no eta exceeds it

VerifierSlot == {"Transfer", "Withdraw"}

\* The storage keys under which a pending change may exist.
PendingKey == VerifierSlot \cup {"Admin"}

ASSUME GovernanceAssumption ==
    /\ InitialAdmin \in Admins
    /\ InitialVerifier \in [VerifierSlot -> Verifiers]
    /\ RotationDelay \in Nat
    /\ U64Max \in Nat

VARIABLES
    admin,
    verifier,   \* [VerifierSlot -> Verifiers]
    pending,    \* PendingRotation(slot) and PendingAdminRotation: present keys only
    now         \* the ledger timestamp

govVars == <<admin, verifier, pending, now>>

GovInit ==
    /\ admin = InitialAdmin
    /\ verifier = InitialVerifier
    /\ pending = << >>
    /\ now = 0

-----------------------------------------------------------------------------
\* Mutations: the eta is not checked against the u64 width; queueing again keeps
\* the running clock.
M_QueueUnchecked(key, target) ==
    pending' = [k \in DOMAIN pending \cup {key} |->
                   IF k = key THEN [target |-> target, eta |-> now + RotationDelay]
                              ELSE pending[k]]
M_QueueKeepsClock(key, target) ==
    pending' = [k \in DOMAIN pending \cup {key} |->
                   IF k \in DOMAIN pending THEN [pending[k] EXCEPT !.target =
                                                    IF k = key THEN target ELSE @]
                   ELSE [target |-> target, eta |-> now + RotationDelay]]

\* Storing a pending change under a key replaces the one already there.  The
\* eta is a u64 addition with overflow checks on, so past the width it panics.
Queue(key, target) ==
    /\ now + RotationDelay <= U64Max
    /\ pending' = [k \in DOMAIN pending \cup {key} |->
                      IF k = key THEN [target |-> target, eta |-> now + RotationDelay]
                                 ELSE pending[k]]

Remove(key) == pending' = [k \in DOMAIN pending \ {key} |-> pending[k]]

TimelockElapsed(key) == now >= pending[key].eta

\* Each entry point starts with admin.require_auth(): caller signed the call.
QueueVerifierRotation(caller, slot, newVerifier) ==
    /\ caller = admin
    /\ Queue(slot, newVerifier)
    /\ UNCHANGED <<admin, verifier, now>>

CancelVerifierRotation(caller, slot) ==
    /\ caller = admin
    /\ slot \in DOMAIN pending
    /\ Remove(slot)
    /\ UNCHANGED <<admin, verifier, now>>

ExecuteVerifierRotation(caller, slot) ==
    /\ caller = admin
    /\ slot \in DOMAIN pending
    /\ TimelockElapsed(slot)
    /\ Remove(slot)
    /\ verifier' = [verifier EXCEPT ![slot] = pending[slot].target]
    /\ UNCHANGED <<admin, now>>

QueueAdminRotation(caller, newAdmin) ==
    /\ caller = admin
    /\ Queue("Admin", newAdmin)
    /\ UNCHANGED <<admin, verifier, now>>

CancelAdminRotation(caller) ==
    /\ caller = admin
    /\ "Admin" \in DOMAIN pending
    /\ Remove("Admin")
    /\ UNCHANGED <<admin, verifier, now>>

\* The outgoing admin signs: the incoming one cannot take the role by itself.
ExecuteAdminRotation(caller) ==
    /\ caller = admin
    /\ "Admin" \in DOMAIN pending
    /\ TimelockElapsed("Admin")
    /\ Remove("Admin")
    /\ admin' = pending["Admin"].target
    /\ UNCHANGED <<verifier, now>>

\* A later ledger: timestamps of successive ledgers increase.
LedgerClose ==
    /\ now' \in now + 1 .. U64Max
    /\ UNCHANGED <<admin, verifier, pending>>

GovCall ==
    \/ \E caller \in Admins, slot \in VerifierSlot :
          \/ \E v \in Verifiers : QueueVerifierRotation(caller, slot, v)
          \/ CancelVerifierRotation(caller, slot)
          \/ ExecuteVerifierRotation(caller, slot)
    \/ \E caller \in Admins :
          \/ \E a \in Admins : QueueAdminRotation(caller, a)
          \/ CancelAdminRotation(caller)
          \/ ExecuteAdminRotation(caller)

GovNext == GovCall \/ LedgerClose

GovSpec == GovInit /\ [][GovNext]_govVars

\* Ledgers keep closing, and whoever is admin keeps calling execute on what is
\* pending: no call of anybody else has to happen.
GovFairSpec ==
    /\ GovSpec
    /\ WF_govVars(LedgerClose)
    /\ \A slot \in VerifierSlot :
          WF_govVars(\E caller \in Admins : ExecuteVerifierRotation(caller, slot))
    /\ WF_govVars(\E caller \in Admins : ExecuteAdminRotation(caller))

-----------------------------------------------------------------------------
\* What a pending change under the key may name.
Target(key) == IF key = "Admin" THEN Admins ELSE Verifiers

\* Types of the governance state; an eta never exceeds the u64 width.
GovTypeOK ==
    /\ admin \in Admins
    /\ verifier \in [VerifierSlot -> Verifiers]
    /\ DOMAIN pending \subseteq PendingKey
    /\ \A k \in DOMAIN pending :
          pending[k] \in [target : Target(k), eta : RotationDelay .. U64Max]
    /\ now \in 0 .. U64Max

\* The pool's settings implement the announced-for-the-full-delay promise: an
\* announcement was made RotationDelay before the eta stored with it.
Promise == INSTANCE Timelock WITH
    Items     <- PendingKey,
    Values    <- Verifiers \cup Admins,
    Delay     <- RotationDelay,
    setting   <- [k \in PendingKey |-> IF k = "Admin" THEN admin ELSE verifier[k]],
    announced <- [k \in DOMAIN pending |->
                     [target |-> pending[k].target, since |-> pending[k].eta - RotationDelay]],
    clock     <- now

\* Every verifier or admin in force was announced for the whole delay, however
\* queueing, re-queueing, cancelling and handoffs interleave.
ImplementsTimelock == Promise!Spec

\* Nothing announced gets stuck: across cancellations and handoffs, a change due
\* at some eta leaves the queue, or is announced anew with another eta, since the
\* eta stored is always a time that comes.
PendingAt(k, eta) == k \in DOMAIN pending /\ pending[k].eta = eta
PendingResolves ==
    \A k \in PendingKey, eta \in 0 .. U64Max + RotationDelay :
       PendingAt(k, eta) ~> ~PendingAt(k, eta)
=============================================================================
