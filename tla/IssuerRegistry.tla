--------------------------- MODULE IssuerRegistry ---------------------------
(***************************************************************************)
(* The governance-curated list of credential issuers and their signing     *)
(* keys.  Every change is queued as an action with an id of its own and    *)
(* executed, if it still applies, once its timelock has elapsed; several   *)
(* actions about the same issuer or key may be pending at once.            *)
(***************************************************************************)
EXTENDS Integers

CONSTANTS
    Issuers,        \* issuer addresses
    SigningKeys,
    Admins,
    InitialAdmin,
    Delay,
    U64Max,         \* u64::MAX: no timestamp and no eta exceeds it
    MaxActionId     \* the action ids end here: u64::MAX in the code

\* The Action enum; the issuer's display name is dropped.
Action ==
    [kind : {"AddIssuer", "RotateKey"}, issuer : Issuers, key : SigningKeys]
    \cup [kind : {"RemoveIssuer", "ReactivateIssuer"}, issuer : Issuers]
    \cup [kind : {"RotateAdmin"}, admin : Admins]

ASSUME RegistryAssumption ==
    /\ InitialAdmin \in Admins
    /\ Delay \in Nat
    /\ U64Max \in Nat
    /\ MaxActionId \in Nat

VARIABLES
    admin,
    actions,        \* DataKey::Pending: id |-> [action, eta], pending ids only
    nextActionId,
    issuer,         \* DataKey::Issuer: address |-> [key, active], ever added
    keyOwner,       \* DataKey::KeyOwner: signing key |-> address, claimed keys
    now             \* the ledger timestamp

registryVars == <<admin, actions, nextActionId, issuer, keyOwner>>
registryState == <<registryVars, now>>

NoKeys == [k \in {} |-> 0]

RegistryInit ==
    /\ admin = InitialAdmin
    /\ actions = NoKeys
    /\ nextActionId = 0
    /\ issuer = NoKeys
    /\ keyOwner = NoKeys
    /\ now = 0

-----------------------------------------------------------------------------
\* A storage map with key k set to v, or removed.
Put(f, k, v) == [x \in DOMAIN f \cup {k} |-> IF x = k THEN v ELSE f[x]]
Drop(f, k) == [x \in DOMAIN f \ {k} |-> f[x]]

\* The queries other contracts use.
IsIssuer(i) == i \in DOMAIN issuer /\ issuer[i].active
IsKeyActive(k) == k \in DOMAIN keyOwner /\ IsIssuer(keyOwner[k])

-----------------------------------------------------------------------------
\* Mutation: the eta may exceed the width.
M_EtaUnchecked == TRUE

\* now + delay is a u64 addition with overflow checks on.
EtaFits == now + Delay <= U64Max

\* Mutation: the action id is not advanced.
M_QueueSameId(caller, action) ==
    /\ caller = admin
    /\ EtaFits
    /\ actions' = Put(actions, nextActionId, [action |-> action, eta |-> now + Delay])
    /\ UNCHANGED <<admin, nextActionId, issuer, keyOwner, now>>

Queue(caller, action) ==
    /\ caller = admin
    /\ EtaFits
    /\ nextActionId < MaxActionId
    /\ actions' = Put(actions, nextActionId, [action |-> action, eta |-> now + Delay])
    /\ nextActionId' = nextActionId + 1
    /\ UNCHANGED <<admin, issuer, keyOwner, now>>

Cancel(caller, id) ==
    /\ caller = admin
    /\ id \in DOMAIN actions
    /\ actions' = Drop(actions, id)
    /\ UNCHANGED <<admin, nextActionId, issuer, keyOwner, now>>

\* Mutation: a key may be claimed twice.
M_ClaimAnyKey(k) == TRUE

\* A key is claimed by one issuer at a time, active or not.
ClaimKey(k) == k \notin DOMAIN keyOwner

\* An address is added once: a removed issuer comes back by reactivation only.
AddIssuer(i, k) ==
    /\ i \notin DOMAIN issuer
    /\ ClaimKey(k)
    /\ keyOwner' = Put(keyOwner, k, i)
    /\ issuer' = Put(issuer, i, [key |-> k, active |-> TRUE])
    /\ UNCHANGED admin

\* Removal keeps the record and the key's claim.
RemoveIssuer(i) ==
    /\ i \in DOMAIN issuer
    /\ issuer' = [issuer EXCEPT ![i].active = FALSE]
    /\ UNCHANGED <<admin, keyOwner>>

\* The new key is claimed before the old one is released; an inactive issuer's
\* key rotates as well.
RotateKey(i, k) ==
    /\ i \in DOMAIN issuer
    /\ ClaimKey(k)
    /\ keyOwner' = Drop(Put(keyOwner, k, i), issuer[i].key)
    /\ issuer' = [issuer EXCEPT ![i].key = k]
    /\ UNCHANGED admin

ReactivateIssuer(i) ==
    /\ i \in DOMAIN issuer
    /\ ~issuer[i].active
    /\ issuer' = [issuer EXCEPT ![i].active = TRUE]
    /\ UNCHANGED <<admin, keyOwner>>

RotateAdmin(newAdmin) ==
    /\ admin' = newAdmin
    /\ UNCHANGED <<issuer, keyOwner>>

Effect(a) ==
    \/ a.kind = "AddIssuer" /\ AddIssuer(a.issuer, a.key)
    \/ a.kind = "RemoveIssuer" /\ RemoveIssuer(a.issuer)
    \/ a.kind = "RotateKey" /\ RotateKey(a.issuer, a.key)
    \/ a.kind = "ReactivateIssuer" /\ ReactivateIssuer(a.issuer)
    \/ a.kind = "RotateAdmin" /\ RotateAdmin(a.admin)

\* Mutation: the eta is not looked at.
M_DueAlways(id) == TRUE

Due(id) == now >= actions[id].eta

\* When the effect panics the removal of the pending action is undone with it:
\* an action that no longer applies stays pending.
Execute(caller, id) ==
    /\ caller = admin
    /\ id \in DOMAIN actions
    /\ Due(id)
    /\ actions' = Drop(actions, id)
    /\ Effect(actions[id].action)
    /\ UNCHANGED <<nextActionId, now>>

LedgerClose ==
    /\ now' \in now + 1 .. U64Max
    /\ UNCHANGED registryVars

RegistryNext ==
    \/ \E caller \in Admins : \/ \E a \in Action : Queue(caller, a)
                              \/ \E id \in DOMAIN actions : Cancel(caller, id)
                              \/ \E id \in DOMAIN actions : Execute(caller, id)
    \/ LedgerClose

RegistrySpec == RegistryInit /\ [][RegistryNext]_registryState

-----------------------------------------------------------------------------
\* Types of the registry's state; pending ids were handed out, and no eta
\* exceeds the u64 width.
RegistryTypeOK ==
    /\ admin \in Admins
    /\ DOMAIN actions \subseteq 0 .. nextActionId - 1
    /\ \A id \in DOMAIN actions : actions[id] \in [action : Action, eta : Delay .. U64Max]
    /\ nextActionId \in 0 .. MaxActionId
    /\ DOMAIN issuer \subseteq Issuers
    /\ \A i \in DOMAIN issuer : issuer[i] \in [key : SigningKeys, active : BOOLEAN]
    /\ DOMAIN keyOwner \subseteq SigningKeys
    /\ \A k \in DOMAIN keyOwner : keyOwner[k] \in Issuers
    /\ now \in 0 .. U64Max

\* The reverse index agrees with the records: a key is claimed exactly by the
\* issuer whose record names it, however additions, rotations (also of removed
\* issuers) and stale or failing actions are ordered.  Hence no two issuers
\* share a key and no released key still validates.
KeysConsistent ==
    \A k \in SigningKeys, i \in Issuers :
       (k \in DOMAIN keyOwner /\ keyOwner[k] = i) <=> (i \in DOMAIN issuer /\ issuer[i].key = k)

\* A pending action is never replaced or rescheduled, only executed or
\* canceled, and a new one never takes effect sooner than a full delay on:
\* what integrators watch is what will happen.
EntriesStand ==
    \A id \in DOMAIN actions' :
       IF id \in DOMAIN actions THEN actions'[id] = actions[id]
                                ELSE actions'[id].eta >= now + Delay
QueuedAsAnnounced == [][EntriesStand]_registryState

\* Which keys credentials verify against changes only when a pending action
\* that names the key's issuer, before or after, is due and leaves the queue.
TrustMovesWhenDue ==
    \A k \in SigningKeys : IsKeyActive(k) # IsKeyActive(k)' =>
       \E id \in DOMAIN actions \ DOMAIN actions' :
          LET a == actions[id].action
          IN  /\ now >= actions[id].eta
              /\ a.kind # "RotateAdmin"
              /\ \/ k \in DOMAIN keyOwner /\ keyOwner[k] = a.issuer
                 \/ k \in DOMAIN keyOwner' /\ keyOwner'[k] = a.issuer
TrustChangesAnnounced == [][TrustMovesWhenDue]_registryState
=============================================================================
