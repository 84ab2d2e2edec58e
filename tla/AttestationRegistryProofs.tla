---------------------- MODULE AttestationRegistryProofs ----------------------
(***************************************************************************)
(* For any users, claims, credentials, encodings and delays: attestations  *)
(* are backed by credentials, revocations hold, and only a presentation    *)
(* grants one.  The proofs build on those of the issuer registry, whose    *)
(* state this registry reads and never writes.                             *)
(***************************************************************************)
EXTENDS AttestationRegistry, TLAPS

-----------------------------------------------------------------------------
(* The issuer registry *)

\* The inductive invariant: the two facts need each other, since releasing the
\* old key of a rotation drops the right entry only if the index is right.
RegistryInv == RegistryTypeOK /\ KeysConsistent

\* The part of RegistryTypeOK that an executed action can disturb.
RecordsOK ==
    /\ admin \in Admins
    /\ DOMAIN issuer \subseteq Issuers
    /\ \A i \in DOMAIN issuer : issuer[i] \in [key : SigningKeys, active : BOOLEAN]
    /\ DOMAIN keyOwner \subseteq SigningKeys
    /\ \A k \in DOMAIN keyOwner : keyOwner[k] \in Issuers

-----------------------------------------------------------------------------
(* The effects of the five actions *)

LEMMA AddIssuerEffect ==
    ASSUME RecordsOK, KeysConsistent, NEW i \in Issuers, NEW k \in SigningKeys, AddIssuer(i, k)
    PROVE  RecordsOK' /\ KeysConsistent'
  <1>1. /\ i \notin DOMAIN issuer /\ k \notin DOMAIN keyOwner /\ admin' = admin
        /\ keyOwner' = Put(keyOwner, k, i)
        /\ issuer' = Put(issuer, i, [key |-> k, active |-> TRUE])
    BY DEF AddIssuer, ClaimKey
  <1>2. /\ DOMAIN keyOwner' = DOMAIN keyOwner \cup {k} /\ keyOwner'[k] = i
        /\ \A x \in DOMAIN keyOwner : keyOwner'[x] = keyOwner[x]
    BY <1>1 DEF Put
  <1>3. /\ DOMAIN issuer' = DOMAIN issuer \cup {i} /\ issuer'[i] = [key |-> k, active |-> TRUE]
        /\ \A j \in DOMAIN issuer : issuer'[j] = issuer[j]
    BY <1>1 DEF Put
  <1>4. RecordsOK'
    <2>1. issuer'[i] \in [key : SigningKeys, active : BOOLEAN]
      BY <1>3
    <2> QED BY <1>1, <1>2, <1>3, <2>1 DEF RecordsOK
  <1>5. KeysConsistent'
    <2>1. issuer'[i].key = k
      BY <1>3
    <2> SUFFICES ASSUME NEW x \in SigningKeys, NEW j \in Issuers
                 PROVE  (x \in DOMAIN keyOwner' /\ keyOwner'[x] = j)
                           <=> (j \in DOMAIN issuer' /\ issuer'[j].key = x)
      BY DEF KeysConsistent
    <2>2. (x \in DOMAIN keyOwner /\ keyOwner[x] = j) <=> (j \in DOMAIN issuer /\ issuer[j].key = x)
      BY DEF KeysConsistent
    <2>3. CASE x = k
      BY <1>1, <1>2, <1>3, <2>1, <2>2, <2>3
    <2>4. CASE x # k
      BY <1>1, <1>2, <1>3, <2>1, <2>2, <2>4
    <2> QED BY <2>3, <2>4
  <1> QED BY <1>4, <1>5

\* Removal and reactivation leave every record's key alone.
LEMMA ActivityEffect ==
    ASSUME RecordsOK, KeysConsistent, NEW i \in DOMAIN issuer, NEW on \in BOOLEAN,
           issuer' = [issuer EXCEPT ![i].active = on], UNCHANGED <<admin, keyOwner>>
    PROVE  RecordsOK' /\ KeysConsistent'
  <1>1. DOMAIN issuer' = DOMAIN issuer
    OBVIOUS
  <1>2. \A j \in DOMAIN issuer : /\ issuer'[j] \in [key : SigningKeys, active : BOOLEAN]
                                 /\ issuer'[j].key = issuer[j].key
    BY DEF RecordsOK
  <1>3. RecordsOK'
    BY <1>1, <1>2 DEF RecordsOK
  <1>4. KeysConsistent'
    BY <1>1, <1>2 DEF KeysConsistent
  <1> QED BY <1>3, <1>4

LEMMA RotateKeyEffect ==
    ASSUME RecordsOK, KeysConsistent, NEW i \in Issuers, NEW k \in SigningKeys, RotateKey(i, k)
    PROVE  RecordsOK' /\ KeysConsistent'
  <1> DEFINE old == issuer[i].key
             claimed == Put(keyOwner, k, i)
  <1>1. /\ i \in DOMAIN issuer /\ k \notin DOMAIN keyOwner /\ admin' = admin
        /\ keyOwner' = Drop(claimed, old)
        /\ issuer' = [issuer EXCEPT ![i].key = k]
    BY DEF RotateKey, ClaimKey
  <1>2. old \in SigningKeys /\ old \in DOMAIN keyOwner /\ keyOwner[old] = i /\ old # k
    BY <1>1 DEF RecordsOK, KeysConsistent
  <1>3. /\ DOMAIN keyOwner' = (DOMAIN keyOwner \cup {k}) \ {old}
        /\ keyOwner'[k] = i
        /\ \A x \in DOMAIN keyOwner : x # old => keyOwner'[x] = keyOwner[x]
    <2>1. /\ DOMAIN claimed = DOMAIN keyOwner \cup {k} /\ claimed[k] = i
          /\ \A x \in DOMAIN keyOwner : x # k => claimed[x] = keyOwner[x]
      BY DEF Put
    <2>2. /\ DOMAIN keyOwner' = DOMAIN claimed \ {old}
          /\ \A x \in DOMAIN claimed \ {old} : keyOwner'[x] = claimed[x]
      BY <1>1 DEF Drop
    <2> HIDE DEF claimed, old
    <2> QED BY <1>1, <1>2, <2>1, <2>2
  <1>4. /\ DOMAIN issuer' = DOMAIN issuer
        /\ \A j \in DOMAIN issuer : j # i => issuer'[j] = issuer[j]
        /\ issuer'[i].key = k
        /\ issuer'[i] \in [key : SigningKeys, active : BOOLEAN]
    BY <1>1 DEF RecordsOK
  <1> HIDE DEF claimed
  <1>5. RecordsOK'
    BY <1>1, <1>2, <1>3, <1>4 DEF RecordsOK
  <1>6. KeysConsistent'
    <2> SUFFICES ASSUME NEW x \in SigningKeys, NEW j \in Issuers
                 PROVE  (x \in DOMAIN keyOwner' /\ keyOwner'[x] = j)
                           <=> (j \in DOMAIN issuer' /\ issuer'[j].key = x)
      BY DEF KeysConsistent
    <2>1. (x \in DOMAIN keyOwner /\ keyOwner[x] = j) <=> (j \in DOMAIN issuer /\ issuer[j].key = x)
      BY DEF KeysConsistent
    <2>2. CASE x = k
      <3>1. j \in DOMAIN issuer => issuer[j].key # k
        BY <1>1, <2>1, <2>2
      <3> QED BY <1>1, <1>2, <1>3, <1>4, <2>2, <3>1
    <2>3. CASE x = old
      <3>1. x \notin DOMAIN keyOwner'
        BY <1>3, <2>3
      <3>2. j \in DOMAIN issuer /\ issuer[j].key = x => j = i
        BY <1>2, <2>1, <2>3
      <3> QED BY <1>2, <1>4, <2>3, <3>1, <3>2
    <2>4. CASE x # k /\ x # old
      BY <1>1, <1>3, <1>4, <2>1, <2>4
    <2> QED BY <2>2, <2>3, <2>4
  <1> QED BY <1>5, <1>6

LEMMA EffectStep ==
    ASSUME RecordsOK, KeysConsistent, NEW a \in Action, Effect(a)
    PROVE  RecordsOK' /\ KeysConsistent'
  <1>1. CASE a.kind = "AddIssuer" /\ AddIssuer(a.issuer, a.key)
    BY <1>1, AddIssuerEffect DEF Action
  <1>2. CASE a.kind = "RemoveIssuer" /\ RemoveIssuer(a.issuer)
    BY <1>2, ActivityEffect DEF RemoveIssuer
  <1>3. CASE a.kind = "RotateKey" /\ RotateKey(a.issuer, a.key)
    BY <1>3, RotateKeyEffect DEF Action
  <1>4. CASE a.kind = "ReactivateIssuer" /\ ReactivateIssuer(a.issuer)
    BY <1>4, ActivityEffect DEF ReactivateIssuer
  <1>5. CASE a.kind = "RotateAdmin" /\ RotateAdmin(a.admin)
    BY <1>5 DEF Action, RotateAdmin, RecordsOK, KeysConsistent
  <1> QED BY <1>1, <1>2, <1>3, <1>4, <1>5 DEF Effect

-----------------------------------------------------------------------------
(* Steps *)

LEMMA RegistryInitInv == RegistryInit => RegistryInv
  <1> SUFFICES ASSUME RegistryInit PROVE RegistryInv
    OBVIOUS
  <1>1. DOMAIN NoKeys = {}
    BY DEF NoKeys
  <1>2. RegistryTypeOK
    BY <1>1, RegistryAssumption DEF RegistryInit, RegistryTypeOK, RegistryAssumption
  <1>3. KeysConsistent
    BY <1>1 DEF RegistryInit, KeysConsistent
  <1> QED BY <1>2, <1>3 DEF RegistryInv

LEMMA QueueStep ==
    ASSUME RegistryInv, NEW caller \in Admins, NEW a \in Action, Queue(caller, a)
    PROVE  RegistryInv'
  <1>1. /\ now + Delay <= U64Max /\ nextActionId < MaxActionId
        /\ actions' = Put(actions, nextActionId, [action |-> a, eta |-> now + Delay])
        /\ nextActionId' = nextActionId + 1
        /\ UNCHANGED <<admin, issuer, keyOwner, now>>
    BY DEF Queue, EtaFits
  <1>2. /\ DOMAIN actions' = DOMAIN actions \cup {nextActionId}
        /\ actions'[nextActionId] = [action |-> a, eta |-> now + Delay]
        /\ \A id \in DOMAIN actions : id # nextActionId => actions'[id] = actions[id]
    BY <1>1 DEF Put
  <1>3. now \in Nat /\ nextActionId \in Nat /\ Delay \in Nat /\ U64Max \in Nat /\ MaxActionId \in Nat
    BY RegistryAssumption DEF RegistryAssumption, RegistryInv, RegistryTypeOK
  <1>4. now + Delay \in Delay .. U64Max
    BY <1>1, <1>3
  <1>5. DOMAIN actions' \subseteq 0 .. nextActionId' - 1 /\ nextActionId' \in 0 .. MaxActionId
    BY <1>1, <1>2, <1>3 DEF RegistryInv, RegistryTypeOK
  <1>6. \A id \in DOMAIN actions' : actions'[id] \in [action : Action, eta : Delay .. U64Max]
    BY <1>2, <1>4 DEF RegistryInv, RegistryTypeOK
  <1>7. RegistryTypeOK'
    BY <1>1, <1>5, <1>6 DEF RegistryInv, RegistryTypeOK
  <1> QED BY <1>1, <1>7 DEF RegistryInv, KeysConsistent

\* What canceling and executing do to the queue.
LEMMA DequeueType ==
    ASSUME RegistryTypeOK, NEW id, actions' = Drop(actions, id), UNCHANGED nextActionId
    PROVE  /\ DOMAIN actions' \subseteq 0 .. nextActionId' - 1
           /\ \A x \in DOMAIN actions' : actions'[x] \in [action : Action, eta : Delay .. U64Max]
  BY DEF RegistryTypeOK, Drop

LEMMA CancelStep ==
    ASSUME RegistryInv, NEW caller \in Admins, NEW id \in DOMAIN actions, Cancel(caller, id)
    PROVE  RegistryInv'
  BY DequeueType DEF RegistryInv, RegistryTypeOK, KeysConsistent, Cancel

LEMMA ExecuteStep ==
    ASSUME RegistryInv, NEW caller \in Admins, NEW id \in DOMAIN actions, Execute(caller, id)
    PROVE  RegistryInv'
  <1>1. /\ actions' = Drop(actions, id) /\ Effect(actions[id].action)
        /\ UNCHANGED <<nextActionId, now>>
    BY DEF Execute
  <1>2. actions[id].action \in Action
    BY DEF RegistryInv, RegistryTypeOK
  <1>3. RecordsOK /\ KeysConsistent
    BY DEF RegistryInv, RegistryTypeOK, RecordsOK
  <1>4. RecordsOK' /\ KeysConsistent'
    BY <1>1, <1>2, <1>3, EffectStep
  <1>5. RegistryTypeOK'
    BY <1>1, <1>4, DequeueType DEF RegistryInv, RegistryTypeOK, RecordsOK
  <1> QED BY <1>4, <1>5 DEF RegistryInv

LEMMA RegistryStep == RegistryInv /\ [RegistryNext]_registryState => RegistryInv'
  <1> SUFFICES ASSUME RegistryInv, [RegistryNext]_registryState PROVE RegistryInv'
    OBVIOUS
  <1>1. CASE LedgerClose
    BY <1>1, RegistryAssumption
    DEF RegistryAssumption, RegistryInv, RegistryTypeOK, KeysConsistent, LedgerClose, registryVars
  <1>2. CASE UNCHANGED registryState
    BY <1>2 DEF RegistryInv, RegistryTypeOK, KeysConsistent, registryState, registryVars
  <1> QED BY <1>1, <1>2, QueueStep, CancelStep, ExecuteStep DEF RegistryNext

\* In every reachable state of the issuer registry the types hold and the key index
\* agrees with the records.
THEOREM RegistryInvariant == RegistrySpec => []RegistryInv
  BY RegistryInitInv, RegistryStep, PTL DEF RegistrySpec

-----------------------------------------------------------------------------
(* What follows *)

\* The registry's state keeps its types.
THEOREM RegistryTypeCorrect == RegistrySpec => []RegistryTypeOK
  <1>1. RegistryInv => RegistryTypeOK
    BY DEF RegistryInv
  <1> QED BY <1>1, RegistryInvariant, PTL

\* A key is claimed exactly by the issuer whose record names it, whatever
\* actions were queued, in whatever order they are executed.
THEOREM KeysAreConsistent == RegistrySpec => []KeysConsistent
  <1>1. RegistryInv => KeysConsistent
    BY DEF RegistryInv
  <1> QED BY <1>1, RegistryInvariant, PTL

-----------------------------------------------------------------------------
(* The queue and the trusted keys move as announced *)

\* Outside Execute no record changes, so no key gains or loses trust.
LEMMA SameTrust ==
    ASSUME UNCHANGED <<issuer, keyOwner>>
    PROVE  TrustMovesWhenDue
  BY DEF TrustMovesWhenDue, IsKeyActive, IsIssuer

\* An effect changes trust only in keys of the issuer the action names.
LEMMA EffectOnTrust ==
    ASSUME RecordsOK, KeysConsistent, NEW a \in Action, Effect(a), NEW k \in SigningKeys,
           IsKeyActive(k) # IsKeyActive(k)'
    PROVE  /\ a.kind # "RotateAdmin"
           /\ \/ k \in DOMAIN keyOwner /\ keyOwner[k] = a.issuer
              \/ k \in DOMAIN keyOwner' /\ keyOwner'[k] = a.issuer
  <1> USE DEF IsKeyActive, IsIssuer
  <1>1. CASE a.kind = "AddIssuer" /\ AddIssuer(a.issuer, a.key)
    BY <1>1 DEF AddIssuer, Put, RecordsOK
  <1>2. CASE a.kind = "RemoveIssuer" /\ RemoveIssuer(a.issuer)
    BY <1>2 DEF RemoveIssuer, RecordsOK
  <1>3. CASE a.kind = "RotateKey" /\ RotateKey(a.issuer, a.key)
    <2> DEFINE i == a.issuer
               old == issuer[i].key
    <2>1. i \in DOMAIN issuer /\ i \in Issuers /\ old \in SigningKeys
      BY <1>3 DEF RotateKey, RecordsOK
    <2>2. old \in DOMAIN keyOwner /\ keyOwner[old] = i
      BY <2>1 DEF KeysConsistent
    <2>3. CASE k = a.key
      BY <1>3, <2>2, <2>3 DEF RotateKey, ClaimKey, Put, Drop
    <2>4. CASE k = old
      BY <1>3, <2>2, <2>4
    <2>5. CASE k # a.key /\ k # old
      <3>1. k \in DOMAIN keyOwner <=> k \in DOMAIN keyOwner'
        BY <1>3, <2>5 DEF RotateKey, Put, Drop
      <3>2. k \in DOMAIN keyOwner => keyOwner'[k] = keyOwner[k]
        BY <1>3, <2>5 DEF RotateKey, Put, Drop
      <3>3. /\ DOMAIN issuer' = DOMAIN issuer
            /\ \A j \in DOMAIN issuer : issuer'[j].active = issuer[j].active
        BY <1>3 DEF RotateKey, RecordsOK
      <3> QED BY <3>1, <3>2, <3>3
    <2> QED BY <1>3, <2>3, <2>4, <2>5
  <1>4. CASE a.kind = "ReactivateIssuer" /\ ReactivateIssuer(a.issuer)
    BY <1>4 DEF ReactivateIssuer, RecordsOK
  <1>5. CASE a.kind = "RotateAdmin" /\ RotateAdmin(a.admin)
    BY <1>5 DEF RotateAdmin
  <1> QED BY <1>1, <1>2, <1>3, <1>4, <1>5 DEF Effect

LEMMA AnnouncedStep ==
    RegistryInv /\ [RegistryNext]_registryState
       => [EntriesStand]_registryState /\ [TrustMovesWhenDue]_registryState
  <1> SUFFICES ASSUME RegistryInv, RegistryNext PROVE EntriesStand /\ TrustMovesWhenDue
    OBVIOUS
  <1>1. ASSUME NEW caller \in Admins, NEW a \in Action, Queue(caller, a)
        PROVE  EntriesStand /\ TrustMovesWhenDue
    <2>1. nextActionId \notin DOMAIN actions
      BY DEF RegistryInv, RegistryTypeOK
    <2>2. now + Delay >= now + Delay
      BY RegistryAssumption DEF RegistryAssumption, RegistryInv, RegistryTypeOK
    <2>3. EntriesStand
      BY <1>1, <2>1, <2>2 DEF Queue, Put, EntriesStand
    <2> QED BY <1>1, <2>3, SameTrust DEF Queue
  <1>2. ASSUME NEW caller \in Admins, NEW id \in DOMAIN actions, Cancel(caller, id)
        PROVE  EntriesStand /\ TrustMovesWhenDue
    BY <1>2, SameTrust DEF Cancel, Drop, EntriesStand
  <1>3. ASSUME NEW caller \in Admins, NEW id \in DOMAIN actions, Execute(caller, id)
        PROVE  EntriesStand /\ TrustMovesWhenDue
    <2> DEFINE a == actions[id].action
    <2>1. /\ now >= actions[id].eta /\ Effect(a)
          /\ id \notin DOMAIN actions'
      BY <1>3 DEF Execute, Due, Drop
    <2>2. a \in Action /\ RecordsOK /\ KeysConsistent
      BY DEF RegistryInv, RegistryTypeOK, RecordsOK
    <2>3. EntriesStand
      BY <1>3 DEF Execute, Drop, EntriesStand
    <2>4. TrustMovesWhenDue
      BY <2>1, <2>2, EffectOnTrust DEF TrustMovesWhenDue
    <2> QED BY <2>3, <2>4
  <1>4. CASE LedgerClose
    BY <1>4, SameTrust DEF LedgerClose, registryVars, EntriesStand
  <1> QED BY <1>1, <1>2, <1>3, <1>4 DEF RegistryNext

\* What is announced is what happens: entries are never changed in place, and
\* each runs for the whole delay.
THEOREM EntriesAreStable == RegistrySpec => QueuedAsAnnounced
  BY AnnouncedStep, RegistryInvariant, PTL DEF RegistrySpec, QueuedAsAnnounced

\* The trusted keys change only through a due action about their issuer.
THEOREM TrustIsAnnounced == RegistrySpec => TrustChangesAnnounced
  BY AnnouncedStep, RegistryInvariant, PTL DEF RegistrySpec, TrustChangesAnnounced

-----------------------------------------------------------------------------
(* The attestation registry *)

\* Types of the two maps a presentation reads and writes.
RouteTypeOK ==
    /\ attestationAdmin \in Admins
    /\ pendingAdmin \subseteq [admin : Admins, eta : RotationDelay .. U64Max]
    /\ \A p, q \in pendingAdmin : p = q
    /\ DOMAIN verifierFor \subseteq Kinds
    /\ \A k \in DOMAIN verifierFor : verifierFor[k] \in Verifiers

Record == [ref : {Field(r) : r \in Refs}, expiresAt : 1 .. U64Max]

AttestationTypeOK ==
    /\ DOMAIN attestation \subseteq Users \X ClaimTypes
    /\ \A uc \in DOMAIN attestation : attestation[uc] \in Record

\* Every record, valid or not, is one of a credential of its user and claim that
\* lasts as long.  BackedByCredential alone says nothing of records that do not
\* check and is not inductive.
Backs(cred, u, c, record) ==
    /\ cred.subject = u /\ cred.claim = c
    /\ cred.ref = record.ref.elem
    /\ record.expiresAt <= cred.expiry

RecordsBacked ==
    \A u \in Users, c \in ClaimTypes : <<u, c>> \in DOMAIN attestation =>
       \E cred \in Credentials : Backs(cred, u, c, attestation[<<u, c>>])

AttestationInv ==
    RegistryInv /\ RouteTypeOK /\ AttestationTypeOK /\ RecordsBacked /\ revoked \subseteq RefBytes

LEMMA TypeParts ==
    TypeOK <=> RegistryTypeOK /\ RouteTypeOK /\ AttestationTypeOK /\ revoked \subseteq RefBytes
  BY DEF TypeOK, RouteTypeOK, AttestationTypeOK, Record

LEMMA AttestationInitInv == Init => AttestationInv
  <1> SUFFICES ASSUME Init PROVE AttestationInv
    OBVIOUS
  <1>1. DOMAIN NoKeys = {}
    BY DEF NoKeys
  <1>2. RegistryInv
    BY RegistryInitInv DEF Init
  <1> QED BY <1>1, <1>2, RegistryAssumption
          DEF Init, AttestationInv, RouteTypeOK, AttestationTypeOK, RecordsBacked

-----------------------------------------------------------------------------
(* A presentation *)

LEMMA CanonicalRefIsField ==
    ASSUME NEW ref \in RefBytes, CanonicalRef(ref)
    PROVE  ref = Field(ref.elem) /\ ref.elem \in Refs
  BY DEF RefBytes, CanonicalRef, Field

LEMMA PresentRecords ==
    ASSUME AttestationInv, NEW u \in Users, NEW c \in ClaimTypes, NEW k \in SigningKeys,
           NEW ref \in RefBytes, NEW e \in 0 .. U64Max, Present(u, c, k, ref, e)
    PROVE  AttestationTypeOK' /\ RecordsBacked'
  <1> DEFINE new == [ref |-> ref, expiresAt |-> e]
  <1>1. /\ DOMAIN attestation' = DOMAIN attestation \cup {<<u, c>>}
        /\ attestation'[<<u, c>>] = new
        /\ \A uc \in DOMAIN attestation : uc # <<u, c>> => attestation'[uc] = attestation[uc]
    BY DEF Present, Put
  <1>2. CanonicalRef(ref) /\ e > now
    BY DEF Present, Verify
  <1>3. new \in Record
    <2>1. now \in Nat
      BY RegistryAssumption DEF AttestationInv, RegistryInv, RegistryTypeOK
    <2>2. e \in 1 .. U64Max
      BY <1>2, <2>1, RegistryAssumption
    <2>3. ref \in {Field(r) : r \in Refs}
      BY <1>2, CanonicalRefIsField
    <2> QED BY <2>2, <2>3 DEF Record
  <1>4. \E cred \in Credentials : Backs(cred, u, c, new)
    BY DEF Present, Verify, Backs
  <1> HIDE DEF new
  <1>5. AttestationTypeOK'
    <2> SUFFICES ASSUME NEW uc \in DOMAIN attestation' PROVE attestation'[uc] \in Record
      BY <1>1 DEF AttestationTypeOK, AttestationInv
    <2> QED BY <1>1, <1>3 DEF AttestationTypeOK, AttestationInv
  <1>6. RecordsBacked'
    <2> SUFFICES ASSUME NEW v \in Users, NEW d \in ClaimTypes, <<v, d>> \in DOMAIN attestation'
                 PROVE  \E cred \in Credentials : Backs(cred, v, d, attestation'[<<v, d>>])
      BY DEF RecordsBacked, Backs
    <2>1. CASE <<v, d>> = <<u, c>>
      BY <1>1, <1>4, <2>1
    <2>2. CASE <<v, d>> # <<u, c>>
      BY <1>1, <2>2 DEF RecordsBacked, AttestationInv
    <2> QED BY <2>1, <2>2
  <1> QED BY <1>5, <1>6

LEMMA SameRegistry ==
    ASSUME RegistryInv, UNCHANGED registryState
    PROVE  RegistryInv'
  BY RegistryStep

LEMMA AttestationCallStep ==
    ASSUME AttestationInv, AttestationNext
    PROVE  AttestationInv'
  <1>1. UNCHANGED registryState
    BY DEF AttestationNext, Present, RevokeCredential, SetVerifier, QueueAdminRotation,
           CancelAdminRotation, ExecuteAdminRotation
  <1>2. RegistryInv'
    BY <1>1, SameRegistry DEF AttestationInv
  <1>3. ASSUME NEW u \in Users, NEW c \in ClaimTypes, NEW k \in SigningKeys,
               NEW ref \in RefBytes, NEW e \in 0 .. U64Max, Present(u, c, k, ref, e)
        PROVE  AttestationInv'
    <2>1. UNCHANGED <<routeVars, revoked>>
      BY <1>3 DEF Present
    <2> QED BY <1>2, <1>3, <2>1, PresentRecords DEF AttestationInv, RouteTypeOK, routeVars
  <1>4. ASSUME NEW i \in Issuers, NEW ref \in RefBytes, RevokeCredential(i, ref)
        PROVE  AttestationInv'
    BY <1>2, <1>4
    DEF RevokeCredential, routeVars, AttestationInv, RouteTypeOK, AttestationTypeOK, RecordsBacked
  <1>5. ASSUME UNCHANGED <<attestation, revoked>>, RouteTypeOK'
        PROVE  AttestationInv'
    BY <1>2, <1>5 DEF AttestationInv, AttestationTypeOK, RecordsBacked
  <1>6. ASSUME NEW caller \in Admins, NEW kind \in Kinds, NEW v \in Verifiers,
               SetVerifier(caller, kind, v)
        PROVE  AttestationInv'
    <2>1. RouteTypeOK'
      BY <1>6 DEF SetVerifier, Put, AttestationInv, RouteTypeOK
    <2> QED BY <1>5, <1>6, <2>1 DEF SetVerifier
  <1>7. ASSUME NEW caller \in Admins, NEW a \in Admins, QueueAdminRotation(caller, a)
        PROVE  AttestationInv'
    <2>1. now + RotationDelay \in RotationDelay .. U64Max
      BY <1>7, AttestationAssumption, RegistryAssumption
      DEF QueueAdminRotation, AttestationInv, RegistryInv, RegistryTypeOK
    <2>2. RouteTypeOK'
      BY <1>7, <2>1 DEF QueueAdminRotation, AttestationInv, RouteTypeOK
    <2> QED BY <1>5, <1>7, <2>2 DEF QueueAdminRotation
  <1>8. ASSUME NEW caller \in Admins, CancelAdminRotation(caller) \/ ExecuteAdminRotation(caller)
        PROVE  AttestationInv'
    <2>1. RouteTypeOK'
      BY <1>8 DEF CancelAdminRotation, ExecuteAdminRotation, AttestationInv, RouteTypeOK
    <2> QED BY <1>5, <1>8, <2>1 DEF CancelAdminRotation, ExecuteAdminRotation
  <1> QED BY <1>3, <1>4, <1>6, <1>7, <1>8 DEF AttestationNext

LEMMA AttestationStep == AttestationInv /\ [Next]_vars => AttestationInv'
  <1> SUFFICES ASSUME AttestationInv, [Next]_vars PROVE AttestationInv'
    OBVIOUS
  <1>1. CASE UNCHANGED attestationVars /\ [RegistryNext]_registryState
    <2>1. RegistryInv'
      BY <1>1, RegistryStep DEF AttestationInv
    <2> QED BY <1>1, <2>1 DEF AttestationInv, attestationVars, routeVars, RouteTypeOK,
                              AttestationTypeOK, RecordsBacked
  <1>2. CASE AttestationNext
    BY <1>2, AttestationCallStep
  <1> QED BY <1>1, <1>2 DEF Next, vars

\* In every reachable state of the two registries the records are well typed, and
\* each one is backed by a credential of its user and claim.
THEOREM AttestationInvariant == Spec => []AttestationInv
  BY AttestationInitInv, AttestationStep, PTL DEF Spec

\* The registry keeps its types, and only canonical references are recorded.
THEOREM AttestationTypeCorrect == Spec => []TypeOK
  <1>1. AttestationInv => TypeOK
    BY TypeParts DEF AttestationInv, RegistryInv
  <1> QED BY <1>1, AttestationInvariant, PTL

-----------------------------------------------------------------------------
(* What a check tells *)

LEMMA RecordRef ==
    ASSUME NEW record \in Record
    PROVE  record.ref = Field(record.ref.elem)
  BY DEF Record, Field

\* Revoking the canonical reference of a credential ends every attestation made
\* from it.
THEOREM RevocationsHold == Spec => []RevocationHolds
  <1>1. AttestationInv => RevocationHolds
    <2> SUFFICES ASSUME AttestationInv, NEW u \in Users, NEW c \in ClaimTypes, Check(u, c)
                 PROVE  Field(attestation[<<u, c>>].ref.elem) \notin revoked
      BY DEF RevocationHolds
    <2>1. attestation[<<u, c>>] \in Record /\ attestation[<<u, c>>].ref \notin revoked
      BY DEF Check, AttestationInv, AttestationTypeOK
    <2> QED BY <2>1, RecordRef
  <1> QED BY <1>1, AttestationInvariant, PTL

\* Whoever checks holds a credential for the claim that has not run out.
THEOREM ChecksAreBacked == Spec => []BackedByCredential
  <1>1. AttestationInv => BackedByCredential
    <2> SUFFICES ASSUME AttestationInv, NEW u \in Users, NEW c \in ClaimTypes, Check(u, c)
                 PROVE  \E cred \in Credentials : /\ cred.subject = u /\ cred.claim = c
                                                  /\ cred.ref = attestation[<<u, c>>].ref.elem
                                                  /\ now <= cred.expiry
      BY DEF BackedByCredential
    <2> DEFINE record == attestation[<<u, c>>]
    <2>1. record \in Record /\ ~(now > record.expiresAt)
      BY DEF Check, Expired, AttestationInv, AttestationTypeOK
    <2>2. PICK cred \in Credentials : Backs(cred, u, c, record)
      BY DEF Check, AttestationInv, RecordsBacked
    <2>3. now \in Int /\ record.expiresAt \in Int /\ cred.expiry \in Int
      BY <2>1, RegistryAssumption, AttestationAssumption
      DEF Record, AttestationInv, RegistryInv, RegistryTypeOK
    <2>4. now <= cred.expiry
      BY <2>1, <2>2, <2>3 DEF Backs
    <2> QED BY <2>2, <2>4 DEF Backs
  <1> QED BY <1>1, AttestationInvariant, PTL

-----------------------------------------------------------------------------
(* How a check starts to hold *)

Granted(u, c) ==
    \E cred \in Credentials : /\ cred.subject = u /\ cred.claim = c
                              /\ IsKeyActive(cred.key)
                              /\ Field(cred.ref) \notin revoked
                              /\ cred.expiry > now

\* Nothing but a new record grants: time and revocations only take away.
LEMMA OldRecordGrantsNothing ==
    ASSUME AttestationInv, AttestationInv', NEW u \in Users, NEW c \in ClaimTypes,
           <<u, c>> \in DOMAIN attestation, attestation'[<<u, c>>] = attestation[<<u, c>>],
           now' >= now, revoked \subseteq revoked', Check(u, c)'
    PROVE  Check(u, c)
  <1> DEFINE record == attestation[<<u, c>>]
  <1>1. record.expiresAt \in Int /\ now \in Int /\ now' \in Int
    BY RegistryAssumption
    DEF AttestationInv, AttestationTypeOK, Record, RegistryInv, RegistryTypeOK
  <1>2. ~(now' > record.expiresAt) /\ record.ref \notin revoked'
    BY DEF Check, Expired
  <1>3. ~(now > record.expiresAt) /\ record.ref \notin revoked
    BY <1>1, <1>2
  <1> QED BY <1>3 DEF Check, Expired

LEMMA PresentGrants ==
    ASSUME AttestationInv, NEW u \in Users, NEW c \in ClaimTypes, NEW k \in SigningKeys,
           NEW ref \in RefBytes, NEW e \in 0 .. U64Max, Present(u, c, k, ref, e)
    PROVE  Granted(u, c)
  <1>1. PICK cred \in Credentials : /\ cred.key = k /\ cred.ref = ref.elem
                                    /\ cred.claim = c /\ cred.subject = u
                                    /\ e <= cred.expiry
    BY DEF Present, Verify
  <1>2. IsKeyActive(k) /\ ref \notin revoked /\ e > now
    BY DEF Present, KeyAccepted, NotRevoked
  <1>3. Field(cred.ref) = ref
    BY <1>1, CanonicalRefIsField DEF Present, Verify
  <1>4. cred.expiry > now
    <2>1. e \in Int /\ now \in Int /\ cred.expiry \in Int
      BY RegistryAssumption, AttestationAssumption
      DEF AttestationInv, RegistryInv, RegistryTypeOK
    <2> QED BY <1>1, <1>2, <2>1
  <1> QED BY <1>1, <1>2, <1>3, <1>4 DEF Granted

LEMMA StepGrants ==
    ASSUME AttestationInv, AttestationInv', Next, NEW u \in Users, NEW c \in ClaimTypes,
           ~Check(u, c), Check(u, c)'
    PROVE  Granted(u, c)
  <1>1. CASE \E k \in SigningKeys, ref \in RefBytes, e \in 0 .. U64Max : Present(u, c, k, ref, e)
    BY <1>1, PresentGrants
  <1>2. ASSUME NEW v \in Users, NEW d \in ClaimTypes, NEW k \in SigningKeys, NEW ref \in RefBytes,
               NEW e \in 0 .. U64Max, Present(v, d, k, ref, e), <<v, d>> # <<u, c>>
        PROVE  FALSE
    <2>1. /\ <<u, c>> \in DOMAIN attestation' => <<u, c>> \in DOMAIN attestation
          /\ <<u, c>> \in DOMAIN attestation => attestation'[<<u, c>>] = attestation[<<u, c>>]
          /\ revoked' = revoked /\ now' = now
      BY <1>2 DEF Present, Put, registryState
    <2>2. <<u, c>> \in DOMAIN attestation
      BY <2>1 DEF Check
    <2>3. now' >= now
      BY <2>1, RegistryAssumption DEF AttestationInv, RegistryInv, RegistryTypeOK
    <2> QED BY <2>1, <2>2, <2>3, OldRecordGrantsNothing
  <1>3. ASSUME attestation' = attestation, now' >= now, revoked \subseteq revoked'
        PROVE  FALSE
    <2>1. <<u, c>> \in DOMAIN attestation
      BY <1>3 DEF Check
    <2> QED BY <1>3, <2>1, OldRecordGrantsNothing
  <1>4. now \in Int /\ U64Max \in Nat
    BY RegistryAssumption DEF AttestationInv, RegistryInv, RegistryTypeOK
  <1>5. CASE RegistryNext /\ UNCHANGED attestationVars
    <2>1. now' = now \/ now' \in now + 1 .. U64Max
      BY <1>5 DEF RegistryNext, Queue, Cancel, Execute, LedgerClose
    <2>2. now' >= now
      BY <1>4, <2>1
    <2> QED BY <1>3, <1>5, <2>2 DEF attestationVars
  <1>6. CASE \E i \in Issuers, ref \in RefBytes : RevokeCredential(i, ref)
    BY <1>3, <1>4, <1>6 DEF RevokeCredential, registryState
  <1>7. CASE \E caller \in Admins : \/ \E kind \in Kinds, v \in Verifiers : SetVerifier(caller, kind, v)
                                    \/ \E a \in Admins : QueueAdminRotation(caller, a)
                                    \/ CancelAdminRotation(caller)
                                    \/ ExecuteAdminRotation(caller)
    BY <1>3, <1>4, <1>7
    DEF SetVerifier, QueueAdminRotation, CancelAdminRotation, ExecuteAdminRotation, registryState
  <1> QED BY <1>1, <1>2, <1>5, <1>6, <1>7 DEF Next, AttestationNext

GrantStep ==
    \A u \in Users, c \in ClaimTypes : ~Check(u, c) /\ Check(u, c)' => Granted(u, c)

\* A user starts to check only by presenting a credential of an issuer whose key
\* is active at that moment and whose reference is not revoked.
THEOREM GrantsNeedIssuer == Spec => GrantNeedsActiveIssuer
  <1>1. AttestationInv /\ AttestationInv' /\ [Next]_vars => [GrantStep]_vars
    BY StepGrants DEF GrantStep
  <1>2. Spec => [][GrantStep]_vars
    BY <1>1, AttestationInvariant, PTL DEF Spec
  <1> QED BY <1>2 DEF GrantNeedsActiveIssuer, GrantStep, Granted

-----------------------------------------------------------------------------
(* The handoff of the registry's admin *)

HandoffSetting == [i \in {"Admin"} |-> attestationAdmin]
HandoffAnnounced ==
    [i \in {x \in {"Admin"} : pendingAdmin # {}} |->
        LET p == CHOOSE p \in pendingAdmin : TRUE
        IN  [target |-> p.admin, since |-> p.eta - RotationDelay]]

LEMMA HandoffInit == Init => HandoffPromise!Init
  <1> SUFFICES ASSUME Init PROVE HandoffPromise!Init
    OBVIOUS
  <1>1. HandoffAnnounced = << >>
    <2>1. {x \in {"Admin"} : pendingAdmin # {}} = {}
      BY DEF Init
    <2>2. \A f : f = [i \in {} |-> LET p == CHOOSE p \in pendingAdmin : TRUE
                                  IN  [target |-> p.admin, since |-> p.eta - RotationDelay]]
                  => f = << >>
      OBVIOUS
    <2> QED BY <2>1, <2>2 DEF HandoffAnnounced
  <1>2. HandoffSetting \in [{"Admin"} -> Admins] /\ now \in Nat
    BY RegistryAssumption DEF HandoffSetting, Init, RegistryInit
  <1> QED BY <1>1, <1>2 DEF HandoffPromise!Init, HandoffAnnounced, HandoffSetting

\* The announcement of a pending handoff, and that of none.
LEMMA AnnouncedWhen ==
    /\ pendingAdmin = {} => DOMAIN HandoffAnnounced = {}
    /\ \A p : pendingAdmin = {p} =>
          /\ DOMAIN HandoffAnnounced = {"Admin"}
          /\ HandoffAnnounced["Admin"] = [target |-> p.admin, since |-> p.eta - RotationDelay]
  BY DEF HandoffAnnounced

LEMMA HandoffStep == AttestationInv /\ [Next]_vars => [HandoffPromise!Next]_(HandoffPromise!vars)
  <1> SUFFICES ASSUME AttestationInv, [Next]_vars
               PROVE  [HandoffPromise!Next]_(HandoffPromise!vars)
    OBVIOUS
  <1>1. /\ now \in Nat /\ RotationDelay \in Nat /\ U64Max \in Nat
        /\ \A p \in pendingAdmin : p.admin \in Admins /\ p.eta \in Nat
        /\ \A p, q \in pendingAdmin : p = q
    BY RegistryAssumption, AttestationAssumption
    DEF AttestationInv, RouteTypeOK, RegistryInv, RegistryTypeOK
  <1>2. ASSUME UNCHANGED <<attestationAdmin, pendingAdmin>>,
               now' = now \/ now' \in now + 1 .. U64Max
        PROVE  [HandoffPromise!Next]_(HandoffPromise!vars)
    <2>1. CASE now' = now
      BY <1>2, <2>1 DEF HandoffPromise!vars
    <2>2. CASE now' \in now + 1 .. U64Max
      <3>1. now' \in Nat /\ now' > now
        BY <1>1, <2>2
      <3> QED BY <1>2, <3>1 DEF HandoffPromise!Next, HandoffPromise!Advance
    <2> QED BY <1>2, <2>1, <2>2
  <1>3. ASSUME NEW caller \in Admins, NEW a \in Admins, QueueAdminRotation(caller, a)
        PROVE  HandoffPromise!Next
    <2> DEFINE q == [admin |-> a, eta |-> now + RotationDelay]
    <2>1. pendingAdmin' = {q} /\ q.admin = a /\ q.eta - RotationDelay = now
      BY <1>1, <1>3 DEF QueueAdminRotation
    <2>2. HandoffAnnounced' = [j \in {"Admin"} |-> [target |-> a, since |-> now]]
      <3>1. \A j \in {"Admin"} : (LET p == CHOOSE p \in pendingAdmin' : TRUE
                                  IN  [target |-> p.admin, since |-> p.eta - RotationDelay])
                                 = [target |-> a, since |-> now]
        BY <2>1
      <3> QED BY <2>1, <3>1 DEF HandoffAnnounced
    <2>3. DOMAIN HandoffAnnounced \cup {"Admin"} = {"Admin"}
      BY DEF HandoffAnnounced
    <2>4. HandoffAnnounced' = [j \in DOMAIN HandoffAnnounced \cup {"Admin"} |->
                                 IF j = "Admin" THEN [target |-> a, since |-> now]
                                                ELSE HandoffAnnounced[j]]
      BY <2>2, <2>3
    <2>5. UNCHANGED <<HandoffSetting, now>>
      BY <1>3 DEF QueueAdminRotation, HandoffSetting, registryState
    <2>6. HandoffPromise!Announce("Admin", a)
      BY <2>4, <2>5 DEF HandoffPromise!Announce, HandoffAnnounced, HandoffSetting
    <2> QED BY <2>6 DEF HandoffPromise!Next
  <1>4. ASSUME pendingAdmin # {}, pendingAdmin' = {}
        PROVE  /\ "Admin" \in DOMAIN HandoffAnnounced
               /\ HandoffAnnounced' = [j \in DOMAIN HandoffAnnounced \ {"Admin"} |-> HandoffAnnounced[j]]
    <2>1. DOMAIN HandoffAnnounced = {"Admin"}
      BY <1>4 DEF HandoffAnnounced
    <2>2. HandoffAnnounced' = [j \in {} |-> HandoffAnnounced[j]]
      BY <1>4 DEF HandoffAnnounced
    <2> QED BY <2>1, <2>2
  <1>5. ASSUME NEW caller \in Admins, CancelAdminRotation(caller)
        PROVE  HandoffPromise!Next
    <2>1. pendingAdmin # {} /\ pendingAdmin' = {} /\ UNCHANGED <<attestationAdmin, now>>
      BY <1>5 DEF CancelAdminRotation, registryState
    <2>2. HandoffPromise!Retract("Admin")
      BY <1>4, <2>1 DEF HandoffPromise!Retract, HandoffPromise!Without, HandoffAnnounced
    <2> QED BY <2>2 DEF HandoffPromise!Next
  <1>6. ASSUME NEW caller \in Admins, ExecuteAdminRotation(caller)
        PROVE  HandoffPromise!Next
    <2>1. PICK p \in pendingAdmin : HandoffDue(p) /\ attestationAdmin' = p.admin
      BY <1>6 DEF ExecuteAdminRotation
    <2>2. pendingAdmin = {p} /\ pendingAdmin' = {} /\ UNCHANGED now
      BY <1>1, <1>6, <2>1 DEF ExecuteAdminRotation, registryState
    <2>3. HandoffAnnounced["Admin"].target = p.admin /\ HandoffAnnounced["Admin"].since = p.eta - RotationDelay
      <3>1. HandoffAnnounced["Admin"] = [target |-> p.admin, since |-> p.eta - RotationDelay]
        BY <2>2, AnnouncedWhen
      <3> QED BY <3>1
    <2>4. now - HandoffAnnounced["Admin"].since >= RotationDelay
      BY <1>1, <2>1, <2>3 DEF HandoffDue
    <2>5. HandoffSetting' = [HandoffSetting EXCEPT !["Admin"] = HandoffAnnounced["Admin"].target]
      BY <2>1, <2>3 DEF HandoffSetting
    <2>6. HandoffPromise!Enact("Admin")
      BY <1>4, <2>2, <2>4, <2>5
      DEF HandoffPromise!Enact, HandoffPromise!Without, HandoffAnnounced, HandoffSetting
    <2> QED BY <2>6 DEF HandoffPromise!Next
  <1>7. CASE RegistryNext /\ UNCHANGED attestationVars
    <2>1. now' = now \/ now' \in now + 1 .. U64Max
      BY <1>7 DEF RegistryNext, Queue, Cancel, Execute, LedgerClose
    <2> QED BY <1>2, <1>7, <2>1 DEF attestationVars, routeVars
  <1>8. CASE UNCHANGED vars
    BY <1>2, <1>8 DEF vars, attestationVars, routeVars, registryState
  <1>9. CASE \/ \E u \in Users, c \in ClaimTypes, k \in SigningKeys, ref \in RefBytes,
                  e \in 0 .. U64Max : Present(u, c, k, ref, e)
             \/ \E i \in Issuers, ref \in RefBytes : RevokeCredential(i, ref)
             \/ \E caller \in Admins, kind \in Kinds, v \in Verifiers : SetVerifier(caller, kind, v)
    BY <1>2, <1>9 DEF Present, RevokeCredential, SetVerifier, routeVars, registryState
  <1> QED BY <1>3, <1>5, <1>6, <1>7, <1>8, <1>9 DEF Next, AttestationNext

\* Whoever becomes admin of the attestation registry was announced for the delay.
THEOREM HandoffIsAnnounced == Spec => HandoffImplementsTimelock
  BY AttestationInvariant, HandoffInit, HandoffStep, PTL
  DEF Spec, HandoffImplementsTimelock, HandoffPromise!Spec
=============================================================================
