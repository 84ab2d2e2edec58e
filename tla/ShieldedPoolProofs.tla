------------------------- MODULE ShieldedPoolProofs -------------------------
(***************************************************************************)
(* For any users, keys, encodings, vector shapes, capacity and governance: *)
(* the pool keeps its types, stores a nullifier under one encoding only,   *)
(* and knows exactly the roots its tree has had; its governance implements *)
(* the timelock promise.                                                   *)
(***************************************************************************)
EXTENDS ShieldedPoolProps, SequenceTheorems, TLAPS

-----------------------------------------------------------------------------
(* Governance *)

\* What queueing and removing leave in the pending map.
LEMMA QueueType ==
    ASSUME GovTypeOK, NEW key \in PendingKey, NEW target \in Target(key), Queue(key, target)
    PROVE  /\ DOMAIN pending' \subseteq PendingKey
           /\ \A k \in DOMAIN pending' :
                 pending'[k] \in [target : Target(k), eta : RotationDelay .. U64Max]
  BY GovernanceAssumption DEF GovTypeOK, Queue

LEMMA RemoveType ==
    ASSUME GovTypeOK, NEW key \in PendingKey, Remove(key)
    PROVE  /\ DOMAIN pending' \subseteq PendingKey
           /\ \A k \in DOMAIN pending' :
                 pending'[k] \in [target : Target(k), eta : RotationDelay .. U64Max]
  BY DEF GovTypeOK, Remove

LEMMA GovTypeInit == GovInit => GovTypeOK
  BY GovernanceAssumption DEF GovInit, GovTypeOK

LEMMA GovTypeStep == GovTypeOK /\ [GovNext]_govVars => GovTypeOK'
  <1> SUFFICES ASSUME GovTypeOK, [GovNext]_govVars PROVE GovTypeOK'
    OBVIOUS
  <1> USE DEF Target
  <1>1. ASSUME NEW caller \in Admins, NEW slot \in VerifierSlot, NEW v \in Verifiers,
               QueueVerifierRotation(caller, slot, v)
        PROVE  GovTypeOK'
    <2>1. slot \in PendingKey /\ slot # "Admin"
      BY DEF PendingKey, VerifierSlot
    <2> QED BY <1>1, <2>1, QueueType DEF GovTypeOK, QueueVerifierRotation
  <1>2. ASSUME NEW caller \in Admins, NEW slot \in VerifierSlot,
               CancelVerifierRotation(caller, slot)
        PROVE  GovTypeOK'
    BY <1>2, RemoveType DEF GovTypeOK, CancelVerifierRotation, PendingKey
  <1>3. ASSUME NEW caller \in Admins, NEW slot \in VerifierSlot,
               ExecuteVerifierRotation(caller, slot)
        PROVE  GovTypeOK'
    <2>1. slot \in PendingKey /\ slot # "Admin"
      BY DEF PendingKey, VerifierSlot
    <2>2. pending[slot].target \in Verifiers
      BY <1>3, <2>1 DEF GovTypeOK, ExecuteVerifierRotation
    <2> QED BY <1>3, <2>1, <2>2, RemoveType DEF GovTypeOK, ExecuteVerifierRotation
  <1>4. ASSUME NEW caller \in Admins, NEW a \in Admins, QueueAdminRotation(caller, a)
        PROVE  GovTypeOK'
    BY <1>4, QueueType DEF GovTypeOK, QueueAdminRotation, PendingKey
  <1>5. ASSUME NEW caller \in Admins, CancelAdminRotation(caller)
        PROVE  GovTypeOK'
    BY <1>5, RemoveType DEF GovTypeOK, CancelAdminRotation, PendingKey
  <1>6. ASSUME NEW caller \in Admins, ExecuteAdminRotation(caller)
        PROVE  GovTypeOK'
    <2>1. pending["Admin"].target \in Admins
      BY <1>6 DEF GovTypeOK, ExecuteAdminRotation
    <2> QED BY <1>6, <2>1, RemoveType DEF GovTypeOK, ExecuteAdminRotation, PendingKey
  <1>7. CASE LedgerClose
    BY <1>7, GovernanceAssumption DEF GovTypeOK, LedgerClose
  <1>8. CASE UNCHANGED govVars
    BY <1>8 DEF GovTypeOK, govVars
  <1> QED BY <1>1, <1>2, <1>3, <1>4, <1>5, <1>6, <1>7, <1>8 DEF GovNext, GovCall

\* The governance state keeps its types, and no eta exceeds the u64 width.
THEOREM GovTypeCorrect == GovSpec => []GovTypeOK
  BY GovTypeInit, GovTypeStep, PTL DEF GovSpec

-----------------------------------------------------------------------------
(* The refinement: each entry point is the announcement, retraction or     *)
(* enactment of one setting.                                               *)

Setting == [k \in PendingKey |-> IF k = "Admin" THEN admin ELSE verifier[k]]
Announced == [k \in DOMAIN pending |->
                 [target |-> pending[k].target, since |-> pending[k].eta - RotationDelay]]

LEMMA InitRefines == GovInit => Promise!Init
  BY GovernanceAssumption DEF GovInit, Promise!Init, PendingKey, VerifierSlot

LEMMA QueueRefines ==
    ASSUME GovTypeOK, NEW key \in PendingKey, NEW target, Queue(key, target),
           UNCHANGED <<admin, verifier, now>>
    PROVE  Promise!Announce(key, target)
  <1>1. now \in Nat /\ RotationDelay \in Nat
    BY GovernanceAssumption DEF GovTypeOK
  <1>2. Announced' = [j \in DOMAIN Announced \cup {key} |->
                         IF j = key THEN [target |-> target, since |-> now] ELSE Announced[j]]
    <2>1. DOMAIN pending' = DOMAIN pending \cup {key}
      BY DEF Queue
    <2>2. \A j \in DOMAIN pending' :
             pending'[j] = IF j = key THEN [target |-> target, eta |-> now + RotationDelay]
                                      ELSE pending[j]
      BY DEF Queue
    <2>3. Announced' = [j \in DOMAIN pending' |->
                 [target |-> pending'[j].target, since |-> pending'[j].eta - RotationDelay]]
      BY DEF Announced
    <2>4. \A j \in DOMAIN pending' :
             [target |-> pending'[j].target, since |-> pending'[j].eta - RotationDelay]
               = IF j = key THEN [target |-> target, since |-> now]
                            ELSE [target |-> pending[j].target,
                                  since |-> pending[j].eta - RotationDelay]
      <3> TAKE j \in DOMAIN pending'
      <3>1. CASE j = key
        <4>1. pending'[j].target = target /\ pending'[j].eta = now + RotationDelay
          BY <2>2, <3>1
        <4>2. pending'[j].eta - RotationDelay = now
          BY <1>1, <4>1
        <4> QED BY <3>1, <4>1, <4>2
      <3>2. CASE j # key
        BY <2>2, <3>2
      <3> QED BY <3>1, <3>2
    <2> QED BY <2>1, <2>3, <2>4 DEF Announced
  <1> QED BY <1>2 DEF Promise!Announce, Announced

LEMMA RemoveRefines ==
    ASSUME NEW key \in DOMAIN pending, Remove(key)
    PROVE  Announced' = [j \in DOMAIN Announced \ {key} |-> Announced[j]]
  BY DEF Remove, Announced

LEMMA StepRefines == GovTypeOK /\ [GovNext]_govVars => [Promise!Next]_(Promise!vars)
  <1> SUFFICES ASSUME GovTypeOK, [GovNext]_govVars PROVE [Promise!Next]_(Promise!vars)
    OBVIOUS
  <1>1. ASSUME NEW caller \in Admins, NEW slot \in VerifierSlot, NEW v \in Verifiers,
               QueueVerifierRotation(caller, slot, v)
        PROVE  Promise!Next
    BY <1>1, QueueRefines DEF Promise!Next, QueueVerifierRotation, PendingKey
  <1>2. ASSUME NEW caller \in Admins, NEW slot \in VerifierSlot,
               CancelVerifierRotation(caller, slot)
        PROVE  Promise!Next
    <2>1. Promise!Retract(slot)
      BY <1>2, RemoveRefines DEF CancelVerifierRotation, Promise!Retract, Promise!Without, Announced
    <2> QED BY <2>1 DEF Promise!Next, PendingKey
  <1>3. ASSUME NEW caller \in Admins, NEW slot \in VerifierSlot,
               ExecuteVerifierRotation(caller, slot)
        PROVE  Promise!Next
    <2>1. now - (pending[slot].eta - RotationDelay) >= RotationDelay
      BY <1>3, GovernanceAssumption
      DEF GovTypeOK, ExecuteVerifierRotation, TimelockElapsed
    <2>2. Setting' = [Setting EXCEPT ![slot] = pending[slot].target]
      BY <1>3 DEF Setting, GovTypeOK, ExecuteVerifierRotation, PendingKey, VerifierSlot
    <2>3. Promise!Enact(slot)
      BY <1>3, <2>1, <2>2, RemoveRefines
      DEF ExecuteVerifierRotation, Promise!Enact, Promise!Without, Announced, Setting
    <2> QED BY <2>3 DEF Promise!Next, PendingKey
  <1>4. ASSUME NEW caller \in Admins, NEW a \in Admins, QueueAdminRotation(caller, a)
        PROVE  Promise!Next
    BY <1>4, QueueRefines DEF Promise!Next, QueueAdminRotation, PendingKey
  <1>5. ASSUME NEW caller \in Admins, CancelAdminRotation(caller)
        PROVE  Promise!Next
    <2>1. Promise!Retract("Admin")
      BY <1>5, RemoveRefines DEF CancelAdminRotation, Promise!Retract, Promise!Without, Announced
    <2> QED BY <2>1 DEF Promise!Next, PendingKey
  <1>6. ASSUME NEW caller \in Admins, ExecuteAdminRotation(caller)
        PROVE  Promise!Next
    <2>1. now - (pending["Admin"].eta - RotationDelay) >= RotationDelay
      BY <1>6, GovernanceAssumption
      DEF GovTypeOK, ExecuteAdminRotation, TimelockElapsed
    <2>2. Setting' = [Setting EXCEPT !["Admin"] = pending["Admin"].target]
      BY <1>6 DEF Setting, ExecuteAdminRotation, PendingKey
    <2>3. Promise!Enact("Admin")
      BY <1>6, <2>1, <2>2, RemoveRefines
      DEF ExecuteAdminRotation, Promise!Enact, Promise!Without, Announced, Setting
    <2> QED BY <2>3 DEF Promise!Next, PendingKey
  <1>7. CASE LedgerClose
    <2>1. Promise!Advance
      BY <1>7, GovernanceAssumption DEF GovTypeOK, LedgerClose, Promise!Advance
    <2> QED BY <2>1 DEF Promise!Next
  <1>8. CASE UNCHANGED govVars
    BY <1>8 DEF govVars, Promise!vars
  <1> QED BY <1>1, <1>2, <1>3, <1>4, <1>5, <1>6, <1>7, <1>8 DEF GovNext, GovCall

\* Every verifier and admin that takes effect was announced for the whole delay.
THEOREM GovImplementsTimelock == GovSpec => ImplementsTimelock
  BY GovTypeCorrect, InitRefines, StepRefines, PTL
  DEF GovSpec, ImplementsTimelock, Promise!Spec

-----------------------------------------------------------------------------
(* The note ledger *)

InputBytes == [elem : Leaf, enc : Nat]

\* Why a nullifier is stored once: every stored encoding is the canonical one.
StoredCanonical == \A n \in nullifiers : n.enc = 0

\* The inductive invariant.
PoolInv == TypeOK /\ StoredCanonical /\ KnownRootsArePast

-----------------------------------------------------------------------------
(* Operators *)

LEMMA NullifierOfType ==
    ASSUME NEW root \in Seq(Leaf), Len(root) <= Capacity, NEW i \in DOMAIN root, root[i] \in Note
    PROVE  NullifierOf(root[i], i) \in Nullifier
  <1>1. i \in 1 .. Len(root) /\ Len(root) \in Nat
    BY LenProperties
  <1>2. i - 1 \in 0 .. Capacity - 1
    BY <1>1, PoolAssumption DEF PoolAssumption
  <1>3. root[i].owner \in Keys
    BY DEF Note, Keys
  <1> QED BY <1>2, <1>3 DEF NullifierOf, Nullifier

\* The verifier checks every public input, so it checks every nullifier.
LEMMA CanonicalMiddle ==
    ASSUME NEW S, NEW a \in S, NEW b \in Seq(S), NEW c \in Seq(S),
           CanonicalInputs(<<a>> \o b \o c)
    PROVE  \A i \in DOMAIN b : b[i].enc = 0
  <1> DEFINE ab == <<a>> \o b
             abc == ab \o c
  <1>1. <<a>> \in Seq(S) /\ Len(<<a>>) = 1
    OBVIOUS
  <1>2. /\ ab \in Seq(S)
        /\ Len(ab) = 1 + Len(b)
        /\ \A i \in 1 .. 1 + Len(b) : ab[i] = IF i <= 1 THEN <<a>>[i] ELSE b[i - 1]
    BY <1>1, ConcatProperties
  <1>3. /\ abc \in Seq(S)
        /\ Len(abc) = Len(ab) + Len(c)
        /\ \A i \in 1 .. Len(ab) + Len(c) : abc[i] = IF i <= Len(ab) THEN ab[i] ELSE c[i - Len(ab)]
    BY <1>2, ConcatProperties
  <1>4. DOMAIN abc = 1 .. Len(abc) /\ DOMAIN b = 1 .. Len(b) /\ Len(b) \in Nat /\ Len(c) \in Nat
    BY <1>3, LenProperties
  <1> SUFFICES ASSUME NEW i \in DOMAIN b PROVE b[i].enc = 0
    OBVIOUS
  <1>5. i \in 1 .. Len(b) /\ i + 1 \in DOMAIN abc
    BY <1>2, <1>3, <1>4
  <1>6. abc[i + 1] = b[i]
    <2>1. abc[i + 1] = ab[i + 1]
      BY <1>2, <1>3, <1>4, <1>5
    <2>2. ab[i + 1] = b[i]
      BY <1>2, <1>4, <1>5
    <2> QED BY <2>1, <2>2
  <1>7. abc[i + 1].enc = 0
    BY <1>5 DEF CanonicalInputs
  <1> QED BY <1>6, <1>7

LEMMA PrefixProperties ==
    ASSUME NEW S, NEW s \in Seq(S), NEW k \in 0 .. Len(s)
    PROVE  /\ SubSeq(s, 1, k) \in Seq(S)
           /\ Len(SubSeq(s, 1, k)) = k
           /\ \A i \in 1 .. k : SubSeq(s, 1, k)[i] = s[i]
  <1>1. Len(s) \in Nat /\ k \in Nat
    BY LenProperties
  <1>2. \A i \in 1 .. k : s[i] \in S
    BY <1>1, ElementOfSeq
  <1>3. /\ SubSeq(s, 1, k) \in Seq(S)
        /\ Len(SubSeq(s, 1, k)) = IF 1 <= k THEN k - 1 + 1 ELSE 0
        /\ \A i \in 1 .. k - 1 + 1 : SubSeq(s, 1, k)[i] = s[1 + i - 1]
    BY <1>1, <1>2, SubSeqProperties
  <1> QED BY <1>1, <1>3

Prefixes(s) == {SubSeq(s, 1, k) : k \in 0 .. Len(s)}
Extensions(s, c) == {s \o SubSeq(c, 1, k) : k \in 1 .. Len(c)}

\* Inserting commitments keeps old roots and adds one per commitment.
LEMMA InsertionRoots ==
    ASSUME NEW S, NEW s \in Seq(S), NEW c \in Seq(S)
    PROVE  Prefixes(s) \cup Extensions(s, c) = Prefixes(s \o c)
  <1>1. Len(s) \in Nat /\ Len(c) \in Nat
    BY LenProperties
  <1>2. /\ s \o c \in Seq(S)
        /\ Len(s \o c) = Len(s) + Len(c)
        /\ \A i \in 1 .. Len(s) + Len(c) : (s \o c)[i] = IF i <= Len(s) THEN s[i] ELSE c[i - Len(s)]
    BY ConcatProperties
  <1>3. ASSUME NEW k \in 0 .. Len(s) PROVE SubSeq(s \o c, 1, k) = SubSeq(s, 1, k)
    <2>1. CASE k = 0
      BY <2>1, SubSeqEmpty
    <2>2. CASE k # 0
      <3>1. k \in 1 .. Len(s) /\ 1 \in 1 .. Len(s)
        BY <1>1, <2>2
      <3> QED BY <3>1, SubSeqOfConcat1
    <2> QED BY <2>1, <2>2
  <1>4. ASSUME NEW k \in 1 .. Len(c) PROVE SubSeq(s \o c, 1, Len(s) + k) = s \o SubSeq(c, 1, k)
    <2> DEFINE l == SubSeq(s \o c, 1, Len(s) + k)
               p == SubSeq(c, 1, k)
               r == s \o p
    <2>1. /\ p \in Seq(S)
          /\ Len(p) = k
          /\ \A i \in 1 .. k : p[i] = c[i]
      BY <1>1, PrefixProperties
    <2>2. /\ l \in Seq(S)
          /\ Len(l) = Len(s) + k
          /\ \A i \in 1 .. Len(s) + k : l[i] = (s \o c)[i]
      <3>1. Len(s) + k \in 0 .. Len(s \o c)
        BY <1>1, <1>2
      <3> QED BY <1>2, <3>1, PrefixProperties
    <2>3. /\ r \in Seq(S)
          /\ Len(r) = Len(s) + Len(p)
          /\ \A i \in 1 .. Len(s) + Len(p) : r[i] = IF i <= Len(s) THEN s[i] ELSE p[i - Len(s)]
      BY <2>1, ConcatProperties
    <2> HIDE DEF l, p, r
    <2>4. ASSUME NEW i \in 1 .. Len(l) PROVE l[i] = r[i]
      <3>1. i \in 1 .. Len(s) + k /\ i \in 1 .. Len(s) + Len(c)
        BY <1>1, <2>2
      <3>2. CASE i <= Len(s)
        BY <1>2, <2>1, <2>2, <2>3, <3>1, <3>2
      <3>3. CASE ~(i <= Len(s))
        <4>1. i - Len(s) \in 1 .. k
          BY <1>1, <3>1, <3>3
        <4>2. l[i] = c[i - Len(s)]
          BY <1>2, <2>2, <3>1, <3>3
        <4>3. r[i] = p[i - Len(s)]
          BY <2>1, <2>3, <3>1, <3>3
        <4> QED BY <2>1, <4>1, <4>2, <4>3
      <3> QED BY <3>2, <3>3
    <2>5. l = r
      BY <2>1, <2>2, <2>3, <2>4, SeqEqual
    <2> QED BY <2>5 DEF l, p, r
  <1> DEFINE old == {SubSeq(s, 1, k) : k \in 0 .. Len(s)}
             added == {s \o SubSeq(c, 1, k) : k \in 1 .. Len(c)}
             all == {SubSeq(s \o c, 1, k) : k \in 0 .. Len(s \o c)}
  <1>5. ASSUME NEW x \in old PROVE x \in all
    <2>1. PICK k \in 0 .. Len(s) : x = SubSeq(s, 1, k)
      OBVIOUS
    <2>2. k \in 0 .. Len(s \o c) /\ x = SubSeq(s \o c, 1, k)
      BY <1>1, <1>2, <1>3, <2>1
    <2> QED BY <2>2
  <1>6. ASSUME NEW x \in added PROVE x \in all
    <2>1. PICK k \in 1 .. Len(c) : x = s \o SubSeq(c, 1, k)
      OBVIOUS
    <2>2. Len(s) + k \in 0 .. Len(s \o c) /\ x = SubSeq(s \o c, 1, Len(s) + k)
      BY <1>1, <1>2, <1>4, <2>1
    <2> QED BY <2>2
  <1>7. ASSUME NEW x \in all PROVE x \in old \cup added
    <2>1. PICK k \in 0 .. Len(s \o c) : x = SubSeq(s \o c, 1, k)
      OBVIOUS
    <2>2. CASE k <= Len(s)
      <3>1. k \in 0 .. Len(s) /\ x = SubSeq(s, 1, k)
        BY <1>1, <1>2, <1>3, <2>1, <2>2
      <3> QED BY <3>1
    <2>3. CASE ~(k <= Len(s))
      <3>1. k - Len(s) \in 1 .. Len(c) /\ k = Len(s) + (k - Len(s))
        BY <1>1, <1>2, <2>1, <2>3
      <3>2. x = s \o SubSeq(c, 1, k - Len(s))
        BY <1>4, <2>1, <3>1
      <3> QED BY <3>1, <3>2
    <2> QED BY <2>2, <2>3
  <1> QED BY <1>5, <1>6, <1>7 DEF Prefixes, Extensions

-----------------------------------------------------------------------------
(* Steps *)

LEMMA PoolInit == Init => PoolInv
  <1> SUFFICES ASSUME Init PROVE PoolInv
    OBVIOUS
  <1>1. GovTypeOK
    BY GovTypeInit DEF Init
  <1>2. << >> \in Seq(Leaf) /\ Len(<< >>) = 0
    BY EmptySeq
  <1>3. TypeOK
    BY <1>1, <1>2, PoolAssumption DEF Init, TypeOK, PoolAssumption, Accounts
  <1>4. KnownRootsArePast
    <2>1. SubSeq(<< >>, 1, 0) = << >>
      BY SubSeqEmpty
    <2>2. \A k \in 0 .. 0 : k = 0
      OBVIOUS
    <2>3. 0 \in 0 .. 0
      OBVIOUS
    <2>4. {SubSeq(<< >>, 1, k) : k \in 0 .. 0} = {<< >>}
      <3> DEFINE prefix(k) == SubSeq(<< >>, 1, k)
      <3>1. prefix(0) = << >>
        BY <2>1
      <3> HIDE DEF prefix
      <3>2. {prefix(k) : k \in 0 .. 0} = {<< >>}
        BY <3>1, <2>2, <2>3
      <3> QED BY <3>2 DEF prefix
    <2> QED BY <1>2, <2>4 DEF Init, KnownRootsArePast
  <1>5. StoredCanonical
    BY DEF Init, StoredCanonical
  <1> QED BY <1>3, <1>4, <1>5 DEF PoolInv

\* A call of insert_commitment for each element of cs.
LEMMA InsertStep ==
    ASSUME PoolInv, NEW cs \in Seq(Leaf), InsertCommitments(cs)
    PROVE  /\ leaves' \in Seq(Leaf)
           /\ Len(leaves') <= Capacity
           /\ \A r \in knownRoots' : r \in Seq(Leaf) /\ Len(r) <= Capacity
           /\ KnownRootsArePast'
  <1>1. /\ leaves \in Seq(Leaf) /\ Len(leaves) \in Nat /\ Len(cs) \in Nat
        /\ knownRoots = {SubSeq(leaves, 1, k) : k \in 0 .. Len(leaves)}
        /\ Capacity \in Nat
    BY LenProperties, PoolAssumption DEF PoolInv, TypeOK, KnownRootsArePast, PoolAssumption
  <1>2. /\ leaves' = leaves \o cs
        /\ knownRoots' = knownRoots \cup {leaves \o SubSeq(cs, 1, k) : k \in 1 .. Len(cs)}
        /\ Len(leaves) + Len(cs) <= Capacity
    BY DEF InsertCommitments, RootsAfter, HasRoom
  <1>3. leaves' \in Seq(Leaf) /\ Len(leaves') = Len(leaves) + Len(cs)
    BY <1>1, <1>2, ConcatProperties
  <1>4. knownRoots' = {SubSeq(leaves', 1, k) : k \in 0 .. Len(leaves')}
    <2>1. knownRoots' = Prefixes(leaves) \cup Extensions(leaves, cs)
      BY <1>1, <1>2 DEF Prefixes, Extensions
    <2>2. knownRoots' = Prefixes(leaves')
      BY <1>1, <1>2, <2>1, InsertionRoots
    <2> QED BY <2>2 DEF Prefixes
  <1>5. ASSUME NEW r \in knownRoots' PROVE r \in Seq(Leaf) /\ Len(r) <= Capacity
    <2>1. PICK k \in 0 .. Len(leaves') : r = SubSeq(leaves', 1, k)
      BY <1>4
    <2>2. r \in Seq(Leaf) /\ Len(r) = k
      BY <1>3, <2>1, PrefixProperties
    <2> QED BY <1>1, <1>2, <1>3, <2>1, <2>2
  <1> QED BY <1>1, <1>2, <1>3, <1>4, <1>5 DEF KnownRootsArePast

LEMMA MoveType ==
    ASSUME balance \in [Accounts -> Nat], NEW from \in Accounts, NEW to \in Accounts,
           NEW amount \in Int, amount > 0, MoveTokens(from, to, amount)
    PROVE  balance' \in [Accounts -> Nat]
  BY DEF MoveTokens

LEMMA DepositStep ==
    ASSUME PoolInv, NEW from \in Users, NEW amount \in Amounts, NEW owner \in OwnerKeys,
           Deposit(from, amount, owner)
    PROVE  PoolInv'
  <1> DEFINE note == [owner |-> owner, value |-> amount]
  <1>1. amount \in Int /\ amount > 0 /\ note \in Note
    BY PoolAssumption DEF PoolAssumption, Deposit, DepositAmountOK, Note
  <1>2. <<note>> \in Seq(Leaf)
    BY <1>1 DEF Leaf
  <1>3. balance' \in [Accounts -> Nat]
    BY <1>1, MoveType DEF Deposit, PoolInv, TypeOK, Accounts
  <1>4. /\ leaves' \in Seq(Leaf)
        /\ Len(leaves') <= Capacity
        /\ \A r \in knownRoots' : r \in Seq(Leaf) /\ Len(r) <= Capacity
        /\ KnownRootsArePast'
    BY <1>2, InsertStep DEF Deposit
  <1>5. UNCHANGED <<govVars, nullifiers, attested>>
    BY DEF Deposit
  <1>6. GovTypeOK'
    BY <1>5 DEF PoolInv, TypeOK, GovTypeOK, govVars
  <1> QED BY <1>3, <1>4, <1>5, <1>6 DEF PoolInv, TypeOK, StoredCanonical

LEMMA TransferStep ==
    ASSUME PoolInv, NEW nfs \in Seq(InputBytes), NEW cms \in Seq(InputBytes),
           NEW root \in knownRoots, Transfer(nfs, cms, root)
    PROVE  PoolInv'
  <1> DEFINE elems == [k \in DOMAIN cms |-> cms[k].elem]
  <1>1. elems \in Seq(Leaf)
    <2>1. DOMAIN cms = 1 .. Len(cms) /\ Len(cms) \in Nat
      BY LenProperties
    <2>2. \A k \in 1 .. Len(cms) : cms[k].elem \in Leaf
      <3>1. \A k \in 1 .. Len(cms) : cms[k] \in InputBytes
        BY ElementOfSeq
      <3> QED BY <3>1 DEF InputBytes
    <2> QED BY <2>1, <2>2
  <1>2. /\ leaves' \in Seq(Leaf)
        /\ Len(leaves') <= Capacity
        /\ \A r \in knownRoots' : r \in Seq(Leaf) /\ Len(r) <= Capacity
        /\ KnownRootsArePast'
    BY <1>1, InsertStep DEF Transfer
  <1>3. \A i \in DOMAIN nfs : nfs[i].enc = 0
    <2> DEFINE S == InputBytes \cup {Field(root)}
    <2>1. nfs \in Seq(S) /\ cms \in Seq(S)
      BY SeqMonotonic
    <2>2. CanonicalInputs(<<Field(root)>> \o nfs \o cms)
      BY DEF Transfer, Verify
    <2> QED BY <2>1, <2>2, CanonicalMiddle
  <1>4. \A n \in Range(nfs) : n \in InputBytes /\ n.enc = 0
    BY <1>3, LenProperties, ElementOfSeq DEF Range
  <1>5. nullifiers' = nullifiers \cup Range(nfs) /\ UNCHANGED <<govVars, balance, attested>>
    BY DEF Transfer
  <1>6. nullifiers' \subseteq [elem : Leaf, enc : Nat] /\ StoredCanonical'
    BY <1>4, <1>5 DEF PoolInv, TypeOK, StoredCanonical, InputBytes
  <1>7. GovTypeOK'
    BY <1>5 DEF PoolInv, TypeOK, GovTypeOK, govVars
  <1> QED BY <1>2, <1>5, <1>6, <1>7 DEF PoolInv, TypeOK

LEMMA SpendTypes ==
    ASSUME PoolInv, NEW root \in knownRoots
    PROVE  /\ \A s \in NoteSpends(root) : s.nf \in Nullifier
           /\ \A s \in DummySpends : s.nf \in Nullifier
  <1>1. root \in Seq(Leaf) /\ Len(root) <= Capacity
    BY DEF PoolInv, TypeOK
  <1>2. ASSUME NEW s \in NoteSpends(root) PROVE s.nf \in Nullifier
    <2>1. PICK i \in {j \in DOMAIN root : root[j] \in Note} :
               s = [nf |-> NullifierOf(root[i], i), value |-> root[i].value]
      BY DEF NoteSpends
    <2>2. NullifierOf(root[i], i) \in Nullifier
      BY <1>1, NullifierOfType
    <2> QED BY <2>1, <2>2
  <1>3. ASSUME NEW s \in DummySpends PROVE s.nf \in Nullifier
    <2>1. PICK d \in [key : DummyKeys, index : DummyIndices] : s = [nf |-> d, value |-> 0]
      BY DEF DummySpends
    <2>2. d \in Nullifier
      BY PoolAssumption DEF PoolAssumption, Nullifier, Keys
    <2> QED BY <2>1, <2>2
  <1> QED BY <1>2, <1>3

\* A slice of a call's inputs is a vector of inputs.
LEMMA SliceType ==
    ASSUME NEW S, NEW x \in Seq(S), NEW m \in Nat, NEW n \in Nat, m \in 1 .. Len(x) + 1, n <= Len(x)
    PROVE  SubSeq(x, m, n) \in Seq(S)
  <1>1. \A i \in m .. n : x[i] \in S
    <2> SUFFICES ASSUME NEW i \in m .. n PROVE x[i] \in S
      OBVIOUS
    <2>1. i \in 1 .. Len(x)
      BY LenProperties
    <2> QED BY <2>1, ElementOfSeq
  <1> QED BY <1>1, SubSeqProperties

LEMMA TransferCallsStep == PoolInv /\ TransferCalls => PoolInv'
  <1> SUFFICES ASSUME PoolInv, TransferCalls PROVE PoolInv'
    OBVIOUS
  <1>1. PICK shape \in Shapes, root \in knownRoots :
             \E s, t \in NoteSpends(root) \cup DummySpends, e, f \in Encodings :
             \E cd \in OutputPairs(s.value + t.value) :
               LET x == <<Bytes(s.nf, e), Bytes(t.nf, f), Field(cd[1]), Field(cd[2])>>
               IN  /\ shape[1] + shape[2] = Len(x)
                   /\ Transfer(SubSeq(x, 1, shape[1]), SubSeq(x, shape[1] + 1, Len(x)), root)
    BY DEF TransferCalls
  <1> DEFINE spends == NoteSpends(root) \cup DummySpends
  <1>2. PICK s \in spends, t \in spends, e \in Encodings, f \in Encodings :
             \E cd \in OutputPairs(s.value + t.value) :
               LET x == <<Bytes(s.nf, e), Bytes(t.nf, f), Field(cd[1]), Field(cd[2])>>
               IN  /\ shape[1] + shape[2] = Len(x)
                   /\ Transfer(SubSeq(x, 1, shape[1]), SubSeq(x, shape[1] + 1, Len(x)), root)
    BY <1>1
  <1>3. PICK cd \in OutputPairs(s.value + t.value) :
               LET x == <<Bytes(s.nf, e), Bytes(t.nf, f), Field(cd[1]), Field(cd[2])>>
               IN  /\ shape[1] + shape[2] = Len(x)
                   /\ Transfer(SubSeq(x, 1, shape[1]), SubSeq(x, shape[1] + 1, Len(x)), root)
    BY <1>2
  <1> DEFINE x == <<Bytes(s.nf, e), Bytes(t.nf, f), Field(cd[1]), Field(cd[2])>>
             nfs == SubSeq(x, 1, shape[1])
             cms == SubSeq(x, shape[1] + 1, Len(x))
  <1>4. s.nf \in Nullifier /\ t.nf \in Nullifier
    BY SpendTypes
  <1>5. cd[1] \in Note /\ cd[2] \in Note
    BY PoolAssumption DEF PoolAssumption, OutputPairs, Outputs, Note
  <1>6. /\ Bytes(s.nf, e) \in InputBytes /\ Bytes(t.nf, f) \in InputBytes
        /\ Field(cd[1]) \in InputBytes /\ Field(cd[2]) \in InputBytes
    BY <1>4, <1>5, PoolAssumption DEF PoolAssumption, InputBytes, Bytes, Field, Leaf
  <1>7. x \in Seq(InputBytes) /\ Len(x) = 4
    BY <1>6
  <1>8. shape[1] \in Nat /\ shape[2] \in Nat /\ shape[1] + shape[2] = 4
    BY <1>3, <1>7, PoolAssumption DEF PoolAssumption
  <1>9. nfs \in Seq(InputBytes) /\ cms \in Seq(InputBytes)
    <2> HIDE DEF x
    <2>1. /\ 1 \in 1 .. Len(x) + 1 /\ shape[1] <= Len(x)
          /\ shape[1] + 1 \in Nat /\ shape[1] + 1 \in 1 .. Len(x) + 1
          /\ Len(x) \in Nat /\ Len(x) <= Len(x)
      BY <1>7, <1>8
    <2>2. nfs \in Seq(InputBytes)
      BY <1>7, <1>8, <2>1, SliceType
    <2>3. cms \in Seq(InputBytes)
      BY <1>7, <1>8, <2>1, SliceType
    <2> QED BY <2>2, <2>3
  <1>10. Transfer(nfs, cms, root)
    BY <1>3
  <1> QED
    <2> HIDE DEF nfs, cms
    <2> QED BY <1>9, <1>10, TransferStep

LEMMA WithdrawCallsStep == PoolInv /\ WithdrawCalls => PoolInv'
  <1> SUFFICES ASSUME PoolInv, WithdrawCalls PROVE PoolInv'
    OBVIOUS
  <1>1. PICK root \in knownRoots :
             \E s \in NoteSpends(root), e \in Encodings, to \in Accounts, amount \in Amounts :
                Withdraw(Bytes(s.nf, e), to, amount, root)
    BY DEF WithdrawCalls
  <1>2. PICK s \in NoteSpends(root), e \in Encodings, to \in Accounts, amount \in Amounts :
             Withdraw(Bytes(s.nf, e), to, amount, root)
    BY <1>1
  <1> DEFINE nf == Bytes(s.nf, e)
             inputs == <<Field(root), nf, Field(to), Field(amount)>>
  <1>3. nf \in InputBytes
    BY SpendTypes, PoolAssumption DEF PoolAssumption, InputBytes, Bytes, Leaf
  <1>4. nf.enc = 0
    <2>1. CanonicalInputs(inputs)
      BY <1>2 DEF Withdraw, WithdrawAccepted, Verify
    <2>2. 2 \in DOMAIN inputs /\ inputs[2] = nf
      OBVIOUS
    <2> QED BY <2>1, <2>2 DEF CanonicalInputs
  <1>5. balance' \in [Accounts -> Nat]
    <2>1. amount \in Int /\ amount > 0 /\ MoveTokens(Pool, to, amount)
      BY <1>2, PoolAssumption DEF PoolAssumption, Withdraw, WithdrawAccepted
    <2>2. Pool \in Accounts /\ balance \in [Accounts -> Nat]
      BY DEF Accounts, PoolInv, TypeOK
    <2> QED BY <2>1, <2>2, MoveType
  <1>6. nullifiers' = nullifiers \cup {nf} /\ UNCHANGED <<govVars, leaves, knownRoots, attested>>
    BY <1>2 DEF Withdraw
  <1>7. nullifiers' \subseteq InputBytes /\ StoredCanonical'
    BY <1>3, <1>4, <1>6 DEF PoolInv, TypeOK, StoredCanonical, InputBytes
  <1>8. GovTypeOK'
    BY <1>6 DEF PoolInv, TypeOK, GovTypeOK, govVars
  <1>9. KnownRootsArePast'
    BY <1>6 DEF PoolInv, KnownRootsArePast
  <1> QED BY <1>5, <1>6, <1>7, <1>8, <1>9 DEF PoolInv, TypeOK, InputBytes

LEMMA TokenTransferStep ==
    ASSUME PoolInv, NEW from \in Users, NEW amount \in Amounts, TokenTransferToPool(from, amount)
    PROVE  PoolInv'
  <1>1. balance' \in [Accounts -> Nat]
    BY PoolAssumption, MoveType
    DEF PoolAssumption, TokenTransferToPool, PoolInv, TypeOK, Accounts
  <1>2. UNCHANGED <<govVars, leaves, knownRoots, nullifiers, attested>>
    BY DEF TokenTransferToPool
  <1>3. GovTypeOK' /\ KnownRootsArePast' /\ StoredCanonical'
    BY <1>2 DEF PoolInv, TypeOK, GovTypeOK, govVars, KnownRootsArePast, StoredCanonical
  <1> QED BY <1>1, <1>2, <1>3 DEF PoolInv, TypeOK

LEMMA GovernanceStep ==
    ASSUME PoolInv, [GovNext]_govVars, UNCHANGED <<balance, leaves, knownRoots, nullifiers>>,
           attested' \subseteq Users
    PROVE  PoolInv'
  <1>1. GovTypeOK'
    BY GovTypeStep DEF PoolInv, TypeOK
  <1> QED BY <1>1 DEF PoolInv, TypeOK, KnownRootsArePast, StoredCanonical

LEMMA OutsideStep == PoolInv /\ Outside => PoolInv'
  <1> SUFFICES ASSUME PoolInv, Outside PROVE PoolInv'
    OBVIOUS
  <1>1. [GovNext]_govVars /\ UNCHANGED <<balance, leaves, knownRoots, nullifiers>>
    BY DEF Outside, GovNext
  <1>2. attested' \subseteq Users
    BY DEF Outside, PoolInv, TypeOK
  <1> QED BY <1>1, <1>2, GovernanceStep

\* Each call, by anyone, keeps the invariant.
LEMMA PoolStep == PoolInv /\ [Next]_vars => PoolInv'
  <1> SUFFICES ASSUME PoolInv, [Next]_vars PROVE PoolInv'
    OBVIOUS
  <1>1. CASE LedgerCall
    BY <1>1, DepositStep, TransferCallsStep, WithdrawCallsStep, TokenTransferStep DEF LedgerCall
  <1>2. ASSUME [GovNext]_govVars, UNCHANGED ledgerVars PROVE PoolInv'
    BY <1>2, GovernanceStep DEF ledgerVars, PoolInv, TypeOK
  <1>3. CASE GovCall /\ UNCHANGED ledgerVars
    BY <1>2, <1>3 DEF GovNext
  <1>4. CASE UNCHANGED vars
    BY <1>2, <1>4 DEF vars
  <1> QED BY <1>1, <1>3, <1>4, OutsideStep DEF Next

\* In every reachable state of the pool the types hold, stored nullifiers are
\* canonical, and the known roots are those of the past.
THEOREM PoolInvariant == Spec => []PoolInv
  BY PoolInit, PoolStep, PTL DEF Spec

-----------------------------------------------------------------------------
(* What follows *)

\* The pool's state keeps its types.
THEOREM TypeCorrect == Spec => []TypeOK
  <1>1. PoolInv => TypeOK
    BY DEF PoolInv
  <1> QED BY <1>1, PoolInvariant, PTL

\* A nullifier is never stored under two encodings: the verifier's check of
\* every public input is what makes the byte-keyed set a set of field elements.
THEOREM NullifierStoredOnce == Spec => []SpentOnce
  <1>1. PoolInv => SpentOnce
    <2> SUFFICES ASSUME PoolInv, NEW m \in nullifiers, NEW n \in nullifiers, m.elem = n.elem
                 PROVE  m = n
      BY DEF SpentOnce
    <2>1. m \in [elem : Leaf, enc : Nat] /\ n \in [elem : Leaf, enc : Nat]
      BY DEF PoolInv, TypeOK
    <2>2. m.enc = 0 /\ n.enc = 0
      BY DEF PoolInv, StoredCanonical
    <2> QED BY <2>1, <2>2
  <1> QED BY <1>1, PoolInvariant, PTL

\* The known roots are the roots the tree has had, no more and no fewer: a
\* proof made against any of them is still answered.
THEOREM RootsArePast == Spec => []KnownRootsArePast
  <1>1. PoolInv => KnownRootsArePast
    BY DEF PoolInv
  <1> QED BY <1>1, PoolInvariant, PTL
=============================================================================
