--------------------------- MODULE GatedPoolProofs ---------------------------
(***************************************************************************)
(* The three contracts together, for any users, claims, credentials,       *)
(* routings, keys and circuits: funds enter a gated pool only from         *)
(* somebody whose credential holds at that moment; the composition         *)
(* implements the pool alone, whose solvency it inherits, and a gate that  *)
(* shuts for everybody strands no note.                                    *)
(***************************************************************************)
EXTENDS GatedPool, AttestationRegistryProofs

BalanceIsInt == balance \in [Users \cup {Pool} -> Int]

\* The inductive invariant: what the registries guarantee survives every call of
\* the pool, and balances are numbers, so that a smaller one was paid from.
GatedInv == AttestationInv /\ BalanceIsInt

-----------------------------------------------------------------------------
LEMMA GatedInitInv == GatedInit => GatedInv
  <1> SUFFICES ASSUME GatedInit PROVE GatedInv
    OBVIOUS
  <1>1. AttestationInv
    BY AttestationInitInv DEF GatedInit
  <1>2. BalanceIsInt
    BY GateAssumption DEF GateAssumption, GatedInit, P!Init, P!Accounts, BalanceIsInt
  <1> QED BY <1>1, <1>2 DEF GatedInv

LEMMA MovedBalances ==
    ASSUME BalanceIsInt, NEW from \in Users \cup {Pool}, NEW to \in Users \cup {Pool},
           NEW amount \in Int, P!MoveTokens(from, to, amount)
    PROVE  /\ BalanceIsInt'
           /\ \A a \in Users \cup {Pool} : amount > 0 /\ balance'[a] < balance[a] => a = from
  BY DEF BalanceIsInt, P!MoveTokens

\* The only calls that move tokens, and what they do to the tree.
LEMMA PoolCallMoves ==
    ASSUME BalanceIsInt, PoolCall
    PROVE  /\ BalanceIsInt'
           /\ \A u \in Users : balance'[u] < balance[u] /\ leaves' # leaves => u \in Attested
  <1> SUFFICES /\ BalanceIsInt'
               /\ \A u \in Users : balance'[u] < balance[u] /\ leaves' # leaves => u \in Attested
    OBVIOUS
  <1>1. CASE UNCHANGED balance
    BY <1>1 DEF BalanceIsInt
  <1>2. ASSUME NEW from \in Users, NEW amount \in Amounts, NEW owner \in OwnerKeys,
               P!Deposit(from, amount, owner)
        PROVE  /\ BalanceIsInt'
               /\ \A u \in Users : balance'[u] < balance[u] => u \in Attested
    <2>1. /\ P!MoveTokens(from, Pool, amount) /\ from \in Attested /\ amount > 0
          /\ amount \in Int
      BY <1>2, GateAssumption DEF GateAssumption, P!Deposit, P!DepositAmountOK
    <2> QED BY <2>1, MovedBalances
  <1>3. CASE P!TransferCalls
    <2>1. PICK nfs, cms, root : P!Transfer(nfs, cms, root)
      BY <1>3 DEF P!TransferCalls
    <2> QED BY <1>1, <2>1 DEF P!Transfer
  <1>4. CASE P!WithdrawCalls
    <2>1. PICK nf, to, amount, root :
             to \in P!Accounts /\ amount \in Amounts /\ P!Withdraw(nf, to, amount, root)
      BY <1>4 DEF P!WithdrawCalls
    <2>2. P!MoveTokens(Pool, to, amount) /\ leaves' = leaves
      BY <2>1 DEF P!Withdraw
    <2> QED BY <2>1, <2>2, MovedBalances, GateAssumption DEF GateAssumption, P!Accounts
  <1>5. ASSUME NEW from \in Users, NEW amount \in Amounts, P!TokenTransferToPool(from, amount)
        PROVE  BalanceIsInt' /\ leaves' = leaves
    BY <1>5, MovedBalances, GateAssumption DEF GateAssumption, P!TokenTransferToPool
  <1>6. CASE P!LedgerCall
    <2>1. CASE UNCHANGED balance /\ BalanceIsInt'
      BY <2>1 DEF BalanceIsInt
    <2>2. CASE P!TransferCalls
      BY <1>1, <1>3, <2>2
    <2> QED BY <1>2, <1>3, <1>4, <1>5, <1>6 DEF P!LedgerCall
  <1> QED BY <1>1, <1>6 DEF PoolCall

LEMMA GatedStep == GatedInv /\ [GatedNext]_gatedVars => GatedInv'
  <1> SUFFICES ASSUME GatedInv, [GatedNext]_gatedVars PROVE GatedInv'
    OBVIOUS
  <1>1. AttestationInv'
    <2>1. [Next]_vars
      BY DEF GatedNext, PoolCall, RegistryCall, gatedVars
    <2> QED BY <2>1, AttestationStep DEF GatedInv
  <1>2. BalanceIsInt'
    <2>1. CASE UNCHANGED poolVars
      BY <2>1 DEF GatedInv, BalanceIsInt, poolVars
    <2> QED BY <2>1, PoolCallMoves DEF GatedInv, GatedNext, RegistryCall, gatedVars
  <1> QED BY <1>1, <1>2 DEF GatedInv

\* Who passes the gate holds a credential for its claim.
LEMMA AttestedIsBacked ==
    ASSUME AttestationInv, NEW u \in Attested
    PROVE  \E cred \in Credentials :
              /\ cred.subject = u /\ cred.claim = GateClaim
              /\ now <= cred.expiry
              /\ Field(cred.ref) \notin revoked
  <1>1. u \in Users /\ GateClaim \in ClaimTypes /\ Check(u, GateClaim)
    BY GateAssumption DEF GateAssumption, Attested
  <1> DEFINE record == attestation[<<u, GateClaim>>]
  <1>2. <<u, GateClaim>> \in DOMAIN attestation /\ ~Expired(record) /\ record.ref \notin revoked
    BY <1>1 DEF Check
  <1>3. record \in Record
    BY <1>2 DEF AttestationInv, AttestationTypeOK
  <1>4. PICK cred \in Credentials : Backs(cred, u, GateClaim, record)
    BY <1>1, <1>2 DEF AttestationInv, RecordsBacked
  <1>5. now \in Int /\ record.expiresAt \in Int /\ cred.expiry \in Int
    BY <1>3, RegistryAssumption, AttestationAssumption
    DEF Record, AttestationInv, RegistryInv, RegistryTypeOK
  <1>6. now <= cred.expiry
    BY <1>2, <1>4, <1>5 DEF Backs, Expired
  <1>7. Field(cred.ref) \notin revoked
    BY <1>2, <1>3, <1>4, RecordRef DEF Backs
  <1> QED BY <1>4, <1>6, <1>7 DEF Backs

BackedStep ==
    \A u \in Users : balance'[u] < balance[u] /\ leaves' # leaves =>
       \E cred \in Credentials :
          /\ cred.subject = u /\ cred.claim = GateClaim
          /\ now <= cred.expiry
          /\ Field(cred.ref) \notin revoked

\* Funds enter the pool only from somebody who at that moment holds a credential
\* for the required claim that has not run out and is not revoked: whatever is
\* called in between in any of the three contracts.
THEOREM DepositorsAreBacked == GatedSpec => DepositsAreBacked
  <1>1. GatedInv /\ [GatedNext]_gatedVars => [BackedStep]_gatedVars
    <2> SUFFICES ASSUME GatedInv, GatedNext PROVE BackedStep
      OBVIOUS
    <2>1. CASE PoolCall
      BY <2>1, PoolCallMoves, AttestedIsBacked DEF GatedInv, BackedStep
    <2>2. CASE RegistryCall
      BY <2>2 DEF RegistryCall, poolVars, BackedStep
    <2> QED BY <2>1, <2>2 DEF GatedNext
  <1>2. GatedSpec => [][BackedStep]_gatedVars
    BY <1>1, GatedInitInv, GatedStep, PTL DEF GatedSpec
  <1> QED BY <1>2 DEF DepositsAreBacked, BackedStep

-----------------------------------------------------------------------------
(* The pool among the registries is a pool with a gate of any answers *)

\* The module of the pool's proofs, over the same state as instance P.
S == INSTANCE SolvencyProofs WITH
    admin         <- poolAdmin,
    Admins        <- PoolAdmins,
    InitialAdmin  <- InitialPoolAdmin,
    Verifiers     <- PoolVerifiers,
    CircuitOf     <- PoolCircuitOf,
    RotationDelay <- PoolDelay,
    attested      <- Attested,
    Gated         <- TRUE

\* What the pool's theorems assume of its constants holds of the composition's.
LEMMA PoolConstants == S!PoolAssumption /\ S!GovernanceAssumption
  BY GateAssumption, AttestationAssumption, RegistryAssumption
  DEF GateAssumption, AttestationAssumption, RegistryAssumption,
      S!PoolAssumption, S!GovernanceAssumption, S!VerifierSlot

\* The two instances define the same.
LEMMA SameValues ==
    /\ P!Live = S!Live
    /\ P!Accounts = S!Accounts
    /\ \A root, nf : P!SpentValues(root, nf) = S!SpentValues(root, nf)
    /\ \A note, i : P!NullifierOf(note, i) = S!NullifierOf(note, i)
    /\ \A elem : P!Field(elem) = S!Field(elem)
  BY DEF P!Live, S!Live, P!Accounts, S!Accounts, P!SpentValues, S!SpentValues,
         P!NullifierOf, S!NullifierOf, P!Field, S!Field, P!Bytes, S!Bytes,
         P!Note, S!Note, P!Nullifier, S!Nullifier, P!Keys, S!Keys

LEMMA SameVerify ==
    \A v, inputs : P!Verify(v, inputs) <=> S!Verify(v, inputs)
  BY SameValues
  DEF P!Verify, S!Verify, P!CanonicalInputs, S!CanonicalInputs,
      P!TransferRelation, S!TransferRelation, P!WithdrawRelation, S!WithdrawRelation,
      P!SpentValues, S!SpentValues, P!NullifierOf, S!NullifierOf,
      P!Note, S!Note, P!Nullifier, S!Nullifier, P!Keys, S!Keys

LEMMA SameWithdrawals ==
    \A nf, to, amount, root :
       P!WithdrawAccepted(nf, to, amount, root) <=> S!WithdrawAccepted(nf, to, amount, root)
  BY SameValues, SameVerify DEF P!WithdrawAccepted, S!WithdrawAccepted

LEMMA SameExit == P!EveryNoteCanExit <=> S!EveryNoteCanExit
  BY SameValues, SameWithdrawals DEF P!EveryNoteCanExit, S!EveryNoteCanExit

\* Both enumerate the same calls of the pool.
LEMMA SameDeposits ==
    \A from, amount, owner : P!Deposit(from, amount, owner) => S!Deposit(from, amount, owner)
  BY DEF P!Deposit, S!Deposit, P!DepositAmountOK, S!DepositAmountOK, P!MoveTokens, S!MoveTokens,
         P!InsertCommitments, S!InsertCommitments, P!HasRoom, S!HasRoom,
         P!RootsAfter, S!RootsAfter, P!govVars, S!govVars

LEMMA SameTransfers == P!TransferCalls => S!TransferCalls
  <1>1. \A nfs, cms, root : P!Transfer(nfs, cms, root) => S!Transfer(nfs, cms, root)
    BY SameValues, SameVerify
    DEF P!Transfer, S!Transfer, P!Fresh, S!Fresh, P!Range, S!Range,
        P!InsertCommitments, S!InsertCommitments, P!HasRoom, S!HasRoom,
        P!RootsAfter, S!RootsAfter, P!govVars, S!govVars
  <1>2. /\ \A elem, enc : P!Bytes(elem, enc) = S!Bytes(elem, enc)
        /\ \A root : P!NoteSpends(root) = S!NoteSpends(root)
        /\ P!DummySpends = S!DummySpends
        /\ \A total : P!OutputPairs(total) = S!OutputPairs(total)
    BY SameValues DEF P!Bytes, S!Bytes, P!NoteSpends, S!NoteSpends, P!DummySpends, S!DummySpends,
           P!OutputPairs, S!OutputPairs, P!Outputs, S!Outputs, P!Note, S!Note
  <1> DEFINE x(s, t, e, f, cd) == <<P!Bytes(s.nf, e), P!Bytes(t.nf, f), P!Field(cd[1]), P!Field(cd[2])>>
  <1>3. \A s, t, e, f, cd :
           x(s, t, e, f, cd)
             = <<S!Bytes(s.nf, e), S!Bytes(t.nf, f), S!Field(cd[1]), S!Field(cd[2])>>
    BY <1>2, SameValues
  <1>4. ASSUME P!TransferCalls PROVE S!TransferCalls
    <2>1. PICK shape \in {sh \in Shapes : Len(leaves) + sh[2] <= Capacity}, root \in knownRoots :
             \E s, t \in P!NoteSpends(root) \cup P!DummySpends, e, f \in Encodings :
             \E cd \in P!OutputPairs(s.value + t.value) :
                LET y == x(s, t, e, f, cd)
                IN  /\ shape[1] + shape[2] = Len(y)
                    /\ P!Transfer(SubSeq(y, 1, shape[1]), SubSeq(y, shape[1] + 1, Len(y)), root)
      BY <1>4, Zenon DEF P!TransferCalls
    <2>2. PICK s \in P!NoteSpends(root) \cup P!DummySpends,
               t \in P!NoteSpends(root) \cup P!DummySpends, e \in Encodings, f \in Encodings :
             \E cd \in P!OutputPairs(s.value + t.value) :
                LET y == x(s, t, e, f, cd)
                IN  /\ shape[1] + shape[2] = Len(y)
                    /\ P!Transfer(SubSeq(y, 1, shape[1]), SubSeq(y, shape[1] + 1, Len(y)), root)
      BY <2>1, Zenon
    <2>3. PICK cd \in P!OutputPairs(s.value + t.value) :
             LET y == x(s, t, e, f, cd)
             IN  /\ shape[1] + shape[2] = Len(y)
                 /\ P!Transfer(SubSeq(y, 1, shape[1]), SubSeq(y, shape[1] + 1, Len(y)), root)
      BY <2>2, Zenon
    <2> DEFINE y == x(s, t, e, f, cd)
    <2>4. /\ s \in S!NoteSpends(root) \cup S!DummySpends
          /\ t \in S!NoteSpends(root) \cup S!DummySpends
          /\ cd \in S!OutputPairs(s.value + t.value)
      BY <1>2
    <2>5. y = <<S!Bytes(s.nf, e), S!Bytes(t.nf, f), S!Field(cd[1]), S!Field(cd[2])>>
      BY <1>3
    <2>6. /\ shape[1] + shape[2] = Len(y)
          /\ S!Transfer(SubSeq(y, 1, shape[1]), SubSeq(y, shape[1] + 1, Len(y)), root)
      BY <1>1, <2>3
    <2> HIDE DEF y
    <2> QED BY <2>4, <2>5, <2>6 DEF S!TransferCalls
  <1> QED BY <1>4

LEMMA SameWithdrawCalls == P!WithdrawCalls => S!WithdrawCalls
  <1>1. \A nf, to, amount, root : P!Withdraw(nf, to, amount, root) => S!Withdraw(nf, to, amount, root)
    BY SameWithdrawals DEF P!Withdraw, S!Withdraw, P!MoveTokens, S!MoveTokens, P!govVars, S!govVars
  <1>2. /\ \A elem, enc : P!Bytes(elem, enc) = S!Bytes(elem, enc)
        /\ \A root : P!NoteSpends(root) = S!NoteSpends(root)
    BY SameValues DEF P!Bytes, S!Bytes, P!NoteSpends, S!NoteSpends, P!Note, S!Note
  <1>3. ASSUME P!WithdrawCalls PROVE S!WithdrawCalls
    <2> PICK root \in knownRoots : \E s \in P!NoteSpends(root), e \in Encodings,
           to \in P!Accounts, amount \in Amounts : P!Withdraw(P!Bytes(s.nf, e), to, amount, root)
      BY <1>3 DEF P!WithdrawCalls
    <2>1. PICK s \in P!NoteSpends(root), e \in Encodings,
               to \in P!Accounts, amount \in Amounts :
             P!Withdraw(P!Bytes(s.nf, e), to, amount, root)
      OBVIOUS
    <2>2. s \in S!NoteSpends(root) /\ to \in S!Accounts
      BY <1>2, SameValues
    <2>3. S!Withdraw(S!Bytes(s.nf, e), to, amount, root)
      BY <1>1, <1>2, <2>1
    <2> QED BY <2>2, <2>3 DEF S!WithdrawCalls
  <1> QED BY <1>3

LEMMA SameLedgerCalls == P!LedgerCall => S!LedgerCall
  <1>1. \A from, amount : P!TokenTransferToPool(from, amount) => S!TokenTransferToPool(from, amount)
    BY DEF P!TokenTransferToPool, S!TokenTransferToPool, P!MoveTokens, S!MoveTokens,
           P!govVars, S!govVars
  <1> QED BY <1>1, SameDeposits, SameTransfers, SameWithdrawCalls, Zenon
      DEF P!LedgerCall, S!LedgerCall

LEMMA SameGovCalls == P!GovCall => S!GovCall
  BY DEF P!GovCall, S!GovCall, P!VerifierSlot, S!VerifierSlot, P!Queue, S!Queue, P!Remove, S!Remove,
         P!TimelockElapsed, S!TimelockElapsed,
         P!QueueVerifierRotation, S!QueueVerifierRotation,
         P!CancelVerifierRotation, S!CancelVerifierRotation,
         P!ExecuteVerifierRotation, S!ExecuteVerifierRotation,
         P!QueueAdminRotation, S!QueueAdminRotation,
         P!CancelAdminRotation, S!CancelAdminRotation,
         P!ExecuteAdminRotation, S!ExecuteAdminRotation

\* Before anybody presented anything the gate lets nobody in.
LEMMA GatedInitIsPoolInit == GatedInit => P!Init /\ S!Init
  BY DEF GatedInit, Init, NoKeys, Attested, Check, P!Init, S!Init, P!GovInit, S!GovInit,
         RegistryInit, P!Accounts, S!Accounts

\* What a registry does is, for the pool, another answer of its gate or a later ledger.
LEMMA RegistryCallIsOutside == RegistryCall => S!Outside
  <1> SUFFICES ASSUME RegistryCall PROVE S!Outside
    OBVIOUS
  <1>1. UNCHANGED now \/ LedgerClose
    <2>1. CASE AttestationNext
      BY <2>1 DEF AttestationNext, Present, RevokeCredential, SetVerifier, QueueAdminRotation,
                  CancelAdminRotation, ExecuteAdminRotation, registryState
    <2>2. CASE RegistryNext
      BY <2>2 DEF RegistryNext, Queue, Cancel, Execute
    <2> QED BY <2>1, <2>2 DEF RegistryCall, Next
  <1>2. S!LedgerClose \/ UNCHANGED S!govVars
    BY <1>1 DEF RegistryCall, poolVars, LedgerClose, S!LedgerClose, S!govVars
  <1>3. Attested' \in SUBSET Users
    BY DEF Attested
  <1> QED BY <1>2, <1>3 DEF S!Outside, RegistryCall, poolVars

LEMMA PoolCallIsPoolNext == PoolCall => S!Next
  <1> SUFFICES ASSUME PoolCall PROVE S!Next
    OBVIOUS
  <1>1. Attested' = Attested
    BY DEF PoolCall, vars, registryState, attestationVars, Attested, Check, Expired
  <1>2. CASE P!LedgerCall
    BY <1>2, SameLedgerCalls DEF S!Next
  <1>3. CASE P!GovCall /\ UNCHANGED <<balance, leaves, knownRoots, nullifiers>>
    BY <1>1, <1>3, SameGovCalls DEF S!Next, S!ledgerVars
  <1> QED BY <1>2, <1>3 DEF PoolCall

LEMMA GatedStepIsPoolStep == [GatedNext]_gatedVars => [S!Next]_(S!vars)
  <1> SUFFICES ASSUME [GatedNext]_gatedVars PROVE [S!Next]_(S!vars)
    OBVIOUS
  <1>1. CASE UNCHANGED gatedVars
    <2>1. Attested' = Attested
      BY <1>1 DEF gatedVars, vars, registryState, attestationVars, Attested, Check, Expired
    <2> QED BY <1>1, <2>1 DEF gatedVars, vars, registryState, poolVars, S!vars, S!govVars, S!ledgerVars
  <1>2. CASE RegistryCall
    BY <1>2, RegistryCallIsOutside DEF S!Next
  <1> QED BY <1>1, <1>2, PoolCallIsPoolNext DEF GatedNext

\* Every behaviour of the three contracts is one of the pool with a gate that
\* answers at will: what holds of that pool holds of the composition.
THEOREM GatedPoolIsPool == GatedSpec => S!Spec
  BY GatedInitIsPoolInit, GatedStepIsPoolStep, PTL DEF GatedSpec, S!Spec

\* The composed contracts stay solvent: whatever the registries do between the calls,
\* the pool's balance covers the unspent notes and each of them can be withdrawn.
THEOREM GatedSolvency ==
    ASSUME S!TwoByTwo
    PROVE  GatedSpec => []S!SolvencyInv
  <1>1. S!SolvencyInv /\ [S!Next]_(S!vars) => S!SolvencyInv'
    BY PoolConstants, S!SolvencyStep
  <1>2. S!Init => S!SolvencyInv
    BY PoolConstants, S!SolvencyInit
  <1> QED BY <1>1, <1>2, GatedPoolIsPool, PTL DEF S!Spec

\* Once every credential for the claim has run out or is revoked nobody passes the
\* gate, and even then every unspent note can be withdrawn.
THEOREM ShutGateStrandsNobody ==
    ASSUME S!TwoByTwo
    PROVE  GatedSpec => []ShutGateHoldsNoNotes
  <1>1. GatedInv /\ S!SolvencyInv => ShutGateHoldsNoNotes
    <2> SUFFICES ASSUME GatedInv, S!SolvencyInv, GateShut PROVE Attested = {} /\ P!EveryNoteCanExit
      BY DEF ShutGateHoldsNoNotes
    <2>1. ASSUME NEW u \in Attested PROVE FALSE
      <3>1. PICK cred \in Credentials : /\ cred.claim = GateClaim
                                        /\ now <= cred.expiry
                                        /\ Field(cred.ref) \notin revoked
        BY <2>1, AttestedIsBacked DEF GatedInv
      <3>2. now \in Int /\ cred.expiry \in Int
        BY AttestationAssumption, RegistryAssumption
        DEF AttestationAssumption, GatedInv, AttestationInv, RegistryInv, RegistryTypeOK
      <3> QED BY <3>1, <3>2 DEF GateShut
    <2>2. S!EveryNoteCanExit
      BY PoolConstants, S!NotesCanExit
    <2> QED BY <2>1, <2>2, SameExit
  <1>2. GatedSpec => []GatedInv
    BY GatedInitInv, GatedStep, PTL DEF GatedSpec
  <1> QED BY <1>1, <1>2, GatedSolvency, PTL
=============================================================================
