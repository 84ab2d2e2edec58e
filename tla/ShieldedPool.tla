---------------------------- MODULE ShieldedPool ----------------------------
(***************************************************************************)
(* The shielded pool contract: deposits, shielded transfers, withdrawals,  *)
(* and (by EXTENDS) the governance of its verifiers and admin, with the    *)
(* two circuits as the relations a proof can be made for.                  *)
(*                                                                         *)
(* Poseidon is collision free: a commitment IS its note, a nullifier IS    *)
(* its (key, leaf index), a root IS the sequence of leaves it commits to   *)
(* (module CommitmentTree checks that the contract's root is a function    *)
(* of that sequence).  Blindings are dropped, so that equal notes have     *)
(* equal commitments: two leaves may be indistinguishable.  Groth16 is     *)
(* sound and complete: a proof for given public inputs can be had exactly  *)
(* when the circuit has a witness for them.  A statement once provable     *)
(* stays so, hence submitting any provable statement at any time covers    *)
(* stale, replayed, reordered and lost bundles.                            *)
(***************************************************************************)
EXTENDS PoolGovernance, Sequences, FiniteSets, Functions

CONSTANTS
    Users,              \* addresses that hold the token
    Pool,               \* the pool contract's own address
    OwnerKeys,          \* spending keys that own notes
    DummyKeys,          \* spending keys provers use for zero-value dummy spends
    DummyIndices,       \* leaf indices they use with them
    Encodings,          \* multiples of the field order added to a 32-byte input
    NoteMax,            \* u64::MAX, the largest value the transfer circuit carries
    Amounts,            \* i128 amounts callers pass
    Capacity,           \* 2^TREE_DEPTH
    Shapes,             \* <<nullifiers, commitments>>: vector lengths of transfer calls
    CircuitOf,          \* the circuit whose key a verifier instance pins
    InitialBalance,     \* token balance of every user before the first deposit
    Gated               \* whether the pool was deployed with an attestation gate

Accounts == Users \cup {Pool}

Keys == OwnerKeys \cup DummyKeys

\* A commitment opens to a note: H(H(value, H(1, sk)), blinding).
Note == [owner : OwnerKeys, value : Nat]

\* H(H(2, sk), leaf_index); the circuits give an index TREE_DEPTH bits.
Nullifier == [key : Keys, index : 0 .. Capacity - 1]
NullifierOf(note, i) == [key |-> note.owner, index |-> i - 1]

ASSUME PoolAssumption ==
    /\ Pool \notin Users
    /\ DummyIndices \subseteq 0 .. Capacity - 1
    /\ Encodings \subseteq Nat
    /\ NoteMax \in Nat
    /\ Amounts \subseteq Int
    /\ Capacity \in Nat
    /\ Shapes \subseteq (Nat \X Nat)
    /\ CircuitOf \in [Verifiers -> {"transfer", "withdraw"}]
    /\ InitialBalance \in Nat
    /\ Gated \in BOOLEAN

VARIABLES
    balance,        \* the token contract: account |-> amount
    leaves,         \* commitments inserted so far, i.e. the current root
    knownRoots,     \* DataKey::KnownRoot
    nullifiers,     \* DataKey::Nullifier: keyed by 32 bytes, not by field element
    attested        \* users for whom the gate's registry answers check() = true

ledgerVars == <<balance, leaves, knownRoots, nullifiers, attested>>
vars == <<govVars, ledgerVars>>

Init ==
    /\ GovInit
    /\ balance = [a \in Accounts |-> IF a = Pool THEN 0 ELSE InitialBalance]
    /\ leaves = << >>
    /\ knownRoots = {<< >>}
    /\ nullifiers = {}
    /\ attested = {}

-----------------------------------------------------------------------------
\* Circuits.  A 32-byte input is a field element and the multiple of the field
\* order added to it; a proof speaks about field elements only.
Bytes(elem, enc) == [elem |-> elem, enc |-> enc]
Field(elem) == Bytes(elem, 0)

\* Mutation: the nullifier's index is not the one the path proves.
M_SpentValuesUnbound(root, nf) ==
    {0} \cup {root[i].value : i \in {j \in DOMAIN root : /\ root[j] \in Note
                                                        /\ root[j].owner = nf.key}}

\* Values a spent input with this nullifier may carry in the transfer circuit:
\* 0 with no proof of membership, any other value only from the leaf at the
\* nullifier's index under the root, in 64 bits.
SpentValues(root, nf) ==
    {0 : n \in Nullifier \cap {nf}} \cup
    {root[i].value : i \in {j \in DOMAIN root : /\ root[j] \in Note
                                                /\ NullifierOf(root[j], j) = nf
                                                /\ root[j].value <= NoteMax}}

\* 2-in/2-out: inputs are root, two nullifiers, two commitments.
TransferRelation(x) ==
    /\ Len(x) = 5
    /\ \A c \in {4, 5} : x[c] \in Note /\ x[c].value <= NoteMax
    /\ \E v \in SpentValues(x[1], x[2]), w \in SpentValues(x[1], x[3]) :
          v + w = x[4].value + x[5].value

\* Inputs are root, nullifier, recipient binding, amount.  The recipient is not
\* constrained, only part of the statement; membership is never skipped.
WithdrawRelation(x) ==
    /\ Len(x) = 4
    /\ \E i \in DOMAIN x[1] : /\ x[1][i] \in Note
                              /\ NullifierOf(x[1][i], i) = x[2]
                              /\ x[1][i].value = x[4]

\* Mutation: inputs are silently reduced into the field.
M_AnyEncoding(inputs) == TRUE

CanonicalInputs(inputs) == \A k \in DOMAIN inputs : inputs[k].enc = 0

\* ZkVerifier::verify, for the best proof its caller can have made.  It fails on
\* a wrong number of inputs and on an input that is not a canonical encoding.
Verify(v, inputs) ==
    /\ CanonicalInputs(inputs)
    /\ LET x == [k \in DOMAIN inputs |-> inputs[k].elem]
       IN  IF CircuitOf[v] = "transfer" THEN TransferRelation(x) ELSE WithdrawRelation(x)

-----------------------------------------------------------------------------
\* Token transfer; it fails when the sender's balance does not cover it.
MoveTokens(from, to, amount) ==
    /\ amount <= balance[from]
    /\ balance' = IF from = to THEN balance
                  ELSE [balance EXCEPT ![from] = @ - amount, ![to] = @ + amount]

\* Mutations: only the last root of a call becomes known; a new root displaces
\* the older ones; the tree accepts one leaf too many.
M_LastRootOnly(cs) == knownRoots \cup {leaves \o cs}
M_RecentRootsOnly(cs) == {leaves \o SubSeq(cs, 1, k) : k \in 1 .. Len(cs)}
M_HasRoomOffByOne(cs) == Len(leaves) + Len(cs) <= Capacity + 1

\* The root after each insertion becomes known, and stays so.
RootsAfter(cs) == knownRoots \cup {leaves \o SubSeq(cs, 1, k) : k \in 1 .. Len(cs)}

HasRoom(cs) == Len(leaves) + Len(cs) <= Capacity

\* insert_commitment for each commitment in turn; one too many panics and so
\* undoes the whole call.
InsertCommitments(cs) ==
    /\ HasRoom(cs)
    /\ leaves' = leaves \o cs
    /\ knownRoots' = RootsAfter(cs)

\* Mutation: no upper bound.
M_AnyPositiveAmount(amount) == 0 < amount

DepositAmountOK(amount) == 0 < amount /\ amount <= NoteMax

\* Mutation: the gate is not asked.
M_DepositUngated(from, amount, owner) ==
    /\ DepositAmountOK(amount)
    /\ MoveTokens(from, Pool, amount)
    /\ InsertCommitments(<<[owner |-> owner, value |-> amount]>>)
    /\ UNCHANGED <<govVars, nullifiers, attested>>

\* The commitment is computed from the amount moved, for any owner key.
Deposit(from, amount, owner) ==
    /\ DepositAmountOK(amount)
    /\ Gated => from \in attested
    /\ MoveTokens(from, Pool, amount)
    /\ InsertCommitments(<<[owner |-> owner, value |-> amount]>>)
    /\ UNCHANGED <<govVars, nullifiers, attested>>

\* Mutations: a nullifier may repeat within a call; the stored ones are ignored.
M_FreshAcrossCalls(nfs) == \A i \in DOMAIN nfs : nfs[i] \notin nullifiers
M_FreshWithinCall(nfs) == \A i, j \in DOMAIN nfs : i # j => nfs[i] # nfs[j]

Fresh(nfs) ==
    /\ \A i \in DOMAIN nfs : nfs[i] \notin nullifiers
    /\ \A i, j \in DOMAIN nfs : i # j => nfs[i] # nfs[j]

\* nfs and cms are vectors of 32-byte strings of any non-zero lengths: only the
\* verifier's input count bounds them, and only in total.
Transfer(nfs, cms, root) ==
    /\ nfs # << >> /\ cms # << >>
    /\ root \in knownRoots
    /\ Fresh(nfs)
    /\ Verify(verifier["Transfer"], <<Field(root)>> \o nfs \o cms)
    /\ nullifiers' = nullifiers \cup Range(nfs)
    /\ InsertCommitments([k \in DOMAIN cms |-> cms[k].elem])
    /\ UNCHANGED <<govVars, balance, attested>>

\* Mutations: leaving the pool requires an attestation too; a withdrawal must be
\* proven under the current root.
M_WithdrawGated(nf, to, amount, root) ==
    /\ amount > 0 /\ Gated => to \in attested
    /\ root \in knownRoots /\ nf \notin nullifiers
    /\ Verify(verifier["Withdraw"], <<Field(root), nf, Field(to), Field(amount)>>)

M_WithdrawLatestRoot(nf, to, amount, root) ==
    /\ amount > 0
    /\ root = leaves /\ nf \notin nullifiers
    /\ Verify(verifier["Withdraw"], <<Field(root), nf, Field(to), Field(amount)>>)
    /\ amount <= balance[Pool]

WithdrawAccepted(nf, to, amount, root) ==
    /\ amount > 0
    /\ root \in knownRoots
    /\ nf \notin nullifiers
    /\ Verify(verifier["Withdraw"], <<Field(root), nf, Field(to), Field(amount)>>)
    /\ amount <= balance[Pool]

Withdraw(nf, to, amount, root) ==
    /\ WithdrawAccepted(nf, to, amount, root)
    /\ nullifiers' = nullifiers \cup {nf}
    /\ MoveTokens(Pool, to, amount)
    /\ UNCHANGED <<govVars, leaves, knownRoots, attested>>

\* Anyone may send tokens to the pool's address directly.
TokenTransferToPool(from, amount) ==
    /\ amount > 0
    /\ MoveTokens(from, Pool, amount)
    /\ UNCHANGED <<govVars, leaves, knownRoots, nullifiers, attested>>

\* What happens outside the pool: a later ledger, and other answers of the gate's
\* registry, with the ledger (several attestations may lapse at once) or without.
Outside ==
    /\ LedgerClose \/ UNCHANGED govVars
    /\ attested' \in IF Gated THEN SUBSET Users ELSE {attested}
    /\ UNCHANGED <<balance, leaves, knownRoots, nullifiers>>

-----------------------------------------------------------------------------
\* The calls enumerated: proofs of real notes under a known root, padded with
\* dummies.  With DummyKeys containing OwnerKeys, anything provable.
NoteSpends(root) ==
    {[nf |-> NullifierOf(root[i], i), value |-> root[i].value] :
        i \in {j \in DOMAIN root : root[j] \in Note}}

DummySpends == {[nf |-> d, value |-> 0] : d \in [key : DummyKeys, index : DummyIndices]}

\* The pairs of outputs worth a given total or more: provers may try to create
\* value, but do not destroy their own by mistake.
Outputs == [owner : OwnerKeys, value : 0 .. NoteMax]
OutputPairs(total) == {cd \in Outputs \X Outputs : cd[1].value + cd[2].value >= total}

TransferCalls ==
    \E shape \in {sh \in Shapes : Len(leaves) + sh[2] <= Capacity} :
    \E root \in knownRoots :
    \E s, t \in NoteSpends(root) \cup DummySpends, e, f \in Encodings :
    \E cd \in OutputPairs(s.value + t.value) :
       LET x == <<Bytes(s.nf, e), Bytes(t.nf, f), Field(cd[1]), Field(cd[2])>>
       IN  /\ shape[1] + shape[2] = Len(x)
           /\ Transfer(SubSeq(x, 1, shape[1]), SubSeq(x, shape[1] + 1, Len(x)), root)

WithdrawCalls ==
    \E root \in knownRoots :
    \E s \in NoteSpends(root), e \in Encodings, to \in Accounts, amount \in Amounts :
       Withdraw(Bytes(s.nf, e), to, amount, root)

LedgerCall ==
    \/ \E from \in Users, amount \in Amounts, owner \in OwnerKeys : Deposit(from, amount, owner)
    \/ TransferCalls
    \/ WithdrawCalls
    \/ \E from \in Users, amount \in Amounts : TokenTransferToPool(from, amount)

Next ==
    \/ LedgerCall
    \/ GovCall /\ UNCHANGED ledgerVars
    \/ Outside

Spec == Init /\ [][Next]_vars
=============================================================================
