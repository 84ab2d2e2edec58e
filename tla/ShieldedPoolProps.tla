-------------------------- MODULE ShieldedPoolProps --------------------------
(***************************************************************************)
(* What the shielded pool promises its users, over module ShieldedPool.    *)
(***************************************************************************)
EXTENDS ShieldedPool

\* What a 32-byte leaf of the tree can hold: a note's commitment or, when the
\* vectors of a transfer are split unlike the circuit's, a nullifier.
Leaf == Note \cup Nullifier

\* Types of the whole pool; every stored nullifier is a canonical encoding.
TypeOK ==
    /\ GovTypeOK
    /\ balance \in [Accounts -> Nat]
    /\ leaves \in Seq(Leaf)
    /\ Len(leaves) <= Capacity
    /\ \A r \in knownRoots : r \in Seq(Leaf) /\ Len(r) <= Capacity
    /\ nullifiers \subseteq [elem : Leaf, enc : Nat]
    /\ attested \subseteq Users

\* A leaf is live while its note's nullifier is not stored.
Live == {i \in DOMAIN leaves : /\ leaves[i] \in Note
                               /\ Field(NullifierOf(leaves[i], i)) \notin nullifiers}

\* The shielded supply, counted unit by unit: <<i, k>> is the k-th unit of the
\* note at leaf i.
ShieldedUnits == UNION {{i} \X (1 .. leaves[i].value) : i \in Live}
ShieldedValue == Cardinality(ShieldedUnits)

\* The pool can always pay out every unspent note: no order of deposits,
\* transfers, withdrawals and rotations, under any known root, and no encoding
\* of a nullifier, makes the unspent notes worth more than the tokens held.
Solvency == ShieldedValue <= balance[Pool]

\* The header of the contract claims more: equality.
BalanceIsShieldedValue == ShieldedValue = balance[Pool]

\* README: a transfer "creates exactly two new" notes.  A step that adds leaves
\* without moving tokens adds two, both of them notes.
TransferCreatesTwoNotes ==
    [][leaves' # leaves /\ balance' = balance =>
          /\ Len(leaves') = Len(leaves) + 2
          /\ \A i \in DOMAIN leaves' \ DOMAIN leaves : leaves'[i] \in Note]_vars

\* A nullifier is stored under one byte string only: two encodings of the same
\* field element would be two spends of one note.
SpentOnce == \A m, n \in nullifiers : m.elem = n.elem => m = n

\* The known roots are exactly the roots the tree has had, one after each
\* single insertion: also the ones inside a transfer that inserts two notes.
KnownRootsArePast ==
    knownRoots = {SubSeq(leaves, 1, k) : k \in 0 .. Len(leaves)}

\* No note is ever stranded.  While the withdraw slot holds a withdraw circuit,
\* the owner of every unspent note of positive value can take it out, in full,
\* to any account and with a proof under any root since the note exists, even
\* when the tree is full or the gate is shut; and its value fits the transfer
\* circuit.
EveryNoteCanExit ==
    \A i \in Live : leaves[i].value > 0 =>
       LET nf == NullifierOf(leaves[i], i)
       IN  /\ leaves[i].value \in SpentValues(leaves, nf)
           /\ CircuitOf[verifier["Withdraw"]] = "withdraw" =>
                 \A to \in Accounts, k \in i .. Len(leaves) :
                    WithdrawAccepted(Field(nf), to, leaves[i].value, SubSeq(leaves, 1, k))

\* A withdrawal that would be accepted now, under whatever root it was proven,
\* would be accepted after any step of anybody, until its nullifier is spent
\* or the withdraw verifier is rotated.
WithdrawalStaysValid ==
    [][\A root \in knownRoots, to \in Accounts :
          \A i \in DOMAIN root : root[i] \in Note =>
             LET nf == Field(NullifierOf(root[i], i))
             IN  WithdrawAccepted(nf, to, root[i].value, root) =>
                    \/ WithdrawAccepted(nf, to, root[i].value, root)'
                    \/ nf \in nullifiers'
                    \/ verifier'["Withdraw"] # verifier["Withdraw"]]_vars

-----------------------------------------------------------------------------
\* The pool implements a ledger of confidential notes: each spend consumes live
\* notes of exactly the value it creates or pays out.
Confidential == INSTANCE ConfidentialLedger WITH
    Owners <- OwnerKeys,
    notes  <- {[id |-> i - 1, owner |-> leaves[i].owner, value |-> leaves[i].value] : i \in Live},
    issued <- Len(leaves),
    escrow <- balance[Pool]

\* With fresh keys for dummies and the circuit's 2/2 shape, every behaviour of
\* the pool is one of the confidential ledger.
ImplementsLedger == Confidential!Spec
=============================================================================
