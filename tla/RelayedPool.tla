----------------------------- MODULE RelayedPool -----------------------------
(***************************************************************************)
(* The shielded pool as its users reach it: a prover on the user's device  *)
(* turns notes and a copy of the commitment log into a bundle, the bundle  *)
(* travels as a file, and whoever holds it calls the contract.             *)
(*                                                                         *)
(* A bundle is a message that is never consumed: it may arrive late, twice *)
(* or never, after other calls and after rotations, and with its public    *)
(* fields changed on the way.  The log a prover works from may lag behind  *)
(* the tree by any number of leaves.                                       *)
(***************************************************************************)
EXTENDS ShieldedPool

CONSTANT MaxBundles     \* bound: bundles made in a behaviour

ASSUME RelayAssumption == MaxBundles \in Nat

VARIABLE bundles        \* the bundle files written so far

relayVars == <<vars, bundles>>

RelayInit == Init /\ bundles = {}

\* A verifier's key, the public inputs written to the file, and the public
\* inputs for which the witness satisfies the circuit.
Bundle(v, inputs, proven) == [key |-> v, inputs |-> inputs, proven |-> proven]

\* Mutations: the recipient, or the outputs, are no public inputs of the proof.
M_ProvesAnyRecipient(b, v, inputs) ==
    /\ b.key = v /\ b.proven = b.inputs /\ Len(inputs) = Len(b.inputs)
    /\ \A k \in DOMAIN inputs : inputs[k] = b.inputs[k] \/ (k = 3 /\ Len(inputs) = 4)
M_ProvesAnyOutputs(b, v, inputs) ==
    /\ b.key = v /\ b.proven = b.inputs /\ Len(inputs) = Len(b.inputs)
    /\ \A k \in DOMAIN inputs : inputs[k] = b.inputs[k] \/ (k > 3 /\ Len(inputs) = 5)

\* The proof in b verifies under v for these inputs.  A witness that does not
\* satisfy the circuit for the inputs it was run with yields a proof of nothing.
Proves(b, v, inputs) ==
    /\ b.key = v
    /\ b.proven = b.inputs
    /\ inputs = b.inputs

-----------------------------------------------------------------------------
\* What the user says of a note to spend.
Spend == [key : Keys, value : 0 .. NoteMax, index : 0 .. Capacity - 1]

\* Mutation: the claimed leaf is not compared.
M_CheckIndexOnly(log, s) == s.index < Len(log)

\* The index is inside the log and the leaf there is the note described.
CheckSpend(log, s) ==
    /\ s.index < Len(log)
    /\ log[s.index + 1] = [owner |-> s.key, value |-> s.value]

\* A transfer checks its spends of positive value only; the others are dummies.
TransferSpends(log) ==
    {s \in Spend : IF s.value > 0 THEN CheckSpend(log, s)
                   ELSE s.key \in DummyKeys /\ s.index \in DummyIndices}

\* The nullifier in the file, and the one the circuit computes from the
\* authentication path: a dummy's path always has index 0.
FileNullifier(s) == [key |-> s.key, index |-> s.index]
CircuitNullifier(s) == [key |-> s.key, index |-> IF s.value > 0 THEN s.index ELSE 0]

\* The root in the statement is that of the tree rebuilt from the log.
ProveTransfer(v, log, s, t, outs) ==
    /\ s \in TransferSpends(log) /\ t \in TransferSpends(log)
    /\ s.value + t.value = outs[1].value + outs[2].value
    /\ bundles' = bundles \cup
         {Bundle(v, <<log, FileNullifier(s), FileNullifier(t)>> \o outs,
                    <<log, CircuitNullifier(s), CircuitNullifier(t)>> \o outs)}
    /\ UNCHANGED vars

\* A withdrawal checks its spend whatever the value.
ProveWithdraw(v, log, s, to) ==
    /\ CheckSpend(log, s)
    /\ LET x == <<log, FileNullifier(s), to, s.value>>
       IN  bundles' = bundles \cup {Bundle(v, x, x)}
    /\ UNCHANGED vars

Prove ==
    /\ Cardinality(bundles) < MaxBundles
    /\ \E n \in 0 .. Len(leaves), v \in Verifiers :
          LET log == SubSeq(leaves, 1, n)
          IN  \/ /\ CircuitOf[v] = "transfer"
                 /\ \E s, t \in TransferSpends(log) :
                    \E outs \in OutputPairs(s.value + t.value) : ProveTransfer(v, log, s, t, outs)
              \/ /\ CircuitOf[v] = "withdraw"
                 /\ \E s \in Spend, to \in Accounts : ProveWithdraw(v, log, s, to)

-----------------------------------------------------------------------------
\* The outputs and the encodings of the nullifiers may be changed on the way.
SubmitTransfer ==
    \E b \in {b \in bundles : Len(b.inputs) = 5}, e, f \in Encodings, c, d \in Outputs :
       LET x == b.inputs
       IN  /\ Proves(b, verifier["Transfer"], <<x[1], x[2], x[3], c, d>>)
           /\ Transfer(<<Bytes(x[2], e), Bytes(x[3], f)>>, <<Field(c), Field(d)>>, x[1])
           /\ UNCHANGED bundles

\* The recipient, the amount and the encoding may be changed on the way.
SubmitWithdraw ==
    \E b \in {b \in bundles : Len(b.inputs) = 4}, e \in Encodings, to \in Accounts, amount \in Amounts :
       LET x == b.inputs
       IN  /\ Proves(b, verifier["Withdraw"], <<x[1], x[2], to, amount>>)
           /\ Withdraw(Bytes(x[2], e), to, amount, x[1])
           /\ UNCHANGED bundles

DepositCall ==
    /\ \E from \in Users, amount \in Amounts, owner \in OwnerKeys : Deposit(from, amount, owner)
    /\ UNCHANGED bundles

Govern == GovNext /\ UNCHANGED <<ledgerVars, bundles>>

RelayNext == DepositCall \/ Prove \/ SubmitTransfer \/ SubmitWithdraw \/ Govern

RelaySpec == RelayInit /\ [][RelayNext]_relayVars

-----------------------------------------------------------------------------
SlotOf(v) == IF CircuitOf[v] = "transfer" THEN "Transfer" ELSE "Withdraw"

\* The nullifiers a bundle spends.
Spends(b) == {b.inputs[k] : k \in 2 .. (IF Len(b.inputs) = 5 THEN 3 ELSE 2)}

\* A bundle the prover hands out can be used.  From the moment it is written,
\* over however short a copy of the log, the contract would accept it as it is;
\* only five things can end that: its verifier leaves the slot, one of its
\* nullifiers is spent, it spends one note twice, it pays nothing, or the tree
\* is full.
BundlesAreAccepted ==
    \A b \in bundles :
       LET x == b.inputs
           s == SlotOf(b.key)
       IN  \/ verifier[s] # b.key
           \/ \E nf \in Spends(b) : Field(nf) \in nullifiers
           \/ s = "Transfer" /\ (x[2] = x[3] \/ ~ HasRoom(<<x[4], x[5]>>))
           \/ s = "Withdraw" /\ x[4] = 0
           \/ /\ Proves(b, verifier[s], x)
              /\ IF s = "Transfer"
                 THEN x[1] \in knownRoots /\ Verify(b.key, [k \in DOMAIN x |-> Field(x[k])])
                 ELSE WithdrawAccepted(Field(x[2]), x[3], x[4], x[1])

\* circuits/docs/prover.md: of a dummy spend "the blinding and leaf index are
\* ignored in-circuit", so every bundle holds a proof of its own public inputs.
BundlesVerify == \A b \in bundles : Proves(b, b.key, b.inputs)

\* Nobody between prover and contract can redirect a withdrawal: an account
\* other than the pool gains tokens only as the recipient of a bundle, by the
\* amount in it, in the step that spends its nullifier.
PaidAsProven ==
    [][\A u \in Users : balance'[u] > balance[u] =>
          \E b \in bundles :
             /\ Len(b.inputs) = 4
             /\ b.inputs[3] = u /\ b.inputs[4] = balance'[u] - balance[u]
             /\ nullifiers' \ nullifiers = {Field(b.inputs[2])}]_relayVars

\* Nor redirect a transfer: leaves not paid for by a deposit are the outputs of a
\* bundle, created in the step that spends exactly its nullifiers.
TransferredAsProven ==
    [][leaves' # leaves /\ balance' = balance =>
          \E b \in bundles :
             /\ Len(b.inputs) = 5
             /\ leaves' = leaves \o <<b.inputs[4], b.inputs[5]>>
             /\ nullifiers' \ nullifiers = {Field(nf) : nf \in Spends(b)}]_relayVars
=============================================================================
