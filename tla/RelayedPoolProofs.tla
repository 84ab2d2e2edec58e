-------------------------- MODULE RelayedPoolProofs --------------------------
(***************************************************************************)
(* Prover, bundles in flight and pool, for any number of bundles, users,   *)
(* notes and verifiers: with the circuit's layout and dummies at index 0,  *)
(* what the prover hands out is accepted, and nothing else is carried out. *)
(***************************************************************************)
EXTENDS RelayedPool, SolvencyProofs

RelayLayout == Shapes = {<<2, 2>>} /\ DummyIndices \subseteq {0}

\* What a bundle of a transfer, or of a withdrawal, states.
TransferBundle(b) ==
    /\ CircuitOf[b.key] = "transfer"
    /\ \E log \in knownRoots, s, t \in Spend, c, d \in Outputs :
          /\ s \in TransferSpends(log) /\ t \in TransferSpends(log)
          /\ s.value + t.value = c.value + d.value
          /\ b.inputs = <<log, FileNullifier(s), FileNullifier(t), c, d>>

WithdrawBundle(b) ==
    /\ CircuitOf[b.key] = "withdraw"
    /\ \E log \in knownRoots, s \in Spend, to \in Accounts :
          /\ CheckSpend(log, s)
          /\ b.inputs = <<log, FileNullifier(s), to, s.value>>

\* Every bundle proves what it says, under a root that is known and stays so.
BundlesAreMeant ==
    \A b \in bundles : b.proven = b.inputs /\ (TransferBundle(b) \/ WithdrawBundle(b))

\* The inductive invariant.
RelayInv == SolvencyInv /\ BundlesAreMeant

-----------------------------------------------------------------------------
(* Spends *)

LEMMA OutputsAreNotes == Outputs \subseteq Note
  BY PoolAssumption DEF PoolAssumption, Outputs, Note

LEMMA SpendType ==
    ASSUME NEW s \in Spend
    PROVE  /\ s.value \in Nat /\ s.value <= NoteMax /\ s.index \in Nat
           /\ FileNullifier(s) \in Nullifier
           /\ FileNullifier(s).key = s.key /\ FileNullifier(s).index = s.index
  BY PoolAssumption DEF PoolAssumption, Spend, FileNullifier, Nullifier

\* A checked spend is a note of the log, and its nullifier the note's.
LEMMA CheckedSpend ==
    ASSUME PoolInv, NEW log \in knownRoots, NEW s \in Spend, CheckSpend(log, s)
    PROVE  /\ s.index + 1 \in DOMAIN log
           /\ log[s.index + 1].value = s.value
           /\ NullifierOf(log[s.index + 1], s.index + 1) = FileNullifier(s)
           /\ log[s.index + 1] \in Note
  <1>1. log \in Seq(Leaf)
    BY DEF PoolInv, TypeOK
  <1>2. DOMAIN log = 1 .. Len(log) /\ Len(log) \in Nat
    BY <1>1, LenProperties
  <1>3. s.index \in Nat /\ s.index < Len(log) /\ log[s.index + 1] = [owner |-> s.key, value |-> s.value]
    BY SpendType DEF CheckSpend
  <1>4. s.index + 1 \in DOMAIN log /\ s.index + 1 - 1 = s.index
    BY <1>2, <1>3
  <1>5. log[s.index + 1] \in Note
    <2>1. log[s.index + 1] \in Note \cup Nullifier
      BY <1>1, <1>4, ElementOfSeq, <1>2 DEF Leaf
    <2>2. DOMAIN log[s.index + 1] = {"owner", "value"}
      BY <1>3
    <2>3. log[s.index + 1] \notin Nullifier
      BY <2>2 DEF Nullifier
    <2> QED BY <2>1, <2>3
  <1> QED BY <1>3, <1>4, <1>5 DEF NullifierOf, FileNullifier

\* What a transfer takes is a note of the log or a dummy at index 0.
LEMMA TransferSpend ==
    ASSUME PoolInv, NEW log \in knownRoots, NEW s \in Spend, s \in TransferSpends(log)
    PROVE  /\ [nf |-> FileNullifier(s), value |-> s.value] \in NoteSpends(log) \cup DummySpends
           /\ s.value \in SpentValues(log, FileNullifier(s))
           /\ DummyIndices \subseteq {0} => CircuitNullifier(s) = FileNullifier(s)
  <1>1. s.value \in Nat /\ s.value <= NoteMax /\ FileNullifier(s) \in Nullifier
    BY SpendType
  <1>2. CASE s.value > 0
    <2>1. CheckSpend(log, s)
      BY <1>2 DEF TransferSpends
    <2> DEFINE i == s.index + 1
    <2>2. /\ i \in DOMAIN log /\ log[i] \in Note /\ log[i].value = s.value
          /\ NullifierOf(log[i], i) = FileNullifier(s)
      BY <2>1, CheckedSpend
    <2> HIDE DEF i
    <2>3. [nf |-> FileNullifier(s), value |-> s.value] \in NoteSpends(log)
      BY <2>2 DEF NoteSpends
    <2>4. s.value \in SpentValues(log, FileNullifier(s))
      BY <1>1, <2>2 DEF SpentValues
    <2>5. CircuitNullifier(s) = FileNullifier(s)
      BY <1>2 DEF CircuitNullifier, FileNullifier
    <2> QED BY <2>3, <2>4, <2>5
  <1>3. CASE s.value = 0
    <2>1. s.key \in DummyKeys /\ s.index \in DummyIndices
      BY <1>3 DEF TransferSpends
    <2>2. [nf |-> FileNullifier(s), value |-> s.value] \in DummySpends
      BY <1>3, <2>1 DEF DummySpends, FileNullifier
    <2>3. s.value \in SpentValues(log, FileNullifier(s))
      BY <1>1, <1>3 DEF SpentValues
    <2>4. DummyIndices \subseteq {0} => CircuitNullifier(s) = FileNullifier(s)
      BY <1>3, <2>1 DEF CircuitNullifier, FileNullifier
    <2> QED BY <2>2, <2>3, <2>4
  <1> QED BY <1>1, <1>2, <1>3

-----------------------------------------------------------------------------
(* Steps *)

LEMMA RelayInitInv == RelayInit => RelayInv
  BY SolvencyInit DEF RelayInit, RelayInv, BundlesAreMeant

LEMMA LogIsKnown ==
    ASSUME PoolInv, NEW n \in 0 .. Len(leaves)
    PROVE  SubSeq(leaves, 1, n) \in knownRoots
  BY DEF PoolInv, KnownRootsArePast

\* What a bundle proves is not forgotten.
LEMMA MeaningStays ==
    ASSUME BundlesAreMeant, knownRoots \subseteq knownRoots', NEW b \in bundles
    PROVE  b.proven = b.inputs /\ (TransferBundle(b)' \/ WithdrawBundle(b)')
  BY DEF BundlesAreMeant, TransferBundle, WithdrawBundle

LEMMA FiveOutputs ==
    ASSUME NEW a, NEW b, NEW c, NEW outs \in Outputs \X Outputs
    PROVE  <<a, b, c>> \o outs = <<a, b, c, outs[1], outs[2]>>
  <1> DEFINE S == {a, b, c, outs[1], outs[2]}
             u == <<a, b, c>>
             w == <<outs[1], outs[2]>>
             x == <<a, b, c, outs[1], outs[2]>>
  <1>1. outs = w
    OBVIOUS
  <1>2. /\ u \in Seq(S) /\ Len(u) = 3 /\ w \in Seq(S) /\ Len(w) = 2
        /\ x \in Seq(S) /\ Len(x) = 5
    OBVIOUS
  <1>3. \A k \in 1 .. 5 : x[k] = IF k <= 3 THEN u[k] ELSE w[k - 3]
    OBVIOUS
  <1> HIDE DEF S, u, w, x
  <1>4. /\ u \o w \in Seq(S) /\ Len(u \o w) = Len(u) + Len(w)
        /\ \A k \in 1 .. Len(u) + Len(w) : (u \o w)[k] = IF k <= Len(u) THEN u[k] ELSE w[k - Len(u)]
    BY <1>2, ConcatProperties
  <1>5. Len(u \o w) = 5 /\ \A k \in 1 .. 5 : (u \o w)[k] = x[k]
    BY <1>2, <1>3, <1>4
  <1>6. u \o w = x
    BY <1>2, <1>4, <1>5, SeqEqual
  <1> QED BY <1>1, <1>6 DEF u, w, x

LEMMA ProveStep ==
    ASSUME RelayInv, RelayLayout, Prove
    PROVE  BundlesAreMeant'
  <1>1. PoolInv
    BY DEF RelayInv, SolvencyInv
  <1>2. UNCHANGED vars /\ knownRoots' = knownRoots
    BY DEF Prove, ProveTransfer, ProveWithdraw, vars, ledgerVars
  <1>3. PICK n \in 0 .. Len(leaves), v \in Verifiers :
             LET log == SubSeq(leaves, 1, n)
             IN  \/ /\ CircuitOf[v] = "transfer"
                    /\ \E s, t \in TransferSpends(log) :
                       \E outs \in OutputPairs(s.value + t.value) : ProveTransfer(v, log, s, t, outs)
                 \/ /\ CircuitOf[v] = "withdraw"
                    /\ \E s \in Spend, to \in Accounts : ProveWithdraw(v, log, s, to)
    BY DEF Prove
  <1> DEFINE log == SubSeq(leaves, 1, n)
  <1>4. log \in knownRoots
    BY <1>1, LogIsKnown
  <1> HIDE DEF log
  <1>5. ASSUME NEW b, b.proven = b.inputs, TransferBundle(b) \/ WithdrawBundle(b),
               bundles' = bundles \cup {b}
        PROVE  BundlesAreMeant'
    <2>1. TransferBundle(b)' \/ WithdrawBundle(b)'
      BY <1>2, <1>5 DEF TransferBundle, WithdrawBundle
    <2>2. \A q \in bundles : q.proven = q.inputs /\ (TransferBundle(q)' \/ WithdrawBundle(q)')
      BY <1>2, MeaningStays DEF RelayInv
    <2> QED BY <1>5, <2>1, <2>2 DEF BundlesAreMeant
  <1>6. CASE CircuitOf[v] = "transfer" /\ \E s, t \in TransferSpends(log) :
                \E outs \in OutputPairs(s.value + t.value) : ProveTransfer(v, log, s, t, outs)
    <2>1. PICK s \in TransferSpends(log), t \in TransferSpends(log) :
               \E outs \in OutputPairs(s.value + t.value) : ProveTransfer(v, log, s, t, outs)
      BY <1>6
    <2>2. PICK outs \in OutputPairs(s.value + t.value) : ProveTransfer(v, log, s, t, outs)
      BY <2>1
    <2>3. s \in Spend /\ t \in Spend /\ outs \in Outputs \X Outputs
      BY DEF TransferSpends, OutputPairs
    <2>4. CircuitNullifier(s) = FileNullifier(s) /\ CircuitNullifier(t) = FileNullifier(t)
      BY <1>1, <1>4, <2>3, TransferSpend DEF RelayLayout
    <2> DEFINE x == <<log, FileNullifier(s), FileNullifier(t)>> \o outs
               b == Bundle(v, x, x)
    <2>5. bundles' = bundles \cup {b} /\ s.value + t.value = outs[1].value + outs[2].value
      BY <2>2, <2>4 DEF ProveTransfer
    <2>6. x = <<log, FileNullifier(s), FileNullifier(t), outs[1], outs[2]>>
      BY <2>3, FiveOutputs
    <2> HIDE DEF x
    <2>7. b.key = v /\ b.inputs = x /\ b.proven = x
      BY DEF Bundle
    <2>8. TransferBundle(b)
      <3>1. outs[1] \in Outputs /\ outs[2] \in Outputs
        BY <2>3
      <3> HIDE DEF b
      <3> QED BY <1>4, <1>6, <2>1, <2>3, <2>5, <2>6, <2>7, <3>1 DEF TransferBundle
    <2> HIDE DEF b
    <2> QED BY <1>5, <2>5, <2>7, <2>8
  <1>7. CASE CircuitOf[v] = "withdraw" /\ \E s \in Spend, to \in Accounts : ProveWithdraw(v, log, s, to)
    <2>1. PICK s \in Spend, to \in Accounts : ProveWithdraw(v, log, s, to)
      BY <1>7
    <2> DEFINE x == <<log, FileNullifier(s), to, s.value>>
               b == Bundle(v, x, x)
    <2>2. bundles' = bundles \cup {b} /\ CheckSpend(log, s)
      BY <2>1 DEF ProveWithdraw
    <2>3. b.key = v /\ b.inputs = x /\ b.proven = x
      BY DEF Bundle
    <2>4. WithdrawBundle(b)
      <3> HIDE DEF b
      <3> QED BY <1>4, <1>7, <2>2, <2>3 DEF WithdrawBundle
    <2> HIDE DEF b, x
    <2> QED BY <1>5, <2>2, <2>3, <2>4
  <1> QED BY <1>3, <1>6, <1>7 DEF log

\* A bundle of five inputs is that of a transfer, one of four that of a withdrawal.
LEMMA BundleLength ==
    ASSUME NEW b
    PROVE  /\ TransferBundle(b) => Len(b.inputs) = 5
           /\ WithdrawBundle(b) => Len(b.inputs) = 4
  BY DEF TransferBundle, WithdrawBundle

\* Only the outputs that were proven are created, and canonically.
LEMMA SubmitTransferMeans ==
    ASSUME RelayInv, SubmitTransfer
    PROVE  \E b \in bundles, log \in knownRoots, s, t \in Spend, c, d \in Outputs, e, f \in Encodings :
              /\ s \in TransferSpends(log) /\ t \in TransferSpends(log)
              /\ s.value + t.value = c.value + d.value
              /\ b.inputs = <<log, FileNullifier(s), FileNullifier(t), c, d>>
              /\ Transfer(<<Bytes(FileNullifier(s), e), Bytes(FileNullifier(t), f)>>,
                          <<Field(c), Field(d)>>, log)
  <1>1. PICK b \in {q \in bundles : Len(q.inputs) = 5}, e \in Encodings, f \in Encodings,
             c \in Outputs, d \in Outputs :
             /\ Proves(b, verifier["Transfer"], <<b.inputs[1], b.inputs[2], b.inputs[3], c, d>>)
             /\ Transfer(<<Bytes(b.inputs[2], e), Bytes(b.inputs[3], f)>>, <<Field(c), Field(d)>>, b.inputs[1])
    BY DEF SubmitTransfer
  <1>2. TransferBundle(b)
    BY BundleLength DEF RelayInv, BundlesAreMeant
  <1>3. PICK log \in knownRoots, s \in Spend, t \in Spend, c0 \in Outputs, d0 \in Outputs :
          /\ s \in TransferSpends(log) /\ t \in TransferSpends(log)
          /\ s.value + t.value = c0.value + d0.value
          /\ b.inputs = <<log, FileNullifier(s), FileNullifier(t), c0, d0>>
    BY <1>2 DEF TransferBundle
  <1>4. /\ b.inputs[1] = log /\ b.inputs[2] = FileNullifier(s) /\ b.inputs[3] = FileNullifier(t)
        /\ b.inputs[4] = c0 /\ b.inputs[5] = d0
    BY <1>3
  <1>5. c = c0 /\ d = d0
    <2>1. <<b.inputs[1], b.inputs[2], b.inputs[3], c, d>> = b.inputs
      BY <1>1 DEF Proves
    <2> QED BY <1>4, <2>1
  <1> QED BY <1>1, <1>3, <1>4, <1>5

LEMMA SubmitWithdrawMeans ==
    ASSUME RelayInv, SubmitWithdraw
    PROVE  \E b \in bundles, log \in knownRoots, s \in Spend, to \in Accounts, e \in Encodings :
              /\ CheckSpend(log, s) /\ s.value \in Amounts
              /\ b.inputs = <<log, FileNullifier(s), to, s.value>>
              /\ Withdraw(Bytes(FileNullifier(s), e), to, s.value, log)
  <1>1. PICK b \in {q \in bundles : Len(q.inputs) = 4}, e \in Encodings, to \in Accounts, amount \in Amounts :
             /\ Proves(b, verifier["Withdraw"], <<b.inputs[1], b.inputs[2], to, amount>>)
             /\ Withdraw(Bytes(b.inputs[2], e), to, amount, b.inputs[1])
    BY DEF SubmitWithdraw
  <1>2. WithdrawBundle(b)
    BY BundleLength DEF RelayInv, BundlesAreMeant
  <1>3. PICK log \in knownRoots, s \in Spend, to0 \in Accounts :
             /\ CheckSpend(log, s)
             /\ b.inputs = <<log, FileNullifier(s), to0, s.value>>
    BY <1>2 DEF WithdrawBundle
  <1>4. b.inputs[1] = log /\ b.inputs[2] = FileNullifier(s) /\ b.inputs[3] = to0 /\ b.inputs[4] = s.value
    BY <1>3
  <1>5. to = to0 /\ amount = s.value
    <2>1. <<b.inputs[1], b.inputs[2], to, amount>> = b.inputs
      BY <1>1 DEF Proves
    <2> QED BY <1>4, <2>1
  <1> QED BY <1>1, <1>3, <1>4, <1>5

\* A submission is a call of the pool: bundles only narrow what is submitted.
LEMMA SubmitTransferIsCall ==
    ASSUME RelayInv, RelayLayout, SubmitTransfer
    PROVE  TransferCalls
  <1>1. PICK b \in bundles, log \in knownRoots, s \in Spend, t \in Spend,
             c \in Outputs, d \in Outputs, e \in Encodings, f \in Encodings :
              /\ s \in TransferSpends(log) /\ t \in TransferSpends(log)
              /\ s.value + t.value = c.value + d.value
              /\ b.inputs = <<log, FileNullifier(s), FileNullifier(t), c, d>>
              /\ Transfer(<<Bytes(FileNullifier(s), e), Bytes(FileNullifier(t), f)>>,
                          <<Field(c), Field(d)>>, log)
    BY SubmitTransferMeans
  <1> DEFINE p == [nf |-> FileNullifier(s), value |-> s.value]
             q == [nf |-> FileNullifier(t), value |-> t.value]
             cd == <<c, d>>
             x == <<Bytes(p.nf, e), Bytes(q.nf, f), Field(cd[1]), Field(cd[2])>>
             shape == <<2, 2>>
  <1>2. PoolInv
    BY DEF RelayInv, SolvencyInv
  <1>3. p \in NoteSpends(log) \cup DummySpends /\ q \in NoteSpends(log) \cup DummySpends
    BY <1>1, <1>2, TransferSpend
  <1>4. cd \in OutputPairs(p.value + q.value)
    BY <1>1, SpendType DEF OutputPairs
  <1>5. /\ SubSeq(x, 1, 2) = <<Bytes(FileNullifier(s), e), Bytes(FileNullifier(t), f)>>
        /\ SubSeq(x, 3, 4) = <<Field(c), Field(d)>>
    BY HalvesOfFour
  <1>6. Len(x) = 4 /\ shape[1] = 2 /\ shape[2] = 2 /\ shape[1] + 1 = 3 /\ shape[1] + shape[2] = 4
    OBVIOUS
  <1>7. shape \in {sh \in Shapes : Len(leaves) + sh[2] <= Capacity}
    <2>1. InsertCommitments([k \in DOMAIN <<Field(c), Field(d)>> |-> <<Field(c), Field(d)>>[k].elem])
      BY <1>1 DEF Transfer
    <2>2. Len([k \in DOMAIN <<Field(c), Field(d)>> |-> <<Field(c), Field(d)>>[k].elem]) = 2
      OBVIOUS
    <2> QED BY <1>6, <2>1, <2>2 DEF InsertCommitments, HasRoom, RelayLayout
  <1>8. /\ shape[1] + shape[2] = Len(x)
        /\ Transfer(SubSeq(x, 1, shape[1]), SubSeq(x, shape[1] + 1, Len(x)), log)
    <2> HIDE DEF x, shape
    <2> QED BY <1>1, <1>5, <1>6
  <1> HIDE DEF p, q, cd, shape
  <1> QED BY <1>3, <1>4, <1>7, <1>8 DEF TransferCalls

LEMMA SubmitWithdrawIsCall ==
    ASSUME RelayInv, SubmitWithdraw
    PROVE  WithdrawCalls
  <1>1. PICK b \in bundles, log \in knownRoots, s \in Spend, to \in Accounts, e \in Encodings :
              /\ CheckSpend(log, s) /\ s.value \in Amounts
              /\ b.inputs = <<log, FileNullifier(s), to, s.value>>
              /\ Withdraw(Bytes(FileNullifier(s), e), to, s.value, log)
    BY SubmitWithdrawMeans
  <1> DEFINE i == s.index + 1
             p == [nf |-> FileNullifier(s), value |-> s.value]
  <1>2. /\ i \in DOMAIN log /\ log[i] \in Note /\ log[i].value = s.value
        /\ NullifierOf(log[i], i) = FileNullifier(s)
    BY <1>1, CheckedSpend DEF RelayInv, SolvencyInv
  <1>3. p \in NoteSpends(log) /\ p.nf = FileNullifier(s)
    <2> HIDE DEF i
    <2> QED BY <1>2 DEF NoteSpends
  <1> HIDE DEF p
  <1> QED BY <1>1, <1>3 DEF WithdrawCalls

\* The relayed pool is a pool.
LEMMA RelayIsPool ==
    ASSUME RelayInv, RelayLayout, [RelayNext]_relayVars
    PROVE  [Next]_vars
  <1>1. CASE DepositCall
    BY <1>1 DEF DepositCall, Next, LedgerCall
  <1>2. CASE Prove
    BY <1>2 DEF Prove, ProveTransfer, ProveWithdraw
  <1>3. CASE SubmitTransfer
    BY <1>3, SubmitTransferIsCall DEF Next, LedgerCall
  <1>4. CASE SubmitWithdraw
    BY <1>4, SubmitWithdrawIsCall DEF Next, LedgerCall
  <1>5. CASE Govern
    <2>1. CASE GovCall /\ UNCHANGED ledgerVars
      BY <2>1 DEF Next
    <2>2. CASE LedgerClose /\ UNCHANGED ledgerVars
      <3>1. attested' \in IF Gated THEN SUBSET Users ELSE {attested}
        BY <2>2 DEF ledgerVars, RelayInv, SolvencyInv, PoolInv, TypeOK
      <3> QED BY <2>2, <3>1 DEF Next, Outside, ledgerVars
    <2> QED BY <1>5, <2>1, <2>2 DEF Govern, GovNext
  <1>6. CASE UNCHANGED relayVars
    BY <1>6 DEF relayVars
  <1> QED BY <1>1, <1>2, <1>3, <1>4, <1>5, <1>6 DEF RelayNext

LEMMA RelayStep == RelayLayout /\ RelayInv /\ [RelayNext]_relayVars => RelayInv'
  <1> SUFFICES ASSUME RelayLayout, RelayInv, [RelayNext]_relayVars PROVE RelayInv'
    OBVIOUS
  <1>1. [Next]_vars
    BY RelayIsPool
  <1>2. SolvencyInv'
    BY <1>1, SolvencyStep DEF RelayInv, RelayLayout, TwoByTwo
  <1>3. knownRoots \subseteq knownRoots'
    BY <1>1, RootsOnlyGrow
  <1>4. ASSUME UNCHANGED bundles PROVE BundlesAreMeant'
    <2>1. BundlesAreMeant
      BY DEF RelayInv
    <2>2. \A b \in bundles : b.proven = b.inputs /\ (TransferBundle(b)' \/ WithdrawBundle(b)')
      BY <1>3, <2>1, MeaningStays
    <2> QED BY <1>4, <2>2 DEF BundlesAreMeant
  <1>5. ASSUME Prove PROVE BundlesAreMeant'
    BY <1>5, ProveStep
  <1>6. BundlesAreMeant'
    BY <1>4, <1>5 DEF RelayNext, DepositCall, SubmitTransfer, SubmitWithdraw, Govern, relayVars
  <1> QED BY <1>2, <1>6 DEF RelayInv

-----------------------------------------------------------------------------
(* Bundles *)

\* A transfer's statement is one the circuit has a witness for.
LEMMA TransferBundleVerifies ==
    ASSUME PoolInv, NEW b, TransferBundle(b)
    PROVE  /\ b.inputs[1] \in knownRoots
           /\ Verify(b.key, [k \in DOMAIN b.inputs |-> Field(b.inputs[k])])
  <1>1. PICK log \in knownRoots, s \in Spend, t \in Spend, c \in Outputs, d \in Outputs :
          /\ s \in TransferSpends(log) /\ t \in TransferSpends(log)
          /\ s.value + t.value = c.value + d.value
          /\ b.inputs = <<log, FileNullifier(s), FileNullifier(t), c, d>>
    BY DEF TransferBundle
  <1> DEFINE x == <<log, FileNullifier(s), FileNullifier(t), c, d>>
             inputs == [k \in DOMAIN x |-> Field(x[k])]
  <1>2. CanonicalInputs(inputs)
    BY DEF CanonicalInputs, Field, Bytes
  <1>3. [k \in DOMAIN inputs |-> inputs[k].elem] = x
    BY DEF Field, Bytes
  <1>4. TransferRelation(x)
    <2>1. c \in Note /\ d \in Note /\ c.value <= NoteMax /\ d.value <= NoteMax
      BY OutputsAreNotes, PoolAssumption DEF PoolAssumption, Outputs
    <2>2. s.value \in SpentValues(log, FileNullifier(s)) /\ t.value \in SpentValues(log, FileNullifier(t))
      BY <1>1, TransferSpend
    <2>3. x[1] = log /\ x[2] = FileNullifier(s) /\ x[3] = FileNullifier(t) /\ x[4] = c /\ x[5] = d
          /\ Len(x) = 5
      OBVIOUS
    <2> HIDE DEF x
    <2> QED BY <1>1, <2>1, <2>2, <2>3 DEF TransferRelation
  <1>5. CircuitOf[b.key] = "transfer"
    BY DEF TransferBundle
  <1>6. Verify(b.key, inputs)
    <2> HIDE DEF inputs, x
    <2> QED BY <1>2, <1>3, <1>4, <1>5 DEF Verify
  <1> QED BY <1>1, <1>6

LEMMA WithdrawBundleAccepted ==
    ASSUME SolvencyInv, NEW b, WithdrawBundle(b), verifier["Withdraw"] = b.key,
           Field(b.inputs[2]) \notin nullifiers, b.inputs[4] # 0
    PROVE  WithdrawAccepted(Field(b.inputs[2]), b.inputs[3], b.inputs[4], b.inputs[1])
  <1>1. PICK log \in knownRoots, s \in Spend, to \in Accounts :
             CheckSpend(log, s) /\ b.inputs = <<log, FileNullifier(s), to, s.value>>
    BY DEF WithdrawBundle
  <1>2. b.inputs[1] = log /\ b.inputs[2] = FileNullifier(s) /\ b.inputs[3] = to /\ b.inputs[4] = s.value
    BY <1>1
  <1>3. s.value > 0
    BY <1>2, SpendType
  <1> DEFINE i == s.index + 1
  <1>4. /\ i \in DOMAIN log /\ log[i] \in Note /\ log[i].value = s.value
        /\ NullifierOf(log[i], i) = FileNullifier(s)
    BY <1>1, CheckedSpend DEF SolvencyInv
  <1> HIDE DEF i
  <1>5. CircuitOf[verifier["Withdraw"]] = "withdraw"
    BY DEF WithdrawBundle
  <1>6. NotesLeave
    BY UnspentNotesLeave
  <1> QED BY <1>2, <1>3, <1>4, <1>5, <1>6 DEF NotesLeave

LEMMA BundlesAccepted == RelayInv => BundlesAreAccepted
  <1> SUFFICES ASSUME RelayInv, NEW b \in bundles, verifier[SlotOf(b.key)] = b.key,
                      \A nf \in Spends(b) : Field(nf) \notin nullifiers,
                      ~(SlotOf(b.key) = "Withdraw" /\ b.inputs[4] = 0)
               PROVE  /\ Proves(b, verifier[SlotOf(b.key)], b.inputs)
                      /\ IF SlotOf(b.key) = "Transfer"
                         THEN /\ b.inputs[1] \in knownRoots
                              /\ Verify(b.key, [k \in DOMAIN b.inputs |-> Field(b.inputs[k])])
                         ELSE WithdrawAccepted(Field(b.inputs[2]), b.inputs[3], b.inputs[4], b.inputs[1])
    BY DEF BundlesAreAccepted
  <1>1. b.proven = b.inputs /\ (TransferBundle(b) \/ WithdrawBundle(b)) /\ SolvencyInv /\ PoolInv
    BY DEF RelayInv, BundlesAreMeant, SolvencyInv
  <1>2. Proves(b, verifier[SlotOf(b.key)], b.inputs)
    BY <1>1 DEF Proves
  <1>3. CASE TransferBundle(b)
    <2>1. SlotOf(b.key) = "Transfer"
      BY <1>3 DEF TransferBundle, SlotOf
    <2> QED BY <1>1, <1>2, <1>3, <2>1, TransferBundleVerifies
  <1>4. CASE WithdrawBundle(b)
    <2>1. SlotOf(b.key) = "Withdraw"
      BY <1>4 DEF WithdrawBundle, SlotOf
    <2>2. Len(b.inputs) = 4
      BY <1>4, BundleLength
    <2>3. b.inputs[2] \in Spends(b)
      BY <2>2 DEF Spends
    <2> QED BY <1>1, <1>2, <1>4, <2>1, <2>3, WithdrawBundleAccepted
  <1> QED BY <1>1, <1>3, <1>4

\* A bundle, once written over whatever part of the log, is accepted as it is until
\* its verifier leaves the slot or its own nullifiers are spent, or for want of room.
THEOREM BundlesStayAccepted ==
    ASSUME RelayLayout
    PROVE  RelaySpec => []BundlesAreAccepted
  <1>1. RelayInv /\ [RelayNext]_relayVars => RelayInv'
    BY RelayStep
  <1> QED BY <1>1, RelayInitInv, BundlesAccepted, PTL DEF RelaySpec

-----------------------------------------------------------------------------
(* What a step does to balances and leaves *)

PaidStep ==
    \A u \in Users : balance'[u] > balance[u] =>
       \E b \in bundles :
          /\ Len(b.inputs) = 4
          /\ b.inputs[3] = u /\ b.inputs[4] = balance'[u] - balance[u]
          /\ nullifiers' \ nullifiers = {Field(b.inputs[2])}

\* The nullifier of an accepted withdrawal is canonical.
LEMMA WithdrawCanonical ==
    ASSUME NEW nf, NEW e, NEW to, NEW amount, NEW root, Withdraw(Bytes(nf, e), to, amount, root)
    PROVE  /\ Bytes(nf, e) = Field(nf)
           /\ Field(nf) \notin nullifiers
           /\ nullifiers' = nullifiers \cup {Field(nf)}
           /\ MoveTokens(Pool, to, amount)
           /\ leaves' = leaves
  <1> DEFINE inputs == <<Field(root), Bytes(nf, e), Field(to), Field(amount)>>
  <1>1. CanonicalInputs(inputs) /\ 2 \in DOMAIN inputs /\ inputs[2] = Bytes(nf, e)
    BY DEF Withdraw, WithdrawAccepted, Verify
  <1>2. Bytes(nf, e).enc = 0
    <2> HIDE DEF inputs
    <2> QED BY <1>1 DEF CanonicalInputs
  <1>3. Bytes(nf, e) = Field(nf)
    BY <1>2 DEF Bytes, Field
  <1> QED BY <1>3 DEF Withdraw, WithdrawAccepted

LEMMA PaidByBundle ==
    ASSUME RelayInv, RelayNext, NEW u \in Users, balance'[u] > balance[u]
    PROVE  \E b \in bundles :
              /\ Len(b.inputs) = 4
              /\ b.inputs[3] = u /\ b.inputs[4] = balance'[u] - balance[u]
              /\ nullifiers' \ nullifiers = {Field(b.inputs[2])}
  <1>1. /\ balance \in [Accounts -> Nat] /\ Pool \in Accounts /\ u \in Accounts /\ u # Pool
        /\ balance[u] \in Nat
    BY BalanceType, PoolAssumption DEF RelayInv, SolvencyInv, PoolAssumption, Accounts
  <1>2. balance' # balance
    BY <1>1
  <1>3. CASE DepositCall
    <2>1. PICK from \in Users, amount \in Amounts : amount > 0 /\ MoveTokens(from, Pool, amount)
      BY <1>3 DEF DepositCall, Deposit, DepositAmountOK
    <2>2. amount \in Int /\ from \in Accounts /\ from # Pool
      BY PoolAssumption DEF PoolAssumption, Accounts
    <2>3. balance'[u] \in {balance[u], balance[u] - amount}
      BY <1>1, <2>1, <2>2 DEF MoveTokens
    <2> QED BY <1>1, <2>1, <2>2, <2>3
  <1>4. CASE Prove \/ Govern
    BY <1>2, <1>4 DEF Prove, ProveTransfer, ProveWithdraw, Govern, vars, ledgerVars
  <1>5. CASE SubmitTransfer
    BY <1>2, <1>5 DEF SubmitTransfer, Transfer
  <1>6. CASE SubmitWithdraw
    <2>1. PICK b \in bundles, log \in knownRoots, s \in Spend, to \in Accounts, e \in Encodings :
              /\ b.inputs = <<log, FileNullifier(s), to, s.value>>
              /\ Withdraw(Bytes(FileNullifier(s), e), to, s.value, log)
      BY <1>6, SubmitWithdrawMeans
    <2>2. /\ Field(FileNullifier(s)) \notin nullifiers
          /\ nullifiers' = nullifiers \cup {Field(FileNullifier(s))}
          /\ MoveTokens(Pool, to, s.value)
      BY <2>1, WithdrawCanonical
    <2>3. s.value \in Nat
      BY SpendType
    <2>4. u = to /\ balance'[u] = balance[u] + s.value
      BY <1>1, <2>2, <2>3 DEF MoveTokens
    <2>5. b.inputs[2] = FileNullifier(s) /\ b.inputs[3] = u /\ b.inputs[4] = s.value /\ Len(b.inputs) = 4
      BY <2>1, <2>4
    <2>6. balance'[u] - balance[u] = s.value
      BY <1>1, <2>3, <2>4
    <2> QED BY <2>2, <2>5, <2>6
  <1> QED BY <1>3, <1>4, <1>5, <1>6 DEF RelayNext

\* Nobody between prover and contract can redirect a withdrawal.
THEOREM WithdrawalsArePaidAsProven ==
    ASSUME RelayLayout
    PROVE  RelaySpec => PaidAsProven
  <1>1. RelayInv /\ [RelayNext]_relayVars => RelayInv'
    BY RelayStep
  <1>2. RelayInv /\ [RelayNext]_relayVars => [PaidStep]_relayVars
    BY PaidByBundle DEF PaidStep
  <1>3. RelaySpec => [][PaidStep]_relayVars
    BY <1>1, <1>2, RelayInitInv, PTL DEF RelaySpec
  <1> QED BY <1>3 DEF PaidAsProven, PaidStep

-----------------------------------------------------------------------------
(* What a step does to leaves *)

TransferredStep ==
    leaves' # leaves /\ balance' = balance =>
       \E b \in bundles :
          /\ Len(b.inputs) = 5
          /\ leaves' = leaves \o <<b.inputs[4], b.inputs[5]>>
          /\ nullifiers' \ nullifiers = {Field(nf) : nf \in Spends(b)}

\* The nullifiers of an accepted transfer are canonical, and new.
LEMMA TransferCanonical ==
    ASSUME NEW nf, NEW e, NEW mf, NEW f, NEW c, NEW d, NEW root,
           Transfer(<<Bytes(nf, e), Bytes(mf, f)>>, <<Field(c), Field(d)>>, root)
    PROVE  /\ nullifiers' \ nullifiers = {Field(nf), Field(mf)}
           /\ leaves' = leaves \o <<c, d>>
  <1> DEFINE n1 == Bytes(nf, e)
             n2 == Bytes(mf, f)
             nfs == <<n1, n2>>
             cms == <<Field(c), Field(d)>>
             inputs == <<Field(root)>> \o nfs \o cms
  <1>1. /\ Fresh(nfs) /\ CanonicalInputs(inputs)
        /\ nullifiers' = nullifiers \cup Range(nfs)
        /\ leaves' = leaves \o [k \in DOMAIN cms |-> cms[k].elem]
    BY DEF Transfer, Verify, InsertCommitments
  <1>2. n1.enc = 0 /\ n2.enc = 0
    <2>1. inputs = <<Field(root), n1, n2, Field(c), Field(d)>>
      BY FiveInputs
    <2> HIDE DEF n1, n2
    <2>2. 2 \in DOMAIN inputs /\ 3 \in DOMAIN inputs /\ inputs[2] = n1 /\ inputs[3] = n2
      BY <2>1
    <2> HIDE DEF inputs
    <2> QED BY <1>1, <2>2 DEF CanonicalInputs
  <1>3. n1 = Field(nf) /\ n2 = Field(mf)
    BY <1>2 DEF Bytes, Field
  <1>4. [k \in DOMAIN cms |-> cms[k].elem] = <<c, d>>
    BY DEF Field, Bytes
  <1> HIDE DEF n1, n2, cms
  <1>5. Range(nfs) = {n1, n2}
    BY DEF Range
  <1>6. n1 \notin nullifiers /\ n2 \notin nullifiers
    BY <1>1 DEF Fresh
  <1> QED BY <1>1, <1>3, <1>4, <1>5, <1>6

LEMMA TransferredByBundle ==
    ASSUME RelayInv, RelayNext, leaves' # leaves, balance' = balance
    PROVE  \E b \in bundles :
              /\ Len(b.inputs) = 5
              /\ leaves' = leaves \o <<b.inputs[4], b.inputs[5]>>
              /\ nullifiers' \ nullifiers = {Field(nf) : nf \in Spends(b)}
  <1>1. CASE DepositCall
    <2>1. PICK from \in Users, amount \in Amounts : amount > 0 /\ MoveTokens(from, Pool, amount)
      BY <1>1 DEF DepositCall, Deposit, DepositAmountOK
    <2>2. /\ balance \in [Accounts -> Nat] /\ amount \in Int
          /\ from \in Accounts /\ Pool \in Accounts /\ from # Pool /\ balance[from] \in Nat
      BY BalanceType, PoolAssumption DEF RelayInv, SolvencyInv, PoolAssumption, Accounts
    <2>3. balance'[from] = balance[from] - amount
      BY <2>1, <2>2 DEF MoveTokens
    <2> QED BY <2>1, <2>2, <2>3
  <1>2. CASE Prove \/ Govern
    BY <1>2 DEF Prove, ProveTransfer, ProveWithdraw, Govern, vars, ledgerVars
  <1>3. CASE SubmitWithdraw
    BY <1>3 DEF SubmitWithdraw, Withdraw
  <1>4. CASE SubmitTransfer
    <2>1. PICK b \in bundles, log \in knownRoots, s \in Spend, t \in Spend,
               c \in Outputs, d \in Outputs, e \in Encodings, f \in Encodings :
              /\ b.inputs = <<log, FileNullifier(s), FileNullifier(t), c, d>>
              /\ Transfer(<<Bytes(FileNullifier(s), e), Bytes(FileNullifier(t), f)>>,
                          <<Field(c), Field(d)>>, log)
      BY <1>4, SubmitTransferMeans
    <2>2. /\ nullifiers' \ nullifiers = {Field(FileNullifier(s)), Field(FileNullifier(t))}
          /\ leaves' = leaves \o <<c, d>>
      BY <2>1, TransferCanonical
    <2>3. /\ Len(b.inputs) = 5
          /\ b.inputs[2] = FileNullifier(s) /\ b.inputs[3] = FileNullifier(t)
          /\ b.inputs[4] = c /\ b.inputs[5] = d
      BY <2>1
    <2>4. Spends(b) = {FileNullifier(s), FileNullifier(t)}
      <3>1. \A k : k \in 2 .. 3 <=> k = 2 \/ k = 3
        OBVIOUS
      <3> QED BY <2>3, <3>1 DEF Spends
    <2>5. {Field(nf) : nf \in Spends(b)} = {Field(FileNullifier(s)), Field(FileNullifier(t))}
      BY <2>4
    <2> QED BY <2>2, <2>3, <2>5
  <1> QED BY <1>1, <1>2, <1>3, <1>4 DEF RelayNext

\* Nor can anybody redirect a transfer.
THEOREM TransfersAreMadeAsProven ==
    ASSUME RelayLayout
    PROVE  RelaySpec => TransferredAsProven
  <1>1. RelayInv /\ [RelayNext]_relayVars => RelayInv'
    BY RelayStep
  <1>2. RelayInv /\ [RelayNext]_relayVars => [TransferredStep]_relayVars
    BY TransferredByBundle DEF TransferredStep
  <1>3. RelaySpec => [][TransferredStep]_relayVars
    BY <1>1, <1>2, RelayInitInv, PTL DEF RelaySpec
  <1> QED BY <1>3 DEF TransferredAsProven, TransferredStep
=============================================================================
