--------------------------- MODULE SolvencyProofs ---------------------------
(***************************************************************************)
(* The value of the pool, for any number of notes, users and verifiers:    *)
(* when transfers have the circuit's layout of two nullifiers and two      *)
(* commitments, unspent notes are never worth more than the tokens held,   *)
(* each can leave, and a withdrawal once acceptable stays so.  If moreover *)
(* dummy inputs use keys that own no notes, the pool implements the        *)
(* confidential ledger, step by step.                                      *)
(***************************************************************************)
EXTENDS ShieldedPoolProofs, FiniteSetTheorems

TwoByTwo == Shapes \subseteq {<<2, 2>>}

\* Every note fits the transfer circuit.
ValuesFit == \A i \in DOMAIN leaves : leaves[i] \in Note => leaves[i].value <= NoteMax

\* The inductive invariant.  What each step does to the shielded units is said in
\* terms of sets; that they are finitely many has to be carried along.
SolvencyInv == PoolInv /\ ValuesFit /\ IsFiniteSet(ShieldedUnits) /\ Solvency

Units(i, v) == {i} \X (1 .. v)

-----------------------------------------------------------------------------
(* Counting *)

LEMMA UnitsCount ==
    ASSUME NEW i, NEW v \in Nat
    PROVE  IsFiniteSet(Units(i, v)) /\ Cardinality(Units(i, v)) = v
  <1>1. IsFiniteSet(1 .. v) /\ Cardinality(1 .. v) = v
    BY FS_Interval
  <1>2. IsFiniteSet({i}) /\ Cardinality({i}) = 1
    BY FS_Singleton
  <1>3. /\ IsFiniteSet({i} \X (1 .. v))
        /\ Cardinality({i} \X (1 .. v)) = Cardinality({i}) * Cardinality(1 .. v)
    BY <1>1, <1>2, FS_Product
  <1> QED BY <1>1, <1>2, <1>3 DEF Units

\* Removing m of the elements of S and adding at most n.
LEMMA ExchangeCount ==
    ASSUME NEW S, IsFiniteSet(S), NEW R \in SUBSET S, NEW A, IsFiniteSet(A),
           NEW T \in SUBSET ((S \ R) \cup A)
    PROVE  /\ IsFiniteSet(T)
           /\ Cardinality(T) \in Nat
           /\ Cardinality(T) <= Cardinality(S) - Cardinality(R) + Cardinality(A)
  <1>1. IsFiniteSet(R) /\ S \cap R = R
    BY FS_Subset
  <1>2. IsFiniteSet(S \ R) /\ Cardinality(S \ R) = Cardinality(S) - Cardinality(R)
    BY <1>1, FS_Difference
  <1>3. /\ IsFiniteSet((S \ R) \cup A)
        /\ Cardinality((S \ R) \cup A)
             = Cardinality(S \ R) + Cardinality(A) - Cardinality((S \ R) \cap A)
    BY <1>2, FS_Union
  <1>4. IsFiniteSet((S \ R) \cap A)
    BY <1>2, FS_Intersection
  <1>5. IsFiniteSet(T) /\ Cardinality(T) <= Cardinality((S \ R) \cup A)
    BY <1>3, FS_Subset
  <1>6. /\ Cardinality(S) \in Nat /\ Cardinality(R) \in Nat /\ Cardinality(A) \in Nat
        /\ Cardinality(T) \in Nat /\ Cardinality((S \ R) \cap A) \in Nat
        /\ Cardinality((S \ R) \cup A) \in Nat
    BY <1>1, <1>3, <1>4, <1>5, FS_CardinalityType
  <1> QED BY <1>2, <1>3, <1>5, <1>6

-----------------------------------------------------------------------------
(* Notes *)

LEMMA LiveUnits ==
    ASSUME PoolInv, NEW i \in Live
    PROVE  /\ i \in DOMAIN leaves /\ leaves[i] \in Note
           /\ leaves[i].value \in Nat
           /\ Units(i, leaves[i].value) \subseteq ShieldedUnits
  BY DEF Live, Note, ShieldedUnits, Units

\* Under a known root there is what is in the tree now.
LEMMA KnownRootLeaf ==
    ASSUME PoolInv, NEW root \in knownRoots, NEW i \in DOMAIN root
    PROVE  i \in DOMAIN leaves /\ root[i] = leaves[i]
  <1>1. leaves \in Seq(Leaf)
    BY DEF PoolInv, TypeOK
  <1>2. PICK k \in 0 .. Len(leaves) : root = SubSeq(leaves, 1, k)
    BY DEF PoolInv, KnownRootsArePast
  <1>3. root \in Seq(Leaf) /\ Len(root) = k /\ \A j \in 1 .. k : root[j] = leaves[j]
    BY <1>1, <1>2, PrefixProperties
  <1>4. DOMAIN root = 1 .. k /\ DOMAIN leaves = 1 .. Len(leaves) /\ Len(leaves) \in Nat
    BY <1>1, <1>3, LenProperties
  <1> QED BY <1>3, <1>4

\* What a spent input of a transfer is worth is backed by units of live notes with
\* that nullifier.
LEMMA SpentUnits ==
    ASSUME PoolInv, NEW root \in knownRoots, NEW nf, Field(nf) \notin nullifiers,
           NEW v \in SpentValues(root, nf)
    PROVE  /\ v \in Nat
           /\ \E D \in SUBSET ShieldedUnits :
                 /\ IsFiniteSet(D) /\ Cardinality(D) = v
                 /\ \A u \in D : NullifierOf(leaves[u[1]], u[1]) = nf
  <1>1. CASE v = 0
    <2>1. IsFiniteSet({}) /\ Cardinality({}) = 0
      BY FS_EmptySet
    <2> QED BY <1>1, <2>1
  <1>2. CASE v # 0
    <2>1. PICK i \in DOMAIN root : /\ root[i] \in Note
                                   /\ NullifierOf(root[i], i) = nf
                                   /\ v = root[i].value
      BY <1>2 DEF SpentValues
    <2>2. i \in DOMAIN leaves /\ root[i] = leaves[i]
      BY KnownRootLeaf
    <2>3. i \in Live
      BY <2>1, <2>2 DEF Live
    <2>4. v \in Nat /\ Units(i, v) \subseteq ShieldedUnits
      BY <2>1, <2>2, <2>3, LiveUnits
    <2>5. IsFiniteSet(Units(i, v)) /\ Cardinality(Units(i, v)) = v
      BY <2>4, UnitsCount
    <2>6. \A u \in Units(i, v) : NullifierOf(leaves[u[1]], u[1]) = nf
      BY <2>1, <2>2 DEF Units
    <2> QED BY <2>4, <2>5, <2>6
  <1> QED BY <1>1, <1>2

\* Old notes that stay live keep their units; the rest of the units are new.
LEMMA UnitsAfter ==
    ASSUME PoolInv, NEW cs \in Seq(Leaf), leaves' = leaves \o cs, nullifiers \subseteq nullifiers',
           NEW u \in ShieldedUnits'
    PROVE  \/ /\ u \in ShieldedUnits
              /\ Field(NullifierOf(leaves[u[1]], u[1])) \notin nullifiers'
           \/ \E k \in DOMAIN cs : cs[k] \in Note /\ u \in Units(Len(leaves) + k, cs[k].value)
  <1>1. leaves \in Seq(Leaf) /\ Len(leaves) \in Nat /\ Len(cs) \in Nat
    BY LenProperties DEF PoolInv, TypeOK
  <1>2. /\ leaves' \in Seq(Leaf)
        /\ Len(leaves') = Len(leaves) + Len(cs)
        /\ \A i \in 1 .. Len(leaves) + Len(cs) :
              leaves'[i] = IF i <= Len(leaves) THEN leaves[i] ELSE cs[i - Len(leaves)]
    BY <1>1, ConcatProperties
  <1>3. /\ DOMAIN leaves' = 1 .. Len(leaves) + Len(cs)
        /\ DOMAIN leaves = 1 .. Len(leaves) /\ DOMAIN cs = 1 .. Len(cs)
    BY <1>1, <1>2, LenProperties
  <1>4. PICK i \in DOMAIN leaves' : /\ leaves'[i] \in Note
                                    /\ Field(NullifierOf(leaves'[i], i)) \notin nullifiers'
                                    /\ u \in Units(i, leaves'[i].value)
    BY DEF ShieldedUnits, Live, Units
  <1>5. u[1] = i
    BY <1>4 DEF Units
  <1>6. CASE i <= Len(leaves)
    <2>1. i \in DOMAIN leaves /\ leaves'[i] = leaves[i]
      BY <1>1, <1>2, <1>3, <1>6
    <2>2. i \in Live
      BY <1>4, <2>1 DEF Live
    <2>3. u \in ShieldedUnits
      BY <1>4, <2>1, <2>2, LiveUnits
    <2> QED BY <1>4, <1>5, <2>1, <2>3
  <1>7. CASE ~(i <= Len(leaves))
    <2>1. i - Len(leaves) \in DOMAIN cs /\ leaves'[i] = cs[i - Len(leaves)]
          /\ i = Len(leaves) + (i - Len(leaves))
      BY <1>1, <1>2, <1>3, <1>7
    <2> QED BY <1>4, <2>1
  <1> QED BY <1>6, <1>7

LEMMA ValuesFitAfter ==
    ASSUME PoolInv, ValuesFit, NEW cs \in Seq(Leaf), leaves' = leaves \o cs,
           \A k \in DOMAIN cs : cs[k] \in Note => cs[k].value <= NoteMax
    PROVE  ValuesFit'
  <1>1. leaves \in Seq(Leaf) /\ Len(leaves) \in Nat /\ Len(cs) \in Nat
    BY LenProperties DEF PoolInv, TypeOK
  <1>2. /\ leaves' \in Seq(Leaf)
        /\ Len(leaves') = Len(leaves) + Len(cs)
        /\ \A i \in 1 .. Len(leaves) + Len(cs) :
              leaves'[i] = IF i <= Len(leaves) THEN leaves[i] ELSE cs[i - Len(leaves)]
    BY <1>1, ConcatProperties
  <1>3. /\ DOMAIN leaves' = 1 .. Len(leaves) + Len(cs)
        /\ DOMAIN leaves = 1 .. Len(leaves) /\ DOMAIN cs = 1 .. Len(cs)
    BY <1>1, <1>2, LenProperties
  <1> SUFFICES ASSUME NEW i \in DOMAIN leaves', leaves'[i] \in Note
               PROVE  leaves'[i].value <= NoteMax
    BY DEF ValuesFit
  <1>4. CASE i <= Len(leaves)
    <2>1. i \in DOMAIN leaves /\ leaves'[i] = leaves[i]
      BY <1>1, <1>2, <1>3, <1>4
    <2> QED BY <2>1 DEF ValuesFit
  <1>5. CASE ~(i <= Len(leaves))
    <2>1. i - Len(leaves) \in DOMAIN cs /\ leaves'[i] = cs[i - Len(leaves)]
      BY <1>1, <1>2, <1>3, <1>5
    <2> QED BY <2>1
  <1> QED BY <1>4, <1>5

-----------------------------------------------------------------------------
(* Steps *)

LEMMA SolvencyInit == Init => SolvencyInv
  <1> SUFFICES ASSUME Init PROVE SolvencyInv
    OBVIOUS
  <1>1. DOMAIN leaves = {}
    BY DEF Init
  <1>2. ShieldedUnits = {}
    BY <1>1 DEF ShieldedUnits, Live
  <1>3. IsFiniteSet(ShieldedUnits) /\ Cardinality(ShieldedUnits) = 0
    BY <1>2, FS_EmptySet
  <1>4. balance[Pool] = 0
    BY PoolAssumption DEF Init, Accounts
  <1>5. PoolInv
    BY PoolInit
  <1> QED BY <1>1, <1>3, <1>4, <1>5 DEF SolvencyInv, ValuesFit, Solvency, ShieldedValue

LEMMA BalanceType ==
    ASSUME PoolInv
    PROVE  /\ balance \in [Accounts -> Nat] /\ Pool \in Accounts /\ balance[Pool] \in Nat
  BY DEF PoolInv, TypeOK, Accounts

\* New units are paid for by the depositor.
LEMMA DepositSolvency ==
    ASSUME SolvencyInv, NEW from \in Users, NEW amount \in Amounts, NEW owner \in OwnerKeys,
           Deposit(from, amount, owner)
    PROVE  SolvencyInv'
  <1> DEFINE note == [owner |-> owner, value |-> amount]
             added == Units(Len(leaves) + 1, amount)
  <1>1. PoolInv /\ IsFiniteSet(ShieldedUnits) /\ Cardinality(ShieldedUnits) <= balance[Pool]
    BY DEF SolvencyInv, Solvency, ShieldedValue
  <1>2. amount \in Nat /\ amount > 0 /\ amount <= NoteMax /\ note \in Note
    BY PoolAssumption DEF PoolAssumption, Deposit, DepositAmountOK, Note
  <1>3. <<note>> \in Seq(Leaf) /\ DOMAIN <<note>> = {1}
    BY <1>2 DEF Leaf
  <1>4. leaves' = leaves \o <<note>> /\ nullifiers' = nullifiers
    BY DEF Deposit, InsertCommitments
  <1>5. ShieldedUnits' \subseteq (ShieldedUnits \ {}) \cup added
    <2> SUFFICES ASSUME NEW u \in ShieldedUnits' PROVE u \in ShieldedUnits \cup added
      OBVIOUS
    <2>1. \/ u \in ShieldedUnits
          \/ \E k \in DOMAIN <<note>> : u \in Units(Len(leaves) + k, <<note>>[k].value)
      <3> HIDE DEF note
      <3> QED BY <1>1, <1>3, <1>4, UnitsAfter
    <2> QED BY <1>3, <2>1
  <1>6. IsFiniteSet(added) /\ Cardinality(added) = amount
    BY <1>2, UnitsCount
  <1>7. IsFiniteSet({}) /\ Cardinality({}) = 0 /\ {} \in SUBSET ShieldedUnits
    BY FS_EmptySet
  <1>8. /\ IsFiniteSet(ShieldedUnits')
        /\ Cardinality(ShieldedUnits') \in Nat
        /\ Cardinality(ShieldedUnits') <= Cardinality(ShieldedUnits) - 0 + amount
    <2> HIDE DEF added
    <2> QED BY <1>1, <1>5, <1>6, <1>7, ExchangeCount
  <1>9. balance'[Pool] = balance[Pool] + amount
    BY <1>1, BalanceType, PoolAssumption DEF PoolAssumption, Deposit, MoveTokens, Accounts
  <1>10. Solvency'
    <2>1. Cardinality(ShieldedUnits) \in Nat /\ balance[Pool] \in Nat
      BY <1>1, FS_CardinalityType, BalanceType
    <2> QED BY <1>1, <1>2, <1>8, <1>9, <2>1 DEF Solvency, ShieldedValue
  <1>11. PoolInv'
    BY <1>1, DepositStep
  <1>12. ValuesFit'
    <2>1. \A k \in DOMAIN <<note>> : <<note>>[k].value <= NoteMax
      BY <1>2, <1>3
    <2> HIDE DEF note
    <2> QED BY <1>3, <1>4, <2>1, ValuesFitAfter DEF SolvencyInv
  <1> QED BY <1>8, <1>10, <1>11, <1>12 DEF SolvencyInv

\* What a withdrawal pays out dies with its note.
LEMMA WithdrawSolvency == SolvencyInv /\ WithdrawCalls => SolvencyInv'
  <1> SUFFICES ASSUME SolvencyInv, WithdrawCalls PROVE SolvencyInv'
    OBVIOUS
  <1>1. PoolInv /\ IsFiniteSet(ShieldedUnits) /\ Cardinality(ShieldedUnits) <= balance[Pool]
    BY DEF SolvencyInv, Solvency, ShieldedValue
  <1>2. PICK root \in knownRoots :
             \E s \in NoteSpends(root), e \in Encodings, to \in Accounts, amount \in Amounts :
                Withdraw(Bytes(s.nf, e), to, amount, root)
    BY DEF WithdrawCalls
  <1>3. PICK s \in NoteSpends(root), e \in Encodings, to \in Accounts, amount \in Amounts :
             Withdraw(Bytes(s.nf, e), to, amount, root)
    BY <1>2
  <1> DEFINE nf == Bytes(s.nf, e)
             inputs == <<Field(root), nf, Field(to), Field(amount)>>
             x == [k \in DOMAIN inputs |-> inputs[k].elem]
  <1>4. /\ amount \in Nat /\ amount > 0 /\ amount <= balance[Pool]
        /\ nf \notin nullifiers
        /\ CanonicalInputs(inputs)
        /\ IF CircuitOf[verifier["Withdraw"]] = "transfer" THEN TransferRelation(x) ELSE WithdrawRelation(x)
        /\ nullifiers' = nullifiers \cup {nf}
        /\ MoveTokens(Pool, to, amount)
        /\ UNCHANGED <<govVars, leaves, knownRoots, attested>>
    BY <1>3, PoolAssumption DEF PoolAssumption, Withdraw, WithdrawAccepted, Verify
  <1>5. DOMAIN inputs = 1 .. 4 /\ DOMAIN x = 1 .. 4
    OBVIOUS
  <1>6. /\ x = <<root, s.nf, to, amount>> /\ Len(x) = 4
    BY DEF Field, Bytes
  <1>7. nf = Field(s.nf)
    <2>1. inputs[2].enc = 0
      BY <1>4, <1>5 DEF CanonicalInputs
    <2>2. e = 0
      BY <2>1 DEF Bytes
    <2> QED BY <2>2 DEF Field
  <1>8. WithdrawRelation(x)
    BY <1>4, <1>6 DEF TransferRelation
  <1>9. PICK i \in DOMAIN root : /\ root[i] \in Note
                                 /\ NullifierOf(root[i], i) = s.nf
                                 /\ root[i].value = amount
    BY <1>6, <1>8 DEF WithdrawRelation
  <1>10. i \in DOMAIN leaves /\ root[i] = leaves[i]
    BY <1>1, KnownRootLeaf
  <1> DEFINE spent == Units(i, amount)
  <1>11. spent \subseteq ShieldedUnits
    <2>1. i \in Live
      BY <1>4, <1>7, <1>9, <1>10 DEF Live
    <2> QED BY <1>1, <1>9, <1>10, <2>1, LiveUnits
  <1>12. ShieldedUnits' \subseteq (ShieldedUnits \ spent) \cup {}
    <2> SUFFICES ASSUME NEW u \in ShieldedUnits' PROVE u \in ShieldedUnits /\ u \notin spent
      OBVIOUS
    <2>1. PICK j \in Live' : u \in Units(j, leaves'[j].value)
      BY DEF ShieldedUnits, Units
    <2>2. /\ j \in DOMAIN leaves /\ leaves[j] \in Note
          /\ Field(NullifierOf(leaves[j], j)) \notin nullifiers \cup {nf}
      BY <1>4, <2>1 DEF Live
    <2>3. j \in Live /\ j # i
      BY <1>7, <1>9, <1>10, <2>2 DEF Live
    <2>4. u \in ShieldedUnits
      BY <1>1, <1>4, <2>1, <2>3, LiveUnits
    <2> QED BY <2>1, <2>3, <2>4 DEF Units
  <1>13. IsFiniteSet(spent) /\ Cardinality(spent) = amount
    BY <1>4, UnitsCount
  <1>14. IsFiniteSet({}) /\ Cardinality({}) = 0
    BY FS_EmptySet
  <1>15. /\ IsFiniteSet(ShieldedUnits')
         /\ Cardinality(ShieldedUnits') \in Nat
         /\ Cardinality(ShieldedUnits') <= Cardinality(ShieldedUnits) - amount + 0
    <2> HIDE DEF spent
    <2> QED BY <1>1, <1>11, <1>12, <1>13, <1>14, ExchangeCount
  <1>16. balance'[Pool] \in {balance[Pool], balance[Pool] - amount}
    BY <1>1, <1>4, BalanceType DEF MoveTokens
  <1>17. Solvency'
    <2>1. Cardinality(ShieldedUnits) \in Nat /\ balance[Pool] \in Nat
      BY <1>1, FS_CardinalityType, BalanceType
    <2> QED BY <1>1, <1>4, <1>15, <1>16, <2>1 DEF Solvency, ShieldedValue
  <1>18. PoolInv'
    BY <1>1, WithdrawCallsStep
  <1>19. ValuesFit'
    BY <1>4 DEF SolvencyInv, ValuesFit
  <1> QED BY <1>15, <1>17, <1>18, <1>19 DEF SolvencyInv

LEMMA FiveInputs ==
    ASSUME NEW a, NEW b, NEW c, NEW d, NEW e
    PROVE  (<<a>> \o <<b, c>>) \o <<d, e>> = <<a, b, c, d, e>>
  <1> DEFINE S == {a, b, c, d, e}
             s == <<a>> \o <<b, c>>
             t == s \o <<d, e>>
  <1>1. /\ <<a>> \in Seq(S) /\ <<b, c>> \in Seq(S) /\ <<d, e>> \in Seq(S)
        /\ <<a, b, c, d, e>> \in Seq(S)
        /\ Len(<<a>>) = 1 /\ Len(<<b, c>>) = 2 /\ Len(<<d, e>>) = 2
    OBVIOUS
  <1>2. /\ s \in Seq(S) /\ Len(s) = 3
        /\ \A i \in 1 .. 3 : s[i] = IF i <= 1 THEN <<a>>[i] ELSE <<b, c>>[i - 1]
    BY <1>1, ConcatProperties
  <1>3. /\ t \in Seq(S) /\ Len(t) = 5
        /\ \A i \in 1 .. 5 : t[i] = IF i <= 3 THEN s[i] ELSE <<d, e>>[i - 3]
    <2> DEFINE u == <<d, e>>
    <2>1. u \in Seq(S) /\ Len(u) = 2
      BY <1>1
    <2> HIDE DEF s, u, S
    <2>2. /\ s \o u \in Seq(S) /\ Len(s \o u) = Len(s) + Len(u)
          /\ \A i \in 1 .. Len(s) + Len(u) : (s \o u)[i] = IF i <= Len(s) THEN s[i] ELSE u[i - Len(s)]
      BY <1>2, <2>1, ConcatProperties
    <2>3. t = s \o u
      BY DEF u
    <2> HIDE DEF t
    <2>4. /\ t \in Seq(S) /\ Len(t) = 5
          /\ \A i \in 1 .. 5 : t[i] = IF i <= 3 THEN s[i] ELSE u[i - 3]
      BY <1>2, <2>1, <2>2, <2>3
    <2> QED BY <2>4 DEF u
  <1> HIDE DEF s, t
  <1>4. \A i \in 1 .. 5 : t[i] = <<a, b, c, d, e>>[i]
    BY <1>2, <1>3
  <1>5. t = <<a, b, c, d, e>>
    <2>1. Len(<<a, b, c, d, e>>) = 5
      OBVIOUS
    <2> QED BY <1>1, <1>3, <1>4, <2>1, SeqEqual
  <1> QED BY <1>5 DEF s, t

\* A transfer of two spent and two created notes: the units behind the spent ones
\* die with their two different nullifiers, and no more are born.
LEMMA TransferSolvency ==
    ASSUME SolvencyInv, NEW root \in knownRoots,
           NEW nf1 \in InputBytes, NEW nf2 \in InputBytes, NEW cm1 \in Note, NEW cm2 \in Note,
           Transfer(<<nf1, nf2>>, <<Field(cm1), Field(cm2)>>, root)
    PROVE  ValuesFit' /\ IsFiniteSet(ShieldedUnits') /\ Solvency'
  <1> DEFINE nfs == <<nf1, nf2>>
             cms == <<Field(cm1), Field(cm2)>>
             inputs == <<Field(root)>> \o nfs \o cms
             x == [k \in DOMAIN inputs |-> inputs[k].elem]
             cs == <<cm1, cm2>>
             n == Len(leaves)
             added == Units(n + 1, cm1.value) \cup Units(n + 2, cm2.value)
  <1>1. PoolInv /\ IsFiniteSet(ShieldedUnits) /\ Cardinality(ShieldedUnits) <= balance[Pool]
    BY DEF SolvencyInv, Solvency, ShieldedValue
  <1>2. /\ Fresh(nfs)
        /\ CanonicalInputs(inputs)
        /\ IF CircuitOf[verifier["Transfer"]] = "transfer" THEN TransferRelation(x) ELSE WithdrawRelation(x)
        /\ nullifiers' = nullifiers \cup Range(nfs)
        /\ InsertCommitments([k \in DOMAIN cms |-> cms[k].elem])
        /\ balance' = balance
    BY DEF Transfer, Verify
  <1>3. inputs = <<Field(root), nf1, nf2, Field(cm1), Field(cm2)>>
    BY FiveInputs
  <1>4. x = <<root, nf1.elem, nf2.elem, cm1, cm2>> /\ Len(x) = 5
    <2> HIDE DEF inputs
    <2> QED BY <1>3 DEF Field, Bytes
  <1>5. nf1.enc = 0 /\ nf2.enc = 0
    <2>1. 2 \in DOMAIN inputs /\ 3 \in DOMAIN inputs /\ inputs[2] = nf1 /\ inputs[3] = nf2
      BY <1>3
    <2> HIDE DEF inputs
    <2> QED BY <1>2, <2>1 DEF CanonicalInputs
  <1>6. nf1 = Field(nf1.elem) /\ nf2 = Field(nf2.elem)
    BY <1>5 DEF InputBytes, Field, Bytes
  <1>7. nf1 \notin nullifiers /\ nf2 \notin nullifiers /\ nf1 # nf2
    BY <1>2 DEF Fresh
  <1>8. TransferRelation(x)
    <2> HIDE DEF x
    <2> QED BY <1>2, <1>4 DEF WithdrawRelation
  <1>9. /\ cm1.value <= NoteMax /\ cm2.value <= NoteMax
        /\ \E v \in SpentValues(root, nf1.elem), w \in SpentValues(root, nf2.elem) :
              v + w = cm1.value + cm2.value
    <2> HIDE DEF x
    <2> QED BY <1>4, <1>8 DEF TransferRelation
  <1>10. PICK v \in SpentValues(root, nf1.elem), w \in SpentValues(root, nf2.elem) :
              v + w = cm1.value + cm2.value
    BY <1>9
  <1>11. /\ v \in Nat
         /\ \E D \in SUBSET ShieldedUnits :
               /\ IsFiniteSet(D) /\ Cardinality(D) = v
               /\ \A u \in D : NullifierOf(leaves[u[1]], u[1]) = nf1.elem
    BY <1>1, <1>6, <1>7, SpentUnits
  <1>12. /\ w \in Nat
         /\ \E D \in SUBSET ShieldedUnits :
               /\ IsFiniteSet(D) /\ Cardinality(D) = w
               /\ \A u \in D : NullifierOf(leaves[u[1]], u[1]) = nf2.elem
    BY <1>1, <1>6, <1>7, SpentUnits
  <1>13. PICK D1 \in SUBSET ShieldedUnits :
               /\ IsFiniteSet(D1) /\ Cardinality(D1) = v
               /\ \A u \in D1 : NullifierOf(leaves[u[1]], u[1]) = nf1.elem
    BY <1>11
  <1>14. PICK D2 \in SUBSET ShieldedUnits :
               /\ IsFiniteSet(D2) /\ Cardinality(D2) = w
               /\ \A u \in D2 : NullifierOf(leaves[u[1]], u[1]) = nf2.elem
    BY <1>12
  <1> DEFINE spent == D1 \cup D2
  <1>15. Cardinality(spent) = v + w /\ spent \in SUBSET ShieldedUnits
    <2>1. D1 \cap D2 = {}
      BY <1>6, <1>7, <1>13, <1>14
    <2>2. Cardinality(spent) = Cardinality(D1) + Cardinality(D2) - Cardinality(D1 \cap D2)
      BY <1>13, <1>14, FS_Union
    <2>3. Cardinality(D1 \cap D2) = 0
      BY <2>1, FS_EmptySet
    <2> QED BY <1>11, <1>12, <1>13, <1>14, <2>2, <2>3
  <1>16. cm1.value \in Nat /\ cm2.value \in Nat
    BY DEF Note
  <1>17. /\ IsFiniteSet(added) /\ Cardinality(added) \in Nat
         /\ Cardinality(added) <= cm1.value + cm2.value
    <2>1. /\ IsFiniteSet(Units(n + 1, cm1.value)) /\ Cardinality(Units(n + 1, cm1.value)) = cm1.value
          /\ IsFiniteSet(Units(n + 2, cm2.value)) /\ Cardinality(Units(n + 2, cm2.value)) = cm2.value
      BY <1>16, UnitsCount
    <2> DEFINE A == Units(n + 1, cm1.value)
               B == Units(n + 2, cm2.value)
    <2> HIDE DEF A, B
    <2>2. IsFiniteSet(A) /\ Cardinality(A) = cm1.value /\ IsFiniteSet(B) /\ Cardinality(B) = cm2.value
      BY <2>1 DEF A, B
    <2>3. IsFiniteSet(A \cup B) /\ Cardinality(A \cup B) = cm1.value + cm2.value - Cardinality(A \cap B)
      BY <2>2, FS_Union
    <2>4. Cardinality(A \cap B) \in Nat /\ Cardinality(A \cup B) \in Nat
      BY <2>2, <2>3, FS_Intersection, FS_CardinalityType
    <2>5. added = A \cup B
      BY DEF A, B
    <2> HIDE DEF added
    <2> QED BY <1>16, <2>3, <2>4, <2>5
  <1>18. leaves' = leaves \o cs /\ cs \in Seq(Leaf) /\ DOMAIN cs = {1, 2}
    <2>1. [k \in DOMAIN cms |-> cms[k].elem] = cs
      BY DEF Field, Bytes
    <2> QED BY <1>2, <2>1 DEF InsertCommitments, Leaf
  <1>19. nf1 \in nullifiers' /\ nf2 \in nullifiers' /\ nullifiers \subseteq nullifiers'
    BY <1>2 DEF Range
  <1>20. ShieldedUnits' \subseteq (ShieldedUnits \ spent) \cup added
    <2> SUFFICES ASSUME NEW u \in ShieldedUnits' PROVE u \in (ShieldedUnits \ spent) \cup added
      OBVIOUS
    <2>1. \/ /\ u \in ShieldedUnits
             /\ Field(NullifierOf(leaves[u[1]], u[1])) \notin nullifiers'
          \/ \E k \in DOMAIN cs : cs[k] \in Note /\ u \in Units(n + k, cs[k].value)
      <3> HIDE DEF cs
      <3> QED BY <1>1, <1>18, <1>19, UnitsAfter
    <2>2. ASSUME Field(NullifierOf(leaves[u[1]], u[1])) \notin nullifiers' PROVE u \notin spent
      BY <1>6, <1>13, <1>14, <1>19, <2>2
    <2>3. ASSUME \E k \in DOMAIN cs : u \in Units(n + k, cs[k].value) PROVE u \in added
      BY <1>18, <2>3
    <2> QED BY <2>1, <2>2, <2>3
  <1>21. /\ IsFiniteSet(ShieldedUnits')
         /\ Cardinality(ShieldedUnits') \in Nat
         /\ Cardinality(ShieldedUnits') <= Cardinality(ShieldedUnits) - Cardinality(spent) + Cardinality(added)
    <2> HIDE DEF spent, added
    <2> QED BY <1>1, <1>15, <1>17, <1>20, ExchangeCount
  <1>22. Solvency'
    <2>1. Cardinality(ShieldedUnits) \in Nat /\ balance[Pool] \in Nat
      BY <1>1, FS_CardinalityType, BalanceType
    <2> HIDE DEF spent, added
    <2> QED BY <1>1, <1>2, <1>10, <1>11, <1>12, <1>15, <1>16, <1>17, <1>21, <2>1
        DEF Solvency, ShieldedValue
  <1>23. ValuesFit'
    <2>1. \A k \in DOMAIN cs : cs[k].value <= NoteMax
      BY <1>9, <1>18
    <2> HIDE DEF cs
    <2> QED BY <1>1, <1>18, <2>1, ValuesFitAfter DEF SolvencyInv
  <1> QED BY <1>21, <1>22, <1>23

LEMMA HalvesOfFour ==
    ASSUME NEW a, NEW b, NEW c, NEW d
    PROVE  /\ SubSeq(<<a, b, c, d>>, 1, 2) = <<a, b>>
           /\ SubSeq(<<a, b, c, d>>, 3, 4) = <<c, d>>
  <1> DEFINE S == {a, b, c, d}
             x == <<a, b, c, d>>
  <1>1. x \in Seq(S) /\ Len(x) = 4 /\ \A i \in 1 .. 4 : x[i] \in S
    OBVIOUS
  <1>2. <<a, b>> \in Seq(S) /\ <<c, d>> \in Seq(S) /\ Len(<<a, b>>) = 2 /\ Len(<<c, d>>) = 2
    OBVIOUS
  <1>3. x[1] = a /\ x[2] = b /\ x[3] = c /\ x[4] = d
    OBVIOUS
  <1> HIDE DEF S, x
  <1>4. /\ SubSeq(x, 1, 2) \in Seq(S) /\ Len(SubSeq(x, 1, 2)) = 2
        /\ \A i \in 1 .. 2 : SubSeq(x, 1, 2)[i] = x[1 + i - 1]
    BY <1>1, SubSeqProperties
  <1>5. /\ SubSeq(x, 3, 4) \in Seq(S) /\ Len(SubSeq(x, 3, 4)) = 2
        /\ \A i \in 1 .. 2 : SubSeq(x, 3, 4)[i] = x[3 + i - 1]
    BY <1>1, SubSeqProperties
  <1>6. \A i \in 1 .. 2 : SubSeq(x, 1, 2)[i] = <<a, b>>[i] /\ SubSeq(x, 3, 4)[i] = <<c, d>>[i]
    <2>1. 1 \in 1 .. 2 /\ 2 \in 1 .. 2 /\ 1 + 1 - 1 = 1 /\ 1 + 2 - 1 = 2 /\ 3 + 1 - 1 = 3 /\ 3 + 2 - 1 = 4
      OBVIOUS
    <2>2. SubSeq(x, 1, 2)[1] = a /\ SubSeq(x, 1, 2)[2] = b
      BY <1>3, <1>4, <2>1
    <2>3. SubSeq(x, 3, 4)[1] = c /\ SubSeq(x, 3, 4)[2] = d
      BY <1>3, <1>5, <2>1
    <2>4. \A i \in 1 .. 2 : i = 1 \/ i = 2
      OBVIOUS
    <2> HIDE DEF S, x
    <2> QED BY <2>2, <2>3, <2>4
  <1>7. SubSeq(x, 1, 2) = <<a, b>>
    BY <1>2, <1>4, <1>6, SeqEqual
  <1>8. SubSeq(x, 3, 4) = <<c, d>>
    BY <1>2, <1>5, <1>6, SeqEqual
  <1> QED BY <1>7, <1>8 DEF x

LEMMA TransferCallsSolvency ==
    ASSUME TwoByTwo, SolvencyInv, TransferCalls
    PROVE  SolvencyInv'
  <1>1. PoolInv
    BY DEF SolvencyInv
  <1>2. PICK shape \in Shapes, root \in knownRoots :
             \E s, t \in NoteSpends(root) \cup DummySpends, e, f \in Encodings :
             \E cd \in OutputPairs(s.value + t.value) :
               LET x == <<Bytes(s.nf, e), Bytes(t.nf, f), Field(cd[1]), Field(cd[2])>>
               IN  /\ shape[1] + shape[2] = Len(x)
                   /\ Transfer(SubSeq(x, 1, shape[1]), SubSeq(x, shape[1] + 1, Len(x)), root)
    BY DEF TransferCalls
  <1>3. PICK s \in NoteSpends(root) \cup DummySpends, t \in NoteSpends(root) \cup DummySpends,
             e \in Encodings, f \in Encodings :
             \E cd \in OutputPairs(s.value + t.value) :
               LET x == <<Bytes(s.nf, e), Bytes(t.nf, f), Field(cd[1]), Field(cd[2])>>
               IN  /\ shape[1] + shape[2] = Len(x)
                   /\ Transfer(SubSeq(x, 1, shape[1]), SubSeq(x, shape[1] + 1, Len(x)), root)
    BY <1>2
  <1>4. PICK cd \in OutputPairs(s.value + t.value) :
               LET x == <<Bytes(s.nf, e), Bytes(t.nf, f), Field(cd[1]), Field(cd[2])>>
               IN  /\ shape[1] + shape[2] = Len(x)
                   /\ Transfer(SubSeq(x, 1, shape[1]), SubSeq(x, shape[1] + 1, Len(x)), root)
    BY <1>3
  <1> DEFINE nf1 == Bytes(s.nf, e)
             nf2 == Bytes(t.nf, f)
             x == <<nf1, nf2, Field(cd[1]), Field(cd[2])>>
  <1>5. shape[1] = 2 /\ shape[2] = 2 /\ Len(x) = 4
    BY DEF TwoByTwo
  <1>6. Transfer(SubSeq(x, 1, 2), SubSeq(x, 3, 4), root)
    <2>1. Transfer(SubSeq(x, 1, shape[1]), SubSeq(x, shape[1] + 1, Len(x)), root)
      BY <1>4
    <2>2. shape[1] + 1 = 3
      BY <1>5
    <2> HIDE DEF x
    <2> QED BY <1>5, <2>1, <2>2
  <1>7. Transfer(<<nf1, nf2>>, <<Field(cd[1]), Field(cd[2])>>, root)
    <2>1. SubSeq(x, 1, 2) = <<nf1, nf2>> /\ SubSeq(x, 3, 4) = <<Field(cd[1]), Field(cd[2])>>
      BY HalvesOfFour
    <2> HIDE DEF x
    <2> QED BY <1>6, <2>1
  <1>8. cd[1] \in Note /\ cd[2] \in Note
    BY PoolAssumption DEF PoolAssumption, OutputPairs, Outputs, Note
  <1>9. nf1 \in InputBytes /\ nf2 \in InputBytes
    <2>1. s.nf \in Nullifier /\ t.nf \in Nullifier
      BY <1>1, SpendTypes
    <2> QED BY <2>1, PoolAssumption DEF PoolAssumption, InputBytes, Bytes, Leaf
  <1>10. ValuesFit' /\ IsFiniteSet(ShieldedUnits') /\ Solvency'
    <2> HIDE DEF nf1, nf2
    <2> QED BY <1>7, <1>8, <1>9, TransferSolvency
  <1>11. PoolInv'
    BY <1>1, TransferCallsStep
  <1> QED BY <1>10, <1>11 DEF SolvencyInv

\* Nothing else touches notes, and the balance only grows.
LEMMA OtherSolvency ==
    ASSUME SolvencyInv, PoolInv', UNCHANGED <<leaves, nullifiers>>, balance'[Pool] \in Nat,
           balance'[Pool] >= balance[Pool]
    PROVE  SolvencyInv'
  <1>1. ShieldedUnits' = ShieldedUnits
    BY DEF ShieldedUnits, Live
  <1>2. Cardinality(ShieldedUnits) \in Nat /\ balance[Pool] \in Nat
    BY FS_CardinalityType, BalanceType DEF SolvencyInv
  <1>3. Solvency'
    BY <1>1, <1>2 DEF SolvencyInv, Solvency, ShieldedValue
  <1> QED BY <1>1, <1>3 DEF SolvencyInv, ValuesFit

LEMMA SolvencyStep == TwoByTwo /\ SolvencyInv /\ [Next]_vars => SolvencyInv'
  <1> SUFFICES ASSUME TwoByTwo, SolvencyInv, [Next]_vars PROVE SolvencyInv'
    OBVIOUS
  <1>1. PoolInv /\ PoolInv'
    BY PoolStep DEF SolvencyInv
  <1>2. /\ balance \in [Accounts -> Nat] /\ balance' \in [Accounts -> Nat] /\ Pool \in Accounts
    BY <1>1 DEF PoolInv, TypeOK, Accounts
  <1>3. ASSUME NEW from \in Users, NEW amount \in Amounts, TokenTransferToPool(from, amount)
        PROVE  SolvencyInv'
    <2>1. amount \in Int /\ amount > 0 /\ from # Pool /\ from \in Accounts
      BY <1>3, PoolAssumption DEF PoolAssumption, TokenTransferToPool, Accounts
    <2>2. balance'[Pool] = balance[Pool] + amount /\ UNCHANGED <<leaves, nullifiers>>
      BY <1>2, <1>3, <2>1 DEF TokenTransferToPool, MoveTokens
    <2> QED BY <1>1, <1>2, <2>1, <2>2, OtherSolvency
  <1>4. CASE UNCHANGED <<balance, leaves, nullifiers>>
    BY <1>1, <1>2, <1>4, OtherSolvency
  <1>5. CASE LedgerCall
    BY <1>3, <1>5, DepositSolvency, TransferCallsSolvency, WithdrawSolvency DEF LedgerCall
  <1>6. CASE GovCall /\ UNCHANGED ledgerVars
    BY <1>4, <1>6 DEF ledgerVars
  <1>7. CASE Outside
    BY <1>4, <1>7 DEF Outside
  <1>8. CASE UNCHANGED vars
    BY <1>4, <1>8 DEF vars, ledgerVars
  <1> QED BY <1>5, <1>6, <1>7, <1>8 DEF Next

\* In every reachable state of a pool whose transfers have the circuit's layout,
\* every note fits the transfer circuit and the shielded units are covered.
THEOREM SolvencyInvariant ==
    ASSUME TwoByTwo
    PROVE  Spec => []SolvencyInv
  <1>1. SolvencyInv /\ [Next]_vars => SolvencyInv'
    BY SolvencyStep
  <1> QED BY <1>1, SolvencyInit, PTL DEF Spec

\* The tokens the pool holds always cover all unspent notes, for any number of
\* users, owners and notes and under any rotation of verifiers.
THEOREM PoolIsSolvent ==
    ASSUME TwoByTwo
    PROVE  Spec => []Solvency
  <1>1. SolvencyInv => Solvency
    BY DEF SolvencyInv
  <1> QED BY <1>1, SolvencyInvariant, PTL

-----------------------------------------------------------------------------
(* Leaving the pool *)

\* Under any known root, an unspent note of positive value is accepted.
NotesLeave ==
    \A root \in knownRoots, to \in Accounts : \A i \in DOMAIN root :
        /\ root[i] \in Note
        /\ root[i].value > 0
        /\ Field(NullifierOf(root[i], i)) \notin nullifiers
        /\ CircuitOf[verifier["Withdraw"]] = "withdraw"
        => WithdrawAccepted(Field(NullifierOf(root[i], i)), to, root[i].value, root)

\* Its units are among the shielded ones, which the balance covers.
LEMMA LiveIsCovered ==
    ASSUME SolvencyInv, NEW i \in Live
    PROVE  leaves[i].value <= balance[Pool]
  <1>1. PoolInv /\ IsFiniteSet(ShieldedUnits) /\ Cardinality(ShieldedUnits) <= balance[Pool]
    BY DEF SolvencyInv, Solvency, ShieldedValue
  <1>2. leaves[i].value \in Nat /\ Units(i, leaves[i].value) \subseteq ShieldedUnits
    BY <1>1, LiveUnits
  <1>3. Cardinality(Units(i, leaves[i].value)) = leaves[i].value
    BY <1>2, UnitsCount
  <1>4. Cardinality(Units(i, leaves[i].value)) <= Cardinality(ShieldedUnits)
    BY <1>1, <1>2, FS_Subset
  <1>5. Cardinality(ShieldedUnits) \in Nat /\ balance[Pool] \in Nat
    BY <1>1, FS_CardinalityType, BalanceType
  <1> QED BY <1>1, <1>2, <1>3, <1>4, <1>5

LEMMA UnspentNotesLeave == SolvencyInv => NotesLeave
  <1> SUFFICES ASSUME SolvencyInv, NEW root \in knownRoots, NEW to \in Accounts,
                      NEW i \in DOMAIN root, root[i] \in Note, root[i].value > 0,
                      Field(NullifierOf(root[i], i)) \notin nullifiers,
                      CircuitOf[verifier["Withdraw"]] = "withdraw"
               PROVE  WithdrawAccepted(Field(NullifierOf(root[i], i)), to, root[i].value, root)
    BY DEF NotesLeave
  <1> DEFINE nf == Field(NullifierOf(root[i], i))
             inputs == <<Field(root), nf, Field(to), Field(root[i].value)>>
             x == [k \in DOMAIN inputs |-> inputs[k].elem]
  <1>1. i \in DOMAIN leaves /\ root[i] = leaves[i]
    BY KnownRootLeaf DEF SolvencyInv
  <1>2. i \in Live
    BY <1>1 DEF Live
  <1>3. root[i].value <= balance[Pool]
    BY <1>1, <1>2, LiveIsCovered
  <1>4. CanonicalInputs(inputs)
    BY DEF CanonicalInputs, Field, Bytes
  <1>5. x = <<root, NullifierOf(root[i], i), to, root[i].value>> /\ Len(x) = 4
    BY DEF Field, Bytes
  <1>6. WithdrawRelation(x)
    <2> HIDE DEF x
    <2> QED BY <1>5 DEF WithdrawRelation
  <1>7. Verify(verifier["Withdraw"], inputs)
    BY <1>4, <1>6 DEF Verify
  <1> QED BY <1>3, <1>7 DEF WithdrawAccepted

\* The same of the state after a step.
LEMMA UnspentNotesLeaveNext == SolvencyInv' => NotesLeave'
  BY UnspentNotesLeave, PTL

LEMMA NotesCanExit == SolvencyInv => EveryNoteCanExit
  <1> SUFFICES ASSUME SolvencyInv, NEW i \in Live, leaves[i].value > 0
               PROVE  LET nf == NullifierOf(leaves[i], i)
                      IN  /\ leaves[i].value \in SpentValues(leaves, nf)
                          /\ CircuitOf[verifier["Withdraw"]] = "withdraw" =>
                                \A to \in Accounts, k \in i .. Len(leaves) :
                                   WithdrawAccepted(Field(nf), to, leaves[i].value, SubSeq(leaves, 1, k))
    BY DEF EveryNoteCanExit
  <1> DEFINE nf == NullifierOf(leaves[i], i)
  <1>1. PoolInv /\ leaves \in Seq(Leaf) /\ DOMAIN leaves = 1 .. Len(leaves) /\ Len(leaves) \in Nat
    BY LenProperties DEF SolvencyInv, PoolInv, TypeOK
  <1>2. i \in 1 .. Len(leaves) /\ leaves[i] \in Note /\ Field(nf) \notin nullifiers
    BY <1>1 DEF Live
  <1>3. leaves[i].value \in SpentValues(leaves, nf)
    BY <1>1, <1>2 DEF SpentValues, SolvencyInv, ValuesFit
  <1>4. ASSUME CircuitOf[verifier["Withdraw"]] = "withdraw",
               NEW to \in Accounts, NEW k \in i .. Len(leaves)
        PROVE  WithdrawAccepted(Field(nf), to, leaves[i].value, SubSeq(leaves, 1, k))
    <2> DEFINE root == SubSeq(leaves, 1, k)
    <2>1. k \in 0 .. Len(leaves) /\ i \in 1 .. k
      BY <1>1, <1>2
    <2>2. root \in Seq(Leaf) /\ Len(root) = k /\ \A j \in 1 .. k : root[j] = leaves[j]
      BY <1>1, <2>1, PrefixProperties
    <2>3. i \in DOMAIN root /\ root[i] = leaves[i]
      BY <2>1, <2>2, LenProperties
    <2>4. root \in knownRoots
      BY <1>1, <2>1 DEF PoolInv, KnownRootsArePast
    <2>5. NotesLeave
      BY UnspentNotesLeave
    <2> HIDE DEF root
    <2>6. WithdrawAccepted(Field(NullifierOf(root[i], i)), to, root[i].value, root)
      BY <1>2, <1>4, <2>3, <2>4, <2>5 DEF NotesLeave
    <2> QED BY <2>3, <2>6 DEF root
  <1> QED BY <1>3, <1>4

LEMMA RootsOnlyGrow == [Next]_vars => knownRoots \subseteq knownRoots'
  <1> SUFFICES ASSUME [Next]_vars PROVE knownRoots \subseteq knownRoots'
    OBVIOUS
  <1>1. CASE UNCHANGED knownRoots
    BY <1>1
  <1>2. CASE LedgerCall
    <2>1. ASSUME NEW cs, InsertCommitments(cs) PROVE knownRoots \subseteq knownRoots'
      BY <2>1 DEF InsertCommitments, RootsAfter
    <2>2. ASSUME NEW from \in Users, NEW amount \in Amounts, NEW owner \in OwnerKeys,
                 Deposit(from, amount, owner)
          PROVE  knownRoots \subseteq knownRoots'
      BY <2>1, <2>2 DEF Deposit
    <2>3. CASE TransferCalls
      <3>1. PICK nfs, cms, root : Transfer(nfs, cms, root)
        BY <2>3 DEF TransferCalls
      <3>2. PICK cs : InsertCommitments(cs)
        BY <3>1 DEF Transfer
      <3> QED BY <2>1, <3>2
    <2>4. CASE WithdrawCalls
      <3>1. PICK nf, to, amount, root : Withdraw(nf, to, amount, root)
        BY <2>4 DEF WithdrawCalls
      <3> QED BY <1>1, <3>1 DEF Withdraw
    <2>5. ASSUME NEW from \in Users, NEW amount \in Amounts, TokenTransferToPool(from, amount)
          PROVE  knownRoots \subseteq knownRoots'
      BY <1>1, <2>5 DEF TokenTransferToPool
    <2> QED BY <1>2, <2>2, <2>3, <2>4, <2>5 DEF LedgerCall
  <1>3. CASE GovCall /\ UNCHANGED ledgerVars
    BY <1>3 DEF ledgerVars
  <1> QED BY <1>1, <1>2, <1>3 DEF Next, Outside, vars, ledgerVars

LEMMA WithdrawalSurvives ==
    ASSUME SolvencyInv, SolvencyInv', [Next]_vars,
           NEW root \in knownRoots, NEW to \in Accounts, NEW i \in DOMAIN root, root[i] \in Note,
           WithdrawAccepted(Field(NullifierOf(root[i], i)), to, root[i].value, root),
           Field(NullifierOf(root[i], i)) \notin nullifiers',
           verifier'["Withdraw"] = verifier["Withdraw"]
    PROVE  WithdrawAccepted(Field(NullifierOf(root[i], i)), to, root[i].value, root)'
  <1> DEFINE nf == Field(NullifierOf(root[i], i))
             inputs == <<Field(root), nf, Field(to), Field(root[i].value)>>
             x == [k \in DOMAIN inputs |-> inputs[k].elem]
  <1>1. root[i].value > 0 /\ Verify(verifier["Withdraw"], inputs)
    BY DEF WithdrawAccepted
  <1>2. Len(x) = 4
    OBVIOUS
  <1>3. CircuitOf[verifier["Withdraw"]] # "transfer"
    <2> SUFFICES ASSUME CircuitOf[verifier["Withdraw"]] = "transfer" PROVE FALSE
      OBVIOUS
    <2>1. TransferRelation(x)
      BY <1>1 DEF Verify
    <2> HIDE DEF x
    <2> QED BY <1>2, <2>1 DEF TransferRelation
  <1>4. CircuitOf[verifier'["Withdraw"]] = "withdraw"
    <2>1. verifier["Withdraw"] \in Verifiers
      BY DEF SolvencyInv, PoolInv, TypeOK, GovTypeOK, VerifierSlot
    <2> QED BY <1>3, <2>1, PoolAssumption DEF PoolAssumption
  <1>5. root \in knownRoots'
    BY RootsOnlyGrow
  <1>6. NotesLeave'
    BY UnspentNotesLeaveNext
  <1> QED BY <1>1, <1>4, <1>5, <1>6 DEF NotesLeave

\* No note is ever stranded: under a withdraw circuit the owner of every unspent
\* note can take it out in full, under every root since it exists.
THEOREM NoNoteIsStranded ==
    ASSUME TwoByTwo
    PROVE  Spec => []EveryNoteCanExit
  <1> QED BY NotesCanExit, SolvencyInvariant, PTL

\* No step of anybody invalidates a withdrawal that would be accepted, but its
\* own nullifier being spent or the withdraw verifier being rotated.
THEOREM WithdrawalsStayValid ==
    ASSUME TwoByTwo
    PROVE  Spec => WithdrawalStaysValid
  <1>1. SolvencyInv /\ SolvencyInv' /\ [Next]_vars =>
           [\A root \in knownRoots, to \in Accounts :
              \A i \in DOMAIN root : root[i] \in Note =>
                 LET nf == Field(NullifierOf(root[i], i))
                 IN  WithdrawAccepted(nf, to, root[i].value, root) =>
                        \/ WithdrawAccepted(nf, to, root[i].value, root)'
                        \/ nf \in nullifiers'
                        \/ verifier'["Withdraw"] # verifier["Withdraw"]]_vars
    BY WithdrawalSurvives
  <1> QED BY <1>1, SolvencyInvariant, PTL DEF Spec, WithdrawalStaysValid

-----------------------------------------------------------------------------
(* The pool implements the confidential ledger: every step of the pool is a  *)
(* step of the ledger or leaves it alone.                                    *)

FreshDummies == OwnerKeys \cap DummyKeys = {}

\* Why a new note is unspent: nullifiers of owned keys belong to leaves that exist.
NullifiersOfLeaves ==
    \A n \in nullifiers : n.elem.key \in OwnerKeys => n.elem.index + 1 \in DOMAIN leaves

LedgerInv == PoolInv /\ NullifiersOfLeaves

\* The refinement mapping of the notes.
NoteAt(i) == [id |-> i - 1, owner |-> leaves[i].owner, value |-> leaves[i].value]
LedgerNotes == {NoteAt(i) : i \in Live}

\* What a step leaves of the notes that were live, and what it adds.
Survivors == {i \in Live : Field(NullifierOf(leaves[i], i)) \notin nullifiers'}
NewNotes(cs) ==
    {[id |-> Len(leaves) + k - 1, owner |-> cs[k].owner, value |-> cs[k].value] : k \in DOMAIN cs}

-----------------------------------------------------------------------------
LEMMA LeavesType ==
    ASSUME PoolInv
    PROVE  leaves \in Seq(Leaf) /\ Len(leaves) \in Nat /\ DOMAIN leaves = 1 .. Len(leaves)
  BY LenProperties DEF PoolInv, TypeOK

LEMMA NotesAfter ==
    ASSUME PoolInv, NEW cs \in Seq(Note), leaves' = leaves \o cs,
           nullifiers \subseteq nullifiers',
           \A n \in nullifiers' : n.elem.key \in OwnerKeys => n.elem.index + 1 \in DOMAIN leaves
    PROVE  LedgerNotes' = {NoteAt(i) : i \in Survivors} \cup NewNotes(cs)
  <1>1. leaves \in Seq(Leaf) /\ Len(leaves) \in Nat /\ DOMAIN leaves = 1 .. Len(leaves)
    BY LeavesType
  <1>2. Len(cs) \in Nat /\ DOMAIN cs = 1 .. Len(cs) /\ cs \in Seq(Leaf)
    BY LenProperties DEF Leaf
  <1>3. \A k \in DOMAIN cs : cs[k] \in Note
    BY <1>2, ElementOfSeq
  <1>4. /\ leaves' \in Seq(Leaf)
        /\ Len(leaves') = Len(leaves) + Len(cs)
        /\ \A i \in 1 .. Len(leaves) + Len(cs) :
              leaves'[i] = IF i <= Len(leaves) THEN leaves[i] ELSE cs[i - Len(leaves)]
    BY <1>1, <1>2, ConcatProperties
  <1>5. DOMAIN leaves' = 1 .. Len(leaves) + Len(cs)
    BY <1>4, LenProperties
  <1>6. ASSUME NEW i \in DOMAIN leaves
        PROVE  i \in Live' <=> i \in Survivors
    <2>1. i \in DOMAIN leaves' /\ leaves'[i] = leaves[i]
      BY <1>1, <1>2, <1>4, <1>5
    <2> QED BY <2>1 DEF Live, Survivors
  <1>7. ASSUME NEW k \in DOMAIN cs
        PROVE  /\ Len(leaves) + k \in Live'
               /\ leaves'[Len(leaves) + k] = cs[k]
    <2>1. /\ Len(leaves) + k \in DOMAIN leaves'
          /\ leaves'[Len(leaves) + k] = cs[k]
      BY <1>1, <1>2, <1>4, <1>5
    <2> DEFINE nf == NullifierOf(leaves'[Len(leaves) + k], Len(leaves) + k)
    <2>2. nf.key \in OwnerKeys /\ nf.index = Len(leaves) + k - 1
      BY <1>3, <2>1 DEF NullifierOf, Note
    <2>3. Field(nf).elem = nf
      BY DEF Field, Bytes
    <2>4. Field(nf) \notin nullifiers'
      <3> HIDE DEF nf
      <3> QED BY <1>1, <1>2, <2>2, <2>3
    <2> QED BY <1>3, <2>1, <2>4 DEF Live
  <1>8. \A i \in Live' : i \in DOMAIN leaves \/ \E k \in DOMAIN cs : i = Len(leaves) + k
    <2> SUFFICES ASSUME NEW i \in DOMAIN leaves', i \notin DOMAIN leaves
                 PROVE  \E k \in DOMAIN cs : i = Len(leaves) + k
      BY DEF Live
    <2>1. i - Len(leaves) \in DOMAIN cs /\ i = Len(leaves) + (i - Len(leaves))
      BY <1>1, <1>2, <1>5
    <2> QED BY <2>1
  <1>9. ASSUME NEW n \in LedgerNotes'
        PROVE  n \in {NoteAt(i) : i \in Survivors} \cup NewNotes(cs)
    <2>1. PICK i \in Live' : n = NoteAt(i)'
      BY DEF LedgerNotes
    <2>2. CASE i \in DOMAIN leaves
      <3>1. leaves'[i] = leaves[i] /\ i \in Survivors
        BY <1>1, <1>2, <1>4, <1>6, <2>1, <2>2
      <3> QED BY <2>1, <3>1 DEF NoteAt
    <2>3. CASE \E k \in DOMAIN cs : i = Len(leaves) + k
      <3>1. PICK k \in DOMAIN cs : i = Len(leaves) + k
        BY <2>3
      <3>2. n = [id |-> Len(leaves) + k - 1, owner |-> cs[k].owner, value |-> cs[k].value]
        BY <1>7, <2>1, <3>1 DEF NoteAt
      <3> QED BY <3>2 DEF NewNotes
    <2> QED BY <1>8, <2>2, <2>3
  <1>10. ASSUME NEW i \in Survivors
         PROVE  NoteAt(i) \in LedgerNotes'
    <2>1. i \in DOMAIN leaves
      BY DEF Survivors, Live
    <2>2. i \in Live' /\ leaves'[i] = leaves[i]
      BY <1>1, <1>2, <1>4, <1>6, <2>1
    <2> QED BY <2>2 DEF NoteAt, LedgerNotes
  <1>11. ASSUME NEW n \in NewNotes(cs)
         PROVE  n \in LedgerNotes'
    <2>1. PICK k \in DOMAIN cs :
             n = [id |-> Len(leaves) + k - 1, owner |-> cs[k].owner, value |-> cs[k].value]
      BY DEF NewNotes
    <2>2. PICK i : i = Len(leaves) + k
      OBVIOUS
    <2>3. i \in Live' /\ n = NoteAt(i)'
      BY <1>7, <2>1, <2>2 DEF NoteAt
    <2> QED BY <2>3 DEF LedgerNotes
  <1> QED BY <1>9, <1>10, <1>11

\* Notes are told apart by their ids, and a new one has a new id.
LEMMA NoteIds ==
    ASSUME PoolInv
    PROVE  /\ \A i, j \in Live : NoteAt(i) = NoteAt(j) => i = j
           /\ \A n \in LedgerNotes : n.id \in Nat /\ n.id < Len(leaves)
  <1>1. Live \subseteq 1 .. Len(leaves) /\ Len(leaves) \in Nat
    BY LeavesType DEF Live
  <1>2. ASSUME NEW i \in Live, NEW j \in Live, NoteAt(i) = NoteAt(j) PROVE i = j
    <2>1. i - 1 = j - 1
      BY <1>2 DEF NoteAt
    <2> QED BY <1>1, <2>1
  <1>3. ASSUME NEW n \in LedgerNotes PROVE n.id \in Nat /\ n.id < Len(leaves)
    <2>1. PICK i \in Live : n.id = i - 1
      BY DEF LedgerNotes, NoteAt
    <2> QED BY <1>1, <2>1
  <1> QED BY <1>2, <1>3

LEMMA AppendedLength ==
    ASSUME NEW S, NEW s \in Seq(S), NEW c \in Seq(S)
    PROVE  /\ Len(s \o c) = Len(s) + Len(c)
           /\ DOMAIN s \subseteq DOMAIN (s \o c)
  <1>1. s \o c \in Seq(S) /\ Len(s \o c) = Len(s) + Len(c)
    BY ConcatProperties
  <1>2. /\ Len(s) \in Nat /\ Len(c) \in Nat /\ DOMAIN s = 1 .. Len(s)
        /\ DOMAIN (s \o c) = 1 .. Len(s \o c)
    BY <1>1, LenProperties
  <1> QED BY <1>1, <1>2

\* Insertion only adds leaves, so what the nullifiers say of the old ones stays.
LEMMA NullifiersKept ==
    ASSUME NEW cs \in Seq(Leaf), leaves \in Seq(Leaf), leaves' = leaves \o cs,
           \A n \in nullifiers' : n.elem.key \in OwnerKeys => n.elem.index + 1 \in DOMAIN leaves
    PROVE  NullifiersOfLeaves'
  <1>1. DOMAIN leaves \subseteq DOMAIN leaves'
    BY AppendedLength
  <1> QED BY <1>1 DEF NullifiersOfLeaves

-----------------------------------------------------------------------------
(* Steps *)

LEMMA LedgerInit == Init => LedgerInv /\ Confidential!Init
  <1> SUFFICES ASSUME Init PROVE LedgerInv /\ Confidential!Init
    OBVIOUS
  <1>1. leaves = << >> /\ nullifiers = {} /\ Len(leaves) = 0 /\ DOMAIN leaves = {}
    BY DEF Init
  <1>2. balance[Pool] = 0
    BY DEF Init, Accounts
  <1>3. Live = {}
    BY <1>1 DEF Live
  <1>4. PoolInv
    BY PoolInit
  <1> QED BY <1>1, <1>2, <1>3, <1>4 DEF LedgerInv, NullifiersOfLeaves, Confidential!Init

\* A deposit locks its amount.
LEMMA DepositLocks ==
    ASSUME LedgerInv, NEW from \in Users, NEW amount \in Amounts, NEW owner \in OwnerKeys,
           Deposit(from, amount, owner)
    PROVE  NullifiersOfLeaves' /\ Confidential!Lock
  <1> DEFINE note == [owner |-> owner, value |-> amount]
             cs == <<note>>
  <1>1. PoolInv /\ NullifiersOfLeaves
    BY DEF LedgerInv
  <1>2. amount \in Nat /\ amount > 0 /\ note \in Note
    BY PoolAssumption DEF PoolAssumption, Deposit, DepositAmountOK, Note
  <1>3. cs \in Seq(Note) /\ DOMAIN cs = {1} /\ Len(cs) = 1 /\ cs[1] = note
    BY <1>2
  <1>4. leaves' = leaves \o cs /\ nullifiers' = nullifiers
    BY DEF Deposit, InsertCommitments
  <1>5. leaves \in Seq(Leaf) /\ Len(leaves) \in Nat /\ cs \in Seq(Leaf)
    BY <1>1, <1>2, LeavesType DEF Leaf
  <1>6. NullifiersOfLeaves'
    <2> HIDE DEF cs
    <2> QED BY <1>1, <1>4, <1>5, NullifiersKept DEF NullifiersOfLeaves
  <1>7. Survivors = Live
    BY <1>4 DEF Survivors, Live
  <1>8. LedgerNotes' = LedgerNotes \cup NewNotes(cs)
    <2>1. LedgerNotes' = {NoteAt(i) : i \in Survivors} \cup NewNotes(cs)
      <3> HIDE DEF cs
      <3> QED BY <1>1, <1>3, <1>4, NotesAfter DEF NullifiersOfLeaves
    <2> QED BY <1>7, <2>1 DEF LedgerNotes
  <1>9. balance'[Pool] = balance[Pool] + amount /\ balance[Pool] \in Nat
    BY <1>1, BalanceType, PoolAssumption DEF PoolAssumption, Deposit, MoveTokens, Accounts
  <1>10. NewNotes(cs) = {[id |-> Len(leaves), owner |-> owner, value |-> balance'[Pool] - balance[Pool]]}
    <2>1. Len(leaves) + 1 - 1 = Len(leaves) /\ balance'[Pool] - balance[Pool] = amount
      BY <1>2, <1>5, <1>9
    <2> QED BY <1>3, <2>1 DEF NewNotes
  <1>11. Len(leaves') = Len(leaves) + 1
    <2>1. Len(leaves \o cs) = Len(leaves) + Len(cs)
      <3> HIDE DEF cs
      <3> QED BY <1>5, AppendedLength
    <2> QED BY <1>3, <1>4, <2>1
  <1>12. Confidential!Lock
    <2>1. balance'[Pool] > balance[Pool]
      BY <1>2, <1>9
    <2>2. LedgerNotes' = LedgerNotes \cup
             {Confidential!NewNote(Len(leaves), owner, balance'[Pool] - balance[Pool])}
      BY <1>8, <1>10 DEF Confidential!NewNote
    <2> QED BY <1>11, <2>1, <2>2 DEF Confidential!Lock, LedgerNotes, NoteAt
  <1> QED BY <1>6, <1>12

\* A withdrawal releases the note it names, in full.
LEMMA WithdrawReleases ==
    ASSUME LedgerInv, WithdrawCalls
    PROVE  NullifiersOfLeaves' /\ Confidential!Release
  <1>1. PoolInv /\ NullifiersOfLeaves
    BY DEF LedgerInv
  <1>2. PICK root \in knownRoots :
             \E s \in NoteSpends(root), e \in Encodings, to \in Accounts, amount \in Amounts :
                Withdraw(Bytes(s.nf, e), to, amount, root)
    BY DEF WithdrawCalls
  <1>3. PICK s \in NoteSpends(root), e \in Encodings, to \in Accounts, amount \in Amounts :
             Withdraw(Bytes(s.nf, e), to, amount, root)
    BY <1>2
  <1> DEFINE nf == Bytes(s.nf, e)
             inputs == <<Field(root), nf, Field(to), Field(amount)>>
             x == [k \in DOMAIN inputs |-> inputs[k].elem]
  <1>4. /\ amount \in Nat /\ amount > 0
        /\ nf \notin nullifiers
        /\ CanonicalInputs(inputs)
        /\ IF CircuitOf[verifier["Withdraw"]] = "transfer" THEN TransferRelation(x) ELSE WithdrawRelation(x)
        /\ nullifiers' = nullifiers \cup {nf}
        /\ MoveTokens(Pool, to, amount)
        /\ leaves' = leaves
    BY <1>3, PoolAssumption DEF PoolAssumption, Withdraw, WithdrawAccepted, Verify
  <1>5. DOMAIN inputs = 1 .. 4 /\ x = <<root, s.nf, to, amount>> /\ Len(x) = 4
    BY DEF Field, Bytes
  <1>6. nf = Field(s.nf)
    <2>1. inputs[2].enc = 0
      BY <1>4, <1>5 DEF CanonicalInputs
    <2>2. e = 0
      BY <2>1 DEF Bytes
    <2> QED BY <2>2 DEF Field
  <1>7. WithdrawRelation(x)
    BY <1>4, <1>5 DEF TransferRelation
  <1>8. PICK i \in DOMAIN root : /\ root[i] \in Note
                                 /\ NullifierOf(root[i], i) = s.nf
                                 /\ root[i].value = amount
    BY <1>5, <1>7 DEF WithdrawRelation
  <1>9. i \in DOMAIN leaves /\ root[i] = leaves[i] /\ i \in Nat
    BY <1>1, KnownRootLeaf, LeavesType
  <1>10. i \in Live
    BY <1>4, <1>6, <1>8, <1>9 DEF Live
  <1>11. NullifiersOfLeaves'
    <2>1. s.nf.index + 1 = i
      BY <1>8, <1>9 DEF NullifierOf
    <2>2. nf.elem = s.nf
      BY DEF Bytes
    <2> HIDE DEF nf
    <2> QED BY <1>1, <1>4, <1>9, <2>1, <2>2 DEF NullifiersOfLeaves
  <1>12. Live' = Live \ {i}
    <2>1. \A j \in Live' : j \in Live /\ j # i
      BY <1>4, <1>6, <1>8, <1>9 DEF Live
    <2>2. ASSUME NEW j \in Live, j # i PROVE j \in Live'
      <3>1. Live \subseteq Nat
        BY <1>1, LeavesType DEF Live
      <3>2. NullifierOf(leaves[j], j) # NullifierOf(leaves[i], i)
        <4>1. NullifierOf(leaves[j], j).index = j - 1 /\ NullifierOf(leaves[i], i).index = i - 1
          BY DEF NullifierOf
        <4>2. j - 1 # i - 1
          BY <1>9, <2>2, <3>1
        <4> QED BY <4>1, <4>2
      <3>3. Field(NullifierOf(leaves[j], j)) # nf
        <4>1. NullifierOf(leaves[j], j) # s.nf
          BY <1>8, <1>9, <3>2
        <4> QED BY <4>1 DEF Field, Bytes
      <3> HIDE DEF nf
      <3> QED BY <1>4, <2>2, <3>3 DEF Live
    <2> QED BY <2>1, <2>2
  <1>13. LedgerNotes' = LedgerNotes \ {NoteAt(i)}
    <2>1. LedgerNotes' = {NoteAt(j) : j \in Live \ {i}}
      BY <1>4, <1>12 DEF LedgerNotes, NoteAt
    <2> QED BY <1>1, <1>10, <2>1, NoteIds DEF LedgerNotes
  <1>14. NoteAt(i) \in LedgerNotes /\ NoteAt(i).value = amount
    BY <1>8, <1>9, <1>10 DEF LedgerNotes, NoteAt
  <1>15. balance'[Pool] \in {balance[Pool] - amount, balance[Pool]}
    BY <1>1, <1>4, BalanceType DEF MoveTokens
  <1>16. Confidential!Release
    <2>1. PICK n \in LedgerNotes : n = NoteAt(i)
      BY <1>14
    <2>2. /\ n.value > 0 /\ LedgerNotes' = LedgerNotes \ {n}
          /\ balance'[Pool] \in {balance[Pool] - n.value, balance[Pool]}
          /\ UNCHANGED Len(leaves)
      BY <1>4, <1>13, <1>14, <1>15, <2>1
    <2> QED BY <2>2 DEF Confidential!Release, LedgerNotes, NoteAt
  <1> QED BY <1>11, <1>16

\* What an input of a transfer says: a note of the tree and its value, or, with a
\* key that owns no notes, nothing.
LEMMA SpendMeans ==
    ASSUME PoolInv, FreshDummies, NEW root \in knownRoots,
           NEW s \in NoteSpends(root) \cup DummySpends
    PROVE  /\ s.value \in Nat
           /\ \A v \in SpentValues(root, s.nf) : v \in Nat /\ v <= s.value
           /\ s.nf.key \notin OwnerKeys => s.value = 0
           /\ s.nf.key \in OwnerKeys =>
                 /\ s.nf.index \in Nat
                 /\ s.nf.index + 1 \in DOMAIN leaves
                 /\ leaves[s.nf.index + 1] \in Note
                 /\ NullifierOf(leaves[s.nf.index + 1], s.nf.index + 1) = s.nf
                 /\ leaves[s.nf.index + 1].value = s.value
  <1>0. \A r \in knownRoots : r \in Seq(Leaf)
    BY DEF PoolInv, TypeOK
  <1>1. DOMAIN root \subseteq Nat \ {0}
    <2>1. DOMAIN root = 1 .. Len(root) /\ Len(root) \in Nat
      BY <1>0, LenProperties
    <2> QED BY <2>1
  <1>2. CASE s \in NoteSpends(root)
    <2>1. PICK i \in DOMAIN root : /\ root[i] \in Note
                                   /\ s = [nf |-> NullifierOf(root[i], i), value |-> root[i].value]
      BY <1>2 DEF NoteSpends
    <2>2. i \in DOMAIN leaves /\ root[i] = leaves[i] /\ i \in Nat \ {0}
      BY <1>1, KnownRootLeaf
    <2>3. s.nf.index = i - 1 /\ s.nf.index + 1 = i /\ i - 1 \in Nat
      BY <2>1, <2>2 DEF NullifierOf
    <2>4. s.nf.key \in OwnerKeys /\ s.value \in Nat
      BY <2>1 DEF NullifierOf, Note
    <2>5. ASSUME NEW v \in SpentValues(root, s.nf) PROVE v \in Nat /\ v <= s.value
      <3>1. CASE v = 0
        BY <2>4, <3>1
      <3>2. CASE v # 0
        <4>1. PICK j \in DOMAIN root : NullifierOf(root[j], j) = s.nf /\ v = root[j].value
          BY <3>2 DEF SpentValues
        <4>2. j - 1 = s.nf.index /\ j \in Nat
          BY <1>1, <4>1 DEF NullifierOf
        <4>3. j = i
          BY <2>2, <2>3, <4>2
        <4> QED BY <2>1, <2>4, <4>1, <4>3
      <3> QED BY <3>1, <3>2
    <2> QED BY <2>1, <2>2, <2>3, <2>4, <2>5
  <1>3. CASE s \in DummySpends
    <2>1. s.value = 0 /\ s.nf.key \notin OwnerKeys
      BY <1>3 DEF DummySpends, FreshDummies
    <2>2. ASSUME NEW v \in SpentValues(root, s.nf) PROVE v = 0
      <3> SUFFICES ASSUME v # 0 PROVE FALSE
        OBVIOUS
      <3>1. PICK j \in DOMAIN root : root[j] \in Note /\ NullifierOf(root[j], j) = s.nf
        BY DEF SpentValues
      <3> QED BY <2>1, <3>1 DEF NullifierOf, Note
    <2> QED BY <2>1, <2>2
  <1> QED BY <1>2, <1>3

\* The two inputs of a transfer spend disjoint units.
LEMMA SpendsAreDisjoint ==
    ASSUME PoolInv, FreshDummies, NEW root \in knownRoots,
           NEW s \in NoteSpends(root) \cup DummySpends,
           NEW t \in NoteSpends(root) \cup DummySpends, s.nf # t.nf
    PROVE  /\ IsFiniteSet(Units(s.nf.index, s.value) \cup Units(t.nf.index, t.value))
           /\ Cardinality(Units(s.nf.index, s.value) \cup Units(t.nf.index, t.value))
                = s.value + t.value
  <1> DEFINE A == Units(s.nf.index, s.value)
             B == Units(t.nf.index, t.value)
  <1>1. s.value \in Nat /\ t.value \in Nat
    BY SpendMeans
  <1>2. /\ IsFiniteSet(A) /\ Cardinality(A) = s.value
        /\ IsFiniteSet(B) /\ Cardinality(B) = t.value
    BY <1>1, UnitsCount
  <1>3. A \cap B = {}
    <2> SUFFICES ASSUME NEW u \in A, u \in B PROVE FALSE
      OBVIOUS
    <2>1. s.nf.index = t.nf.index /\ s.value # 0 /\ t.value # 0
      BY <1>1 DEF Units
    <2>2. s.nf.key \in OwnerKeys /\ t.nf.key \in OwnerKeys
      BY <2>1, SpendMeans
    <2>3. /\ NullifierOf(leaves[s.nf.index + 1], s.nf.index + 1) = s.nf
          /\ NullifierOf(leaves[t.nf.index + 1], t.nf.index + 1) = t.nf
      BY <2>2, SpendMeans
    <2> QED BY <2>1, <2>3
  <1>4. Cardinality(A \cap B) = 0
    BY <1>3, FS_EmptySet
  <1> HIDE DEF A, B
  <1>5. IsFiniteSet(A \cup B) /\ Cardinality(A \cup B) = s.value + t.value
    <2>1. /\ IsFiniteSet(A \cup B)
          /\ Cardinality(A \cup B) = Cardinality(A) + Cardinality(B) - Cardinality(A \cap B)
      BY <1>2, FS_Union
    <2> QED BY <1>1, <1>2, <1>4, <2>1
  <1> QED BY <1>5 DEF A, B

\* The ledger counts with its own copy of Cardinality.
LEMMA SameCardinality ==
    ASSUME NEW T
    PROVE  Confidential!Cardinality(T) = Cardinality(T)
  BY DEF Confidential!Cardinality, Cardinality

LEMMA AtMostTwo ==
    ASSUME NEW a, NEW b, NEW T \in SUBSET {a, b}
    PROVE  Cardinality(T) <= 2
  <1>1. /\ IsFiniteSet({a}) /\ Cardinality({a}) = 1
        /\ IsFiniteSet({b}) /\ Cardinality({b}) = 1
    BY FS_Singleton
  <1>2. /\ IsFiniteSet({a} \cup {b})
        /\ Cardinality({a} \cup {b}) = 1 + 1 - Cardinality({a} \cap {b})
    BY <1>1, FS_Union
  <1>3. Cardinality({a} \cap {b}) \in Nat
    BY <1>1, FS_Intersection, FS_CardinalityType
  <1>4. T \subseteq {a} \cup {b}
    OBVIOUS
  <1>5. IsFiniteSet(T) /\ Cardinality(T) <= Cardinality({a} \cup {b})
    BY <1>2, <1>4, FS_Subset
  <1>6. Cardinality(T) \in Nat /\ Cardinality({a} \cup {b}) \in Nat
    BY <1>2, <1>5, FS_CardinalityType
  <1>7. Cardinality({a} \cup {b}) <= 2
    BY <1>2, <1>3
  <1> QED BY <1>5, <1>6, <1>7

SpendsInto(s, t, cd) ==
    /\ Field(s.nf) \notin nullifiers /\ Field(t.nf) \notin nullifiers /\ s.nf # t.nf
    /\ nullifiers' = nullifiers \cup {Field(s.nf), Field(t.nf)}
    /\ leaves' = leaves \o <<cd[1], cd[2]>>
    /\ balance' = balance
    /\ cd[1] \in Note /\ cd[2] \in Note
    /\ cd[1].value + cd[2].value = s.value + t.value

\* What a transfer's verified statement comes to: canonical nullifiers, different
\* and unspent, and outputs worth exactly its inputs.
LEMMA TransferMeans ==
    ASSUME PoolInv, FreshDummies, NEW root \in knownRoots,
           NEW s \in NoteSpends(root) \cup DummySpends,
           NEW t \in NoteSpends(root) \cup DummySpends,
           NEW e, NEW f, NEW cd \in OutputPairs(s.value + t.value),
           Transfer(<<Bytes(s.nf, e), Bytes(t.nf, f)>>, <<Field(cd[1]), Field(cd[2])>>, root)
    PROVE  SpendsInto(s, t, cd)
  <1> DEFINE nf1 == Bytes(s.nf, e)
             nf2 == Bytes(t.nf, f)
             nfs == <<nf1, nf2>>
             cms == <<Field(cd[1]), Field(cd[2])>>
             inputs == <<Field(root)>> \o nfs \o cms
             x == [k \in DOMAIN inputs |-> inputs[k].elem]
  <1>1. /\ Fresh(nfs)
        /\ CanonicalInputs(inputs)
        /\ IF CircuitOf[verifier["Transfer"]] = "transfer" THEN TransferRelation(x) ELSE WithdrawRelation(x)
        /\ nullifiers' = nullifiers \cup Range(nfs)
        /\ InsertCommitments([k \in DOMAIN cms |-> cms[k].elem])
        /\ balance' = balance
    BY DEF Transfer, Verify
  <1>2. inputs = <<Field(root), nf1, nf2, Field(cd[1]), Field(cd[2])>>
    BY FiveInputs
  <1>3. x = <<root, s.nf, t.nf, cd[1], cd[2]>> /\ Len(x) = 5
    <2> HIDE DEF inputs
    <2> QED BY <1>2 DEF Field, Bytes
  <1>4. nf1 = Field(s.nf) /\ nf2 = Field(t.nf)
    <2>1. 2 \in DOMAIN inputs /\ 3 \in DOMAIN inputs /\ inputs[2] = nf1 /\ inputs[3] = nf2
      BY <1>2
    <2>2. nf1.enc = 0 /\ nf2.enc = 0
      <3> HIDE DEF inputs
      <3> QED BY <1>1, <2>1 DEF CanonicalInputs
    <2> QED BY <2>2 DEF Field, Bytes
  <1>5. nf1 \notin nullifiers /\ nf2 \notin nullifiers /\ nf1 # nf2
    BY <1>1 DEF Fresh
  <1>6. Range(nfs) = {Field(s.nf), Field(t.nf)}
    BY <1>4 DEF Range
  <1>7. leaves' = leaves \o <<cd[1], cd[2]>>
    <2>1. [k \in DOMAIN cms |-> cms[k].elem] = <<cd[1], cd[2]>>
      BY DEF Field, Bytes
    <2> QED BY <1>1, <2>1 DEF InsertCommitments
  <1>8. TransferRelation(x)
    <2> HIDE DEF x
    <2> QED BY <1>1, <1>3 DEF WithdrawRelation
  <1>9. PICK v \in SpentValues(root, s.nf), w \in SpentValues(root, t.nf) :
             v + w = cd[1].value + cd[2].value
    <2> HIDE DEF x
    <2> QED BY <1>3, <1>8 DEF TransferRelation
  <1>10. v \in Nat /\ v <= s.value /\ w \in Nat /\ w <= t.value /\ s.value \in Nat /\ t.value \in Nat
    BY SpendMeans
  <1>11. /\ cd[1].value + cd[2].value >= s.value + t.value
         /\ cd[1] \in Note /\ cd[2] \in Note
    BY PoolAssumption DEF PoolAssumption, OutputPairs, Outputs, Note
  <1>12. cd[1].value + cd[2].value = s.value + t.value
    BY <1>9, <1>10, <1>11 DEF Note
  <1>13. s.nf # t.nf
    BY <1>4, <1>5
  <1> QED BY <1>1, <1>4, <1>5, <1>6, <1>7, <1>11, <1>12, <1>13 DEF SpendsInto

\* A transfer reshapes the notes it spends into two of the same value.
LEMMA TransferReshapes ==
    ASSUME LedgerInv, FreshDummies, NEW root \in knownRoots,
           NEW s \in NoteSpends(root) \cup DummySpends,
           NEW t \in NoteSpends(root) \cup DummySpends,
           NEW cd, SpendsInto(s, t, cd)
    PROVE  NullifiersOfLeaves' /\ Confidential!Reshape
  <1> DEFINE cs == <<cd[1], cd[2]>>
             note(q) == [id |-> q.nf.index, owner |-> q.nf.key, value |-> q.value]
             n == Len(leaves)
             a == Confidential!NewNote(n, cd[1].owner, cd[1].value)
             b == Confidential!NewNote(n + 1, cd[2].owner, cd[2].value)
             removed == LedgerNotes \ LedgerNotes'
  <1>1. PoolInv /\ NullifiersOfLeaves
    BY DEF LedgerInv
  <1>2. /\ Field(s.nf) \notin nullifiers /\ Field(t.nf) \notin nullifiers /\ s.nf # t.nf
        /\ nullifiers' = nullifiers \cup {Field(s.nf), Field(t.nf)}
        /\ leaves' = leaves \o cs
        /\ balance' = balance
        /\ cd[1] \in Note /\ cd[2] \in Note
        /\ cd[1].value + cd[2].value = s.value + t.value
    BY DEF SpendsInto
  <1>3. cs \in Seq(Note) /\ cs \in Seq(Leaf) /\ Len(cs) = 2 /\ DOMAIN cs = {1, 2}
    BY <1>2 DEF Leaf
  <1>4. leaves \in Seq(Leaf) /\ n \in Nat /\ DOMAIN leaves = 1 .. n
    BY <1>1, LeavesType
  <1>5. /\ s.value \in Nat /\ t.value \in Nat
        /\ \A q \in {s, t} :
              /\ q.nf.key \notin OwnerKeys => q.value = 0
              /\ q.nf.key \in OwnerKeys =>
                    /\ q.nf.index \in Nat
                    /\ q.nf.index + 1 \in DOMAIN leaves
                    /\ leaves[q.nf.index + 1] \in Note
                    /\ NullifierOf(leaves[q.nf.index + 1], q.nf.index + 1) = q.nf
                    /\ leaves[q.nf.index + 1].value = q.value
    BY <1>1, SpendMeans
  <1>6. \A m \in nullifiers' : m.elem.key \in OwnerKeys => m.elem.index + 1 \in DOMAIN leaves
    <2>1. Field(s.nf).elem = s.nf /\ Field(t.nf).elem = t.nf
      BY DEF Field, Bytes
    <2> QED BY <1>1, <1>2, <1>5, <2>1 DEF NullifiersOfLeaves
  <1>7. NullifiersOfLeaves'
    <2> HIDE DEF cs
    <2> QED BY <1>2, <1>3, <1>4, <1>6, NullifiersKept
  <1>8. LedgerNotes' = {NoteAt(i) : i \in Survivors} \cup {a, b}
    <2>1. LedgerNotes' = {NoteAt(i) : i \in Survivors} \cup NewNotes(cs)
      <3> HIDE DEF cs
      <3> QED BY <1>1, <1>2, <1>3, <1>6, NotesAfter
    <2>2. NewNotes(cs) = {a, b}
      <3>1. n + 1 - 1 = n /\ n + 2 - 1 = n + 1
        BY <1>4
      <3>2. NewNotes(cs) = {[id |-> n + 1 - 1, owner |-> cs[1].owner, value |-> cs[1].value],
                            [id |-> n + 2 - 1, owner |-> cs[2].owner, value |-> cs[2].value]}
        <4> HIDE DEF cs
        <4> QED BY <1>3 DEF NewNotes
      <3> QED BY <3>1, <3>2 DEF Confidential!NewNote
    <2> QED BY <2>1, <2>2
  <1>9. a.id = n /\ b.id = n + 1 /\ a.owner \in OwnerKeys /\ b.owner \in OwnerKeys
        /\ a.value = cd[1].value /\ b.value = cd[2].value
    BY <1>2 DEF Confidential!NewNote, Note
  <1> HIDE DEF a, b
  <1>10. LedgerNotes' \ LedgerNotes = {a, b}
    <2>1. a \notin LedgerNotes /\ b \notin LedgerNotes
      BY <1>1, <1>4, <1>9, NoteIds
    <2>2. {NoteAt(i) : i \in Survivors} \subseteq LedgerNotes
      BY DEF Survivors, LedgerNotes
    <2> QED BY <1>8, <2>1, <2>2
  \* A removed note is one of the two spent.
  <1>11. ASSUME NEW m \in removed
         PROVE  \E q \in {s, t} : m = note(q)
    <2>1. PICK i \in Live : m = NoteAt(i) /\ i \notin Survivors
      BY <1>8 DEF LedgerNotes
    <2>2. i \in DOMAIN leaves /\ leaves[i] \in Note
      BY DEF Live
    <2>3. PICK q \in {s, t} : Field(NullifierOf(leaves[i], i)) = Field(q.nf)
      BY <1>2, <2>1 DEF Survivors, Live
    <2>4. q.nf = NullifierOf(leaves[i], i)
      BY <2>3 DEF Field, Bytes
    <2>5. q.nf.key = leaves[i].owner /\ q.nf.index = i - 1 /\ q.nf.key \in OwnerKeys
      BY <2>2, <2>4 DEF NullifierOf, Note
    <2>6. q.nf.index + 1 = i
      BY <1>4, <2>2, <2>5
    <2>7. leaves[i].value = q.value
      BY <1>5, <2>5, <2>6
    <2> QED BY <2>1, <2>5, <2>7 DEF NoteAt
  \* Of the two, whichever is worth something was live and is removed.
  <1>12. ASSUME NEW q \in {s, t}, q.value # 0
         PROVE  note(q) \in removed
    <2> DEFINE i == q.nf.index + 1
    <2>1. /\ q.nf.index \in Nat /\ i \in DOMAIN leaves /\ leaves[i] \in Note
          /\ NullifierOf(leaves[i], i) = q.nf /\ leaves[i].value = q.value
      BY <1>5, <1>12
    <2>2. i \in Live /\ i \notin Survivors
      BY <1>2, <2>1 DEF Live, Survivors
    <2>3. note(q) = NoteAt(i)
      <3>1. i - 1 = q.nf.index /\ leaves[i].owner = q.nf.key
        BY <2>1 DEF NullifierOf
      <3> QED BY <2>1, <3>1 DEF NoteAt
    <2> HIDE DEF i
    <2>4. NoteAt(i) \in LedgerNotes
      BY <2>2 DEF LedgerNotes
    <2>5. NoteAt(i) \notin {NoteAt(j) : j \in Survivors}
      BY <1>1, <2>2, NoteIds DEF Survivors
    <2>6. NoteAt(i) \notin {a, b}
      BY <1>10, <2>4
    <2> QED BY <1>8, <2>3, <2>4, <2>5, <2>6
  <1>13. UNION {{m.id} \X (1 .. m.value) : m \in removed}
           = Units(s.nf.index, s.value) \cup Units(t.nf.index, t.value)
    <2>1. ASSUME NEW m \in removed, NEW u \in {m.id} \X (1 .. m.value)
          PROVE  u \in Units(s.nf.index, s.value) \cup Units(t.nf.index, t.value)
      BY <1>11, <2>1 DEF Units
    <2>2. ASSUME NEW q \in {s, t}, NEW u \in Units(q.nf.index, q.value)
          PROVE  u \in UNION {{m.id} \X (1 .. m.value) : m \in removed}
      <3>1. q.value # 0
        BY <1>5, <2>2 DEF Units
      <3>2. note(q) \in removed
        BY <1>12, <3>1
      <3>3. u \in {note(q).id} \X (1 .. note(q).value)
        BY DEF Units
      <3> HIDE DEF note, removed
      <3> QED BY <3>2, <3>3
    <2> HIDE DEF removed
    <2> QED BY <2>1, <2>2
  <1>14. Confidential!Value(removed) = a.value + b.value
    <2>1. Cardinality(Units(s.nf.index, s.value) \cup Units(t.nf.index, t.value)) = s.value + t.value
      BY <1>1, <1>2, SpendsAreDisjoint
    <2> HIDE DEF removed
    <2>2. Confidential!Value(removed) = Cardinality(UNION {{m.id} \X (1 .. m.value) : m \in removed})
      BY SameCardinality DEF Confidential!Value
    <2> QED BY <1>2, <1>9, <1>13, <2>1, <2>2
  <1>15. removed \subseteq LedgerNotes /\ Cardinality(removed) <= 2
    <2>1. removed \subseteq {note(s), note(t)}
      <3> HIDE DEF removed
      <3> QED BY <1>11
    <2> HIDE DEF removed, note
    <2>2. Cardinality(removed) <= 2
      BY <2>1, AtMostTwo
    <2> QED BY <2>2 DEF removed
  <1>16. Len(leaves') = n + 2
    <2>1. Len(leaves \o cs) = Len(leaves) + Len(cs)
      <3> HIDE DEF cs
      <3> QED BY <1>3, <1>4, AppendedLength
    <2> QED BY <1>2, <1>3, <2>1
  <1>17. Confidential!Reshape
    <2>1. a \in LedgerNotes' /\ b \in LedgerNotes'
      BY <1>8
    <2>2. LedgerNotes \ LedgerNotes' \in
             {ns \in SUBSET LedgerNotes : Confidential!Cardinality(ns) <= 2}
      BY <1>15, SameCardinality
    <2>3. Confidential!Value(LedgerNotes \ LedgerNotes') = a.value + b.value
      BY <1>14
    <2>4. \E c, d \in LedgerNotes' : /\ c.id = n /\ d.id = n + 1
                                      /\ c.owner \in OwnerKeys /\ d.owner \in OwnerKeys
                                      /\ LedgerNotes' \ LedgerNotes = {c, d}
                                      /\ Confidential!Value(LedgerNotes \ LedgerNotes') = c.value + d.value
      BY <1>9, <1>10, <2>1, <2>3
    <2>5. UNCHANGED balance[Pool]
      BY <1>2
    <2> QED BY <1>16, <2>2, <2>4, <2>5 DEF Confidential!Reshape, LedgerNotes, NoteAt
  <1> QED BY <1>7, <1>17

LEMMA TransferCallsReshape ==
    ASSUME TwoByTwo, FreshDummies, LedgerInv, TransferCalls
    PROVE  NullifiersOfLeaves' /\ Confidential!Reshape
  <1>1. PICK shape \in Shapes, root \in knownRoots :
             \E s, t \in NoteSpends(root) \cup DummySpends, e, f \in Encodings :
             \E cd \in OutputPairs(s.value + t.value) :
               LET x == <<Bytes(s.nf, e), Bytes(t.nf, f), Field(cd[1]), Field(cd[2])>>
               IN  /\ shape[1] + shape[2] = Len(x)
                   /\ Transfer(SubSeq(x, 1, shape[1]), SubSeq(x, shape[1] + 1, Len(x)), root)
    BY DEF TransferCalls
  <1>2. PICK s \in NoteSpends(root) \cup DummySpends, t \in NoteSpends(root) \cup DummySpends,
             e \in Encodings, f \in Encodings :
             \E cd \in OutputPairs(s.value + t.value) :
               LET x == <<Bytes(s.nf, e), Bytes(t.nf, f), Field(cd[1]), Field(cd[2])>>
               IN  /\ shape[1] + shape[2] = Len(x)
                   /\ Transfer(SubSeq(x, 1, shape[1]), SubSeq(x, shape[1] + 1, Len(x)), root)
    BY <1>1
  <1>3. PICK cd \in OutputPairs(s.value + t.value) :
               LET x == <<Bytes(s.nf, e), Bytes(t.nf, f), Field(cd[1]), Field(cd[2])>>
               IN  /\ shape[1] + shape[2] = Len(x)
                   /\ Transfer(SubSeq(x, 1, shape[1]), SubSeq(x, shape[1] + 1, Len(x)), root)
    BY <1>2
  <1> DEFINE x == <<Bytes(s.nf, e), Bytes(t.nf, f), Field(cd[1]), Field(cd[2])>>
  <1>4. shape[1] = 2 /\ shape[1] + 1 = 3 /\ Len(x) = 4
    BY DEF TwoByTwo
  <1>5. Transfer(SubSeq(x, 1, 2), SubSeq(x, 3, 4), root)
    <2>1. Transfer(SubSeq(x, 1, shape[1]), SubSeq(x, shape[1] + 1, Len(x)), root)
      BY <1>3
    <2> HIDE DEF x
    <2> QED BY <1>4, <2>1
  <1>6. Transfer(<<Bytes(s.nf, e), Bytes(t.nf, f)>>, <<Field(cd[1]), Field(cd[2])>>, root)
    <2>1. /\ SubSeq(x, 1, 2) = <<Bytes(s.nf, e), Bytes(t.nf, f)>>
          /\ SubSeq(x, 3, 4) = <<Field(cd[1]), Field(cd[2])>>
      BY HalvesOfFour
    <2> HIDE DEF x
    <2> QED BY <1>5, <2>1
  <1>7. SpendsInto(s, t, cd)
    BY <1>6, TransferMeans DEF LedgerInv
  <1> QED BY <1>7, TransferReshapes

LEMMA LedgerStep ==
    TwoByTwo /\ FreshDummies /\ LedgerInv /\ [Next]_vars
       => LedgerInv' /\ [Confidential!Next]_(Confidential!vars)
  <1> SUFFICES ASSUME TwoByTwo, FreshDummies, LedgerInv, [Next]_vars
               PROVE  NullifiersOfLeaves' /\ [Confidential!Next]_(Confidential!vars)
    BY PoolStep DEF LedgerInv
  <1>1. PoolInv /\ NullifiersOfLeaves
    BY DEF LedgerInv
  <1>2. ASSUME NEW from \in Users, NEW amount \in Amounts, NEW owner \in OwnerKeys,
               Deposit(from, amount, owner)
        PROVE  NullifiersOfLeaves' /\ Confidential!Next
    BY <1>2, DepositLocks DEF Confidential!Next
  <1>3. CASE TransferCalls
    BY <1>3, TransferCallsReshape DEF Confidential!Next
  <1>4. CASE WithdrawCalls
    BY <1>4, WithdrawReleases DEF Confidential!Next
  <1>5. ASSUME NEW from \in Users, NEW amount \in Amounts, TokenTransferToPool(from, amount)
        PROVE  NullifiersOfLeaves' /\ Confidential!Next
    <2>1. amount \in Int /\ amount > 0 /\ from # Pool /\ from \in Accounts
      BY <1>5, PoolAssumption DEF PoolAssumption, TokenTransferToPool, Accounts
    <2>2. balance'[Pool] > balance[Pool] /\ UNCHANGED <<leaves, nullifiers>>
      BY <1>1, <1>5, <2>1, BalanceType DEF TokenTransferToPool, MoveTokens
    <2>3. Live' = Live
      BY <2>2 DEF Live
    <2>4. Confidential!Donate
      BY <2>2, <2>3 DEF Confidential!Donate
    <2> QED BY <1>1, <2>2, <2>4 DEF NullifiersOfLeaves, Confidential!Next
  <1>6. CASE UNCHANGED <<balance, leaves, nullifiers>>
    <2>1. Live' = Live
      BY <1>6 DEF Live
    <2>2. UNCHANGED Confidential!vars
      BY <1>6, <2>1 DEF Confidential!vars
    <2> QED BY <1>1, <1>6, <2>2 DEF NullifiersOfLeaves
  <1>7. CASE LedgerCall
    BY <1>2, <1>3, <1>4, <1>5, <1>7 DEF LedgerCall
  <1>8. CASE GovCall /\ UNCHANGED ledgerVars
    BY <1>6, <1>8 DEF ledgerVars
  <1>9. CASE Outside
    BY <1>6, <1>9 DEF Outside
  <1>10. CASE UNCHANGED vars
    BY <1>6, <1>10 DEF vars, ledgerVars
  <1> QED BY <1>7, <1>8, <1>9, <1>10 DEF Next

\* Trees, roots, nullifiers, encodings and proofs come to a set of notes: every
\* behaviour of the pool, whatever its verifiers, is one of the confidential
\* ledger.
THEOREM PoolImplementsLedger ==
    ASSUME TwoByTwo, FreshDummies
    PROVE  Spec => ImplementsLedger
  <1>1. LedgerInv /\ [Next]_vars => LedgerInv' /\ [Confidential!Next]_(Confidential!vars)
    BY LedgerStep
  <1>2. Init => LedgerInv /\ Confidential!Init
    BY LedgerInit
  <1> QED BY <1>1, <1>2, PTL DEF Spec, ImplementsLedger, Confidential!Spec
=============================================================================
