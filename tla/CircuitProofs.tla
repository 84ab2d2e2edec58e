----------------------------- MODULE CircuitProofs -----------------------------
(***************************************************************************)
(* The circuits over the tree, for any depth, width of values, field that  *)
(* is large enough, keys and notes: bits recompose to the integers they    *)
(* denote, the membership gadget accepts exactly the inserted commitments  *)
(* at their own indices, and each circuit has a witness exactly when what  *)
(* the pool assumes of its proofs is true.                                 *)
(***************************************************************************)
EXTENDS Circuits, CommitmentTreeProofs

-----------------------------------------------------------------------------
(* Numbers and their bits *)

LEMMA TwoToDef ==
    /\ TwoTo[0] = 1
    /\ \A k \in 0 .. ValueBits + Depth - 1 : TwoTo[k + 1] = 2 * TwoTo[k]
    /\ \A k \in 0 .. ValueBits + Depth : TwoTo[k] \in Nat \ {0}
  <1> DEFINE N == ValueBits + Depth
             IsRec(f, n) == f = [k \in 0 .. n |-> IF k = 0 THEN 1 ELSE 2 * f[k - 1]]
             T == {n \in Nat : \E f : IsRec(f, n)}
  <1>0. N \in Nat
    BY TreeAssumption, CircuitAssumption
  <1>1. 0 \in T
    <2>1. IsRec([k \in 0 .. 0 |-> 1], 0)
      OBVIOUS
    <2> QED BY <2>1
  <1>2. ASSUME NEW n \in 0 .. N - 1, n \in T PROVE n + 1 \in T
    <2>1. PICK f : IsRec(f, n)
      BY <1>2
    <2> DEFINE g == [k \in 0 .. n + 1 |-> IF k = n + 1 THEN 2 * f[n] ELSE f[k]]
    <2>2. IsRec(g, n + 1)
      BY <2>1
    <2> HIDE DEF g, IsRec
    <2> QED BY <2>2
  <1>3. N \in T
    <2> HIDE DEF T
    <2> QED BY <1>0, <1>1, <1>2, Induction
  <1>4. IsRec(TwoTo, N)
    BY <1>3 DEF TwoTo
  <1>5. TwoTo[0] = 1 /\ \A k \in 0 .. N - 1 : TwoTo[k + 1] = 2 * TwoTo[k]
    <2> HIDE DEF N
    <2> QED BY <1>0, <1>4
  <1> DEFINE P == {k \in 0 .. N : TwoTo[k] \in Nat \ {0}}
  <1>6. 0 .. N \subseteq P
    <2> HIDE DEF N
    <2>1. 0 \in P
      BY <1>0, <1>5
    <2>2. \A n \in 0 .. N - 1 : n \in P => n + 1 \in P
      BY <1>0, <1>5
    <2> HIDE DEF P
    <2> QED BY <1>0, <2>1, <2>2, Induction
  <1>7. \A k \in 0 .. N : TwoTo[k] \in Nat \ {0}
    <2> HIDE DEF N
    <2> QED BY <1>6
  <1>8. (ValueBits + Depth) - 1 = ValueBits + Depth - 1
    BY TreeAssumption, CircuitAssumption
  <1> QED BY <1>5, <1>7, <1>8

\* The tree counts its leaves in the same powers.
LEMMA SamePowers == \A k \in 0 .. Depth : TwoTo[k] = Pow2[k]
  <1> DEFINE T == {k \in 0 .. Depth : TwoTo[k] = Pow2[k]}
  <1>1. 0 \in T
    BY TwoToDef, Pow2Def, TreeAssumption
  <1>2. ASSUME NEW k \in 0 .. Depth - 1, k \in T PROVE k + 1 \in T
    <2>1. k \in 0 .. ValueBits + Depth - 1 /\ k + 1 \in 0 .. Depth
      BY TreeAssumption, CircuitAssumption
    <2> QED BY <1>2, <2>1, TwoToDef, Pow2Def
  <1>3. 0 .. Depth \subseteq T
    <2> HIDE DEF T
    <2> QED BY <1>1, <1>2, Induction, TreeAssumption
  <1> QED BY <1>3

\* The widths whose numbers all are different field elements.
Widths == {n \in 0 .. ValueBits + Depth : TwoTo[n] <= FieldOrder}

LEMMA WidthsFit ==
    /\ ValueBits \in Widths /\ Depth \in Widths
    /\ \A n \in Nat : n + 1 \in Widths => n \in Widths
    /\ FieldOrder \in Nat \ {0}
  <1>1. /\ ValueBits \in 0 .. ValueBits + Depth - 1 /\ Depth \in 0 .. ValueBits + Depth
        /\ ValueBits \in 0 .. ValueBits + Depth /\ ValueBits + 1 \in 0 .. ValueBits + Depth
        /\ FieldOrder \in Nat
    BY TreeAssumption, CircuitAssumption
  <1>2. ASSUME NEW n \in Nat, n + 1 \in Widths PROVE n \in Widths
    <2>1. n \in 0 .. ValueBits + Depth - 1 /\ n \in 0 .. ValueBits + Depth
      BY <1>2, TreeAssumption, CircuitAssumption DEF Widths
    <2>2. TwoTo[n + 1] = 2 * TwoTo[n] /\ TwoTo[n] \in Nat \ {0}
      BY <2>1, TwoToDef
    <2> QED BY <1>1, <1>2, <2>1, <2>2 DEF Widths
  <1>3. ValueBits + 1 \in Widths /\ Depth \in Widths
    BY <1>1, CircuitAssumption DEF Widths
  <1>4. FieldOrder # 0
    <2>1. TwoTo[Depth] \in Nat \ {0} /\ TwoTo[Depth] <= FieldOrder
      BY <1>1, <1>3, TwoToDef DEF Widths
    <2> QED BY <1>1, <2>1
  <1> QED BY <1>1, <1>2, <1>3, <1>4, CircuitAssumption

LEMMA Shallow ==
    ASSUME NEW k \in 0 .. Depth - 1
    PROVE  /\ k + 1 \in Widths
           /\ k \in 0 .. ValueBits + Depth - 1 /\ k \in 0 .. ValueBits + Depth
  <1> DEFINE T == {n \in Nat : n \in 0 .. Depth => Depth - n \in Widths}
  <1>1. 0 \in T
    BY WidthsFit, TreeAssumption
  <1>2. ASSUME NEW n \in 0 .. Depth - 1, n \in T PROVE n + 1 \in T
    <2>1. Depth - (n + 1) \in Nat /\ (Depth - (n + 1)) + 1 = Depth - n /\ Depth - n \in Widths
      BY <1>2, TreeAssumption
    <2> QED BY <2>1, WidthsFit
  <1>3. 0 .. Depth \subseteq T
    <2> HIDE DEF T
    <2> QED BY <1>1, <1>2, Induction, TreeAssumption
  <1>4. Depth - (k + 1) \in 0 .. Depth /\ Depth - (Depth - (k + 1)) = k + 1
    BY TreeAssumption
  <1>5. k + 1 \in Widths
    BY <1>3, <1>4
  <1> QED BY <1>5, TreeAssumption, CircuitAssumption

\* What a list of bits recomposes to.
Value(bits) == Recomposed(bits)[Len(bits)]

LEMMA BitsLen ==
    ASSUME NEW n \in Nat, NEW bits \in Bits(n)
    PROVE  Len(bits) = n /\ bits = [m \in 1 .. n |-> bits[m]]
  <1>1. bits = [m \in 1 .. n |-> bits[m]]
    BY DEF Bits
  <1> QED BY <1>1, Longer

LEMMA RecomposedDef ==
    ASSUME NEW n \in Nat, NEW bits \in Bits(n)
    PROVE  /\ Recomposed(bits)[0] = 0
           /\ \A k \in 0 .. n - 1 :
                 Recomposed(bits)[k + 1]
                   = (Recomposed(bits)[k] + bits[k + 1] * TwoTo[k]) % FieldOrder
  <1> DEFINE Step(x, k) == (x + bits[k] * TwoTo[k - 1]) % FieldOrder
             IsRec(f, m) == f = [k \in 0 .. m |-> IF k = 0 THEN 0 ELSE Step(f[k - 1], k)]
             T == {m \in Nat : \E f : IsRec(f, m)}
  <1>0. Len(bits) = n
    BY BitsLen
  <1>1. 0 \in T
    <2>1. IsRec([k \in 0 .. 0 |-> 0], 0)
      OBVIOUS
    <2> QED BY <2>1
  <1>2. ASSUME NEW m \in 0 .. n - 1, m \in T PROVE m + 1 \in T
    <2> HIDE DEF Step
    <2>1. PICK f : IsRec(f, m)
      BY <1>2
    <2> DEFINE g == [k \in 0 .. m + 1 |-> IF k = m + 1 THEN Step(f[m], m + 1) ELSE f[k]]
    <2>2. IsRec(g, m + 1)
      BY <2>1
    <2> HIDE DEF g, IsRec
    <2> QED BY <2>2
  <1>3. n \in T
    <2> HIDE DEF T
    <2> QED BY <1>1, <1>2, Induction
  <1>4. IsRec(Recomposed(bits), n)
    BY <1>0, <1>3 DEF Recomposed
  <1>5. /\ Recomposed(bits)[0] = 0
        /\ \A k \in 0 .. n - 1 : Recomposed(bits)[k + 1] = Step(Recomposed(bits)[k], k + 1)
    <2> HIDE DEF Step
    <2> QED BY <1>4
  <1>6. \A k \in 0 .. n - 1 : (k + 1) - 1 = k
    OBVIOUS
  <1> QED BY <1>5, <1>6

\* Lists of bits grow at the most significant end.
LEMMA NoBits == Bits(0) = {<< >>} /\ Value(<< >>) = 0
  <1>1. << >> \in Bits(0) /\ \A b \in Bits(0) : b = << >>
    BY DEF Bits
  <1>2. Recomposed(<< >>)[0] = 0
    BY <1>1, RecomposedDef
  <1> QED BY <1>1, <1>2 DEF Value

LEMMA MoreBits ==
    ASSUME NEW n \in Nat, NEW b \in Bits(n), NEW bit \in {0, 1}
    PROVE  /\ Append(b, bit) \in Bits(n + 1)
           /\ Value(Append(b, bit)) = (Value(b) + bit * TwoTo[n]) % FieldOrder
  <1> DEFINE c == Append(b, bit)
  <1>1. /\ c = [m \in 1 .. n + 1 |-> c[m]] /\ c[n + 1] = bit
        /\ \A m \in 1 .. n : c[m] = b[m]
    BY BitsLen, Longer
  <1>2. c \in Bits(n + 1)
    <2>1. \A m \in 1 .. n : b[m] \in {0, 1}
      BY DEF Bits
    <2> HIDE DEF c
    <2>2. \A m \in 1 .. n + 1 : m \in 1 .. n \/ m = n + 1
      OBVIOUS
    <2>3. \A m \in 1 .. n + 1 : c[m] \in {0, 1}
      BY <1>1, <2>1, <2>2
    <2> QED BY <1>1, <2>3 DEF Bits
  <1> HIDE DEF c
  <1> DEFINE T == {k \in 0 .. n : Recomposed(c)[k] = Recomposed(b)[k]}
  <1>3. 0 \in T
    BY <1>2, RecomposedDef
  <1>4. ASSUME NEW k \in 0 .. n - 1, k \in T PROVE k + 1 \in T
    <2>1. k + 1 \in 0 .. n /\ k + 1 \in 1 .. n /\ k \in 0 .. (n + 1) - 1
      OBVIOUS
    <2>2. Recomposed(c)[k + 1] = (Recomposed(c)[k] + c[k + 1] * TwoTo[k]) % FieldOrder
      BY <1>2, <2>1, RecomposedDef
    <2>3. Recomposed(b)[k + 1] = (Recomposed(b)[k] + b[k + 1] * TwoTo[k]) % FieldOrder
      BY RecomposedDef
    <2> QED BY <1>1, <1>4, <2>1, <2>2, <2>3
  <1>5. n \in T
    <2> HIDE DEF T
    <2> QED BY <1>3, <1>4, Induction
  <1>6. Recomposed(c)[n + 1] = (Recomposed(c)[n] + c[n + 1] * TwoTo[n]) % FieldOrder
    <2>1. n \in 0 .. (n + 1) - 1
      OBVIOUS
    <2> QED BY <1>2, <2>1, RecomposedDef
  <1>7. Len(b) = n /\ Len(c) = n + 1
    BY <1>2, BitsLen
  <1> QED BY <1>1, <1>2, <1>5, <1>6, <1>7 DEF Value, c

LEMMA TopBit ==
    ASSUME NEW n \in Nat, NEW bits \in Bits(n + 1)
    PROVE  \E b \in Bits(n), bit \in {0, 1} : bits = Append(b, bit)
  <1> DEFINE b == [m \in 1 .. n |-> bits[m]]
             c == Append(b, bits[n + 1])
  <1>1. bits = [m \in 1 .. n + 1 |-> bits[m]] /\ \A m \in 1 .. n + 1 : bits[m] \in {0, 1}
    BY DEF Bits
  <1>2. b \in Bits(n) /\ bits[n + 1] \in {0, 1} /\ b = [m \in 1 .. n |-> b[m]]
    BY <1>1 DEF Bits
  <1>3. /\ c = [m \in 1 .. n + 1 |-> c[m]] /\ c[n + 1] = bits[n + 1]
        /\ \A m \in 1 .. n : c[m] = b[m]
    <2> HIDE DEF b
    <2> QED BY <1>2, Longer
  <1>4. \A m \in 1 .. n + 1 : c[m] = bits[m]
    <2>1. \A m \in 1 .. n : c[m] = bits[m]
      BY <1>3
    <2> HIDE DEF c, b
    <2> QED BY <1>3, <2>1
  <1>5. c = bits
    <2> HIDE DEF c
    <2> QED BY <1>1, <1>3, <1>4
  <1> QED BY <1>2, <1>5

\* Bits of a width that fits the field recompose without wrapping around.
LEMMA NoWrap ==
    ASSUME NEW n \in Widths
    PROVE  /\ \A b \in Bits(n) : Value(b) \in 0 .. TwoTo[n] - 1
           /\ \A v \in 0 .. TwoTo[n] - 1 : \E b \in Bits(n) : Value(b) = v
  <1> DEFINE Good(k) == /\ \A b \in Bits(k) : Value(b) \in 0 .. TwoTo[k] - 1
                        /\ \A v \in 0 .. TwoTo[k] - 1 : \E b \in Bits(k) : Value(b) = v
             T == {k \in Nat : k \in Widths => Good(k)}
  <1>0. n \in Nat
    BY DEF Widths
  <1>1. 0 \in T
    BY NoBits, TwoToDef
  <1>2. ASSUME NEW k \in 0 .. n - 1, k \in T PROVE k + 1 \in T
    <2> SUFFICES ASSUME k + 1 \in Widths PROVE Good(k + 1)
      BY <1>0
    <2>1. k \in Nat /\ k \in Widths /\ k \in 0 .. ValueBits + Depth - 1
      BY <1>0, WidthsFit, CircuitAssumption, TreeAssumption DEF Widths
    <2>2. /\ TwoTo[k + 1] = 2 * TwoTo[k] /\ TwoTo[k] \in Nat \ {0}
          /\ TwoTo[k + 1] <= FieldOrder /\ FieldOrder \in Nat
      BY <2>1, TwoToDef, WidthsFit DEF Widths
    <2>3. Good(k)
      BY <1>2, <2>1
    <2>4. ASSUME NEW b \in Bits(k), NEW bit \in {0, 1}
          PROVE  /\ Value(Append(b, bit)) = Value(b) + bit * TwoTo[k]
                 /\ Value(Append(b, bit)) \in 0 .. TwoTo[k + 1] - 1
                 /\ Append(b, bit) \in Bits(k + 1)
      <3>1. Value(Append(b, bit)) = (Value(b) + bit * TwoTo[k]) % FieldOrder
            /\ Append(b, bit) \in Bits(k + 1)
        BY <2>1, MoreBits
      <3>2. Value(b) \in 0 .. TwoTo[k] - 1
        BY <2>3
      <3>3. Value(b) + bit * TwoTo[k] \in 0 .. TwoTo[k + 1] - 1
        BY <2>2, <3>2
      <3>4. (Value(b) + bit * TwoTo[k]) % FieldOrder = Value(b) + bit * TwoTo[k]
        <4> DEFINE sum == Value(b) + bit * TwoTo[k]
        <4>1. sum \in 0 .. FieldOrder - 1
          BY <2>2, <3>3
        <4> HIDE DEF sum
        <4>2. sum % FieldOrder = sum
          BY <2>2, <4>1
        <4> QED BY <4>2 DEF sum
      <3> QED BY <3>1, <3>3, <3>4
    <2>5. ASSUME NEW c \in Bits(k + 1) PROVE Value(c) \in 0 .. TwoTo[k + 1] - 1
      <3>1. PICK b \in Bits(k), bit \in {0, 1} : c = Append(b, bit)
        BY <2>1, TopBit
      <3> QED BY <2>4, <3>1
    <2>6. ASSUME NEW v \in 0 .. TwoTo[k + 1] - 1 PROVE \E c \in Bits(k + 1) : Value(c) = v
      <3> DEFINE bit == IF v < TwoTo[k] THEN 0 ELSE 1
      <3>1. v - bit * TwoTo[k] \in 0 .. TwoTo[k] - 1 /\ bit \in {0, 1}
        BY <2>2
      <3>2. PICK b \in Bits(k) : Value(b) = v - bit * TwoTo[k]
        BY <2>3, <3>1
      <3> HIDE DEF bit
      <3>3. Value(Append(b, bit)) = Value(b) + bit * TwoTo[k] /\ Append(b, bit) \in Bits(k + 1)
        BY <2>4, <3>1
      <3>4. Value(Append(b, bit)) = v
        BY <2>2, <3>1, <3>2, <3>3
      <3> QED BY <3>3, <3>4
    <2> QED BY <2>5, <2>6
  <1>3. n \in T
    <2> HIDE DEF T
    <2> QED BY <1>0, <1>1, <1>2, Induction
  <1> QED BY <1>0, <1>3

\* So the circuit's sum of weighted bits is the integer they denote.
LEMMA OneMoreBit ==
    ASSUME NEW n \in Nat, n + 1 \in Widths, NEW b \in Bits(n), NEW bit \in {0, 1}
    PROVE  /\ Append(b, bit) \in Bits(n + 1)
           /\ Value(b) \in 0 .. TwoTo[n] - 1
           /\ Value(Append(b, bit)) = Value(b) + bit * TwoTo[n]
  <1>1. n \in Widths /\ n \in 0 .. ValueBits + Depth - 1
    BY WidthsFit, CircuitAssumption, TreeAssumption DEF Widths
  <1>2. /\ TwoTo[n + 1] = 2 * TwoTo[n] /\ TwoTo[n] \in Nat \ {0}
        /\ TwoTo[n + 1] <= FieldOrder /\ FieldOrder \in Nat
    BY <1>1, TwoToDef, WidthsFit DEF Widths
  <1>3. Value(b) \in 0 .. TwoTo[n] - 1
    BY <1>1, NoWrap
  <1>4. (Value(b) + bit * TwoTo[n]) % FieldOrder = Value(b) + bit * TwoTo[n]
    <2> DEFINE sum == Value(b) + bit * TwoTo[n]
    <2>1. sum \in 0 .. FieldOrder - 1
      BY <1>2, <1>3
    <2> HIDE DEF sum
    <2>2. sum % FieldOrder = sum
      BY <1>2, <2>1
    <2> QED BY <2>2 DEF sum
  <1>5. /\ Value(Append(b, bit)) = (Value(b) + bit * TwoTo[n]) % FieldOrder
        /\ Append(b, bit) \in Bits(n + 1)
    BY MoreBits
  <1> QED BY <1>3, <1>4, <1>5

\* What a value can be: 64 bits bound it, the field does not.
LEMMA Allocated == AllocValue = 0 .. TwoTo[ValueBits] - 1
  <1>1. \A b \in Bits(ValueBits) : FieldValue[b] = Value(b)
    BY DEF FieldValue, Value
  <1>2. /\ \A b \in Bits(ValueBits) : Value(b) \in 0 .. TwoTo[ValueBits] - 1
        /\ \A v \in 0 .. TwoTo[ValueBits] - 1 : \E b \in Bits(ValueBits) : Value(b) = v
    BY WidthsFit, NoWrap
  <1> QED BY <1>1, <1>2 DEF AllocValue

LEMMA Indices ==
    /\ \A b \in Bits(Depth) : FieldValue[b] = Value(b) /\ Value(b) \in 0 .. Capacity - 1
    /\ \A i \in 0 .. Capacity - 1 : \E b \in Bits(Depth) : FieldValue[b] = i
  <1>1. \A b \in Bits(Depth) : FieldValue[b] = Value(b)
    BY DEF FieldValue, Value
  <1>2. /\ \A b \in Bits(Depth) : Value(b) \in 0 .. TwoTo[Depth] - 1
        /\ \A i \in 0 .. TwoTo[Depth] - 1 : \E b \in Bits(Depth) : Value(b) = i
    BY WidthsFit, NoWrap
  <1>3. TwoTo[Depth] = Capacity
    BY SamePowers, TreeAssumption DEF Capacity
  <1> QED BY <1>1, <1>2, <1>3

-----------------------------------------------------------------------------
(* Membership *)

LEMMA ReachedDef ==
    ASSUME NEW nodes
    PROVE  /\ Reached(nodes)[0] = {<<cm, << >>, cm>> : cm \in Openable \cap Level(nodes, 0)}
           /\ \A n \in 0 .. Depth - 1 :
                 Reached(nodes)[n + 1] = OneUp(Reached(nodes)[n], nodes, n)
  <1> DEFINE Base == {<<cm, << >>, cm>> : cm \in Openable \cap Level(nodes, 0)}
             Step(x, k) == OneUp(x, nodes, k - 1)
             IsRec(f, n) == f = [k \in 0 .. n |-> IF k = 0 THEN Base ELSE Step(f[k - 1], k)]
             T == {n \in Nat : \E f : IsRec(f, n)}
  <1>1. 0 \in T
    <2> HIDE DEF Base
    <2>1. IsRec([k \in 0 .. 0 |-> Base], 0)
      OBVIOUS
    <2> QED BY <2>1
  <1>2. ASSUME NEW n \in 0 .. Depth - 1, n \in T PROVE n + 1 \in T
    <2> HIDE DEF Base, Step
    <2>1. PICK f : IsRec(f, n)
      BY <1>2
    <2> DEFINE g == [k \in 0 .. n + 1 |-> IF k = n + 1 THEN Step(f[n], n + 1) ELSE f[k]]
    <2>2. IsRec(g, n + 1)
      BY <2>1
    <2> HIDE DEF g, IsRec
    <2> QED BY <2>2
  <1>3. Depth \in T
    <2> HIDE DEF T
    <2> QED BY <1>1, <1>2, Induction, TreeAssumption
  <1>4. IsRec(Reached(nodes), Depth)
    BY <1>3 DEF Reached
  <1>5. \A n \in 0 .. Depth - 1 : Reached(nodes)[n + 1] = Step(Reached(nodes)[n], n + 1)
    <2> HIDE DEF Base, Step
    <2> QED BY <1>4, TreeAssumption
  <1>6. Reached(nodes)[0] = Base
    <2> HIDE DEF Base, Step
    <2> QED BY <1>4, TreeAssumption
  <1>7. \A n \in 0 .. Depth - 1 : (n + 1) - 1 = n
    BY TreeAssumption
  <1>8. ASSUME NEW n \in 0 .. Depth - 1
        PROVE  Reached(nodes)[n + 1] = OneUp(Reached(nodes)[n], nodes, n)
    BY <1>5, <1>7
  <1> QED BY <1>6, <1>8

\* A path that ends at the j-th node of level k: its bits lead from there down to
\* the leaf it started from.
LeadsDown(cms, r, k) ==
    \A j \in Nat : NodeOf(cms, k, j) = r[3] => NodeOf(cms, 0, j * TwoTo[k] + Value(r[2])) = r[1]
SoundPath(cms, nodes, r, k) ==
    /\ r = <<r[1], r[2], r[3]>>
    /\ r[1] \in Openable /\ r[2] \in Bits(k) /\ r[3] \in Level(nodes, k)
    /\ LeadsDown(cms, r, k)

LEMMA PathsAreSound ==
    ASSUME NEW cms, NEW nodes,
           \A k \in 0 .. Depth, j \in Nat : NodeAt(nodes, k, j) = NodeOf(cms, k, j)
    PROVE  \A k \in 0 .. Depth : \A r \in Reached(nodes)[k] : SoundPath(cms, nodes, r, k)
  <1> DEFINE T == {k \in 0 .. Depth : \A r \in Reached(nodes)[k] : SoundPath(cms, nodes, r, k)}
  <1>1. 0 \in T
    <2> SUFFICES ASSUME NEW r \in Reached(nodes)[0] PROVE SoundPath(cms, nodes, r, 0)
      BY TreeAssumption
    <2>1. PICK cm \in Openable \cap Level(nodes, 0) : r = <<cm, << >>, cm>>
      BY ReachedDef
    <2>2. Value(r[2]) = 0 /\ r[2] \in Bits(0) /\ TwoTo[0] = 1
      BY <2>1, NoBits, TwoToDef
    <2>3. \A j \in Nat : j * TwoTo[0] + Value(r[2]) = j
      BY <2>2
    <2>4. LeadsDown(cms, r, 0)
      BY <2>1, <2>3 DEF LeadsDown
    <2> QED BY <2>1, <2>2, <2>4 DEF SoundPath
  <1>2. ASSUME NEW k \in 0 .. Depth - 1, k \in T PROVE k + 1 \in T
    <2>1. /\ k \in 0 .. Depth /\ k + 1 \in 0 .. Depth /\ k \in Nat
          /\ k \in 0 .. ValueBits + Depth - 1 /\ k \in 0 .. ValueBits + Depth /\ k + 1 \in Widths
      BY TreeAssumption, Shallow
    <2>2. TwoTo[k + 1] = 2 * TwoTo[k] /\ TwoTo[k] \in Nat
      BY <2>1, TwoToDef
    <2> SUFFICES ASSUME NEW p \in Reached(nodes)[k + 1] PROVE SoundPath(cms, nodes, p, k + 1)
      BY <2>1
    <2>p. p \in OneUp(Reached(nodes)[k], nodes, k)
      BY ReachedDef
    <2>3. PICK r \in Reached(nodes)[k], sibling \in Level(nodes, k), bit \in {0, 1} :
             p = <<r[1], Append(r[2], bit), Parent(r[3], sibling, bit)>>
      BY <2>p DEF OneUp
    <2>4. p[3] \in Level(nodes, k + 1)
      BY <2>p DEF OneUp
    <2>5. SoundPath(cms, nodes, r, k)
      BY <1>2
    <2>6. r[2] \in Bits(k) /\ r[1] \in Openable
      BY <2>5 DEF SoundPath
    <2>7. /\ Append(r[2], bit) \in Bits(k + 1)
          /\ Value(r[2]) \in 0 .. TwoTo[k] - 1
          /\ Value(Append(r[2], bit)) = Value(r[2]) + bit * TwoTo[k]
      BY <2>1, <2>6, OneMoreBit
    <2>8. ASSUME NEW j \in Nat, NodeOf(cms, k + 1, j) = p[3]
          PROVE  NodeOf(cms, 0, j * TwoTo[k + 1] + Value(p[2])) = p[1]
      <3>1. Parent(r[3], sibling, bit) = Hash2(NodeOf(cms, k, 2 * j), NodeOf(cms, k, 2 * j + 1))
        BY <2>3, <2>8, NodeOfDef
      <3>2. r[3] = NodeOf(cms, k, 2 * j + bit)
        BY <3>1 DEF Parent, Hash2
      <3>3. 2 * j + bit \in Nat
        OBVIOUS
      <3>4. NodeOf(cms, 0, (2 * j + bit) * TwoTo[k] + Value(r[2])) = r[1]
        BY <2>5, <3>2, <3>3 DEF SoundPath, LeadsDown
      <3>5. (2 * j + bit) * TwoTo[k] + Value(r[2]) = j * TwoTo[k + 1] + Value(Append(r[2], bit))
        <4>1. Value(r[2]) \in Nat
          BY <2>2, <2>7
        <4> QED BY <2>2, <2>7, <4>1
      <3> QED BY <2>3, <3>4, <3>5
    <2>9. LeadsDown(cms, p, k + 1)
      BY <2>8 DEF LeadsDown
    <2> QED BY <2>3, <2>4, <2>6, <2>7, <2>9 DEF SoundPath
  <1>3. 0 .. Depth \subseteq T
    <2> HIDE DEF T
    <2> QED BY <1>1, <1>2, Induction, TreeAssumption
  <1> QED BY <1>3

\* Paths are complete: the bits of a number below 2^k lead from the leaf at
\* j * 2^k + that number to the j-th node of level k.
LEMMA PathsAreComplete ==
    ASSUME NEW cms, NEW nodes,
           \A k \in 0 .. Depth, j \in Nat : NodeAt(nodes, k, j) = NodeOf(cms, k, j)
    PROVE  \A k \in 0 .. Depth :
           \A cm \in Openable, b \in Bits(k), j \in 0 .. Pow2[Depth - k] - 1 :
              NodeOf(cms, 0, j * TwoTo[k] + Value(b)) = cm =>
                 <<cm, b, NodeOf(cms, k, j)>> \in Reached(nodes)[k]
  <1> DEFINE Good(k) ==
                \A cm \in Openable, b \in Bits(k), j \in 0 .. Pow2[Depth - k] - 1 :
                   NodeOf(cms, 0, j * TwoTo[k] + Value(b)) = cm =>
                      <<cm, b, NodeOf(cms, k, j)>> \in Reached(nodes)[k]
             T == {k \in 0 .. Depth : Good(k)}
  <1>0. \A k \in 0 .. Depth : \A j \in 0 .. Pow2[Depth - k] - 1 :
           NodeOf(cms, k, j) \in Level(nodes, k)
    <2> SUFFICES ASSUME NEW k \in 0 .. Depth, NEW j \in 0 .. Pow2[Depth - k] - 1
                 PROVE  NodeOf(cms, k, j) \in Level(nodes, k)
      OBVIOUS
    <2>1. NodeAt(nodes, k, j) = NodeOf(cms, k, j)
      OBVIOUS
    <2> QED BY <2>1 DEF Level
  <1>1. 0 \in T
    <2> SUFFICES ASSUME NEW cm \in Openable, NEW b \in Bits(0), NEW j \in 0 .. Pow2[Depth - 0] - 1,
                        NodeOf(cms, 0, j * TwoTo[0] + Value(b)) = cm
                 PROVE  <<cm, b, NodeOf(cms, 0, j)>> \in Reached(nodes)[0]
      BY TreeAssumption
    <2>1. b = << >> /\ Value(b) = 0 /\ TwoTo[0] = 1
      BY NoBits, TwoToDef
    <2>2. j * TwoTo[0] + Value(b) = j
      BY <2>1
    <2>3. NodeOf(cms, 0, j) = cm
      BY <2>2
    <2>4. cm \in Level(nodes, 0)
      BY <1>0, <2>3, TreeAssumption
    <2> QED BY <2>1, <2>3, <2>4, ReachedDef
  <1>2. ASSUME NEW k \in 0 .. Depth - 1, k \in T PROVE k + 1 \in T
    <2>1. /\ k \in 0 .. Depth /\ k + 1 \in 0 .. Depth /\ k \in Nat
          /\ k \in 0 .. ValueBits + Depth - 1 /\ k \in 0 .. ValueBits + Depth /\ k + 1 \in Widths
      BY TreeAssumption, Shallow
    <2>2. TwoTo[k + 1] = 2 * TwoTo[k] /\ TwoTo[k] \in Nat
      BY <2>1, TwoToDef
    <2>3. Pow2[Depth - k] = 2 * Pow2[Depth - (k + 1)] /\ Pow2[Depth - (k + 1)] \in Nat
      <3> DEFINE m == Depth - (k + 1)
      <3>1. m \in 0 .. Depth - 1 /\ m \in 0 .. Depth /\ Depth - k = m + 1
        BY TreeAssumption
      <3> HIDE DEF m
      <3>2. Pow2[Depth - k] = 2 * Pow2[m] /\ Pow2[m] \in Nat
        BY <3>1, Pow2Def
      <3> QED BY <3>2 DEF m
    <2> SUFFICES ASSUME NEW cm \in Openable, NEW c \in Bits(k + 1),
                        NEW j \in 0 .. Pow2[Depth - (k + 1)] - 1,
                        NodeOf(cms, 0, j * TwoTo[k + 1] + Value(c)) = cm
                 PROVE  <<cm, c, NodeOf(cms, k + 1, j)>> \in Reached(nodes)[k + 1]
      BY <2>1
    <2>4. PICK b \in Bits(k), bit \in {0, 1} : c = Append(b, bit)
      BY <2>1, TopBit
    <2>5. Value(b) \in 0 .. TwoTo[k] - 1 /\ Value(c) = Value(b) + bit * TwoTo[k]
      BY <2>1, <2>4, OneMoreBit
    <2> DEFINE i == 2 * j + bit
               o == 2 * j + (1 - bit)
    <2>6. /\ i \in 0 .. Pow2[Depth - k] - 1 /\ o \in 0 .. Pow2[Depth - k] - 1
          /\ i \in Nat /\ o \in Nat /\ j \in Nat
      BY <2>3
    <2>7. i * TwoTo[k] + Value(b) = j * TwoTo[k + 1] + Value(c)
      <3>1. Value(b) \in Nat
        BY <2>2, <2>5
      <3> QED BY <2>2, <2>3, <2>5, <3>1
    <2>8. <<cm, b, NodeOf(cms, k, i)>> \in Reached(nodes)[k]
      <3>1. NodeOf(cms, 0, i * TwoTo[k] + Value(b)) = cm
        BY <2>7
      <3>2. Good(k)
        BY <1>2
      <3> HIDE DEF i
      <3> QED BY <2>6, <3>1, <3>2
    <2>9. Parent(NodeOf(cms, k, i), NodeOf(cms, k, o), bit) = NodeOf(cms, k + 1, j)
      <3>1. NodeOf(cms, k + 1, j) = Hash2(NodeOf(cms, k, 2 * j), NodeOf(cms, k, 2 * j + 1))
        BY <2>6, NodeOfDef
      <3>2. CASE bit = 0
        <4>1. i = 2 * j /\ o = 2 * j + 1
          BY <2>6, <3>2
        <4> HIDE DEF i, o
        <4> QED BY <3>1, <3>2, <4>1 DEF Parent
      <3>3. CASE bit = 1
        <4>1. i = 2 * j + 1 /\ o = 2 * j
          BY <2>6, <3>3
        <4> HIDE DEF i, o
        <4> QED BY <3>1, <3>3, <4>1 DEF Parent
      <3> QED BY <3>2, <3>3
    <2>10. NodeOf(cms, k, o) \in Level(nodes, k) /\ NodeOf(cms, k + 1, j) \in Level(nodes, k + 1)
      <3> HIDE DEF o
      <3> QED BY <1>0, <2>1, <2>6
    <2> DEFINE r == <<cm, b, NodeOf(cms, k, i)>>
               p == <<r[1], Append(r[2], bit), Parent(r[3], NodeOf(cms, k, o), bit)>>
    <2>11. p = <<cm, c, NodeOf(cms, k + 1, j)>>
      BY <2>4, <2>9
    <2>12. p \in OneUp(Reached(nodes)[k], nodes, k)
      <3>1. p[3] \in Level(nodes, k + 1)
        BY <2>9, <2>10
      <3> HIDE DEF i, o
      <3> QED BY <2>8, <2>10, <3>1 DEF OneUp
    <2>13. Reached(nodes)[k + 1] = OneUp(Reached(nodes)[k], nodes, k)
      BY ReachedDef
    <2> QED BY <2>11, <2>12, <2>13
  <1>3. 0 .. Depth \subseteq T
    <2> HIDE DEF T
    <2> QED BY <1>1, <1>2, Induction, TreeAssumption
  <1> QED BY <1>3

\* What the root check and the index bits together accept: under the root of the
\* log, a commitment at the index of the bits and nothing else.
InsertedAt(cm, index) == index < Len(log) /\ log[index + 1] = cm

LEMMA MembersAre ==
    ASSUME TreeInv
    PROVE  \A cm \in Openable, b \in Bits(Depth) :
              <<cm, b>> \in Members(RebuildTree(log)) <=> InsertedAt(cm, FieldValue[b])
  <1> DEFINE nodes == RebuildTree(log)
  <1>1. log \in Seq(Commitments) /\ Len(log) \in Nat /\ DOMAIN log = 1 .. Len(log)
    BY LenProperties DEF TreeInv
  <1>2. \A k \in 0 .. Depth, j \in Nat : NodeAt(nodes, k, j) = NodeOf(log, k, j)
    <2>1. Dense(nodes, log)
      BY <1>1, RebuiltNodes
    <2> HIDE DEF nodes
    <2> QED BY <1>1, <2>1, NodeAtIsNode DEF Dense
  <1> HIDE DEF nodes
  <1>3. /\ Depth \in 0 .. Depth /\ Depth - Depth = 0
        /\ 0 \in 0 .. Pow2[Depth - Depth] - 1 /\ 0 .. Pow2[Depth - Depth] - 1 = {0}
    BY Pow2Def, TreeAssumption
  <1> SUFFICES ASSUME NEW cm \in Openable, NEW b \in Bits(Depth)
               PROVE  <<cm, b>> \in Members(nodes) <=> InsertedAt(cm, FieldValue[b])
    BY DEF nodes
  <1> DEFINE index == Value(b)
  <1>4. index \in Nat /\ FieldValue[b] = index
    BY Indices, Pow2Def, TreeAssumption DEF Capacity
  <1>5. NodeOf(log, 0, index) = IF index < Len(log) THEN log[index + 1] ELSE ZeroLeaf
    BY <1>4, NodeOfDef, Zenon
  <1>6. ZeroLeaf # cm
    BY CircuitAssumption DEF Openable
  <1>7. NodeOf(log, 0, index) = cm <=> InsertedAt(cm, FieldValue[b])
    BY <1>4, <1>5, <1>6 DEF InsertedAt
  <1>8. 0 * TwoTo[Depth] + Value(b) = index
    <2>1. TwoTo[Depth] \in Nat
      BY <1>3, SamePowers, Pow2Def
    <2> QED BY <1>4, <2>1
  <1>9. ASSUME <<cm, b>> \in Members(nodes) PROVE NodeOf(log, 0, index) = cm
    <2>1. PICK r \in Reached(nodes)[Depth] : <<cm, b>> = <<r[1], r[2]>>
      BY <1>9 DEF Members
    <2>2. /\ r[3] \in Level(nodes, Depth)
          /\ \A j \in Nat : NodeOf(log, Depth, j) = r[3] =>
                NodeOf(log, 0, j * TwoTo[Depth] + Value(r[2])) = r[1]
      <3>1. SoundPath(log, nodes, r, Depth)
        BY <1>2, <1>3, PathsAreSound
      <3> QED BY <3>1 DEF SoundPath, LeadsDown
    <2>3. r[3] = NodeOf(log, Depth, 0)
      <3>1. PICK i \in 0 .. Pow2[Depth - Depth] - 1 : r[3] = NodeAt(nodes, Depth, i)
        BY <2>2 DEF Level
      <3> QED BY <1>2, <1>3, <3>1
    <2>4. r[1] = cm /\ r[2] = b
      BY <2>1
    <2>5. NodeOf(log, 0, 0 * TwoTo[Depth] + Value(r[2])) = r[1]
      BY <2>2, <2>3
    <2> QED BY <1>8, <2>4, <2>5
  <1>10. ASSUME NodeOf(log, 0, index) = cm PROVE <<cm, b>> \in Members(nodes)
    <2>1. <<cm, b, NodeOf(log, Depth, 0)>> \in Reached(nodes)[Depth]
      <3>1. NodeOf(log, 0, 0 * TwoTo[Depth] + Value(b)) = cm
        BY <1>8, <1>10
      <3>2. \A c \in Openable, d \in Bits(Depth), j \in 0 .. Pow2[Depth - Depth] - 1 :
               NodeOf(log, 0, j * TwoTo[Depth] + Value(d)) = c =>
                  <<c, d, NodeOf(log, Depth, j)>> \in Reached(nodes)[Depth]
        BY <1>2, <1>3, PathsAreComplete
      <3> QED BY <1>3, <3>1, <3>2
    <2> QED BY <2>1 DEF Members
  <1> QED BY <1>7, <1>9, <1>10

-----------------------------------------------------------------------------
(* One note *)

LEMMA CommitOpens ==
    ASSUME NEW key, NEW value
    PROVE  /\ Commit(key, value) \in Openable
           /\ \A cm \in DOMAIN Opening :
                 Commit(key, value) = cm <=> Opening[cm] = [key |-> key, value |-> value]
  <1> DEFINE note == [key |-> key, value |-> value]
             Opens(c) == c \in DOMAIN Opening /\ Opening[c] = note
  <1>1. CASE \E c \in DOMAIN Opening : Opening[c] = note
    <2>1. Commit(key, value) = CHOOSE c \in DOMAIN Opening : Opening[c] = note
      BY <1>1, Zenon DEF Commit
    <2>2. Opens(Commit(key, value))
      <3> HIDE DEF note
      <3> QED BY <1>1, <2>1
    <2>3. \A c, d \in DOMAIN Opening : Opening[c] = Opening[d] => c = d
      BY CircuitAssumption
    <2> HIDE DEF note
    <2> QED BY <2>2, <2>3 DEF Openable, note
  <1>2. CASE ~ \E c \in DOMAIN Opening : Opening[c] = note
    <2>1. Commit(key, value) = Unopened
      BY <1>2, Zenon DEF Commit
    <2>2. Unopened \notin DOMAIN Opening
      BY CircuitAssumption
    <2> QED BY <1>2, <2>1, <2>2 DEF Openable
  <1> QED BY <1>1, <1>2

\* The nullifier of a note says its key and its index.
LEMMA NotesAtIndex ==
    ASSUME TreeInv, NEW nf \in Nullifiers, NEW value
    PROVE  value \in NotesAt(nf) <=> InsertedAt(Commit(nf.key, value), nf.index)
  <1> DEFINE i == nf.index + 1
             cm == log[i]
  <1>1. log \in Seq(Commitments) /\ Len(log) \in Nat /\ DOMAIN log = 1 .. Len(log)
    BY LenProperties DEF TreeInv
  <1>2. nf.index \in Nat /\ Capacity \in Nat
    BY Pow2Def, TreeAssumption DEF Nullifiers, Capacity
  <1>3. \A j \in DOMAIN log : nf.index = j - 1 <=> j = i
    BY <1>1, <1>2
  <1>4. i \in DOMAIN log <=> nf.index < Len(log)
    BY <1>1, <1>2
  <1>5. value \in NotesAt(nf) <=>
           i \in DOMAIN log /\ Opening[cm].key = nf.key /\ Opening[cm].value = value
    BY <1>3 DEF NotesAt
  <1>6. i \in DOMAIN log =>
           cm \in DOMAIN Opening /\ Opening[cm] \in [key : SpendingKeys, value : 0 .. FieldOrder - 1]
    <2>1. i \in DOMAIN log => cm \in Commitments
      BY <1>1, ElementOfSeq
    <2> QED BY <2>1, CircuitAssumption
  <1>7. i \in DOMAIN log =>
           (Opening[cm] = [key |-> nf.key, value |-> value] <=>
               Opening[cm].key = nf.key /\ Opening[cm].value = value)
    BY <1>6
  <1>8. i \in DOMAIN log => (Commit(nf.key, value) = cm <=> Opening[cm] = [key |-> nf.key, value |-> value])
    BY <1>6, CommitOpens
  <1> QED BY <1>4, <1>5, <1>7, <1>8 DEF InsertedAt

LEMMA NotesTyped ==
    ASSUME TreeInv, NEW nf \in Nullifiers, NEW value \in NotesAt(nf)
    PROVE  value \in Nat
  <1>1. log \in Seq(Commitments) /\ DOMAIN log = 1 .. Len(log)
    BY LenProperties DEF TreeInv
  <1>2. PICK j \in DOMAIN log : value = Opening[log[j]].value
    BY DEF NotesAt
  <1>3. log[j] \in DOMAIN Opening
    BY <1>1, ElementOfSeq, CircuitAssumption
  <1>4. Opening[log[j]] \in [key : SpendingKeys, value : 0 .. FieldOrder - 1]
    BY <1>3, CircuitAssumption
  <1> QED BY <1>2, <1>4, CircuitAssumption

\* The key and the index bits of a spent note are those of its nullifier.
LEMMA NullifierOpens ==
    ASSUME NEW nf \in Nullifiers
    PROVE  /\ nf.key \in SpendingKeys
           /\ \E b \in Bits(Depth) : FieldValue[b] = nf.index
           /\ \A key, index : nf = NullifierFor(key, index) <=> key = nf.key /\ index = nf.index
  <1>1. nf.key \in SpendingKeys /\ nf.index \in 0 .. Capacity - 1
    BY DEF Nullifiers
  <1>2. \A key, index : nf = NullifierFor(key, index) <=> key = nf.key /\ index = nf.index
    BY DEF Nullifiers, NullifierFor
  <1> QED BY <1>1, <1>2, Indices

\* A spent note is worth 0, or what the note of that key at that index is, if that
\* fits the width.
LEMMA Spendable ==
    ASSUME TreeInv, NEW nf \in Nullifiers
    PROVE  SpendableValues(Members(RebuildTree(log)), nf)
             = {0} \cup {v \in NotesAt(nf) : FitsWidth(v)}
  <1> DEFINE members == Members(RebuildTree(log))
  <1>1. \A cm \in Openable, b \in Bits(Depth) : <<cm, b>> \in members <=> InsertedAt(cm, FieldValue[b])
    BY MembersAre
  <1> HIDE DEF members
  <1>2. AllocValue = 0 .. TwoTo[ValueBits] - 1 /\ 0 \in AllocValue
        /\ \A v \in Nat : v \in AllocValue <=> FitsWidth(v)
    <2>1. TwoTo[ValueBits] \in Nat \ {0}
      BY TwoToDef, WidthsFit DEF Widths
    <2> QED BY <2>1, Allocated DEF FitsWidth
  <1>3. ASSUME NEW v \in SpendableValues(members, nf), v # 0
        PROVE  v \in NotesAt(nf) /\ FitsWidth(v)
    <2>1. PICK key \in SpendingKeys, b \in Bits(Depth) :
             <<Commit(key, v), b>> \in members /\ nf = NullifierFor(key, FieldValue[b])
      BY <1>3 DEF SpendableValues, SpentConstraints
    <2>2. key = nf.key /\ FieldValue[b] = nf.index
      BY <2>1, NullifierOpens
    <2>3. InsertedAt(Commit(nf.key, v), nf.index)
      BY <1>1, <2>1, <2>2, CommitOpens
    <2>4. v \in AllocValue /\ v \in Nat
      BY <1>2 DEF SpendableValues
    <2> QED BY <1>2, <2>3, <2>4, NotesAtIndex
  <1>4. PICK b \in Bits(Depth) : FieldValue[b] = nf.index
    BY NullifierOpens
  <1>5. nf = NullifierFor(nf.key, FieldValue[b]) /\ nf.key \in SpendingKeys
    BY <1>4, NullifierOpens
  <1>6. 0 \in SpendableValues(members, nf)
    BY <1>2, <1>5 DEF SpendableValues, SpentConstraints
  <1>7. ASSUME NEW v \in NotesAt(nf), FitsWidth(v) PROVE v \in SpendableValues(members, nf)
    <2>1. v \in AllocValue
      BY <1>2, <1>7, NotesTyped
    <2>2. <<Commit(nf.key, v), b>> \in members
      BY <1>1, <1>4, CommitOpens, NotesAtIndex
    <2> QED BY <1>5, <2>1, <2>2 DEF SpendableValues, SpentConstraints
  <1> QED BY <1>3, <1>6, <1>7 DEF members

LEMMA Creatable ==
    ASSUME NEW cm \in DOMAIN Opening
    PROVE  CreatableValues(cm) = {v \in {Opening[cm].value} : FitsWidth(v)}
  <1>1. Opening[cm] \in [key : SpendingKeys, value : 0 .. FieldOrder - 1]
    BY CircuitAssumption
  <1>2. Opening[cm].value \in Nat /\ Opening[cm].key \in SpendingKeys
    BY <1>1, CircuitAssumption
  <1>3. \A key, v : Commit(key, v) = cm <=> key = Opening[cm].key /\ v = Opening[cm].value
    <2>1. \A key, v : Commit(key, v) = cm <=> Opening[cm] = [key |-> key, value |-> v]
      BY CommitOpens
    <2>2. \A key, v : Opening[cm] = [key |-> key, value |-> v]
                        <=> key = Opening[cm].key /\ v = Opening[cm].value
      BY <1>1
    <2> QED BY <2>1, <2>2
  <1>4. \A v \in Nat : v \in AllocValue <=> FitsWidth(v)
    <2>1. TwoTo[ValueBits] \in Nat \ {0}
      BY TwoToDef, WidthsFit DEF Widths
    <2> QED BY <2>1, Allocated DEF FitsWidth
  <1>5. AllocValue \subseteq Nat
    BY Allocated
  <1> QED BY <1>2, <1>3, <1>4, <1>5 DEF CreatableValues

-----------------------------------------------------------------------------
(* The two relations *)

\* The sum of two values does not wrap around.
LEMMA SumsFit ==
    ASSUME NEW v \in Nat, NEW w \in Nat, FitsWidth(v), FitsWidth(w)
    PROVE  (v + w) % FieldOrder = v + w
  <1>1. ValueBits \in 0 .. ValueBits + Depth - 1 /\ ValueBits \in 0 .. ValueBits + Depth
    BY TreeAssumption, CircuitAssumption
  <1>2. TwoTo[ValueBits + 1] = 2 * TwoTo[ValueBits] /\ TwoTo[ValueBits] \in Nat
    BY <1>1, TwoToDef
  <1> DEFINE sum == v + w
  <1>3. sum \in 0 .. FieldOrder - 1 /\ FieldOrder \in Nat \ {0}
    BY <1>2, CircuitAssumption, WidthsFit DEF FitsWidth
  <1> HIDE DEF sum
  <1>4. sum % FieldOrder = sum
    BY <1>3
  <1> QED BY <1>4 DEF sum

\* For any depth, width, field, notes and any log the contract can hold, a transfer
\* has a witness exactly when the notes at the nullifiers' own indices, or dummies,
\* are worth as much as the created notes, as integers.
THEOREM TransferCircuitIsSound == Spec => []TransferCircuitIsRelation
  <1>1. TreeInv => TransferCircuitIsRelation
    <2> SUFFICES ASSUME TreeInv PROVE TransferCircuitIsRelation
      OBVIOUS
    <2> DEFINE members   == Members(RebuildTree(log))
               spendable == [nf \in Nullifiers |-> SpendableValues(members, nf)]
               creatable == [cm \in DOMAIN Opening |-> CreatableValues(cm)]
    <2>1. \A nf \in Nullifiers : spendable[nf] = {0} \cup {v \in NotesAt(nf) : FitsWidth(v)}
      BY Spendable
    <2>2. \A nf \in Nullifiers : \A v \in spendable[nf] : v \in Nat /\ FitsWidth(v)
      <3>1. FitsWidth(0)
        BY TwoToDef, WidthsFit DEF FitsWidth, Widths
      <3> HIDE DEF spendable
      <3> QED BY <2>1, <3>1, NotesTyped
    <2>3. \A cm \in DOMAIN Opening :
             /\ creatable[cm] = {v \in {Opening[cm].value} : FitsWidth(v)}
             /\ Opening[cm].value \in Nat
      <3>1. \A cm \in DOMAIN Opening : Opening[cm] \in [key : SpendingKeys, value : 0 .. FieldOrder - 1]
        BY CircuitAssumption
      <3>2. \A cm \in DOMAIN Opening : Opening[cm].value \in Nat
        BY <3>1, CircuitAssumption
      <3> QED BY <3>2, Creatable
    <2> HIDE DEF spendable, creatable, members
    <2>4. ASSUME NEW ins \in [1 .. 2 -> Range(spendable)], NEW cms \in [1 .. 2 -> DOMAIN Opening]
          PROVE  TransferSatisfiable(ins, [k \in 1 .. 2 |-> creatable[cms[k]]]) <=>
                    /\ \A k \in 1 .. 2 : FitsWidth(Opening[cms[k]].value)
                    /\ \E v \in ins[1], w \in ins[2] :
                          v + w = Opening[cms[1]].value + Opening[cms[2]].value
      <3> DEFINE c == Opening[cms[1]].value
                 d == Opening[cms[2]].value
                 outs == [k \in 1 .. 2 |-> creatable[cms[k]]]
      <3>1. 1 \in 1 .. 2 /\ 2 \in 1 .. 2 /\ \A k \in 1 .. 2 : k = 1 \/ k = 2
        OBVIOUS
      <3>2. /\ \A v \in ins[1] : v \in Nat /\ FitsWidth(v)
            /\ \A v \in ins[2] : v \in Nat /\ FitsWidth(v)
        <4>1. DOMAIN spendable = Nullifiers
          BY DEF spendable
        <4>2. ins[1] \in Range(spendable) /\ ins[2] \in Range(spendable)
          BY <3>1
        <4> QED BY <2>2, <4>1, <4>2 DEF Range
      <3>3. cms[1] \in DOMAIN Opening /\ cms[2] \in DOMAIN Opening
        BY <3>1
      <3>4. /\ outs[1] = {v \in {c} : FitsWidth(v)} /\ outs[2] = {v \in {d} : FitsWidth(v)}
            /\ c \in Nat /\ d \in Nat
        BY <2>3, <3>1, <3>3
      <3> HIDE DEF outs
      <3>5. TransferSatisfiable(ins, outs) <=>
               /\ FitsWidth(c) /\ FitsWidth(d)
               /\ \E v \in ins[1], w \in ins[2] : NoInflation(v, w, c, d)
        <4> HIDE DEF c, d
        <4> QED BY <3>4 DEF TransferSatisfiable
      <3>6. ASSUME FitsWidth(c), FitsWidth(d), NEW v \in ins[1], NEW w \in ins[2]
            PROVE  NoInflation(v, w, c, d) <=> v + w = c + d
        <4> HIDE DEF c, d
        <4>1. (v + w) % FieldOrder = v + w /\ (c + d) % FieldOrder = c + d
          BY <3>2, <3>4, <3>6, SumsFit
        <4> QED BY <4>1 DEF NoInflation
      <3> QED BY <3>1, <3>5, <3>6 DEF outs
    <2> QED BY <2>1, <2>4 DEF TransferCircuitIsRelation, spendable, creatable, members
  <1> QED BY <1>1, TreeInvariant, PTL

\* A withdrawal has a witness exactly for the amount of the note of that key at that
\* index, whatever its value: nothing is withdrawn on a dummy.
THEOREM WithdrawCircuitIsSound == Spec => []WithdrawCircuitIsRelation
  <1>1. TreeInv => WithdrawCircuitIsRelation
    <2> SUFFICES ASSUME TreeInv, NEW nf \in Nullifiers, NEW amount \in 0 .. FieldOrder - 1
                 PROVE  WithdrawSatisfiable(Members(RebuildTree(log)), nf, amount)
                          <=> amount \in NotesAt(nf)
      BY DEF WithdrawCircuitIsRelation
    <2> DEFINE members == Members(RebuildTree(log))
    <2>1. \A b \in Bits(Depth) :
             <<Commit(nf.key, amount), b>> \in members <=> InsertedAt(Commit(nf.key, amount), FieldValue[b])
      BY MembersAre, CommitOpens
    <2> HIDE DEF members
    <2>2. WithdrawSatisfiable(members, nf, amount) <=> InsertedAt(Commit(nf.key, amount), nf.index)
      <3> DEFINE cm == Commit(nf.key, amount)
      <3>1. ASSUME WithdrawSatisfiable(members, nf, amount) PROVE InsertedAt(cm, nf.index)
        <4>1. PICK key \in SpendingKeys, b \in Bits(Depth) :
                 <<Commit(key, amount), b>> \in members /\ nf = NullifierFor(key, FieldValue[b])
          BY <3>1 DEF WithdrawSatisfiable
        <4>2. key = nf.key /\ FieldValue[b] = nf.index
          BY <4>1, NullifierOpens
        <4> QED BY <2>1, <4>1, <4>2
      <3>2. ASSUME InsertedAt(cm, nf.index) PROVE WithdrawSatisfiable(members, nf, amount)
        <4>1. PICK b \in Bits(Depth) : FieldValue[b] = nf.index
          BY NullifierOpens
        <4>2. <<cm, b>> \in members
          BY <2>1, <3>2, <4>1
        <4>3. nf = NullifierFor(nf.key, FieldValue[b]) /\ nf.key \in SpendingKeys
          BY <4>1, NullifierOpens
        <4> QED BY <4>2, <4>3 DEF WithdrawSatisfiable
      <3> QED BY <3>1, <3>2
    <2> QED BY <2>2, NotesAtIndex DEF members
  <1> QED BY <1>1, TreeInvariant, PTL
=============================================================================
