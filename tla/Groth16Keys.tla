----------------------------- MODULE Groth16Keys -----------------------------
(***************************************************************************)
(* Keys, proofs and their encodings, and the two verifiers of a proof: the *)
(* zk_verifier contract over host-encoded bytes, and `attesta-prover       *)
(* verify` over a key file.  A curve point stands for its discrete         *)
(* logarithm, so a pairing is a product in the scalar field; its           *)
(* coordinates matter only to the encodings.                               *)
(***************************************************************************)
EXTENDS ProtocolHash, FiniteSets, SequencesExt

CONSTANTS
    CoordOrder,     \* the order of the base field
    Garbage,        \* overwritten data of the right length
    Short           \* data cut off before its end

ASSUME CoordAssumption ==
    /\ CoordOrder \in Nat /\ FieldOrder < CoordOrder
    /\ CoordOrder <= 2 * Base * Base /\ Base >= 4
    /\ Garbage \notin Seq(Nat) /\ Short \notin Seq(Nat)

-----------------------------------------------------------------------------
(* Points: the identity has no coordinates *)

Identity == << >>
G1 == [e \in Fr |-> IF e = 0 THEN Identity ELSE <<e, CoordOrder - e>>]
G2 == [e \in Fr |-> IF e = 0 THEN Identity ELSE <<e, 0, CoordOrder - e, 1>>]    \* x.c0, x.c1, y.c0, y.c1
Log(group, point) == CHOOSE e \in Fr : group[e] = point

\* Three big-endian digits; the first is at most 1, which leaves its next bit to
\* the flag of the identity.
InfinityFlag == 2
FqBe(x) == <<x \div (Base * Base), (x \div Base) % Base, x % Base>>
FqFromBe(b) == (b[1] * Base * Base + b[2] * Base + b[3]) % CoordOrder
IsInfinity(b) == (b[1] \div InfinityFlag) % 2 = 1

G1ToBytes(point) ==
    IF point = Identity THEN <<InfinityFlag, 0, 0, 0, 0, 0>>
    ELSE FqBe(point[1]) \o FqBe(point[2])

G1FromBytes(b) ==
    IF IsInfinity(b) THEN Identity
    ELSE <<FqFromBe(SubSeq(b, 1, 3)), FqFromBe(SubSeq(b, 4, 6))>>

\* The second component of a coordinate comes first.
G2ToBytes(point) ==
    IF point = Identity THEN <<InfinityFlag>> \o [i \in 1 .. 11 |-> 0]
    ELSE FqBe(point[2]) \o FqBe(point[1]) \o FqBe(point[4]) \o FqBe(point[3])

\* Mutation: the components in the order of the struct.
M_G2FromBytesInOrder(b) ==
    IF IsInfinity(b) THEN Identity
    ELSE <<FqFromBe(SubSeq(b, 1, 3)), FqFromBe(SubSeq(b, 4, 6)),
           FqFromBe(SubSeq(b, 7, 9)), FqFromBe(SubSeq(b, 10, 12))>>

G2FromBytes(b) ==
    IF IsInfinity(b) THEN Identity
    ELSE <<FqFromBe(SubSeq(b, 4, 6)), FqFromBe(SubSeq(b, 1, 3)),
           FqFromBe(SubSeq(b, 10, 12)), FqFromBe(SubSeq(b, 7, 9))>>

ProofToBytes(proof) == [a |-> G1ToBytes(proof.a), b |-> G2ToBytes(proof.b), c |-> G1ToBytes(proof.c)]

VkToBytes(vk) ==
    [alpha |-> G1ToBytes(vk.alpha), beta |-> G2ToBytes(vk.beta), gamma |-> G2ToBytes(vk.gamma),
     delta |-> G2ToBytes(vk.delta), ic |-> [i \in DOMAIN vk.ic |-> G1ToBytes(vk.ic[i])]]

VkFromBytes(b) ==
    [alpha |-> G1FromBytes(b.alpha), beta |-> G2FromBytes(b.beta), gamma |-> G2FromBytes(b.gamma),
     delta |-> G2FromBytes(b.delta), ic |-> [i \in DOMAIN b.ic |-> G1FromBytes(b.ic[i])]]

-----------------------------------------------------------------------------
(* verifying_key.hex, line by line *)

Header == <<"alpha", "beta", "gamma", "delta">>

RenderVkHex(vk) ==
    [i \in 1 .. 4 |-> [key |-> Header[i], no |-> 0, data |-> vk[Header[i]]]] \o
    [i \in DOMAIN vk.ic |-> [key |-> "ic", no |-> i - 1, data |-> vk.ic[i]]]

LinesOf(text, key) == {i \in DOMAIN text : text[i].key = key}

\* All four points are there and every line decodes to the right length; nothing
\* is asked of the IC numbers.
ParsesVkHex(text) ==
    /\ \A i \in 1 .. 4 : LinesOf(text, Header[i]) # {}
    /\ \A i \in DOMAIN text : text[i].data # Short

\* IC points are sorted by number, stably.
ICBefore(text, i, j) == text[i].no < text[j].no \/ (text[i].no = text[j].no /\ i < j)
ICLine(text, k) ==
    CHOOSE j \in LinesOf(text, "ic") :
       Cardinality({i \in LinesOf(text, "ic") : ICBefore(text, i, j)}) = k - 1

\* The last line of a key counts.
LastOf(text, key) ==
    text[CHOOSE i \in LinesOf(text, key) : \A j \in LinesOf(text, key) : j <= i].data

ParseVkHex(text) ==
    [alpha |-> LastOf(text, "alpha"), beta  |-> LastOf(text, "beta"),
     gamma |-> LastOf(text, "gamma"), delta |-> LastOf(text, "delta"),
     ic    |-> [k \in 1 .. Cardinality(LinesOf(text, "ic")) |-> text[ICLine(text, k)].data]]

-----------------------------------------------------------------------------
(* The verifiers.  vk, proof and inputs are byte strings. *)

IntactVk(vk) == Garbage \notin {vk.alpha, vk.beta, vk.gamma, vk.delta} \cup Range(vk.ic)

Pairings(lefts, rights) ==
    SumFunction([i \in DOMAIN lefts |-> Log(G1, lefts[i]) * Log(G2, rights[i])]) % FieldOrder = 0
Scale(point, k) == G1[(Log(G1, point) * k) % FieldOrder]
Msm(points, scalars) ==
    G1[SumFunction([i \in DOMAIN points |-> Log(G1, points[i]) * scalars[i]]) % FieldOrder]

\* ZkVerifier::__constructor refuses nothing else.
MalformedKey(vk) == vk.ic = << >>

\* Mutation: spare inputs are ignored.
M_AtLeastArity(vk, inputs) == Len(inputs) + 1 >= Len(vk.ic)

ArityOK(vk, inputs) == Len(inputs) + 1 = Len(vk.ic)

\* Mutation: any encoding.
M_AnyInputs(inputs) == TRUE

InputsOK(inputs) == \A i \in DOMAIN inputs : Canonical(inputs[i])

\* ZkVerifier::verify returns true: otherwise it returns false, panics, or the
\* host traps on bytes that are no point.
HostVerify(vk, proof, inputs) ==
    /\ ArityOK(vk, inputs)
    /\ InputsOK(inputs)
    /\ IntactVk(vk)
    /\ LET key     == VkFromBytes(vk)
           scalars == <<1>> \o [i \in DOMAIN inputs |-> FrFromBytes(inputs[i])]
           vk_x    == Msm(key.ic, SubSeq(scalars, 1, Len(key.ic)))
           neg_a   == Scale(G1FromBytes(proof.a), FieldOrder - 1)
       IN  Pairings(<<neg_a, key.alpha, vk_x, G1FromBytes(proof.c)>>,
                    <<G2FromBytes(proof.b), key.beta, key.gamma, key.delta>>)

\* ark-groth16: e(A, B) = e(alpha, beta) e(vk_x, gamma) e(C, delta), on points.
Groth16Verify(vk, x, proof) ==
    LET ic(i) == Log(G1, vk.ic[i])
        sum   == SumFunction([i \in DOMAIN x |-> x[i] * ic(i + 1)])
    IN  (Log(G1, proof.a) * Log(G2, proof.b)) % FieldOrder =
        (Log(G1, vk.alpha) * Log(G2, vk.beta) + (ic(1) + sum) * Log(G2, vk.gamma)
           + Log(G1, proof.c) * Log(G2, vk.delta)) % FieldOrder

\* attesta-prover verify says OK for a key file and the fields of a bundle.
CmdVerify(text, proof, inputs) ==
    /\ ParsesVkHex(text)
    /\ InputsOK(inputs)
    /\ LET vk == ParseVkHex(text)
       IN  /\ Len(vk.ic) = Len(inputs) + 1
           /\ IntactVk(vk)
           /\ Groth16Verify(VkFromBytes(vk), [i \in DOMAIN inputs |-> FrFromBytes(inputs[i])],
                            [a |-> G1FromBytes(proof.a), b |-> G2FromBytes(proof.b),
                             c |-> G1FromBytes(proof.c)])
=============================================================================
