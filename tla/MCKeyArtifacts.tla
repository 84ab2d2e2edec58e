--------------------------- MODULE MCKeyArtifacts ---------------------------
(***************************************************************************)
(* A small instance of the artifact directory for TLC, with a grid of      *)
(* calls to the verifiers.                                                 *)
(***************************************************************************)
EXTENDS KeyArtifacts

CONSTANTS b1, wip

SomeTears == {<<0, FALSE>>, <<1, TRUE>>, <<4, FALSE>>, <<5, FALSE>>, <<6, FALSE>>, <<6, TRUE>>}

\* Keys by discrete logarithm; the sources wip have a withdraw circuit with one
\* public input more than main expects.
Key(alpha, beta, gamma, delta, ic) ==
    [alpha |-> G1[alpha], beta |-> G2[beta], gamma |-> G2[gamma], delta |-> G2[delta],
     ic |-> [i \in DOMAIN ic |-> G1[ic[i]]]]
SomeSetup ==
    (b1  :> [transfer |-> Key(2, 3, 4, 5, <<1, 6, 7>>), withdraw |-> Key(3, 1, 2, 6, <<0, 5>>)]) @@
    (wip :> [transfer |-> Key(4, 2, 1, 3, <<3, 2, 9>>), withdraw |-> Key(5, 4, 3, 2, <<6, 1, 4>>)])

SomeParameters ==
    LET ark(k) == [round \in 1 .. Rounds |-> [i \in Lanes |-> (k * round + i * i) % FieldOrder]]
        mds(k) == << <<1, 2, k>>, <<3, 5, 7>>, <<k + 1, 4, 9>> >>
    IN  (b1 :> [ark |-> ark(2), mds |-> mds(1)]) @@ (wip :> [ark |-> ark(5), mds |-> mds(6)])

\* A small grid of proofs; one input in four is not canonical.
SomeProofs == [a : {G1[0], G1[2], G1[FieldOrder - 1]}, b : {G2[1], G2[3]}, c : {G1[0], G1[5]}]
SomeEncodings == {FrToBytes(1), FrToBytes(5), FrToBytes(12), FrToBytes(FieldOrder + 1)}
SomeInputs == [transfer |-> 2, withdraw |-> 1]
=============================================================================
