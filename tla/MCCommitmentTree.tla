-------------------------- MODULE MCCommitmentTree --------------------------
(***************************************************************************)
(* A small instance of the commitment tree and the circuits for TLC.       *)
(***************************************************************************)
EXTENDS Circuits, TLC

CONSTANTS c1, c2, c3, c4, zero, other, k1, k2

\* Two notes that are inserted, one of a value that does not fit the width, and
\* two that are only created, one of them empty.
KnownOpenings ==
    (c1 :> [key |-> k1, value |-> 2]) @@ (c2 :> [key |-> k2, value |-> FieldOrder - 1]) @@
    (c3 :> [key |-> k1, value |-> 0]) @@ (c4 :> [key |-> k2, value |-> 1])
=============================================================================
