--------------------------- MODULE MCShieldedPool ---------------------------
(***************************************************************************)
(* Small instances of the shielded pool for TLC.                           *)
(***************************************************************************)
EXTENDS ShieldedPoolProps, TLC

CONSTANTS u1, pool, k1, k2, d1, a1, a2, vt, vw, vw2

Pinned == (vt :> "transfer") @@ (vw :> "withdraw") @@ (vw2 :> "withdraw")
Slots == [s \in VerifierSlot |-> IF s = "Transfer" THEN vt ELSE vw]

SmallAmounts == -1 .. NoteMax + 1

TwoTwo == {<<2, 2>>}
AnySplit == {<<1, 3>>, <<2, 2>>, <<3, 1>>}
=============================================================================
