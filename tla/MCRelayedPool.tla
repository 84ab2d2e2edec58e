---------------------------- MODULE MCRelayedPool ----------------------------
(***************************************************************************)
(* Small instances of the relayed pool for TLC.                            *)
(***************************************************************************)
EXTENDS RelayedPool, TLC

CONSTANTS u1, pool, k1, k2, d1, a1, vt, vw, vw2

Pinned == (vt :> "transfer") @@ (vw :> "withdraw") @@ (vw2 :> "withdraw")
Slots == [s \in VerifierSlot |-> IF s = "Transfer" THEN vt ELSE vw]

SmallAmounts == 0 .. NoteMax

TwoTwo == {<<2, 2>>}
=============================================================================
