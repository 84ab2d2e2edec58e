---------------------------- MODULE MCGatedPool ----------------------------
(***************************************************************************)
(* A small gated pool for TLC.                                             *)
(***************************************************************************)
EXTENDS GatedPool, TLC

CONSTANTS i1, s1, a1, a2, alice, bob, kyc, income, r1, r2, vKyc, vIncome, pool, k1, d1, pa, vt, vw

Kind == (kyc :> "kyc_level") @@ (income :> "income_above")
Circuits == (vKyc :> "kyc_level") @@ (vIncome :> "income_above")

Credential(ref, claim, expiry) ==
    [key |-> s1, ref |-> ref, claim |-> claim, subject |-> alice, expiry |-> expiry]

\* Two claims of different kinds from one key; the gate asks for the first.
TwoClaims == {Credential(r1, kyc, 1), Credential(r2, income, 1)}

Pinned == (vt :> "transfer") @@ (vw :> "withdraw")
Slots == [s \in {"Transfer", "Withdraw"} |-> IF s = "Transfer" THEN vt ELSE vw]
TwoTwo == {<<2, 2>>}
=============================================================================
