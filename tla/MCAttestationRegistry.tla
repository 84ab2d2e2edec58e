------------------------ MODULE MCAttestationRegistry ------------------------
(***************************************************************************)
(* A small instance of the attestation layer for TLC.                      *)
(***************************************************************************)
EXTENDS AttestationRegistry, TLC

CONSTANTS i1, s1, s2, a1, alice, kyc, r1, r2, vKyc

OneKind == kyc :> "kyc_level"
OneCircuit == vKyc :> "kyc_level"

Credential(key, ref, expiry) ==
    [key |-> key, ref |-> ref, claim |-> kyc, subject |-> alice, expiry |-> expiry]

\* The same claim from two issuers' keys, with different lifetimes.
TwoCredentials == {Credential(s1, r1, 2), Credential(s2, r2, 3)}
=============================================================================
