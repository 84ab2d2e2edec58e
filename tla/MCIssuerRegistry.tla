-------------------------- MODULE MCIssuerRegistry --------------------------
(***************************************************************************)
(* A small instance of the issuer registry for TLC.                        *)
(***************************************************************************)
EXTENDS IssuerRegistry, TLC

CONSTANTS i1, i2, s1, s2, a1, a2

\* Issuers and keys are interchangeable; admins are not, one is the first.
Symmetry == Permutations({i1, i2}) \cup Permutations({s1, s2})
=============================================================================
