-------------------------- MODULE MCPoolGovernance --------------------------
(***************************************************************************)
(* A small instance of the pool's governance for TLC.                      *)
(***************************************************************************)
EXTENDS PoolGovernance

CONSTANTS a1, a2, v1, v2

Slots == [s \in VerifierSlot |-> v1]
=============================================================================
