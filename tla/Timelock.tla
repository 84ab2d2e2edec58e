------------------------------ MODULE Timelock ------------------------------
(***************************************************************************)
(* What every governed setting of the protocol promises to the people who  *)
(* watch it: a setting changes only to a value that has been announced,    *)
(* and only after the announcement has stood for the whole Delay.  The     *)
(* pool's verifier slots and admin, the attestation registry's admin and   *)
(* the issuer registry's admin are each shown to implement this module.    *)
(***************************************************************************)
EXTENDS Integers

CONSTANTS
    Items,      \* the governed settings
    Values,     \* the values a setting may take
    Delay       \* how long an announcement stands before it may be enacted

VARIABLES
    setting,    \* [Items -> Values]: what is in force
    announced,  \* item |-> [target, since], for the items being changed
    clock

vars == <<setting, announced, clock>>

Init ==
    /\ setting \in [Items -> Values]
    /\ announced = << >>
    /\ clock \in Nat

\* Announcing again replaces the target and starts the delay afresh.
Announce(i, v) ==
    /\ announced' = [j \in DOMAIN announced \cup {i} |->
                        IF j = i THEN [target |-> v, since |-> clock]
                                 ELSE announced[j]]
    /\ UNCHANGED <<setting, clock>>

Without(i) == [j \in DOMAIN announced \ {i} |-> announced[j]]

Retract(i) ==
    /\ i \in DOMAIN announced
    /\ announced' = Without(i)
    /\ UNCHANGED <<setting, clock>>

Enact(i) ==
    /\ i \in DOMAIN announced
    /\ clock - announced[i].since >= Delay
    /\ setting' = [setting EXCEPT ![i] = announced[i].target]
    /\ announced' = Without(i)
    /\ UNCHANGED clock

Advance ==
    /\ clock' \in Nat
    /\ clock' > clock
    /\ UNCHANGED <<setting, announced>>

Next ==
    \/ \E i \in Items : \/ \E v \in Values : Announce(i, v)
                        \/ Retract(i)
                        \/ Enact(i)
    \/ Advance

Spec == Init /\ [][Next]_vars
=============================================================================
