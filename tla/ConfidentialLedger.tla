------------------------- MODULE ConfidentialLedger -------------------------
(***************************************************************************)
(* What a shielded pool is, without trees, roots, nullifiers or proofs: a  *)
(* set of unspent notes and the tokens that back them.  A note is created  *)
(* once, spent at most once, and value is neither created nor destroyed.   *)
(***************************************************************************)
EXTENDS Integers, FiniteSets

CONSTANTS Owners

VARIABLES
    notes,      \* the unspent notes: [id, owner, value]
    issued,     \* how many notes were ever created, spent ones included
    escrow      \* tokens held for them

vars == <<notes, issued, escrow>>

\* The value of a set of notes, counted unit by unit.
Value(ns) == Cardinality(UNION {{n.id} \X (1 .. n.value) : n \in ns})

Init == notes = {} /\ issued = 0 /\ escrow = 0

NewNote(id, owner, value) == [id |-> id, owner |-> owner, value |-> value]

Lock ==
    /\ issued' = issued + 1
    /\ escrow' > escrow
    /\ \E owner \in Owners :
          notes' = notes \cup {NewNote(issued, owner, escrow' - escrow)}

\* At most two notes are consumed; the two created ones may be worth nothing.
Reshape ==
    /\ issued' = issued + 2
    /\ notes \ notes' \in {ns \in SUBSET notes : Cardinality(ns) <= 2}
    /\ \E a, b \in notes' : /\ a.id = issued /\ b.id = issued + 1
                            /\ a.owner \in Owners /\ b.owner \in Owners
                            /\ notes' \ notes = {a, b}
                            /\ Value(notes \ notes') = a.value + b.value
    /\ UNCHANGED escrow

\* Pays a note out in full; paid to the pool itself, the tokens stay.
Release ==
    \E n \in notes :
       /\ n.value > 0
       /\ notes' = notes \ {n}
       /\ escrow' \in {escrow - n.value, escrow}
       /\ UNCHANGED issued

Donate ==
    /\ escrow' > escrow
    /\ UNCHANGED <<notes, issued>>

Next == Lock \/ Reshape \/ Release \/ Donate

Spec == Init /\ [][Next]_vars
=============================================================================
