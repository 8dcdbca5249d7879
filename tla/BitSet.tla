------------------------------- MODULE BitSet -------------------------------
(***************************************************************************)
(* What block_group.c takes a bit vector to be: a set of positions.        *)
(***************************************************************************)
EXTENDS Integers

CONSTANT Positions

VARIABLE bits    \* the positions that are set

Init == bits \in SUBSET Positions

Add(index)    == bits' = bits \cup {index}
Remove(index) == bits' = bits \ {index}

Next == \E index \in Positions : Add(index) \/ Remove(index)

Spec == Init /\ [][Next]_bits

=============================================================================
