------------------------------ MODULE MCRegistry ------------------------------
(* Instances of Registry for TLC: every actor with the same Lifetime.          *)
EXTENDS Registry, TLC

CONSTANTS Lifetime

MCTTL == [a \in Actors |-> Lifetime]
MCSymmetry == Permutations(Nodes) \cup Permutations(Leases)

=============================================================================
