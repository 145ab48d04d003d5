--------------------------- MODULE MCRegistryCache ---------------------------
(* Instances of RegistryCache for TLC: one actor, every registration with the  *)
(* same Lifetime in seconds.                                                   *)
EXTENDS RegistryCache, TLC

CONSTANTS Lifetime

MCTTL == [a \in Actors |-> Lifetime]
MCSymmetry == Permutations(Leases)

=============================================================================
