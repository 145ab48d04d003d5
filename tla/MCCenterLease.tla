---------------------------- MODULE MCCenterLease ----------------------------
(* Instances of CenterLease for TLC.                                           *)
EXTENDS CenterLease, TLC

Symmetry == Permutations(Leases) \cup Permutations(Centers)

=============================================================================
