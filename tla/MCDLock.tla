------------------------------- MODULE MCDLock -------------------------------
(* Instances of DLock for TLC.                                                 *)
EXTENDS DLock, TLC

MCSymmetry == Permutations(Holders)

=============================================================================
