------------------------------- MODULE MCProbe -------------------------------
(* Instances of Probe for TLC.                                                 *)
EXTENDS Probe, TLC

=============================================================================
