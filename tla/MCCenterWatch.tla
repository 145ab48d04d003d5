---------------------------- MODULE MCCenterWatch ----------------------------
(* Instances of CenterWatch for TLC.                                           *)
EXTENDS CenterWatch, TLC

\* Every node has a group of its own that it keeps.
MCHomes == CHOOSE f \in [NodeIDs -> {{g} : g \in Groups}] :
              \A g \in Groups : \E id \in NodeIDs \ {Self} : f[id] = {g}

=============================================================================
