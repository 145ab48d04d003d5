---------------------------- MODULE MCNodeRouter -----------------------------
(* Instances of NodeRouter for TLC.                                            *)
EXTENDS NodeRouter, TLC

\* Every node belongs to one group, spread over the groups.
Spread == CHOOSE f \in [NodeIDs -> Groups] :
             \A g, h \in Groups :
                Cardinality({id \in NodeIDs : f[id] = g})
                    - Cardinality({id \in NodeIDs : f[id] = h}) <= 1
MCHomes == [id \in NodeIDs |-> {Spread[id]}]

=============================================================================
