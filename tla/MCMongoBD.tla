------------------------------ MODULE MCMongoBD ------------------------------
(* Instances of MongoBD for TLC: every worker has a key of its own, and all    *)
(* operations share a channel, which one of them fills.                        *)
EXTENDS MongoBD, TLC

MCWorkerOf == CHOOSE f \in [Keys -> Workers] :
                 \A w \in Workers : \E k \in Keys : f[k] = w
MCDoneOf == [o \in Ops |-> CHOOSE c \in Chans : TRUE]

=============================================================================
