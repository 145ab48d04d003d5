----------------------------- MODULE SerialQueues -----------------------------
(* What the MongoDB backend promises about order, without workers: the          *)
(* operations accepted under one key are carried out one after another, in the  *)
(* order in which they were accepted; those of different keys in any order.     *)
EXTENDS Sequences

CONSTANTS Keys, Ops

VARIABLE pending  \* pending[k]: accepted and not carried out

Init == pending = [k \in Keys |-> <<>>]

Accept(k, o) == pending' = [pending EXCEPT ![k] = Append(pending[k], o)]

Complete(k) ==
    /\ pending[k] # <<>>
    /\ pending' = [pending EXCEPT ![k] = Tail(pending[k])]

Next == \E k \in Keys : Complete(k) \/ \E o \in Ops : Accept(k, o)

Spec == Init /\ [][Next]_pending

=============================================================================
