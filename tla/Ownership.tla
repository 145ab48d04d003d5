------------------------------ MODULE Ownership ------------------------------
(* What the registration of actors and the distributed lock promise, without   *)
(* Redis, messages or time: a resource has one owner at a time, and it changes *)
(* hands only through nobody.                                                  *)
CONSTANTS Resources, Clients, Nobody

VARIABLE owner  \* owner[r]: who may act as the owner of r

Init == owner = [r \in Resources |-> Nobody]

Acquire(r, c) ==
    /\ owner[r] = Nobody
    /\ owner' = [owner EXCEPT ![r] = c]

\* Given up, or run out: time may take several at once.
Release(rs) == owner' = [r \in Resources |-> IF r \in rs THEN Nobody ELSE owner[r]]

Next ==
    \/ \E r \in Resources, c \in Clients : Acquire(r, c)
    \/ \E rs \in SUBSET Resources : Release(rs)

Spec == Init /\ [][Next]_owner

=============================================================================
