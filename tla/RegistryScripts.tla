--------------------------- MODULE RegistryScripts ---------------------------
(* The five Lua scripts of infra/actor/registry.go, as functions of the value  *)
(* of one registration key.  Redis runs a script atomically, so the Registry   *)
(* module applies one of these operators per step.                             *)
(*                                                                             *)
(* The key is a hash {node_id, lease_id, revision} or, when an older release   *)
(* wrote it, a JSON string {NodeId, LeaseId}; every script first decodes       *)
(* either layout to the same pair, so a record here is that pair and the       *)
(* key's PTTL.  "revision" is written and never read, and is left out.         *)
EXTENDS Integers

CONSTANTS NoNode,   \* node_id of a missing key
          NoLease,  \* lease_id of a missing key
          Second    \* ticks of the model's clock in one second

ASSUME SecondAssumption == Second \in Nat \ {0}

\* What PTTL answers for a key that never expires.
Persist == -1

NoRecord == [node |-> NoNode, lease |-> NoLease, pttl |-> Persist]

\* EXPIRE key ttl when ttl > 0, otherwise PERSIST key.
Expiry(ttl) == IF ttl > 0 THEN ttl * Second ELSE Persist

\* PTTL rounded up to seconds: zero (less than a millisecond is left) and -1
\* (no expiry) are passed on as they are.
CeilSeconds(pttl) == IF pttl > 0 THEN (pttl + Second - 1) \div Second ELSE pttl

Reply(code, node, ttl) == [code |-> code, node |-> node, ttl |-> ttl]
NoReply == Reply("none", NoNode, 0)

\* A script's effect: the key's new value, its reply, and whether it added an
\* entry to the change stream.
Effect(r, reply, xadd) == [rec |-> r, reply |-> reply, xadd |-> xadd]

Held(q, ttl) == [node |-> q.node, lease |-> q.lease, pttl |-> Expiry(ttl)]

\* Mutant: the conflict check is missing.
registerActorScript_Overwrites(r, q, ttl) ==
    Effect(Held(q, ttl), Reply("ok", q.node, ttl), FALSE)

\* A key held by another node is reported; a key of the same node is
\* overwritten without looking at its lease.
registerActorScript(r, q, ttl) ==
    IF r.node # NoNode /\ r.node # q.node
    THEN Effect(r, Reply("already_registered", r.node, CeilSeconds(r.pttl)), FALSE)
    ELSE Effect(Held(q, ttl), Reply("ok", q.node, ttl), FALSE)

\* Mutant: only node_id is written.
takeOverActorScript_KeepsLease(r, q, ttl) ==
    IF r.node = NoNode THEN Effect(r, Reply("not_exists", NoNode, 0), FALSE)
    ELSE IF r.lease # q.source
    THEN Effect(r, Reply("lease_mismatch", NoNode, 0), FALSE)
    ELSE Effect([Held(q, ttl) EXCEPT !.lease = r.lease], Reply("ok", q.node, ttl), TRUE)

\* The source lease is compared, the source node is not.
takeOverActorScript(r, q, ttl) ==
    IF r.node = NoNode THEN Effect(r, Reply("not_exists", NoNode, 0), FALSE)
    ELSE IF r.lease # q.source
    THEN Effect(r, Reply("lease_mismatch", NoNode, 0), FALSE)
    ELSE Effect(Held(q, ttl), Reply("ok", q.node, ttl), TRUE)

Mismatch(r, q) == r.node # q.node \/ r.lease # q.lease

unregisterActorScript(r, q) ==
    IF r.node = NoNode THEN Effect(r, Reply("not_exists", NoNode, 0), FALSE)
    ELSE IF Mismatch(r, q)
    THEN Effect(r, Reply("lease_mismatch", NoNode, 0), FALSE)
    ELSE Effect(NoRecord, Reply("ok", NoNode, 0), TRUE)

\* Mutant: the key is always persisted.
keepAliveActorScript_Persists(r, q, ttl) ==
    IF r.node = NoNode THEN Effect(r, Reply("not_exists", NoNode, 0), FALSE)
    ELSE IF Mismatch(r, q)
    THEN Effect(r, Reply("lease_mismatch", NoNode, 0), FALSE)
    ELSE Effect([r EXCEPT !.pttl = Persist], Reply("ok", NoNode, 0), FALSE)

keepAliveActorScript(r, q, ttl) ==
    IF r.node = NoNode THEN Effect(r, Reply("not_exists", NoNode, 0), FALSE)
    ELSE IF Mismatch(r, q)
    THEN Effect(r, Reply("lease_mismatch", NoNode, 0), FALSE)
    ELSE Effect([r EXCEPT !.pttl = Expiry(ttl)], Reply("ok", NoNode, 0), FALSE)

\* PTTL = 0 and PTTL = -1 both become 0, which the caller reads as "never".
getActorRegScript(r) ==
    IF r.node = NoNode THEN Reply("not_exists", NoNode, 0)
    ELSE Reply("ok", r.node, IF r.pttl > 0 THEN CeilSeconds(r.pttl) ELSE 0)

=============================================================================
