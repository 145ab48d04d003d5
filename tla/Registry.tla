------------------------------ MODULE Registry -------------------------------
(* Ownership of actors in infra/actor/registry.go: RegisterActor,              *)
(* TakeOverActor, UnregisterActor and KeepActorAlive against one Redis key per *)
(* actor.                                                                      *)
(*                                                                             *)
(* A call is three steps: the request is sent, Redis runs the script, the      *)
(* reply is handled.  The context of a call expires after Timeout, and an      *)
(* abandoned request may still reach Redis later; the client library may also  *)
(* resend a request whose reply was lost.  Time is a Tick action that counts   *)
(* every timer down; nothing else measures it.                                 *)
(*                                                                             *)
(* The caller of the Registry is the actor runtime (gactor, external).  What   *)
(* it is assumed to do: one ownership call per node and actor at a time; every *)
(* RegisterActor and TakeOverActor with a fresh MakeLeaseID; one TTL per       *)
(* actor; a lease that was given to UnregisterActor, or handed to another node *)
(* for TakeOverActor, is not used again.                                       *)
EXTENDS RegistryScripts, FiniteSets

CONSTANTS Nodes,     \* processes, each with its own NodeId and Registry
          Actors,    \* ActorUIDs
          Leases,    \* what MakeLeaseID can return
          TTL,       \* TTL[a]: the TTL in seconds an actor is registered with, 0 = never expires
          Timeout,   \* registryTimeout, in ticks
          MaxLate    \* bound: requests abandoned by their callers and still to be executed

ASSUME RegistryAssumption ==
    /\ NoNode \notin Nodes
    /\ NoLease \notin Leases
    /\ TTL \in [Actors -> Nat]
    /\ Timeout \in Nat
    /\ MaxLate \in Nat

VARIABLES rec,    \* rec[a]: the registration key of actor a
          call,   \* call[n][a]: the ownership call of node n on actor a in flight
          late,   \* requests that were abandoned and may still be executed
          lease,  \* lease[n][a]: the lease the runtime of n uses for a
          hold,   \* hold[n][a]: ticks for which n may treat a as its own
          used    \* leases MakeLeaseID has returned

regVars == <<rec, call, late, lease, hold, used>>

-----------------------------------------------------------------------------
Request(op, n, a, l, src) ==
    [op |-> op, node |-> n, uid |-> a, lease |-> l, source |-> src]
NoRequest == [op |-> "none", node |-> NoNode, uid |-> NoNode, lease |-> NoLease, source |-> NoLease]

Idle == [st |-> "idle", req |-> NoRequest, left |-> 0, reply |-> NoReply]
Sent(q) == [st |-> "sent", req |-> q, left |-> Timeout, reply |-> NoReply]

RunScript(r, q) ==
    CASE q.op = "register"   -> registerActorScript(r, q, TTL[q.uid])
      [] q.op = "takeover"   -> takeOverActorScript(r, q, TTL[q.uid])
      [] q.op = "unregister" -> unregisterActorScript(r, q)
      [] q.op = "keepalive"  -> keepAliveActorScript(r, q, TTL[q.uid])

\* How long a grant answered now lasts if it is counted from the moment the
\* call began, `left` ticks before its deadline.
Granted(a, left) ==
    LET rest == Expiry(TTL[a]) - (Timeout - left)
    IN  IF TTL[a] = 0 THEN Persist ELSE IF rest > 0 THEN rest ELSE 0

RegInit ==
    /\ rec = [a \in Actors |-> NoRecord]
    /\ call = [n \in Nodes |-> [a \in Actors |-> Idle]]
    /\ late = {}
    /\ lease = [n \in Nodes |-> [a \in Actors |-> NoLease]]
    /\ hold = [n \in Nodes |-> [a \in Actors |-> 0]]
    /\ used = {}

-----------------------------------------------------------------------------
Begin(n, a, q) ==
    /\ call[n][a].st = "idle"
    /\ call' = [call EXCEPT ![n][a] = Sent(q)]
    /\ UNCHANGED <<rec, late>>

\* MakeLeaseID: globally unique.
MakeLeaseID(l) == l \in Leases \ used /\ used' = used \cup {l}

RegisterActor(n, a, l) ==
    /\ lease[n][a] = NoLease
    /\ MakeLeaseID(l)
    /\ Begin(n, a, Request("register", n, a, l, NoLease))
    /\ UNCHANGED <<lease, hold>>

\* Node m migrates the actor to n: it stops, and hands its lease over.
TakeOverActor(n, m, a, l) ==
    /\ lease[n][a] = NoLease
    /\ lease[m][a] # NoLease /\ call[m][a].st = "idle"
    /\ MakeLeaseID(l)
    /\ Begin(n, a, Request("takeover", n, a, l, lease[m][a]))
    /\ lease' = [lease EXCEPT ![m][a] = NoLease]
    /\ hold' = [hold EXCEPT ![m][a] = 0]

UnregisterActor(n, a) ==
    /\ lease[n][a] # NoLease
    /\ Begin(n, a, Request("unregister", n, a, lease[n][a], NoLease))
    /\ lease' = [lease EXCEPT ![n][a] = NoLease]
    /\ hold' = [hold EXCEPT ![n][a] = 0]
    /\ UNCHANGED used

KeepActorAlive(n, a) ==
    /\ lease[n][a] # NoLease
    /\ Begin(n, a, Request("keepalive", n, a, lease[n][a], NoLease))
    /\ UNCHANGED <<lease, hold, used>>

-----------------------------------------------------------------------------
\* Redis runs the script of a call that is waiting for its reply.
Execute(n, a) ==
    LET e == RunScript(rec[a], call[n][a].req)
    IN  /\ call[n][a].st = "sent"
        /\ rec' = [rec EXCEPT ![a] = e.rec]
        /\ call' = [call EXCEPT ![n][a] = [@ EXCEPT !.st = "replied", !.reply = e.reply]]
        /\ UNCHANGED <<late, lease, hold, used>>

\* The reply is lost and the client library sends the request again.
Resend(n, a) ==
    /\ call[n][a].st = "replied"
    /\ call' = [call EXCEPT ![n][a] = [@ EXCEPT !.st = "sent", !.reply = NoReply]]
    /\ UNCHANGED <<rec, late, lease, hold, used>>

\* Redis runs a request nobody waits for any more.
ExecuteLate(q) ==
    /\ q \in late
    /\ rec' = [rec EXCEPT ![q.uid] = RunScript(rec[q.uid], q).rec]
    /\ late' = late \ {q}
    /\ UNCHANGED <<call, lease, hold, used>>

LoseLate(q) ==
    /\ q \in late
    /\ late' = late \ {q}
    /\ UNCHANGED <<rec, call, lease, hold, used>>

\* The reply arrives: an acquisition or a renewal that succeeded counts from
\* the moment the call began; a renewal that was refused ends the ownership.
Return(n, a) ==
    LET c  == call[n][a]
        ok == c.reply.code = "ok"
    IN  /\ c.st = "replied"
        /\ call' = [call EXCEPT ![n][a] = Idle]
        /\ lease' = [lease EXCEPT ![n][a] =
              CASE ok /\ c.req.op \in {"register", "takeover"} -> c.req.lease
                [] ~ok /\ c.req.op = "keepalive" -> NoLease
                [] OTHER -> @]
        /\ hold' = [hold EXCEPT ![n][a] =
              CASE ok /\ c.req.op # "unregister" -> Granted(a, c.left)
                [] ~ok /\ c.req.op = "keepalive" -> 0
                [] OTHER -> @]
        /\ UNCHANGED <<rec, late, used>>

\* The call ends with an error: the context expired or the connection failed.
\* If its script has not run yet, the request is lost or may still run.
Fail(n, a) ==
    /\ call[n][a].st # "idle"
    /\ call' = [call EXCEPT ![n][a] = Idle]
    /\ \/ late' = late
       \/ /\ call[n][a].st = "sent"
          /\ Cardinality(late) < MaxLate
          /\ late' = late \cup {call[n][a].req}
    /\ UNCHANGED <<rec, lease, hold, used>>

-----------------------------------------------------------------------------
CountDown(t) == IF t > 0 THEN t - 1 ELSE t

\* A key is alive while PTTL >= 0 and gone one tick after PTTL = 0.
Age(r) ==
    IF r.pttl = Persist THEN r
    ELSE IF r.pttl = 0 THEN NoRecord
    ELSE [r EXCEPT !.pttl = @ - 1]

\* One tick of time.  A call whose context has expired ends before it.
RegTick ==
    /\ \A n \in Nodes, a \in Actors : call[n][a].st # "idle" => call[n][a].left > 0
    /\ rec' = [a \in Actors |-> Age(rec[a])]
    /\ call' = [n \in Nodes |-> [a \in Actors |->
                  [call[n][a] EXCEPT !.left = CountDown(@)]]]
    /\ hold' = [n \in Nodes |-> [a \in Actors |-> CountDown(hold[n][a])]]
    /\ UNCHANGED <<late, lease, used>>

Call(n, a) ==
    \/ \E l \in Leases : RegisterActor(n, a, l)
    \/ \E m \in Nodes \ {n}, l \in Leases : TakeOverActor(n, m, a, l)
    \/ UnregisterActor(n, a)
    \/ KeepActorAlive(n, a)

Step(n, a) == Execute(n, a) \/ Resend(n, a) \/ Return(n, a) \/ Fail(n, a)

RegNext ==
    \/ \E n \in Nodes, a \in Actors : Call(n, a) \/ Step(n, a)
    \/ \E q \in late : ExecuteLate(q) \/ LoseLate(q)
    \/ RegTick

RegSpec == RegInit /\ [][RegNext]_regVars

-----------------------------------------------------------------------------
(* Properties.                                                                 *)

Ops == {"register", "takeover", "unregister", "keepalive"}
Acquires == {"register", "takeover"}
Ticks == {Persist} \cup Nat

Requests == [op : Ops, node : Nodes, uid : Actors, lease : Leases, source : Leases \cup {NoLease}]
Records == [node : Nodes, lease : Leases, pttl : Ticks]
Codes == {"none", "ok", "not_exists", "already_registered", "lease_mismatch"}
Replies == [code : Codes, node : Nodes \cup {NoNode}, ttl : Int]
Calls == [st : {"sent", "replied"}, req : Requests, left : 0..Timeout, reply : Replies]

\* Type invariant of the ownership protocol.
RegTypeOK ==
    /\ rec \in [Actors -> Records \cup {NoRecord}]
    /\ call \in [Nodes -> [Actors -> Calls \cup {Idle}]]
    /\ late \subseteq Requests
    /\ lease \in [Nodes -> [Actors -> Leases \cup {NoLease}]]
    /\ hold \in [Nodes -> [Actors -> Ticks]]
    /\ used \subseteq Leases

\* While a node may treat an actor as its own - its last successful RegisterActor,
\* TakeOverActor or KeepActorAlive, counted from when the call began, has not run
\* out, and it has neither unregistered nor handed over its lease - the key
\* names that node.  So no other node can register the actor, whatever abandoned,
\* repeated or reordered requests Redis still executes.
HolderIsRegistered ==
    \A n \in Nodes, a \in Actors : hold[n][a] # 0 => rec[a].node = n

\* The two owners that registration is there to prevent: no two nodes treat the same
\* actor as theirs at the same time.
ExclusiveHold ==
    \A a \in Actors, n, m \in Nodes : hold[n][a] # 0 /\ hold[m][a] # 0 => n = m

\* Registration implements exclusive ownership of every actor: even a migration goes
\* through a moment in which nobody holds the actor.
actorOwner(a) ==
    IF \E n \in Nodes : hold[n][a] # 0 THEN CHOOSE n \in Nodes : hold[n][a] # 0 ELSE NoNode
Abstract == INSTANCE Ownership WITH
    Resources <- Actors, Clients <- Nodes, Nobody <- NoNode,
    owner <- [a \in Actors |-> actorOwner(a)]
ImplementsOwnership == Abstract!Spec

\* A TakeOverActor that succeeded fences the source for good: the lease it
\* replaced is never again the lease of the key, so no request that still carries it
\* can renew, remove or hand over the registration.
SourceFenced ==
    \A a \in Actors, l \in Leases :
        []((\E n \in Nodes : /\ call[n][a].st = "replied"
                             /\ call[n][a].req.op = "takeover"
                             /\ call[n][a].req.source = l
                             /\ call[n][a].reply.code = "ok")
           => [](rec[a].lease # l))

\* Nobody can renew lease l of actor a any more.
Orphaned(a, l) ==
    /\ rec[a].lease = l
    /\ \A n \in Nodes : lease[n][a] # l /\ call[n][a].req.lease # l
    /\ \A q \in late : q.lease # l

\* A registration whose caller gave up (its reply was lost, or the request ran after
\* the caller's context expired) does not block the actor for ever when it has a TTL.
OrphanLapses ==
    \A a \in Actors, l \in Leases :
        TTL[a] > 0 => (Orphaned(a, l) ~> rec[a].lease # l)

\* Contexts expire, so every call ends, and time goes on.
RegFairness ==
    /\ WF_regVars(RegTick)
    /\ \A n \in Nodes, a \in Actors :
          WF_regVars(call[n][a].left = 0 /\ (Return(n, a) \/ Fail(n, a)))

RegLiveSpec == RegSpec /\ RegFairness

-----------------------------------------------------------------------------
(* The inductive invariant behind HolderIsRegistered.                          *)

Pending(a) ==
    {call[n][a].req : n \in {m \in Nodes : call[m][a].st # "idle"}}
        \cup {q \in late : q.uid = a}

\* No request on its way to Redis can take lease l of actor a away.
KillFree(a, l) ==
    \A q \in Pending(a) : /\ q.op = "unregister" => q.lease # l
                          /\ q.op = "takeover" => q.source # l

\* What n has been granted and may not know of yet.
Answered(n, a) ==
    IF /\ call[n][a].st = "replied" /\ call[n][a].reply.code = "ok"
       /\ call[n][a].req.op # "unregister"
    THEN Granted(a, call[n][a].left) ELSE 0

\* The key belongs to n for t more ticks, and nothing pending can end it.
Backed(n, a, t) ==
    t # 0 => /\ rec[a].node = n
             /\ KillFree(a, rec[a].lease)
             /\ IF TTL[a] = 0 THEN t = Persist ELSE t > 0 /\ t <= rec[a].pttl

\* Every ownership, known to its node or still in a reply, is backed by the key.
HoldsBacked ==
    \A n \in Nodes, a \in Actors :
        Backed(n, a, hold[n][a]) /\ Backed(n, a, Answered(n, a))

\* A lease in use is in no request that gives it away, belongs to one node, and
\* only a call on it can be in flight while its node holds the actor.
LeasesOwned ==
    \A n \in Nodes, a \in Actors :
        /\ lease[n][a] = NoLease => hold[n][a] = 0
        /\ lease[n][a] # NoLease =>
              /\ lease[n][a] \in used
              /\ KillFree(a, lease[n][a])
              /\ rec[a].lease = lease[n][a] => rec[a].node = n
              /\ \A m \in Nodes : lease[m][a] = lease[n][a] => m = n
              /\ call[n][a].st # "idle" =>
                    call[n][a].req.op = "keepalive" /\ call[n][a].req.lease = lease[n][a]

\* The lease of a pending acquisition is known to nobody else.
AcquisitionsFresh ==
    \A a \in Actors : \A q \in Pending(a) :
        q.op \in Acquires =>
            /\ q.lease \in used
            /\ KillFree(a, q.lease)
            /\ rec[a].lease = q.lease => rec[a].node = q.node
            /\ \A n \in Nodes : lease[n][a] # q.lease
            /\ \A p \in Pending(a) : p.op \in Acquires /\ p.lease = q.lease => p = q

\* A pending request carries leases that were made, and belongs to its call; an
\* acquisition is a call in flight or a late request, not both.
PendingSane ==
    /\ \A a \in Actors : \A q \in Pending(a) :
          /\ q.uid = a
          /\ q.lease \in used
          /\ q.op = "takeover" => q.source \in used
    /\ \A n \in Nodes, a \in Actors : call[n][a].st # "idle" =>
          /\ call[n][a].req.node = n
          /\ call[n][a].req.op \in Acquires => call[n][a].req \notin late
          /\ call[n][a].req.op = "keepalive" => lease[n][a] = call[n][a].req.lease

RecordsSane ==
    \A a \in Actors : rec[a] # NoRecord =>
        /\ rec[a].lease \in used
        /\ IF TTL[a] = 0 THEN rec[a].pttl = Persist
           ELSE rec[a].pttl \in 0..Expiry(TTL[a])

RegInv ==
    /\ RegTypeOK
    /\ RecordsSane
    /\ PendingSane
    /\ LeasesOwned
    /\ AcquisitionsFresh
    /\ HoldsBacked

=============================================================================
