---------------------------- MODULE RegistryProofs ----------------------------
(* Proofs about the ownership protocol of Registry, for any number of nodes,   *)
(* actors, leases and abandoned requests, any TTLs and any timeout; then, from *)
(* "The cache" on, about RegistryCache: it implements Registry, how old what   *)
(* is cached may be, and what a consumer of the change stream applies.         *)
EXTENDS RegistryCache, WellFoundedInduction, TLAPS

USE DEF Persist

\* What a script leaves in the key, and what it answers, is well formed.
LEMMA ScriptTypes ==
    ASSUME NEW r \in Records \cup {NoRecord}, NEW q \in Requests
    PROVE  /\ RunScript(r, q).rec \in Records \cup {NoRecord}
           /\ RunScript(r, q).reply \in Replies
  <1>1. TTL[q.uid] \in Nat /\ Expiry(TTL[q.uid]) \in Ticks /\ q.node \in Nodes /\ q.lease \in Leases
    <2>1. TTL[q.uid] \in Nat
      BY RegistryAssumption DEF Requests
    <2>2. ASSUME NEW t \in Nat, t > 0 PROVE t * Second \in Nat
      BY SecondAssumption
    <2> QED BY <2>1, <2>2, SecondAssumption DEF Expiry, Ticks, Requests
  <1>2. r.pttl \in Ticks
    BY DEF Records, NoRecord, Ticks
  <1>3. CeilSeconds(r.pttl) \in Int
    BY <1>2, SecondAssumption DEF CeilSeconds, Ticks
  <1>4. Held(q, TTL[q.uid]) \in Records
    BY <1>1 DEF Held, Records
  <1>5. CASE q.op = "register"
    <2>1. RunScript(r, q) = registerActorScript(r, q, TTL[q.uid])
      BY <1>5 DEF RunScript
    <2>2. r.node # NoNode => r.node \in Nodes
      BY DEF Records, NoRecord
    <2> QED BY <2>1, <2>2, <1>1, <1>3, <1>4
         DEF registerActorScript, Effect, Reply, Replies, Codes
  <1>6. CASE q.op = "takeover"
    BY <1>6, <1>1, <1>4 DEF RunScript, takeOverActorScript, Effect, Reply, Replies, Codes
  <1>7. CASE q.op = "unregister"
    BY <1>7 DEF RunScript, unregisterActorScript, Effect, Reply, Replies, Codes
  <1>8. CASE q.op = "keepalive"
    <2>1. RunScript(r, q) = keepAliveActorScript(r, q, TTL[q.uid])
      BY <1>8 DEF RunScript
    <2>2. r.node # NoNode => [r EXCEPT !.pttl = Expiry(TTL[q.uid])] \in Records
      BY <1>1 DEF Records, NoRecord
    <2> QED BY <2>1, <2>2 DEF keepAliveActorScript, Effect, Reply, Replies, Codes
  <1> QED BY <1>5, <1>6, <1>7, <1>8 DEF Requests, Ops

\* The time for which an answered grant may be used is a number of ticks.
LEMMA GrantedTypes ==
    ASSUME NEW a \in Actors, NEW left \in 0..Timeout
    PROVE  Granted(a, left) \in Ticks
  <1>1. TTL[a] \in Nat /\ Timeout \in Nat
    BY RegistryAssumption
  <1>2. TTL[a] # 0 => TTL[a] * Second \in Nat
    BY <1>1, SecondAssumption
  <1> QED BY <1>1, <1>2 DEF Granted, Expiry, Ticks

LEMMA RegTypeInit == RegInit => RegTypeOK
  BY DEF RegInit, RegTypeOK, Ticks

\* Beginning a call stores a well-formed request.
LEMMA BeginTypes ==
    ASSUME RegTypeOK, NEW n \in Nodes, NEW a \in Actors, NEW q \in Requests,
           call' = [call EXCEPT ![n][a] = Sent(q)]
    PROVE  call' \in [Nodes -> [Actors -> Calls \cup {Idle}]]
  <1>1. Sent(q) \in Calls
    BY RegistryAssumption DEF Sent, Calls, NoReply, Reply, Replies, Codes
  <1> QED BY <1>1 DEF RegTypeOK

LEMMA RegTypeStep == RegTypeOK /\ [RegNext]_regVars => RegTypeOK'
  <1> SUFFICES ASSUME RegTypeOK, [RegNext]_regVars PROVE RegTypeOK'
    OBVIOUS
  <1>1. CASE UNCHANGED regVars
    BY <1>1 DEF regVars, RegTypeOK
  <1>2. ASSUME NEW n \in Nodes, NEW a \in Actors, Call(n, a) PROVE RegTypeOK'
    <2>1. ASSUME NEW l \in Leases, RegisterActor(n, a, l) PROVE RegTypeOK'
      <3>1. Request("register", n, a, l, NoLease) \in Requests
        BY DEF Request, Requests, Ops
      <3>2. call' \in [Nodes -> [Actors -> Calls \cup {Idle}]]
        BY <2>1, <3>1, BeginTypes DEF RegisterActor, Begin
      <3> QED BY <2>1, <3>2 DEF RegisterActor, Begin, MakeLeaseID, RegTypeOK
    <2>2. ASSUME NEW m \in Nodes \ {n}, NEW l \in Leases, TakeOverActor(n, m, a, l) PROVE RegTypeOK'
      <3>1. Request("takeover", n, a, l, lease[m][a]) \in Requests
        BY DEF Request, Requests, Ops, RegTypeOK
      <3>2. call' \in [Nodes -> [Actors -> Calls \cup {Idle}]]
        BY <2>2, <3>1, BeginTypes DEF TakeOverActor, Begin
      <3>3. 0 \in Ticks
        BY DEF Ticks
      <3> QED BY <2>2, <3>2, <3>3 DEF TakeOverActor, Begin, MakeLeaseID, RegTypeOK
    <2>3. CASE UnregisterActor(n, a)
      <3>1. Request("unregister", n, a, lease[n][a], NoLease) \in Requests
        BY <2>3 DEF UnregisterActor, Request, Requests, Ops, RegTypeOK
      <3>2. call' \in [Nodes -> [Actors -> Calls \cup {Idle}]]
        BY <2>3, <3>1, BeginTypes DEF UnregisterActor, Begin
      <3>3. 0 \in Ticks
        BY DEF Ticks
      <3> QED BY <2>3, <3>2, <3>3 DEF UnregisterActor, Begin, RegTypeOK
    <2>4. CASE KeepActorAlive(n, a)
      <3>1. Request("keepalive", n, a, lease[n][a], NoLease) \in Requests
        BY <2>4 DEF KeepActorAlive, Request, Requests, Ops, RegTypeOK
      <3>2. call' \in [Nodes -> [Actors -> Calls \cup {Idle}]]
        BY <2>4, <3>1, BeginTypes DEF KeepActorAlive, Begin
      <3> QED BY <2>4, <3>2 DEF KeepActorAlive, Begin, RegTypeOK
    <2> QED BY <1>2, <2>1, <2>2, <2>3, <2>4 DEF Call
  <1>3. ASSUME NEW n \in Nodes, NEW a \in Actors, Execute(n, a) PROVE RegTypeOK'
    <2> DEFINE c == call[n][a]
    <2>1. c \in Calls
      BY <1>3 DEF Execute, RegTypeOK, Idle
    <2>2. c.req \in Requests /\ rec[a] \in Records \cup {NoRecord}
      BY <2>1 DEF Calls, RegTypeOK
    <2>3. PICK e : e = RunScript(rec[a], c.req)
      OBVIOUS
    <2>4. e.rec \in Records \cup {NoRecord} /\ e.reply \in Replies
      BY <2>2, <2>3, ScriptTypes
    <2>5. rec' = [rec EXCEPT ![a] = e.rec]
          /\ call' = [call EXCEPT ![n][a] = [c EXCEPT !.st = "replied", !.reply = e.reply]]
      BY <1>3, <2>3 DEF Execute
    <2>6. [c EXCEPT !.st = "replied", !.reply = e.reply] \in Calls
      BY <2>1, <2>4 DEF Calls
    <2>7. UNCHANGED <<late, lease, hold, used>>
      BY <1>3 DEF Execute
    <2>8. rec' \in [Actors -> Records \cup {NoRecord}]
      BY <2>4, <2>5 DEF RegTypeOK
    <2>9. call' \in [Nodes -> [Actors -> Calls \cup {Idle}]]
      BY <2>5, <2>6 DEF RegTypeOK
    <2> QED BY <2>7, <2>8, <2>9 DEF RegTypeOK
  <1>4. ASSUME NEW n \in Nodes, NEW a \in Actors, Resend(n, a) PROVE RegTypeOK'
    <2> DEFINE c == call[n][a]
    <2>1. c \in Calls
      BY <1>4 DEF Resend, RegTypeOK, Idle
    <2>2. [c EXCEPT !.st = "sent", !.reply = NoReply] \in Calls
      <3>1. NoReply \in Replies
        BY DEF NoReply, Reply, Replies, Codes
      <3> QED BY <2>1, <3>1 DEF Calls
    <2>3. call' = [call EXCEPT ![n][a] = [c EXCEPT !.st = "sent", !.reply = NoReply]]
      BY <1>4 DEF Resend
    <2> QED BY <2>2, <2>3, <1>4 DEF Resend, RegTypeOK
  <1>5. ASSUME NEW n \in Nodes, NEW a \in Actors, Return(n, a) PROVE RegTypeOK'
    <2> DEFINE c == call[n][a]
    <2>1. c \in Calls
      BY <1>5 DEF Return, RegTypeOK, Idle
    <2>2. Granted(a, c.left) \in Ticks /\ c.req.lease \in Leases /\ 0 \in Ticks
      BY <2>1, GrantedTypes DEF Calls, Requests, Ticks
    <2>3. call' \in [Nodes -> [Actors -> Calls \cup {Idle}]]
      BY <1>5 DEF Return, RegTypeOK
    <2>4. lease' \in [Nodes -> [Actors -> Leases \cup {NoLease}]]
      BY <1>5, <2>2 DEF Return, RegTypeOK
    <2>5. hold' \in [Nodes -> [Actors -> Ticks]]
      BY <1>5, <2>2 DEF Return, RegTypeOK
    <2> QED BY <1>5, <2>3, <2>4, <2>5 DEF Return, RegTypeOK
  <1>6. ASSUME NEW n \in Nodes, NEW a \in Actors, Fail(n, a) PROVE RegTypeOK'
    <2>1. call[n][a] \in Calls
      BY <1>6 DEF Fail, RegTypeOK, Idle
    <2>2. call[n][a].req \in Requests
      BY <2>1 DEF Calls
    <2> QED BY <1>6, <2>2 DEF Fail, RegTypeOK
  <1>7. ASSUME NEW q \in late, ExecuteLate(q) PROVE RegTypeOK'
    <2>1. q \in Requests /\ q.uid \in Actors
      BY DEF RegTypeOK, Requests
    <2>2. RunScript(rec[q.uid], q).rec \in Records \cup {NoRecord}
      BY <2>1, ScriptTypes DEF RegTypeOK
    <2> QED BY <1>7, <2>1, <2>2 DEF ExecuteLate, RegTypeOK
  <1>8. ASSUME NEW q \in late, LoseLate(q) PROVE RegTypeOK'
    BY <1>8 DEF LoseLate, RegTypeOK
  <1>9. CASE RegTick
    <2>1. ASSUME NEW a \in Actors PROVE Age(rec[a]) \in Records \cup {NoRecord}
      <3>1. CASE rec[a] \in Records
        BY <3>1 DEF Records, Age, Ticks
      <3>2. CASE rec[a] = NoRecord
        BY <3>2 DEF NoRecord, Age
      <3> QED BY <3>1, <3>2 DEF RegTypeOK
    <2>2. ASSUME NEW n \in Nodes, NEW a \in Actors
          PROVE  [call[n][a] EXCEPT !.left = CountDown(@)] \in Calls \cup {Idle}
      <3>1. CASE call[n][a] \in Calls
        BY <3>1, RegistryAssumption DEF Calls, CountDown
      <3>2. CASE call[n][a] = Idle
        BY <3>2 DEF Idle, CountDown
      <3> QED BY <3>1, <3>2 DEF RegTypeOK
    <2>3. ASSUME NEW n \in Nodes, NEW a \in Actors PROVE CountDown(hold[n][a]) \in Ticks
      BY DEF RegTypeOK, CountDown, Ticks
    <2> QED BY <1>9, <2>1, <2>2, <2>3 DEF RegTick, RegTypeOK
  <1> QED BY <1>1, <1>2, <1>3, <1>4, <1>5, <1>6, <1>7, <1>8, <1>9 DEF RegNext, Step

\* The state of every node and of Redis stays well formed, whatever requests are
\* lost, repeated or executed late.
THEOREM RegTypeCorrect == RegSpec => []RegTypeOK
  BY RegTypeInit, RegTypeStep, PTL DEF RegSpec

-----------------------------------------------------------------------------
(* The inductive invariant RegInv.                                             *)

\* The four things a script can do: refuse, grant, remove, renew.
LEMMA ScriptCases ==
    ASSUME NEW r \in Records \cup {NoRecord}, NEW q \in Requests
    PROVE  LET e == RunScript(r, q) IN
           \/ e.rec = r /\ e.reply.code # "ok"
           \/ /\ q.op \in Acquires /\ e.rec = Held(q, TTL[q.uid])
              /\ q.op = "register" => r.node \in {NoNode, q.node}
              /\ q.op = "takeover" => r.node # NoNode /\ r.lease = q.source
           \/ /\ q.op = "unregister" /\ e.rec = NoRecord
              /\ r.node = q.node /\ r.lease = q.lease
           \/ /\ q.op = "keepalive" /\ e.rec = [r EXCEPT !.pttl = Expiry(TTL[q.uid])]
              /\ r.node = q.node /\ r.lease = q.lease /\ r \in Records
  <1>1. CASE q.op = "register"
    BY <1>1 DEF RunScript, registerActorScript, Effect, Reply, Acquires
  <1>2. CASE q.op = "takeover"
    BY <1>2 DEF RunScript, takeOverActorScript, Effect, Reply, Acquires
  <1>3. CASE q.op = "unregister"
    BY <1>3 DEF RunScript, unregisterActorScript, Effect, Reply, Mismatch
  <1>4. CASE q.op = "keepalive"
    BY <1>4 DEF RunScript, keepAliveActorScript, Effect, Reply, Mismatch, NoRecord
  <1> QED BY <1>1, <1>2, <1>3, <1>4 DEF Requests, Ops

\* Pending requests are requests.
LEMMA PendingTypes ==
    ASSUME RegTypeOK, NEW a \in Actors, NEW q \in Pending(a)
    PROVE  q \in Requests
  <1>1. CASE q \in late
    BY <1>1 DEF RegTypeOK
  <1>2. ASSUME NEW n \in Nodes, call[n][a].st # "idle", q = call[n][a].req PROVE q \in Requests
    <2>1. call[n][a] \in Calls
      BY <1>2 DEF RegTypeOK, Idle
    <2> QED BY <1>2, <2>1 DEF Calls
  <1> QED BY <1>1, <1>2 DEF Pending

\* The life of a key in ticks, and that of a grant counted from the call's start.
LEMMA Lifetimes ==
    ASSUME NEW a \in Actors
    PROVE  /\ TTL[a] \in Nat
           /\ TTL[a] = 0 => Expiry(TTL[a]) = Persist
           /\ TTL[a] # 0 => Expiry(TTL[a]) \in Nat \ {0}
           /\ \A left \in 0..Timeout :
                 /\ Granted(a, left) \in Ticks
                 /\ TTL[a] = 0 => Granted(a, left) = Persist
                 /\ TTL[a] # 0 => Granted(a, left) \in 0..Expiry(TTL[a])
                 /\ TTL[a] # 0 /\ left > 0 => Granted(a, left - 1) = CountDown(Granted(a, left))
  <1>1. TTL[a] \in Nat /\ Timeout \in Nat
    BY RegistryAssumption
  <1>2. TTL[a] # 0 => TTL[a] * Second \in Nat \ {0}
    BY <1>1, SecondAssumption
  <1>3. PICK x \in Int : x = Expiry(TTL[a])
    BY <1>1, <1>2 DEF Expiry
  <1>4. TTL[a] = 0 => x = -1
    BY <1>3 DEF Expiry
  <1>5. TTL[a] # 0 => x \in Nat \ {0}
    BY <1>1, <1>2, <1>3 DEF Expiry
  <1> QED BY <1>1, <1>3, <1>4, <1>5 DEF Granted, CountDown, Ticks

\* What a reply grants is a number of ticks.
LEMMA AnsweredTypes ==
    ASSUME RegTypeOK, NEW n \in Nodes, NEW a \in Actors
    PROVE  Answered(n, a) \in Ticks
  <1>1. CASE call[n][a] \in Calls
    BY <1>1, Lifetimes DEF Answered, Calls, Ticks
  <1>2. CASE call[n][a] = Idle
    BY <1>2 DEF Answered, Idle, Ticks
  <1> QED BY <1>1, <1>2 DEF RegTypeOK

\* Redis executing a pending request changes no lease that is in use, and takes no
\* backed ownership away.
LEMMA ExecutePending ==
    ASSUME RegInv, NEW a \in Actors, NEW q \in Pending(a),
           rec' = [rec EXCEPT ![a] = RunScript(rec[a], q).rec],
           \A b \in Actors : Pending(b)' \subseteq Pending(b),
           UNCHANGED <<lease, used>>
    PROVE  /\ RecordsSane'
           /\ AcquisitionsFresh'
           /\ \A n \in Nodes, b \in Actors : lease[n][b] # NoLease =>
                 /\ KillFree(b, lease[n][b])'
                 /\ rec'[b].lease = lease[n][b] => rec'[b].node = n
           /\ \A n \in Nodes, b \in Actors, t \in Ticks :
                 Backed(n, b, t) /\ t # 0 =>
                             /\ rec'[b].node = n
                             /\ \A p \in Pending(b)' :
                                   /\ p.op = "unregister" => p.lease # rec'[b].lease
                                   /\ p.op = "takeover" => p.source # rec'[b].lease
                             /\ IF TTL[b] = 0 THEN t = Persist ELSE t > 0 /\ t <= rec'[b].pttl
  <1> DEFINE e == RunScript(rec[a], q)
             Life == Expiry(TTL[a])
  <1>1. RegTypeOK /\ RecordsSane /\ PendingSane /\ LeasesOwned /\ AcquisitionsFresh
    BY DEF RegInv
  <1>2. q \in Requests /\ q.uid = a /\ q.lease \in used /\ rec[a] \in Records \cup {NoRecord}
        /\ q.node \in Nodes /\ q.lease \in Leases
    BY <1>1, PendingTypes DEF PendingSane, RegTypeOK, Requests
  <1>3. \/ e.rec = rec[a]
        \/ /\ q.op \in Acquires /\ e.rec = Held(q, TTL[a])
           /\ q.op = "register" => rec[a].node \in {NoNode, q.node}
           /\ q.op = "takeover" => rec[a].node # NoNode /\ rec[a].lease = q.source
        \/ /\ q.op = "unregister" /\ e.rec = NoRecord
           /\ rec[a].node = q.node /\ rec[a].lease = q.lease
        \/ /\ q.op = "keepalive" /\ e.rec = [rec[a] EXCEPT !.pttl = Life]
           /\ rec[a].node = q.node /\ rec[a].lease = q.lease /\ rec[a] \in Records
    BY <1>2, ScriptCases
  <1>4. rec'[a] = e.rec /\ \A b \in Actors : b # a => rec'[b] = rec[b]
    BY <1>1 DEF RegTypeOK
  <1>5. /\ TTL[a] \in Nat
        /\ TTL[a] = 0 => Life = Persist
        /\ TTL[a] # 0 => Life \in Nat \ {0}
    BY Lifetimes
  <1>6. NoNode \notin Nodes /\ NoLease \notin Leases
    BY RegistryAssumption
  <1>7. RecordsSane'
    <2>1. rec'[a] # NoRecord => /\ rec'[a].lease \in used
                                /\ IF TTL[a] = 0 THEN rec'[a].pttl = Persist
                                   ELSE rec'[a].pttl \in 0..Life
      <3>1. CASE e.rec = rec[a]
        BY <3>1, <1>1, <1>4 DEF RecordsSane
      <3>2. CASE e.rec = Held(q, TTL[a])
        BY <3>2, <1>2, <1>4, <1>5 DEF Held
      <3>3. CASE e.rec = NoRecord
        BY <3>3, <1>4
      <3>4. CASE e.rec = [rec[a] EXCEPT !.pttl = Life] /\ rec[a] \in Records
        BY <3>4, <1>1, <1>4, <1>5, <1>6 DEF RecordsSane, Records, NoRecord
      <3> QED BY <1>3, <3>1, <3>2, <3>3, <3>4
    <2> QED BY <2>1, <1>1, <1>4 DEF RecordsSane
  \* The key's lease and node after the step.
  <1>8. \/ rec'[a].lease = rec[a].lease /\ rec'[a].node = rec[a].node
        \/ q.op \in Acquires /\ rec'[a].lease = q.lease /\ rec'[a].node = q.node
        \/ rec'[a].lease = NoLease
    BY <1>3, <1>4 DEF Held, NoRecord, Records
  <1>9. AcquisitionsFresh'
    <2> SUFFICES ASSUME NEW b \in Actors, NEW p \in Pending(b)', p.op \in Acquires
                 PROVE  /\ p.lease \in used'
                        /\ KillFree(b, p.lease)'
                        /\ rec'[b].lease = p.lease => rec'[b].node = p.node
                        /\ \A n \in Nodes : lease'[n][b] # p.lease
                        /\ \A x \in Pending(b)' : x.op \in Acquires /\ x.lease = p.lease => x = p
      BY DEF AcquisitionsFresh
    <2>1. p \in Pending(b) /\ p \in Requests
      BY PendingTypes, <1>1
    <2>2. KillFree(b, p.lease)'
      BY <2>1, <1>1 DEF AcquisitionsFresh, KillFree
    <2>3. rec'[b].lease = p.lease => rec'[b].node = p.node
      <3>1. CASE b # a
        BY <3>1, <1>1, <1>4, <2>1 DEF AcquisitionsFresh
      <3>2. CASE b = a
        BY <3>2, <1>1, <1>6, <1>8, <2>1 DEF AcquisitionsFresh, Requests
      <3> QED BY <3>1, <3>2
    <2> QED BY <2>1, <2>2, <2>3, <1>1 DEF AcquisitionsFresh
  <1>10. ASSUME NEW n \in Nodes, NEW b \in Actors, lease[n][b] # NoLease
         PROVE  /\ KillFree(b, lease[n][b])'
                /\ rec'[b].lease = lease[n][b] => rec'[b].node = n
    <2>1. KillFree(b, lease[n][b])'
      BY <1>1, <1>10 DEF LeasesOwned, KillFree
    <2>2. CASE b # a
      BY <2>1, <2>2, <1>1, <1>4, <1>10 DEF LeasesOwned
    <2>3. CASE b = a
      BY <2>1, <2>3, <1>1, <1>8, <1>10 DEF LeasesOwned, AcquisitionsFresh
    <2> QED BY <2>2, <2>3
  <1>11. ASSUME NEW n \in Nodes, NEW b \in Actors, NEW t \in Ticks, Backed(n, b, t), t # 0
         PROVE  /\ rec'[b].node = n
                /\ \A p \in Pending(b)' :
                      /\ p.op = "unregister" => p.lease # rec'[b].lease
                      /\ p.op = "takeover" => p.source # rec'[b].lease
                /\ IF TTL[b] = 0 THEN t = Persist ELSE t > 0 /\ t <= rec'[b].pttl
    <2>1. /\ rec[b].node = n
          /\ KillFree(b, rec[b].lease)
          /\ IF TTL[b] = 0 THEN t = Persist ELSE t > 0 /\ t <= rec[b].pttl
      BY <1>11 DEF Backed
    <2>2. CASE rec'[b] = rec[b]
      BY <2>1, <2>2 DEF KillFree
    <2>3. CASE b = a /\ rec'[a] # rec[a]
      <3>1. rec[a] # NoRecord /\ (TTL[a] # 0 => rec[a].pttl \in 0..Life)
        BY <2>1, <2>3, <1>1, <1>6 DEF NoRecord, RecordsSane
      <3>2. q.op # "unregister" \/ e.rec # NoRecord
        BY <2>1, <2>3, <1>3, <1>4, <1>2, <1>6 DEF KillFree, Held, NoRecord
      <3>3. ~(q.op = "takeover" /\ rec[a].lease = q.source)
        BY <2>1, <2>3 DEF KillFree
      <3>4. CASE q.op \in Acquires /\ e.rec = Held(q, TTL[a])
        <4>1. q.op = "register" /\ q.node = n
          BY <3>3, <3>4, <1>3, <1>4, <2>1, <2>3, <1>6 DEF Acquires
        <4>2. KillFree(a, q.lease)
          BY <3>4, <1>1 DEF AcquisitionsFresh
        <4>3. rec'[a].node = n /\ rec'[a].lease = q.lease /\ rec'[a].pttl = Life
          BY <3>4, <4>1, <1>4 DEF Held
        <4> QED BY <4>2, <4>3, <2>1, <2>3, <3>1, <1>5 DEF KillFree, Ticks
      <3>5. CASE q.op = "keepalive" /\ e.rec = [rec[a] EXCEPT !.pttl = Life] /\ rec[a] \in Records
        <4>1. rec'[a].node = n /\ rec'[a].lease = rec[a].lease /\ rec'[a].pttl = Life
          BY <3>5, <1>4, <2>1, <2>3 DEF Records
        <4> QED BY <4>1, <2>1, <2>3, <3>1, <1>5 DEF KillFree, Ticks
      <3> QED BY <1>3, <1>4, <2>3, <3>2, <3>4, <3>5
    <2> QED BY <2>2, <2>3, <1>4
  <1> QED BY <1>7, <1>9, <1>10, <1>11

\* Redis executes the script of a call in flight.
LEMMA ExecuteInv ==
    ASSUME RegInv, RegTypeOK', NEW n \in Nodes, NEW a \in Actors, Execute(n, a)
    PROVE  RegInv'
  <1> DEFINE c == call[n][a]
             e == RunScript(rec[a], c.req)
  <1>1. RegTypeOK /\ PendingSane /\ LeasesOwned /\ AcquisitionsFresh /\ HoldsBacked
    BY DEF RegInv
  <1>2. /\ c.st = "sent"
        /\ rec' = [rec EXCEPT ![a] = e.rec]
        /\ call' = [call EXCEPT ![n][a] = [c EXCEPT !.st = "replied", !.reply = e.reply]]
        /\ UNCHANGED <<late, lease, hold, used>>
    BY DEF Execute
  <1>3. c \in Calls /\ c.req \in Requests /\ c.left \in 0..Timeout
    BY <1>1, <1>2 DEF RegTypeOK, Idle, Calls
  <1>4. /\ call'[n][a].st = "replied" /\ call'[n][a].req = c.req /\ call'[n][a].left = c.left
        /\ call'[n][a].reply = e.reply
    BY <1>1, <1>2, <1>3 DEF RegTypeOK, Calls
  <1>5. \A m \in Nodes, b \in Actors : m # n \/ b # a => call'[m][b] = call[m][b]
    BY <1>1, <1>2 DEF RegTypeOK
  <1>6. \A b \in Actors : Pending(b)' = Pending(b)
    BY <1>2, <1>4, <1>5 DEF Pending
  <1>7. c.req \in Pending(a)
    BY <1>2 DEF Pending
  <1>8. /\ RecordsSane'
        /\ AcquisitionsFresh'
        /\ \A m \in Nodes, b \in Actors : lease[m][b] # NoLease =>
              /\ KillFree(b, lease[m][b])'
              /\ rec'[b].lease = lease[m][b] => rec'[b].node = m
        /\ \A m \in Nodes, b \in Actors, t \in Ticks :
              Backed(m, b, t) /\ t # 0 =>
                          /\ rec'[b].node = m
                          /\ \A p \in Pending(b)' :
                                /\ p.op = "unregister" => p.lease # rec'[b].lease
                                /\ p.op = "takeover" => p.source # rec'[b].lease
                          /\ IF TTL[b] = 0 THEN t = Persist ELSE t > 0 /\ t <= rec'[b].pttl
    BY <1>2, <1>6, <1>7, ExecutePending
  <1>9. PendingSane'
    <2>1. /\ used' = used /\ late' = late /\ lease' = lease
          /\ \A m \in Nodes, b \in Actors : call'[m][b].st # "idle" =>
                call[m][b].st # "idle" /\ call'[m][b].req = call[m][b].req
      BY <1>1, <1>2, <1>4, <1>5
    <2>2. PendingSane
      BY <1>1
    <2> QED BY ONLY <1>6, <2>1, <2>2 DEF PendingSane
  <1>10. LeasesOwned'
    <2>1. /\ used' = used /\ lease' = lease /\ hold' = hold
          /\ \A m \in Nodes, b \in Actors : call'[m][b].st # "idle" =>
                call[m][b].st # "idle" /\ call'[m][b].req = call[m][b].req
      BY <1>1, <1>2, <1>4, <1>5
    <2>2. LeasesOwned
      BY <1>1
    <2> QED BY ONLY <1>8, <2>1, <2>2 DEF LeasesOwned
  <1>11. HoldsBacked'
    <2> SUFFICES ASSUME NEW m \in Nodes, NEW b \in Actors
                 PROVE  Backed(m, b, hold[m][b])' /\ Backed(m, b, Answered(m, b))'
      BY DEF HoldsBacked
    <2>1. Backed(m, b, hold[m][b])'
      <3>1. hold[m][b] \in Ticks /\ hold'[m][b] = hold[m][b] /\ Backed(m, b, hold[m][b])
        BY <1>1, <1>2 DEF RegTypeOK, HoldsBacked
      <3> QED BY <3>1, <1>8 DEF Backed, KillFree
    <2>2. CASE m # n \/ b # a
      <3>1. Answered(m, b)' = Answered(m, b)
        BY <2>2, <1>5 DEF Answered
      <3>2. Answered(m, b) \in Ticks
        BY <1>1, AnsweredTypes
      <3>3. Backed(m, b, Answered(m, b))
        BY <1>1 DEF HoldsBacked
      <3> QED BY <2>1, <3>1, <3>2, <3>3, <1>8 DEF Backed, KillFree
    <2>3. CASE m = n /\ b = a
      <3>1. CASE e.reply.code = "ok" /\ c.req.op # "unregister"
        <4>1. Answered(n, a)' = Granted(a, c.left)
          BY <3>1, <1>4 DEF Answered
        <4>2. c.req.uid = a /\ c.req.node = n /\ rec[a] \in Records \cup {NoRecord}
          BY <1>1, <1>2, <1>7 DEF PendingSane, RegTypeOK
        <4>3. rec'[a].node = n /\ rec'[a].lease = c.req.lease /\ rec'[a].pttl = Expiry(TTL[a])
          <5>1. rec'[a] = e.rec
            BY <1>1, <1>2 DEF RegTypeOK
          <5>2. \/ e.rec = Held(c.req, TTL[a])
                \/ /\ e.rec = [rec[a] EXCEPT !.pttl = Expiry(TTL[a])]
                   /\ rec[a].node = n /\ rec[a].lease = c.req.lease /\ rec[a] \in Records
            BY <3>1, <4>2, <1>3, ScriptCases
          <5> QED BY <5>1, <5>2, <4>2 DEF Held, Records
        <4>4. \A p \in Pending(a)' : /\ p.op = "unregister" => p.lease # c.req.lease
                                     /\ p.op = "takeover" => p.source # c.req.lease
          <5>1. CASE c.req.op \in Acquires
            BY <5>1, <1>1, <1>6, <1>7 DEF AcquisitionsFresh, KillFree
          <5>2. CASE c.req.op = "keepalive"
            <6>1. lease[n][a] = c.req.lease /\ lease[n][a] # NoLease
              BY <5>2, <1>1, <1>2, <1>3, RegistryAssumption DEF PendingSane, Requests
            <6> QED BY <6>1, <1>1, <1>6 DEF LeasesOwned, KillFree
          <5> QED BY <5>1, <5>2, <3>1, <1>3 DEF Requests, Ops, Acquires
        <4>5. IF TTL[a] = 0 THEN Granted(a, c.left) = Persist
              ELSE Granted(a, c.left) \in 0..Expiry(TTL[a]) /\ Expiry(TTL[a]) \in Nat
          BY <1>3, Lifetimes
        <4> QED BY <2>1, <2>3, <4>1, <4>3, <4>4, <4>5 DEF Backed, KillFree
      <3>2. CASE ~(e.reply.code = "ok" /\ c.req.op # "unregister")
        <4>1. Answered(n, a)' = 0
          BY <3>2, <1>4 DEF Answered
        <4> QED BY <2>1, <2>3, <4>1 DEF Backed
      <3> QED BY <3>1, <3>2
    <2> QED BY <2>2, <2>3
  <1> QED BY <1>8, <1>9, <1>10, <1>11 DEF RegInv

\* Redis executes an abandoned request.
LEMMA ExecuteLateInv ==
    ASSUME RegInv, RegTypeOK', NEW q \in late, ExecuteLate(q)
    PROVE  RegInv'
  <1>1. RegTypeOK /\ PendingSane /\ LeasesOwned /\ HoldsBacked
    BY DEF RegInv
  <1>2. /\ rec' = [rec EXCEPT ![q.uid] = RunScript(rec[q.uid], q).rec]
        /\ late' = late \ {q}
        /\ UNCHANGED <<call, lease, hold, used>>
    BY DEF ExecuteLate
  <1>3. q.uid \in Actors /\ q \in Pending(q.uid)
    BY <1>1 DEF RegTypeOK, Requests, Pending
  <1>4. \A b \in Actors : Pending(b)' \subseteq Pending(b)
    BY <1>2 DEF Pending
  <1>5. /\ RecordsSane'
        /\ AcquisitionsFresh'
        /\ \A m \in Nodes, b \in Actors : lease[m][b] # NoLease =>
              /\ KillFree(b, lease[m][b])'
              /\ rec'[b].lease = lease[m][b] => rec'[b].node = m
        /\ \A m \in Nodes, b \in Actors, t \in Ticks :
              Backed(m, b, t) /\ t # 0 =>
                          /\ rec'[b].node = m
                          /\ \A p \in Pending(b)' :
                                /\ p.op = "unregister" => p.lease # rec'[b].lease
                                /\ p.op = "takeover" => p.source # rec'[b].lease
                          /\ IF TTL[b] = 0 THEN t = Persist ELSE t > 0 /\ t <= rec'[b].pttl
    BY <1>2, <1>3, <1>4, ExecutePending
  <1>6. PendingSane'
    BY <1>1, <1>2, <1>4 DEF PendingSane
  <1>7. LeasesOwned'
    BY <1>1, <1>2, <1>5 DEF LeasesOwned
  <1>8. HoldsBacked'
    <2> SUFFICES ASSUME NEW m \in Nodes, NEW b \in Actors
                 PROVE  Backed(m, b, hold[m][b])' /\ Backed(m, b, Answered(m, b))'
      BY DEF HoldsBacked
    <2>1. /\ hold[m][b] \in Ticks /\ hold'[m][b] = hold[m][b]
          /\ Backed(m, b, hold[m][b]) /\ Backed(m, b, Answered(m, b))
          /\ Answered(m, b)' = Answered(m, b)
      BY <1>1, <1>2 DEF RegTypeOK, HoldsBacked, Answered
    <2>2. Answered(m, b) \in Ticks
      BY <1>1, AnsweredTypes
    <2> QED BY <2>1, <2>2, <1>5 DEF Backed, KillFree
  <1> QED BY <1>5, <1>6, <1>7, <1>8 DEF RegInv

\* A step that leaves the keys and the leases alone and adds no pending request
\* keeps what is said of keys, leases, acquisitions and holds.
LEMMA Shrinking ==
    ASSUME RegInv, UNCHANGED <<rec, lease, hold, used>>,
           \A a \in Actors : Pending(a)' \subseteq Pending(a),
           \A n \in Nodes, a \in Actors :
              call'[n][a].st # "idle" => call[n][a].st # "idle" /\ call'[n][a].req = call[n][a].req,
           \A n \in Nodes, a \in Actors : Answered(n, a)' = Answered(n, a) \/ Answered(n, a)' = 0
    PROVE  RecordsSane' /\ LeasesOwned' /\ AcquisitionsFresh' /\ HoldsBacked'
  <1>1. RecordsSane'
    BY DEF RegInv, RecordsSane
  <1>2. LeasesOwned'
    BY DEF RegInv, LeasesOwned, KillFree
  <1>3. AcquisitionsFresh'
    BY DEF RegInv, AcquisitionsFresh, KillFree
  <1>4. HoldsBacked'
    BY DEF RegInv, HoldsBacked, Backed, KillFree
  <1> QED BY <1>1, <1>2, <1>3, <1>4

\* A reply is lost and its request sent again.
LEMMA ResendInv ==
    ASSUME RegInv, RegTypeOK', NEW n \in Nodes, NEW a \in Actors, Resend(n, a)
    PROVE  RegInv'
  <1> DEFINE c == call[n][a]
  <1>1. RegTypeOK /\ PendingSane
    BY DEF RegInv
  <1>2. /\ c.st = "replied"
        /\ call' = [call EXCEPT ![n][a] = [c EXCEPT !.st = "sent", !.reply = NoReply]]
        /\ UNCHANGED <<rec, late, lease, hold, used>>
    BY DEF Resend
  <1>3. c \in Calls
    BY <1>1, <1>2 DEF RegTypeOK, Idle
  <1>4. call'[n][a].st = "sent" /\ call'[n][a].req = c.req
    BY <1>1, <1>2, <1>3 DEF RegTypeOK, Calls
  <1>5. \A m \in Nodes, b \in Actors : m # n \/ b # a => call'[m][b] = call[m][b]
    BY <1>1, <1>2 DEF RegTypeOK
  <1>6. \A b \in Actors : Pending(b)' = Pending(b)
    BY <1>2, <1>4, <1>5 DEF Pending
  <1>7. \A m \in Nodes, b \in Actors : Answered(m, b)' = Answered(m, b) \/ Answered(m, b)' = 0
    BY <1>4, <1>5 DEF Answered
  <1>8. \A m \in Nodes, b \in Actors :
           call'[m][b].st # "idle" => call[m][b].st # "idle" /\ call'[m][b].req = call[m][b].req
    BY <1>2, <1>4, <1>5
  <1>9. RecordsSane' /\ LeasesOwned' /\ AcquisitionsFresh' /\ HoldsBacked'
    BY <1>2, <1>6, <1>7, <1>8, Shrinking
  <1>10. PendingSane'
    BY <1>1, <1>2, <1>6, <1>8 DEF PendingSane
  <1> QED BY <1>9, <1>10 DEF RegInv

\* An abandoned request is lost.
LEMMA LoseLateInv ==
    ASSUME RegInv, RegTypeOK', NEW q \in late, LoseLate(q)
    PROVE  RegInv'
  <1>1. PendingSane /\ late' = late \ {q} /\ UNCHANGED <<rec, call, lease, hold, used>>
    BY DEF RegInv, LoseLate
  <1>2. \A b \in Actors : Pending(b)' \subseteq Pending(b)
    BY <1>1 DEF Pending
  <1>3. \A m \in Nodes, b \in Actors : Answered(m, b)' = Answered(m, b)
    BY <1>1 DEF Answered
  <1>4. RecordsSane' /\ LeasesOwned' /\ AcquisitionsFresh' /\ HoldsBacked'
    BY <1>1, <1>2, <1>3, Shrinking
  <1>5. PendingSane'
    BY <1>1, <1>2 DEF PendingSane
  <1> QED BY <1>4, <1>5 DEF RegInv

\* A call ends with an error and its request may stay behind.
LEMMA FailInv ==
    ASSUME RegInv, RegTypeOK', NEW n \in Nodes, NEW a \in Actors, Fail(n, a)
    PROVE  RegInv'
  <1> DEFINE c == call[n][a]
  <1>1. RegTypeOK /\ PendingSane
    BY DEF RegInv
  <1>2. /\ c.st # "idle"
        /\ call' = [call EXCEPT ![n][a] = Idle]
        /\ late' = late \/ late' = late \cup {c.req}
        /\ UNCHANGED <<rec, lease, hold, used>>
    BY DEF Fail
  <1>3. call'[n][a].st = "idle"
    BY <1>1, <1>2 DEF RegTypeOK, Idle
  <1>4. \A m \in Nodes, b \in Actors : m # n \/ b # a => call'[m][b] = call[m][b]
    BY <1>1, <1>2 DEF RegTypeOK
  <1>5. c.req \in Pending(a) /\ c.req.uid = a /\ c.req.node = n
    BY <1>1, <1>2 DEF Pending, PendingSane
  <1>6. \A b \in Actors : Pending(b)' \subseteq Pending(b)
    BY <1>2, <1>3, <1>4, <1>5 DEF Pending
  <1>7. \A m \in Nodes, b \in Actors : Answered(m, b)' = Answered(m, b) \/ Answered(m, b)' = 0
    BY <1>3, <1>4 DEF Answered
  <1>8. \A m \in Nodes, b \in Actors :
           call'[m][b].st # "idle" =>
              /\ call[m][b].st # "idle" /\ call'[m][b].req = call[m][b].req
              /\ call[m][b].req # c.req
    <2>1. \A m \in Nodes, b \in Actors : call[m][b].st # "idle" =>
             call[m][b].req \in Pending(b) /\ call[m][b].req.uid = b /\ call[m][b].req.node = m
      BY <1>1 DEF Pending, PendingSane
    <2> QED BY <2>1, <1>3, <1>4, <1>5
  <1>9. RecordsSane' /\ LeasesOwned' /\ AcquisitionsFresh' /\ HoldsBacked'
    BY <1>2, <1>6, <1>7, <1>8, Shrinking
  <1>10. PendingSane'
    BY <1>1, <1>2, <1>6, <1>8 DEF PendingSane
  <1> QED BY <1>9, <1>10 DEF RegInv

\* A reply is handled: the grant it carries becomes the node's.
LEMMA ReturnInv ==
    ASSUME RegInv, RegTypeOK', NEW n \in Nodes, NEW a \in Actors, Return(n, a)
    PROVE  RegInv'
  <1> DEFINE c  == call[n][a]
             q  == c.req
             ok == c.reply.code = "ok"
  <1>1. RegTypeOK /\ RecordsSane /\ PendingSane /\ LeasesOwned /\ AcquisitionsFresh /\ HoldsBacked
    BY DEF RegInv
  <1>2. /\ c.st = "replied"
        /\ call' = [call EXCEPT ![n][a] = Idle]
        /\ UNCHANGED <<rec, late, used>>
    BY DEF Return
  <1>3. /\ lease'[n][a] = CASE ok /\ q.op \in {"register", "takeover"} -> q.lease
                            [] ~ok /\ q.op = "keepalive" -> NoLease
                            [] OTHER -> lease[n][a]
        /\ hold'[n][a] = CASE ok /\ q.op # "unregister" -> Granted(a, c.left)
                           [] ~ok /\ q.op = "keepalive" -> 0
                           [] OTHER -> hold[n][a]
    BY <1>1 DEF Return, RegTypeOK
  <1>4. \A m \in Nodes, b \in Actors : m # n \/ b # a =>
           call'[m][b] = call[m][b] /\ lease'[m][b] = lease[m][b] /\ hold'[m][b] = hold[m][b]
    BY <1>1 DEF Return, RegTypeOK
  <1>5. call'[n][a].st = "idle"
    BY <1>1, <1>2 DEF RegTypeOK, Idle
  <1>6. c \in Calls /\ q \in Requests /\ q.lease \in Leases /\ q.lease # NoLease /\ q.op \in Ops
    BY <1>1, <1>2, RegistryAssumption DEF RegTypeOK, Idle, Calls, Requests
  <1>7. \A b \in Actors : Pending(b)' \subseteq Pending(b)
    BY <1>2, <1>4, <1>5 DEF Pending
  <1>8. q \in Pending(a) /\ q.node = n /\ q.uid = a
    BY <1>1, <1>2 DEF Pending, PendingSane
  <1>9. q.op \in Acquires => q \notin Pending(a)'
    <2>1. ASSUME NEW m \in Nodes, call'[m][a].st # "idle", call'[m][a].req = q PROVE FALSE
      BY <2>1, <1>1, <1>4, <1>5, <1>8 DEF PendingSane
    <2> QED BY <2>1, <1>1, <1>2 DEF Pending, PendingSane
  <1>10. RecordsSane'
    BY <1>1, <1>2 DEF RecordsSane
  <1>11. PendingSane'
    BY <1>1, <1>2, <1>4, <1>5, <1>7 DEF PendingSane
  <1>12. q.op \in Acquires \/ q.op = "unregister" => lease[n][a] = NoLease /\ hold[n][a] = 0
    BY <1>1, <1>2 DEF LeasesOwned, Acquires
  <1>13. CASE ok /\ q.op \in Acquires
    <2>1. lease'[n][a] = q.lease /\ hold'[n][a] = Granted(a, c.left)
      BY <1>3, <1>13 DEF Acquires
    <2>2. LeasesOwned'
      BY <1>1, <1>2, <1>4, <1>5, <1>6, <1>7, <1>8, <1>13, <2>1 DEF LeasesOwned, AcquisitionsFresh, KillFree
    <2>3. AcquisitionsFresh'
      BY <1>1, <1>2, <1>4, <1>7, <1>8, <1>9, <1>13, <2>1 DEF AcquisitionsFresh, KillFree
    <2>4. HoldsBacked'
      <3>1. \A m \in Nodes, b \in Actors : Answered(m, b)' = IF m = n /\ b = a THEN 0 ELSE Answered(m, b)
        BY <1>4, <1>5 DEF Answered
      <3>2. Answered(n, a) = Granted(a, c.left)
        BY <1>2, <1>13 DEF Answered, Acquires
      <3>3. \A m \in Nodes, b \in Actors : \/ hold'[m][b] = hold[m][b]
                                           \/ hold'[m][b] = Answered(m, b)
        BY <1>4, <2>1, <3>2
      <3> QED BY <1>1, <1>2, <1>7, <3>1, <3>3 DEF HoldsBacked, Backed, KillFree
    <2> QED BY <1>10, <1>11, <2>2, <2>3, <2>4 DEF RegInv
  <1>14. CASE ~(ok /\ q.op \in Acquires)
    <2>1. lease'[n][a] = lease[n][a] \/ (lease'[n][a] = NoLease /\ hold'[n][a] = 0)
      BY <1>3, <1>14 DEF Acquires
    <2>2. \/ hold'[n][a] = hold[n][a] \/ hold'[n][a] = 0
          \/ q.op = "keepalive" /\ hold'[n][a] = Answered(n, a)
      <3>1. CASE ok /\ q.op = "keepalive"
        BY <3>1, <1>2, <1>3 DEF Answered
      <3>2. CASE ~(ok /\ q.op = "keepalive")
        BY <3>2, <1>3, <1>6, <1>14 DEF Acquires, Ops
      <3> QED BY <3>1, <3>2
    <2>3. LeasesOwned'
      <3>1. q.op = "keepalive" => lease[n][a] = q.lease
        BY <1>1, <1>2 DEF PendingSane
      <3>2. lease'[n][a] = NoLease => hold'[n][a] = 0
        BY <2>1, <2>2, <3>1, <1>1, <1>6 DEF LeasesOwned
      <3> QED BY <1>1, <1>2, <1>4, <1>5, <1>7, <2>1, <3>2 DEF LeasesOwned, KillFree
    <2>4. AcquisitionsFresh'
      <3>1. \A m \in Nodes, b \in Actors : lease'[m][b] \in {lease[m][b], NoLease}
        BY <1>4, <2>1
      <3>2. \A b \in Actors : \A p \in Pending(b) : p.lease # NoLease
        BY <1>1, PendingTypes, RegistryAssumption DEF Requests
      <3> QED BY <1>1, <1>2, <1>7, <3>1, <3>2 DEF AcquisitionsFresh, KillFree
    <2>5. HoldsBacked'
      <3>1. \A m \in Nodes, b \in Actors : Answered(m, b)' = IF m = n /\ b = a THEN 0 ELSE Answered(m, b)
        BY <1>4, <1>5 DEF Answered
      <3>2. \A m \in Nodes, b \in Actors : \/ hold'[m][b] = hold[m][b] \/ hold'[m][b] = 0
                                           \/ hold'[m][b] = Answered(m, b)
        BY <1>4, <2>2
      <3> QED BY <1>1, <1>2, <1>7, <3>1, <3>2 DEF HoldsBacked, Backed, KillFree
    <2> QED BY <1>10, <1>11, <2>3, <2>4, <2>5 DEF RegInv
  <1> QED BY <1>13, <1>14

\* Time passes: a key outlives the ownership it backs.
LEMMA RegTickInv ==
    ASSUME RegInv, RegTypeOK', RegTick
    PROVE  RegInv'
  <1>1. RegTypeOK /\ RecordsSane /\ PendingSane /\ LeasesOwned /\ AcquisitionsFresh /\ HoldsBacked
    BY DEF RegInv
  <1>2. /\ \A a \in Actors : rec'[a] = Age(rec[a])
        /\ \A n \in Nodes, a \in Actors :
              /\ call'[n][a] = [call[n][a] EXCEPT !.left = CountDown(@)]
              /\ hold'[n][a] = CountDown(hold[n][a])
              /\ call[n][a].st # "idle" => call[n][a].left > 0
        /\ UNCHANGED <<late, lease, used>>
    BY DEF RegTick
  <1>3. \A n \in Nodes, a \in Actors :
           /\ call'[n][a].st = call[n][a].st /\ call'[n][a].req = call[n][a].req
           /\ call'[n][a].reply = call[n][a].reply
           /\ call'[n][a].left = CountDown(call[n][a].left)
    <2> SUFFICES ASSUME NEW n \in Nodes, NEW a \in Actors
                 PROVE  /\ call'[n][a].st = call[n][a].st /\ call'[n][a].req = call[n][a].req
                        /\ call'[n][a].reply = call[n][a].reply
                        /\ call'[n][a].left = CountDown(call[n][a].left)
      OBVIOUS
    <2>1. PICK c \in Calls \cup {Idle} : c = call[n][a]
      BY <1>1 DEF RegTypeOK
    <2>2. call'[n][a] = [c EXCEPT !.left = CountDown(c.left)]
      BY <1>2, <2>1
    <2>3. CASE c \in Calls
      BY <2>1, <2>2, <2>3 DEF Calls
    <2>4. CASE c = Idle
      BY <2>1, <2>2, <2>4 DEF Idle
    <2> QED BY <2>3, <2>4
  <1>4. \A b \in Actors : Pending(b)' = Pending(b)
    BY <1>2, <1>3 DEF Pending
  <1>5. \A a \in Actors :
           \/ rec'[a] = rec[a]
           \/ rec'[a] = NoRecord /\ rec[a].pttl = 0
           \/ /\ rec[a] # NoRecord /\ rec'[a].pttl = rec[a].pttl - 1 /\ rec[a].pttl \in Nat \ {0}
              /\ rec'[a].node = rec[a].node /\ rec'[a].lease = rec[a].lease
    <2> SUFFICES ASSUME NEW a \in Actors, rec[a] \in Records
                 PROVE  \/ rec'[a] = rec[a]
                        \/ rec'[a] = NoRecord /\ rec[a].pttl = 0
                        \/ /\ rec[a] # NoRecord /\ rec'[a].pttl = rec[a].pttl - 1 /\ rec[a].pttl \in Nat \ {0}
                           /\ rec'[a].node = rec[a].node /\ rec'[a].lease = rec[a].lease
      BY <1>1, <1>2 DEF RegTypeOK, Age, NoRecord
    <2>1. rec[a] # NoRecord
      BY RegistryAssumption DEF Records, NoRecord
    <2> QED BY <2>1, <1>2 DEF Age, Records, Ticks
  <1>6. RecordsSane'
    <2> SUFFICES ASSUME NEW a \in Actors, rec'[a] # NoRecord
                 PROVE  /\ rec'[a].lease \in used
                        /\ IF TTL[a] = 0 THEN rec'[a].pttl = Persist
                           ELSE rec'[a].pttl \in 0..Expiry(TTL[a])
      BY <1>2 DEF RecordsSane
    <2>1. TTL[a] # 0 => Expiry(TTL[a]) \in Nat
      BY Lifetimes
    <2> QED BY <2>1, <1>1, <1>5 DEF RecordsSane
  <1>7. PendingSane'
    BY <1>1, <1>2, <1>3, <1>4 DEF PendingSane
  <1>8. LeasesOwned'
    <2>1. \A n \in Nodes, a \in Actors : hold[n][a] = 0 => hold'[n][a] = 0
      <3>1. CountDown(0) = 0
        BY DEF CountDown
      <3> QED BY <3>1, <1>2
    <2>2. \A a \in Actors : \/ rec'[a].lease = NoLease
                            \/ rec'[a].lease = rec[a].lease /\ rec'[a].node = rec[a].node
      BY <1>5 DEF NoRecord
    <2> SUFFICES ASSUME NEW n \in Nodes, NEW a \in Actors
                 PROVE  /\ lease[n][a] = NoLease => hold'[n][a] = 0
                        /\ lease[n][a] # NoLease =>
                              /\ lease[n][a] \in used
                              /\ KillFree(a, lease[n][a])'
                              /\ rec'[a].lease = lease[n][a] => rec'[a].node = n
                              /\ \A m \in Nodes : lease[m][a] = lease[n][a] => m = n
                              /\ call'[n][a].st # "idle" =>
                                    call'[n][a].req.op = "keepalive" /\ call'[n][a].req.lease = lease[n][a]
      BY <1>2 DEF LeasesOwned
    <2>3. lease[n][a] # NoLease => KillFree(a, lease[n][a])'
      BY <1>1, <1>2, <1>4 DEF LeasesOwned, KillFree
    <2> QED BY <2>1, <2>2, <2>3, <1>1, <1>3 DEF LeasesOwned
  <1>9. AcquisitionsFresh'
    <2>1. \A b \in Actors : \A p \in Pending(b) : p.lease # NoLease
      BY <1>1, PendingTypes, RegistryAssumption DEF Requests
    <2> QED BY <2>1, <1>1, <1>2, <1>4, <1>5 DEF AcquisitionsFresh, KillFree, NoRecord
  <1>10. HoldsBacked'
    <2> SUFFICES ASSUME NEW n \in Nodes, NEW a \in Actors
                 PROVE  Backed(n, a, hold[n][a])' /\ Backed(n, a, Answered(n, a))'
      BY DEF HoldsBacked
    <2>1. ASSUME NEW t \in Ticks, Backed(n, a, t), CountDown(t) # 0
          PROVE  /\ rec'[a].node = n
                 /\ \A p \in Pending(a) : /\ p.op = "unregister" => p.lease # rec'[a].lease
                                          /\ p.op = "takeover" => p.source # rec'[a].lease
                 /\ IF TTL[a] = 0 THEN CountDown(t) = Persist
                    ELSE CountDown(t) > 0 /\ CountDown(t) <= rec'[a].pttl
      <3>1. t # 0
        BY <2>1 DEF CountDown
      <3>2. /\ rec[a].node = n
            /\ \A p \in Pending(a) : /\ p.op = "unregister" => p.lease # rec[a].lease
                                     /\ p.op = "takeover" => p.source # rec[a].lease
            /\ IF TTL[a] = 0 THEN t = Persist ELSE t > 0 /\ t <= rec[a].pttl
        BY <3>1, <2>1 DEF Backed, KillFree
      <3>3. rec[a] # NoRecord /\ (TTL[a] = 0 => rec[a].pttl = Persist)
        BY <3>2, <1>1, RegistryAssumption DEF RecordsSane, NoRecord
      <3>4. CASE TTL[a] = 0
        BY <3>2, <3>3, <3>4, <1>5 DEF CountDown
      <3>5. CASE TTL[a] # 0
        <4>1. t \in Nat /\ t > 1 /\ CountDown(t) = t - 1
          BY <3>2, <3>5, <2>1 DEF CountDown, Ticks
        <4>2. rec[a].pttl \in Ticks
          BY <1>1, <3>3 DEF RegTypeOK, Records
        <4>3. rec'[a].pttl >= t - 1 /\ rec'[a].node = n /\ rec'[a].lease = rec[a].lease
          BY <4>1, <4>2, <3>2, <3>5, <1>5 DEF Ticks
        <4> QED BY <4>1, <4>3, <3>2, <3>5
      <3> QED BY <3>4, <3>5
    <2>2. Backed(n, a, hold[n][a])'
      <3>1. hold[n][a] \in Ticks /\ Backed(n, a, hold[n][a])
        BY <1>1 DEF RegTypeOK, HoldsBacked
      <3> QED BY <3>1, <2>1, <1>2, <1>4 DEF Backed, KillFree
    <2>3. Backed(n, a, Answered(n, a))'
      <3>1. Answered(n, a) \in Ticks /\ Backed(n, a, Answered(n, a))
        BY <1>1, AnsweredTypes DEF HoldsBacked
      <3>2. Answered(n, a)' = CountDown(Answered(n, a))
        <4>1. CASE call[n][a].st # "idle"
          <5>1. call[n][a].left \in 0..Timeout /\ call[n][a].left > 0
            <6>1. call[n][a] \in Calls
              BY <4>1, <1>1 DEF RegTypeOK, Idle
            <6> QED BY <6>1, <4>1, <1>2 DEF Calls
          <5>2. call'[n][a].left = call[n][a].left - 1
            BY <5>1, <1>3, RegistryAssumption DEF CountDown
          <5>3. call[n][a].left - 1 \in 0..Timeout
            BY <5>1, RegistryAssumption
          <5>4. Granted(a, call[n][a].left - 1) = CountDown(Granted(a, call[n][a].left))
            <6>1. CASE TTL[a] = 0
              BY <6>1, <5>1, <5>3, Lifetimes DEF CountDown
            <6>2. CASE TTL[a] # 0
              BY <6>2, <5>1, Lifetimes
            <6> QED BY <6>1, <6>2
          <5> QED BY <5>2, <5>4, <1>3 DEF Answered, CountDown
        <4>2. CASE call[n][a].st = "idle"
          BY <4>2, <1>3 DEF Answered, CountDown
        <4> QED BY <4>1, <4>2
      <3> QED BY <3>1, <3>2, <2>1, <1>4 DEF Backed, KillFree
    <2> QED BY <2>2, <2>3
  <1> QED BY <1>6, <1>7, <1>8, <1>9, <1>10 DEF RegInv

\* A new request joins the pending ones.
LEMMA BeginPending ==
    ASSUME RegTypeOK, NEW n \in Nodes, NEW a \in Actors, NEW q, Begin(n, a, q)
    PROVE  /\ Pending(a)' = Pending(a) \cup {q}
           /\ \A b \in Actors : b # a => Pending(b)' = Pending(b)
           /\ call'[n][a].st = "sent" /\ call'[n][a].req = q
           /\ \A m \in Nodes, b \in Actors : m # n \/ b # a => call'[m][b] = call[m][b]
           /\ \A m \in Nodes, b \in Actors :
                 Answered(m, b)' = IF m = n /\ b = a THEN 0 ELSE Answered(m, b)
           /\ Answered(n, a) = 0
           /\ UNCHANGED <<rec, late>>
  <1>1. /\ call[n][a].st = "idle" /\ call' = [call EXCEPT ![n][a] = Sent(q)]
        /\ UNCHANGED <<rec, late>>
    BY DEF Begin
  <1>2. call'[n][a].st = "sent" /\ call'[n][a].req = q
    BY <1>1 DEF RegTypeOK, Sent
  <1>3. \A m \in Nodes, b \in Actors : m # n \/ b # a => call'[m][b] = call[m][b]
    BY <1>1 DEF RegTypeOK
  <1>4. \A m \in Nodes, b \in Actors :
                 Answered(m, b)' = IF m = n /\ b = a THEN 0 ELSE Answered(m, b)
    BY <1>2, <1>3 DEF Answered
  <1>5. Answered(n, a) = 0
    BY <1>1 DEF Answered
  <1>6. \A b \in Actors : b # a => Pending(b)' = Pending(b)
    BY <1>1, <1>3 DEF Pending
  <1>7. Pending(a)' = Pending(a) \cup {q}
    <2>1. ASSUME NEW p PROVE p \in Pending(a)' <=> p \in Pending(a) \cup {q}
      <3>1. (\E m \in Nodes : call'[m][a].st # "idle" /\ p = call'[m][a].req)
            <=> p = q \/ \E m \in Nodes : call[m][a].st # "idle" /\ p = call[m][a].req
        BY <1>1, <1>2, <1>3
      <3> QED BY <3>1, <1>1 DEF Pending
    <2> QED BY <2>1
  <1> QED BY <1>1, <1>2, <1>3, <1>4, <1>5, <1>6, <1>7

\* RegisterActor starts with a lease nobody has seen.
LEMMA RegisterInv ==
    ASSUME RegInv, RegTypeOK', NEW n \in Nodes, NEW a \in Actors, NEW l \in Leases,
           RegisterActor(n, a, l)
    PROVE  RegInv'
  <1> DEFINE q == Request("register", n, a, l, NoLease)
  <1>1. RegTypeOK /\ RecordsSane /\ PendingSane /\ LeasesOwned /\ AcquisitionsFresh /\ HoldsBacked
    BY DEF RegInv
  <1>2. lease[n][a] = NoLease /\ l \notin used /\ used' = used \cup {l} /\ UNCHANGED <<lease, hold>>
        /\ Begin(n, a, q)
    BY DEF RegisterActor, MakeLeaseID
  <1>3. /\ Pending(a)' = Pending(a) \cup {q}
        /\ \A b \in Actors : b # a => Pending(b)' = Pending(b)
        /\ call'[n][a].st = "sent" /\ call'[n][a].req = q
        /\ \A m \in Nodes, b \in Actors : m # n \/ b # a => call'[m][b] = call[m][b]
        /\ \A m \in Nodes, b \in Actors :
              Answered(m, b)' = IF m = n /\ b = a THEN 0 ELSE Answered(m, b)
        /\ Answered(n, a) = 0
        /\ UNCHANGED <<rec, late>>
    BY <1>1, <1>2, BeginPending
  <1>4. q.op = "register" /\ q.node = n /\ q.uid = a /\ q.lease = l /\ l # NoLease
    BY RegistryAssumption DEF Request
  <1>5. \A b \in Actors : \A p \in Pending(b) :
           p.lease # l /\ (p.op = "takeover" => p.source # l) /\ p \in Requests
    BY <1>1, <1>2, PendingTypes DEF PendingSane
  <1>6. RecordsSane'
    BY <1>1, <1>2, <1>3 DEF RecordsSane
  <1>7. PendingSane'
    <2>1. q \notin late
      <3>1. q \in late => q \in Pending(a)
        BY <1>4 DEF Pending
      <3> QED BY <3>1, <1>4, <1>5
    <2> HIDE DEF q
    <2> QED BY <2>1, <1>1, <1>2, <1>3, <1>4 DEF PendingSane
  <1>8. LeasesOwned'
    <2> HIDE DEF q
    <2> QED BY <1>1, <1>2, <1>3, <1>4 DEF LeasesOwned, KillFree
  <1>9. AcquisitionsFresh'
    <2>1. \A b \in Actors : rec[b].lease # l
      BY <1>1, <1>2, <1>4 DEF RecordsSane, NoRecord
    <2>2. \A m \in Nodes, b \in Actors : lease[m][b] # l
      BY <1>1, <1>2, <1>4 DEF LeasesOwned
    <2> HIDE DEF q
    <2>3. \A p \in Pending(a)' : /\ p.op = "unregister" => p.lease # l
                                 /\ p.op = "takeover" => p.source # l
      BY <1>3, <1>4, <1>5
    <2> QED BY <2>1, <2>2, <2>3, <1>1, <1>2, <1>3, <1>4, <1>5 DEF AcquisitionsFresh, KillFree
  <1>10. HoldsBacked'
    <2> HIDE DEF q
    <2> QED BY <1>1, <1>2, <1>3, <1>4 DEF HoldsBacked, Backed, KillFree
  <1> QED BY <1>6, <1>7, <1>8, <1>9, <1>10 DEF RegInv

\* KeepActorAlive uses the lease in use.
LEMMA KeepAliveInv ==
    ASSUME RegInv, RegTypeOK', NEW n \in Nodes, NEW a \in Actors, KeepActorAlive(n, a)
    PROVE  RegInv'
  <1> DEFINE q == Request("keepalive", n, a, lease[n][a], NoLease)
  <1>1. RegTypeOK /\ RecordsSane /\ PendingSane /\ LeasesOwned /\ AcquisitionsFresh /\ HoldsBacked
    BY DEF RegInv
  <1>2. lease[n][a] # NoLease /\ UNCHANGED <<lease, hold, used>> /\ Begin(n, a, q)
    BY DEF KeepActorAlive
  <1>3. /\ Pending(a)' = Pending(a) \cup {q}
        /\ \A b \in Actors : b # a => Pending(b)' = Pending(b)
        /\ call'[n][a].st = "sent" /\ call'[n][a].req = q
        /\ \A m \in Nodes, b \in Actors : m # n \/ b # a => call'[m][b] = call[m][b]
        /\ \A m \in Nodes, b \in Actors :
              Answered(m, b)' = IF m = n /\ b = a THEN 0 ELSE Answered(m, b)
        /\ Answered(n, a) = 0
        /\ UNCHANGED <<rec, late>>
    BY <1>1, <1>2, BeginPending
  <1>4. q.op = "keepalive" /\ q.node = n /\ q.uid = a /\ q.lease = lease[n][a] /\ q.lease \in used
    BY <1>1, <1>2 DEF Request, LeasesOwned
  <1> HIDE DEF q
  <1>5. RecordsSane'
    BY <1>1, <1>2, <1>3 DEF RecordsSane
  <1>6. PendingSane'
    BY <1>1, <1>2, <1>3, <1>4 DEF PendingSane, Acquires
  <1>7. LeasesOwned'
    BY <1>1, <1>2, <1>3, <1>4 DEF LeasesOwned, KillFree
  <1>8. AcquisitionsFresh'
    BY <1>1, <1>2, <1>3, <1>4 DEF AcquisitionsFresh, KillFree, Acquires
  <1>9. HoldsBacked'
    BY <1>1, <1>2, <1>3, <1>4 DEF HoldsBacked, Backed, KillFree
  <1> QED BY <1>5, <1>6, <1>7, <1>8, <1>9 DEF RegInv

\* Node m gives the lease it uses away, to its own UnregisterActor or to the
\* TakeOverActor of another node: nothing else depends on that lease.
LEMMA GiveAway ==
    ASSUME RegInv, NEW n \in Nodes, NEW m \in Nodes, NEW a \in Actors, NEW q, Begin(n, a, q),
           lease[m][a] # NoLease, call[m][a].st = "idle",
           lease' = [lease EXCEPT ![m][a] = NoLease],
           hold' = [hold EXCEPT ![m][a] = 0],
           used \subseteq used',
           q.op = "unregister" => q.lease = lease[m][a],
           q.op = "takeover" => q.source = lease[m][a],
           q.op \in {"unregister", "takeover"},
           lease'[n][a] = NoLease
    PROVE  /\ RecordsSane' /\ LeasesOwned' /\ HoldsBacked'
           /\ \A b \in Actors : \A p \in Pending(b) : p.op \in Acquires =>
                 KillFree(b, p.lease)' /\ \A k \in Nodes : lease'[k][b] # p.lease
  <1> DEFINE s == lease[m][a]
  <1>1. RegTypeOK /\ RecordsSane /\ PendingSane /\ LeasesOwned /\ AcquisitionsFresh /\ HoldsBacked
    BY DEF RegInv
  <1>2. /\ Pending(a)' = Pending(a) \cup {q}
        /\ \A b \in Actors : b # a => Pending(b)' = Pending(b)
        /\ call'[n][a].st = "sent" /\ call'[n][a].req = q
        /\ \A k \in Nodes, b \in Actors : k # n \/ b # a => call'[k][b] = call[k][b]
        /\ \A k \in Nodes, b \in Actors :
              Answered(k, b)' = IF k = n /\ b = a THEN 0 ELSE Answered(k, b)
        /\ Answered(n, a) = 0
        /\ UNCHANGED <<rec, late>>
    BY <1>1, BeginPending
  <1>3. /\ lease'[m][a] = NoLease /\ hold'[m][a] = 0
        /\ \A k \in Nodes, b \in Actors : k # m \/ b # a =>
              lease'[k][b] = lease[k][b] /\ hold'[k][b] = hold[k][b]
    BY <1>1 DEF RegTypeOK
  <1>4. \A b \in Actors : \A l : KillFree(b, l) /\ (b = a => l # s) =>
           \A p \in Pending(b)' : /\ p.op = "unregister" => p.lease # l
                                  /\ p.op = "takeover" => p.source # l
    BY <1>2 DEF KillFree
  <1>5. RecordsSane'
    BY <1>1, <1>2 DEF RecordsSane
  <1>6. LeasesOwned'
    BY <1>1, <1>2, <1>3, <1>4 DEF LeasesOwned, KillFree
  <1>7. HoldsBacked'
    <2> SUFFICES ASSUME NEW k \in Nodes, NEW b \in Actors
                 PROVE  Backed(k, b, hold[k][b])' /\ Backed(k, b, Answered(k, b))'
      BY DEF HoldsBacked
    <2>1. Backed(k, b, hold[k][b]) /\ Backed(k, b, Answered(k, b))
      BY <1>1 DEF HoldsBacked
    <2>2. CASE k = m /\ b = a
      <3>1. Answered(m, a) = 0
        BY DEF Answered
      <3> QED BY <2>2, <3>1, <1>2, <1>3 DEF Backed
    <2>3. CASE k # m \/ b # a
      <3>1. rec[b].node = k => ~(b = a /\ rec[b].lease = s)
        BY <2>3, <1>1 DEF LeasesOwned
      <3>2. ASSUME NEW t, Backed(k, b, t), t # 0
            PROVE  /\ rec'[b].node = k
                   /\ \A p \in Pending(b)' : /\ p.op = "unregister" => p.lease # rec'[b].lease
                                             /\ p.op = "takeover" => p.source # rec'[b].lease
                   /\ IF TTL[b] = 0 THEN t = Persist ELSE t > 0 /\ t <= rec'[b].pttl
        BY <3>1, <3>2, <1>2, <1>4 DEF Backed
      <3>3. hold'[k][b] = hold[k][b]
        BY <2>3, <1>3
      <3>4. Answered(k, b)' = Answered(k, b) \/ Answered(k, b)' = 0
        BY <1>2
      <3> QED BY <2>1, <3>2, <3>3, <3>4 DEF Backed, KillFree
    <2> QED BY <2>2, <2>3
  <1>8. ASSUME NEW b \in Actors, NEW p \in Pending(b), p.op \in Acquires
        PROVE  KillFree(b, p.lease)' /\ \A k \in Nodes : lease'[k][b] # p.lease
    <2>1. KillFree(b, p.lease) /\ \A k \in Nodes : lease[k][b] # p.lease
      BY <1>1, <1>8 DEF AcquisitionsFresh
    <2>2. p.lease # NoLease
      BY <1>1, PendingTypes, RegistryAssumption DEF Requests
    <2>3. b = a => p.lease # s
      BY <2>1
    <2>4. KillFree(b, p.lease)'
      BY <2>1, <2>3, <1>4 DEF KillFree
    <2>5. ASSUME NEW k \in Nodes PROVE lease'[k][b] # p.lease
      BY <2>1, <2>2, <1>3
    <2> QED BY <2>4, <2>5
  <1> QED BY <1>5, <1>6, <1>7, <1>8

\* UnregisterActor gives its lease away.
LEMMA UnregisterInv ==
    ASSUME RegInv, RegTypeOK', NEW n \in Nodes, NEW a \in Actors, UnregisterActor(n, a)
    PROVE  RegInv'
  <1> DEFINE q == Request("unregister", n, a, lease[n][a], NoLease)
  <1>1. RegTypeOK /\ PendingSane /\ LeasesOwned /\ AcquisitionsFresh
    BY DEF RegInv
  <1>2. /\ lease[n][a] # NoLease /\ Begin(n, a, q) /\ call[n][a].st = "idle"
        /\ lease' = [lease EXCEPT ![n][a] = NoLease]
        /\ hold' = [hold EXCEPT ![n][a] = 0]
        /\ used' = used
    BY DEF UnregisterActor, Begin
  <1>3. /\ Pending(a)' = Pending(a) \cup {q}
        /\ \A b \in Actors : b # a => Pending(b)' = Pending(b)
        /\ call'[n][a].st = "sent" /\ call'[n][a].req = q
        /\ \A k \in Nodes, b \in Actors : k # n \/ b # a => call'[k][b] = call[k][b]
        /\ UNCHANGED <<rec, late>>
    BY <1>1, <1>2, BeginPending
  <1>4. q.op = "unregister" /\ q.node = n /\ q.uid = a /\ q.lease = lease[n][a] /\ q.lease \in used
    BY <1>1, <1>2 DEF Request, LeasesOwned
  <1>5. lease'[n][a] = NoLease
        /\ \A k \in Nodes, b \in Actors : k # n \/ b # a => lease'[k][b] = lease[k][b]
    BY <1>1, <1>2 DEF RegTypeOK
  <1> HIDE DEF q
  <1>6. /\ RecordsSane' /\ LeasesOwned' /\ HoldsBacked'
        /\ \A b \in Actors : \A p \in Pending(b) : p.op \in Acquires =>
              KillFree(b, p.lease)' /\ \A k \in Nodes : lease'[k][b] # p.lease
    BY <1>2, <1>4, <1>5, GiveAway
  <1>7. PendingSane'
    BY <1>1, <1>2, <1>3, <1>4, <1>5 DEF PendingSane, Acquires
  <1>8. AcquisitionsFresh'
    BY <1>1, <1>2, <1>3, <1>4, <1>6 DEF AcquisitionsFresh, Acquires
  <1> QED BY <1>6, <1>7, <1>8 DEF RegInv

\* TakeOverActor gives the lease of the source away and starts with a fresh one.
LEMMA TakeOverInv ==
    ASSUME RegInv, RegTypeOK', NEW n \in Nodes, NEW m \in Nodes \ {n}, NEW a \in Actors,
           NEW l \in Leases, TakeOverActor(n, m, a, l)
    PROVE  RegInv'
  <1> DEFINE q == Request("takeover", n, a, l, lease[m][a])
  <1>1. RegTypeOK /\ RecordsSane /\ PendingSane /\ LeasesOwned /\ AcquisitionsFresh
    BY DEF RegInv
  <1>2. /\ lease[n][a] = NoLease
        /\ lease[m][a] # NoLease /\ call[m][a].st = "idle"
        /\ l \notin used /\ used' = used \cup {l}
        /\ Begin(n, a, q)
        /\ lease' = [lease EXCEPT ![m][a] = NoLease]
        /\ hold' = [hold EXCEPT ![m][a] = 0]
    BY DEF TakeOverActor, MakeLeaseID
  <1>3. /\ Pending(a)' = Pending(a) \cup {q}
        /\ \A b \in Actors : b # a => Pending(b)' = Pending(b)
        /\ call'[n][a].st = "sent" /\ call'[n][a].req = q
        /\ \A k \in Nodes, b \in Actors : k # n \/ b # a => call'[k][b] = call[k][b]
        /\ UNCHANGED <<rec, late>>
    BY <1>1, <1>2, BeginPending
  <1>4. /\ q.op = "takeover" /\ q.node = n /\ q.uid = a /\ q.lease = l /\ l # NoLease
        /\ q.source = lease[m][a] /\ q.source \in used
    BY <1>1, <1>2, RegistryAssumption DEF Request, LeasesOwned
  <1>5. /\ lease'[n][a] = NoLease /\ lease'[m][a] = NoLease
        /\ \A k \in Nodes, b \in Actors : k # m \/ b # a => lease'[k][b] = lease[k][b]
    BY <1>1, <1>2 DEF RegTypeOK
  <1>6. \A b \in Actors : \A p \in Pending(b) :
           p.lease # l /\ (p.op = "takeover" => p.source # l)
    BY <1>1, <1>2 DEF PendingSane
  <1>7. q \notin late
    <2>1. q \in late => q \in Pending(a)
      BY <1>4 DEF Pending
    <2> QED BY <2>1, <1>4, <1>6
  <1> HIDE DEF q
  <1>8. /\ RecordsSane' /\ LeasesOwned' /\ HoldsBacked'
        /\ \A b \in Actors : \A p \in Pending(b) : p.op \in Acquires =>
              KillFree(b, p.lease)' /\ \A k \in Nodes : lease'[k][b] # p.lease
    <2>1. q.op \in {"unregister", "takeover"} /\ q.op # "unregister" /\ used \subseteq used'
      BY <1>2, <1>4
    <2>2. lease'[n][a] = NoLease /\ q.source = lease[m][a]
      BY <1>4, <1>5
    <2> QED BY ONLY RegInv, m \in Nodes, <1>2, <2>1, <2>2, GiveAway
  <1>9. PendingSane'
    <2>1. \A b \in Actors : \A p \in Pending(b)' :
             /\ p.uid = b
             /\ p.lease \in used'
             /\ p.op = "takeover" => p.source \in used'
      BY <1>1, <1>2, <1>3, <1>4 DEF PendingSane
    <2>2. ASSUME NEW k \in Nodes, NEW b \in Actors, call'[k][b].st # "idle"
          PROVE  /\ call'[k][b].req.node = k
                 /\ call'[k][b].req.op \in Acquires => call'[k][b].req \notin late'
                 /\ call'[k][b].req.op = "keepalive" => lease'[k][b] = call'[k][b].req.lease
      <3>1. CASE k = n /\ b = a
        BY <3>1, <1>3, <1>4, <1>7
      <3>2. CASE k # n \/ b # a
        BY <2>2, <3>2, <1>1, <1>2, <1>3, <1>5 DEF PendingSane
      <3> QED BY <3>1, <3>2
    <2> QED BY <2>1, <2>2 DEF PendingSane
  <1>10. AcquisitionsFresh'
    <2>1. \A b \in Actors : rec[b].lease # l
      BY <1>1, <1>2, <1>4 DEF RecordsSane, NoRecord
    <2>2. \A k \in Nodes, b \in Actors : lease'[k][b] # l
      BY <1>1, <1>2, <1>4, <1>5 DEF LeasesOwned
    <2>3. KillFree(a, l)'
      BY <1>2, <1>3, <1>4, <1>6 DEF KillFree
    <2> SUFFICES ASSUME NEW b \in Actors, NEW p \in Pending(b)', p.op \in Acquires
                 PROVE  /\ p.lease \in used'
                        /\ KillFree(b, p.lease)'
                        /\ rec'[b].lease = p.lease => rec'[b].node = p.node
                        /\ \A k \in Nodes : lease'[k][b] # p.lease
                        /\ \A x \in Pending(b)' : x.op \in Acquires /\ x.lease = p.lease => x = p
      BY DEF AcquisitionsFresh
    <2>4. CASE b = a /\ p = q
      BY <2>1, <2>2, <2>3, <2>4, <1>2, <1>3, <1>4, <1>6
    <2>5. CASE p \in Pending(b)
      BY <2>5, <1>1, <1>2, <1>3, <1>4, <1>6, <1>8 DEF AcquisitionsFresh
    <2> QED BY <2>4, <2>5, <1>3
  <1> QED BY <1>8, <1>9, <1>10 DEF RegInv

LEMMA RegInvInit == RegInit => RegInv
  <1> SUFFICES ASSUME RegInit PROVE RegInv
    OBVIOUS
  <1>1. \A a \in Actors : Pending(a) = {}
    BY DEF RegInit, Pending, Idle
  <1>2. RecordsSane
    BY DEF RegInit, RecordsSane
  <1>3. PendingSane /\ LeasesOwned /\ AcquisitionsFresh
    BY <1>1 DEF RegInit, PendingSane, LeasesOwned, AcquisitionsFresh, Idle
  <1>4. HoldsBacked
    BY DEF RegInit, HoldsBacked, Backed, Answered, Idle
  <1> QED BY <1>2, <1>3, <1>4, RegTypeInit DEF RegInv

LEMMA RegInvStep == RegInv /\ [RegNext]_regVars => RegInv'
  <1> SUFFICES ASSUME RegInv, [RegNext]_regVars PROVE RegInv'
    OBVIOUS
  <1>1. RegTypeOK'
    BY RegTypeStep DEF RegInv
  <1>2. CASE UNCHANGED regVars
    <2>1. UNCHANGED <<rec, lease, hold, used>> /\ call' = call /\ late' = late
      BY <1>2 DEF regVars
    <2>2. \A a \in Actors : Pending(a)' = Pending(a)
      BY <2>1 DEF Pending
    <2>3. \A n \in Nodes, a \in Actors : Answered(n, a)' = Answered(n, a)
      BY <2>1 DEF Answered
    <2>4. RecordsSane' /\ LeasesOwned' /\ AcquisitionsFresh' /\ HoldsBacked'
      BY <2>1, <2>2, <2>3, Shrinking
    <2>5. PendingSane'
      BY <2>1, <2>2 DEF RegInv, PendingSane
    <2> QED BY <1>1, <2>4, <2>5 DEF RegInv
  <1>3. ASSUME NEW n \in Nodes, NEW a \in Actors, Call(n, a) PROVE RegInv'
    BY <1>1, <1>3, RegisterInv, TakeOverInv, UnregisterInv, KeepAliveInv DEF Call
  <1>4. ASSUME NEW n \in Nodes, NEW a \in Actors, Step(n, a) PROVE RegInv'
    BY <1>1, <1>4, ExecuteInv, ResendInv, ReturnInv, FailInv DEF Step
  <1>5. ASSUME NEW q \in late, ExecuteLate(q) \/ LoseLate(q) PROVE RegInv'
    BY <1>1, <1>5, ExecuteLateInv, LoseLateInv
  <1>6. CASE RegTick
    BY <1>1, <1>6, RegTickInv
  <1> QED BY <1>2, <1>3, <1>4, <1>5, <1>6 DEF RegNext

\* The inductive invariant holds in every reachable state.
THEOREM RegInvariant == RegSpec => []RegInv
  BY RegInvInit, RegInvStep, PTL DEF RegSpec

\* While a node may treat an actor as its own, the key names that node: RegisterActor
\* of any other node answers already_registered, for every interleaving of lost,
\* repeated and late requests.
THEOREM RegHolderIsRegistered == RegSpec => []HolderIsRegistered
  <1>1. RegInv => HolderIsRegistered
    BY DEF RegInv, HoldsBacked, Backed, HolderIsRegistered
  <1> QED BY <1>1, RegInvariant, PTL

\* No two nodes treat the same actor as theirs at the same time.
THEOREM RegExclusiveHold == RegSpec => []ExclusiveHold
  <1>1. HolderIsRegistered => ExclusiveHold
    BY DEF HolderIsRegistered, ExclusiveHold
  <1> QED BY <1>1, RegHolderIsRegistered, PTL

\* A step that is not time changes the owner of one actor at most.
LEMMA OneActor ==
    ASSUME RegTypeOK, NEW n \in Nodes, NEW a \in Actors, Call(n, a) \/ Step(n, a)
    PROVE  \A m \in Nodes, b \in Actors : b # a => hold'[m][b] = hold[m][b]
  <1>1. CASE Call(n, a)
    BY <1>1 DEF Call, RegisterActor, TakeOverActor, UnregisterActor, KeepActorAlive, RegTypeOK
  <1>2. CASE Step(n, a)
    BY <1>2 DEF Step, Execute, Resend, Return, Fail, RegTypeOK
  <1> QED BY <1>1, <1>2

\* A step grants an actor to one node and then takes it from nobody else.
LEMMA OneGrant ==
    ASSUME RegInv, [RegNext]_regVars, NEW a \in Actors,
           NEW n \in Nodes, NEW m \in Nodes, n # m
    PROVE  hold'[m][a] = hold[m][a] \/ hold'[m][a] = 0 \/ hold'[n][a] = hold[n][a]
  <1>1. RegTypeOK
    BY DEF RegInv
  <1>2. CASE UNCHANGED regVars
    BY <1>2 DEF regVars
  <1>3. ASSUME NEW r \in Nodes, NEW b \in Actors, Call(r, b)
        PROVE  hold'[m][a] = hold[m][a] \/ hold'[m][a] = 0
    BY <1>1, <1>3 DEF Call, RegisterActor, TakeOverActor, UnregisterActor, KeepActorAlive, RegTypeOK
  <1>4. ASSUME NEW r \in Nodes, NEW b \in Actors, Step(r, b)
        PROVE  hold'[m][a] = hold[m][a] \/ hold'[n][a] = hold[n][a]
    BY <1>1, <1>4 DEF Step, Execute, Resend, Return, Fail, RegTypeOK
  <1>5. ASSUME NEW q \in late, ExecuteLate(q) \/ LoseLate(q) PROVE hold' = hold
    BY <1>5 DEF ExecuteLate, LoseLate
  <1>6. CASE RegTick
    <2>1. hold'[m][a] = CountDown(hold[m][a]) /\ hold'[n][a] = CountDown(hold[n][a])
      BY <1>6 DEF RegTick
    <2>2. hold[m][a] = 0 \/ hold[n][a] = 0
      BY DEF RegInv, HoldsBacked, Backed
    <2> QED BY <2>1, <2>2 DEF CountDown
  <1> QED BY <1>2, <1>3, <1>4, <1>5, <1>6 DEF RegNext

\* The owner of an actor changes only through nobody.
LEMMA OwnerMoves ==
    ASSUME RegInv, RegInv', [RegNext]_regVars, NEW a \in Actors
    PROVE  \/ actorOwner(a)' = actorOwner(a)
           \/ actorOwner(a)' = NoNode
           \/ actorOwner(a) = NoNode /\ actorOwner(a)' \in Nodes
  <1>1. CASE actorOwner(a) = NoNode
    BY <1>1 DEF actorOwner
  <1>2. CASE actorOwner(a) # NoNode /\ actorOwner(a)' # NoNode /\ actorOwner(a)' # actorOwner(a)
    <2>1. PICK n \in Nodes, m \in Nodes : n = actorOwner(a) /\ m = actorOwner(a)'
      BY <1>2 DEF actorOwner
    <2>2. hold[n][a] # 0 /\ hold'[m][a] # 0 /\ n # m
      BY <1>2, <2>1 DEF actorOwner
    <2>3. hold[m][a] = 0
      BY <2>2 DEF RegInv, HoldsBacked, Backed
    <2>4. hold'[n][a] = 0
      BY <2>2 DEF RegInv, HoldsBacked, Backed
    <2> QED BY <2>2, <2>3, <2>4, OneGrant
  <1> QED BY <1>1, <1>2

\* Registration implements exclusive ownership, for every number of nodes and actors.
THEOREM RegImplementsOwnership == RegSpec => ImplementsOwnership
  <1> DEFINE own == [a \in Actors |-> actorOwner(a)]
  <1>1. RegInit => Abstract!Init
    BY DEF RegInit, Abstract!Init, actorOwner
  <1>2. ASSUME RegInv, RegInv', [RegNext]_regVars PROVE [Abstract!Next]_own
    <2>1. ASSUME NEW rs \in SUBSET Actors,
                 \A a \in Actors : actorOwner(a)' = IF a \in rs THEN NoNode ELSE actorOwner(a)
          PROVE  Abstract!Next
      <3>1. Abstract!Release(rs)
        BY <2>1 DEF Abstract!Release
      <3> QED BY <3>1 DEF Abstract!Next
    <2>2. CASE RegTick
      <3>1. \A a \in Actors : actorOwner(a) = NoNode => actorOwner(a)' = NoNode
        <4>1. ASSUME NEW a \in Actors, actorOwner(a) = NoNode PROVE actorOwner(a)' = NoNode
          <5>1. \A n \in Nodes : hold[n][a] = 0
            BY <4>1, RegistryAssumption DEF actorOwner
          <5>2. \A n \in Nodes : hold'[n][a] = 0
            BY <2>2, <5>1 DEF RegTick, CountDown
          <5> QED BY <5>2 DEF actorOwner
        <4> QED BY <4>1
      <3>2. PICK rs \in SUBSET Actors : rs = {a \in Actors : actorOwner(a)' = NoNode}
        OBVIOUS
      <3>3. \A a \in Actors : actorOwner(a)' = IF a \in rs THEN NoNode ELSE actorOwner(a)
        BY <1>2, <3>1, <3>2, OwnerMoves
      <3> QED BY <2>1, <3>3
    <2>3. ASSUME NEW n \in Nodes, NEW a \in Actors, Call(n, a) \/ Step(n, a)
          PROVE  [Abstract!Next]_own
      <3>1. \A m \in Nodes, b \in Actors : b # a => hold'[m][b] = hold[m][b]
        BY <1>2, <2>3, OneActor DEF RegInv
      <3>2. \A b \in Actors : b # a => actorOwner(b)' = actorOwner(b)
        <4>1. ASSUME NEW b \in Actors, b # a PROVE actorOwner(b)' = actorOwner(b)
          <5>1. CASE \A n1 \in Nodes : hold[n1][b] = 0
            BY <3>1, <4>1, <5>1 DEF actorOwner
          <5>2. ASSUME NEW n1 \in Nodes, hold[n1][b] # 0 PROVE actorOwner(b)' = actorOwner(b)
            <6>1. hold'[n1][b] # 0
              BY <3>1, <4>1, <5>2
            <6>2. actorOwner(b) = n1
              BY <1>2, <5>2 DEF actorOwner, RegInv, HoldsBacked, Backed
            <6>3. actorOwner(b)' = n1
              BY <1>2, <6>1 DEF actorOwner, RegInv, HoldsBacked, Backed
            <6> QED BY <6>2, <6>3
          <5> QED BY <5>1, <5>2
        <4> QED BY <4>1
      <3>3. CASE actorOwner(a)' = actorOwner(a)
        BY <3>2, <3>3
      <3>4. CASE actorOwner(a)' = NoNode
        <4>1. PICK rs \in SUBSET Actors : rs = {a}
          OBVIOUS
        <4>2. \A b \in Actors : actorOwner(b)' = IF b \in rs THEN NoNode ELSE actorOwner(b)
          BY <3>2, <3>4, <4>1
        <4> QED BY <2>1, <4>2
      <3>5. CASE actorOwner(a) = NoNode /\ actorOwner(a)' \in Nodes
        <4>1. Abstract!Acquire(a, actorOwner(a)')
          BY <3>2, <3>5 DEF Abstract!Acquire
        <4> QED BY <3>5, <4>1 DEF Abstract!Next
      <3> QED BY <1>2, <3>3, <3>4, <3>5, OwnerMoves
    <2>4. CASE hold' = hold
      BY <2>4 DEF actorOwner
    <2>5. ASSUME NEW q \in late, ExecuteLate(q) \/ LoseLate(q) PROVE hold' = hold
      BY <2>5 DEF ExecuteLate, LoseLate
    <2> QED BY <1>2, <2>2, <2>3, <2>4, <2>5 DEF RegNext, regVars
  <1> QED BY <1>1, <1>2, RegInvariant, PTL DEF RegSpec, ImplementsOwnership, Abstract!Spec

-----------------------------------------------------------------------------
(* A takeover fences its source.                                               *)

\* Lease l of actor a is spent: it was made, the key has another, and no request that
\* may still run would put it back.
Fenced(a, l) ==
    /\ l \in used
    /\ rec[a].lease # l
    /\ \A q \in Pending(a) : q.op \in Acquires => q.lease # l

\* Whoever is told that a takeover succeeded has a source that is fenced.
TakenOver(n, a, l) ==
    /\ call[n][a].st = "replied"
    /\ call[n][a].req.op = "takeover"
    /\ call[n][a].req.source = l
    /\ call[n][a].reply.code = "ok"

SourceInv ==
    \A n \in Nodes, a \in Actors, l \in Leases : TakenOver(n, a, l) => Fenced(a, l)

\* A pending request that Redis executes leaves the lease alone, removes the key, or
\* acquires it.
LEMMA ExecuteLease ==
    ASSUME RegInv, NEW a \in Actors, NEW q \in Pending(a)
    PROVE  RunScript(rec[a], q).rec.lease
              \in {rec[a].lease, NoLease} \cup {p.lease : p \in {x \in Pending(a) : x.op \in Acquires}}
  <1>1. q \in Requests /\ rec[a] \in Records \cup {NoRecord}
    BY PendingTypes DEF RegInv, RegTypeOK
  <1>2. PICK r : r = RunScript(rec[a], q).rec
    OBVIOUS
  <1>3. \/ r = rec[a]
        \/ q.op \in Acquires /\ r = Held(q, TTL[q.uid])
        \/ r = NoRecord
        \/ r = [rec[a] EXCEPT !.pttl = Expiry(TTL[q.uid])] /\ rec[a] \in Records
    BY <1>1, <1>2, ScriptCases
  <1>4. CASE q.op \in Acquires /\ r = Held(q, TTL[q.uid])
    BY <1>2, <1>4 DEF Held
  <1>5. CASE r = [rec[a] EXCEPT !.pttl = Expiry(TTL[q.uid])] /\ rec[a] \in Records
    BY <1>2, <1>5 DEF Records
  <1> QED BY <1>2, <1>3, <1>4, <1>5 DEF NoRecord

\* A lease gets into a key only from a pending acquisition, and a new acquisition has a
\* lease that was never used.
LeaseMove(a) ==
    /\ used \subseteq used'
    /\ rec'[a].lease \in {rec[a].lease, NoLease} \cup {p.lease : p \in {x \in Pending(a) : x.op \in Acquires}}
    /\ \A q \in Pending(a)' : q \in Pending(a) \/ (q.op \in Acquires => q.lease \notin used)

LEMMA LeaseMoves ==
    ASSUME RegInv, [RegNext]_regVars, NEW a \in Actors PROVE LeaseMove(a)
  <1>1. RegTypeOK /\ PendingSane
    BY DEF RegInv
  <1>2. CASE UNCHANGED regVars
    BY <1>2 DEF regVars, Pending, LeaseMove
  <1>3. ASSUME NEW n \in Nodes, NEW b \in Actors, Call(n, b)
        PROVE  LeaseMove(a)
    <2>1. PICK q : Begin(n, b, q) /\ (q.op \in Acquires => q.lease \notin used) /\ used \subseteq used'
      BY <1>3 DEF Call, RegisterActor, TakeOverActor, UnregisterActor, KeepActorAlive, MakeLeaseID,
                  Request, Acquires
    <2>2. /\ Pending(b)' = Pending(b) \cup {q} /\ rec' = rec
          /\ \A c \in Actors : c # b => Pending(c)' = Pending(c)
      BY <1>1, <2>1, BeginPending
    <2> QED BY <2>1, <2>2 DEF LeaseMove
  <1>4. ASSUME NEW n \in Nodes, NEW b \in Actors, Execute(n, b)
        PROVE  LeaseMove(a)
    <2>1. call[n][b].st = "sent" /\ call[n][b].req \in Pending(b) /\ call[n][b] \in Calls
      BY <1>1, <1>4 DEF Execute, Pending, RegTypeOK, Idle
    <2>2. rec' = [rec EXCEPT ![b] = RunScript(rec[b], call[n][b].req).rec] /\ UNCHANGED <<late, used>>
      BY <1>4 DEF Execute
    <2>3. \A m \in Nodes, c \in Actors :
             /\ call'[m][c].req = call[m][c].req
             /\ call'[m][c].st # "idle" => call[m][c].st # "idle"
      BY <1>1, <1>4, <2>1 DEF Execute, RegTypeOK, Calls
    <2>4. \A c \in Actors : Pending(c)' \subseteq Pending(c)
      BY <2>2, <2>3 DEF Pending
    <2>5. b = a => rec'[a] = RunScript(rec[a], call[n][b].req).rec
      BY <1>1, <2>2 DEF RegTypeOK
    <2>6. b # a => rec'[a] = rec[a]
      BY <2>2
    <2> QED BY <2>1, <2>2, <2>4, <2>5, <2>6, ExecuteLease DEF LeaseMove
  <1>5. ASSUME NEW n \in Nodes, NEW b \in Actors, Resend(n, b) \/ Return(n, b) \/ Fail(n, b)
        PROVE  LeaseMove(a)
    <2>1. /\ call[n][b].st # "idle" /\ call[n][b] \in Calls /\ UNCHANGED <<rec, used>>
          /\ late' = late \/ late' = late \cup {call[n][b].req}
      BY <1>1, <1>5 DEF Resend, Return, Fail, RegTypeOK, Idle
    <2>2. call[n][b].req \in Pending(b) /\ call[n][b].req.uid = b
      BY <1>1, <2>1 DEF Pending, PendingSane
    <2>3. \A m \in Nodes, c \in Actors :
             call'[m][c].st # "idle" => call[m][c].st # "idle" /\ call'[m][c].req = call[m][c].req
      <3>1. CASE Resend(n, b)
        <4>1. call' = [call EXCEPT ![n][b] = [call[n][b] EXCEPT !.st = "sent", !.reply = NoReply]]
          BY <3>1 DEF Resend
        <4>2. call'[n][b].req = call[n][b].req
          BY <1>1, <2>1, <4>1 DEF RegTypeOK, Calls
        <4>3. \A m \in Nodes, c \in Actors : m # n \/ c # b => call'[m][c] = call[m][c]
          BY <1>1, <4>1 DEF RegTypeOK
        <4> QED BY <2>1, <4>2, <4>3
      <3>2. CASE call' = [call EXCEPT ![n][b] = Idle]
        BY <1>1, <3>2 DEF RegTypeOK, Idle
      <3> QED BY <1>5, <3>1, <3>2 DEF Return, Fail
    <2>4. \A c \in Actors : Pending(c)' \subseteq Pending(c)
      BY <2>1, <2>2, <2>3 DEF Pending
    <2> QED BY <2>1, <2>4 DEF LeaseMove
  <1>6. ASSUME NEW q \in late, ExecuteLate(q) \/ LoseLate(q)
        PROVE  LeaseMove(a)
    <2>1. q.uid \in Actors /\ q \in Pending(q.uid) /\ late' \subseteq late /\ UNCHANGED <<call, used>>
      BY <1>1, <1>6 DEF RegTypeOK, Requests, Pending, ExecuteLate, LoseLate
    <2>2. \A c \in Actors : Pending(c)' \subseteq Pending(c)
      BY <2>1 DEF Pending
    <2>3. rec' = rec \/ rec' = [rec EXCEPT ![q.uid] = RunScript(rec[q.uid], q).rec]
      BY <1>6 DEF ExecuteLate, LoseLate
    <2>4. rec'[a] = rec[a] \/ (q.uid = a /\ rec'[a] = RunScript(rec[a], q).rec)
      BY <1>1, <2>3 DEF RegTypeOK
    <2> QED BY <2>1, <2>2, <2>4, ExecuteLease DEF LeaseMove
  <1>7. CASE RegTick
    <2>1. \A m \in Nodes, c \in Actors :
             call'[m][c].st = call[m][c].st /\ call'[m][c].req = call[m][c].req
      <3> SUFFICES ASSUME NEW m \in Nodes, NEW c \in Actors
                   PROVE  call'[m][c].st = call[m][c].st /\ call'[m][c].req = call[m][c].req
        OBVIOUS
      <3>1. PICK x \in Calls \cup {Idle} : x = call[m][c]
        BY <1>1 DEF RegTypeOK
      <3>2. call'[m][c] = [x EXCEPT !.left = CountDown(x.left)]
        BY <1>7, <3>1 DEF RegTick
      <3> QED BY <3>1, <3>2 DEF Calls, Idle
    <2>2. \A c \in Actors : Pending(c)' = Pending(c)
      BY <1>7, <2>1 DEF RegTick, Pending
    <2>3. Age(rec[a]).lease \in {rec[a].lease, NoLease}
      BY <1>1 DEF RegTypeOK, Age, NoRecord, Records
    <2> QED BY <1>7, <2>2, <2>3 DEF RegTick, LeaseMove
  <1> QED BY <1>2, <1>3, <1>4, <1>5, <1>6, <1>7 DEF RegNext, Step

\* A lease that is spent stays so.
LEMMA FencedStep ==
    ASSUME RegInv, [RegNext]_regVars, NEW a \in Actors, NEW l \in Leases, Fenced(a, l)
    PROVE  Fenced(a, l)'
  <1>1. LeaseMove(a) /\ NoLease \notin Leases
    BY LeaseMoves, RegistryAssumption
  <1>2. rec'[a].lease # l
    BY <1>1 DEF LeaseMove, Fenced
  <1>3. \A q \in Pending(a)' : q.op \in Acquires => q.lease # l
    BY <1>1 DEF LeaseMove, Fenced
  <1> QED BY <1>1, <1>2, <1>3 DEF LeaseMove, Fenced

\* The takeover that succeeds replaces its source, which no pending acquisition carries.
LEMMA TakeOverFences ==
    ASSUME RegInv, NEW n \in Nodes, NEW a \in Actors, NEW l \in Leases,
           Execute(n, a), TakenOver(n, a, l)'
    PROVE  Fenced(a, l)'
  <1>1. RegTypeOK /\ PendingSane /\ AcquisitionsFresh
    BY DEF RegInv
  <1>2. PICK q : q = call[n][a].req
    OBVIOUS
  <1>3. PICK e : e = RunScript(rec[a], q)
    OBVIOUS
  <1>4. /\ call[n][a].st = "sent" /\ rec' = [rec EXCEPT ![a] = e.rec] /\ UNCHANGED <<late, used>>
        /\ call' = [call EXCEPT ![n][a] = [call[n][a] EXCEPT !.st = "replied", !.reply = e.reply]]
    BY <1>2, <1>3 DEF Execute
  <1>5. call[n][a] \in Calls
    BY <1>1, <1>4 DEF RegTypeOK, Idle
  <1>6. /\ call'[n][a].req = q /\ call'[n][a].reply = e.reply /\ call'[n][a].st = "replied"
        /\ \A m \in Nodes : m # n => call'[m][a] = call[m][a]
    BY <1>1, <1>2, <1>4, <1>5 DEF RegTypeOK, Calls
  <1>7. q \in Requests /\ q \in Pending(a) /\ q.op = "takeover" /\ q.op \in Acquires /\ q.uid = a
        /\ q.source = l /\ e.reply.code = "ok"
    <2>1. q \in Requests /\ q \in Pending(a)
      BY <1>2, <1>4, <1>5 DEF Calls, Pending
    <2>2. q.op = "takeover" /\ q.source = l /\ e.reply.code = "ok"
      BY <1>6 DEF TakenOver
    <2> QED BY <1>1, <2>1, <2>2 DEF PendingSane, Acquires
  <1>8. l \in used /\ \A p \in Pending(a) : p.op \in Acquires => p.lease # l
    BY <1>1, <1>7 DEF PendingSane, AcquisitionsFresh, KillFree
  <1>9. e.rec = Held(q, TTL[a])
    <2>1. rec[a] \in Records \cup {NoRecord}
      BY <1>1 DEF RegTypeOK
    <2> QED BY <1>3, <1>7, <2>1, ScriptCases
  <1>10. rec'[a].lease = q.lease
    BY <1>1, <1>4, <1>9 DEF RegTypeOK, Held
  <1>11. Pending(a)' \subseteq Pending(a)
    BY <1>2, <1>4, <1>6 DEF Pending
  <1> QED BY <1>4, <1>6, <1>7, <1>8, <1>10, <1>11 DEF Fenced

LEMMA SourceStep == RegInv /\ SourceInv /\ [RegNext]_regVars => SourceInv'
  <1> SUFFICES ASSUME RegInv, SourceInv, [RegNext]_regVars, NEW n \in Nodes, NEW a \in Actors,
                      NEW l \in Leases, TakenOver(n, a, l)'
               PROVE  Fenced(a, l)'
    BY DEF SourceInv
  <1>1. RegTypeOK /\ PendingSane
    BY DEF RegInv
  <1>2. CASE Execute(n, a)
    BY <1>2, TakeOverFences
  <1>3. ASSUME ~Execute(n, a) PROVE TakenOver(n, a, l)
    <2>1. CASE UNCHANGED regVars
      BY <2>1 DEF regVars, TakenOver
    <2>2. ASSUME NEW m \in Nodes, NEW b \in Actors, Call(m, b) PROVE TakenOver(n, a, l)
      <3>1. PICK q : Begin(m, b, q)
        BY <2>2 DEF Call, RegisterActor, TakeOverActor, UnregisterActor, KeepActorAlive
      <3>2. /\ call'[m][b].st = "sent"
            /\ \A k \in Nodes, c \in Actors : k # m \/ c # b => call'[k][c] = call[k][c]
        BY <1>1, <3>1, BeginPending
      <3> QED BY <3>2 DEF TakenOver
    <2>3. ASSUME NEW m \in Nodes, NEW b \in Actors, Step(m, b) PROVE TakenOver(n, a, l)
      <3>1. \A k \in Nodes, c \in Actors : k # m \/ c # b => call'[k][c] = call[k][c]
        BY <1>1, <2>3 DEF Step, Execute, Resend, Return, Fail, RegTypeOK
      <3>2. CASE m = n /\ b = a
        <4>1. call'[n][a].st # "replied"
          <5>1. CASE Resend(n, a)
            <6>1. call[n][a] \in Calls
              BY <1>1, <5>1 DEF Resend, RegTypeOK, Idle
            <6> QED BY <1>1, <5>1, <6>1 DEF Resend, RegTypeOK, Calls
          <5>2. CASE Return(n, a) \/ Fail(n, a)
            BY <1>1, <5>2 DEF Return, Fail, RegTypeOK, Idle
          <5> QED BY <1>3, <2>3, <3>2, <5>1, <5>2 DEF Step
        <4> QED BY <4>1 DEF TakenOver
      <3> QED BY <3>1, <3>2 DEF TakenOver
    <2>4. ASSUME NEW q \in late, ExecuteLate(q) \/ LoseLate(q) PROVE TakenOver(n, a, l)
      BY <2>4 DEF ExecuteLate, LoseLate, TakenOver
    <2>5. CASE RegTick
      <3>1. PICK x \in Calls \cup {Idle} : x = call[n][a]
        BY <1>1 DEF RegTypeOK
      <3>2. call'[n][a] = [x EXCEPT !.left = CountDown(x.left)]
        BY <2>5, <3>1 DEF RegTick
      <3> QED BY <3>1, <3>2 DEF Calls, Idle, TakenOver
    <2> QED BY <2>1, <2>2, <2>3, <2>4, <2>5 DEF RegNext
  <1>4. CASE ~Execute(n, a)
    <2>1. Fenced(a, l)
      BY <1>3, <1>4 DEF SourceInv
    <2> QED BY <2>1, FencedStep
  <1> QED BY <1>2, <1>4

\* A takeover that succeeded has fenced its source: the lease it replaced is spent.
THEOREM RegSourceIsSpent == RegSpec => []SourceInv
  <1>1. RegInit => SourceInv
    BY DEF RegInit, SourceInv, TakenOver, Idle
  <1> QED BY <1>1, RegInvInit, RegInvStep, SourceStep, PTL DEF RegSpec

\* It stays fenced for good: no key has that lease again, so whoever still carries it, in
\* a request that is late or sent again, can neither renew nor remove the registration.
THEOREM RegSourceFenced == RegSpec => SourceFenced
  <1>1. ASSUME NEW a \in Actors, NEW l \in Leases
        PROVE  RegSpec => []((\E n \in Nodes : TakenOver(n, a, l)) => [](rec[a].lease # l))
    <2>1. SourceInv => ((\E n \in Nodes : TakenOver(n, a, l)) => Fenced(a, l))
      BY DEF SourceInv
    <2>2. RegInv /\ [RegNext]_regVars /\ Fenced(a, l) => Fenced(a, l)'
      BY FencedStep
    <2>3. Fenced(a, l) => rec[a].lease # l
      BY DEF Fenced
    <2> QED BY <2>1, <2>2, <2>3, RegSourceIsSpent, RegInvariant, PTL DEF RegSpec
  <1> QED BY <1>1 DEF SourceFenced, TakenOver

-----------------------------------------------------------------------------
(* The cache.                                                                  *)

LEMMA MinOfTwo ==
    ASSUME NEW x \in Int, NEW y \in Int
    PROVE  Min({x, y}) = IF x <= y THEN x ELSE y
  BY DEF Min

\* Every step of the composed system is a step of the ownership protocol or leaves
\* its state alone.
LEMMA NextIsRegNext == Next => [RegNext]_regVars
  <1> SUFFICES ASSUME Next PROVE [RegNext]_regVars
    OBVIOUS
  <1>1. ASSUME NEW n \in Nodes, NEW a \in Actors, Own(n, a) PROVE RegNext
    BY <1>1 DEF Own, RegNext, Step
  <1>2. ASSUME NEW q \in late, Abandoned(q) PROVE RegNext
    BY <1>2 DEF Abandoned, RegNext
  <1>3. ASSUME NEW n \in Readers, NEW a \in Actors, Lookup(n, a) PROVE UNCHANGED regVars
    BY <1>3 DEF Lookup
  <1>4. ASSUME NEW n \in Watchers, Consume(n) \/ Close(n) PROVE UNCHANGED regVars
    BY <1>4 DEF Consume, Close
  <1>5. Tick => RegNext
    BY DEF Tick, RegNext
  <1> QED BY <1>1, <1>2, <1>3, <1>4, <1>5 DEF Next

\* The system with caches, lookups and consumers implements the ownership protocol.
THEOREM CacheImplementsRegistry == Spec => RegSpec
  <1>1. Init => RegInit
    BY DEF Init
  <1>2. [Next]_vars => [RegNext]_regVars
    BY NextIsRegNext DEF vars
  <1> QED BY <1>1, <1>2, PTL DEF Spec, RegSpec

-----------------------------------------------------------------------------
\* What is cached lives for LocalCacheMaxTTL at most.
LEMMA CacheLocationTypes ==
    ASSUME NEW node \in Nodes, NEW ttl \in Int, NEW phase \in 0 .. Second - 1
    PROVE  LET e == cacheLocation(node, ttl, phase)
           IN  e = NoEntry \/ (e.node = node /\ e.left \in 1..MaxTTL /\ e \in Entries)
  <1>1. PICK r \in Int : r = ttl * Second - phase
    BY SecondAssumption
  <1>2. MaxTTL \in Nat \ {0} /\ SafetyWindow \in Nat \ {0}
    BY CacheAssumption
  <1>3. r > SafetyWindow => /\ Min({r - SafetyWindow, MaxTTL}) \in Int
                            /\ Min({r - SafetyWindow, MaxTTL}) <= MaxTTL
    BY <1>1, <1>2, MinOfTwo
  <1>4. calcLocalCacheTTL(ttl, phase) \in Int /\ calcLocalCacheTTL(ttl, phase) <= MaxTTL
    BY <1>1, <1>2, <1>3 DEF calcLocalCacheTTL
  <1>5. PICK t \in Int : t = calcLocalCacheTTL(ttl, phase) /\ t <= MaxTTL
    BY <1>4
  <1>6. cacheLocation(node, ttl, phase) = IF t <= 0 THEN NoEntry ELSE [node |-> node, left |-> t]
    BY <1>5 DEF cacheLocation
  <1> QED BY <1>2, <1>5, <1>6 DEF Entries

\* The ages after a step: never more than t older, and zero for the key's node.
LEMMA TrackAges ==
    ASSUME NEW t \in {0, 1}, Track(t), RegTypeOK',
           age \in [Actors -> [Nodes -> 0..MaxAge]]
    PROVE  /\ age' \in [Actors -> [Nodes -> 0..MaxAge]]
           /\ \A a \in Actors, m \in Nodes : age'[a][m] <= age[a][m] + t
           /\ \A a \in Actors : rec'[a].node # NoNode => age'[a][rec'[a].node] = 0
  <1>1. MaxAge \in Nat
    BY CacheAssumption, RegistryAssumption DEF MaxAge
  <1>2. ASSUME NEW a \in Actors, NEW m \in Nodes
        PROVE  /\ age'[a][m] \in 0..MaxAge
               /\ age'[a][m] <= age[a][m] + t
               /\ rec'[a].node = m => age'[a][m] = 0
    <2>1. age'[a][m] = IF rec'[a].node = m THEN 0 ELSE Min({age[a][m] + t, MaxAge})
      BY DEF Track
    <2>2. age[a][m] \in 0..MaxAge
      OBVIOUS
    <2>3. Min({age[a][m] + t, MaxAge}) = IF age[a][m] + t <= MaxAge THEN age[a][m] + t ELSE MaxAge
      BY <1>1, <2>2, MinOfTwo
    <2> QED BY <1>1, <2>1, <2>2, <2>3
  <1>3. age' \in [Actors -> [Nodes -> 0..MaxAge]]
    BY <1>2 DEF Track
  <1>4. \A a \in Actors : rec'[a].node # NoNode => rec'[a].node \in Nodes
    BY DEF RegTypeOK, Records, NoRecord
  <1> QED BY <1>2, <1>3, <1>4

LEMMA StaleInit == Init => StaleInv
  <1> SUFFICES ASSUME Init PROVE StaleInv
    OBVIOUS
  <1>1. RegInv
    BY RegInvInit DEF Init
  <1>2. MaxAge \in Nat
    BY CacheAssumption, RegistryAssumption DEF MaxAge
  <1>3. cache \in [Nodes -> [Actors -> Entries]] /\ flight \in [Nodes -> [Actors -> Flights]]
    BY DEF Init, Entries, Flights
  <1>4. age \in [Actors -> [Nodes -> 0..MaxAge]]
    BY <1>2 DEF Init
  <1>5. \A a \in Actors : rec[a].node = NoNode
    BY DEF Init, RegInit, NoRecord
  <1>6. ASSUME NEW n \in Nodes, NEW a \in Actors
        PROVE  cache[n][a] = NoEntry /\ flight[n][a].st = "idle" /\ call[n][a].st = "idle"
    BY DEF Init, RegInit, NoFlight, Idle
  <1> QED BY <1>1, <1>3, <1>4, <1>5, <1>6 DEF StaleInv, Locates

\* The bounds StaleInv puts on one node and actor.
CallFresh(n, a) ==
    /\ call[n][a].st = "replied" => call[n][a].reply.code # "none"
    /\ Locates(n, a) => /\ Located(n, a) \in Nodes
                        /\ age[a][Located(n, a)] + call[n][a].left <= Timeout
FlightFresh(n, a) ==
    flight[n][a].st = "replied" /\ flight[n][a].reply.code = "ok" =>
        /\ flight[n][a].reply.node \in Nodes
        /\ age[a][flight[n][a].reply.node] + flight[n][a].left <= Timeout
EntryFresh(n, a) ==
    cache[n][a] # NoEntry => age[a][cache[n][a].node] + cache[n][a].left <= MaxAge

\* A call in flight is a well-formed call.
LEMMA CallTypes ==
    ASSUME RegTypeOK, NEW n \in Nodes, NEW a \in Actors, call[n][a].st # "idle"
    PROVE  call[n][a] \in Calls /\ call[n][a].left \in 0..Timeout /\ call[n][a].req \in Requests
           /\ call[n][a].reply \in Replies
  <1>1. call[n][a] \in Calls
    BY DEF RegTypeOK, Idle
  <1> QED BY <1>1 DEF Calls

LEMMA EntryTypes ==
    ASSUME NEW e \in Entries, e # NoEntry
    PROVE  e.node \in Nodes /\ e.left \in 1..MaxTTL
  BY DEF Entries

LEMMA FlightTypes ==
    ASSUME NEW f \in Flights, f.st # "idle"
    PROVE  f.left \in 0..Timeout /\ f.reply \in Replies /\ f.callers \in 1..MaxCallers
  BY DEF Flights, NoFlight

\* Ages that do not grow keep every bound whose reply or entry is the same.
LEMMA AgesKeep ==
    ASSUME StaleInv, RegInv', age' \in [Actors -> [Nodes -> 0..MaxAge]],
           \A a \in Actors, m \in Nodes : age'[a][m] <= age[a][m],
           NEW n \in Nodes, NEW a \in Actors
    PROVE  /\ call'[n][a] = call[n][a] => CallFresh(n, a)'
           /\ flight'[n][a] = flight[n][a] => FlightFresh(n, a)'
           /\ cache'[n][a] = cache[n][a] => EntryFresh(n, a)'
  <1>1. Timeout \in Nat /\ MaxTTL \in Nat /\ MaxAge \in Nat
    BY CacheAssumption, RegistryAssumption DEF MaxAge
  <1>2. RegTypeOK /\ CallFresh(n, a) /\ FlightFresh(n, a) /\ EntryFresh(n, a)
    BY DEF StaleInv, RegInv, CallFresh, FlightFresh, EntryFresh
  <1>3. \A m \in Nodes : age'[a][m] \in Int /\ age[a][m] \in Int /\ age'[a][m] <= age[a][m]
    BY DEF StaleInv
  <1>4. ASSUME call'[n][a] = call[n][a], Locates(n, a)'
        PROVE  /\ Located(n, a)' \in Nodes
               /\ age'[a][Located(n, a)'] + call'[n][a].left <= Timeout
    <2>1. Locates(n, a) /\ Located(n, a)' = Located(n, a) /\ call[n][a].st # "idle"
      BY <1>4 DEF Locates, Located
    <2>2. call[n][a].left \in Int
      BY <2>1, <1>2, CallTypes
    <2> QED BY <1>1, <1>2, <1>3, <1>4, <2>1, <2>2 DEF CallFresh
  <1>5. ASSUME flight'[n][a] = flight[n][a] PROVE FlightFresh(n, a)'
    <2>1. flight[n][a].st = "replied" => flight[n][a].left \in Int
      BY FlightTypes DEF StaleInv
    <2> QED BY <1>1, <1>2, <1>3, <1>5, <2>1 DEF FlightFresh
  <1>6. ASSUME cache'[n][a] = cache[n][a] PROVE EntryFresh(n, a)'
    <2>1. cache[n][a] # NoEntry => cache[n][a].node \in Nodes /\ cache[n][a].left \in Int
      BY EntryTypes DEF StaleInv
    <2> QED BY <1>1, <1>2, <1>3, <1>6, <2>1 DEF EntryFresh
  <1>7. call'[n][a] = call[n][a] => CallFresh(n, a)'
    BY <1>2, <1>4 DEF CallFresh
  <1> QED BY <1>5, <1>6, <1>7

\* A location cached from a reply whose bound holds is within its own bound.
LEMMA FillFresh ==
    ASSUME NEW m \in Nodes, NEW ttl \in Int, NEW phase \in 0 .. Second - 1,
           NEW x \in Int, NEW left \in 0..Timeout, x + left <= Timeout
    PROVE  LET e == cacheLocation(m, ttl, phase)
           IN  e \in Entries /\ (e # NoEntry => e.node = m /\ x + e.left <= MaxAge)
  <1>1. Timeout \in Nat /\ MaxTTL \in Nat
    BY CacheAssumption, RegistryAssumption
  <1>2. PICK e : e = cacheLocation(m, ttl, phase)
    OBVIOUS
  <1>3. e = NoEntry \/ (e.node = m /\ e.left \in 1..MaxTTL /\ e \in Entries)
    BY <1>2, CacheLocationTypes
  <1> QED BY <1>1, <1>2, <1>3 DEF MaxAge, Entries

\* A reply of Redis names the node the key named when the script ran.
LEMMA ScriptLocates ==
    ASSUME NEW r \in Records \cup {NoRecord}, NEW q \in Requests
    PROVE  LET e == RunScript(r, q) IN
           /\ e.reply.code # "none"
           /\ e.reply.code = "already_registered" =>
                 e.rec.node = e.reply.node /\ e.reply.node \in Nodes
           /\ e.reply.code = "ok" /\ q.op = "keepalive" => e.rec.node = q.node
           /\ e.reply.code = "ok" /\ q.op \in Acquires =>
                 e.rec.node = q.node /\ e.reply.node = q.node
  <1>1. r.node # NoNode => r \in Records /\ r.node \in Nodes
    BY DEF Records, NoRecord
  <1>2. CASE q.op = "register"
    BY <1>1, <1>2 DEF RunScript, registerActorScript, Effect, Reply, Held, Acquires
  <1>3. CASE q.op = "takeover"
    BY <1>3 DEF RunScript, takeOverActorScript, Effect, Reply, Held, Acquires
  <1>4. CASE q.op = "unregister"
    BY <1>4 DEF RunScript, unregisterActorScript, Effect, Reply, Acquires
  <1>5. CASE q.op = "keepalive"
    BY <1>1, <1>5 DEF RunScript, keepAliveActorScript, Effect, Reply, Acquires, Mismatch, Records
  <1> QED BY <1>2, <1>3, <1>4, <1>5 DEF Requests, Ops

\* StaleInv', from its parts.
LEMMA StaleParts ==
    ASSUME RegInv', cache' \in [Nodes -> [Actors -> Entries]],
           flight' \in [Nodes -> [Actors -> Flights]],
           age' \in [Actors -> [Nodes -> 0..MaxAge]],
           \A a \in Actors : rec'[a].node # NoNode => age'[a][rec'[a].node] = 0,
           \A n \in Nodes, a \in Actors : CallFresh(n, a)' /\ FlightFresh(n, a)' /\ EntryFresh(n, a)'
    PROVE  StaleInv'
  BY DEF StaleInv, CallFresh, FlightFresh, EntryFresh

\* The ownership calls.
LEMMA OwnStale ==
    ASSUME StaleInv, RegInv', Track(0), UNCHANGED flight,
           NEW n \in Nodes, NEW a \in Actors, Own(n, a)
    PROVE  StaleInv'
  <1>1. RegTypeOK /\ RegTypeOK' /\ PendingSane
    BY DEF StaleInv, RegInv
  <1>2. /\ age' \in [Actors -> [Nodes -> 0..MaxAge]]
        /\ \A b \in Actors, m \in Nodes : age'[b][m] <= age[b][m] /\ age[b][m] \in Int /\ age'[b][m] \in Int
        /\ \A b \in Actors : rec'[b].node # NoNode => age'[b][rec'[b].node] = 0
    <2>1. age \in [Actors -> [Nodes -> 0..MaxAge]]
      BY DEF StaleInv
    <2>2. /\ age' \in [Actors -> [Nodes -> 0..MaxAge]]
          /\ \A b \in Actors, m \in Nodes : age'[b][m] <= age[b][m] + 0
          /\ \A b \in Actors : rec'[b].node # NoNode => age'[b][rec'[b].node] = 0
      BY <1>1, <2>1, TrackAges
    <2> QED BY <2>1, <2>2
  <1>3. flight' \in [Nodes -> [Actors -> Flights]] /\ cache \in [Nodes -> [Actors -> Entries]]
    BY DEF StaleInv
  <1>4. \A m \in Nodes, b \in Actors : m # n \/ b # a => call'[m][b] = call[m][b]
    <2>1. CASE Call(n, a)
      BY <2>1, <1>1 DEF Call, RegisterActor, TakeOverActor, UnregisterActor, KeepActorAlive, Begin, RegTypeOK
    <2>2. CASE Resend(n, a)
      BY <2>2, <1>1 DEF Resend, RegTypeOK
    <2>3. CASE Fail(n, a)
      BY <2>3, <1>1 DEF Fail, RegTypeOK
    <2>4. CASE Execute(n, a)
      BY <2>4, <1>1 DEF Execute, RegTypeOK
    <2>5. CASE Return(n, a)
      BY <2>5, <1>1 DEF Return, RegTypeOK
    <2> QED BY <2>1, <2>2, <2>3, <2>4, <2>5 DEF Own
  <1>5. \A m \in Nodes, b \in Actors :
           /\ call'[m][b] = call[m][b] => CallFresh(m, b)'
           /\ FlightFresh(m, b)'
           /\ cache'[m][b] = cache[m][b] => EntryFresh(m, b)'
    BY <1>2, AgesKeep
  <1>6. CASE (Call(n, a) \/ Resend(n, a) \/ Fail(n, a)) /\ UNCHANGED cache
    <2>1. call'[n][a].st # "replied"
      <3>1. CASE Call(n, a)
        BY <3>1, <1>1 DEF Call, RegisterActor, TakeOverActor, UnregisterActor, KeepActorAlive, Begin, RegTypeOK, Sent
      <3>2. CASE Resend(n, a)
        <4>1. call[n][a] \in Calls
          BY <3>2, <1>1, CallTypes DEF Resend
        <4> QED BY <3>2, <4>1, <1>1 DEF Resend, RegTypeOK, Calls
      <3>3. CASE Fail(n, a)
        BY <3>3, <1>1 DEF Fail, RegTypeOK, Idle
      <3> QED BY <1>6, <3>1, <3>2, <3>3
    <2>2. CallFresh(n, a)'
      BY <2>1 DEF CallFresh, Locates
    <2> QED BY <1>2, <1>3, <1>4, <1>5, <1>6, <2>2, StaleParts
  <1>7. CASE Execute(n, a) /\ UNCHANGED cache
    <2> DEFINE c == call[n][a]
               e == RunScript(rec[a], c.req)
    <2>1. c.st = "sent" /\ rec' = [rec EXCEPT ![a] = e.rec]
          /\ call' = [call EXCEPT ![n][a] = [c EXCEPT !.st = "replied", !.reply = e.reply]]
      BY <1>7 DEF Execute
    <2>2. c \in Calls /\ c.left \in 0..Timeout /\ c.req \in Requests /\ c.req.node = n
      BY <2>1, <1>1, CallTypes DEF PendingSane
    <2>3. call'[n][a].req = c.req /\ call'[n][a].left = c.left /\ call'[n][a].reply = e.reply
      BY <2>1, <2>2, <1>1 DEF RegTypeOK, Calls
    <2>4. rec'[a] = e.rec /\ rec[a] \in Records \cup {NoRecord}
      BY <2>1, <1>1 DEF RegTypeOK
    <2>5. e.reply.code # "none" /\
          (Locates(n, a)' => Located(n, a)' \in Nodes /\ rec'[a].node = Located(n, a)')
      <3>1. PICK x : x = e
        OBVIOUS
      <3>2. /\ x.reply.code # "none"
            /\ x.reply.code = "already_registered" =>
                  x.rec.node = x.reply.node /\ x.reply.node \in Nodes
            /\ x.reply.code = "ok" /\ c.req.op = "keepalive" => x.rec.node = n
            /\ x.reply.code = "ok" /\ c.req.op \in Acquires => x.rec.node = n /\ x.reply.node = n
        BY <3>1, <2>2, <2>4, ScriptLocates
      <3>3. Locates(n, a)' => \/ x.reply.code = "already_registered"
                              \/ x.reply.code = "ok" /\ c.req.op \in Acquires \cup {"keepalive"}
        BY <3>1, <2>2, <2>3 DEF Locates, Requests, Ops, Acquires
      <3>4. Located(n, a)' = IF x.reply.code = "ok" /\ c.req.op = "keepalive" THEN n ELSE x.reply.node
        BY <3>1, <2>3 DEF Located
      <3> QED BY <3>1, <3>2, <3>3, <3>4, <2>4 DEF Acquires
    <2>6. Locates(n, a)' => age'[a][Located(n, a)'] = 0
      BY <2>5, <1>2, RegistryAssumption
    <2>7. CallFresh(n, a)'
      BY <2>2, <2>3, <2>5, <2>6, RegistryAssumption DEF CallFresh
    <2> QED BY <1>2, <1>3, <1>4, <1>5, <1>7, <2>7, StaleParts
  <1>8. ASSUME Return(n, a), NEW phase \in 0 .. Second - 1,
               cache' = [cache EXCEPT ![n][a] =
                            AfterReply(cache[n][a], a, call[n][a].req, call[n][a].reply, phase)]
        PROVE  StaleInv'
    <2> DEFINE c == call[n][a]
               e == AfterReply(cache[n][a], a, c.req, c.reply, phase)
    <2>1. c.st = "replied" /\ call'[n][a] = Idle
      BY <1>8, <1>1 DEF Return, RegTypeOK
    <2>2. c \in Calls /\ c.left \in 0..Timeout /\ c.req \in Requests /\ c.req.node = n
          /\ c.reply \in Replies /\ c.reply.ttl \in Int /\ TTL[a] \in Int
      BY <2>1, <1>1, CallTypes, RegistryAssumption DEF PendingSane, Replies
    <2>3. CallFresh(n, a)'
      BY <2>1 DEF CallFresh, Locates, Idle
    <2>4. cache'[n][a] = e /\ \A m \in Nodes, b \in Actors : m # n \/ b # a => cache'[m][b] = cache[m][b]
      BY <1>3, <1>8
    <2>5. Locates(n, a) => Located(n, a) \in Nodes /\ age[a][Located(n, a)] + c.left <= Timeout
      BY DEF StaleInv
    <2>6. e \in Entries /\ EntryFresh(n, a)'
      <3>1. CASE e = NoEntry
        BY <3>1, <2>4 DEF Entries, EntryFresh
      <3>2. CASE e = cache[n][a]
        BY <3>2, <2>4, <1>3, <1>5
      <3>3. ASSUME Locates(n, a), NEW ttl \in Int, e = cacheLocation(Located(n, a), ttl, phase)
            PROVE  e \in Entries /\ EntryFresh(n, a)'
        <4>1. PICK m \in Nodes : m = Located(n, a)
          BY <2>5, <3>3
        <4>2. age'[a][m] \in Int /\ age'[a][m] + c.left <= Timeout
          BY <4>1, <2>2, <2>5, <3>3, <1>2, RegistryAssumption
        <4>3. e \in Entries /\ (e # NoEntry => e.node = m /\ age'[a][m] + e.left <= MaxAge)
          BY <3>3, <4>1, <4>2, <2>2, FillFresh
        <4> QED BY <4>3, <2>4 DEF EntryFresh
      <3>4. CASE \/ c.reply.code = "ok" /\ c.req.op \in {"register", "takeover"}
                 \/ c.reply.code = "already_registered"
        <4>1. Locates(n, a) /\ Located(n, a) = c.reply.node
          BY <3>4, <2>1 DEF Locates, Located
        <4>2. e = cacheLocation(c.reply.node, c.reply.ttl, phase)
          BY <3>4 DEF AfterReply
        <4> QED BY <4>1, <4>2, <3>3, <2>2
      <3>5. CASE c.reply.code = "ok" /\ c.req.op = "keepalive"
        <4>1. Locates(n, a) /\ Located(n, a) = c.req.node
          BY <3>5, <2>1, <2>2 DEF Locates, Located
        <4>2. e = cacheLocation(c.req.node, TTL[a], phase)
          BY <3>5 DEF AfterReply
        <4> QED BY <4>1, <4>2, <3>3, <2>2
      <3>6. CASE \/ c.reply.code = "ok" /\ c.req.op = "unregister"
                \/ c.reply.code = "not_exists"
        BY <3>6, <3>1 DEF AfterReply
      <3>7. CASE c.reply.code = "lease_mismatch"
        BY <3>7, <3>2 DEF AfterReply
      <3>8. c.reply.code # "none"
        BY <2>1 DEF StaleInv
      <3> QED BY <3>4, <3>5, <3>6, <3>7, <3>8, <2>2 DEF Replies, Codes, Requests, Ops
    <2>7. cache' \in [Nodes -> [Actors -> Entries]]
      BY <2>6, <1>3, <1>8
    <2> QED BY <1>2, <1>3, <1>4, <1>5, <2>3, <2>4, <2>6, <2>7, StaleParts
  <1> QED BY <1>6, <1>7, <1>8 DEF Own

\* Abandoned requests.
LEMMA AbandonedStale ==
    ASSUME StaleInv, RegInv', Track(0), UNCHANGED flight, NEW q \in late, Abandoned(q)
    PROVE  StaleInv'
  <1>1. RegTypeOK' /\ call' = call /\ cache' = cache
    BY DEF RegInv, Abandoned, ExecuteLate, LoseLate
  <1>2. age \in [Actors -> [Nodes -> 0..MaxAge]] /\ MaxAge \in Nat
    BY CacheAssumption, RegistryAssumption DEF StaleInv, MaxAge
  <1>3. /\ age' \in [Actors -> [Nodes -> 0..MaxAge]]
        /\ \A b \in Actors, m \in Nodes : age'[b][m] <= age[b][m] + 0
        /\ \A b \in Actors : rec'[b].node # NoNode => age'[b][rec'[b].node] = 0
    BY <1>1, <1>2, TrackAges
  <1>4. \A b \in Actors, m \in Nodes : age'[b][m] <= age[b][m]
    BY <1>2, <1>3
  <1>5. \A m \in Nodes, b \in Actors : CallFresh(m, b)' /\ FlightFresh(m, b)' /\ EntryFresh(m, b)'
    BY <1>1, <1>3, <1>4, AgesKeep
  <1> QED BY <1>1, <1>3, <1>5, StaleParts DEF StaleInv

\* Lookups.
LEMMA LookupStale ==
    ASSUME StaleInv, RegInv', NEW n \in Nodes, NEW a \in Actors, Lookup(n, a)
    PROVE  StaleInv'
  <1> DEFINE f == flight[n][a]
  <1>1. /\ UNCHANGED <<rec, call, age>>
        /\ RegTypeOK
        /\ cache \in [Nodes -> [Actors -> Entries]]
        /\ flight \in [Nodes -> [Actors -> Flights]]
        /\ age \in [Actors -> [Nodes -> 0..MaxAge]]
        /\ \A b \in Actors : rec[b].node # NoNode => age[b][rec[b].node] = 0
    BY DEF Lookup, regVars, StaleInv, RegInv
  <1>2. MaxAge \in Nat /\ Timeout \in Nat /\ MaxCallers \in Nat \ {0}
    BY CacheAssumption, RegistryAssumption DEF MaxAge
  <1>3. \A b \in Actors, m \in Nodes : age'[b][m] <= age[b][m]
    BY <1>1, <1>2
  <1>4. \A m \in Nodes, b \in Actors :
           /\ CallFresh(m, b)'
           /\ flight'[m][b] = flight[m][b] => FlightFresh(m, b)'
           /\ cache'[m][b] = cache[m][b] => EntryFresh(m, b)'
    BY <1>1, <1>3, AgesKeep
  <1>5. ASSUME NEW g \in Flights, flight' = [flight EXCEPT ![n][a] = g], FlightFresh(n, a)',
               cache' \in [Nodes -> [Actors -> Entries]], EntryFresh(n, a)',
               \A m \in Nodes, b \in Actors : m # n \/ b # a => cache'[m][b] = cache[m][b]
        PROVE  StaleInv'
    <2>1. flight' \in [Nodes -> [Actors -> Flights]]
          /\ \A m \in Nodes, b \in Actors : m # n \/ b # a => flight'[m][b] = flight[m][b]
      BY <1>1, <1>5
    <2>2. \A m \in Nodes, b \in Actors : FlightFresh(m, b)' /\ EntryFresh(m, b)'
      BY <1>4, <1>5, <2>1
    <2> QED BY <1>1, <1>4, <1>5, <2>1, <2>2, StaleParts
  <1>6. CASE GetActorLocation(n, a)
    <2>1. PICK g : g = IF f.st = "idle"
                       THEN [st |-> "sent", left |-> Timeout, reply |-> NoReply, callers |-> 1]
                       ELSE [f EXCEPT !.callers = f.callers + 1]
      OBVIOUS
    <2>2. flight' = [flight EXCEPT ![n][a] = g] /\ cache' = cache /\ f.callers < MaxCallers
      <3>1. flight' = [flight EXCEPT ![n][a] =
                 IF f.st = "idle"
                 THEN [st |-> "sent", left |-> Timeout, reply |-> NoReply, callers |-> 1]
                 ELSE [f EXCEPT !.callers = f.callers + 1]]
            /\ cache' = cache /\ f.callers < MaxCallers
        BY <1>6 DEF GetActorLocation
      <3> QED BY <3>1, <2>1
    <2>3. g \in Flights
      <3>1. CASE f.st = "idle"
        <4>1. NoReply \in Replies
          BY DEF NoReply, Reply, Replies, Codes
        <4>2. g \in [st : {"sent", "replied"}, left : 0..Timeout, reply : Replies, callers : 1..MaxCallers]
          BY <3>1, <4>1, <2>1, <1>2
        <4> QED BY <4>2 DEF Flights
      <3>2. CASE f.st # "idle"
        <4>1. f \in [st : {"sent", "replied"}, left : 0..Timeout, reply : Replies, callers : 1..MaxCallers]
          BY <3>2, <1>1 DEF Flights, NoFlight
        <4>2. f.callers + 1 \in 1..MaxCallers
          BY <4>1, <2>2, <1>2
        <4> QED BY <3>2, <4>1, <4>2, <2>1 DEF Flights
      <3> QED BY <3>1, <3>2
    <2>4. flight'[n][a] = g
      BY <2>2, <1>1
    <2>5. g.st = "replied" => g.left = f.left /\ g.reply = f.reply /\ f.st = "replied"
      <3>1. f.st # "idle" => f \in [st : {"sent", "replied"}, left : 0..Timeout, reply : Replies, callers : 1..MaxCallers]
        BY <1>1 DEF Flights, NoFlight
      <3> QED BY <3>1, <2>1
    <2>6. FlightFresh(n, a)
      BY DEF StaleInv, FlightFresh
    <2>7. FlightFresh(n, a)'
      BY <2>4, <2>5, <2>6, <1>1 DEF FlightFresh
    <2> QED BY <1>1, <1>4, <1>5, <2>2, <2>3, <2>7
  <1>7. CASE LookupExecute(n, a)
    <2>1. PICK r : r = getActorRegScript(rec[a])
      OBVIOUS
    <2>2. PICK g : g = [f EXCEPT !.st = "replied", !.reply = r]
      OBVIOUS
    <2>3. f.st = "sent" /\ flight' = [flight EXCEPT ![n][a] = g] /\ cache' = cache
      BY <1>7, <2>1, <2>2 DEF LookupExecute
    <2>4. f \in [st : {"sent", "replied"}, left : 0..Timeout, reply : Replies, callers : 1..MaxCallers]
      BY <2>3, <1>1 DEF Flights, NoFlight
    <2>5. rec[a] \in Records \cup {NoRecord}
      BY <1>1 DEF RegTypeOK
    <2>6. r \in Replies /\ (r.code = "ok" => r.node = rec[a].node /\ r.node \in Nodes)
      <3>1. rec[a].node # NoNode => rec[a].node \in Nodes
        BY <2>5 DEF Records, NoRecord
      <3>2. rec[a].pttl \in Int
        BY <2>5 DEF Records, NoRecord, Ticks, Persist
      <3>3. CeilSeconds(rec[a].pttl) \in Int
        BY <3>2, SecondAssumption DEF CeilSeconds
      <3> QED BY <2>1, <3>1, <3>3 DEF getActorRegScript, Reply, Replies, Codes
    <2>7. g \in Flights /\ g.reply = r /\ g.left = f.left
      BY <2>2, <2>4, <2>6 DEF Flights
    <2>8. flight'[n][a] = g
      BY <2>3, <1>1
    <2>9. r.code = "ok" => age'[a][r.node] = 0
      BY <2>6, <1>1, RegistryAssumption
    <2>10. FlightFresh(n, a)'
      BY <2>4, <2>6, <2>7, <2>8, <2>9, <1>2 DEF FlightFresh
    <2> QED BY <1>1, <1>4, <1>5, <2>3, <2>7, <2>10
  <1>8. CASE LookupResend(n, a)
    <2>1. PICK g : g = [f EXCEPT !.st = "sent", !.reply = NoReply]
      OBVIOUS
    <2>2. f.st = "replied" /\ flight' = [flight EXCEPT ![n][a] = g] /\ cache' = cache
      BY <1>8, <2>1 DEF LookupResend
    <2>3. f \in [st : {"sent", "replied"}, left : 0..Timeout, reply : Replies, callers : 1..MaxCallers]
      BY <2>2, <1>1 DEF Flights, NoFlight
    <2>4. NoReply \in Replies
      BY DEF NoReply, Reply, Replies, Codes
    <2>5. g \in Flights /\ g.st = "sent"
      BY <2>1, <2>3, <2>4 DEF Flights
    <2>6. FlightFresh(n, a)'
      BY <2>2, <2>5, <1>1 DEF FlightFresh
    <2> QED BY <1>1, <1>4, <1>5, <2>2, <2>5, <2>6
  <1>9. ASSUME flight' = [flight EXCEPT ![n][a] = NoFlight]
        PROVE  NoFlight \in Flights /\ FlightFresh(n, a)'
    BY <1>9, <1>1 DEF FlightFresh, Flights, NoFlight
  <1>10. CASE LookupReturn(n, a)
    <2>1. f.st = "replied" /\ flight' = [flight EXCEPT ![n][a] = NoFlight]
      BY <1>10 DEF LookupReturn
    <2>2. CASE f.reply.code # "ok"
      <3>1. cache' = cache
        BY <1>10, <2>2 DEF LookupReturn
      <3> QED BY <1>1, <1>4, <1>5, <1>9, <2>1, <3>1
    <2>3. CASE f.reply.code = "ok"
      <3>1. PICK phase \in 0 .. Second - 1 :
               cache' = [cache EXCEPT ![n][a] = cacheLocation(f.reply.node, f.reply.ttl, phase)]
        BY <1>10, <2>3 DEF LookupReturn
      <3>2. PICK e : e = cacheLocation(f.reply.node, f.reply.ttl, phase)
        OBVIOUS
      <3>3. /\ f.reply.node \in Nodes /\ f.reply.ttl \in Int /\ f.left \in 0..Timeout
            /\ age[a][f.reply.node] + f.left <= Timeout /\ age[a][f.reply.node] \in Int
        <4>1. f.left \in 0..Timeout /\ f.reply \in Replies
          BY <2>1, <1>1, FlightTypes
        <4>2. f.reply.node \in Nodes /\ age[a][f.reply.node] + f.left <= Timeout
          BY <2>1, <2>3 DEF StaleInv
        <4> QED BY <4>1, <4>2, <1>1, <1>2 DEF Replies
      <3>4. e \in Entries /\ (e # NoEntry => e.node = f.reply.node /\ age[a][f.reply.node] + e.left <= MaxAge)
        BY <3>2, <3>3, FillFresh
      <3>5. cache' \in [Nodes -> [Actors -> Entries]] /\ cache'[n][a] = e
            /\ \A m \in Nodes, b \in Actors : m # n \/ b # a => cache'[m][b] = cache[m][b]
        BY <3>1, <3>2, <3>4, <1>1
      <3>6. EntryFresh(n, a)'
        BY <3>4, <3>5, <1>1 DEF EntryFresh
      <3> QED BY <1>5, <1>9, <2>1, <3>5, <3>6
    <2> QED BY <2>2, <2>3
  <1>11. CASE LookupFail(n, a)
    BY <1>1, <1>4, <1>5, <1>9, <1>11 DEF LookupFail
  <1> QED BY <1>6, <1>7, <1>8, <1>10, <1>11 DEF Lookup

\* The consumer only removes entries.
LEMMA ConsumeStale ==
    ASSUME StaleInv, RegInv', NEW n \in Nodes, Consume(n) \/ Close(n)
    PROVE  StaleInv'
  <1>1. /\ UNCHANGED <<rec, call, flight, age>>
        /\ cache \in [Nodes -> [Actors -> Entries]]
        /\ age \in [Actors -> [Nodes -> 0..MaxAge]]
    BY DEF Consume, Close, regVars, StaleInv
  <1>2. MaxAge \in Nat
    BY CacheAssumption, RegistryAssumption DEF MaxAge
  <1>3. \/ cache' = cache
        \/ \E b : cache' = [cache EXCEPT ![n][b] = NoEntry]
    BY DEF Consume, Close, ApplyLocationChange
  <1>4. NoEntry \in Entries
    BY DEF Entries
  <1>5. cache' \in [Nodes -> [Actors -> Entries]]
        /\ \A m \in Nodes, a \in Actors : cache'[m][a] = cache[m][a] \/ cache'[m][a] = NoEntry
    <2>1. CASE cache' = cache
      BY <1>1, <2>1
    <2>2. ASSUME NEW b, cache' = [cache EXCEPT ![n][b] = NoEntry]
          PROVE  <1>5!1 /\ <1>5!2
      <3>1. ASSUME NEW m \in Nodes
            PROVE  cache'[m] \in [Actors -> Entries]
                   /\ \A a \in Actors : cache'[m][a] = cache[m][a] \/ cache'[m][a] = NoEntry
        <4>1. CASE m = n
          <5>1. cache'[m] = [cache[n] EXCEPT ![b] = NoEntry] /\ cache[n] \in [Actors -> Entries]
            BY <4>1, <2>2, <1>1
          <5> QED BY <5>1, <4>1, <1>4
        <4>2. CASE m # n
          <5>1. cache'[m] = cache[m]
            BY <4>2, <2>2, <1>1
          <5> QED BY <5>1, <1>1
        <4> QED BY <4>1, <4>2
      <3> QED BY <3>1, <2>2, <1>1
    <2> QED BY <1>3, <2>1, <2>2
  <1>6. \A b \in Actors, m \in Nodes : age'[b][m] <= age[b][m]
    BY <1>1, <1>2
  <1>7. \A m \in Nodes, b \in Actors :
           CallFresh(m, b)' /\ FlightFresh(m, b)' /\ (cache'[m][b] = cache[m][b] => EntryFresh(m, b)')
    BY <1>1, <1>6, AgesKeep
  <1>8. \A m \in Nodes, b \in Actors : EntryFresh(m, b)'
    BY <1>5, <1>7 DEF EntryFresh
  <1> QED BY <1>1, <1>5, <1>7, <1>8, StaleParts DEF StaleInv

\* Time: ages grow by one tick at most, deadlines and entries lose one.
LEMMA TickStale ==
    ASSUME StaleInv, RegInv', Tick
    PROVE  StaleInv'
  <1>1. RegTypeOK /\ RegTypeOK'
    BY DEF StaleInv, RegInv
  <1>2. MaxAge \in Nat /\ Timeout \in Nat /\ MaxTTL \in Nat
    BY CacheAssumption, RegistryAssumption DEF MaxAge
  <1>3. /\ cache \in [Nodes -> [Actors -> Entries]]
        /\ flight \in [Nodes -> [Actors -> Flights]]
        /\ age \in [Actors -> [Nodes -> 0..MaxAge]]
    BY DEF StaleInv
  <1>4. /\ age' \in [Actors -> [Nodes -> 0..MaxAge]]
        /\ \A b \in Actors, m \in Nodes : age'[b][m] <= age[b][m] + 1
        /\ \A b \in Actors : rec'[b].node # NoNode => age'[b][rec'[b].node] = 0
    BY <1>1, <1>3, TrackAges DEF Tick
  <1>5. \A b \in Actors, m \in Nodes : age[b][m] \in Int /\ age'[b][m] \in Int
    BY <1>3, <1>4
  <1>6. ASSUME NEW n \in Nodes, NEW a \in Actors
        PROVE  CallFresh(n, a)'
    <2>1. CallFresh(n, a)
      BY DEF StaleInv, CallFresh
    <2>2. call'[n][a] = [call[n][a] EXCEPT !.left = CountDown(call[n][a].left)]
          /\ (call[n][a].st # "idle" => call[n][a].left > 0)
      BY DEF Tick, RegTick
    <2>3. CASE call[n][a].st = "replied"
      <3>1. call[n][a] \in Calls /\ call[n][a].left \in 0..Timeout
        BY <2>3, <1>1, CallTypes
      <3>2. /\ call'[n][a].left = call[n][a].left - 1
            /\ call'[n][a].st = call[n][a].st
            /\ call'[n][a].req = call[n][a].req
            /\ call'[n][a].reply = call[n][a].reply
        BY <2>2, <2>3, <3>1, <1>2 DEF CountDown, Calls
      <3>3. (Locates(n, a)' <=> Locates(n, a)) /\ Located(n, a)' = Located(n, a)
        BY <3>2 DEF Locates, Located
      <3>4. Locates(n, a) => /\ Located(n, a) \in Nodes
                             /\ age'[a][Located(n, a)] + call'[n][a].left <= Timeout
        BY <2>1, <3>1, <3>2, <1>2, <1>4, <1>5 DEF CallFresh
      <3> QED BY <2>1, <3>2, <3>3, <3>4 DEF CallFresh
    <2>4. CASE call[n][a].st # "replied"
      <3>1. call'[n][a].st # "replied"
        BY <2>2, <2>4, <1>1 DEF RegTypeOK, Calls, Idle
      <3> QED BY <3>1 DEF CallFresh, Locates
    <2> QED BY <2>3, <2>4
  <1>7. ASSUME NEW n \in Nodes, NEW a \in Actors
        PROVE  flight'[n][a] \in Flights /\ FlightFresh(n, a)'
    <2>1. FlightFresh(n, a)
      BY DEF StaleInv, FlightFresh
    <2>2. flight'[n][a] = [flight[n][a] EXCEPT !.left = CountDown(flight[n][a].left)]
          /\ (flight[n][a].st # "idle" => flight[n][a].left > 0)
      BY DEF Tick
    <2>3. CASE flight[n][a] = NoFlight
      <3>1. flight'[n][a] = NoFlight
        BY <2>2, <2>3 DEF NoFlight, CountDown
      <3> QED BY <3>1 DEF FlightFresh, Flights, NoFlight
    <2>4. CASE flight[n][a] # NoFlight
      <3>1. flight[n][a] \in [st : {"sent", "replied"}, left : 0..Timeout, reply : Replies, callers : 1..MaxCallers]
        BY <2>4, <1>3 DEF Flights
      <3>2. CountDown(flight[n][a].left) = flight[n][a].left - 1
            /\ flight[n][a].left - 1 \in 0..Timeout
        BY <3>1, <2>2, <1>2 DEF CountDown
      <3>3. /\ flight'[n][a] \in Flights
            /\ flight'[n][a].left = flight[n][a].left - 1
            /\ flight'[n][a].st = flight[n][a].st
            /\ flight'[n][a].reply = flight[n][a].reply
        BY <3>1, <3>2, <2>2 DEF Flights
      <3> QED BY <3>1, <3>3, <2>1, <1>2, <1>4, <1>5 DEF FlightFresh
    <2> QED BY <2>3, <2>4
  <1>8. ASSUME NEW n \in Nodes, NEW a \in Actors
        PROVE  cache'[n][a] \in Entries /\ EntryFresh(n, a)'
    <2>1. EntryFresh(n, a)
      BY DEF StaleInv, EntryFresh
    <2>2. cache'[n][a] = CountDownEntry(cache[n][a])
      BY DEF Tick
    <2>3. CASE cache'[n][a] = NoEntry
      BY <2>3 DEF EntryFresh, Entries
    <2>4. CASE cache'[n][a] # NoEntry
      <3>1. cache[n][a] # NoEntry
        BY <2>2, <2>4 DEF CountDownEntry, NoEntry
      <3>2. cache[n][a] \in [node : Nodes, left : 1..MaxTTL]
        BY <3>1, <1>3 DEF Entries
      <3>3. cache[n][a].left - 1 \in 1..MaxTTL
            /\ cache'[n][a] = [cache[n][a] EXCEPT !.left = cache[n][a].left - 1]
        BY <2>2, <2>4, <3>2, <1>2 DEF CountDownEntry
      <3>4. cache'[n][a] \in Entries /\ cache'[n][a].node = cache[n][a].node
            /\ cache'[n][a].left = cache[n][a].left - 1
        BY <3>2, <3>3 DEF Entries
      <3> QED BY <2>1, <3>1, <3>2, <3>4, <1>2, <1>4, <1>5 DEF EntryFresh
    <2> QED BY <2>3, <2>4
  <1>9. cache' \in [Nodes -> [Actors -> Entries]] /\ flight' \in [Nodes -> [Actors -> Flights]]
    BY <1>7, <1>8 DEF Tick
  <1> QED BY <1>4, <1>6, <1>7, <1>8, <1>9, StaleParts

LEMMA StaleStep == StaleInv /\ [Next]_vars => StaleInv'
  <1> SUFFICES ASSUME StaleInv, [Next]_vars PROVE StaleInv'
    OBVIOUS
  <1>1. RegInv'
    <2>1. RegInv /\ [RegNext]_regVars
      BY NextIsRegNext DEF StaleInv, vars
    <2> QED BY <2>1, RegInvStep
  <1>2. CASE UNCHANGED vars
    <2>1. /\ cache' = cache /\ flight' = flight /\ age' = age /\ rec' = rec /\ call' = call
      BY <1>2 DEF vars, regVars, cacheVars
    <2>2. \A n \in Nodes, a \in Actors :
             Locates(n, a)' = Locates(n, a) /\ Located(n, a)' = Located(n, a)
      BY ONLY <2>1 DEF Locates, Located
    <2> QED BY ONLY StaleInv, <1>1, <2>1, <2>2 DEF StaleInv
  <1>3. Readers \subseteq Nodes /\ Watchers \subseteq Nodes
    BY CacheAssumption
  <1>4. CASE Next
    <2>1. ASSUME NEW n \in Nodes, NEW a \in Actors, Own(n, a), Track(0), UNCHANGED flight PROVE StaleInv'
      BY <1>1, <2>1, OwnStale
    <2>2. ASSUME NEW q \in late, Abandoned(q), Track(0), UNCHANGED flight PROVE StaleInv'
      BY <1>1, <2>2, AbandonedStale
    <2>3. ASSUME NEW n \in Readers, NEW a \in Actors, Lookup(n, a) PROVE StaleInv'
      BY <1>1, <1>3, <2>3, LookupStale
    <2>4. ASSUME NEW n \in Watchers, Consume(n) \/ Close(n) PROVE StaleInv'
      BY <1>1, <1>3, <2>4, ConsumeStale
    <2>5. CASE Tick
      BY <1>1, <2>5, TickStale
    <2> QED BY <1>4, <2>1, <2>2, <2>3, <2>4, <2>5 DEF Next
  <1> QED BY <1>2, <1>4

\* What a cache entry and a flight's answer may be worth, whatever is resent, executed
\* late, trimmed or never consumed: an entry is as old as the time it has used up, and an
\* answer as old as its call.
THEOREM CacheStaleInvariant == Spec => []StaleInv
  BY StaleInit, StaleStep, PTL DEF Spec

\* A cached location is never older than LocalCacheMaxTTL + registryTimeout: the
\* bound every node keeps when cacheLocation fills an entry from a lookup or from an
\* ownership call, whatever the change stream delivers.
THEOREM CacheBoundedStaleness == Spec => []BoundedStaleness
  <1>1. StaleInv => BoundedStaleness
    <2> SUFFICES ASSUME StaleInv, NEW n \in Nodes, NEW a \in Actors, cache[n][a] # NoEntry
                 PROVE  age[a][cache[n][a].node] < MaxAge
      BY DEF BoundedStaleness
    <2>1. cache[n][a].node \in Nodes /\ cache[n][a].left \in 1..MaxTTL
      BY EntryTypes DEF StaleInv
    <2>2. age[a][cache[n][a].node] \in 0..MaxAge /\ MaxAge \in Nat /\ MaxTTL \in Nat
      BY <2>1, CacheAssumption, RegistryAssumption DEF StaleInv, MaxAge
    <2> QED BY <2>1, <2>2 DEF StaleInv
  <1> QED BY <1>1, CacheStaleInvariant, PTL

\* The guarantee of the ownership protocol holds in the composed system: while a node
\* holds an actor, the key names it.
THEOREM CacheHolderIsRegistered == Spec => []HolderIsRegistered
  BY CacheImplementsRegistry, RegHolderIsRegistered, PTL

-----------------------------------------------------------------------------
(* What a consumer applies.                                                    *)

\* What consumer n has applied or is handed: entries that were added, in the state in
\* which it has them in hand.
HandOK(n) ==
    /\ applied[n] \cup cons[n].inbox \subseteq 1 .. Len(stream)
    /\ cons[n].lastID <= Len(stream)
    /\ cons[n].inbox # {} <=> cons[n].st \in {"replied", "applying"}

\* lastID is the newest entry applied, and between two entries that were applied, between
\* two that are in hand, and up to those, all that is missing was trimmed.
OrderedOK(n) ==
    /\ applied[n] # {} =>
          cons[n].lastID \in applied[n] /\ \A x \in applied[n] : x <= cons[n].lastID
    /\ \A x \in applied[n] : \A id \in x .. cons[n].lastID : id \in applied[n] \/ id < first
    /\ \A x, y \in cons[n].inbox : \A id \in x .. y : id \in cons[n].inbox \/ id < first
    /\ cons[n].lastID # Latest => \A y \in cons[n].inbox :
          /\ cons[n].lastID < y
          /\ \A id \in cons[n].lastID + 1 .. y : id \in cons[n].inbox \/ id < first

\* A consumer that waits has nothing to wait for.
WaitOK(n) ==
    cons[n].st = "reading" /\ cons[n].lastID # Latest =>
        \A id \in cons[n].lastID + 1 .. Len(stream) : id < first

Replays(n) == HandOK(n) /\ OrderedOK(n) /\ WaitOK(n)

ReplayInv ==
    /\ stream \in Seq(Actors) /\ first \in Int
    /\ cons \in [Nodes -> Consumers]
    /\ applied \in [Nodes -> SUBSET Nat]
    /\ \A n \in Nodes : Replays(n)

LEMMA MaxOfTwo ==
    ASSUME NEW x \in Int, NEW y \in Int
    PROVE  Max({x, y}) = IF x >= y THEN x ELSE y
  BY DEF Max

\* A non-empty set of ids has a smallest one.
LEMMA Smallest ==
    ASSUME NEW S \in SUBSET Nat, S # {}
    PROVE  Min(S) \in S /\ \A y \in S : Min(S) <= y
  <1> DEFINE Less == {ss \in Nat \X Nat : ss[1] < ss[2]}
  <1>1. IsWellFoundedOn(Less, Nat)
    BY NatLessThanWellFounded DEF OpToRel
  <1>2. \A y, z \in Nat : <<y, z>> \in Less <=> y < z
    OBVIOUS
  <1> HIDE DEF Less
  <1>3. PICK x \in S : \A y \in S : ~(<<y, x>> \in Less)
    BY <1>1, WFMin
  <1>4. \A y \in S : x <= y
    <2> SUFFICES ASSUME NEW y \in S PROVE x <= y
      OBVIOUS
    <2>1. x \in Nat /\ y \in Nat /\ ~(<<y, x>> \in Less)
      BY <1>3
    <2>2. ~(y < x)
      BY <1>2, <2>1
    <2> QED BY <2>1, <2>2
  <1> QED BY <1>4 DEF Min

LEMMA ReplayInit == Init => ReplayInv
  BY DEF Init, ReplayInv, Consumers, Latest, Replays, HandOK, OrderedOK, WaitOK

\* A step of one consumer.
LEMMA OneReplays ==
    ASSUME ReplayInv, UNCHANGED <<stream, first>>, NEW n \in Nodes,
           NEW c \in Consumers, cons' = [cons EXCEPT ![n] = c],
           NEW s \in SUBSET Nat, applied' = [applied EXCEPT ![n] = s],
           cons'[n] = c /\ applied'[n] = s => Replays(n)'
    PROVE  ReplayInv'
  <1>1. cons' \in [Nodes -> Consumers] /\ applied' \in [Nodes -> SUBSET Nat]
    BY DEF ReplayInv
  <1>2. Replays(n)'
    BY DEF ReplayInv
  <1>3. ASSUME NEW m \in Nodes, m # n PROVE Replays(m)'
    <2>1. cons'[m] = cons[m] /\ applied'[m] = applied[m] /\ Replays(m)
      BY <1>3 DEF ReplayInv
    <2> QED BY <2>1 DEF Replays, HandOK, OrderedOK, WaitOK
  <1> QED BY <1>1, <1>2, <1>3 DEF ReplayInv

\* A consumer drops what it has in hand and keeps its place.
LEMMA DropReplays ==
    ASSUME ReplayInv, UNCHANGED <<stream, first, applied>>, NEW n \in Nodes,
           NEW c \in Consumers, cons' = [cons EXCEPT ![n] = c], c.lastID = cons[n].lastID,
           c.inbox = {}, c.st \notin {"reading", "replied", "applying"}
    PROVE  ReplayInv'
  <1>1. applied[n] \in SUBSET Nat /\ applied' = [applied EXCEPT ![n] = applied[n]]
    BY DEF ReplayInv
  <1>2. Replays(n)
    BY DEF ReplayInv
  <1>3. cons'[n] = c /\ applied'[n] = applied[n] => Replays(n)'
    BY <1>2 DEF Replays, HandOK, OrderedOK, WaitOK
  <1> QED BY <1>1, <1>3, OneReplays

LEMMA XReadReplays ==
    ASSUME ReplayInv, UNCHANGED <<stream, first, applied>>, NEW n \in Nodes, XRead(n)
    PROVE  ReplayInv'
  <1>1. PICK c : c = cons[n]
    OBVIOUS
  <1>2. PICK from : from = IF c.lastID = Latest THEN Len(stream) ELSE c.lastID
    OBVIOUS
  <1>3. PICK low : low = Max({from + 1, first})
    OBVIOUS
  <1>4. PICK high : high = Min({Len(stream), low + ReadCount - 1})
    OBVIOUS
  <1>5. c \in Consumers /\ Len(stream) \in Nat /\ first \in Int /\ ReadCount \in Nat \ {0}
    BY <1>1, CacheAssumption DEF ReplayInv
  <1>6. c.lastID \in {-1} \cup Nat /\ from \in Nat /\ (c.lastID # -1 => from = c.lastID)
    BY <1>2, <1>5 DEF Consumers, Latest
  <1>7. /\ low \in Int /\ from < low /\ first <= low /\ (low = from + 1 \/ low = first)
    BY <1>3, <1>5, <1>6, MaxOfTwo
  <1>8. high \in Int /\ high <= Len(stream) /\ (high = Len(stream) \/ low <= high)
    BY <1>4, <1>5, <1>7, MinOfTwo
  <1>9. PICK ids : ids = low .. high
    OBVIOUS
  <1>10. Available(n) = ids
    BY <1>1, <1>2, <1>3, <1>4, <1>9 DEF Available
  <1>11. /\ ids \subseteq 1 .. Len(stream) /\ ids \in SUBSET Nat
         /\ \A y \in ids : y \in Nat /\ from < y
         /\ \A x, y \in ids : \A id \in x .. y : id \in ids
         /\ \A y \in ids : \A id \in from + 1 .. y : id \in ids \/ id < first
    BY <1>5, <1>6, <1>7, <1>8, <1>9
  <1>12. ids = {} => \A id \in from + 1 .. Len(stream) : id < first
    <2>1. ids = {} => high < low
      BY <1>7, <1>8, <1>9
    <2> QED BY <1>5, <1>6, <1>7, <1>8, <2>1
  <1>13. PICK d : d = [c EXCEPT !.st = IF ids = {} THEN "reading" ELSE "replied", !.inbox = ids]
    OBVIOUS
  <1>14. cons' = [cons EXCEPT ![n] = d]
    BY <1>1, <1>10, <1>13 DEF XRead, ReplayInv
  <1>15. d \in Consumers /\ d.lastID = c.lastID /\ d.inbox = ids
         /\ d.st = IF ids = {} THEN "reading" ELSE "replied"
    BY <1>5, <1>11, <1>13 DEF Consumers
  <1>16. applied[n] \in SUBSET Nat /\ applied' = [applied EXCEPT ![n] = applied[n]]
    BY DEF ReplayInv
  <1>17. HandOK(n) /\ OrderedOK(n)
    BY DEF ReplayInv, Replays
  <1>18. ASSUME cons'[n] = d, applied'[n] = applied[n] PROVE Replays(n)'
    <2>1. HandOK(n)'
      BY <1>1, <1>11, <1>15, <1>17, <1>18 DEF HandOK
    <2>2. OrderedOK(n)'
      BY <1>1, <1>6, <1>11, <1>15, <1>17, <1>18 DEF OrderedOK, Latest
    <2>3. WaitOK(n)'
      BY <1>6, <1>12, <1>15, <1>18 DEF WaitOK, Latest
    <2> QED BY <2>1, <2>2, <2>3 DEF Replays
  <1> QED BY <1>14, <1>15, <1>16, <1>18, OneReplays

\* The next entry in hand is the next that is left of the stream.
LEMMA ApplyReplays ==
    ASSUME ReplayInv, UNCHANGED <<stream, first>>, NEW n \in Nodes, ApplyLocationChange(n)
    PROVE  ReplayInv'
  <1>1. PICK c : c = cons[n]
    OBVIOUS
  <1>2. PICK i : i = Min(c.inbox)
    OBVIOUS
  <1>3. PICK rest : rest = c.inbox \ {i}
    OBVIOUS
  <1>4. PICK d : d = [c EXCEPT !.st = IF rest = {} THEN "idle" ELSE "applying", !.lastID = i, !.inbox = rest]
    OBVIOUS
  <1>5. /\ c.st \in {"replied", "applying"} /\ cons' = [cons EXCEPT ![n] = d]
        /\ applied' = [applied EXCEPT ![n] = applied[n] \cup {i}]
    BY <1>1, <1>2, <1>3, <1>4 DEF ApplyLocationChange
  <1>6. c \in Consumers /\ HandOK(n) /\ OrderedOK(n) /\ applied[n] \in SUBSET Nat
    BY <1>1 DEF ReplayInv, Replays
  <1>7. c.inbox \in SUBSET Nat /\ c.inbox # {}
    BY <1>1, <1>5, <1>6 DEF Consumers, HandOK
  <1>8. i \in c.inbox /\ i \in Nat /\ \A y \in c.inbox : i <= y
    BY <1>2, <1>7, Smallest
  <1>9. \A y \in rest : y \in Nat /\ i < y
    BY <1>3, <1>7, <1>8
  <1>10. d \in Consumers /\ d.lastID = i /\ d.inbox = rest
         /\ d.st = IF rest = {} THEN "idle" ELSE "applying"
    BY <1>3, <1>4, <1>6, <1>8 DEF Consumers
  <1>11. ASSUME cons'[n] = d, applied'[n] = applied[n] \cup {i} PROVE Replays(n)'
    <2>1. HandOK(n)'
      BY <1>1, <1>3, <1>6, <1>8, <1>10, <1>11 DEF HandOK
    <2>2. \A x \in applied[n] : x < i
      <3>1. CASE applied[n] = {}
        BY <3>1
      <3>2. CASE applied[n] # {}
        <4>1. /\ c.lastID \in applied[n] /\ \A x \in applied[n] : x <= c.lastID
              /\ c.lastID # Latest
          BY <1>1, <1>6, <3>2 DEF OrderedOK, Latest
        <4>2. c.lastID < i
          BY <1>1, <1>6, <1>8, <4>1 DEF OrderedOK
        <4> QED BY <1>6, <1>8, <4>1, <4>2
      <3> QED BY <3>1, <3>2
    <2>3. ASSUME NEW x \in applied[n] \cup {i}, NEW id \in x .. i
          PROVE  id \in applied[n] \cup {i} \/ id < first
      <3>1. CASE x = i
        BY <1>8, <3>1
      <3>2. CASE x \in applied[n]
        <4>1. c.lastID \in applied[n] /\ c.lastID # Latest /\ c.lastID \in Nat /\ x \in Nat
          BY <1>1, <1>6, <3>2 DEF OrderedOK, Latest
        <4>2. CASE id <= c.lastID
          <5>1. id \in x .. c.lastID
            BY <1>8, <4>1, <4>2
          <5> QED BY <1>1, <1>6, <3>2, <5>1 DEF OrderedOK
        <4>3. CASE id > c.lastID
          <5>1. id \in c.lastID + 1 .. i
            BY <1>8, <4>1, <4>3
          <5>2. id \in c.inbox \/ id < first
            BY <1>1, <1>6, <1>8, <4>1, <5>1 DEF OrderedOK
          <5>3. id \in c.inbox => id = i
            BY <1>8, <5>1
          <5> QED BY <5>2, <5>3
        <4> QED BY <1>8, <4>1, <4>2, <4>3
      <3> QED BY <3>1, <3>2
    <2>4. ASSUME NEW x \in c.inbox, NEW y \in rest, NEW id \in x .. y, id # i
          PROVE  id \in rest \/ id < first
      BY <1>1, <1>3, <1>6, <2>4 DEF OrderedOK
    <2>5. \A x, y \in rest : \A id \in x .. y : id \in rest \/ id < first
      <3> SUFFICES ASSUME NEW x \in rest, NEW y \in rest, NEW id \in x .. y
                   PROVE  id \in rest \/ id < first
        OBVIOUS
      <3>1. x \in c.inbox /\ id # i
        BY <1>3, <1>8, <1>9
      <3> QED BY <2>4, <3>1
    <2>6. \A y \in rest : i < y /\ \A id \in i + 1 .. y : id \in rest \/ id < first
      <3> SUFFICES ASSUME NEW y \in rest, NEW id \in i + 1 .. y
                   PROVE  id \in rest \/ id < first
        BY <1>9
      <3>1. id \in i .. y /\ id # i
        BY <1>8, <1>9
      <3> QED BY <1>8, <2>4, <3>1
    <2>7. OrderedOK(n)'
      <3>1. \A x \in applied'[n] : x <= i
        BY <1>6, <1>8, <1>11, <2>2
      <3>2. /\ cons'[n].lastID = i /\ cons'[n].inbox = rest /\ first' = first
            /\ applied'[n] = applied[n] \cup {i} /\ i \in applied'[n]
        BY <1>10, <1>11
      <3>3. \A x \in applied'[n] : \A id \in x .. cons'[n].lastID : id \in applied'[n] \/ id < first'
        BY ONLY <2>3, <3>2
      <3>4. \A x, y \in cons'[n].inbox : \A id \in x .. y : id \in cons'[n].inbox \/ id < first'
        BY ONLY <2>5, <3>2
      <3>5. \A y \in cons'[n].inbox :
               /\ cons'[n].lastID < y
               /\ \A id \in cons'[n].lastID + 1 .. y : id \in cons'[n].inbox \/ id < first'
        BY ONLY <2>6, <3>2
      <3>6. cons'[n].lastID \in applied'[n] /\ \A x \in applied'[n] : x <= cons'[n].lastID
        BY ONLY <3>1, <3>2
      <3> QED BY ONLY <3>3, <3>4, <3>5, <3>6, Zenon DEF OrderedOK
    <2>8. WaitOK(n)'
      BY <1>10, <1>11 DEF WaitOK
    <2> QED BY <2>1, <2>7, <2>8 DEF Replays
  <1>12. applied[n] \cup {i} \in SUBSET Nat
    BY <1>6, <1>8
  <1> QED BY <1>5, <1>10, <1>11, <1>12, OneReplays

LEMMA ConsumeReplays ==
    ASSUME ReplayInv, NEW n \in Nodes, Consume(n) PROVE ReplayInv'
  <1>1. UNCHANGED <<stream, first>> /\ cons[n] \in Consumers /\ Replays(n)
    BY DEF Consume, ReplayInv
  <1>2. CASE ApplyLocationChange(n)
    BY <1>1, <1>2, ApplyReplays
  <1>3. CASE XRead(n) /\ UNCHANGED applied
    BY <1>1, <1>3, XReadReplays
  <1>4. CASE XReadTimeout(n) /\ UNCHANGED applied
    <2>1. PICK c : c = [cons[n] EXCEPT !.st = "idle"]
      OBVIOUS
    <2>2. cons[n].st = "reading" /\ cons' = [cons EXCEPT ![n] = c]
      BY <1>4, <2>1 DEF XReadTimeout
    <2>3. cons[n].inbox = {}
      BY <1>1, <2>2 DEF Replays, HandOK
    <2>4. c \in Consumers /\ c.lastID = cons[n].lastID /\ c.inbox = {} /\ c.st = "idle"
      BY <1>1, <2>1, <2>3 DEF Consumers
    <2> QED BY <1>1, <1>4, <2>2, <2>4, DropReplays
  <1>5. CASE XReadError(n) /\ UNCHANGED applied
    <2>1. PICK id \in {cons[n].lastID} \cup (IF stream = <<>> THEN {0} ELSE {}) :
             cons' = [cons EXCEPT ![n] = [cons[n] EXCEPT !.st = "retry", !.inbox = {}, !.lastID = id]]
      BY <1>5 DEF XReadError
    <2>2. PICK c : c = [cons[n] EXCEPT !.st = "retry", !.inbox = {}, !.lastID = id]
      OBVIOUS
    <2>3. c \in Consumers /\ c.lastID = id /\ c.inbox = {} /\ c.st = "retry" /\ cons' = [cons EXCEPT ![n] = c]
      <3>1. id \in {cons[n].lastID, 0}
        BY <2>1
      <3>2. id \in {Latest} \cup Nat
        BY <1>1, <3>1 DEF Consumers
      <3> QED BY <1>1, <2>1, <2>2, <3>2 DEF Consumers
    <2>4. CASE id = cons[n].lastID
      BY <1>1, <1>5, <2>3, <2>4, DropReplays
    <2>5. CASE stream = <<>> /\ id = 0
      <3>0. Len(stream) = 0
        BY <2>5
      <3>1. applied[n] = {} /\ applied' = [applied EXCEPT ![n] = applied[n]] /\ applied[n] \in SUBSET Nat
        BY <1>1, <1>5, <3>0 DEF Replays, HandOK, ReplayInv
      <3>2. cons'[n] = c /\ applied'[n] = applied[n] => Replays(n)'
        BY <1>1, <2>3, <2>5, <3>0, <3>1 DEF Replays, HandOK, OrderedOK, WaitOK
      <3> QED BY <1>1, <2>3, <3>1, <3>2, OneReplays
    <2> QED BY <2>1, <2>4, <2>5
  <1>6. CASE WaitChangeRetry(n) /\ UNCHANGED applied
    <2>1. PICK c : c = [cons[n] EXCEPT !.st = "idle"]
      OBVIOUS
    <2>2. cons[n].st = "retry" /\ cons' = [cons EXCEPT ![n] = c]
      BY <1>6, <2>1 DEF WaitChangeRetry
    <2>3. cons[n].inbox = {}
      BY <1>1, <2>2 DEF Replays, HandOK
    <2>4. c \in Consumers /\ c.lastID = cons[n].lastID /\ c.inbox = {} /\ c.st = "idle"
      BY <1>1, <2>1, <2>3 DEF Consumers
    <2> QED BY <1>1, <1>6, <2>2, <2>4, DropReplays
  <1>7. CASE StopConsumer(n) /\ UNCHANGED applied
    <2>1. PICK c : c = Stopped(cons[n])
      OBVIOUS
    <2>2. cons' = [cons EXCEPT ![n] = c]
      BY <1>7, <2>1 DEF StopConsumer
    <2>3. c \in Consumers /\ c.lastID = cons[n].lastID /\ c.inbox = {} /\ c.st = "stopped"
      BY <1>1, <2>1 DEF Consumers, Stopped
    <2> QED BY <1>1, <1>7, <2>2, <2>3, DropReplays
  <1> QED BY <1>2, <1>3, <1>4, <1>5, <1>6, <1>7 DEF Consume

\* A new entry wakes whoever waits, and it is the only one left for it.
LEMMA XAddReplays ==
    ASSUME ReplayInv, NEW a \in Actors, XAdd(a), UNCHANGED applied
    PROVE  ReplayInv'
  <1>1. PICK i : i = Len(stream) + 1
    OBVIOUS
  <1>2. /\ stream' = Append(stream, a) /\ first' \in first .. Max({first, i - StreamMaxLen + 1})
        /\ cons' = [n \in Nodes |-> IF cons[n].st = "reading"
                                    THEN [cons[n] EXCEPT !.st = "replied", !.inbox = {i}] ELSE cons[n]]
    BY <1>1 DEF XAdd
  <1>3. /\ stream' \in Seq(Actors) /\ Len(stream) \in Nat /\ Len(stream') = i /\ i \in Nat \ {0}
        /\ first \in Int /\ first' \in Int /\ first <= first'
    <2>1. stream \in Seq(Actors) /\ first \in Int
      BY DEF ReplayInv
    <2>2. Append(stream, a) \in Seq(Actors) /\ Len(Append(stream, a)) = Len(stream) + 1 /\ Len(stream) \in Nat
      BY <2>1
    <2>3. PICK m : m = Max({first, i - StreamMaxLen + 1})
      OBVIOUS
    <2>4. first' \in first .. m
      BY <1>2, <2>3
    <2>5. first' \in Int /\ first <= first'
      BY <2>1, <2>4
    <2>6. stream' = Append(stream, a)
      BY <1>2
    <2>7. stream' \in Seq(Actors) /\ Len(stream') = Len(stream) + 1
      BY <2>2, <2>6
    <2>8. Len(stream') = i /\ i \in Nat \ {0}
      BY <1>1, <2>2, <2>7
    <2> QED BY <2>1, <2>2, <2>5, <2>7, <2>8
  <1>4. ASSUME NEW n \in Nodes PROVE cons'[n] \in Consumers /\ Replays(n)'
    <2>1. PICK c : c = cons[n]
      OBVIOUS
    <2>2. c \in Consumers /\ HandOK(n) /\ OrderedOK(n) /\ WaitOK(n) /\ applied'[n] = applied[n]
          /\ applied[n] \in SUBSET Nat
      BY <2>1 DEF ReplayInv, Replays
    <2>3. c.lastID \in {-1} \cup Nat /\ c.inbox \in SUBSET Nat
      BY <2>2 DEF Consumers, Latest
    <2>4. CASE c.st # "reading"
      <3>1. cons'[n] = cons[n]
        BY <1>2, <2>1, <2>4
      <3>2. HandOK(n)'
        <4>1. /\ cons[n].lastID <= Len(stream) /\ cons[n].lastID \in Int
              /\ applied[n] \cup cons[n].inbox \subseteq 1 .. Len(stream)
              /\ (cons[n].inbox # {} <=> cons[n].st \in {"replied", "applying"})
          BY <2>1, <2>2, <2>3 DEF HandOK
        <4>2. Len(stream) \in Nat /\ Len(stream') = Len(stream) + 1
          BY <1>1, <1>3
        <4>3. cons[n].lastID <= Len(stream') /\ 1 .. Len(stream) \subseteq 1 .. Len(stream')
          BY <4>1, <4>2
        <4> QED BY <2>2, <3>1, <4>1, <4>3 DEF HandOK
      <3>3. OrderedOK(n)'
        <4>1. \A id \in Int : id < first => id < first'
          BY <1>3
        <4> QED BY <2>1, <2>2, <2>3, <3>1, <4>1 DEF OrderedOK, Latest
      <3>4. WaitOK(n)'
        BY <2>1, <2>4, <3>1 DEF WaitOK
      <3> QED BY <2>1, <2>2, <3>1, <3>2, <3>3, <3>4 DEF Replays
    <2>5. CASE c.st = "reading"
      <3>1. PICK d : d = [c EXCEPT !.st = "replied", !.inbox = {i}]
        OBVIOUS
      <3>2. cons'[n] = d /\ d \in Consumers /\ d.lastID = c.lastID /\ d.inbox = {i} /\ d.st = "replied"
        BY <1>2, <1>3, <2>1, <2>2, <2>5, <3>1 DEF Consumers
      <3>3. HandOK(n)'
        <4>1. cons[n].lastID <= Len(stream) /\ applied[n] \cup cons[n].inbox \subseteq 1 .. Len(stream)
          BY <2>2 DEF HandOK
        <4>2. Len(stream) \in Nat /\ Len(stream') = i /\ i = Len(stream) + 1
          BY <1>1, <1>3
        <4>3. c.lastID <= i /\ applied[n] \cup {i} \subseteq 1 .. i
          BY <2>1, <2>3, <4>1, <4>2
        <4> QED BY <2>2, <3>2, <4>2, <4>3 DEF HandOK
      <3>4. \A x \in applied[n] : x <= Len(stream)
        BY <1>3, <2>2 DEF HandOK
      <3>5. c.lastID # -1 => c.lastID < i /\ \A id \in c.lastID + 1 .. i : id \in {i} \/ id < first'
        <4>1. c.lastID # -1 => \A id \in c.lastID + 1 .. Len(stream) : id < first
          BY <2>1, <2>2, <2>5 DEF WaitOK, Latest
        <4>2. c.lastID <= Len(stream)
          BY <2>1, <2>2 DEF HandOK
        <4>3. Len(stream) \in Nat /\ i = Len(stream) + 1
          BY <1>1, <1>3
        <4>4. \A id \in Int : id < first => id < first'
          BY <1>3
        <4>5. c.lastID < i
          BY <2>3, <4>2, <4>3
        <4>6. ASSUME c.lastID # -1, NEW id \in c.lastID + 1 .. i PROVE id \in {i} \/ id < first'
          <5>1. id \in Int /\ (id = i \/ id \in c.lastID + 1 .. Len(stream))
            BY <2>3, <4>3
          <5> QED BY <4>1, <4>4, <4>6, <5>1
        <4> QED BY <4>5, <4>6
      <3>6. \A x \in applied[n] : \A id \in x .. c.lastID : id \in applied[n] \/ id < first'
        BY <1>3, <2>1, <2>2 DEF OrderedOK
      <3>7. OrderedOK(n)'
        BY <1>3, <2>1, <2>2, <3>2, <3>5, <3>6 DEF OrderedOK, Latest
      <3>8. WaitOK(n)'
        BY <3>2 DEF WaitOK
      <3> QED BY <3>2, <3>3, <3>7, <3>8 DEF Replays
    <2> QED BY <2>4, <2>5
  <1>5. cons' \in [Nodes -> Consumers]
    BY <1>2, <1>4
  <1> QED BY <1>2, <1>3, <1>4, <1>5 DEF ReplayInv

LEMMA ReplayStep == RegTypeOK /\ ReplayInv /\ [Next]_vars => ReplayInv'
  <1> SUFFICES ASSUME RegTypeOK, ReplayInv, [Next]_vars PROVE ReplayInv'
    OBVIOUS
  <1>1. ASSUME UNCHANGED <<stream, first, cons, applied>> PROVE ReplayInv'
    BY <1>1 DEF ReplayInv, Replays, HandOK, OrderedOK, WaitOK
  <1>2. ASSUME NEW a \in Actors, NEW q, Publish(a, q), UNCHANGED applied PROVE ReplayInv'
    BY <1>1, <1>2, XAddReplays DEF Publish, NoXAdd
  <1>3. ASSUME NEW n \in Nodes, NEW a \in Actors, Own(n, a), UNCHANGED applied PROVE ReplayInv'
    BY <1>1, <1>2, <1>3 DEF Own, NoXAdd
  <1>4. ASSUME NEW q \in late, Abandoned(q), UNCHANGED applied PROVE ReplayInv'
    <2>1. q.uid \in Actors
      BY DEF RegTypeOK, Requests
    <2> QED BY <1>1, <1>2, <1>4, <2>1 DEF Abandoned, NoXAdd
  <1>5. ASSUME NEW n \in Watchers, Consume(n) PROVE ReplayInv'
    BY <1>5, CacheAssumption, ConsumeReplays
  <1>6. ASSUME NEW n \in Watchers, Close(n) PROVE ReplayInv'
    BY <1>1, <1>6 DEF Close
  <1>7. ASSUME NEW n \in Readers, NEW a \in Actors, Lookup(n, a) PROVE ReplayInv'
    BY <1>1, <1>7 DEF Lookup
  <1>8. CASE Tick
    BY <1>1, <1>8 DEF Tick
  <1>9. CASE UNCHANGED vars
    BY <1>1, <1>9 DEF vars, cacheVars
  <1> QED BY <1>3, <1>4, <1>5, <1>6, <1>7, <1>8, <1>9 DEF Next

\* Consumers keep their place in the change stream, whatever is trimmed, fails, times out
\* or arrives while they wait.
THEOREM CacheReplayInvariant == Spec => []ReplayInv
  BY ReplayInit, ReplayStep, CacheImplementsRegistry, RegTypeCorrect, PTL DEF Spec

\* Once a consumer has applied a change it applies every later one that MAXLEN has not
\* trimmed, for every length of the stream, read count and number of consumers.
THEOREM CacheReplayHasNoHoles == Spec => []ReplayHasNoHoles
  <1>1. ReplayInv => ReplayHasNoHoles
    <2> SUFFICES ASSUME ReplayInv, NEW n \in Watchers, applied[n] # {},
                        NEW id \in Min(applied[n]) .. Max(applied[n])
                 PROVE  id \in applied[n] \/ id < first
      BY DEF ReplayHasNoHoles
    <2>1. n \in Nodes /\ applied[n] \in SUBSET Nat /\ OrderedOK(n)
      BY CacheAssumption DEF ReplayInv, Replays
    <2>2. Min(applied[n]) \in applied[n]
      BY <2>1, Smallest
    <2>3. PICK x : x = cons[n].lastID
      OBVIOUS
    <2>4. x \in applied[n] /\ \A y \in applied[n] : x >= y
      BY <2>1, <2>3 DEF OrderedOK
    <2>5. \A z \in applied[n] : (\A y \in applied[n] : z >= y) => z = x
      BY <2>1, <2>4
    <2>6. Max(applied[n]) = x
      BY <2>4, <2>5 DEF Max
    <2> QED BY <2>1, <2>2, <2>3, <2>6 DEF OrderedOK
  <1> QED BY <1>1, CacheReplayInvariant, PTL

=============================================================================
