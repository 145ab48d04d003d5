----------------------------- MODULE CenterLease ------------------------------
(* infra/cluster/center.go: how a node registers itself in etcd under a lease,  *)
(* and keeps, loses, renews and gives up that registration.                     *)
(*                                                                              *)
(* A center c is one process of the node; one runs at a time, and a slot whose  *)
(* process is over is used for a new one.  Start and Close run in the caller's  *)
(* goroutine ("main"), keepAlive in its own ("ka").  Either has at most one     *)
(* request at etcd; etcd (external) executes it at some moment or not at all,   *)
(* and its answer may be lost: whoever waits for it may always see an error     *)
(* instead.  A request whose sender gave up (its deadline, a crash, a closed    *)
(* client) may still be executed later: it is "late".                           *)
(*                                                                              *)
(* There are no clocks: a lease may expire whenever etcd has not heard of it,   *)
(* and that includes every time the connection breaks.                          *)
EXTENDS Integers, FiniteSets

CONSTANTS Centers,
          Leases,   \* lease ids
          NoLease,  \* the lease id 0
          NoKey,    \* the key of the node does not exist
          MaxLate   \* bound: late requests at a time

ASSUME CenterLeaseAssumption ==
    /\ NoLease \notin Leases
    /\ NoKey \notin Leases \cup {NoLease}
    /\ MaxLate \in Nat

VARIABLES live,      \* etcd: the leases that are alive
          key,       \* etcd: the lease of the node's key
          late,      \* the late requests
          stray,     \* history: the last Put etcd executed was a late one
          main,      \* main[c]: "off", "start", "undo", "running", "closing", "closed"
          ka,        \* ka[c]: keepAlive is "off", at its loop's "top", in the "stream", "done"
          leaseID,   \* leaseID[c]: c.leaseID
          alive,     \* alive[c]: keepAlive's alive
          cancelled, \* cancelled[c]: keepAliveCancel was called
          call       \* call[c][t]: the request of goroutine t at etcd

clVars == <<live, key, late, stray, main, ka, leaseID, alive, cancelled, call>>

Threads == {"main", "ka"}
Call(op, lease, res) == [op |-> op, lease |-> lease, res |-> res]
NoCall == Call("none", NoLease, "none")
Sent(op, lease) == Call(op, lease, "sent")

\* The leases etcd can grant: it never grants one twice, so an id that is given out
\* again here is one nobody can still mean.
Fresh == (Leases \ live) \ ({key} \cup {leaseID[c] : c \in Centers}
                               \cup {call[c][t].lease : c \in Centers, t \in Threads}
                               \cup {q.lease : q \in late})

\* The goroutines T of c give up what they have at etcd: a Put and a Revoke of theirs may
\* become late.  (So may a Grant: it makes a lease nobody knows of, and is left out.)
GiveUp(c, T) ==
    LET unanswered == {q \in {call[c][t] : t \in T} :
                          q.op \in {"Put", "Revoke"} /\ q.res = "sent"}
    IN  \E Q \in SUBSET unanswered : late' = late \cup Q /\ Cardinality(late') <= MaxLate

\* What a center is when its process has not called Start.
Reset(c) ==
    /\ main' = [main EXCEPT ![c] = "off"]
    /\ ka' = [ka EXCEPT ![c] = "off"]
    /\ leaseID' = [leaseID EXCEPT ![c] = NoLease]
    /\ alive' = [alive EXCEPT ![c] = TRUE]
    /\ cancelled' = [cancelled EXCEPT ![c] = FALSE]
    /\ call' = [call EXCEPT ![c] = [t \in Threads |-> NoCall]]

ClInit ==
    /\ live = {} /\ key = NoKey /\ late = {} /\ stray = FALSE
    /\ main = [c \in Centers |-> "off"]
    /\ ka = [c \in Centers |-> "off"]
    /\ leaseID = [c \in Centers |-> NoLease]
    /\ alive = [c \in Centers |-> TRUE]
    /\ cancelled = [c \in Centers |-> FALSE]
    /\ call = [c \in Centers |-> [t \in Threads |-> NoCall]]

-----------------------------------------------------------------------------
(* etcd.                                                                       *)

Remove(l) == live' = live \ {l} /\ key' = IF key = l THEN NoKey ELSE key

Executed(c, t, lease, res) ==
    call' = [call EXCEPT ![c][t] = Call(call[c][t].op, lease, res)]

\* A Grant makes a lease.
ExecGrant(c, t, l) ==
    /\ call[c][t] = Sent("Grant", NoLease) /\ l \in Fresh
    /\ live' = live \cup {l} /\ Executed(c, t, l, "ok")
    /\ UNCHANGED <<key, late, stray, main, ka, leaseID, alive, cancelled>>

\* A Put attaches the key to its lease and no longer to the one before, and is
\* refused when the lease is dead.  Without a lease the key stays for good.
ExecPut(c, t) ==
    LET l == call[c][t].lease
    IN  /\ call[c][t].op = "Put" /\ call[c][t].res = "sent"
        /\ IF l \in live \cup {NoLease}
           THEN key' = l /\ stray' = FALSE /\ Executed(c, t, l, "ok")
           ELSE UNCHANGED <<key, stray>> /\ Executed(c, t, l, "refused")
        /\ UNCHANGED <<live, late, main, ka, leaseID, alive, cancelled>>

\* A Revoke ends the lease, and the key with it if it is attached to it.
ExecRevoke(c, t) ==
    LET l == call[c][t].lease
    IN  /\ call[c][t].op = "Revoke" /\ call[c][t].res = "sent"
        /\ IF l \in live
           THEN Remove(l) /\ Executed(c, t, l, "ok")
           ELSE UNCHANGED <<live, key>> /\ Executed(c, t, l, "refused")
        /\ UNCHANGED <<late, stray, main, ka, leaseID, alive, cancelled>>

\* A Get (of syncNodes) and a TimeToLive change nothing.
ExecRead(c, t) ==
    LET l == call[c][t].lease
    IN  /\ call[c][t].op \in {"Get", "TimeToLive"} /\ call[c][t].res = "sent"
        /\ Executed(c, t, l, IF call[c][t].op = "Get" \/ l \in live THEN "ok" ELSE "expired")
        /\ UNCHANGED <<live, key, late, stray, main, ka, leaseID, alive, cancelled>>

Expire(l) ==
    /\ l \in live
    /\ Remove(l)
    /\ UNCHANGED <<late, stray, main, ka, leaseID, alive, cancelled, call>>

\* A late request is executed, or refused or lost.
ExecLate(q) ==
    /\ q \in late /\ late' = late \ {q}
    /\ \/ /\ q.op = "Put" /\ q.lease \in live \cup {NoLease}
          /\ key' = q.lease /\ stray' = TRUE
          /\ UNCHANGED live
       \/ /\ q.op = "Revoke" /\ q.lease \in live
          /\ Remove(q.lease)
          /\ UNCHANGED stray
       \/ UNCHANGED <<live, key, stray>>
    /\ UNCHANGED <<main, ka, leaseID, alive, cancelled, call>>

-----------------------------------------------------------------------------
(* Start and Close.                                                            *)

Answered(c, t, op, res) == call[c][t].op = op /\ call[c][t].res = res

\* The goroutine has its answer and sends its next request, if it has one.
Next1(c, t, next) == call' = [call EXCEPT ![c][t] = next]

\* Start: grantLease.  The processes before this one are gone or closed.
Start(c) ==
    /\ main[c] = "off"
    /\ \A d \in Centers : main[d] \in {"off", "closed"}
    /\ main' = [main EXCEPT ![c] = "start"]
    /\ Next1(c, "main", Sent("Grant", NoLease))
    /\ UNCHANGED <<live, key, late, stray, ka, leaseID, alive, cancelled>>

\* Mutant: the key is written without the lease.
StartGranted_NoLease(c) ==
    /\ main[c] = "start" /\ Answered(c, "main", "Grant", "ok")
    /\ leaseID' = [leaseID EXCEPT ![c] = call[c]["main"].lease]
    /\ Next1(c, "main", Sent("Put", NoLease))
    /\ UNCHANGED <<live, key, late, stray, main, ka, alive, cancelled>>

\* registerSelf.
StartGranted(c) ==
    /\ main[c] = "start" /\ Answered(c, "main", "Grant", "ok")
    /\ leaseID' = [leaseID EXCEPT ![c] = call[c]["main"].lease]
    /\ Next1(c, "main", Sent("Put", call[c]["main"].lease))
    /\ UNCHANGED <<live, key, late, stray, main, ka, alive, cancelled>>

\* syncNodes.
StartRegistered(c) ==
    /\ main[c] = "start" /\ Answered(c, "main", "Put", "ok")
    /\ Next1(c, "main", Sent("Get", NoLease))
    /\ UNCHANGED <<live, key, late, stray, main, ka, leaseID, alive, cancelled>>

\* keepAlive is started.
StartSynced(c) ==
    /\ main[c] = "start" /\ Answered(c, "main", "Get", "ok")
    /\ main' = [main EXCEPT ![c] = "running"]
    /\ ka' = [ka EXCEPT ![c] = "top"]
    /\ Next1(c, "main", NoCall)
    /\ UNCHANGED <<live, key, late, stray, leaseID, alive, cancelled>>

\* Any step of Start fails: a lease it knows of is revoked.
StartFails(c) ==
    /\ main[c] = "start"
    /\ GiveUp(c, {"main"})
    /\ IF leaseID[c] = NoLease
       THEN Reset(c)
       ELSE /\ main' = [main EXCEPT ![c] = "undo"]
            /\ Next1(c, "main", Sent("Revoke", leaseID[c]))
            /\ UNCHANGED <<ka, leaseID, alive, cancelled>>
    /\ UNCHANGED <<live, key, stray>>

\* The Revoke is over; its error is ignored.
StartUndone(c) ==
    /\ main[c] = "undo"
    /\ GiveUp(c, {"main"})
    /\ Reset(c)
    /\ UNCHANGED <<live, key, stray>>

\* Mutant: only watch is cancelled.
Close_WatchOnly(c) ==
    /\ main[c] = "running"
    /\ main' = [main EXCEPT ![c] = "closing"]
    /\ UNCHANGED <<live, key, late, stray, ka, leaseID, alive, cancelled, call>>

\* Close cancels keepAlive, which goes on until it sees it.
Close(c) ==
    /\ main[c] = "running"
    /\ main' = [main EXCEPT ![c] = "closing"]
    /\ cancelled' = [cancelled EXCEPT ![c] = TRUE]
    /\ UNCHANGED <<live, key, late, stray, ka, leaseID, alive, call>>

\* It revokes the lease it reads at this moment.
CloseRevokes(c) ==
    /\ main[c] = "closing" /\ call[c]["main"] = NoCall
    /\ Next1(c, "main", Sent("Revoke", leaseID[c]))
    /\ UNCHANGED <<live, key, late, stray, main, ka, leaseID, alive, cancelled>>

\* Close returns, whatever Revoke answered; closing the client breaks the stream and
\* whatever keepAlive waits for.  The answer is kept for the properties.
CloseReturns(c) ==
    /\ main[c] = "closing" /\ call[c]["main"] # NoCall
    /\ main' = [main EXCEPT ![c] = "closed"]
    /\ ka' = [ka EXCEPT ![c] = IF ka[c] = "stream" THEN "top" ELSE ka[c]]
    /\ GiveUp(c, Threads)
    /\ call' = [call EXCEPT ![c] = [t \in Threads |->
                   IF t = "main" THEN call[c][t] ELSE NoCall]]
    /\ UNCHANGED <<live, key, stray, leaseID, alive, cancelled>>

\* The process crashes, or ends.
Crash(c) ==
    /\ main[c] # "off"
    /\ GiveUp(c, Threads)
    /\ Reset(c)
    /\ UNCHANGED <<live, key, stray>>

-----------------------------------------------------------------------------
(* keepAlive.                                                                  *)

\* The top of the loop: the lease is checked, or a new one asked for.
KaTop(c) ==
    /\ ka[c] = "top" /\ call[c]["ka"] = NoCall /\ ~cancelled[c]
    /\ Next1(c, "ka", IF alive[c] THEN Sent("TimeToLive", leaseID[c])
                                  ELSE Sent("Grant", NoLease))
    /\ UNCHANGED <<live, key, late, stray, main, ka, leaseID, alive, cancelled>>

\* The lease is alive: the keep-alive channel is created, or fails to be.
KaAlive(c) ==
    /\ ka[c] = "top" /\ Answered(c, "ka", "TimeToLive", "ok")
    /\ \E s \in {"stream", "top"} : ka' = [ka EXCEPT ![c] = s]
    /\ Next1(c, "ka", NoCall)
    /\ UNCHANGED <<live, key, late, stray, main, leaseID, alive, cancelled>>

\* Mutant: alive is not cleared, and the channel is created all the same.
KaExpired_Ignored(c) ==
    /\ ka[c] = "top" /\ Answered(c, "ka", "TimeToLive", "expired")
    /\ \E s \in {"stream", "top"} : ka' = [ka EXCEPT ![c] = s]
    /\ Next1(c, "ka", NoCall)
    /\ UNCHANGED <<live, key, late, stray, main, leaseID, alive, cancelled>>

\* It is not.
KaExpired(c) ==
    /\ ka[c] = "top" /\ Answered(c, "ka", "TimeToLive", "expired")
    /\ alive' = [alive EXCEPT ![c] = FALSE]
    /\ Next1(c, "ka", NoCall)
    /\ UNCHANGED <<live, key, late, stray, main, ka, leaseID, cancelled>>

\* grantLease: c.leaseID is the new lease before the key is; a Put under a context
\* that is done is not sent.
KaGranted(c) ==
    /\ ka[c] = "top" /\ Answered(c, "ka", "Grant", "ok")
    /\ leaseID' = [leaseID EXCEPT ![c] = call[c]["ka"].lease]
    /\ Next1(c, "ka", IF cancelled[c] THEN NoCall ELSE Sent("Put", call[c]["ka"].lease))
    /\ UNCHANGED <<live, key, late, stray, main, ka, alive, cancelled>>

\* registerSelf, and then the keep-alive channel.
KaRegistered(c) ==
    /\ ka[c] = "top" /\ Answered(c, "ka", "Put", "ok")
    /\ alive' = [alive EXCEPT ![c] = TRUE]
    /\ \E s \in {"stream", "top"} : ka' = [ka EXCEPT ![c] = s]
    /\ Next1(c, "ka", NoCall)
    /\ UNCHANGED <<live, key, late, stray, main, leaseID, cancelled>>

\* Mutant: a registration that failed counts as one.
KaFails_Alive(c) ==
    /\ ka[c] = "top" /\ call[c]["ka"] # NoCall
    /\ GiveUp(c, {"ka"})
    /\ alive' = [alive EXCEPT ![c] = (call[c]["ka"].op = "Put") \/ alive[c]]
    /\ Next1(c, "ka", NoCall)
    /\ UNCHANGED <<live, key, stray, main, ka, leaseID, cancelled>>

\* The request fails, or its deadline (10 s for Grant and Put together) is over, whether
\* etcd executed it, will do so later, or not: keepAlive waits and goes on.
KaFails(c) ==
    /\ ka[c] = "top" /\ call[c]["ka"] # NoCall
    /\ GiveUp(c, {"ka"})
    /\ Next1(c, "ka", NoCall)
    /\ UNCHANGED <<live, key, stray, main, ka, leaseID, alive, cancelled>>

\* The channel is closed, or the lease on it has run out.
KaStreamEnds(c) ==
    /\ ka[c] = "stream"
    /\ ka' = [ka EXCEPT ![c] = "top"]
    /\ UNCHANGED <<live, key, late, stray, main, leaseID, alive, cancelled, call>>

\* The context is done.
KaStops(c) ==
    /\ cancelled[c] /\ ka[c] \in {"top", "stream"} /\ call[c]["ka"] = NoCall
    /\ ka' = [ka EXCEPT ![c] = "done"]
    /\ UNCHANGED <<live, key, late, stray, main, leaseID, alive, cancelled, call>>

-----------------------------------------------------------------------------
Execute(c, t) ==
    \/ \E l \in Leases : ExecGrant(c, t, l)
    \/ ExecPut(c, t) \/ ExecRevoke(c, t) \/ ExecRead(c, t)

Main(c) ==
    \/ StartGranted(c) \/ StartRegistered(c) \/ StartSynced(c)
    \/ StartFails(c) \/ StartUndone(c) \/ CloseRevokes(c) \/ CloseReturns(c)

KeepAlive(c) ==
    \/ KaTop(c) \/ KaAlive(c) \/ KaExpired(c) \/ KaGranted(c) \/ KaRegistered(c)
    \/ KaFails(c) \/ KaStreamEnds(c) \/ KaStops(c)

ClNext ==
    \/ \E c \in Centers :
          \/ \E t \in Threads : Execute(c, t)
          \/ Start(c) \/ Main(c) \/ Close(c) \/ Crash(c)
          \/ KeepAlive(c)
    \/ \E l \in Leases : Expire(l)
    \/ \E q \in late : ExecLate(q)

ClSpec == ClInit /\ [][ClNext]_clVars

\* The goroutines run, and no call waits forever (Start, Close, and every call of
\* keepAlive have a timeout).  etcd is reachable again and again: of the requests of a
\* keepAlive that goes on asking, some are executed and answered, and not every lease
\* it is granted dies before its Put (a lease lives for 15 s, Grant and Put have 10 s
\* together).  A late request does not stay on its way forever.  A lease that nobody
\* refreshes expires, and a stream whose lease is dead ends.
Streamed(l) == \E c \in Centers : ka[c] = "stream" /\ leaseID[c] = l

ClFairness ==
    /\ \A c \in Centers :
          /\ WF_clVars(Main(c))
          /\ WF_clVars(KaTop(c)) /\ WF_clVars(KaFails(c)) /\ SF_clVars(KaStops(c))
          /\ SF_clVars(\E l \in Leases : ExecGrant(c, "ka", l))
          /\ SF_clVars(call[c]["ka"].lease \in live /\ ExecPut(c, "ka"))
          /\ SF_clVars(ExecRead(c, "ka"))
          /\ SF_clVars(KaExpired(c)) /\ SF_clVars(KaRegistered(c))
          /\ SF_clVars(call[c]["ka"].lease \in live /\ KaGranted(c))
          /\ WF_clVars(leaseID[c] \notin live /\ KaStreamEnds(c))
    /\ WF_clVars(\E q \in late : ExecLate(q))
    /\ \A l \in Leases : WF_clVars(~Streamed(l) /\ Expire(l))

ClLiveSpec == ClSpec /\ ClFairness

-----------------------------------------------------------------------------
(* Properties.                                                                 *)

Calls == [op : {"none", "Grant", "Put", "Get", "Revoke", "TimeToLive"},
          lease : Leases \cup {NoLease},
          res : {"none", "sent", "ok", "refused", "expired"}]

ClTypeOK ==
    /\ live \subseteq Leases
    /\ key \in Leases \cup {NoLease, NoKey}
    /\ late \subseteq Calls /\ stray \in BOOLEAN
    /\ main \in [Centers -> {"off", "start", "undo", "running", "closing", "closed"}]
    /\ ka \in [Centers -> {"off", "top", "stream", "done"}]
    /\ leaseID \in [Centers -> Leases \cup {NoLease}]
    /\ alive \in [Centers -> BOOLEAN] /\ cancelled \in [Centers -> BOOLEAN]
    /\ call \in [Centers -> [Threads -> Calls]]

\* A node whose keepAlive refreshes a lease, and whose lease is alive, is visible to
\* the others under that lease: no lost answer, failed registration, expiry or earlier
\* process of the node makes it refresh a lease its key is not attached to.  The one
\* thing that does is a late Put: registerSelf's deadline was over, keepAlive registered
\* under a newer lease, and then etcd executed the Put of the old one.
StreamedIsRegistered ==
    \A c \in Centers :
        main[c] = "running" /\ ka[c] = "stream" /\ leaseID[c] \in live =>
            key = leaseID[c] \/ stray

\* The comment of Close: it revokes the registration.  Asked only of a Close whose
\* Revoke was answered without error.
ClosedIsUnregistered ==
    \A c \in Centers :
        main[c] = "closed" /\ Answered(c, "main", "Revoke", "ok") =>
            key \in {NoKey} \cup {leaseID[d] : d \in Centers \ {c}}

\* A running node that is not registered under its lease registers again, unless a late
\* Put took the key from it: then keepAlive goes on with a lease that is alive, and
\* nothing tells it that the key is gone.
Reregisters ==
    \A c \in Centers :
        main[c] = "running" ~> (main[c] # "running" \/ key = leaseID[c] \/ stray)

\* Whatever a crash, a failed Start, a late Put or a Close that raced with keepAlive
\* leaves behind lapses: the key of a lease that no running process holds goes away.
GhostLapses ==
    \A l \in Leases \cup {NoLease} :
        key = l ~> (key # l \/ \E c \in Centers : main[c] = "running" /\ leaseID[c] = l)

\* After Close keepAlive ends, wherever it was: it does not go on asking for leases.
KeepAliveStops == \A c \in Centers : main[c] = "closed" ~> ka[c] \in {"done", "off"}

-----------------------------------------------------------------------------
(* The inductive invariant behind StreamedIsRegistered.                        *)

\* If the lease of c is alive, the key is attached to it, unless a late Put took it.
Attached(c) == ~stray /\ leaseID[c] \in live => key = leaseID[c]

Over(c) == main[c] \in {"off", "closed"}

\* What the goroutine of Start and Close has at etcd: a Put of its own lease and then a
\* Get, both before keepAlive exists, and Revokes.
MainSane(c) ==
    LET q == call[c]["main"]
    IN  /\ q.op = "Put" => main[c] = "start" /\ q.lease = leaseID[c]
        /\ main[c] = "start" /\ (Answered(c, "main", "Put", "ok") \/ q.op = "Get") => Attached(c)
        /\ main[c] = "running" => q = NoCall
        /\ main[c] \in {"off", "start", "undo"} => ka[c] = "off" /\ alive[c]

\* keepAlive asks for a lease and registers only while it is not alive, and it is alive
\* only with a lease the key is attached to, unless that lease is dead.
KaSane(c) ==
    LET q == call[c]["ka"]
    IN  /\ q # NoCall => ka[c] = "top" /\ ~Over(c)
        /\ q.op \in {"Grant", "Put"} => ~alive[c]
        /\ q.op = "Put" => q.lease = leaseID[c]
        /\ Answered(c, "ka", "Put", "ok") => Attached(c)
        /\ q.op = "TimeToLive" => alive[c]
        /\ ka[c] = "stream" => alive[c]
        /\ main[c] = "running" /\ alive[c] => Attached(c)
        /\ main[c] \in {"closing", "closed"} => cancelled[c]

\* One process of the node at a time.
OneProcess == \A c, d \in Centers : c = d \/ Over(c) \/ Over(d)

LeaseInv ==
    /\ ClTypeOK
    /\ OneProcess
    /\ \A c \in Centers : MainSane(c) /\ KaSane(c)

=============================================================================
