----------------------------- MODULE ServerStore ------------------------------
(* infra/actor/server_store.go: which server an actor belongs to, kept in Redis *)
(* without expiry, and cached by every process for a short time.                *)
(*                                                                              *)
(* Actors do not interact here, so there is one.  A call ends with its context, *)
(* at most Timeout ticks after it began; the client sends a command again when  *)
(* its reply is lost, and a SET whose caller has given up may still be executed.*)
(* A lookup that hits the cache changes nothing and is not a step; an expired   *)
(* entry is dropped by the read that finds it, so an entry here is gone when    *)
(* its time is.                                                                 *)
EXTENDS Integers, FiniteSets, FiniteSetsExt

CONSTANTS Procs, Servers,
          Writers,        \* bound: processes that call SetActorServer
          Readers,        \* bound: processes that call GetActorServer
          NoServer,       \* the actor has no server
          LocalCacheTTL,  \* in ticks
          Timeout,        \* serverStoreTimeout, in ticks
          MaxLate,        \* bound: SETs pending without a caller
          MaxInbox        \* bound: invalidations on their way to a process

\* ServerStoreConfig.init replaces a TTL that is not positive.
ASSUME ServerStoreAssumption ==
    /\ NoServer \notin Servers /\ Writers \cup Readers \subseteq Procs
    /\ {LocalCacheTTL, Timeout} \subseteq Nat \ {0}
    /\ {MaxLate, MaxInbox} \subseteq Nat

VARIABLES server,      \* Redis: the value of the actor's key
          late,        \* SETs their callers gave up, not executed
          cache,       \* cache[p]: the entry and the ticks it lives
          flight,      \* flight[p]: the singleflight of GetActorServer
          setter,      \* setter[p]: the SetActorServer of process p
          subscribed,  \* subscribed[p]: the Subscribe of NewServerStore succeeded
          inbox,       \* inbox[p]: invalidations not handled by the subscriber of p
          age          \* history: age[v], ticks since the key had the value v

vars == <<server, late, cache, flight, setter, subscribed, inbox, age>>

Values == Servers \cup {NoServer}
MaxAge == LocalCacheTTL + Timeout

NoEntry == [server |-> NoServer, left |-> 0]
cacheServer(v) == [server |-> v, left |-> LocalCacheTTL]
Flight(st, v, left) == [st |-> st, server |-> v, left |-> left]
Idle == Flight("idle", NoServer, 0)

\* The history variable age, for a step of t ticks.
Track(t) ==
    age' = [v \in Values |-> IF server' = v THEN 0 ELSE Min({age[v] + t, MaxAge})]

Init ==
    /\ server = NoServer /\ late = {}
    /\ cache = [p \in Procs |-> NoEntry]
    /\ flight = [p \in Procs |-> Idle] /\ setter = [p \in Procs |-> Idle]
    /\ subscribed \in [Procs -> BOOLEAN]
    /\ inbox = [p \in Procs |-> 0]
    /\ age = [v \in Values |-> IF v = NoServer THEN 0 ELSE MaxAge]

-----------------------------------------------------------------------------
(* SetActorServer.                                                             *)

SetActorServer(p, v) ==
    /\ setter[p].st = "idle"
    /\ setter' = [setter EXCEPT ![p] = Flight("sent", v, Timeout)]
    /\ UNCHANGED <<server, late, cache, inbox>>

SetExecute(p) ==
    /\ setter[p].st = "sent"
    /\ server' = setter[p].server
    /\ setter' = [setter EXCEPT ![p].st = "replied"]
    /\ UNCHANGED <<late, cache, inbox>>

SetResend(p) ==
    /\ setter[p].st = "replied"
    /\ setter' = [setter EXCEPT ![p].st = "sent"]
    /\ UNCHANGED <<server, late, cache, inbox>>

\* The reply arrives: the new server is cached, and the invalidation is next.
SetReturn(p) ==
    /\ setter[p].st = "replied"
    /\ cache' = [cache EXCEPT ![p] = cacheServer(setter[p].server)]
    /\ setter' = [setter EXCEPT ![p] = Flight("publish", NoServer, Timeout)]
    /\ UNCHANGED <<server, late, inbox>>

\* Mutant: the server is cached before the error is looked at.
SetFail_Caches(p) ==
    /\ setter[p].st \in {"sent", "replied"}
    /\ setter' = [setter EXCEPT ![p] = Idle]
    /\ cache' = [cache EXCEPT ![p] = cacheServer(setter[p].server)]
    /\ UNCHANGED <<server, late, inbox>>

\* The context ends, or the SET fails: nothing is cached and nobody is told.
SetFail(p) ==
    /\ setter[p].st \in {"sent", "replied"}
    /\ setter' = [setter EXCEPT ![p] = Idle]
    /\ late' \in {late} \cup (IF setter[p].st = "sent" /\ Cardinality(late) < MaxLate
                              THEN {late \cup {setter[p].server}} ELSE {})
    /\ UNCHANGED <<server, cache, inbox>>

\* publishInvalidation reaches every subscriber, or fails: the error is ignored.
PublishInvalidation(p) ==
    /\ setter[p].st = "publish"
    /\ setter' = [setter EXCEPT ![p] = Idle]
    /\ \/ inbox' = [q \in Procs |-> IF subscribed[q] THEN Min({inbox[q] + 1, MaxInbox})
                                                     ELSE inbox[q]]
       \/ inbox' = inbox
    /\ UNCHANGED <<server, late, cache>>

ExecuteLate(v) ==
    /\ v \in late
    /\ server' = v /\ late' = late \ {v}
    /\ UNCHANGED <<cache, setter, inbox>>

LoseLate(v) ==
    /\ v \in late
    /\ late' = late \ {v}
    /\ UNCHANGED <<server, cache, setter, inbox>>

-----------------------------------------------------------------------------
(* The subscriber.                                                             *)

\* deleteCachedServer.
Invalidate(p) ==
    /\ inbox[p] > 0
    /\ inbox' = [inbox EXCEPT ![p] = inbox[p] - 1]
    /\ cache' = [cache EXCEPT ![p] = NoEntry]
    /\ UNCHANGED <<server, late, setter>>

\* Messages sent while the connection is down are not delivered.
LoseInvalidations(p) ==
    /\ inbox[p] > 0
    /\ inbox' = [inbox EXCEPT ![p] = 0]
    /\ UNCHANGED <<server, late, cache, setter>>

-----------------------------------------------------------------------------
(* GetActorServer.                                                             *)

\* A miss starts a flight, or joins the one there is, which changes nothing here.  The
\* second look at the cache inside the flight makes a miss that starts late the same
\* as a later call.
GetActorServer(p) ==
    /\ cache[p] = NoEntry /\ flight[p].st = "idle"
    /\ flight' = [flight EXCEPT ![p] = Flight("sent", NoServer, Timeout)]
    /\ UNCHANGED cache

LookupExecute(p) ==
    /\ flight[p].st = "sent"
    /\ flight' = [flight EXCEPT ![p].st = "replied", ![p].server = server]
    /\ UNCHANGED cache

LookupResend(p) ==
    /\ flight[p].st = "replied"
    /\ flight' = [flight EXCEPT ![p].st = "sent", ![p].server = NoServer]
    /\ UNCHANGED cache

\* What was read is cached, also when there is no server.
LookupReturn(p) ==
    /\ flight[p].st = "replied"
    /\ cache' = [cache EXCEPT ![p] = cacheServer(flight[p].server)]
    /\ flight' = [flight EXCEPT ![p] = Idle]

LookupFail(p) ==
    /\ flight[p].st # "idle"
    /\ flight' = [flight EXCEPT ![p] = Idle]
    /\ UNCHANGED cache

-----------------------------------------------------------------------------
\* Mutant: the entry for an actor without a server does not expire.
CountDownEntry_KeepsAbsent(e) ==
    IF e.server = NoServer THEN e
    ELSE IF e.left <= 1 THEN NoEntry ELSE [e EXCEPT !.left = e.left - 1]

\* expireAt comes a tick closer; getCachedServer drops an entry that has reached it.
CountDownEntry(e) == IF e.left <= 1 THEN NoEntry ELSE [e EXCEPT !.left = e.left - 1]

CountDown(f) == IF f.st = "idle" THEN f ELSE [f EXCEPT !.left = f.left - 1]

Tick ==
    /\ \A p \in Procs : /\ flight[p].st # "idle" => flight[p].left > 0
                        /\ setter[p].st # "idle" => setter[p].left > 0
    /\ cache' = [p \in Procs |-> CountDownEntry(cache[p])]
    /\ flight' = [p \in Procs |-> CountDown(flight[p])]
    /\ setter' = [p \in Procs |-> CountDown(setter[p])]
    /\ UNCHANGED <<server, late, inbox>>

Set(p) ==
    \/ \E v \in Servers : SetActorServer(p, v)
    \/ SetExecute(p) \/ SetResend(p) \/ SetReturn(p) \/ SetFail(p) \/ PublishInvalidation(p)

Lookup(p) ==
    \/ GetActorServer(p) \/ LookupExecute(p) \/ LookupResend(p)
    \/ LookupReturn(p) \/ LookupFail(p)

Write ==
    \/ \E p \in Writers : Set(p)
    \/ \E p \in Procs : Invalidate(p) \/ LoseInvalidations(p)
    \/ \E v \in Servers : ExecuteLate(v) \/ LoseLate(v)

Next ==
    /\ \/ Write /\ UNCHANGED flight /\ Track(0)
       \/ (\E p \in Readers : Lookup(p)) /\ UNCHANGED <<server, late, setter, inbox>> /\ Track(0)
       \/ Tick /\ Track(1)
    /\ UNCHANGED subscribed

Spec == Init /\ [][Next]_vars

\* Time goes on, and a context that has ended ends its call.
Fairness ==
    /\ WF_vars(Tick /\ Track(1) /\ UNCHANGED subscribed)
    /\ \A p \in Procs :
          /\ WF_vars(flight[p].left = 0 /\ Lookup(p) /\ flight'[p].st = "idle"
                     /\ UNCHANGED <<server, late, setter, inbox, subscribed>> /\ Track(0))
          /\ WF_vars(setter[p].left = 0 /\ Set(p) /\ setter'[p].st \in {"idle", "publish"}
                     /\ UNCHANGED <<flight, subscribed>> /\ Track(0))

LiveSpec == Spec /\ Fairness

-----------------------------------------------------------------------------
(* Properties.                                                                 *)

TypeOK ==
    /\ server \in Values /\ late \subseteq Servers
    /\ cache \in [Procs -> [server : Values, left : 1 .. LocalCacheTTL] \cup {NoEntry}]
    /\ flight \in [Procs -> [st : {"sent", "replied"}, server : Values, left : 0 .. Timeout]
                             \cup {Idle}]
    /\ setter \in [Procs -> [st : {"sent", "replied"}, server : Servers, left : 0 .. Timeout]
                             \cup [st : {"publish"}, server : {NoServer}, left : 0 .. Timeout]
                             \cup {Idle}]
    /\ subscribed \in [Procs -> BOOLEAN]
    /\ inbox \in [Procs -> 0 .. MaxInbox]
    /\ age \in [Values -> 0 .. MaxAge]

\* What GetActorServer answers from the cache, a server or that there is none, was in
\* Redis less than LocalCacheTTL + serverStoreTimeout ago: with invalidations lost or
\* never subscribed to, with a lookup that overtakes the invalidation, and with SETs
\* that fail, are repeated or come late.
BoundedStaleness ==
    \A p \in Procs : cache[p] # NoEntry => age[cache[p].server] < MaxAge

\* The inductive form: an answer is as old as its call at most.
StaleInv ==
    /\ TypeOK
    /\ age[server] = 0
    /\ \A p \in Procs :
          /\ cache[p] # NoEntry => age[cache[p].server] + cache[p].left <= MaxAge
          /\ flight[p].st = "replied" => age[flight[p].server] + flight[p].left <= Timeout
          /\ setter[p].st = "replied" => age[setter[p].server] + setter[p].left <= Timeout

\* When the actor's server no longer changes, every process comes to know it, whatever
\* invalidations it missed.
ReadsConverge ==
    \A v \in Values :
        (<>[](server = v)) => <>[](\A p \in Procs : cache[p] # NoEntry => cache[p].server = v)

=============================================================================
