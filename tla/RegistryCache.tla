----------------------------- MODULE RegistryCache -----------------------------
(* The local side of infra/actor/registry.go, on top of the ownership protocol *)
(* of Registry: the location cache of every node, GetActorLocation with its    *)
(* singleflight, and the consumer of the change stream.                        *)
(*                                                                             *)
(* Each action of Registry is taken whole and extended with what the same code *)
(* does to the cache and to the stream.  A lookup that hits the cache changes  *)
(* nothing and is not a step; an expired entry is dropped by the read that     *)
(* finds it, so an entry here is gone when its time is.                        *)
EXTENDS Registry, Sequences, FiniteSetsExt

CONSTANTS Readers,       \* bound: nodes that call GetActorLocation
          Watchers,      \* bound: nodes whose stream consumer is scheduled
          MaxTTL,        \* LocalCacheMaxTTL, in ticks
          SafetyWindow,  \* LocalCacheSafetyWindow, in ticks
          StreamMaxLen,  \* ChangeStreamMaxLen
          ReadCount,     \* Count of one XREAD
          MaxEvents,     \* bound: entries ever added to the change stream
          MaxCallers     \* bound: lookups that share one flight

\* RegistryConfig.init replaces values that are not positive by defaults.
ASSUME CacheAssumption ==
    /\ Readers \subseteq Nodes /\ Watchers \subseteq Nodes
    /\ MaxTTL \in Nat \ {0}
    /\ SafetyWindow \in Nat \ {0}
    /\ StreamMaxLen \in Nat \ {0}
    /\ ReadCount \in Nat \ {0}
    /\ MaxEvents \in Nat
    /\ MaxCallers \in Nat \ {0}

VARIABLES cache,     \* cache[n][a]: locCache entry, the node it names and the ticks it lives
          flight,    \* flight[n][a]: the singleflight of GetActorLocation
          stream,    \* actors of the entries ever added to the change stream; ids are positions
          first,     \* id of the oldest entry MAXLEN has kept
          cons,      \* cons[n]: consumeLocationChanges, its lastID and its reply
          stopping,  \* stopping[n]: Close has cancelled streamCtx
          applied,   \* history: ids of the entries n has applied
          age        \* history: age[a][m], ticks since the key of a last named m

cacheVars == <<cache, flight, stream, first, cons, stopping, applied, age>>
vars == <<regVars, cacheVars>>

-----------------------------------------------------------------------------
(* The cache.                                                                  *)

NoEntry == [node |-> NoNode, left |-> 0]

\* Mutant: the cap LocalCacheMaxTTL is forgotten.
calcLocalCacheTTL_Uncapped(ttl, phase) ==
    LET remaining == ttl * Second - phase
    IN  IF ttl <= 0 THEN MaxTTL
        ELSE IF remaining <= SafetyWindow THEN 0 ELSE remaining - SafetyWindow

\* ExpireAt is the current second plus ttl, `phase` ticks of that second are over:
\* ttlToExpireAt, then calcLocalCacheTTL.  No ExpireAt counts as "never expires".
calcLocalCacheTTL(ttl, phase) ==
    LET remaining == ttl * Second - phase
    IN  IF ttl <= 0 THEN MaxTTL
        ELSE IF remaining <= SafetyWindow THEN 0
        ELSE Min({remaining - SafetyWindow, MaxTTL})

cacheLocation(node, ttl, phase) ==
    LET localTTL == calcLocalCacheTTL(ttl, phase)
    IN  IF localTTL <= 0 THEN NoEntry ELSE [node |-> node, left |-> localTTL]

\* What the four ownership calls do to the cache entry when their reply arrives.
AfterReply(entry, a, q, reply, phase) ==
    CASE reply.code = "ok" /\ q.op \in {"register", "takeover"} ->
             cacheLocation(reply.node, reply.ttl, phase)
      [] reply.code = "already_registered" -> cacheLocation(reply.node, reply.ttl, phase)
      [] reply.code = "ok" /\ q.op = "keepalive" -> cacheLocation(q.node, TTL[a], phase)
      [] reply.code = "ok" /\ q.op = "unregister" -> NoEntry
      [] reply.code = "not_exists" -> NoEntry
      [] reply.code = "lease_mismatch" -> entry

-----------------------------------------------------------------------------
(* The change stream.                                                          *)

Latest == -1  \* the id "$"

Stopped(c) == [c EXCEPT !.st = "stopped", !.inbox = {}]

\* XADD with MAXLEN ~: the new entry wakes every blocked XREAD; entries beyond
\* StreamMaxLen may be trimmed.
XAdd(a) ==
    LET id == Len(stream) + 1
    IN  /\ id <= MaxEvents
        /\ stream' = Append(stream, a)
        /\ first' \in first .. Max({first, id - StreamMaxLen + 1})
        /\ cons' = [n \in Nodes |->
              IF cons[n].st = "reading"
              THEN [cons[n] EXCEPT !.st = "replied", !.inbox = {id}] ELSE cons[n]]

NoXAdd == UNCHANGED <<stream, first, cons>>

\* XREAD from lastID, at most ReadCount entries; "$" means the newest id there is.
Available(n) ==
    LET from == IF cons[n].lastID = Latest THEN Len(stream) ELSE cons[n].lastID
        low  == Max({from + 1, first})
    IN  low .. Min({Len(stream), low + ReadCount - 1})

XRead(n) ==
    /\ cons[n].st = "idle" /\ ~stopping[n]
    /\ cons' = [cons EXCEPT ![n].st = IF Available(n) = {} THEN "reading" ELSE "replied",
                             ![n].inbox = Available(n)]

\* Nothing arrived within registryStreamReadBlock: redis.Nil, and the loop goes on
\* with the same lastID.
XReadTimeout(n) ==
    /\ cons[n].st = "reading"
    /\ cons' = [cons EXCEPT ![n].st = "idle"]

\* Mutant: a failed read starts over at the end of the stream.
XReadError_Restarts(n) ==
    /\ cons[n].st \in {"reading", "replied"}
    /\ cons' = [cons EXCEPT ![n] = [@ EXCEPT !.st = "retry", !.inbox = {}, !.lastID = Latest]]

\* The read fails.  An error that says the stream is missing restarts from "0-0".
XReadError(n) ==
    /\ cons[n].st \in {"reading", "replied"}
    /\ \E id \in {cons[n].lastID} \cup (IF stream = <<>> THEN {0} ELSE {}) :
          cons' = [cons EXCEPT ![n] = [@ EXCEPT !.st = "retry", !.inbox = {}, !.lastID = id]]

\* waitChangeRetry
WaitChangeRetry(n) ==
    /\ cons[n].st = "retry" /\ ~stopping[n]
    /\ cons' = [cons EXCEPT ![n].st = "idle"]

\* applyLocationChange of the next message, then lastID = message.ID.
ApplyLocationChange(n) ==
    LET id   == Min(cons[n].inbox)
        rest == cons[n].inbox \ {id}
    IN  /\ cons[n].st \in {"replied", "applying"}
        /\ cache' = [cache EXCEPT ![n][stream[id]] = NoEntry]
        /\ applied' = [applied EXCEPT ![n] = @ \cup {id}]
        /\ cons' = [cons EXCEPT ![n] =
              [@ EXCEPT !.st = IF rest = {} THEN "idle" ELSE "applying", !.lastID = id, !.inbox = rest]]

\* Mutant: the loop does not look at streamCtx.
StopConsumer_RetryOnly(n) ==
    /\ stopping[n] /\ cons[n].st = "retry"
    /\ cons' = [cons EXCEPT ![n] = Stopped(@)]

\* The loop or waitChangeRetry sees the cancelled context, or XREAD fails with it.
StopConsumer(n) ==
    /\ stopping[n] /\ cons[n].st \in {"idle", "reading", "replied", "retry"}
    /\ cons' = [cons EXCEPT ![n] = Stopped(@)]

Consume(n) ==
    /\ \/ /\ XRead(n) \/ XReadTimeout(n) \/ XReadError(n) \/ WaitChangeRetry(n) \/ StopConsumer(n)
          /\ UNCHANGED <<cache, applied>>
       \/ ApplyLocationChange(n)
    /\ UNCHANGED <<regVars, flight, stream, first, stopping, age>>

\* Close cancels streamCtx and waits for the consumer.
Close(n) ==
    /\ ~stopping[n]
    /\ stopping' = [stopping EXCEPT ![n] = TRUE]
    /\ UNCHANGED <<regVars, cache, flight, stream, first, cons, applied, age>>

-----------------------------------------------------------------------------
(* GetActorLocation.                                                           *)

NoFlight == [st |-> "idle", left |-> 0, reply |-> NoReply, callers |-> 0]

\* A miss joins the flight of its actor or starts one; the second look at the cache
\* inside the flight makes a miss that starts late the same as a later call.
GetActorLocation(n, a) ==
    /\ cache[n][a] = NoEntry
    /\ flight[n][a].callers < MaxCallers
    /\ flight' = [flight EXCEPT ![n][a] =
          IF @.st = "idle" THEN [st |-> "sent", left |-> Timeout, reply |-> NoReply, callers |-> 1]
          ELSE [@ EXCEPT !.callers = flight[n][a].callers + 1]]
    /\ UNCHANGED cache

LookupExecute(n, a) ==
    /\ flight[n][a].st = "sent"
    /\ flight' = [flight EXCEPT ![n][a] =
          [@ EXCEPT !.st = "replied", !.reply = getActorRegScript(rec[a])]]
    /\ UNCHANGED cache

LookupResend(n, a) ==
    /\ flight[n][a].st = "replied"
    /\ flight' = [flight EXCEPT ![n][a] = [@ EXCEPT !.st = "sent", !.reply = NoReply]]
    /\ UNCHANGED cache

\* The location is cached; ErrActorNotExists leaves the cache as it is.
LookupReturn(n, a) ==
    /\ flight[n][a].st = "replied"
    /\ flight' = [flight EXCEPT ![n][a] = NoFlight]
    /\ IF flight[n][a].reply.code = "ok"
       THEN \E phase \in 0 .. Second - 1 :
               cache' = [cache EXCEPT ![n][a] =
                   cacheLocation(flight[n][a].reply.node, flight[n][a].reply.ttl, phase)]
       ELSE UNCHANGED cache

\* Mutant: a reply is waited for without a deadline.
LookupFail_NoDeadline(n, a) ==
    /\ flight[n][a].st = "replied"
    /\ flight' = [flight EXCEPT ![n][a] = NoFlight]
    /\ UNCHANGED cache

\* newRegistryContext: the deadline ends every lookup, whatever Redis does.
LookupFail(n, a) ==
    /\ flight[n][a].st # "idle"
    /\ flight' = [flight EXCEPT ![n][a] = NoFlight]
    /\ UNCHANGED cache

Lookup(n, a) ==
    /\ \/ GetActorLocation(n, a) \/ LookupExecute(n, a) \/ LookupResend(n, a)
       \/ LookupReturn(n, a) \/ LookupFail(n, a)
    /\ UNCHANGED <<regVars, stream, first, cons, stopping, applied, age>>

-----------------------------------------------------------------------------
(* The ownership calls, with the cache and the stream.                         *)

MaxAge == MaxTTL + Timeout

\* The history variable age, for a step of t ticks.
Track(t) ==
    age' = [a \in Actors |-> [m \in Nodes |->
              IF rec'[a].node = m THEN 0 ELSE Min({age[a][m] + t, MaxAge})]]

\* A script that changes a location adds the change to the stream.
Publish(a, q) == IF RunScript(rec[a], q).xadd THEN XAdd(a) ELSE NoXAdd

Own(n, a) ==
    \/ /\ Call(n, a) \/ Resend(n, a) \/ Fail(n, a)
       /\ NoXAdd /\ UNCHANGED cache
    \/ /\ Execute(n, a)
       /\ Publish(a, call[n][a].req) /\ UNCHANGED cache
    \/ /\ Return(n, a)
       /\ \E phase \in 0 .. Second - 1 :
             cache' = [cache EXCEPT ![n][a] =
                 AfterReply(@, a, call[n][a].req, call[n][a].reply, phase)]
       /\ NoXAdd

Abandoned(q) ==
    /\ \/ ExecuteLate(q) /\ Publish(q.uid, q)
       \/ LoseLate(q) /\ NoXAdd
    /\ UNCHANGED cache

CountDownEntry(e) == IF e.left <= 1 THEN NoEntry ELSE [e EXCEPT !.left = @ - 1]

Tick ==
    /\ RegTick
    /\ \A n \in Nodes, a \in Actors : flight[n][a].st # "idle" => flight[n][a].left > 0
    /\ cache' = [n \in Nodes |-> [a \in Actors |-> CountDownEntry(cache[n][a])]]
    /\ flight' = [n \in Nodes |-> [a \in Actors |->
                    [flight[n][a] EXCEPT !.left = CountDown(@)]]]
    /\ Track(1)
    /\ UNCHANGED <<stream, first, cons, stopping, applied>>

Init ==
    /\ RegInit
    /\ cache = [n \in Nodes |-> [a \in Actors |-> NoEntry]]
    /\ flight = [n \in Nodes |-> [a \in Actors |-> NoFlight]]
    /\ stream = <<>>
    /\ first = 1
    /\ cons = [n \in Nodes |-> [st |-> "idle", lastID |-> Latest, inbox |-> {}]]
    /\ stopping = [n \in Nodes |-> FALSE]
    /\ applied = [n \in Nodes |-> {}]
    /\ age = [a \in Actors |-> [m \in Nodes |-> MaxAge]]

Next ==
    \/ /\ \/ \E n \in Nodes, a \in Actors : Own(n, a)
          \/ \E q \in late : Abandoned(q)
       /\ Track(0)
       /\ UNCHANGED <<flight, stopping, applied>>
    \/ \E n \in Readers, a \in Actors : Lookup(n, a)
    \/ \E n \in Watchers : Consume(n) \/ Close(n)
    \/ Tick

Spec == Init /\ [][Next]_vars

-----------------------------------------------------------------------------
(* Properties.                                                                 *)

Entries == [node : Nodes, left : 1..MaxTTL] \cup {NoEntry}
Flights == [st : {"sent", "replied"}, left : 0..Timeout, reply : Replies, callers : 1..MaxCallers]
              \cup {NoFlight}
Consumers == [st : {"idle", "reading", "replied", "applying", "retry", "stopped"},
              lastID : {Latest} \cup Nat, inbox : SUBSET Nat]

\* Type invariant of the cache, the lookups and the consumers.
CacheTypeOK ==
    /\ cache \in [Nodes -> [Actors -> Entries]]
    /\ flight \in [Nodes -> [Actors -> Flights]]
    /\ stream \in Seq(Actors)
    /\ first \in Nat
    /\ cons \in [Nodes -> Consumers]
    /\ stopping \in [Nodes -> BOOLEAN]
    /\ applied \in [Nodes -> SUBSET Nat]
    /\ age \in [Actors -> [Nodes -> 0..MaxAge]]

\* A cached location is never older than LocalCacheMaxTTL + registryTimeout: if
\* GetActorLocation can still answer m from the cache, the key named m less than
\* that long ago - even if every change of the stream was missed and the reply
\* that filled the cache overtook the invalidation.  This is how long the source of
\* a migration has to forward.
BoundedStaleness ==
    \A n \in Nodes, a \in Actors :
        cache[n][a] # NoEntry => age[a][cache[n][a].node] < MaxAge

\* Once a consumer has applied a change, it applies every later one in order, over
\* timeouts, failed reads and lost replies, except what MAXLEN trimmed first.
ReplayHasNoHoles ==
    \A n \in Watchers : applied[n] # {} =>
        \A id \in Min(applied[n]) .. Max(applied[n]) : id \in applied[n] \/ id < first

\* Every GetActorLocation returns, also those waiting for the flight of another caller.
LookupReturns ==
    \A n \in Readers, a \in Actors : flight[n][a].callers > 0 ~> flight[n][a].callers = 0

\* Close does not hang: the consumer stops once its context is cancelled, whatever
\* it was doing.
CloseReturns ==
    \A n \in Watchers : stopping[n] ~> cons[n].st = "stopped"

\* Time goes on, contexts expire, and the consumer goroutine is scheduled.
Fairness ==
    /\ WF_vars(Tick)
    /\ \A n \in Nodes, a \in Actors :
          /\ WF_vars(call[n][a].left = 0 /\ Own(n, a) /\ call'[n][a].st = "idle"
                     /\ Track(0) /\ UNCHANGED <<flight, stopping, applied>>)
          /\ WF_vars(flight[n][a].left = 0 /\ Lookup(n, a) /\ flight'[n][a].st = "idle")
    /\ \A n \in Watchers : WF_vars(Consume(n))

LiveSpec == Spec /\ Fairness

-----------------------------------------------------------------------------
(* The inductive invariant behind BoundedStaleness.                            *)

\* A reply that puts a location into the cache, and the node it names.
Locates(n, a) ==
    /\ call[n][a].st = "replied"
    /\ \/ call[n][a].reply.code = "already_registered"
       \/ call[n][a].reply.code = "ok" /\ call[n][a].req.op # "unregister"
Located(n, a) ==
    IF call[n][a].reply.code = "ok" /\ call[n][a].req.op = "keepalive"
    THEN n ELSE call[n][a].reply.node

\* The key names nobody else; a reply is as old as its call at most; and an entry
\* that may live longer was filled from a younger reply.
StaleInv ==
    /\ RegInv
    /\ cache \in [Nodes -> [Actors -> Entries]]
    /\ flight \in [Nodes -> [Actors -> Flights]]
    /\ age \in [Actors -> [Nodes -> 0..MaxAge]]
    /\ \A a \in Actors : rec[a].node # NoNode => age[a][rec[a].node] = 0
    /\ \A n \in Nodes, a \in Actors :
          /\ call[n][a].st = "replied" => call[n][a].reply.code # "none"
          /\ Locates(n, a) => /\ Located(n, a) \in Nodes
                              /\ age[a][Located(n, a)] + call[n][a].left <= Timeout
          /\ flight[n][a].st = "replied" /\ flight[n][a].reply.code = "ok" =>
                /\ flight[n][a].reply.node \in Nodes
                /\ age[a][flight[n][a].reply.node] + flight[n][a].left <= Timeout
          /\ cache[n][a] # NoEntry => age[a][cache[n][a].node] + cache[n][a].left <= MaxAge

=============================================================================
