--------------------------- MODULE ServerStoreProofs --------------------------
(* Proofs about ServerStore: an answer from the cache is at most LocalCacheTTL *)
(* and one call's timeout old, for any processes, servers and late SETs.       *)
EXTENDS ServerStore, TLAPS

Entries == [server : Values, left : 1 .. LocalCacheTTL] \cup {NoEntry}
Flights == [st : {"sent", "replied"}, server : Values, left : 0 .. Timeout] \cup {Idle}
Setters == [st : {"sent", "replied"}, server : Servers, left : 0 .. Timeout]
             \cup [st : {"publish"}, server : {NoServer}, left : 0 .. Timeout] \cup {Idle}

\* The parts of StaleInv about one process.
FreshEntry(p)  == cache[p] # NoEntry => age[cache[p].server] + cache[p].left <= MaxAge
FreshFlight(p) == flight[p].st = "replied" => age[flight[p].server] + flight[p].left <= Timeout
FreshSetter(p) == setter[p].st = "replied" => age[setter[p].server] + setter[p].left <= Timeout

LEMMA Bounds == LocalCacheTTL \in Nat \ {0} /\ Timeout \in Nat \ {0} /\ MaxAge \in Nat
                /\ MaxAge = LocalCacheTTL + Timeout /\ NoServer \in Values
                /\ Servers \subseteq Values
  BY ServerStoreAssumption DEF MaxAge, Values

LEMMA StaleParts ==
    StaleInv <=> /\ TypeOK /\ age[server] = 0
                 /\ \A p \in Procs : FreshEntry(p) /\ FreshFlight(p) /\ FreshSetter(p)
  BY DEF StaleInv, FreshEntry, FreshFlight, FreshSetter

LEMMA MinOfTwo ==
    ASSUME NEW x \in Int, NEW y \in Int
    PROVE  Min({x, y}) = IF x <= y THEN x ELSE y
  BY DEF Min

\* The ages after a step of t ticks: at most t more, and zero for the key's value.
LEMMA TrackAges ==
    ASSUME NEW t \in {0, 1}, Track(t), server' \in Values, TypeOK
    PROVE  /\ age' \in [Values -> 0 .. MaxAge] /\ age'[server'] = 0
           /\ \A v \in Values : age'[v] <= age[v] + t
  <1>1. age' = [v \in Values |-> IF server' = v THEN 0 ELSE Min({age[v] + t, MaxAge})]
    BY DEF Track
  <1>2. ASSUME NEW v \in Values
        PROVE  /\ age[v] \in 0 .. MaxAge
               /\ Min({age[v] + t, MaxAge}) \in 0 .. MaxAge
               /\ Min({age[v] + t, MaxAge}) <= age[v] + t
    <2>1. age[v] \in 0 .. MaxAge /\ age[v] + t \in Int /\ MaxAge \in Int
      BY Bounds DEF TypeOK
    <2> QED BY <2>1, Bounds, MinOfTwo
  <1> QED BY <1>1, <1>2, Bounds

LEMMA StaleInit == Init => StaleInv
  <1> SUFFICES ASSUME Init PROVE StaleInv
    OBVIOUS
  <1>1. TypeOK
    BY Bounds, ServerStoreAssumption DEF Init, TypeOK
  <1>2. \A p \in Procs : FreshEntry(p) /\ FreshFlight(p) /\ FreshSetter(p)
    BY DEF Init, FreshEntry, FreshFlight, FreshSetter, Idle, Flight
  <1> QED BY <1>1, <1>2, StaleParts, Bounds DEF Init

-----------------------------------------------------------------------------
\* What a process has stays fresh in a step that takes no time, if it keeps it.
LEMMA KeepFresh ==
    ASSUME StaleInv, Track(0), server' \in Values, NEW p \in Procs
    PROVE  /\ cache'[p] = cache[p] => FreshEntry(p)'
           /\ flight'[p] = flight[p] => FreshFlight(p)'
           /\ setter'[p] = setter[p] => FreshSetter(p)'
  <1>1. \A v \in Values : age'[v] \in Int /\ age[v] \in Int /\ age'[v] <= age[v]
    BY TrackAges, Bounds DEF StaleInv, TypeOK
  <1>2. /\ cache[p] \in Entries /\ flight[p] \in Flights /\ setter[p] \in Setters
        /\ FreshEntry(p) /\ FreshFlight(p) /\ FreshSetter(p)
    BY StaleParts DEF TypeOK, Entries, Flights, Setters
  <1>3. cache'[p] = cache[p] => FreshEntry(p)'
    BY <1>1, <1>2, Bounds DEF Entries, FreshEntry
  <1>4. flight'[p] = flight[p] => FreshFlight(p)'
    BY <1>1, <1>2, Bounds DEF Flights, Idle, Flight, FreshFlight
  <1>5. setter'[p] = setter[p] => FreshSetter(p)'
    BY <1>1, <1>2, Bounds DEF Setters, Idle, Flight, FreshSetter
  <1> QED BY <1>3, <1>4, <1>5

\* A value that is as fresh as a call may be cached.
LEMMA CacheFresh ==
    ASSUME StaleInv, Track(0), server' \in Values, NEW p \in Procs, NEW v \in Values,
           age[v] <= Timeout, cache'[p] = cacheServer(v)
    PROVE  FreshEntry(p)' /\ cacheServer(v) \in Entries
  <1>1. age'[v] \in Int /\ age[v] \in Int /\ age'[v] <= age[v]
    BY TrackAges, Bounds DEF StaleInv, TypeOK
  <1> QED BY <1>1, Bounds DEF FreshEntry, cacheServer, Entries

\* The steps of SetActorServer and of the subscriber.
LEMMA WriteStale ==
    ASSUME StaleInv, Write, UNCHANGED <<flight, subscribed>>, Track(0)
    PROVE  StaleInv'
  <1>0. TypeOK /\ age[server] = 0
        /\ \A p \in Procs : FreshEntry(p) /\ FreshFlight(p) /\ FreshSetter(p)
    BY StaleParts
  <1>1. Writers \subseteq Procs
    BY ServerStoreAssumption
  <1>2. /\ cache \in [Procs -> Entries] /\ setter \in [Procs -> Setters]
        /\ flight \in [Procs -> Flights] /\ late \subseteq Servers /\ server \in Values
        /\ inbox \in [Procs -> 0 .. MaxInbox]
    BY <1>0 DEF TypeOK, Entries, Setters, Flights
  <1> DEFINE Good == /\ server' \in Values /\ late' \subseteq Servers
                     /\ cache' \in [Procs -> Entries] /\ setter' \in [Procs -> Setters]
                     /\ inbox' \in [Procs -> 0 .. MaxInbox]
                     /\ \A q \in Procs : FreshEntry(q)' /\ FreshSetter(q)'
  <1>3. ASSUME Good PROVE StaleInv'
    <2>1. age' \in [Values -> 0 .. MaxAge] /\ age'[server'] = 0
      BY <1>0, <1>3, TrackAges
    <2>2. TypeOK'
      BY <1>0, <1>3, <2>1 DEF TypeOK, Entries, Setters, Flights
    <2>3. \A q \in Procs : FreshFlight(q)'
      BY <1>3, KeepFresh
    <2> QED BY <1>3, <2>1, <2>2, <2>3 DEF StaleInv, FreshEntry, FreshFlight, FreshSetter
  <1>4. ASSUME NEW p \in Writers, Set(p) PROVE Good
    <2>0. p \in Procs /\ setter[p] \in Setters /\ FreshSetter(p)
      BY <1>0, <1>1, <1>2
    <2>1. ASSUME NEW v \in Servers, SetActorServer(p, v) PROVE Good
      <3>1. Flight("sent", v, Timeout) \in Setters
        BY Bounds DEF Flight, Setters
      <3>2. server' \in Values /\ setter' \in [Procs -> Setters] /\ setter'[p].st # "replied"
            /\ \A q \in Procs : q # p => setter'[q] = setter[q]
        BY <1>2, <2>0, <2>1, <3>1 DEF SetActorServer, Flight
      <3> QED BY <1>2, <2>0, <2>1, <3>2, KeepFresh DEF SetActorServer, FreshSetter
    <2>2. CASE SetExecute(p)
      <3>0. setter[p] \in [st : {"sent", "replied"}, server : Servers, left : 0 .. Timeout]
        BY <2>0, <2>2 DEF SetExecute, Setters, Idle, Flight
      <3>1. setter[p].server \in Values /\ setter[p].left \in 0 .. Timeout
            /\ [setter[p] EXCEPT !.st = "replied"] \in Setters
        BY <3>0, Bounds DEF Setters
      <3>2. server' \in Values /\ setter' \in [Procs -> Setters]
            /\ setter'[p].server = server' /\ setter'[p].left \in 0 .. Timeout
            /\ \A q \in Procs : q # p => setter'[q] = setter[q]
        BY <1>2, <2>0, <2>2, <3>1 DEF SetExecute
      <3>3. age'[server'] = 0
        BY <1>0, <3>2, TrackAges
      <3>4. FreshSetter(p)'
        BY <3>2, <3>3, Bounds DEF FreshSetter
      <3> QED BY <1>2, <2>2, <3>2, <3>4, KeepFresh DEF SetExecute
    <2>3. CASE SetResend(p)
      <3>1. [setter[p] EXCEPT !.st = "sent"] \in Setters
        BY <2>0, <2>3 DEF SetResend, Setters, Idle, Flight
      <3>2. server' \in Values /\ setter' \in [Procs -> Setters] /\ setter'[p].st # "replied"
            /\ \A q \in Procs : q # p => setter'[q] = setter[q]
        BY <1>2, <2>0, <2>3, <3>1 DEF SetResend, Setters, Idle, Flight
      <3> QED BY <1>2, <2>3, <3>2, KeepFresh DEF SetResend, FreshSetter
    <2>4. CASE SetReturn(p)
      <3>0. setter[p] \in [st : {"sent", "replied"}, server : Servers, left : 0 .. Timeout]
        BY <2>0, <2>4 DEF SetReturn, Setters, Idle, Flight
      <3>1. setter[p].server \in Values /\ setter[p].left \in 0 .. Timeout
        BY <3>0, Bounds
      <3>2. age[setter[p].server] \in 0 .. MaxAge
        BY <1>0, <3>1 DEF TypeOK
      <3>3. age[setter[p].server] <= Timeout
        BY <2>0, <2>4, <3>1, <3>2, Bounds DEF SetReturn, FreshSetter
      <3>4. /\ server' \in Values /\ cache'[p] = cacheServer(setter[p].server)
            /\ \A q \in Procs : q # p => cache'[q] = cache[q] /\ setter'[q] = setter[q]
        BY <1>2, <2>0, <2>4 DEF SetReturn
      <3>5. FreshEntry(p)' /\ cacheServer(setter[p].server) \in Entries
        BY <2>0, <3>1, <3>3, <3>4, CacheFresh
      <3>6. cache' \in [Procs -> Entries]
        BY <1>2, <2>4, <3>5 DEF SetReturn
      <3>7. Flight("publish", NoServer, Timeout) \in Setters
        BY Bounds DEF Flight, Setters
      <3>8. setter' \in [Procs -> Setters] /\ setter'[p].st # "replied"
        BY <1>2, <2>0, <2>4, <3>7 DEF SetReturn, Flight
      <3> QED BY <1>2, <2>4, <3>4, <3>5, <3>6, <3>8, KeepFresh DEF SetReturn, FreshSetter
    <2>5. CASE SetFail(p)
      <3>1. setter[p].server \in Servers
        BY <2>0, <2>5 DEF SetFail, Setters, Idle, Flight
      <3>2. server' \in Values /\ setter' \in [Procs -> Setters] /\ setter'[p].st # "replied"
            /\ \A q \in Procs : q # p => setter'[q] = setter[q]
        BY <1>2, <2>0, <2>5 DEF SetFail, Setters, Idle, Flight
      <3>3. late' \subseteq late \cup {setter[p].server} /\ UNCHANGED <<server, cache, inbox>>
        BY <2>5 DEF SetFail
      <3> QED BY <1>2, <3>1, <3>2, <3>3, KeepFresh DEF FreshSetter
    <2>6. CASE PublishInvalidation(p)
      <3>1. Idle \in Setters /\ Idle.st # "replied"
        BY DEF Setters, Idle, Flight
      <3>2. inbox' \in [Procs -> 0 .. MaxInbox]
        <4>1. MaxInbox \in Nat
          BY ServerStoreAssumption
        <4>2. \A q \in Procs : Min({inbox[q] + 1, MaxInbox}) \in 0 .. MaxInbox
          BY <1>2, <4>1, MinOfTwo
        <4> QED BY <1>2, <2>6, <4>2 DEF PublishInvalidation
      <3>3. setter' \in [Procs -> Setters] /\ setter'[p].st # "replied"
            /\ \A q \in Procs : q # p => setter'[q] = setter[q]
        BY <1>2, <2>0, <2>6, <3>1 DEF PublishInvalidation
      <3> QED BY <1>2, <2>6, <3>2, <3>3, KeepFresh DEF PublishInvalidation, FreshSetter
    <2> QED BY <1>4, <2>1, <2>2, <2>3, <2>4, <2>5, <2>6 DEF Set
  <1>5. ASSUME NEW p \in Procs, Invalidate(p) \/ LoseInvalidations(p) PROVE Good
    <2>1. inbox' \in [Procs -> 0 .. MaxInbox]
      BY <1>2, <1>5, ServerStoreAssumption DEF Invalidate, LoseInvalidations
    <2>2. /\ cache' \in [Procs -> Entries]
          /\ \A q \in Procs : cache'[q] \in {cache[q], NoEntry}
      BY <1>2, <1>5 DEF Invalidate, LoseInvalidations, Entries
    <2>3. server' \in Values /\ late' \subseteq Servers /\ setter' = setter
      BY <1>2, <1>5 DEF Invalidate, LoseInvalidations
    <2>4. \A q \in Procs : FreshEntry(q)' /\ FreshSetter(q)'
      BY <2>2, <2>3, KeepFresh DEF FreshEntry
    <2> QED BY <1>2, <2>1, <2>2, <2>3, <2>4
  <1>6. ASSUME NEW v \in Servers, ExecuteLate(v) \/ LoseLate(v) PROVE Good
    <2>1. server' \in Values /\ late' \subseteq Servers /\ UNCHANGED <<cache, setter, inbox>>
      BY <1>2, <1>6, Bounds DEF ExecuteLate, LoseLate
    <2> QED BY <1>2, <2>1, KeepFresh
  <1> QED BY <1>3, <1>4, <1>5, <1>6 DEF Write

\* The steps of GetActorServer.
LEMMA LookupStale ==
    ASSUME StaleInv, NEW p \in Readers, Lookup(p),
           UNCHANGED <<server, late, setter, inbox, subscribed>>, Track(0)
    PROVE  StaleInv'
  <1>0. TypeOK /\ age[server] = 0
        /\ \A q \in Procs : FreshEntry(q) /\ FreshFlight(q) /\ FreshSetter(q)
    BY StaleParts
  <1>1. p \in Procs
    BY ServerStoreAssumption
  <1>2. /\ cache \in [Procs -> Entries] /\ setter \in [Procs -> Setters]
        /\ flight \in [Procs -> Flights] /\ server' \in Values
    BY <1>0 DEF TypeOK, Entries, Setters, Flights
  <1>3. age' \in [Values -> 0 .. MaxAge] /\ age'[server'] = 0
    BY <1>0, <1>2, TrackAges
  <1> DEFINE Good == /\ cache' \in [Procs -> Entries] /\ flight' \in [Procs -> Flights]
                     /\ FreshEntry(p)' /\ FreshFlight(p)'
                     /\ \A q \in Procs : q # p => cache'[q] = cache[q] /\ flight'[q] = flight[q]
  <1>4. ASSUME Good PROVE StaleInv'
    <2>1. TypeOK'
      BY <1>0, <1>3, <1>4 DEF TypeOK, Entries, Setters, Flights
    <2>2. \A q \in Procs : FreshEntry(q)' /\ FreshFlight(q)' /\ FreshSetter(q)'
      BY <1>2, <1>4, KeepFresh
    <2> QED BY <1>3, <2>1, <2>2 DEF StaleInv, FreshEntry, FreshFlight, FreshSetter
  <1>5. flight[p] \in Flights /\ FreshFlight(p)
    BY <1>0, <1>1, <1>2
  <1>6. CASE GetActorServer(p)
    <2>1. Flight("sent", NoServer, Timeout) \in Flights
      BY Bounds DEF Flight, Flights
    <2>2. flight' \in [Procs -> Flights] /\ flight'[p].st # "replied" /\ cache' = cache
          /\ \A q \in Procs : q # p => flight'[q] = flight[q]
      BY <1>1, <1>2, <1>6, <2>1 DEF GetActorServer, Flight
    <2> QED BY <1>1, <1>2, <1>4, <2>2, KeepFresh DEF FreshFlight
  <1>7. CASE LookupExecute(p)
    <2>0. flight[p] \in [st : {"sent", "replied"}, server : Values, left : 0 .. Timeout]
      BY <1>5, <1>7 DEF LookupExecute, Flights, Idle, Flight
    <2>1. /\ [flight[p] EXCEPT !.st = "replied", !.server = server] \in Flights
          /\ flight[p].left \in 0 .. Timeout
      BY <1>0, <2>0 DEF Flights, TypeOK
    <2>2. /\ flight' \in [Procs -> Flights] /\ cache' = cache
          /\ \A q \in Procs : q # p => flight'[q] = flight[q]
      BY <1>1, <1>2, <1>7, <2>1 DEF LookupExecute
    <2>3. flight'[p].server = server' /\ flight'[p].left = flight[p].left
      BY <1>1, <1>2, <1>5, <1>7 DEF LookupExecute, Flights, Idle, Flight
    <2>4. FreshFlight(p)'
      BY <1>3, <2>1, <2>3, Bounds DEF FreshFlight
    <2> QED BY <1>1, <1>2, <1>4, <2>2, <2>4, KeepFresh
  <1>8. CASE LookupResend(p)
    <2>0. flight[p] \in [st : {"sent", "replied"}, server : Values, left : 0 .. Timeout]
      BY <1>5, <1>8 DEF LookupResend, Flights, Idle, Flight
    <2>1. [flight[p] EXCEPT !.st = "sent", !.server = NoServer] \in Flights
      BY <2>0, Bounds DEF Flights
    <2>2. flight' \in [Procs -> Flights] /\ flight'[p].st # "replied" /\ cache' = cache
          /\ \A q \in Procs : q # p => flight'[q] = flight[q]
      BY <1>1, <1>2, <1>5, <1>8, <2>1 DEF LookupResend, Flights, Idle, Flight
    <2> QED BY <1>1, <1>2, <1>4, <2>2, KeepFresh DEF FreshFlight
  <1>9. CASE LookupReturn(p)
    <2>1. flight[p].server \in Values /\ flight[p].left \in 0 .. Timeout
      BY <1>5, <1>9 DEF LookupReturn, Flights, Idle, Flight
    <2>2. age[flight[p].server] \in 0 .. MaxAge
      BY <1>0, <2>1 DEF TypeOK
    <2>3. age[flight[p].server] <= Timeout
      BY <1>5, <1>9, <2>1, <2>2, Bounds DEF LookupReturn, FreshFlight
    <2>4. FreshEntry(p)' /\ cacheServer(flight[p].server) \in Entries
      <3>1. cache'[p] = cacheServer(flight[p].server)
        BY <1>1, <1>2, <1>9 DEF LookupReturn
      <3> QED BY <1>1, <1>2, <2>1, <2>3, <3>1, CacheFresh
    <2>5. Idle \in Flights /\ Idle.st # "replied"
      BY DEF Flights, Idle, Flight
    <2>6. cache' \in [Procs -> Entries] /\ flight' \in [Procs -> Flights]
          /\ flight'[p].st # "replied"
          /\ \A q \in Procs : q # p => cache'[q] = cache[q] /\ flight'[q] = flight[q]
      BY <1>1, <1>2, <1>9, <2>4, <2>5 DEF LookupReturn
    <2> QED BY <1>4, <2>4, <2>6 DEF FreshFlight
  <1>10. CASE LookupFail(p)
    <2>1. Idle \in Flights /\ Idle.st # "replied"
      BY DEF Flights, Idle, Flight
    <2>2. flight' \in [Procs -> Flights] /\ flight'[p].st # "replied" /\ cache' = cache
          /\ \A q \in Procs : q # p => flight'[q] = flight[q]
      BY <1>1, <1>2, <1>10, <2>1 DEF LookupFail
    <2> QED BY <1>1, <1>2, <1>4, <2>2, KeepFresh DEF FreshFlight
  <1> QED BY <1>6, <1>7, <1>8, <1>9, <1>10 DEF Lookup

\* Time passes: ages grow by what entries and calls lose.
LEMMA TickStale ==
    ASSUME StaleInv, Tick, Track(1), UNCHANGED subscribed
    PROVE  StaleInv'
  <1>0. TypeOK /\ age[server] = 0
        /\ \A q \in Procs : FreshEntry(q) /\ FreshFlight(q) /\ FreshSetter(q)
    BY StaleParts
  <1>1. /\ cache \in [Procs -> Entries] /\ setter \in [Procs -> Setters]
        /\ flight \in [Procs -> Flights] /\ server' \in Values
    BY <1>0 DEF TypeOK, Entries, Setters, Flights, Tick
  <1>2. /\ age' \in [Values -> 0 .. MaxAge] /\ age'[server'] = 0
        /\ \A v \in Values : age'[v] <= age[v] + 1
    BY <1>0, <1>1, TrackAges
  <1>3. \A v \in Values : age[v] \in Int /\ age'[v] \in Int
    BY <1>0, <1>2, Bounds DEF TypeOK
  <1>4. ASSUME NEW p \in Procs
        PROVE  CountDownEntry(cache[p]) \in Entries /\ FreshEntry(p)'
    <2>1. cache'[p] = CountDownEntry(cache[p]) /\ cache[p] \in Entries /\ FreshEntry(p)
      BY <1>0, <1>1 DEF Tick
    <2>2. CASE cache[p].left <= 1
      BY <2>1, <2>2 DEF CountDownEntry, Entries, FreshEntry
    <2>3. CASE ~(cache[p].left <= 1)
      <3>1. cache[p] # NoEntry /\ cache[p] \in [server : Values, left : 1 .. LocalCacheTTL]
        BY <2>1, <2>3 DEF Entries, NoEntry
      <3>2. PICK e : e = [cache[p] EXCEPT !.left = cache[p].left - 1]
        OBVIOUS
      <3>3. e \in Entries /\ e.server = cache[p].server /\ e.left = cache[p].left - 1
            /\ cache'[p] = e
        BY <2>1, <2>3, <3>1, <3>2, Bounds DEF Entries, CountDownEntry
      <3> QED BY <1>2, <1>3, <2>1, <3>1, <3>3, Bounds DEF FreshEntry
    <2> QED BY <2>2, <2>3
  <1>5. ASSUME NEW p \in Procs
        PROVE  CountDown(flight[p]) \in Flights /\ FreshFlight(p)'
    <2>1. flight'[p] = CountDown(flight[p]) /\ flight[p] \in Flights /\ FreshFlight(p)
          /\ (flight[p].st # "idle" => flight[p].left > 0)
      BY <1>0, <1>1 DEF Tick
    <2>2. CASE flight[p].st = "idle"
      BY <2>1, <2>2 DEF CountDown, FreshFlight
    <2>3. CASE flight[p].st # "idle"
      <3>1. flight[p] \in [st : {"sent", "replied"}, server : Values, left : 1 .. Timeout]
        BY <2>1, <2>3, Bounds DEF Flights, Idle, Flight
      <3>2. PICK e : e = [flight[p] EXCEPT !.left = flight[p].left - 1]
        OBVIOUS
      <3>3. e \in Flights /\ e.server = flight[p].server /\ e.left = flight[p].left - 1
            /\ e.st = flight[p].st /\ flight'[p] = e
        BY <2>1, <2>3, <3>1, <3>2, Bounds DEF Flights, CountDown
      <3> QED BY <1>2, <1>3, <2>1, <3>1, <3>3, Bounds DEF FreshFlight
    <2> QED BY <2>2, <2>3
  <1>6. ASSUME NEW p \in Procs
        PROVE  CountDown(setter[p]) \in Setters /\ FreshSetter(p)'
    <2>1. setter'[p] = CountDown(setter[p]) /\ setter[p] \in Setters /\ FreshSetter(p)
          /\ (setter[p].st # "idle" => setter[p].left > 0)
      BY <1>0, <1>1 DEF Tick
    <2>2. CASE setter[p].st = "idle"
      BY <2>1, <2>2 DEF CountDown, FreshSetter
    <2>3. CASE setter[p].st # "idle"
      <3>1. setter[p] \in [st : {"sent", "replied"}, server : Servers, left : 1 .. Timeout]
                            \cup [st : {"publish"}, server : {NoServer}, left : 1 .. Timeout]
        BY <2>1, <2>3, Bounds DEF Setters, Idle, Flight
      <3>2. PICK e : e = [setter[p] EXCEPT !.left = setter[p].left - 1]
        OBVIOUS
      <3>3. e \in Setters /\ e.server = setter[p].server /\ e.left = setter[p].left - 1
            /\ e.st = setter[p].st /\ setter'[p] = e
        BY <2>1, <2>3, <3>1, <3>2, Bounds DEF Setters, CountDown
      <3>4. setter[p].server \in Values /\ setter[p].left \in Int
        BY <3>1, Bounds
      <3> QED BY <1>2, <1>3, <2>1, <3>3, <3>4, Bounds DEF FreshSetter
    <2> QED BY <2>2, <2>3
  <1>7. TypeOK'
    <2>1. /\ cache' \in [Procs -> Entries] /\ flight' \in [Procs -> Flights]
          /\ setter' \in [Procs -> Setters]
      BY <1>4, <1>5, <1>6 DEF Tick
    <2> QED BY <1>0, <1>2, <2>1 DEF TypeOK, Entries, Setters, Flights, Tick
  <1> QED BY <1>2, <1>4, <1>5, <1>6, <1>7 DEF StaleInv, FreshEntry, FreshFlight, FreshSetter

LEMMA StaleStep == StaleInv /\ [Next]_vars => StaleInv'
  <1> SUFFICES ASSUME StaleInv, [Next]_vars PROVE StaleInv'
    OBVIOUS
  <1>1. CASE UNCHANGED vars
    BY <1>1 DEF StaleInv, TypeOK, vars
  <1>2. CASE Next
    BY <1>2, WriteStale, LookupStale, TickStale DEF Next
  <1> QED BY <1>1, <1>2

\* What is cached, or on its way into a cache, is as old as the time it has used up at
\* most, in every process and whatever is resent, late or lost.
THEOREM StoreStaleInvariant == Spec => []StaleInv
  BY StaleInit, StaleStep, PTL DEF Spec

\* A server answered from the cache of GetActorServer was in Redis less than
\* LocalCacheTTL + serverStoreTimeout ago, also when no invalidation ever arrives.
THEOREM StoreBoundedStaleness == Spec => []BoundedStaleness
  <1>1. StaleInv => BoundedStaleness
    <2> SUFFICES ASSUME StaleInv, NEW p \in Procs, cache[p] # NoEntry
                 PROVE  age[cache[p].server] < MaxAge
      BY DEF BoundedStaleness
    <2>1. cache[p].server \in Values /\ cache[p].left \in 1 .. LocalCacheTTL
      BY DEF StaleInv, TypeOK
    <2>2. age[cache[p].server] \in 0 .. MaxAge /\ age[cache[p].server] + cache[p].left <= MaxAge
      BY <2>1 DEF StaleInv, TypeOK
    <2> QED BY <2>1, <2>2, Bounds
  <1> QED BY <1>1, StoreStaleInvariant, PTL

=============================================================================
