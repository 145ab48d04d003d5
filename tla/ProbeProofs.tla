------------------------------ MODULE ProbeProofs ------------------------------
(* Proofs about the readiness probe, for any number of handlers and checkers    *)
(* and any TTL and time limit: how old what an answer rests on may be.          *)
EXTENDS Probe, TLAPS

-----------------------------------------------------------------------------
(* The inductive invariant.                                                    *)

Results == [Checkers -> {"none", "ok", "fail"}]
HandlerStates == [pc : {"idle", "age", "hit", "check", "store", "answered"}, left : 0..Timeout,
                  res : Results, todo : SUBSET {"ready", "ts"}, ready : BOOLEAN, late : BOOLEAN]
CacheStates == [ready : BOOLEAN, age : 0..MaxAge, late : BOOLEAN]

ProbeTypeOK ==
    /\ policy \in Policies /\ gate \in BOOLEAN
    /\ cached \in CacheStates
    /\ h \in [Handlers -> HandlerStates]
    /\ healthy \in [Checkers -> BOOLEAN]
    /\ since \in [Checkers -> Nat]
    /\ closed \in Nat

\* The histories know what is the case now.
NowOK ==
    /\ \A c \in Checkers : healthy[c] => since[c] = 0
    /\ gate => closed = 0

\* Every checker was fine at most t ticks ago.
AllWithin(t) == \A c \in Checkers : since[c] <= t

\* A handler that checks, and is in time, has used up at least the time that passed since
\* the gate was open, and since a checker that said ok was fine.
CheckOK(r) ==
    h[r].pc = "check" /\ ~h[r].late =>
        /\ closed + h[r].left <= Timeout
        /\ \A c \in Checkers : h[r].res[c] = "ok" => since[c] + h[r].left <= Timeout

\* A handler that looks at the cache does so in the tick in which the gate was open, and
\* what it has found young enough stays so.
LookOK(r) ==
    h[r].pc \in {"age", "hit"} =>
        policy = "Cached" /\ closed = 0 /\ (h[r].pc = "hit" => cached.age < CacheTTL)

\* A handler that stores a result does so in the tick in which the checks ended.
StoreOK(r) ==
    h[r].pc = "store" =>
        policy = "Cached" /\ (~h[r].late => closed <= Timeout /\ (h[r].ready => AllWithin(Timeout)))

\* What an answer says, but for what it was told by the cache.
AnswerOK(r) ==
    Ready(r) /\ ~h[r].late => closed <= Timeout /\ (policy = "AlwaysCheck" => AllWithin(Timeout))

\* A handler that has stored ready and not yet ts shares the cache with results of this
\* tick alone, and an answer out of the cache is as good as the cache was.
SharesOK(r) ==
    Ordered =>
        /\ h[r].pc = "store" /\ "ready" \notin h[r].todo /\ cached.ready /\ ~cached.late
              => AllWithin(Timeout)
        /\ Ready(r) /\ ~h[r].late /\ policy = "Cached" => \A c \in Checkers : since[c] < MaxAge

HandlerOK(r) == CheckOK(r) /\ LookOK(r) /\ StoreOK(r) /\ AnswerOK(r) /\ SharesOK(r)

\* The cache is as good as its age says, also where handlers overwrite each other's
\* result.
CacheOK ==
    Ordered /\ cached.ready /\ ~cached.late /\ cached.age < CacheTTL => AllWithin(cached.age + Timeout)

ProbeInv ==
    /\ ProbeTypeOK
    /\ NowOK
    /\ CacheOK
    /\ \A r \in Handlers : HandlerOK(r)

\* The clock of a history stops at MaxAge, which is more than the TTL and the limit.
LEMMA OlderBounds ==
    ASSUME NEW n \in Nat
    PROVE  /\ MaxAge \in Nat /\ CacheTTL < MaxAge /\ Timeout < MaxAge
           /\ Older(n) \in 0..MaxAge /\ Older(n) <= n + 1
           /\ Older(n) < CacheTTL => Older(n) = n + 1
  <1>1. MaxAge \in Nat /\ CacheTTL < MaxAge /\ Timeout < MaxAge
    BY ProbeAssumption DEF MaxAge
  <1>2. Older(n) = IF n + 1 <= MaxAge THEN n + 1 ELSE MaxAge
    BY <1>1 DEF Older, Min
  <1> QED BY <1>1, <1>2, ProbeAssumption

LEMMA ProbeInit == Init => ProbeInv
  <1> SUFFICES ASSUME Init PROVE ProbeInv
    OBVIOUS
  <1>1. MaxAge \in Nat /\ CacheTTL < MaxAge
    BY ProbeAssumption DEF MaxAge
  <1>2. [c \in Checkers |-> "none"] \in Results
    BY DEF Results
  <1>3. Idle \in HandlerStates
    BY <1>2, ProbeAssumption DEF Idle, Handler, HandlerStates
  <1>4. ProbeTypeOK
    <2>1. since \in [Checkers -> Nat]
      BY <1>1 DEF Init
    <2>2. h \in [Handlers -> HandlerStates]
      BY <1>3 DEF Init
    <2>3. cached \in CacheStates
      BY <1>1 DEF Init, CacheStates
    <2> QED BY <1>1, <2>1, <2>2, <2>3 DEF Init, ProbeTypeOK
  <1>5. NowOK /\ CacheOK
    BY DEF Init, NowOK, CacheOK
  <1>6. \A r \in Handlers : h[r].pc = "idle"
    BY DEF Init, Idle, Handler
  <1> QED BY <1>4, <1>5, <1>6
       DEF ProbeInv, HandlerOK, CheckOK, LookOK, StoreOK, AnswerOK, SharesOK, Ready

-----------------------------------------------------------------------------
(* The steps of a handler.                                                     *)

\* A step that changes one handler alone.
LEMMA OneHandler ==
    ASSUME ProbeInv, UNCHANGED <<policy, gate, cached, healthy, since, closed>>,
           NEW r \in Handlers, NEW g \in HandlerStates, h' = [h EXCEPT ![r] = g],
           h'[r] = g => HandlerOK(r)'
    PROVE  ProbeInv'
  <1>1. ProbeTypeOK /\ NowOK /\ CacheOK /\ \A x \in Handlers : HandlerOK(x)
    BY DEF ProbeInv
  <1>2. h'[r] = g /\ \A x \in Handlers : x # r => h'[x] = h[x]
    BY <1>1 DEF ProbeTypeOK
  <1>3. ProbeTypeOK' /\ NowOK' /\ CacheOK'
    BY <1>1 DEF ProbeTypeOK, NowOK, CacheOK, AllWithin
  <1>4. ASSUME NEW x \in Handlers, x # r PROVE HandlerOK(x)'
    <2>1. HandlerOK(x) /\ h'[x] = h[x]
      BY <1>1, <1>2, <1>4
    <2> QED BY <2>1
         DEF HandlerOK, CheckOK, LookOK, StoreOK, AnswerOK, SharesOK, Ready, AllWithin
  <1> QED BY <1>2, <1>3, <1>4 DEF ProbeInv

\* What a handler can become.
LEMMA HandlerTypes ==
    /\ [c \in Checkers |-> "none"] \in Results
    /\ runChecks \in HandlerStates
    /\ \A ready, late \in BOOLEAN : Answer(ready, late) \in HandlerStates
                                    /\ Result(ready, late) \in HandlerStates
    /\ \A pc \in {"age", "hit"} : [Idle EXCEPT !.pc = pc] \in HandlerStates
    /\ Idle \in HandlerStates
  <1>1. [c \in Checkers |-> "none"] \in Results /\ 0 \in 0..Timeout /\ Timeout \in 0..Timeout
    BY ProbeAssumption DEF Results
  <1> QED BY <1>1 DEF runChecks, Answer, Result, Idle, Handler, HandlerStates

LEMMA ReadyzOK == ASSUME ProbeInv, NEW r \in Handlers, Readyz(r) PROVE ProbeInv'
  <1>1. PICK g : g = IF ~gate THEN Answer(FALSE, FALSE)
                     ELSE CASE policy = "GateOnly" -> Answer(TRUE, FALSE)
                            [] policy = "Cached"   -> [Idle EXCEPT !.pc = "age"]
                            [] OTHER               -> runChecks
    OBVIOUS
  <1>2. h' = [h EXCEPT ![r] = g] /\ UNCHANGED <<policy, gate, cached, healthy, since, closed>>
    BY <1>1 DEF Readyz, Goto
  <1>3. gate => closed = 0
    BY DEF ProbeInv, NowOK
  <1>4. CASE ~gate
    <2>1. g = Answer(FALSE, FALSE) /\ g \in HandlerStates
      BY <1>1, <1>4, HandlerTypes
    <2>2. h'[r] = g => HandlerOK(r)'
      BY <2>1 DEF Answer, Handler, HandlerOK, CheckOK, LookOK, StoreOK, AnswerOK, SharesOK, Ready
    <2> QED BY <1>2, <2>1, <2>2, OneHandler
  <1>5. CASE gate /\ policy = "GateOnly"
    <2>1. g = Answer(TRUE, FALSE) /\ g \in HandlerStates
      BY <1>1, <1>5, HandlerTypes
    <2>2. h'[r] = g => HandlerOK(r)'
      BY <1>2, <1>3, <1>5, <2>1, ProbeAssumption
         DEF Answer, Handler, HandlerOK, CheckOK, LookOK, StoreOK, AnswerOK, SharesOK, Ready
    <2> QED BY <1>2, <2>1, <2>2, OneHandler
  <1>6. CASE gate /\ policy = "Cached"
    <2>1. g = [Idle EXCEPT !.pc = "age"] /\ g \in HandlerStates
      BY <1>1, <1>6, HandlerTypes
    <2>2. h'[r] = g => HandlerOK(r)'
      BY <1>2, <1>3, <1>6, <2>1
         DEF Idle, Handler, HandlerOK, CheckOK, LookOK, StoreOK, AnswerOK, SharesOK, Ready
    <2> QED BY <1>2, <2>1, <2>2, OneHandler
  <1>7. CASE gate /\ policy \notin {"GateOnly", "Cached"}
    <2>1. g = runChecks /\ g \in HandlerStates
      BY <1>1, <1>7, HandlerTypes
    <2>2. h'[r] = g => HandlerOK(r)'
      BY <1>2, <1>3, <1>7, <2>1, ProbeAssumption
         DEF runChecks, Handler, HandlerOK, CheckOK, LookOK, StoreOK, AnswerOK, SharesOK, Ready
    <2> QED BY <1>2, <2>1, <2>2, OneHandler
  <1> QED BY <1>4, <1>5, <1>6, <1>7

LEMMA ReadTsOK == ASSUME ProbeInv, NEW r \in Handlers, ReadTs(r) PROVE ProbeInv'
  <1>1. PICK g : g = IF cached.age < CacheTTL THEN [Idle EXCEPT !.pc = "hit"] ELSE runChecks
    OBVIOUS
  <1>2. /\ h' = [h EXCEPT ![r] = g] /\ h[r].pc = "age"
        /\ UNCHANGED <<policy, gate, cached, healthy, since, closed>>
    BY <1>1 DEF ReadTs, Goto
  <1>3. policy = "Cached" /\ closed = 0
    BY <1>2 DEF ProbeInv, HandlerOK, LookOK
  <1>4. CASE cached.age < CacheTTL
    <2>1. g = [Idle EXCEPT !.pc = "hit"] /\ g \in HandlerStates
      BY <1>1, <1>4, HandlerTypes
    <2>2. h'[r] = g => HandlerOK(r)'
      BY <1>2, <1>3, <1>4, <2>1
         DEF Idle, Handler, HandlerOK, CheckOK, LookOK, StoreOK, AnswerOK, SharesOK, Ready
    <2> QED BY <1>2, <2>1, <2>2, OneHandler
  <1>5. CASE ~(cached.age < CacheTTL)
    <2>1. g = runChecks /\ g \in HandlerStates
      BY <1>1, <1>5, HandlerTypes
    <2>2. h'[r] = g => HandlerOK(r)'
      BY <1>2, <1>3, <2>1, ProbeAssumption
         DEF runChecks, Handler, HandlerOK, CheckOK, LookOK, StoreOK, AnswerOK, SharesOK, Ready
    <2> QED BY <1>2, <2>1, <2>2, OneHandler
  <1> QED BY <1>4, <1>5

LEMMA ReadReadyOK == ASSUME ProbeInv, NEW r \in Handlers, ReadReady(r) PROVE ProbeInv'
  <1>1. /\ h' = [h EXCEPT ![r] = Answer(cached.ready, cached.late)] /\ h[r].pc = "hit"
        /\ UNCHANGED <<policy, gate, cached, healthy, since, closed>>
    BY DEF ReadReady, Goto
  <1>2. policy = "Cached" /\ closed = 0 /\ cached.age < CacheTTL
    BY <1>1 DEF ProbeInv, HandlerOK, LookOK
  <1>3. /\ cached.ready \in BOOLEAN /\ cached.late \in BOOLEAN /\ cached.age \in Nat
        /\ since \in [Checkers -> Nat]
    BY ProbeAssumption DEF ProbeInv, ProbeTypeOK, CacheStates, MaxAge
  <1>4. Ordered /\ cached.ready /\ ~cached.late => \A c \in Checkers : since[c] < MaxAge
    BY <1>2, <1>3, ProbeAssumption DEF ProbeInv, CacheOK, AllWithin, MaxAge
  <1>5. ASSUME h'[r] = Answer(cached.ready, cached.late) PROVE HandlerOK(r)'
    BY <1>1, <1>2, <1>4, <1>5, ProbeAssumption
       DEF Answer, Handler, HandlerOK, CheckOK, LookOK, StoreOK, AnswerOK, SharesOK, Ready
  <1> QED BY <1>1, <1>3, <1>5, HandlerTypes, OneHandler

LEMMA CheckStepOK ==
    ASSUME ProbeInv, NEW r \in Handlers, NEW c \in Checkers, Check(r, c)
    PROVE  ProbeInv'
  <1>1. PICK v \in {"ok", "fail"} : h' = [h EXCEPT ![r].res[c] = v] /\ (v = "ok" => healthy[c])
    BY DEF Check
  <1>2. h[r].pc = "check" /\ UNCHANGED <<policy, gate, cached, healthy, since, closed>>
    BY DEF Check
  <1>3. PICK g : g = [h[r] EXCEPT !.res = [h[r].res EXCEPT ![c] = v]]
    OBVIOUS
  <1>4. h[r] \in HandlerStates /\ HandlerOK(r) /\ (v = "ok" => since[c] = 0)
    BY <1>1 DEF ProbeInv, ProbeTypeOK, NowOK
  <1>5. /\ g \in HandlerStates /\ g.pc = "check" /\ g.left = h[r].left /\ g.late = h[r].late
        /\ g.res = [h[r].res EXCEPT ![c] = v]
    BY <1>2, <1>3, <1>4 DEF HandlerStates, Results
  <1>6. h' = [h EXCEPT ![r] = g]
    BY <1>1, <1>3
  <1>7. \A x \in Checkers : ~g.late /\ g.res[x] = "ok" => since[x] + h[r].left <= Timeout
    <2> SUFFICES ASSUME NEW x \in Checkers, ~g.late, g.res[x] = "ok"
                 PROVE  since[x] + h[r].left <= Timeout
      OBVIOUS
    <2>1. CASE x = c
      BY <1>4, <1>5, <2>1, ProbeAssumption DEF HandlerStates, Results
    <2>2. CASE x # c
      <3>1. h[r].res[x] = "ok"
        BY <1>4, <1>5, <2>2 DEF HandlerStates, Results
      <3> QED BY <1>2, <1>4, <1>5, <3>1 DEF HandlerOK, CheckOK
    <2> QED BY <2>1, <2>2
  <1>8. ~g.late => closed + h[r].left <= Timeout
    BY <1>2, <1>4, <1>5 DEF HandlerOK, CheckOK
  <1>9. ASSUME h'[r] = g PROVE HandlerOK(r)'
    BY <1>2, <1>5, <1>7, <1>8, <1>9
       DEF HandlerOK, CheckOK, LookOK, StoreOK, AnswerOK, SharesOK, Ready
  <1> QED BY <1>2, <1>5, <1>6, <1>9, OneHandler

LEMMA CancelOK == ASSUME ProbeInv, NEW r \in Handlers, Cancel(r) PROVE ProbeInv'
  <1>1. PICK g : g = [h[r] EXCEPT !.left = 0]
    OBVIOUS
  <1>2. /\ h' = [h EXCEPT ![r] = g] /\ h[r].pc = "check"
        /\ UNCHANGED <<policy, gate, cached, healthy, since, closed>>
    BY <1>1 DEF Cancel
  <1>3. /\ h[r] \in HandlerStates /\ HandlerOK(r) /\ closed \in Nat /\ since \in [Checkers -> Nat]
    BY DEF ProbeInv, ProbeTypeOK
  <1>4. /\ g \in HandlerStates /\ g.pc = "check" /\ g.left = 0 /\ g.res = h[r].res
        /\ g.late = h[r].late
    BY <1>1, <1>2, <1>3, ProbeAssumption DEF HandlerStates
  <1>5. h[r].left \in Nat
    BY <1>3, ProbeAssumption DEF HandlerStates
  <1>6. ~h[r].late =>
           closed + 0 <= Timeout /\ \A c \in Checkers : h[r].res[c] = "ok" => since[c] + 0 <= Timeout
    BY <1>2, <1>3, <1>5, ProbeAssumption DEF HandlerOK, CheckOK
  <1>7. ASSUME h'[r] = g PROVE HandlerOK(r)'
    BY <1>2, <1>4, <1>6, <1>7
       DEF HandlerOK, CheckOK, LookOK, StoreOK, AnswerOK, SharesOK, Ready
  <1> QED BY <1>2, <1>4, <1>7, OneHandler

\* All that said ok was fine when the handler began, or later.
LEMMA CheckedOK == ASSUME ProbeInv, NEW r \in Handlers, Checked(r) PROVE ProbeInv'
  <1>1. PICK ready \in BOOLEAN : ready <=> \A c \in Checkers : h[r].res[c] = "ok"
    OBVIOUS
  <1>2. /\ h' = [h EXCEPT ![r] = Result(\A c \in Checkers : h[r].res[c] = "ok", h[r].late)]
        /\ h[r].pc = "check"
        /\ UNCHANGED <<policy, gate, cached, healthy, since, closed>>
    BY DEF Checked, Goto
  <1>3. h' = [h EXCEPT ![r] = Result(ready, h[r].late)]
    <2>1. ready = (\A c \in Checkers : h[r].res[c] = "ok")
      BY <1>1
    <2> QED BY <1>2, <2>1
  <1>4. h[r] \in HandlerStates /\ HandlerOK(r) /\ closed \in Nat /\ since \in [Checkers -> Nat]
    BY DEF ProbeInv, ProbeTypeOK
  <1>5. h[r].left \in Nat /\ h[r].late \in BOOLEAN
    BY <1>4, ProbeAssumption DEF HandlerStates
  <1>6. ~h[r].late => closed <= Timeout /\ (ready => AllWithin(Timeout))
    BY <1>1, <1>2, <1>4, <1>5, ProbeAssumption DEF HandlerOK, CheckOK, AllWithin
  <1>7. AllWithin(Timeout)' <=> AllWithin(Timeout)
    BY <1>2 DEF AllWithin
  <1>8. UNCHANGED <<policy, cached, since, closed>>
    BY <1>2
  <1>9. CASE policy = "Cached"
    <2>1. Result(ready, h[r].late) = Handler("store", 0, {"ready", "ts"}, ready, h[r].late)
      BY <1>9 DEF Result
    <2>2. h'[r] = Result(ready, h[r].late) => HandlerOK(r)'
      BY <1>6, <1>7, <1>8, <1>9, <2>1
         DEF Handler, HandlerOK, CheckOK, LookOK, StoreOK, AnswerOK, SharesOK, Ready
    <2> QED BY <1>2, <1>3, <1>5, <2>2, HandlerTypes, OneHandler
  <1>10. CASE policy # "Cached"
    <2>1. Result(ready, h[r].late) = Answer(ready, h[r].late)
      BY <1>10 DEF Result
    <2>2. h'[r] = Result(ready, h[r].late) => HandlerOK(r)'
      BY <1>6, <1>7, <1>8, <1>10, <2>1
         DEF Answer, Handler, HandlerOK, CheckOK, LookOK, StoreOK, AnswerOK, SharesOK, Ready
    <2> QED BY <1>2, <1>3, <1>5, <2>2, HandlerTypes, OneHandler
  <1> QED BY <1>9, <1>10

LEMMA WrittenOK == ASSUME ProbeInv, NEW r \in Handlers, Written(r) PROVE ProbeInv'
  <1>1. h' = [h EXCEPT ![r] = Idle] /\ UNCHANGED <<policy, gate, cached, healthy, since, closed>>
    BY DEF Written, Goto
  <1>2. h'[r] = Idle => HandlerOK(r)'
    BY DEF Idle, Handler, HandlerOK, CheckOK, LookOK, StoreOK, AnswerOK, SharesOK, Ready
  <1> QED BY <1>1, <1>2, HandlerTypes, OneHandler

\* A result overwrites ready before ts, and both in the tick in which its checks ended.
LEMMA StoreStepOK ==
    ASSUME ProbeInv, NEW r \in Handlers, NEW field \in {"ready", "ts"}, Store(r, field)
    PROVE  ProbeInv'
  <1>1. PICK g : g = IF h[r].todo = {field} THEN Answer(h[r].ready, h[r].late)
                     ELSE [h[r] EXCEPT !.todo = h[r].todo \ {field}]
    OBVIOUS
  <1>2. /\ h[r].pc = "store" /\ field \in h[r].todo /\ h' = [h EXCEPT ![r] = g]
        /\ Ordered /\ field = "ts" => "ready" \notin h[r].todo
        /\ cached' = IF field = "ready" THEN [cached EXCEPT !.ready = h[r].ready, !.late = h[r].late]
                                        ELSE [cached EXCEPT !.age = 0]
        /\ UNCHANGED <<policy, gate, healthy, since, closed>>
    BY <1>1 DEF Store
  <1>3. ProbeTypeOK /\ NowOK /\ CacheOK /\ \A x \in Handlers : HandlerOK(x)
    BY DEF ProbeInv
  <1>4. /\ h[r] \in HandlerStates /\ since \in [Checkers -> Nat]
        /\ cached \in CacheStates /\ MaxAge \in Nat
        /\ Timeout \in Nat /\ CacheTTL \in Nat \ {0} /\ Timeout < MaxAge
    BY <1>3, ProbeAssumption DEF ProbeTypeOK, MaxAge
  <1>5. /\ g \in HandlerStates /\ g.ready = h[r].ready /\ g.late = h[r].late
        /\ (g.pc = "answered" \/ (g.pc = "store" /\ g.todo = h[r].todo \ {field}))
    <2>1. CASE h[r].todo = {field}
      BY <1>1, <1>4, <2>1, HandlerTypes DEF HandlerStates, Answer, Handler
    <2>2. CASE h[r].todo # {field}
      BY <1>1, <1>2, <1>4, <2>2 DEF HandlerStates
    <2> QED BY <2>1, <2>2
  <1>6. policy = "Cached" /\ (~h[r].late => closed <= Timeout /\ (h[r].ready => AllWithin(Timeout)))
    BY <1>2, <1>3 DEF HandlerOK, StoreOK
  <1>7. \A t \in Nat : AllWithin(t)' <=> AllWithin(t)
    BY <1>2 DEF AllWithin
  <1>8. /\ cached' \in CacheStates
        /\ field = "ready" => cached'.ready = h[r].ready /\ cached'.age = cached.age
                              /\ cached'.late = h[r].late
        /\ field = "ts" => cached'.ready = cached.ready /\ cached'.age = 0
                           /\ cached'.late = cached.late
    <2>1. CASE field = "ready"
      <3>1. cached' = [cached EXCEPT !.ready = h[r].ready, !.late = h[r].late]
        BY <1>2, <2>1
      <3>2. h[r].ready \in BOOLEAN /\ h[r].late \in BOOLEAN
        BY <1>4 DEF HandlerStates
      <3> QED BY <1>4, <2>1, <3>1, <3>2 DEF CacheStates
    <2>2. CASE field = "ts"
      <3>1. cached' = [cached EXCEPT !.age = 0]
        BY <1>2, <2>2
      <3>2. 0 \in 0..MaxAge
        BY <1>4
      <3> QED BY <1>4, <2>2, <3>1, <3>2 DEF CacheStates
    <2> QED BY <2>1, <2>2
  <1>9. Ordered /\ cached'.ready /\ ~cached'.late => AllWithin(Timeout)
    <2>1. CASE field = "ready"
      BY <1>6, <1>8, <2>1
    <2>2. CASE field = "ts"
      BY <1>2, <1>3, <1>8, <2>2 DEF HandlerOK, SharesOK
    <2> QED BY <2>1, <2>2
  <1>10. AllWithin(Timeout) => /\ \A c \in Checkers : since'[c] <= cached'.age + Timeout
                               /\ \A c \in Checkers : since[c] < MaxAge
    BY <1>2, <1>4, <1>8 DEF AllWithin, CacheStates
  <1>11. cached.age < CacheTTL => cached'.age < CacheTTL
    BY <1>4, <1>8, ProbeAssumption DEF CacheStates
  <1>12. ProbeTypeOK' /\ NowOK' /\ CacheOK'
    <2>1. h' \in [Handlers -> HandlerStates]
      BY <1>2, <1>3, <1>5 DEF ProbeTypeOK
    <2>2. ProbeTypeOK' /\ NowOK'
      BY <1>2, <1>3, <1>8, <2>1 DEF ProbeTypeOK, NowOK
    <2>3. CacheOK'
      BY <1>9, <1>10 DEF CacheOK, AllWithin
    <2> QED BY <2>2, <2>3
  <1>13. h'[r] = g /\ \A x \in Handlers : x # r => h'[x] = h[x]
    BY <1>2, <1>3 DEF ProbeTypeOK
  <1>14. AllWithin(Timeout)' <=> AllWithin(Timeout)
    BY <1>4, <1>7
  <1>15. HandlerOK(r)'
    <2>1. CASE g.pc = "answered"
      BY <1>2, <1>5, <1>6, <1>10, <1>13, <1>14, <2>1
         DEF HandlerOK, CheckOK, LookOK, StoreOK, AnswerOK, SharesOK, Ready
    <2>2. CASE g.pc = "store"
      BY <1>2, <1>5, <1>6, <1>9, <1>13, <1>14, <2>2
         DEF HandlerOK, CheckOK, LookOK, StoreOK, AnswerOK, SharesOK, Ready
    <2> QED BY <1>5, <2>1, <2>2
  <1>16. ASSUME NEW x \in Handlers, x # r PROVE HandlerOK(x)'
    <2>1. HandlerOK(x) /\ h'[x] = h[x]
      BY <1>3, <1>13, <1>16
    <2>2. CheckOK(x)' /\ StoreOK(x)' /\ AnswerOK(x)'
      BY <1>2, <1>14, <2>1 DEF HandlerOK, CheckOK, StoreOK, AnswerOK, Ready
    <2>3. LookOK(x)'
      BY <1>2, <1>11, <2>1 DEF HandlerOK, LookOK
    <2>4. SharesOK(x)'
      BY <1>2, <1>9, <1>14, <2>1 DEF HandlerOK, SharesOK, Ready
    <2> QED BY <2>2, <2>3, <2>4 DEF HandlerOK
  <1> QED BY <1>12, <1>15, <1>16 DEF ProbeInv

-----------------------------------------------------------------------------
(* The gate, the checkers and time.                                            *)

\* What opens the gate or changes a checker makes the histories younger alone.
LEMMA YoungerOK ==
    ASSUME ProbeInv, UNCHANGED <<policy, cached, h>>, ProbeTypeOK', NowOK',
           closed' <= closed, \A c \in Checkers : since'[c] <= since[c]
    PROVE  ProbeInv'
  <1>1. /\ ProbeTypeOK /\ CacheOK /\ \A r \in Handlers : HandlerOK(r)
    BY DEF ProbeInv
  <1>2. /\ Timeout \in Nat /\ MaxAge \in Nat /\ cached.age \in Nat /\ closed \in Nat /\ closed' \in Nat
        /\ \A c \in Checkers : since[c] \in Nat /\ since'[c] \in Nat
    BY <1>1, ProbeAssumption DEF ProbeTypeOK, MaxAge, CacheStates
  <1>3. \A t \in Nat : AllWithin(t) => AllWithin(t)'
    BY <1>2 DEF AllWithin
  <1>4. CacheOK'
    <2>1. AllWithin(cached.age + Timeout) => \A c \in Checkers : since'[c] <= cached.age + Timeout
      BY <1>2 DEF AllWithin
    <2> QED BY <1>1, <2>1 DEF CacheOK, AllWithin
  <1>5. ASSUME NEW r \in Handlers PROVE HandlerOK(r)'
    <2>1. HandlerOK(r) /\ h'[r] = h[r] /\ h[r].left \in Nat
      BY <1>1, ProbeAssumption DEF ProbeTypeOK, HandlerStates
    <2>2. AllWithin(Timeout) => AllWithin(Timeout)'
      BY <1>2, <1>3
    <2>3. CheckOK(r)'
      BY <1>2, <2>1 DEF HandlerOK, CheckOK
    <2>4. LookOK(r)' /\ StoreOK(r)' /\ AnswerOK(r)'
      BY <1>2, <2>1, <2>2 DEF HandlerOK, LookOK, StoreOK, AnswerOK, Ready
    <2>5. SharesOK(r)'
      <3>1. (\A c \in Checkers : since[c] < MaxAge) => \A c \in Checkers : since'[c] < MaxAge
        BY <1>2
      <3> QED BY <2>1, <2>2, <3>1 DEF HandlerOK, SharesOK, Ready
    <2> QED BY <2>3, <2>4, <2>5 DEF HandlerOK
  <1> QED BY <1>4, <1>5 DEF ProbeInv

LEMMA SetReadyOK == ASSUME ProbeInv, NEW ready \in BOOLEAN, SetReady(ready) PROVE ProbeInv'
  <1>1. ProbeTypeOK /\ NowOK /\ closed \in Nat
    BY DEF ProbeInv, ProbeTypeOK
  <1>2. /\ gate' = ready /\ closed' \in Nat /\ closed' <= closed /\ (ready => closed' = 0)
        /\ UNCHANGED <<policy, cached, h, healthy, since>>
    BY <1>1 DEF SetReady
  <1>3. ProbeTypeOK' /\ NowOK'
    BY <1>1, <1>2 DEF ProbeTypeOK, NowOK
  <1>4. \A c \in Checkers : since'[c] <= since[c]
    BY <1>1, <1>2 DEF ProbeTypeOK
  <1> QED BY <1>2, <1>3, <1>4, YoungerOK

LEMMA ChangeOK == ASSUME ProbeInv, NEW c \in Checkers, Change(c) PROVE ProbeInv'
  <1>1. ProbeTypeOK /\ NowOK
    BY DEF ProbeInv
  <1>2. /\ healthy' = [healthy EXCEPT ![c] = ~healthy[c]] /\ since' = [since EXCEPT ![c] = 0]
        /\ UNCHANGED <<policy, gate, cached, h, closed>>
    BY DEF Change
  <1>3. ProbeTypeOK'
    BY <1>1, <1>2 DEF ProbeTypeOK
  <1>4. NowOK'
    BY <1>1, <1>2 DEF ProbeTypeOK, NowOK
  <1>5. closed' <= closed /\ \A x \in Checkers : since'[x] <= since[x]
    BY <1>1, <1>2 DEF ProbeTypeOK
  <1> QED BY <1>2, <1>3, <1>4, <1>5, YoungerOK

\* A tick that passes for a check is taken from what is left of it.
LEMMA TickOK == ASSUME ProbeInv, Tick PROVE ProbeInv'
  <1>1. ProbeTypeOK /\ NowOK /\ CacheOK /\ \A r \in Handlers : HandlerOK(r)
    BY DEF ProbeInv
  <1>2. /\ cached' = [cached EXCEPT !.age = Older(cached.age)]
        /\ since' = [c \in Checkers |-> IF healthy[c] THEN 0 ELSE Older(since[c])]
        /\ closed' = IF gate THEN 0 ELSE Older(closed)
        /\ UNCHANGED <<policy, gate, healthy>>
    BY DEF Tick
  <1>3. /\ Timeout \in Nat /\ closed \in Nat /\ cached.age \in 0..MaxAge /\ cached.age \in Nat
        /\ since \in [Checkers -> Nat] /\ MaxAge \in Nat
    BY <1>1, ProbeAssumption DEF ProbeTypeOK, MaxAge, CacheStates
  <1>4. /\ closed' \in Nat /\ closed' <= closed + 1
        /\ \A c \in Checkers : since'[c] \in Nat /\ since'[c] <= since[c] + 1
    BY <1>2, <1>3, OlderBounds
  <1>5. /\ cached' \in CacheStates /\ cached'.ready = cached.ready /\ cached'.late = cached.late
        /\ cached'.age < CacheTTL => cached'.age = cached.age + 1
    <2>1. cached'.age = Older(cached.age) /\ cached'.ready = cached.ready
          /\ cached'.late = cached.late /\ (Older(cached.age) \in 0..MaxAge => cached' \in CacheStates)
      BY <1>1, <1>2 DEF ProbeTypeOK, CacheStates
    <2> QED BY <1>3, <2>1, OlderBounds
  <1>6. ASSUME NEW r \in Handlers PROVE h'[r] \in HandlerStates /\ HandlerOK(r)'
    <2>1. h[r] \in HandlerStates /\ HandlerOK(r)
      BY <1>1 DEF ProbeTypeOK
    <2>2. CASE h[r].pc = "idle"
      <3>1. h'[r] = h[r]
        BY <2>2 DEF Tick
      <3> QED BY <2>1, <2>2, <3>1
           DEF HandlerOK, CheckOK, LookOK, StoreOK, AnswerOK, SharesOK, Ready
    <2>3. CASE h[r].pc # "idle" /\ h[r].left > 0
      <3>1. /\ h[r].pc = "check"
            /\ h'[r] = [h[r] EXCEPT !.left = h[r].left - 1]
        BY <2>3 DEF Tick
      <3>2. /\ h'[r] \in HandlerStates /\ h'[r].pc = "check" /\ h'[r].res = h[r].res
            /\ h'[r].left = h[r].left - 1 /\ h[r].left \in Nat /\ h'[r].late = h[r].late
        BY <2>1, <2>3, <3>1, <1>3 DEF HandlerStates
      <3>3. CheckOK(r)'
        <4> SUFFICES ASSUME ~h[r].late
                     PROVE  /\ closed' + h'[r].left <= Timeout
                            /\ \A c \in Checkers : h'[r].res[c] = "ok" => since'[c] + h'[r].left <= Timeout
          BY <3>2 DEF CheckOK
        <4>1. closed' + h'[r].left <= Timeout
          BY <1>3, <1>4, <2>1, <3>1, <3>2 DEF HandlerOK, CheckOK
        <4>2. ASSUME NEW c \in Checkers, h'[r].res[c] = "ok" PROVE since'[c] + h'[r].left <= Timeout
          <5>1. since[c] + h[r].left <= Timeout
            BY <2>1, <3>1, <3>2, <4>2 DEF HandlerOK, CheckOK
          <5> QED BY <1>3, <1>4, <3>2, <5>1
        <4> QED BY <4>1, <4>2
      <3> QED BY <3>2, <3>3 DEF HandlerOK, LookOK, StoreOK, AnswerOK, SharesOK, Ready
    <2>4. CASE h[r].pc # "idle" /\ ~(h[r].left > 0)
      <3>1. h[r].pc = "check" /\ h'[r] = [h[r] EXCEPT !.late = TRUE]
        BY <2>4 DEF Tick
      <3>2. h'[r] \in HandlerStates /\ h'[r].pc = "check" /\ h'[r].late
        BY <2>1, <3>1 DEF HandlerStates
      <3> QED BY <3>2 DEF HandlerOK, CheckOK, LookOK, StoreOK, AnswerOK, SharesOK, Ready
    <2> QED BY <2>2, <2>3, <2>4
  <1>7. h' \in [Handlers -> HandlerStates]
    BY <1>6 DEF Tick
  <1>8. ProbeTypeOK'
    BY <1>1, <1>2, <1>4, <1>5, <1>7 DEF ProbeTypeOK
  <1>9. NowOK'
    BY <1>2 DEF NowOK
  <1>10. CacheOK'
    <2> SUFFICES ASSUME Ordered, cached'.ready, ~cached'.late, cached'.age < CacheTTL, NEW c \in Checkers
                 PROVE  since'[c] <= cached'.age + Timeout
      BY DEF CacheOK, AllWithin
    <2>1. cached.ready /\ ~cached.late /\ cached'.age = cached.age + 1
      BY <1>5
    <2>2. cached.age < CacheTTL
      BY <1>3, <2>1, ProbeAssumption
    <2>3. since[c] <= cached.age + Timeout
      BY <1>1, <2>1, <2>2 DEF CacheOK, AllWithin
    <2> QED BY <1>3, <1>4, <2>1, <2>3
  <1> QED BY <1>6, <1>8, <1>9, <1>10 DEF ProbeInv

LEMMA ProbeStep == ProbeInv /\ [Next]_vars => ProbeInv'
  <1> SUFFICES ASSUME ProbeInv, [Next]_vars PROVE ProbeInv'
    OBVIOUS
  <1>1. ASSUME NEW r \in Handlers, Serve(r) PROVE ProbeInv'
    BY <1>1, ReadTsOK, ReadReadyOK, CheckStepOK, CheckedOK, StoreStepOK, WrittenOK DEF Serve
  <1>2. ASSUME NEW r \in Handlers, Readyz(r) \/ Cancel(r) PROVE ProbeInv'
    BY <1>2, ReadyzOK, CancelOK
  <1>4. ASSUME NEW r \in Handlers, NEW c \in Stubborn, Check(r, c) PROVE ProbeInv'
    BY <1>4, CheckStepOK, ProbeAssumption
  <1>3. CASE UNCHANGED vars
    BY <1>3 DEF vars, ProbeInv, ProbeTypeOK, NowOK, CacheOK, HandlerOK, CheckOK, LookOK,
                StoreOK, AnswerOK, SharesOK, Ready, AllWithin
  <1> QED BY <1>1, <1>2, <1>3, <1>4, SetReadyOK, ChangeOK, TickOK DEF Next

\* What a handler knows of the gate, the checkers and the cache, for every interleaving
\* of handlers that store and look, whatever the order in which stores become visible.
THEOREM ProbeInvariant == Spec => []ProbeInv
  BY ProbeInit, ProbeStep, PTL DEF Spec

\* Where stores become visible in their order, whoever is told that the service is ready
\* can rely on every checker having been fine within readinessTimeout, or less than
\* readinessCacheTTL more under the policy Cached, and on the gate having been open; unless
\* checkers that do not heed their context held the checks up for longer than that.
THEOREM ProbeBoundedReadiness == Ordered => (Spec => []BoundedReadiness)
  <1> SUFFICES ASSUME Ordered PROVE Spec => []BoundedReadiness
    OBVIOUS
  <1>1. ProbeInv => BoundedReadiness
    BY DEF ProbeInv, ProbeTypeOK, Policies, HandlerOK, AnswerOK, SharesOK, BoundedReadiness, AllWithin
  <1> QED BY <1>1, ProbeInvariant, PTL

\* Without the cache no order of stores is needed, and the gate is never in doubt.
THEOREM ProbeUncached ==
    Spec => [](\A r \in Handlers : Ready(r) /\ ~h[r].late =>
                 /\ closed <= Timeout
                 /\ policy = "AlwaysCheck" => \A c \in Checkers : since[c] <= Timeout)
  <1>1. ProbeInv => \A r \in Handlers : Ready(r) /\ ~h[r].late =>
                 /\ closed <= Timeout
                 /\ policy = "AlwaysCheck" => \A c \in Checkers : since[c] <= Timeout
    BY DEF ProbeInv, HandlerOK, AnswerOK, AllWithin
  <1> QED BY <1>1, ProbeInvariant, PTL

=============================================================================
