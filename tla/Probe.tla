-------------------------------- MODULE Probe ---------------------------------
(* infra/monitor/probe: the readiness probe.  Handlers of net/http run at the   *)
(* same time, and share the cached result of the policy Cached without a lock.  *)
(*                                                                              *)
(* The three fields of the cache are written one after the other, and read one  *)
(* after the other; fails, which only the body of an answer shows, is left out. *)
(* Checkers (external) are handed a context that ends, and some do not heed it: *)
(* these answer whenever they like, or never, and runChecks waits for them.     *)
(* What handlers do between two waits takes no time on the clock of the cache.  *)
EXTENDS Integers, FiniteSetsExt

CONSTANTS Handlers,  \* bound: probes answered at the same time
          Checkers,  \* names of the readiness checkers
          Stubborn,  \* those that do not heed their context
          CacheTTL,  \* readinessCacheTTL, in ticks
          Timeout,   \* readinessTimeout, in ticks
          Ordered    \* stores become visible in their order, as on amd64

ASSUME ProbeAssumption ==
    /\ {CacheTTL, Timeout} \subseteq Nat \ {0} /\ Ordered \in BOOLEAN
    /\ Stubborn \subseteq Checkers

Policies == {"AlwaysCheck", "GateOnly", "Cached"}

VARIABLES policy,   \* readinessPolicy
          gate,     \* readyFlag
          cached,   \* readinessCached: ready, and the age of ts; history: late, as in h
          h,        \* h[r]: handler r; history: late, its checks took longer than Timeout
          healthy,  \* healthy[c]: checker c would find nothing wrong
          since,    \* history: since[c], ticks since c was healthy
          closed    \* history: ticks since the gate was open

vars == <<policy, gate, cached, h, healthy, since, closed>>

MaxAge == CacheTTL + Timeout
Older(n) == Min({n + 1, MaxAge})

Handler(pc, left, todo, ready, late) ==
    [pc |-> pc, left |-> left, res |-> [c \in Checkers |-> "none"], todo |-> todo,
     ready |-> ready, late |-> late]
Idle == Handler("idle", 0, {}, FALSE, FALSE)
Answer(ready, late) == Handler("answered", 0, {}, ready, late)
runChecks == Handler("check", Timeout, {}, FALSE, FALSE)

Init ==
    /\ policy \in Policies /\ gate = FALSE
    /\ cached = [ready |-> FALSE, age |-> MaxAge, late |-> FALSE]
    /\ h = [r \in Handlers |-> Idle]
    /\ healthy \in [Checkers -> BOOLEAN]
    /\ since = [c \in Checkers |-> IF healthy[c] THEN 0 ELSE MaxAge]
    /\ closed = MaxAge

-----------------------------------------------------------------------------
Goto(r, from, to) == h[r].pc = from /\ h' = [h EXCEPT ![r] = to]

\* The gate, and the policy.
Readyz(r) ==
    /\ Goto(r, "idle", IF ~gate THEN Answer(FALSE, FALSE)
                       ELSE CASE policy = "GateOnly" -> Answer(TRUE, FALSE)
                              [] policy = "Cached"   -> [Idle EXCEPT !.pc = "age"]
                              [] OTHER               -> runChecks)
    /\ UNCHANGED <<policy, gate, cached, healthy, since, closed>>

ReadTs(r) ==
    /\ Goto(r, "age", IF cached.age < CacheTTL THEN [Idle EXCEPT !.pc = "hit"] ELSE runChecks)
    /\ UNCHANGED <<policy, gate, cached, healthy, since, closed>>

ReadReady(r) ==
    /\ Goto(r, "hit", Answer(cached.ready, cached.late))
    /\ UNCHANGED <<policy, gate, cached, healthy, since, closed>>

\* A checker answers, with an error when there is one or when its time is over.
Check(r, c) ==
    /\ h[r].pc = "check" /\ h[r].res[c] = "none"
    /\ \/ healthy[c] /\ h' = [h EXCEPT ![r].res[c] = "ok"]
       \/ (~healthy[c] \/ h[r].left = 0) /\ h' = [h EXCEPT ![r].res[c] = "fail"]
    /\ UNCHANGED <<policy, gate, cached, healthy, since, closed>>

\* The request's own context, which is the parent of the checkers', ends.
Cancel(r) ==
    /\ h[r].pc = "check" /\ h[r].left > 0
    /\ h' = [h EXCEPT ![r].left = 0]
    /\ UNCHANGED <<policy, gate, cached, healthy, since, closed>>

\* The result of the checks is stored, under the policy Cached, and answered.
Result(ready, late) ==
    IF policy = "Cached" THEN Handler("store", 0, {"ready", "ts"}, ready, late)
    ELSE Answer(ready, late)

\* All checkers have answered: there is no other way out of runChecks.
Checked(r) ==
    /\ \A c \in Checkers : h[r].res[c] # "none"
    /\ Goto(r, "check", Result(\A c \in Checkers : h[r].res[c] = "ok", h[r].late))
    /\ UNCHANGED <<policy, gate, cached, healthy, since, closed>>

\* Mutant: ts is stored first.
Store_TsFirst(r, field) ==
    /\ h[r].pc = "store" /\ field \in h[r].todo
    /\ Ordered /\ field = "ready" => "ts" \notin h[r].todo
    /\ cached' = IF field = "ready" THEN [cached EXCEPT !.ready = h[r].ready, !.late = h[r].late]
                                    ELSE [cached EXCEPT !.age = 0]
    /\ h' = [h EXCEPT ![r] = IF h[r].todo = {field} THEN Answer(h[r].ready, h[r].late)
                             ELSE [h[r] EXCEPT !.todo = h[r].todo \ {field}]]
    /\ UNCHANGED <<policy, gate, healthy, since, closed>>

\* One field of the cache is stored: ready before ts.
Store(r, field) ==
    /\ h[r].pc = "store" /\ field \in h[r].todo
    /\ Ordered /\ field = "ts" => "ready" \notin h[r].todo
    /\ cached' = IF field = "ready" THEN [cached EXCEPT !.ready = h[r].ready, !.late = h[r].late]
                                    ELSE [cached EXCEPT !.age = 0]
    /\ h' = [h EXCEPT ![r] = IF h[r].todo = {field} THEN Answer(h[r].ready, h[r].late)
                             ELSE [h[r] EXCEPT !.todo = h[r].todo \ {field}]]
    /\ UNCHANGED <<policy, gate, healthy, since, closed>>

Written(r) ==
    /\ Goto(r, "answered", Idle)
    /\ UNCHANGED <<policy, gate, cached, healthy, since, closed>>

-----------------------------------------------------------------------------
SetReady(ready) ==
    /\ gate' = ready
    /\ closed' = IF ready THEN 0 ELSE closed
    /\ UNCHANGED <<policy, cached, h, healthy, since>>

\* What a checker looks at breaks or recovers.
Change(c) ==
    /\ healthy' = [healthy EXCEPT ![c] = ~healthy[c]]
    /\ since' = [since EXCEPT ![c] = 0]
    /\ UNCHANGED <<policy, gate, cached, h, closed>>

\* Handler r waits for stubborn checkers alone.
Stuck(r) ==
    /\ \A c \in Checkers \ Stubborn : h[r].res[c] # "none"
    /\ \E c \in Stubborn : h[r].res[c] = "none"

\* Time passes while handlers wait, and the other checkers do not outlive their context.
Tick ==
    /\ \A r \in Handlers : h[r].pc = "idle" \/ (h[r].pc = "check" /\ (h[r].left > 0 \/ Stuck(r)))
    /\ h' = [r \in Handlers |-> IF h[r].pc = "idle" THEN h[r]
                                ELSE IF h[r].left > 0 THEN [h[r] EXCEPT !.left = h[r].left - 1]
                                ELSE [h[r] EXCEPT !.late = TRUE]]
    /\ cached' = [cached EXCEPT !.age = Older(cached.age)]
    /\ since' = [c \in Checkers |-> IF healthy[c] THEN 0 ELSE Older(since[c])]
    /\ closed' = IF gate THEN 0 ELSE Older(closed)
    /\ UNCHANGED <<policy, gate, healthy>>

Serve(r) ==
    \/ ReadTs(r) \/ ReadReady(r) \/ (\E c \in Checkers \ Stubborn : Check(r, c)) \/ Checked(r)
    \/ (\E field \in {"ready", "ts"} : Store(r, field)) \/ Written(r)

Next ==
    \/ \E r \in Handlers : Readyz(r) \/ Serve(r) \/ Cancel(r)
    \/ \E r \in Handlers, c \in Stubborn : Check(r, c)
    \/ \E ready \in BOOLEAN : SetReady(ready)
    \/ \E c \in Checkers : Change(c)
    \/ Tick

Spec == Init /\ [][Next]_vars

-----------------------------------------------------------------------------
(* Properties.                                                                 *)

Ready(r) == h[r].pc = "answered" /\ h[r].ready

\* Who is told that the service is ready can rely on every checker having been fine not
\* long ago: within the time limit of the checks, and the TTL of the cache where it is
\* used, with handlers that overtake each other; and the gate was open when it was read,
\* so that a gate that closes is done with when the checks under way are over.  An answer
\* that rests on checks that outran the limit is excepted (late): nothing bounds its age.
BoundedReadiness ==
    \A r \in Handlers : Ready(r) /\ ~h[r].late =>
        /\ \A c \in Checkers :
              CASE policy = "AlwaysCheck" -> since[c] <= Timeout
                [] policy = "Cached"      -> since[c] < MaxAge
                [] OTHER                  -> TRUE
        /\ closed <= Timeout

=============================================================================
