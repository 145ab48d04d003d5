# Verification of ggskit

TLA+ models of the concurrent parts of ggskit, a toolkit for Go game servers built on `gactor`
(an actor runtime) and `gcluster` (its transport), with the TLC runs that check them and the TLAPS
proofs about them. `PROJECT.json` lists the components, the runs, the source lines every
definition stands for, the hazards of the code and the theorems.

## The system

| Component | State | Operations | What makes it hard | What makes it correct |
|---|---|---|---|---|
| actor `Registry` (`infra/actor/registry.go`) | one Redis key per actor (node, lease, expiry), a change stream, a location cache per process | `RegisterActor`, `TakeOverActor`, `UnregisterActor`, `KeepActorAlive`, `GetActorLocation`, `Close`, the stream consumer | five Lua scripts of several nodes on one key; lost replies, resends and late requests; TTLs that run out; a cache that is invalidated through a trimmed stream | one owner per actor; a takeover fences its source; orphans lapse; cached locations have a bounded age; the stream is replayed without holes; nothing hangs |
| `ServerStore` (`infra/actor/server_store.go`) | one Redis key per actor, a cache per process | `SetActorServer`, `GetActorServer`, the subscriber | invalidations that are never sent, lost or never subscribed to; lookups that overtake a write; late writes | bounded age; processes converge |
| `Router` and `RendezvousSelector` (`infra/actor/router.go`, `infra/noderouter`) | node sets per group, the set of all ids | `SetNodes`, `UpdateEvents`, `PickActorNode` | Go's map order; nodes in several groups | `Has` and `Pick` agree |
| cluster `Center` (`infra/cluster/center.go`) | a lease and a key in etcd; the node list | `Start`, `Close`, goroutines `keepAlive` and `watch` | expiry, crashes, lost answers and late requests between Grant, Put and Revoke; broken watches, compaction, cut responses | a refreshed lease is the key's, unless a late Put took the key; ghosts lapse; the list is the cluster at one revision, never goes back, converges, and the router follows it |
| cluster `Service` (`infra/cluster/service.go`) | an agent and a center | `Start`, `Stop` | a start that fails half-way | with the Center |
| `DLock` (`base/db/redis/dlock.go`) | one Redis key, the field `locked` | `TryLock`, `Lock`, `Unlock`, `Refresh`, `IsLocked` | lost replies, late commands, expiry, crashes | mutual exclusion; orphans lapse; `Lock` returns |
| `mongobd` (`infra/mongobd`) | worker queues, done channels, each operation's context | `Add`, `Exec`, `Stop`, the workers | full queues and channels, panics, replaced contexts, operations that are added again | per-key order; every operation that was queued comes back once; `Stop` drains |
| messages: protocol registry, payloads, codecs, and the calls of contexts, actors and services (`base/protocol`, `base/codec`, `infra/actor`) | two registries per end, the seq kept in a context | `Register`, `GetPid`, `Create`; `Request`, RPC and AsyncRPC, `Cast`, `PushRawMessage`, `Forward`, `Decode`, `Reply` | ids that collide; registries filled in different orders; many requests open at one actor, replies in any order, late or lost; calls that time out | between ends whose registries agree on their ids, a message is never taken for one of another type, and a caller gets an error or the reply to that very call |
| readiness probe (`infra/monitor/probe`) | a gate, a policy, a cached result without a lock | `readyzHandler`, `runChecks`, `SetReady` | concurrent handlers between whose reads others write; checkers that hang; cancelled requests | whoever is told "ready" can rely on recent results, unless the checks outran their limit |
| modules, pprof, crypto, jwt, configuration, clients, utilities | little or none | | sequential or stateless | not modelled, see below |

How they interact: a process starts a `Center`, whose listener is wired by the application to
`Router.SetNodes` and `Router.UpdateEvents`; `gactor` asks the `Registry` where an actor is, the
`Router` where an unregistered one may be placed (`PickActorNode`), and registers it through the
`Registry`, whose lease it keeps alive. `ServerStore`, `DLock` and `mongobd` stand beside these and
share nothing with them but the Redis and MongoDB clients. Between processes and towards clients
messages travel through the codecs, whose ids come from the two registries of `ProtoRegistry`, by the calls
that `ContextSugarUtil`, `ActorSugarUtil` and `Service` wrap around `gactor`. The probe is asked by the
platform the process runs on.

## Modules

| Module | Models | State and actions |
|---|---|---|
| `Ownership` | abstract: a resource has one owner, and changes hands through nobody | implemented by `Registry` and `DLock` |
| `RegistryScripts` | the five Lua scripts, as functions of the value of a key | operators named as the scripts |
| `Registry` | the ownership calls against Redis | `rec` is the key, `call` the call in flight, `late` requests whose callers gave up, `lease` and `hold` what the runtime of a node knows; one action per call, then `Execute`, `Resend`, `Return`, `Fail`, `RegTick` |
| `RegistryCache` | `Registry` extended with the cache, the lookups, the stream and its consumer | takes every action of `Registry` whole and adds what the same code does to `cache`, `stream` and `cons`; `flight` is the singleflight |
| `ServerStore` | the server store of several processes and one actor | `setter` and `flight` are calls, `inbox` is the subscription |
| `NodeRouter` | router and selector | `rs`, `nodeIDs` as in the selector; a choice of `rank` is the order in which a Go map is ranged over |
| `CenterWatch` | `syncNodes` and `watch`, extending `NodeRouter` with the listener's calls | `log` is etcd's history, `w` the program counter of the goroutine, `lastRev`, `events`, `nodes` as in the code |
| `CenterLease` | `Start`, `Close` and `keepAlive` against etcd's leases | `main` and `ka` are the two goroutines' program counters, `call` their requests at etcd, `late` the Puts and Revokes whose sender gave up (`GiveUp`: a deadline, a crash, a closed client) and that etcd may still execute (`ExecLate`); Close cancels in one step, and reads `leaseID` and sends its Revoke in the next |
| `DLock` | instances of the lock | `key`, `locked`, `call`, `late`, `hold` |
| `SerialQueues` | abstract: the operations of a key are carried out in the order of acceptance | implemented by `MongoBD` |
| `MongoBD` | the worker pool | `queue`, `done`, `ctx` as in the code; `pc`, `cur` and `bak` are the workers: `bak` is the context `safeExec` read first and puts back, which may be another worker's temporary one; `addCtx` is the context an Add waits on |
| `Messaging` | protocol registries, payloads, codecs and the calls made with them | `reg` is `ProtoRegistry` of each end, `call` a call as its caller sees it, `ctx` the context it is handled in, `net` packets on their way, `answer` what came back; one action per kind of call, then `Handle`, `Decode`, `Reply`, `Respond`, `Expire`, `Lose` |
| `Probe` | the readiness handler | `cached` is `readinessCached`, `h` the program counter and results of each handler; fields of the cache are read and written one at a time |
| `MC*` | instances for TLC | |
| `*Proofs` | theorems | |

What is external and modelled from its use: Redis (scripts are atomic, keys expire, commands may be
lost, resent by go-redis after a lost reply, or executed after their caller has gone), etcd (one
revision per change, leases, watches that are cut, broken or cancelled), the rendezvous library
(a group is a set of nodes and Pick any of them; adding a member again or removing a stranger
changes nothing), the
MongoDB driver (an operation ends, or panics), `gactor` (it opens a context
for each packet that asks for one, ends calls that wait too long, drops later answers and knows the
call an RPC response belongs to), `net/http` and the readiness checkers (a checker ends with its context, or, when it is in `Stubborn`, whenever it likes or never).

## Assumptions on the callers

- `gactor` makes one ownership call at a time per node and actor, uses a fresh `MakeLeaseID` for every
  acquisition, keeps one TTL per actor, and does not use a lease again that it unregistered or
  handed over.
- An instance of `DLock` is used by one goroutine. An Unlock that failed may still be executed:
  as long as one is on its way, the instance does not rely on a lock it obtains (`clear` in
  `DLock`); without that exclusion fails, since both locks have the same value.
- The application passes `OnNodesSync` to `SetNodes(nodes, true)` and `OnNodeEvents` to `UpdateEvents`,
  and a node keeps its group.
- One process of a node id runs at a time (`CenterLease`). Two overlapping ones are listed as a
  hazard that no property covers.
- Callers of `mongobd` stop adding before `Stop`, and others read the done channels, both as in the package's
  test. `opBase.ctx` is an interface that callers and workers access without a lock: each access is one step, and a torn
  read is not modelled.
- Types are registered before the services start (`Start` in `Messaging`): a registry is a map without a lock.
- A client uses a seq once, and recognises its reply by it.
- The probe's options are set before it is asked.

## Runs

Passing runs check what the code does right on small instances, safety and liveness together where
one instance serves both; each of their properties is also refuted by a mutant of the code.
The violation run refutes what a comment says.

| Run | Question | Bounds |
|---|---|---|
| `MCRegistry` | is whoever treats the actor as its own the node in the key, is `Ownership` implemented, is the source of a migration fenced, do orphans lapse? | 2 nodes, 3 leases, 1 late request: a third lease lets a node come back after a migration |
| `MCRegistryCache` | how old can a cached location be with no invalidation at all? | 2 nodes, one of them reads; half-second ticks so that rounding to seconds shows; 2 changes; the watcher is off because it can only shorten an entry's life |
| `MCRegistryStream` | is the stream replayed without holes, do lookups and Close return? | 3 changes, MAXLEN 2, 2 entries a read, so that trimming and several reads happen; 2 callers of a flight |
| `MCDLock` | exclusion, refinement of `Ownership`, lapse of orphans, return of `Lock` | 2 instances, 1 late command, expiry longer than the timeout |
| `MCNodeRouter` | do `Has` and `Pick` agree when groups are settled? | 7 nodes, 2 groups, batches of 2 events |
| `MCCenterWatch` | is the list a snapshot that never goes back, does the router follow, does the list converge, does the goroutine end? | 2 other nodes in 2 groups, 3 revisions with unparsable values, responses that are not cut (`MaxBatch` 3) |
| `MCCenterLease` | is a refreshed live lease the key's, does a lost registration come back, both unless the last Put was a late one (`stray`); do ghosts lapse, does `keepAlive` end? | a process that crashes and starts again, 3 leases: the old, the one being granted and the next; 1 late request at a time |
| `MCCenterLeaseClose` | violated: Close unregisters (center.go:276) | 2 leases, no late request: the race alone refutes it |
| `MCMongoBD` | order, is what was queued in one place, draining, does it come back, does Stop return? | 2 operations, one of them with a deadline of its own (`Timed`), 2 keys, 2 workers, queues of 2, a shared channel of 1: operations are added again and again, share a queue or not, and block a worker on the full channel. Exec's own channel, which cannot fill up, is left to the proofs (`DoneOf[o] = o`) |
| `MCServerStore` | age of cached servers, convergence | one process writes and another reads, 2 servers, 1 late SET |
| `MCMessaging` | between ends that agree on their ids, is a message taken for another, and does a caller get another call's reply? | a client, the actor it talks to and an actor elsewhere; 3 types: two with one id, so that they collide in every registry in either order, and one with its own that every end has registered, so that two ends that agree have two replies to mistake; 2 calls, so that two requests are open at one actor |
| `MCProbe` | how old is what "ready" rests on, when the checks were in time? | 2 handlers that overtake each other, 2 checkers of which one may not heed its context, a TTL of 2 and a timeout of 1 tick |

Every bound is a CONSTANT of its module and its comment says so, but for `MCInit`, where `MCMessaging` begins. Deadlock is checked except where
the system may stop: `CenterWatch` (the goroutine ends after Close and revisions are bounded),
`MongoBD` (a stopped pool), `Messaging` (all calls have been made) and `Probe` (whose environment never stops). `RegistryCache` stops growing at `MaxEvents`, after which scripts that would
add an entry no longer run; time and the other calls go on.

What the bounds leave to the proofs: more nodes, leases, late requests, processes, operations, queues,
types and calls, longer TTLs, more revisions. The invariants named under Proofs are proved inductive for any of them.

## What the comments promise and the code does not

`MCCenterLeaseClose` refutes one:

- Close unregisters (center.go:276). In the run keepAlive's Put under an older lease was executed and its answer
  lost; keepAlive is granted a newer lease, and before it has put the key under it Close revokes that newer lease and is answered
  without error. The key stays attached to the older lease until that expires.

These were met while modelling and have no run of their own. Where the models have the steps that lead there, the
properties name the exception:

- A Center registers its own node (center.go:188). A Put whose sender gave up, because its deadline was over (center.go:386) or
  its process crashed, may be executed by etcd after the Put under a newer lease: the key is then attached to the old lease and goes
  with it. keepAlive checks and refreshes the newer lease only, never the key, so the node stays invisible for as long as it runs.
  `CenterLease` has this (`GiveUp`, `ExecLate`). `StreamedIsRegistered` and `Reregisters` say what holds when the last Put was not
  a late one: `stray`, a history variable, is the exception. `GhostLapses` holds with late Puts.
- An operation that Add accepts comes back through done (bd.go:97). `exec` hands an operation back before `safeExec` restores its
  context (worker.go:64). A caller that adds it again at once may wait on the temporary context's Done channel; the worker restores
  the caller's context and cancels the temporary one; `Add` takes the Done case and returns `opBase.ctx.Err()` (bd.go:113), nil
  by then, and the operation is in no queue. Exec then waits for ever on its channel (bd.go:126). `MongoBD` reaches this (`st`
  becomes `"lost"`); `OnePlace`, `StopDrains` and `ComesBack` speak of operations that were queued.
- The checkers run with a time limit (ready.go:97). The limit is handed to them, and `runChecks` waits for their results without one
  (ready.go:131): a checker that does not heed its context (`Stubborn`) keeps the probe waiting, for ever if it never returns. One that
  answers late makes "ready" rest on results older than the limit; `BoundedReadiness` excepts those (`late`).
- Two ends that register types of one id in different orders hold different types under it (registry.go:41 of `base/protocol`
  refuses the later one, at each end by itself). Nothing compares the registries, and a message is decoded as the other type. `Messaging`
  reaches this; `NothingMistaken` and `AnswerIsReply` are about calls whose ends do not (`Agree`).
- In the window of worker.go:64 a second worker may take the operation while it still has the first one's temporary context: it
  then finds a deadline and does not replace the context, or reads it as the one to put back; when the first worker cancels
  it, the operation comes back with a context that is over. `MongoBD` has these steps.
- An Unlock that failed may be executed after its instance has locked again, and frees the new lock, since both have the same
  value (dlock.go:146). The properties of `DLock` except it (`clear`).
- `watch` sets `lastRev` to the header's revision (center.go:589), which is ahead of the applied events
  when etcd cuts the response to a watcher that lags; a channel that closes then makes `watch` skip the events
  in between. `MCCenterWatch` sets `MaxBatch` to the number of revisions, that is, it says what holds when etcd does
  not cut a response; with `MaxBatch` 1 `SnapshotConsistent` fails.
- `Set` and `Update` decide about `nodeIDs` group by group in map order (rendezvous.go:64), so when a node changes its group
  `Has` can deny a node that `Pick` returns. `NodeRouter` models the order; its runs and proofs assume settled groups.
- A read of the change stream that fails before any entry was seen starts again at `$` (registry.go:666), so the changes
  in between are missed; `ReplayHasNoHoles` speaks of the changes after the first one applied.
- A cached location can outlive the record it was read from (registry.go:829), by the rounding and the time the reply
  took; `BoundedStaleness` is what remains true.
- `IsLocked` stays TRUE after the key has expired (dlock.go:99), and with `Expiry` 0 `Refresh` deletes the lock
  (dlock.go:37).
- `ContextSugarUtil.Cast` passes its payload by value (context.go:259) to an encoder that asserts a pointer (codec.go:74), so it
  panics (`ContextCast`); `Cast` of actors and of the service pass a pointer.
- `s2s.DecodePayload` accepts two bytes and reads four (s2s/packet.go:36). Lengths are not modelled.
- The checkers run under the context of the probe that started them (ready.go:76), so a cancelled probe caches failures for the
  TTL: "not ready" says less than "ready", and `BoundedReadiness` is about "ready" only.
- The probe's cache is written without a lock. `MCProbe` has stores become visible in their order, as on amd64; with
  `Ordered` FALSE `ts` can be seen before `ready`, and `BoundedReadiness` fails. A read of `ts` is taken as atomic.
- An operation that panicked comes back with the temporary context, cancelled, in place of its caller's
  (worker.go:64).

## Fairness

Each live specification states its own. Time goes on (`Tick`), and a call whose context has ended
ends: the code gives every call a context with a timeout. Goroutines are scheduled (weak fairness of
their steps). Strong fairness stands for three things: Go's `select` does not pass over a ready case
for ever (`Stop`, `KaStops`); channels serve blocked senders in the order they came (`AddSend`,
`Reply`, `ReplyFailure`); and etcd is reachable again and again, so that of the endless
retries of `watch` and `keepAlive` some get through. A new lease lives for 15 s while Grant and Put
have 10 s together, so not every new lease dies before its Put. A late request is executed some day
(weak fairness of `ExecLate`): it does not stay on its way for ever. Lost replies, resends, crashes and
failures are never required to happen and never forbidden. `MCProbe`
checks safety only: that a probe is answered would be the fairness of its checkers and nothing else.

## Proofs

`tlapm` checks every proof; there are no omitted steps. The proofs hold for every value of the
constants that satisfies the named assumptions of the modules.

- `RegistryProofs`: types, the inductive invariant `RegInv`, `HolderIsRegistered`, `ExclusiveHold` (no two nodes
  treat an actor as theirs) and
  the refinement of `Ownership`. `HolderIsRegistered` is not inductive: a reply on its way gives a hold that the
  key must already back, and a late request could end it. `HoldsBacked` states both, that
  the key outlives the hold and that no pending request can take its lease away;
  `LeasesOwned`, `AcquisitionsFresh` and `PendingSane` say why: a lease that is in use is in no
  request that gives it away, and one being acquired is known to nobody else.
  `SourceFenced` is about the future, so it needs an invariant that a lease once `Fenced` stays so: it was made, the key
  has another, and no pending request would acquire with it. `SourceInv` says that a takeover answered ok
  leaves its source so (`TakeOverFences`), and `FencedStep` that no step undoes it, since acquisitions use leases that
  nobody has used.
  The second half of the module is about `RegistryCache`: it implements `Registry` (so ownership carries over);
  `BoundedStaleness` from `StaleInv`: a reply is at most as old as its call, and an entry's age and
  remaining life add up to at most `LocalCacheMaxTTL` plus the timeout; and `ReplayHasNoHoles` from `ReplayInv`, which says
  of every consumer that whatever is missing between two entries it applied, between those and what it has in hand, and among
  what it has in hand was trimmed, and that one that waits in XREAD has nothing left to wait for, so that the entry that
  wakes it is the next. It holds for every `StreamMaxLen` and `ReadCount`, and over failed reads and timeouts.
- `ServerStoreProofs`: the same for the server store, whose writer caches too: `StaleInv` bounds together the age and the
  remaining life of entries, of lookups and of SETs that were answered.
- `DLockProofs`: types, `LockInv`, `HolderOwnsKey` and the refinement, for a positive Expiry. The invariant is like
  that of `Registry`, with `clear` for the instance's own late Unlocks.
- `CenterWatchProofs`: `SelInv` and `HasAgreesWithPick` when every node has one group (`Settled`), for any nodes and
  finitely many groups: nodes are in their own groups only. `NeverBackwards` for any `MaxBatch`, from `CwOrder`: what the
  goroutine has shown is not ahead of the response it holds nor of where it will watch from. `SnapshotConsistent` when no response is cut
  (`MaxBatch >= MaxRev`): `CwExact` adds that it is not behind either, so that every
  event is applied to the revision before it. `RouterFollows` for any `MaxBatch`, again with `Settled`: `FollowInv` says of each
  node that the router has it where the list has it and no event is about it, or that the last event about it says whether
  the list has it; it does not say so between the store of a sync and its listener.
- `CenterLeaseProofs`: `LeaseInv` and `StreamedIsRegistered`, for any number of processes and leases. The
  invariant says that `keepAlive` is `alive` only with a lease the key is attached to unless that
  lease is dead or the last Put was a late one (`stray`), that it grants and registers only when it is not alive, that `Start` puts
  the key before `keepAlive` exists, and that there is one process at a time.
- `MongoBDProofs`: `OnePlace` (of operations that were queued; one that `Add` lost is in no place) and `StopDrains`. A count is not inductive; `PlaceInv` says that an operation's state names the queue,
  the worker or the channel it is in, that it is there at one position, and that whatever is there has that state. Then
  each of the three sets counted has one element or none. `StopDrains` needs besides that a
  worker ends only with its queue closed and empty. The refinement of `SerialQueues` rests on `OrderInv`: `pending[k]` holds each
  unfinished operation of `k` once; only its first can be in a worker's hand, in that of the worker the key hashes to; and the others
  stand in that worker's queue in the same order. So what a worker finishes is the head of the abstract queue.
- `MessagingProofs`: `MsgInv` (the two maps of a registry are inverse, with the types' own ids; a packet or context belongs to the
  call it was made for, which is sent once and replied to once), and `NothingMistaken` and `AnswerIsReply`, both between ends that `Agree`. The last two are inductive
  only with it: what a decoder makes of an id at one end depends on the id having been given by the registry of the other.

- `ProbeProofs`: `BoundedReadiness`, for any handlers, checkers, TTL and time limit, where stores become visible in
  their order (`Ordered`, the hypothesis of the theorem). `ProbeInv` has a check that is in time use up at least the time that has passed since the
  gate was open and since each checker that said ok was fine; the cache is as good as its age says; and as no time
  passes while a handler stores, one that has stored `ready` but not yet `ts` can only have been overwritten by a result of the same tick,
  which `ts` is true of as well. `ProbeUncached` needs no such order: what is answered without the cache, and the gate under every policy.

Every invariant, action property and refinement that a passing run checks is a theorem. Only model-checked: every liveness
property (`OrphanLapses`, `LookupReturns`, `CloseReturns`, `LockReturns`, `Converges`, `WatchStops`, `Reregisters`, `GhostLapses`,
`KeepAliveStops`, `ComesBack`, `StopEnds`, `ReadsConverge`), since fairness and ENABLED are beyond the prover.
The theorems that need more than the modules' assumptions say so: `Settled`, `MaxBatch >= MaxRev`, a positive
Expiry and `Ordered` are hypotheses, `stray`, `clear`, `late` and `Agree` are exceptions in the properties themselves, and what
happens without them is told above.

## What is abstracted

Actors do not interact, so most runs have one. Revisions in a registration are written and never
read, and are left out; the legacy JSON layout of a key decodes to the same record. Lease ids and
lock values are distinct values. Timers count ticks. Backoffs are waits of unknown length. A Get
under a prefix and a watch see whole revisions with one change each.

Messages are their types: bytes decode to the message, to an error, or, when an id stands for another type, to either an
error or a message of that type. The variants of a call WithDeadline, WithTimeout and WithContext differ in when it ends, and a call may end at
any time. The body of a probe's answer is left out.

## Not modelled

- `infra/actor/module.go`: a map of modules used by one actor sequentially; no step of another actor and no failure comes between
  its calls.
- Starting, stopping and migrating of `infra/actor/service.go`, `client.go`, `handler.go`: passed on to `gactor` unchanged.
- The layout of the heads of packets, and the checks of lengths.
- The agent of `cluster/service.go` (gcluster), and two overlapping processes of one node id (`CenterLease` lets one run at
  a time; what two do to each other is a hazard without a property).
- crypto and jwt (standard libraries without state), configuration, environment, flags, logging, errors, database clients, pprof
  and utilities (start-up I/O and helpers without state).

What a continuation would take first: `CenterLease` with two overlapping processes, and composed with `CenterWatch`, so that
a node's loss of its lease is seen by the other's router.
