----------------------------- MODULE CenterWatch ------------------------------
(* infra/cluster/center.go: the node list of one process, kept by syncNodes and *)
(* the goroutine watch from etcd, and the router that follows it.               *)
(*                                                                              *)
(* etcd (external) is the log of the changes under the watched prefix: log[r]   *)
(* is revision r.  A Get answers with the state of the latest revision; a watch *)
(* delivers the events in order, from the revision it was created with, unless  *)
(* that was compacted.  The listener's calls reach the router's SetNodes and    *)
(* UpdateEvents, as the Center's listener is wired by the application.          *)
EXTENDS NodeRouter

CONSTANTS Self,      \* the node of this process
          Bad,       \* a value parseNode rejects
          MaxRev,    \* bound: revisions
          MaxBatch   \* revisions etcd puts into one response to a watcher that lags

ASSUME CenterWatchAssumption ==
    /\ Self \in NodeIDs
    /\ Bad \notin Groups \cup {Absent}
    /\ {MaxRev, MaxBatch} \subseteq Nat \ {0}

VARIABLES log,        \* etcd: log[r] = [id, info], info = Absent for a deletion
          compacted,  \* etcd: the compact revision
          nodes,      \* c.nodes: nodes[id] is the group of the known node, or Absent
          w,          \* watch: where the goroutine is
          lastRev,    \* watch: lastRev
          at,         \* watch: the revision of the next event
          rev,        \* watch: the revision of the response in hand
          events,     \* watch: events
          cancelled,  \* watchCancel was called
          applied     \* history: the revision nodes was last brought to

etcdVars  == <<log, compacted>>
watchVars == <<w, lastRev, at, rev, events>>
cwVars    == <<log, compacted, nodes, watchVars, cancelled, applied, selVars>>

\* The last change of the key of id up to revision r is revision i.
Latest(id, r, i) == log[i].id = id /\ \A j \in i + 1 .. r : log[j].id # id

\* The value of the key of id at revision r.
KV(id, r) ==
    IF \E i \in 1 .. r : Latest(id, r, i)
    THEN log[CHOOSE i \in 1 .. r : Latest(id, r, i)].info ELSE Absent

\* parseNode: the node of a value, or none.
Parsed(info) == IF info = Bad THEN Absent ELSE info

CwInit ==
    /\ SelInit
    /\ log = <<>> /\ compacted = 0
    /\ nodes = [id \in NodeIDs |-> Absent]
    /\ w = "sync" /\ lastRev = 0 /\ at = 0 /\ rev = 0 /\ events = <<>>
    /\ cancelled = FALSE /\ applied = 0

-----------------------------------------------------------------------------
(* etcd.                                                                       *)

Change(id, info) ==
    /\ Len(log) < MaxRev
    /\ info = Absent => KV(id, Len(log)) # Absent
    /\ log' = Append(log, [id |-> id, info |-> info])
    /\ UNCHANGED <<compacted, nodes, watchVars, cancelled, applied, selVars>>

Compact(r) ==
    /\ compacted < r
    /\ compacted' = r
    /\ UNCHANGED <<log, nodes, watchVars, cancelled, applied, selVars>>

-----------------------------------------------------------------------------
(* syncNodes, called by Start and then by watch.                               *)

\* The Get is answered.  (When it fails the goroutine waits and calls again.)
SyncGet ==
    /\ w = "sync" /\ ~cancelled
    /\ w' = "store" /\ rev' = Len(log)
    /\ UNCHANGED <<etcdVars, nodes, lastRev, at, events, cancelled, applied, selVars>>

SyncStore ==
    /\ w = "store"
    /\ nodes' = [id \in NodeIDs |-> IF id = Self THEN Absent ELSE Parsed(KV(id, rev))]
    /\ applied' = rev
    /\ w' = "listener"
    /\ UNCHANGED <<etcdVars, lastRev, at, rev, events, cancelled, selVars>>

\* Mutant: the watch starts after the latest revision, not after that of the Get.
OnNodesSync_LatestRev ==
    /\ w = "listener"
    /\ SetNodes(nodes, TRUE)
    /\ w' = "create" /\ lastRev' = Len(log) /\ rev' = 0
    /\ UNCHANGED <<etcdVars, nodes, at, events, cancelled, applied>>

\* OnNodesSync, and the return of syncNodes.
OnNodesSync ==
    /\ w = "listener"
    /\ SetNodes(nodes, TRUE)
    /\ w' = "create" /\ lastRev' = rev /\ rev' = 0
    /\ UNCHANGED <<etcdVars, nodes, at, events, cancelled, applied>>

-----------------------------------------------------------------------------
(* watch.                                                                      *)

\* etcd answers a watch that starts before the compact revision with a refusal.
Create ==
    /\ w = "create"
    /\ IF lastRev + 1 < compacted
       THEN w' = "refused" /\ UNCHANGED at
       ELSE w' = "watch" /\ at' = lastRev + 1
    /\ UNCHANGED <<etcdVars, nodes, lastRev, rev, events, cancelled, applied, selVars>>

\* The header of a response carries the store's revision: that of its last event,
\* or a later one when the response was cut at MaxBatch.
Responses == {resp \in [to : at .. Len(log), header : at .. Len(log)] :
                 /\ resp.to < at + MaxBatch
                 /\ resp.to <= resp.header
                 /\ resp.to + 1 < at + MaxBatch => resp.header = resp.to}

\* Mutant: lastRev is left alone.
Receive_KeepsRev(resp) ==
    /\ w = "watch"
    /\ w' = "apply" /\ rev' = resp.to
    /\ UNCHANGED <<etcdVars, nodes, lastRev, at, events, cancelled, applied, selVars>>

Receive(resp) ==
    /\ w = "watch"
    /\ w' = "apply" /\ rev' = resp.to /\ lastRev' = resp.header
    /\ UNCHANGED <<etcdVars, nodes, at, events, cancelled, applied, selVars>>

\* Mutant: a delete event is built from its key alone.
ApplyEvent_KeyOnly ==
    LET id == log[at].id  info == log[at].info
        skip == UNCHANGED <<nodes, events>>
    IN  /\ w = "apply" /\ at <= rev
        /\ CASE info = Bad -> skip
             [] info \in Groups ->
                   IF id = Self THEN skip
                   ELSE /\ nodes' = [nodes EXCEPT ![id] = info]
                        /\ events' = Append(events, Event("add", id, info))
             [] info = Absent ->
                   IF nodes[id] = Absent THEN skip
                   ELSE /\ nodes' = [nodes EXCEPT ![id] = Absent]
                        /\ events' = Append(events, Event("del", id, info))
        /\ at' = at + 1 /\ applied' = at
        /\ UNCHANGED <<etcdVars, w, lastRev, rev, cancelled, selVars>>

\* One event of the response, with addNode or delNode: a put that does not parse is
\* skipped and so is one of the process's own node; a deletion reports the node as
\* it was known.
ApplyEvent ==
    LET id == log[at].id  info == log[at].info
        skip == UNCHANGED <<nodes, events>>
    IN  /\ w = "apply" /\ at <= rev
        /\ CASE info = Bad -> skip
             [] info \in Groups ->
                   IF id = Self THEN skip
                   ELSE /\ nodes' = [nodes EXCEPT ![id] = info]
                        /\ events' = Append(events, Event("add", id, info))
             [] info = Absent ->
                   IF nodes[id] = Absent THEN skip
                   ELSE /\ nodes' = [nodes EXCEPT ![id] = Absent]
                        /\ events' = Append(events, Event("del", id, nodes[id]))
        /\ at' = at + 1 /\ applied' = at
        /\ UNCHANGED <<etcdVars, w, lastRev, rev, cancelled, selVars>>

\* OnNodeEvents, when there is anything to tell.
Notify ==
    /\ w = "apply" /\ at > rev
    /\ IF events = <<>> THEN UNCHANGED selVars ELSE UpdateEvents(events)
    /\ w' = "watch" /\ rev' = 0 /\ events' = <<>>
    /\ UNCHANGED <<etcdVars, nodes, lastRev, at, cancelled, applied>>

\* The channel is closed: a new one is created after lastRev.
ChannelClosed ==
    /\ w = "watch"
    /\ w' = "create" /\ at' = 0
    /\ UNCHANGED <<etcdVars, nodes, lastRev, rev, events, cancelled, applied, selVars>>

\* Mutant: the watch is created anew without a sync.
Canceled_NoSync ==
    /\ w \in {"watch", "refused"}
    /\ w' = "create" /\ at' = 0
    /\ UNCHANGED <<etcdVars, nodes, lastRev, rev, events, cancelled, applied, selVars>>

\* The watch is canceled, for compaction or another error.
Canceled ==
    /\ w \in {"watch", "refused"}
    /\ w' = "sync" /\ at' = 0
    /\ UNCHANGED <<etcdVars, nodes, lastRev, rev, events, cancelled, applied, selVars>>

\* Mutant: the select does not wait for ctx.Done.
Stop_LoopTop ==
    /\ cancelled /\ w \in {"sync", "create"}
    /\ w' = "done"
    /\ UNCHANGED <<etcdVars, nodes, lastRev, at, rev, events, cancelled, applied, selVars>>

\* The goroutine sees that its context is done: at the top of the loop, in the select.
Stop ==
    /\ cancelled /\ w \in {"sync", "create", "watch", "refused"}
    /\ w' = "done"
    /\ UNCHANGED <<etcdVars, nodes, lastRev, at, rev, events, cancelled, applied, selVars>>

\* Close: watchCancel.
CloseWatch ==
    /\ ~cancelled
    /\ cancelled' = TRUE
    /\ UNCHANGED <<etcdVars, nodes, watchVars, applied, selVars>>

-----------------------------------------------------------------------------
Infos(id) == (Homes[id] \cap Groups) \cup {Bad, Absent}

CwNext ==
    \/ \E id \in NodeIDs : \E info \in Infos(id) : Change(id, info)
    \/ \E r \in 1 .. Len(log) : Compact(r)
    \/ SyncGet \/ SyncStore \/ OnNodesSync
    \/ Create \/ (\E resp \in Responses : Receive(resp)) \/ ApplyEvent \/ Notify
    \/ ChannelClosed \/ Canceled \/ Stop
    \/ CloseWatch

CwSpec == CwInit /\ [][CwNext]_cwVars

\* The goroutine runs; etcd answers a Get and a refused watch, and a watch that is
\* broken and created again and again delivers sooner or later; Go's select does not
\* forever pass over a ready case.
CwFairness ==
    /\ WF_cwVars(SyncGet) /\ WF_cwVars(SyncStore) /\ WF_cwVars(OnNodesSync)
    /\ WF_cwVars(Create) /\ WF_cwVars(ApplyEvent) /\ WF_cwVars(Notify)
    /\ WF_cwVars(w = "refused" /\ Canceled)
    /\ SF_cwVars(\E resp \in Responses : Receive(resp))
    /\ SF_cwVars(Stop)

CwLiveSpec == CwSpec /\ CwFairness

-----------------------------------------------------------------------------
(* Properties.                                                                 *)

CwTypeOK ==
    /\ log \in Seq([id : NodeIDs, info : Groups \cup {Bad, Absent}])
    /\ Len(log) <= MaxRev
    /\ compacted \in 0 .. Len(log)
    /\ nodes \in [NodeIDs -> Groups \cup {Absent}]
    /\ w \in {"sync", "store", "listener", "create", "watch", "refused", "apply", "done"}
    /\ lastRev \in 0 .. Len(log) /\ rev \in 0 .. Len(log) /\ applied \in 0 .. Len(log)
    /\ at \in 0 .. Len(log) + 1
    /\ events \in Seq([type : {"add", "del"}, id : NodeIDs, group : Groups])
    /\ cancelled \in BOOLEAN
    /\ rs \in [Groups -> SUBSET NodeIDs] /\ nodeIDs \subseteq NodeIDs

\* What GetNode answers is the cluster as it was at one revision: through syncs,
\* responses, broken channels and compactions no change is left out and none is
\* applied to a state it did not happen in.  The process's own node is not listed; a
\* node whose value stopped parsing may be listed with its last good value or not.
SnapshotConsistent ==
    \A id \in NodeIDs :
        IF id = Self THEN nodes[id] = Absent
        ELSE KV(id, applied) \in {Bad, nodes[id]}

\* The node list never goes back: a sync or a new watch does not show an older state
\* of the cluster than one that was shown before.
NeverBackwards == [][applied' >= applied]_cwVars

\* Whenever watch waits for etcd, the router has exactly the nodes of the list, each
\* in its own group, provided the group of a node is settled.
RouterFollows ==
    w \in {"create", "watch", "refused", "done"} =>
        /\ \A g \in Groups : rs[g] = {id \in NodeIDs : nodes[id] = g}
        /\ \A id \in NodeIDs : Has(id) <=> nodes[id] # Absent

\* Once the cluster stops changing the list becomes the cluster, however often the
\* watch breaks or is overtaken by a compaction, unless the Center is closed.
Converges ==
    <>[](cancelled \/ \A id \in NodeIDs \ {Self} : KV(id, Len(log)) \in {Bad, nodes[id]})

\* Close ends the goroutine, whatever it was doing.
WatchStops == cancelled ~> w = "done"

=============================================================================
