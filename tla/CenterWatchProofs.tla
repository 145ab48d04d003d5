-------------------------- MODULE CenterWatchProofs --------------------------
(* Proofs about NodeRouter, that Has and Pick agree on the nodes there are when *)
(* the group of a node never changes, and about CenterWatch, that the node list *)
(* is the cluster at one revision and never goes back, and that the router      *)
(* follows it.                                                                  *)
EXTENDS CenterWatch, TLAPS

(* The router.                                                                 *)

\* nodeGroup always returns the same group for a node, or none.
Settled == \A id \in NodeIDs : \A g, h \in Homes[id] \ {Absent} : g = h

\* The nodes on which the last group decides are those it keeps, if only one group
\* may mention a node.
LEMMA DecideKeeps ==
    ASSUME Settled, SelInv,
           NEW touched \in [Groups -> SUBSET NodeIDs], NEW kept \in [Groups -> SUBSET NodeIDs],
           NEW rank \in Ranks,
           \A g \in Groups : kept[g] \subseteq touched[g],
           \A g \in Groups : \A id \in touched[g] : g \in Homes[id],
           rs' = [g \in Groups |-> (rs[g] \ touched[g]) \cup kept[g]],
           nodeIDs' = Decided(touched, kept, rank)
    PROVE  SelInv'
  <1>1. rs' \in [Groups -> SUBSET NodeIDs] /\ nodeIDs' \subseteq NodeIDs
    BY DEF SelInv, Decided
  <1>2. Absent \notin Groups
    BY NodeRouterAssumption
  <1>3. \A g \in Groups : rs'[g] = (rs[g] \ touched[g]) \cup kept[g]
    OBVIOUS
  <1>4. NodesAtHome'
    BY <1>3 DEF SelInv, NodesAtHome
  <1>5. ASSUME NEW id \in NodeIDs
        PROVE  id \in nodeIDs' <=> \E g \in Groups : id \in rs'[g]
    <2>1. PICK gs : gs = {g \in Groups : id \in touched[g]}
      OBVIOUS
    <2>2. id \in nodeIDs' <=> IF gs = {} THEN id \in nodeIDs ELSE id \in kept[LastOf(gs, rank)]
      BY <2>1 DEF Decided
    <2>3. CASE gs = {}
      <3>1. \A g \in Groups : id \in rs'[g] <=> id \in rs[g]
        BY <1>3, <2>1, <2>3
      <3> QED BY <2>2, <2>3, <3>1 DEF SelInv, HasAgreesWithPick, Has, PickGroup
    <2>4. CASE gs # {}
      <3>1. PICK h \in Groups : h \in gs
        BY <2>1, <2>4
      <3>2. \A g \in Groups : g \in gs => g = h
        BY <1>2, <2>1, <3>1 DEF Settled
      <3>3. gs = {h}
        BY <2>1, <3>1, <3>2
      <3>4. LastOf(gs, rank) = h
        <4>1. rank[h] \in Int
          BY DEF Ranks
        <4>2. \A k \in {h} : rank[k] <= rank[h]
          BY <4>1
        <4> QED BY <3>3, <4>2 DEF LastOf
      <3>5. ASSUME NEW g \in Groups, id \in rs'[g] PROVE g = h
        <4>1. g \in Homes[id] /\ h \in Homes[id]
          BY <1>4, <2>1, <3>1, <3>5 DEF NodesAtHome
        <4> QED BY <1>2, <4>1 DEF Settled
      <3>6. id \in rs'[h] <=> id \in kept[h]
        BY <1>3, <2>1, <3>1
      <3> QED BY <2>2, <2>4, <3>4, <3>5, <3>6
    <2> QED BY <2>3, <2>4
  <1>6. HasAgreesWithPick'
    BY <1>5 DEF HasAgreesWithPick, Has, PickGroup
  <1> QED BY <1>1, <1>4, <1>6 DEF SelInv

LEMMA SetNodesKeeps ==
    ASSUME Settled, SelInv, NEW list \in NodeLists, NEW all \in BOOLEAN, SetNodes(list, all)
    PROVE  SelInv'
  <1>1. PICK groups : groups = GroupsOf(list)
    OBVIOUS
  <1>2. /\ groups \in [Groups -> SUBSET NodeIDs]
        /\ \A g \in Groups : groups[g] = {id \in NodeIDs : list[id] = g}
    BY <1>1 DEF GroupsOf
  <1>3. PICK present : present = {g \in Groups : groups[g] # {}}
    OBVIOUS
  <1>4. /\ rs' = [g \in Groups |-> IF all \/ g \in present THEN groups[g] ELSE rs[g]]
        /\ all => nodeIDs' = UNION {groups[g] : g \in Groups}
    BY <1>1, <1>3 DEF SetNodes
  <1>5. \A g \in Groups : \A id \in groups[g] : g \in Homes[id]
    BY <1>2, NodeRouterAssumption DEF NodeLists
  <1>6. CASE all
    <2>1. rs' = groups /\ nodeIDs' = UNION {groups[g] : g \in Groups}
      BY <1>2, <1>4, <1>6
    <2> QED BY <1>2, <1>5, <2>1 DEF SelInv, HasAgreesWithPick, Has, PickGroup, NodesAtHome
  <1>7. CASE ~all
    <2>1. PICK touched : touched = [g \in Groups |-> IF g \in present THEN rs[g] \cup groups[g] ELSE {}]
      OBVIOUS
    <2>2. PICK rank \in Ranks : nodeIDs' = Decided(touched, groups, rank)
      BY <1>1, <1>3, <1>7, <2>1 DEF SetNodes
    <2>3. touched \in [Groups -> SUBSET NodeIDs]
      BY <1>2, <2>1 DEF SelInv
    <2>4. \A g \in Groups : groups[g] \subseteq touched[g]
      BY <1>3, <2>1
    <2>5. \A g \in Groups : \A id \in touched[g] : g \in Homes[id]
      BY <1>5, <2>1 DEF SelInv, NodesAtHome
    <2>6. rs' = [g \in Groups |-> (rs[g] \ touched[g]) \cup groups[g]]
      <3>1. ASSUME NEW g \in Groups
            PROVE  (IF g \in present THEN groups[g] ELSE rs[g]) = (rs[g] \ touched[g]) \cup groups[g]
        BY <1>2, <1>3, <2>1
      <3> QED BY <1>4, <1>7, <3>1
    <2> QED BY <1>2, <2>2, <2>3, <2>4, <2>5, <2>6, DecideKeeps
  <1> QED BY <1>6, <1>7

LEMMA UpdateKeeps ==
    ASSUME Settled, SelInv, NEW batch \in Seq(Events), UpdateEvents(batch)
    PROVE  SelInv'
  <1> DEFINE on(g, id) == {i \in 1 .. Len(batch) : batch[i].group = g /\ batch[i].id = id}
  <1>1. PICK touched : touched = [g \in Groups |-> {id \in NodeIDs : on(g, id) # {}}]
    OBVIOUS
  <1>2. PICK added : added = [g \in Groups |-> {id \in touched[g] : batch[Max(on(g, id))].type = "add"}]
    OBVIOUS
  <1>3. PICK rank \in Ranks : nodeIDs' = Decided(touched, added, rank)
    BY <1>1, <1>2 DEF UpdateEvents
  <1>4. rs' = [g \in Groups |-> (rs[g] \ touched[g]) \cup added[g]]
    BY <1>1, <1>2 DEF UpdateEvents
  <1>5. touched \in [Groups -> SUBSET NodeIDs] /\ added \in [Groups -> SUBSET NodeIDs]
        /\ \A g \in Groups : added[g] \subseteq touched[g]
    BY <1>1, <1>2
  <1>8. ASSUME NEW g \in Groups, NEW id \in touched[g] PROVE g \in Homes[id]
    <2>1. PICK i \in 1 .. Len(batch) : batch[i].group = g /\ batch[i].id = id
      BY <1>1
    <2>2. batch[i] \in Events
      OBVIOUS
    <2> QED BY <2>1, <2>2 DEF Events
  <1> QED BY <1>3, <1>4, <1>5, <1>8, DecideKeeps

LEMMA BatchesAreSequences == Batches \subseteq Seq(Events)
  <1>1. ASSUME NEW n \in Nat, NEW f \in [1 .. n -> Events] PROVE f \in Seq(Events)
    OBVIOUS
  <1> QED BY <1>1, HomesAssumption DEF Batches

\* The groups' node sets and the set of all nodes stay in step, and a node is only ever
\* in a group of its own.
THEOREM SelInvariant ==
    ASSUME Settled PROVE SelSpec => []SelInv
  <1>1. SelInit => SelInv
    BY DEF SelInit, SelInv, HasAgreesWithPick, Has, PickGroup, NodesAtHome
  <1>2. SelInv /\ [SelNext]_selVars => SelInv'
    <2> SUFFICES ASSUME SelInv, [SelNext]_selVars PROVE SelInv'
      OBVIOUS
    <2>1. CASE UNCHANGED selVars
      BY <2>1 DEF selVars, SelInv, HasAgreesWithPick, Has, PickGroup, NodesAtHome
    <2>2. CASE SelNext
      BY <2>2, SetNodesKeeps, UpdateKeeps, BatchesAreSequences DEF SelNext
    <2> QED BY <2>1, <2>2
  <1> QED BY <1>1, <1>2, PTL DEF SelSpec

\* Has and Pick never disagree about a node whose group does not change, for every
\* sequence of SetNodes and UpdateEvents and every order of Go's map iteration.
THEOREM RouterHasAgreesWithPick ==
    ASSUME Settled PROVE SelSpec => []HasAgreesWithPick
  <1>1. SelInv => HasAgreesWithPick
    BY DEF SelInv
  <1> QED BY <1>1, SelInvariant, PTL

-----------------------------------------------------------------------------
(* The node list.                                                              *)

Changes == [id : NodeIDs, info : Groups \cup {Bad, Absent}]

LEMMA Numbers == MaxRev \in Nat \ {0} /\ MaxBatch \in Nat \ {0} /\ Self \in NodeIDs
                 /\ Bad \notin Groups \cup {Absent} /\ Absent \notin Groups
  BY CenterWatchAssumption, NodeRouterAssumption

\* The last change of a key is one revision.
LEMMA LatestOne ==
    ASSUME NEW id, NEW r \in Nat, NEW i \in 1 .. r, NEW j \in 1 .. r,
           Latest(id, r, i), Latest(id, r, j)
    PROVE  i = j
  BY DEF Latest

\* A revision does not change when a later one is added.
LEMMA KVAppend ==
    ASSUME log \in Seq(Changes), NEW e \in Changes, log' = Append(log, e),
           NEW id \in NodeIDs, applied \in 0 .. Len(log), applied' = applied
    PROVE  KV(id, applied)' = KV(id, applied)
  <1>1. \A i \in 1 .. applied : log'[i] = log[i]
    OBVIOUS
  <1>2. ASSUME NEW i \in 1 .. applied PROVE Latest(id, applied, i)' <=> Latest(id, applied, i)
    BY <1>1 DEF Latest
  <1>3. (CHOOSE i \in 1 .. applied' : Latest(id, applied, i)')
          = (CHOOSE i \in 1 .. applied : Latest(id, applied, i))
    BY <1>2
  <1> QED BY <1>1, <1>2, <1>3 DEF KV

\* The next revision is the change of one key.
LEMMA KVNext ==
    ASSUME log \in Seq(Changes), log' = log, NEW id \in NodeIDs,
           applied \in Nat, applied' = applied + 1, applied' <= Len(log)
    PROVE  KV(id, applied)' = IF log[applied'].id = id THEN log[applied'].info
                              ELSE KV(id, applied)
  <1> DEFINE a == applied
  <1>0. a \in Nat /\ applied' = a + 1 /\ a + 1 \in 1 .. Len(log)
    OBVIOUS
  <1>1. KV(id, applied)' = IF \E i \in 1 .. a + 1 : Latest(id, a + 1, i)
                           THEN log[CHOOSE i \in 1 .. a + 1 : Latest(id, a + 1, i)].info ELSE Absent
    BY <1>0 DEF KV, Latest
  <1>2. CASE log[a + 1].id = id
    <2>1. Latest(id, a + 1, a + 1)
      BY <1>0, <1>2 DEF Latest
    <2>2. (CHOOSE i \in 1 .. a + 1 : Latest(id, a + 1, i)) = a + 1
      BY <1>0, <2>1, LatestOne
    <2>3. \E i \in 1 .. a + 1 : Latest(id, a + 1, i)
      BY <1>0, <2>1
    <2>4. KV(id, applied)' = log[a + 1].info
      BY <1>1, <2>2, <2>3
    <2> QED BY <1>0, <1>2, <2>4
  <1>3. CASE log[a + 1].id # id
    <2>1. ASSUME NEW i \in 1 .. a + 1
          PROVE  Latest(id, a + 1, i) <=> i \in 1 .. a /\ Latest(id, a, i)
      <3>1. i = a + 1 => ~Latest(id, a + 1, i)
        BY <1>3 DEF Latest
      <3>2. i \in 1 .. a => (Latest(id, a + 1, i) <=> Latest(id, a, i))
        BY <1>0, <1>3 DEF Latest
      <3> QED BY <1>0, <3>1, <3>2
    <2>2. CASE \E i \in 1 .. a : Latest(id, a, i)
      <3>1. PICK i \in 1 .. a : Latest(id, a, i)
        BY <2>2
      <3>2. i \in 1 .. a + 1 /\ Latest(id, a + 1, i)
        BY <1>0, <2>1, <3>1
      <3>3. (CHOOSE j \in 1 .. a : Latest(id, a, j)) = i
        BY <1>0, <3>1, LatestOne
      <3>4. (CHOOSE j \in 1 .. a + 1 : Latest(id, a + 1, j)) = i
        BY <1>0, <3>2, LatestOne
      <3> QED BY <1>0, <1>1, <1>3, <2>2, <3>2, <3>3, <3>4 DEF KV
    <2>3. CASE ~\E i \in 1 .. a : Latest(id, a, i)
      BY <1>0, <1>1, <1>3, <2>1, <2>3 DEF KV
    <2> QED BY <2>2, <2>3
  <1> QED BY <1>2, <1>3

\* A revision that is shown at once.
LEMMA KVShown ==
    ASSUME log' = log, applied' = rev, NEW id PROVE KV(id, applied)' = KV(id, rev)
  BY DEF KV, Latest

LEMMA SetNodesTypes ==
    ASSUME rs \in [Groups -> SUBSET NodeIDs], NEW list, NEW all \in BOOLEAN, SetNodes(list, all)
    PROVE  rs' \in [Groups -> SUBSET NodeIDs] /\ nodeIDs' \subseteq NodeIDs
  <1>1. PICK groups : groups = GroupsOf(list)
    OBVIOUS
  <1>2. groups \in [Groups -> SUBSET NodeIDs]
    BY <1>1 DEF GroupsOf
  <1>3. PICK present : present = {g \in Groups : groups[g] # {}}
    OBVIOUS
  <1>4. rs' = [g \in Groups |-> IF all \/ g \in present THEN groups[g] ELSE rs[g]]
    BY <1>1, <1>3 DEF SetNodes
  <1>5. rs' \in [Groups -> SUBSET NodeIDs]
    BY <1>2, <1>4
  <1>6. CASE all
    <2>1. nodeIDs' = UNION {groups[g] : g \in Groups}
      BY <1>1, <1>6 DEF SetNodes
    <2> QED BY <1>2, <1>5, <2>1
  <1>7. CASE ~all
    <2>1. PICK rank \in Ranks : nodeIDs' = Decided(
             [g \in Groups |-> IF g \in present THEN rs[g] \cup groups[g] ELSE {}], groups, rank)
      BY <1>1, <1>3, <1>7 DEF SetNodes
    <2> QED BY <1>5, <2>1 DEF Decided
  <1> QED BY <1>6, <1>7

LEMMA UpdateTypes ==
    ASSUME rs \in [Groups -> SUBSET NodeIDs], NEW es, UpdateEvents(es)
    PROVE  rs' \in [Groups -> SUBSET NodeIDs] /\ nodeIDs' \subseteq NodeIDs
  BY DEF UpdateEvents, Decided

\* How far the goroutine is with what etcd told it.
CwOrder ==
    /\ w = "store" => applied <= rev
    /\ w = "listener" => applied = rev
    /\ w \in {"create", "refused", "watch"} => applied <= lastRev
    /\ w = "watch" => applied < at
    /\ w = "apply" => applied < at /\ at <= rev + 1 /\ rev <= lastRev

LEMMA CwTypeInit == CwInit => CwTypeOK
  <1> SUFFICES ASSUME CwInit PROVE CwTypeOK
    OBVIOUS
  <1>1. log \in Seq([id : NodeIDs, info : Groups \cup {Bad, Absent}]) /\ Len(log) = 0
        /\ events \in Seq([type : {"add", "del"}, id : NodeIDs, group : Groups])
    BY DEF CwInit
  <1>2. nodes \in [NodeIDs -> Groups \cup {Absent}] /\ rs \in [Groups -> SUBSET NodeIDs]
        /\ nodeIDs \subseteq NodeIDs
    BY DEF CwInit, SelInit
  <1>3. /\ w = "sync" /\ lastRev = 0 /\ rev = 0 /\ applied = 0 /\ at = 0 /\ compacted = 0
        /\ cancelled \in BOOLEAN
    BY DEF CwInit
  <1>4. 0 \in 0 .. Len(log) /\ 0 \in 0 .. Len(log) + 1 /\ Len(log) <= MaxRev
    BY <1>1, Numbers
  <1> QED BY <1>1, <1>2, <1>3, <1>4 DEF CwTypeOK

LEMMA InSeq ==
    ASSUME NEW S, NEW s \in Seq(S), NEW i \in 1 .. Len(s) PROVE s[i] \in S
  OBVIOUS

LEMMA AppendSeq ==
    ASSUME NEW S, NEW s \in Seq(S), NEW e \in S PROVE Append(s, e) \in Seq(S)
  OBVIOUS

LEMMA CwTypeStep == CwTypeOK /\ CwOrder /\ [CwNext]_cwVars => CwTypeOK'
  <1> SUFFICES ASSUME CwTypeOK, CwOrder, [CwNext]_cwVars PROVE CwTypeOK'
    OBVIOUS
  <1> USE DEF CwTypeOK, etcdVars, watchVars, selVars
  <1>0. Len(log) \in Nat
    OBVIOUS
  <1>1. ASSUME NEW id \in NodeIDs, NEW info \in Infos(id), Change(id, info) PROVE CwTypeOK'
    <2>1. [id |-> id, info |-> info] \in [id : NodeIDs, info : Groups \cup {Bad, Absent}]
      BY DEF Infos
    <2>2. /\ log' \in Seq([id : NodeIDs, info : Groups \cup {Bad, Absent}])
          /\ Len(log') = Len(log) + 1 /\ Len(log') <= MaxRev
      BY <1>1, <2>1, Numbers DEF Change
    <2> QED BY <1>0, <1>1, <2>2 DEF Change
  <1>2. ASSUME NEW r \in 1 .. Len(log), Compact(r) PROVE CwTypeOK'
    BY <1>2 DEF Compact
  <1>3. CASE SyncGet
    BY <1>3 DEF SyncGet
  <1>4. CASE SyncStore
    <2>1. \A id \in NodeIDs : Parsed(KV(id, rev)) \in Groups \cup {Absent}
      <3>1. ASSUME NEW id \in NodeIDs PROVE KV(id, rev) \in Groups \cup {Bad, Absent}
        <4>1. CASE \E i \in 1 .. rev : Latest(id, rev, i)
          <5>1. PICK i \in 1 .. rev : Latest(id, rev, i)
            BY <4>1
          <5>2. (CHOOSE j \in 1 .. rev : Latest(id, rev, j)) = i
            BY <5>1, LatestOne
          <5>3. KV(id, rev) = log[i].info
            BY <4>1, <5>2 DEF KV
          <5>4. i \in 1 .. Len(log)
            BY <1>0, <5>1
          <5>5. log[i] \in [id : NodeIDs, info : Groups \cup {Bad, Absent}]
            BY <5>4, InSeq
          <5> QED BY <5>3, <5>5
        <4>2. CASE ~\E i \in 1 .. rev : Latest(id, rev, i)
          BY <4>2 DEF KV
        <4> QED BY <4>1, <4>2
      <3> QED BY <3>1 DEF Parsed
    <2>2. nodes' \in [NodeIDs -> Groups \cup {Absent}]
      BY <1>4, <2>1 DEF SyncStore
    <2> QED BY <1>4, <2>2 DEF SyncStore
  <1>5. CASE OnNodesSync
    <2>1. rs' \in [Groups -> SUBSET NodeIDs] /\ nodeIDs' \subseteq NodeIDs
      BY <1>5, SetNodesTypes DEF OnNodesSync
    <2> QED BY <1>0, <1>5, <2>1 DEF OnNodesSync
  <1>6. CASE Create
    BY <1>0, <1>6 DEF Create
  <1>7. ASSUME NEW resp \in Responses, Receive(resp) PROVE CwTypeOK'
    BY <1>0, <1>7 DEF Receive, Responses
  <1>8. CASE ApplyEvent
    <2>0. at \in 1 .. Len(log) /\ at <= rev
      BY <1>0, <1>8 DEF ApplyEvent, CwOrder
    <2>1. at' = at + 1 /\ applied' = at
      BY <1>8 DEF ApplyEvent
    <2>2. at' \in 0 .. Len(log) + 1 /\ applied' \in 0 .. Len(log)
      BY <1>0, <2>0, <2>1
    <2>3. /\ nodes' \in [NodeIDs -> Groups \cup {Absent}]
          /\ events' \in Seq([type : {"add", "del"}, id : NodeIDs, group : Groups])
      <3>1. ASSUME NEW id \in NodeIDs, NEW g \in Groups, NEW h \in Groups \cup {Absent},
                   NEW type \in {"add", "del"},
                   nodes' = [nodes EXCEPT ![id] = h], events' = Append(events, Event(type, id, g))
            PROVE  /\ nodes' \in [NodeIDs -> Groups \cup {Absent}]
                   /\ events' \in Seq([type : {"add", "del"}, id : NodeIDs, group : Groups])
        <4>1. Event(type, id, g) \in [type : {"add", "del"}, id : NodeIDs, group : Groups]
          BY DEF Event
        <4>2. Append(events, Event(type, id, g))
                 \in Seq([type : {"add", "del"}, id : NodeIDs, group : Groups])
          BY <4>1, AppendSeq
        <4> QED BY <3>1, <4>2
      <3>0. log[at] \in [id : NodeIDs, info : Groups \cup {Bad, Absent}]
        BY <2>0, InSeq
      <3>2. PICK id \in NodeIDs : id = log[at].id
        BY <3>0
      <3>3. PICK info \in Groups \cup {Bad, Absent} : info = log[at].info
        BY <3>0
      <3>4. CASE info = Bad
        <4>1. UNCHANGED <<nodes, events>>
          BY <1>8, <3>3, <3>4, Numbers DEF ApplyEvent
        <4> QED BY <4>1
      <3>5. CASE info \in Groups
        <4>1. \/ UNCHANGED <<nodes, events>>
              \/ /\ nodes' = [nodes EXCEPT ![id] = info]
                 /\ events' = Append(events, Event("add", id, info))
          BY <1>8, <3>2, <3>3, <3>5, Numbers DEF ApplyEvent
        <4> QED BY <3>1, <3>5, <4>1
      <3>6. CASE info = Absent
        <4>1. \/ UNCHANGED <<nodes, events>>
              \/ /\ nodes[id] # Absent /\ nodes' = [nodes EXCEPT ![id] = Absent]
                 /\ events' = Append(events, Event("del", id, nodes[id]))
          BY <1>8, <3>2, <3>3, <3>6, Numbers DEF ApplyEvent
        <4> QED BY <3>1, <4>1
      <3> QED BY <3>4, <3>5, <3>6
    <2> QED BY <1>8, <2>2, <2>3 DEF ApplyEvent
  <1>9. CASE Notify
    <2>1. rs' \in [Groups -> SUBSET NodeIDs] /\ nodeIDs' \subseteq NodeIDs
      BY <1>9, UpdateTypes DEF Notify
    <2> QED BY <1>9, <2>1 DEF Notify
  <1>10. CASE ChannelClosed
    BY <1>0, <1>10 DEF ChannelClosed
  <1>11. CASE Canceled
    BY <1>0, <1>11 DEF Canceled
  <1>12. CASE Stop
    BY <1>12 DEF Stop
  <1>13. CASE CloseWatch
    BY <1>13 DEF CloseWatch
  <1>14. CASE UNCHANGED cwVars
    BY <1>14 DEF cwVars
  <1> QED BY <1>1, <1>2, <1>3, <1>4, <1>5, <1>6, <1>7, <1>8, <1>9, <1>10, <1>11, <1>12, <1>13,
             <1>14 DEF CwNext

LEMMA CwOrderInit == CwInit => CwOrder
  BY DEF CwInit, CwOrder

\* Every step keeps the order, and none shows an older revision.
LEMMA CwOrderStep ==
    CwTypeOK /\ CwOrder /\ [CwNext]_cwVars => CwOrder' /\ applied' >= applied
  <1> SUFFICES ASSUME CwTypeOK, CwOrder, [CwNext]_cwVars PROVE CwOrder' /\ applied' >= applied
    OBVIOUS
  <1> USE DEF CwOrder, etcdVars, watchVars
  <1>0. /\ Len(log) \in Nat /\ lastRev \in Nat /\ rev \in Nat /\ applied \in Nat /\ at \in Nat
        /\ applied <= Len(log)
    BY DEF CwTypeOK
  <1>1. ASSUME NEW id \in NodeIDs, NEW info \in Infos(id), Change(id, info)
        PROVE  CwOrder' /\ applied' >= applied
    BY <1>0, <1>1 DEF Change
  <1>2. ASSUME NEW r \in 1 .. Len(log), Compact(r) PROVE CwOrder' /\ applied' >= applied
    BY <1>0, <1>2 DEF Compact
  <1>3. CASE SyncGet
    BY <1>0, <1>3 DEF SyncGet
  <1>4. CASE SyncStore
    BY <1>0, <1>4 DEF SyncStore
  <1>5. CASE OnNodesSync
    BY <1>0, <1>5 DEF OnNodesSync
  <1>6. CASE Create
    BY <1>0, <1>6 DEF Create
  <1>7. ASSUME NEW resp \in Responses, Receive(resp) PROVE CwOrder' /\ applied' >= applied
    BY <1>0, <1>7 DEF Receive, Responses
  <1>8. CASE ApplyEvent
    <2>1. at' = at + 1 /\ applied' = at /\ at <= rev /\ UNCHANGED <<w, lastRev, rev>>
      BY <1>8 DEF ApplyEvent
    <2>2. w = "apply"
      BY <1>8 DEF ApplyEvent
    <2> QED BY <1>0, <2>1, <2>2
  <1>9. CASE Notify
    BY <1>0, <1>9 DEF Notify
  <1>10. CASE ChannelClosed
    BY <1>0, <1>10 DEF ChannelClosed
  <1>11. CASE Canceled
    BY <1>0, <1>11 DEF Canceled
  <1>12. CASE Stop
    BY <1>0, <1>12 DEF Stop
  <1>13. CASE CloseWatch
    BY <1>0, <1>13 DEF CloseWatch
  <1>14. CASE UNCHANGED cwVars
    BY <1>0, <1>14 DEF cwVars
  <1> QED BY <1>1, <1>2, <1>3, <1>4, <1>5, <1>6, <1>7, <1>8, <1>9, <1>10, <1>11, <1>12, <1>13,
             <1>14 DEF CwNext

LEMMA CwOrdered == CwSpec => [](CwTypeOK /\ CwOrder)
  <1> QED BY CwTypeInit, CwTypeStep, CwOrderInit, CwOrderStep, PTL DEF CwSpec

\* A sync, a new watch after a broken one and a response after a sync never bring the
\* node list back to an older state of the cluster, wherever etcd cuts its responses.
THEOREM ListNeverBackwards == CwSpec => NeverBackwards
  <1>1. CwTypeOK /\ CwOrder /\ [CwNext]_cwVars => [applied' >= applied]_cwVars
    BY CwOrderStep
  <1> QED BY <1>1, CwOrdered, PTL DEF CwSpec, NeverBackwards

-----------------------------------------------------------------------------
(* The node list is one revision.                                              *)

\* What was shown is all that watch asked etcd for, if no response is cut.
CwExact ==
    /\ w \in {"create", "refused", "watch"} => applied = lastRev
    /\ w \in {"watch", "apply"} => at = applied + 1
    /\ w = "apply" => rev = lastRev

LEMMA CwExactStep ==
    ASSUME MaxBatch >= MaxRev
    PROVE  CwTypeOK /\ CwOrder /\ CwExact /\ [CwNext]_cwVars => CwExact'
  <1> SUFFICES ASSUME CwTypeOK, CwOrder, CwExact, [CwNext]_cwVars PROVE CwExact'
    OBVIOUS
  <1> USE DEF CwExact, etcdVars, watchVars
  <1>0. /\ Len(log) \in Nat /\ lastRev \in Nat /\ rev \in Nat /\ applied \in Nat /\ at \in Nat
        /\ applied <= Len(log) /\ Len(log) <= MaxRev /\ MaxRev \in Nat /\ MaxBatch \in Nat
    BY Numbers DEF CwTypeOK
  <1>1. ASSUME NEW id \in NodeIDs, NEW info \in Infos(id), Change(id, info) PROVE CwExact'
    BY <1>1 DEF Change
  <1>2. ASSUME NEW r \in 1 .. Len(log), Compact(r) PROVE CwExact'
    BY <1>2 DEF Compact
  <1>3. CASE SyncGet
    BY <1>3 DEF SyncGet
  <1>4. CASE SyncStore
    BY <1>4 DEF SyncStore
  <1>5. CASE OnNodesSync
    BY <1>5 DEF OnNodesSync, CwOrder
  <1>6. CASE Create
    BY <1>6 DEF Create
  <1>7. ASSUME NEW resp \in Responses, Receive(resp) PROVE CwExact'
    <2>1. /\ resp.to \in at .. Len(log) /\ resp.header \in at .. Len(log)
          /\ resp.to <= resp.header
          /\ resp.to + 1 < at + MaxBatch => resp.header = resp.to
      BY DEF Responses
    <2>2. w = "watch" /\ at >= 1
      BY <1>0, <1>7 DEF Receive
    <2>3. resp.header = resp.to
      BY <1>0, <2>1, <2>2
    <2> QED BY <1>7, <2>3 DEF Receive
  <1>8. CASE ApplyEvent
    <2>1. at' = at + 1 /\ applied' = at /\ UNCHANGED <<w, lastRev, rev>> /\ w = "apply"
      BY <1>8 DEF ApplyEvent
    <2> QED BY <2>1
  <1>9. CASE Notify
    BY <1>0, <1>9 DEF Notify, CwOrder
  <1>10. CASE ChannelClosed
    BY <1>10 DEF ChannelClosed
  <1>11. CASE Canceled
    BY <1>11 DEF Canceled
  <1>12. CASE Stop
    BY <1>12 DEF Stop
  <1>13. CASE CloseWatch
    BY <1>13 DEF CloseWatch
  <1>14. CASE UNCHANGED cwVars
    BY <1>14 DEF cwVars
  <1> QED BY <1>1, <1>2, <1>3, <1>4, <1>5, <1>6, <1>7, <1>8, <1>9, <1>10, <1>11, <1>12, <1>13,
             <1>14 DEF CwNext

LEMMA SnapshotStep ==
    CwTypeOK /\ CwExact /\ SnapshotConsistent /\ [CwNext]_cwVars => SnapshotConsistent'
  <1> SUFFICES ASSUME CwTypeOK, CwExact, SnapshotConsistent, [CwNext]_cwVars,
                      NEW id \in NodeIDs
               PROVE  IF id = Self THEN nodes'[id] = Absent
                      ELSE KV(id, applied)' \in {Bad, nodes'[id]}
    BY DEF SnapshotConsistent
  <1> DEFINE Goal == IF id = Self THEN nodes'[id] = Absent
                     ELSE KV(id, applied)' \in {Bad, nodes'[id]}
  <1> USE DEF etcdVars, watchVars
  <1>0. /\ log \in Seq(Changes) /\ applied \in 0 .. Len(log) /\ Len(log) \in Nat
        /\ nodes \in [NodeIDs -> Groups \cup {Absent}]
    BY DEF CwTypeOK, Changes
  <1>1. IF id = Self THEN nodes[id] = Absent ELSE KV(id, applied) \in {Bad, nodes[id]}
    BY DEF SnapshotConsistent
  <1>2. ASSUME UNCHANGED <<log, nodes, applied>> PROVE Goal
    <2>1. KV(id, applied)' = KV(id, applied)
      BY <1>2 DEF KV, Latest
    <2> QED BY <1>1, <1>2, <2>1
  <1>3. ASSUME NEW i \in NodeIDs, NEW info \in Infos(i), Change(i, info) PROVE Goal
    <2>1. [id |-> i, info |-> info] \in Changes
      BY DEF Infos, Changes
    <2>2. log' = Append(log, [id |-> i, info |-> info]) /\ applied' = applied /\ nodes' = nodes
      BY <1>3 DEF Change
    <2>3. KV(id, applied)' = KV(id, applied)
      BY <1>0, <2>1, <2>2, KVAppend
    <2> QED BY <1>1, <2>2, <2>3
  <1>4. CASE SyncStore
    <2>1. log' = log /\ applied' = rev
      BY <1>4 DEF SyncStore
    <2>2. KV(id, applied)' = KV(id, rev)
      BY <2>1, KVShown
    <2>3. nodes'[id] = IF id = Self THEN Absent ELSE Parsed(KV(id, rev))
      BY <1>4 DEF SyncStore
    <2> QED BY <2>2, <2>3 DEF Parsed
  <1>5. CASE ApplyEvent
    <2>1. log' = log /\ applied' = at /\ at = applied + 1 /\ at <= Len(log)
      BY <1>0, <1>5 DEF ApplyEvent, CwTypeOK, CwExact
    <2>2. KV(id, applied)' = IF log[at].id = id THEN log[at].info ELSE KV(id, applied)
      BY <1>0, <2>1, KVNext
    <2>3. log[at] \in Changes
      BY <1>0, <2>1
    <2>4. PICK info \in Groups \cup {Bad, Absent} : info = log[at].info
      BY <2>3 DEF Changes
    <2>5. CASE info = Bad
      <3>1. nodes' = nodes
        BY <1>5, <2>4, <2>5, Numbers DEF ApplyEvent
      <3> QED BY <1>1, <2>2, <2>4, <2>5, <3>1
    <2>6. CASE info \in Groups
      <3>1. nodes' = IF log[at].id = Self THEN nodes ELSE [nodes EXCEPT ![log[at].id] = info]
        BY <1>5, <2>4, <2>6, Numbers DEF ApplyEvent
      <3> QED BY <1>0, <1>1, <2>2, <2>4, <3>1
    <2>7. CASE info = Absent
      <3>1. nodes' = IF nodes[log[at].id] = Absent THEN nodes
                     ELSE [nodes EXCEPT ![log[at].id] = Absent]
        BY <1>5, <2>4, <2>7, Numbers DEF ApplyEvent
      <3> QED BY <1>0, <1>1, <2>2, <2>4, <2>7, <3>1
    <2> QED BY <2>5, <2>6, <2>7
  <1>6. ASSUME NEW r \in 1 .. Len(log), Compact(r) PROVE Goal
    BY <1>2, <1>6 DEF Compact
  <1>7. ASSUME NEW resp \in Responses, Receive(resp) PROVE Goal
    BY <1>2, <1>7 DEF Receive
  <1>8. CASE SyncGet \/ OnNodesSync \/ Create \/ Notify
    BY <1>2, <1>8 DEF SyncGet, OnNodesSync, Create, Notify
  <1>9. CASE ChannelClosed \/ Canceled \/ Stop \/ CloseWatch
    BY <1>2, <1>9 DEF ChannelClosed, Canceled, Stop, CloseWatch
  <1>10. CASE UNCHANGED cwVars
    BY <1>2, <1>10 DEF cwVars
  <1> QED BY <1>3, <1>4, <1>5, <1>6, <1>7, <1>8, <1>9, <1>10 DEF CwNext

\* The node list is the cluster as it was at one revision, after any number of syncs,
\* responses, broken channels and compactions, if etcd cuts no response.
THEOREM ListIsOneRevision ==
    ASSUME MaxBatch >= MaxRev PROVE CwSpec => []SnapshotConsistent
  <1>1. CwInit => CwExact /\ SnapshotConsistent
    BY DEF CwInit, CwExact, SnapshotConsistent, KV
  <1>2. CwTypeOK /\ CwOrder /\ CwExact /\ [CwNext]_cwVars => CwExact'
    BY CwExactStep
  <1> QED BY <1>1, <1>2, SnapshotStep, CwOrdered, PTL DEF CwSpec

-----------------------------------------------------------------------------
(* The router follows the list.                                                *)

\* Event i of es is the last one about its node.
LastAbout(es, id, i) ==
    i \in 1 .. Len(es) /\ es[i].id = id /\ \A j \in i + 1 .. Len(es) : es[j].id # id

\* Nodes are known in groups of their own.
ListAtHome ==
    /\ \A i \in 1 .. Len(log) : log[i].info \in Groups => log[i].info \in Homes[log[i].id]
    /\ \A id \in NodeIDs : nodes[id] \in Homes[id] \cup {Absent}

\* What the router has of a node, or will have when it is told the events.
Follows(id) ==
    \/ /\ \A i \in 1 .. Len(events) : events[i].id # id
       /\ \A g \in Groups : id \in rs[g] <=> nodes[id] = g
    \/ \E i \in 1 .. Len(events) : LastAbout(events, id, i)
                                  /\ (events[i].type = "add" <=> nodes[id] # Absent)

FollowInv ==
    /\ SelInv /\ ListAtHome
    /\ events \in Seq(Events)
    /\ w # "apply" => events = <<>>
    /\ w \notin {"store", "listener"} => \A id \in NodeIDs : Follows(id)

LEMMA FollowInit == CwInit => FollowInv
  <1> SUFFICES ASSUME CwInit PROVE FollowInv
    OBVIOUS
  <1>1. SelInv
    BY DEF CwInit, SelInit, SelInv, HasAgreesWithPick, Has, PickGroup, NodesAtHome
  <1>2. ListAtHome
    BY DEF CwInit, ListAtHome
  <1>3. events \in Seq(Events) /\ events = <<>>
    BY DEF CwInit
  <1>4. ASSUME NEW id \in NodeIDs PROVE Follows(id)
    BY Numbers DEF CwInit, SelInit, Follows
  <1> QED BY <1>1, <1>2, <1>3, <1>4 DEF FollowInv

\* A step that leaves list, router and events alone.
LEMMA SameFollow ==
    ASSUME FollowInv, UNCHANGED <<nodes, rs, nodeIDs, events>>, ListAtHome',
           w' # "apply" => events = <<>>, w' \notin {"store", "listener"} => w \notin {"store", "listener"}
    PROVE  FollowInv'
  <1>1. SelInv'
    BY DEF FollowInv, SelInv, HasAgreesWithPick, Has, PickGroup, NodesAtHome
  <1>2. ASSUME NEW id \in NodeIDs, Follows(id) PROVE Follows(id)'
    BY <1>2 DEF Follows, LastAbout
  <1> QED BY <1>1, <1>2 DEF FollowInv

\* Notify: the router is told the events of a response.
LEMMA NotifyFollows ==
    ASSUME Settled, CwTypeOK, FollowInv, w = "apply", UpdateEvents(events), nodes' = nodes,
           NEW id \in NodeIDs, NEW g \in Groups
    PROVE  id \in rs'[g] <=> nodes[id] = g
  <1> DEFINE on(h, k) == {i \in 1 .. Len(events) : events[i].group = h /\ events[i].id = k}
  <1>1. PICK touched : touched = [h \in Groups |-> {k \in NodeIDs : on(h, k) # {}}]
    OBVIOUS
  <1>2. PICK added : added = [h \in Groups |-> {k \in touched[h] : events[Max(on(h, k))].type = "add"}]
    OBVIOUS
  <1>3. rs' = [h \in Groups |-> (rs[h] \ touched[h]) \cup added[h]]
    BY <1>1, <1>2 DEF UpdateEvents
  <1>4. id \in rs'[g] <=> IF on(g, id) = {} THEN id \in rs[g]
                          ELSE events[Max(on(g, id))].type = "add"
    BY <1>1, <1>2, <1>3
  <1>5. Follows(id) /\ nodes[id] \in Homes[id] \cup {Absent} /\ Absent \notin Groups
        /\ (id \in rs[g] => g \in Homes[id])
    BY Numbers DEF FollowInv, ListAtHome, SelInv, NodesAtHome
  <1>6. CASE \A i \in 1 .. Len(events) : events[i].id # id
    <2>1. \A h \in Groups : id \in rs[h] <=> nodes[id] = h
      BY <1>5, <1>6 DEF Follows, LastAbout
    <2>2. on(g, id) = {}
      BY <1>6
    <2> QED BY <1>4, <2>1, <2>2
  <1>7. CASE \E i \in 1 .. Len(events) : LastAbout(events, id, i)
                                        /\ (events[i].type = "add" <=> nodes[id] # Absent)
    <2>1. PICK i \in 1 .. Len(events) : LastAbout(events, id, i)
                                       /\ (events[i].type = "add" <=> nodes[id] # Absent)
      BY <1>7
    <2>2. \A j \in 1 .. Len(events) : events[j] \in Events
      BY DEF FollowInv
    <2>3. \A j \in 1 .. Len(events) : events[j].id = id => events[j].group \in Homes[id]
      BY <2>2 DEF Events
    <2>4. events[i].id = id /\ \A j \in 1 .. Len(events) : events[j].id = id => j <= i
      BY <2>1 DEF LastAbout
    <2>5. CASE events[i].group = g
      <3>1. i \in on(g, id) /\ \A j \in on(g, id) : j <= i
        BY <2>4, <2>5
      <3>2. Max(on(g, id)) = i
        BY <3>1 DEF Max
      <3>3. g \in Homes[id]
        BY <2>3, <2>4, <2>5
      <3>4. nodes[id] # Absent <=> nodes[id] = g
        BY <1>5, <3>3 DEF Settled
      <3> QED BY <1>4, <2>1, <3>1, <3>2, <3>4
    <2>6. CASE events[i].group # g
      <3>1. events[i].group \in Groups
        <4>1. events \in Seq([type : {"add", "del"}, id : NodeIDs, group : Groups])
          BY DEF CwTypeOK
        <4>2. events[i] \in [type : {"add", "del"}, id : NodeIDs, group : Groups]
          BY <4>1, InSeq
        <4> QED BY <4>2
      <3>2. g \notin Homes[id]
        BY <1>5, <2>3, <2>4, <2>6, <3>1 DEF Settled
      <3>3. on(g, id) = {}
        BY <2>3, <3>2
      <3>4. nodes[id] # g
        BY <1>5, <3>2
      <3> QED BY <1>4, <1>5, <3>2, <3>3, <3>4
    <2> QED BY <2>5, <2>6
  <1> QED BY <1>5, <1>6, <1>7 DEF Follows


\* What ApplyEvent does: nothing, add a node in the group of its change, or delete a
\* node from the group it is known in.
LEMMA ApplyCases ==
    ASSUME CwTypeOK, CwOrder, ApplyEvent
    PROVE  \/ UNCHANGED <<nodes, events>>
           \/ \E id \in NodeIDs, g \in Groups, h \in Groups \cup {Absent} :
                 /\ \/ h = g /\ at \in 1 .. Len(log) /\ log[at].id = id /\ log[at].info = g
                    \/ h = Absent /\ nodes[id] = g
                 /\ nodes' = [nodes EXCEPT ![id] = h]
                 /\ events' = Append(events, Event(IF h = Absent THEN "del" ELSE "add", id, g))
  <1>1. at \in 1 .. Len(log)
    BY DEF ApplyEvent, CwOrder, CwTypeOK
  <1>2. log[at] \in [id : NodeIDs, info : Groups \cup {Bad, Absent}]
    BY <1>1, InSeq DEF CwTypeOK
  <1>3. PICK id \in NodeIDs : id = log[at].id
    BY <1>2
  <1>4. PICK info \in Groups \cup {Bad, Absent} : info = log[at].info
    BY <1>2
  <1>5. CASE info = Bad
    BY <1>4, <1>5, Numbers DEF ApplyEvent
  <1>6. CASE info \in Groups
    <2>1. \/ UNCHANGED <<nodes, events>>
          \/ /\ nodes' = [nodes EXCEPT ![id] = info]
             /\ events' = Append(events, Event("add", id, info))
      BY <1>3, <1>4, <1>6, Numbers DEF ApplyEvent
    <2>2. (IF info = Absent THEN "del" ELSE "add") = "add"
      BY <1>6, Numbers
    <2> QED BY <1>1, <1>3, <1>4, <1>6, <2>1, <2>2
  <1>7. CASE info = Absent
    <2>1. \/ UNCHANGED <<nodes, events>>
          \/ /\ nodes[id] # Absent /\ nodes' = [nodes EXCEPT ![id] = Absent]
             /\ events' = Append(events, Event("del", id, nodes[id]))
      BY <1>3, <1>4, <1>7, Numbers DEF ApplyEvent
    <2>2. nodes[id] \in Groups \cup {Absent}
      BY DEF CwTypeOK
    <2> QED BY <2>1, <2>2
  <1> QED BY <1>5, <1>6, <1>7

\* Every value of a key was written for a node in a group of its own.
LEMMA HomeStep == CwTypeOK /\ CwOrder /\ ListAtHome /\ [CwNext]_cwVars => ListAtHome'
  <1> SUFFICES ASSUME CwTypeOK, CwOrder, ListAtHome, [CwNext]_cwVars PROVE ListAtHome'
    OBVIOUS
  <1> USE DEF etcdVars, watchVars
  <1>0. /\ log \in Seq(Changes) /\ rev \in 0 .. Len(log) /\ Len(log) \in Nat
        /\ nodes \in [NodeIDs -> Groups \cup {Absent}]
    BY DEF CwTypeOK, Changes
  <1>1. ASSUME UNCHANGED <<log, nodes>> PROVE ListAtHome'
    BY <1>1 DEF ListAtHome
  <1>2. ASSUME NEW id \in NodeIDs, NEW info \in Infos(id), Change(id, info) PROVE ListAtHome'
    <2>1. log' = Append(log, [id |-> id, info |-> info]) /\ nodes' = nodes
      BY <1>2 DEF Change
    <2>2. info \in Groups => info \in Homes[id]
      BY Numbers DEF Infos
    <2>3. ASSUME NEW i \in 1 .. Len(log'), log'[i].info \in Groups
          PROVE  log'[i].info \in Homes[log'[i].id]
      <3>1. CASE i = Len(log) + 1
        <4>1. log'[i] = [id |-> id, info |-> info]
          BY <1>0, <2>1, <3>1
        <4> QED BY <2>2, <2>3, <4>1
      <3>2. CASE i # Len(log) + 1
        <4>1. i \in 1 .. Len(log) /\ log'[i] = log[i]
          BY <1>0, <2>1, <3>2
        <4> QED BY <2>3, <4>1 DEF ListAtHome
      <3> QED BY <3>1, <3>2
    <2> QED BY <2>1, <2>3 DEF ListAtHome
  <1>3. CASE SyncStore
    <2>1. ASSUME NEW id \in NodeIDs PROVE Parsed(KV(id, rev)) \in Homes[id] \cup {Absent}
      <3>1. CASE \E i \in 1 .. rev : Latest(id, rev, i)
        <4>1. PICK i \in 1 .. rev : Latest(id, rev, i)
          BY <3>1
        <4>2. (CHOOSE j \in 1 .. rev : Latest(id, rev, j)) = i
          BY <1>0, <4>1, LatestOne
        <4>3. KV(id, rev) = log[i].info
          BY <3>1, <4>2 DEF KV
        <4>4. i \in 1 .. Len(log) /\ log[i].id = id
          BY <1>0, <4>1 DEF Latest
        <4>5. log[i].info \in Groups \cup {Bad, Absent}
          <5>1. log[i] \in Changes
            BY <1>0, <4>4, InSeq
          <5> QED BY <5>1 DEF Changes
        <4>6. log[i].info \in Groups => log[i].info \in Homes[id]
          BY <4>4 DEF ListAtHome
        <4>7. Parsed(KV(id, rev)) = IF log[i].info = Bad THEN Absent ELSE log[i].info
          BY <4>3 DEF Parsed
        <4> QED BY <4>5, <4>6, <4>7
      <3>2. CASE ~\E i \in 1 .. rev : Latest(id, rev, i)
        BY <3>2, Numbers DEF KV, Parsed
      <3> QED BY <3>1, <3>2
    <2>2. log' = log
      BY <1>3 DEF SyncStore
    <2>3. \A id \in NodeIDs : nodes'[id] \in Homes[id] \cup {Absent}
      BY <1>3, <2>1 DEF SyncStore
    <2> QED BY <2>2, <2>3 DEF ListAtHome
  <1>4. CASE ApplyEvent
    <2>1. log' = log
      BY <1>4 DEF ApplyEvent
    <2>2. CASE UNCHANGED <<nodes, events>>
      BY <1>1, <2>1, <2>2
    <2>3. ASSUME NEW id \in NodeIDs, NEW g \in Groups, NEW h \in Groups \cup {Absent},
                 nodes' = [nodes EXCEPT ![id] = h],
                 \/ h = g /\ at \in 1 .. Len(log) /\ log[at].id = id /\ log[at].info = g
                 \/ h = Absent /\ nodes[id] = g
          PROVE  ListAtHome'
      <3>1. h \in Homes[id] \cup {Absent}
        BY <2>3 DEF ListAtHome
      <3>2. \A k \in NodeIDs : nodes'[k] \in Homes[k] \cup {Absent}
        BY <1>0, <2>3, <3>1 DEF ListAtHome
      <3> QED BY <2>1, <3>2 DEF ListAtHome
    <2> QED BY <1>4, <2>2, <2>3, ApplyCases
  <1>5. ASSUME NEW r \in 1 .. Len(log), Compact(r) PROVE ListAtHome'
    BY <1>1, <1>5 DEF Compact
  <1>6. ASSUME NEW resp \in Responses, Receive(resp) PROVE ListAtHome'
    BY <1>1, <1>6 DEF Receive
  <1>7. CASE SyncGet \/ OnNodesSync \/ Create \/ Notify
    BY <1>1, <1>7 DEF SyncGet, OnNodesSync, Create, Notify
  <1>8. CASE ChannelClosed \/ Canceled \/ Stop \/ CloseWatch
    BY <1>1, <1>8 DEF ChannelClosed, Canceled, Stop, CloseWatch
  <1>9. CASE UNCHANGED cwVars
    BY <1>1, <1>9 DEF cwVars
  <1> QED BY <1>2, <1>3, <1>4, <1>5, <1>6, <1>7, <1>8, <1>9 DEF CwNext

\* What a step that applies an event adds to what the router will be told.
LEMMA FollowApply ==
    ASSUME CwTypeOK, CwOrder, FollowInv, ListAtHome', ApplyEvent PROVE FollowInv'
  <1>0. UNCHANGED <<log, w, rs, nodeIDs>> /\ w = "apply"
    BY DEF ApplyEvent, etcdVars, selVars
  <1>1. CASE UNCHANGED <<nodes, events>>
    BY <1>0, <1>1, SameFollow
  <1>2. ASSUME NEW id \in NodeIDs, NEW g \in Groups, NEW h \in Groups \cup {Absent},
               \/ h = g /\ at \in 1 .. Len(log) /\ log[at].id = id /\ log[at].info = g
               \/ h = Absent /\ nodes[id] = g,
               nodes' = [nodes EXCEPT ![id] = h],
               events' = Append(events, Event(IF h = Absent THEN "del" ELSE "add", id, g))
        PROVE  FollowInv'
    <2>1. g \in Homes[id]
      BY <1>2, Numbers DEF FollowInv, ListAtHome
    <2>2. PICK e : e = Event(IF h = Absent THEN "del" ELSE "add", id, g)
      OBVIOUS
    <2>3. e \in Events /\ e.id = id /\ (e.type = "add" <=> h # Absent)
      BY <2>1, <2>2 DEF Event, Events
    <2>4. events \in Seq(Events) /\ events' = Append(events, e) /\ nodes \in [NodeIDs -> Groups \cup {Absent}]
      BY <1>2, <2>2 DEF FollowInv, CwTypeOK
    <2>5. /\ events' \in Seq(Events) /\ Len(events') = Len(events) + 1 /\ Len(events) \in Nat
          /\ events'[Len(events) + 1] = e
          /\ \A i \in 1 .. Len(events) : events'[i] = events[i]
      BY <2>3, <2>4
    <2>6. ASSUME NEW k \in NodeIDs PROVE Follows(k)'
      <3>1. CASE k = id
        <4>1. Len(events') \in 1 .. Len(events') /\ events'[Len(events')] = e
          BY <2>5
        <4>2. LastAbout(events', id, Len(events'))
          BY <2>3, <2>5, <4>1 DEF LastAbout
        <4>3. events'[Len(events')].type = "add" <=> nodes'[id] # Absent
          BY <1>2, <2>3, <2>4, <4>1
        <4> QED BY <3>1, <4>1, <4>2, <4>3 DEF Follows
      <3>2. CASE k # id
        <4>1. nodes'[k] = nodes[k]
          BY <1>2, <2>4, <3>2
        <4>2. Follows(k)
          BY <1>0 DEF FollowInv
        <4>3. CASE /\ \A i \in 1 .. Len(events) : events[i].id # k
                   /\ \A f \in Groups : k \in rs[f] <=> nodes[k] = f
          <5>1. \A i \in 1 .. Len(events') : events'[i].id # k
            BY <2>3, <2>5, <3>2, <4>3
          <5> QED BY <1>0, <4>1, <4>3, <5>1 DEF Follows
        <4>4. CASE \E i \in 1 .. Len(events) : LastAbout(events, k, i)
                                              /\ (events[i].type = "add" <=> nodes[k] # Absent)
          <5>1. PICK i \in 1 .. Len(events) : LastAbout(events, k, i)
                                             /\ (events[i].type = "add" <=> nodes[k] # Absent)
            BY <4>4
          <5>2. i \in 1 .. Len(events') /\ events'[i] = events[i]
            BY <2>5
          <5>3. LastAbout(events', k, i)
            BY <2>3, <2>5, <3>2, <5>1, <5>2 DEF LastAbout
          <5> QED BY <4>1, <5>1, <5>2, <5>3 DEF Follows
        <4> QED BY <4>2, <4>3, <4>4 DEF Follows
      <3> QED BY <3>1, <3>2
    <2>7. SelInv'
      BY <1>0 DEF FollowInv, SelInv, HasAgreesWithPick, Has, PickGroup, NodesAtHome
    <2> QED BY <1>0, <2>5, <2>6, <2>7 DEF FollowInv
  <1> QED BY <1>1, <1>2, ApplyCases

LEMMA FollowStep ==
    ASSUME Settled PROVE CwTypeOK /\ CwOrder /\ FollowInv /\ [CwNext]_cwVars => FollowInv'
  <1> SUFFICES ASSUME CwTypeOK, CwOrder, FollowInv, [CwNext]_cwVars PROVE FollowInv'
    OBVIOUS
  <1> USE DEF etcdVars, watchVars, selVars
  <1>0. ListAtHome' /\ (w # "apply" => events = <<>>)
    BY HomeStep DEF FollowInv
  <1>1. ASSUME NEW id \in NodeIDs, NEW info \in Infos(id), Change(id, info) PROVE FollowInv'
    BY <1>0, <1>1, SameFollow DEF Change
  <1>2. ASSUME NEW r \in 1 .. Len(log), Compact(r) PROVE FollowInv'
    BY <1>0, <1>2, SameFollow DEF Compact
  <1>3. CASE SyncGet
    BY <1>0, <1>3, SameFollow DEF SyncGet
  <1>4. CASE SyncStore
    <2>1. UNCHANGED <<rs, nodeIDs, events>> /\ w = "store" /\ w' = "listener"
      BY <1>4 DEF SyncStore
    <2>2. SelInv'
      BY <2>1 DEF FollowInv, SelInv, HasAgreesWithPick, Has, PickGroup, NodesAtHome
    <2> QED BY <1>0, <2>1, <2>2 DEF FollowInv
  <1>5. CASE OnNodesSync
    <2>1. /\ SetNodes(nodes, TRUE) /\ UNCHANGED <<nodes, events>>
          /\ w = "listener" /\ w' = "create"
      BY <1>5 DEF OnNodesSync
    <2>2. nodes \in NodeLists
      BY DEF CwTypeOK, FollowInv, ListAtHome, NodeLists
    <2>3. SelInv'
      BY <2>1, <2>2, SetNodesKeeps DEF FollowInv
    <2>4. \A g \in Groups : rs'[g] = {id \in NodeIDs : nodes[id] = g}
      BY <2>1 DEF SetNodes, GroupsOf
    <2>5. events = <<>>
      BY <1>0, <2>1
    <2>6. \A id \in NodeIDs : Follows(id)'
      BY <2>1, <2>4, <2>5 DEF Follows
    <2> QED BY <1>0, <2>1, <2>3, <2>5, <2>6 DEF FollowInv
  <1>6. CASE Create
    BY <1>0, <1>6, SameFollow DEF Create
  <1>7. ASSUME NEW resp \in Responses, Receive(resp) PROVE FollowInv'
    BY <1>0, <1>7, SameFollow DEF Receive
  <1>8. CASE ApplyEvent
    BY <1>0, <1>8, FollowApply
  <1>9. CASE Notify
    <2>1. w = "apply" /\ w' = "watch" /\ events' = <<>> /\ nodes' = nodes
      BY <1>9 DEF Notify
    <2>2. CASE events = <<>>
      <3>1. UNCHANGED <<nodes, rs, nodeIDs, events>>
        BY <1>9, <2>1, <2>2 DEF Notify
      <3> QED BY <1>0, <2>1, <2>2, <3>1, SameFollow
    <2>3. CASE events # <<>>
      <3>1. UpdateEvents(events)
        BY <1>9, <2>3 DEF Notify
      <3>2. SelInv'
        BY <3>1, UpdateKeeps DEF FollowInv
      <3>3. \A id \in NodeIDs, g \in Groups : id \in rs'[g] <=> nodes[id] = g
        BY <2>1, <3>1, NotifyFollows
      <3>4. \A id \in NodeIDs : Follows(id)'
        BY <2>1, <3>3 DEF Follows
      <3>5. events' \in Seq(Events)
        BY <2>1
      <3> QED BY <1>0, <2>1, <3>2, <3>4, <3>5 DEF FollowInv
    <2> QED BY <2>2, <2>3
  <1>10. CASE ChannelClosed
    BY <1>0, <1>10, SameFollow DEF ChannelClosed
  <1>11. CASE Canceled
    BY <1>0, <1>11, SameFollow DEF Canceled
  <1>12. CASE Stop
    BY <1>0, <1>12, SameFollow DEF Stop
  <1>13. CASE CloseWatch
    BY <1>0, <1>13, SameFollow DEF CloseWatch
  <1>14. CASE UNCHANGED cwVars
    BY <1>0, <1>14, SameFollow DEF cwVars
  <1> QED BY <1>1, <1>2, <1>3, <1>4, <1>5, <1>6, <1>7, <1>8, <1>9, <1>10, <1>11, <1>12, <1>13,
             <1>14 DEF CwNext

\* Whenever watch waits for etcd the router has the nodes of the list and no others, in
\* Pick and in Has, through syncs, responses and broken watches, if the group of a node
\* is settled.
THEOREM RouterFollowsList ==
    ASSUME Settled PROVE CwSpec => []RouterFollows
  <1>1. CwTypeOK /\ FollowInv => RouterFollows
    <2> SUFFICES ASSUME CwTypeOK, FollowInv, w \in {"create", "watch", "refused", "done"}
                 PROVE  /\ \A g \in Groups : rs[g] = {id \in NodeIDs : nodes[id] = g}
                        /\ \A id \in NodeIDs : Has(id) <=> nodes[id] # Absent
      BY DEF RouterFollows
    <2>1. events = <<>> /\ \A id \in NodeIDs : Follows(id)
      BY DEF FollowInv
    <2>2. \A id \in NodeIDs, g \in Groups : id \in rs[g] <=> nodes[id] = g
      BY <2>1 DEF Follows
    <2>3. rs \in [Groups -> SUBSET NodeIDs] /\ nodes \in [NodeIDs -> Groups \cup {Absent}]
      BY DEF CwTypeOK
    <2>4. \A id \in NodeIDs : Has(id) <=> \E g \in Groups : id \in rs[g]
      BY DEF FollowInv, SelInv, HasAgreesWithPick, PickGroup
    <2>5. \A g \in Groups : rs[g] = {id \in NodeIDs : nodes[id] = g}
      BY <2>2, <2>3
    <2>6. \A id \in NodeIDs : Has(id) <=> nodes[id] # Absent
      BY <2>2, <2>3, <2>4, Numbers
    <2> QED BY <2>5, <2>6
  <1>2. CwTypeOK /\ CwOrder /\ FollowInv /\ [CwNext]_cwVars => FollowInv'
    BY FollowStep
  <1> QED BY <1>1, <1>2, FollowInit, CwOrdered, PTL DEF CwSpec

=============================================================================
