------------------------------ MODULE NodeRouter ------------------------------
(* infra/noderouter/rendezvous.go and infra/actor/router.go: which nodes an     *)
(* actor that is registered nowhere may be placed on.  The selector keeps one   *)
(* node set per group, for Pick, and the set of all its nodes, for Has.         *)
(*                                                                              *)
(* Set and Update hold the selector's lock throughout.  They range over a Go    *)
(* map of groups, in an order the runtime picks: `rank` is that order, and for  *)
(* the set of all nodes only the last group that mentions a node counts.        *)
EXTENDS Integers, Sequences, FiniteSets, FiniteSetsExt

CONSTANTS NodeIDs,
          Groups,    \* groups nodeGroup can return
          Absent     \* nodeGroup's ok = FALSE, or no such node

ASSUME NodeRouterAssumption == Absent \notin Groups /\ IsFiniteSet(Groups)

VARIABLES rs,        \* rs[g]: the nodes of the rendezvous of group g
          nodeIDs    \* the selector's nodeIDs

selVars == <<rs, nodeIDs>>

Ranks == {r \in [Groups -> 1 .. Cardinality(Groups)] :
             \A g, h \in Groups : r[g] = r[h] => g = h}
LastOf(gs, rank) == CHOOSE g \in gs : \A h \in gs : rank[h] <= rank[g]

\* What nodeIDs becomes when every group g decides about the nodes of touched[g],
\* keeping those of kept[g].
Decided(touched, kept, rank) ==
    {id \in NodeIDs :
        LET gs == {g \in Groups : id \in touched[g]}
        IN  IF gs = {} THEN id \in nodeIDs ELSE id \in kept[LastOf(gs, rank)]}

-----------------------------------------------------------------------------
\* The groups of a node list: list[id] is what nodeGroup returns for node id.
GroupsOf(list) == [g \in Groups |-> {id \in NodeIDs : list[id] = g}]

\* Mutant: nodes of a replaced group stay in nodeIDs.
SetNodes_Keeps(list, all) ==
    LET groups  == GroupsOf(list)
        present == {g \in Groups : groups[g] # {}}
    IN  /\ rs' = [g \in Groups |-> IF all \/ g \in present THEN groups[g] ELSE rs[g]]
        /\ nodeIDs' = (IF all THEN {} ELSE nodeIDs) \cup UNION {groups[g] : g \in Groups}

\* SetNodes, and the selector's Set: all groups are replaced, or only those that
\* have a node in the list.
SetNodes(list, all) ==
    LET groups  == GroupsOf(list)
        present == {g \in Groups : groups[g] # {}}
    IN  /\ rs' = [g \in Groups |-> IF all \/ g \in present THEN groups[g] ELSE rs[g]]
        /\ IF all THEN nodeIDs' = UNION {groups[g] : g \in Groups}
           ELSE \E rank \in Ranks : nodeIDs' = Decided(
                   [g \in Groups |-> IF g \in present THEN rs[g] \cup groups[g] ELSE {}],
                   groups, rank)

Event(type, id, group) == [type |-> type, id |-> id, group |-> group]

\* Mutant: a removed node stays in nodeIDs.
UpdateEvents_Keeps(events) ==
    LET on(g, id)  == {i \in 1 .. Len(events) : events[i].group = g /\ events[i].id = id}
        touched    == [g \in Groups |-> {id \in NodeIDs : on(g, id) # {}}]
        added      == [g \in Groups |-> {id \in touched[g] : events[Max(on(g, id))].type = "add"}]
    IN  /\ rs' = [g \in Groups |-> (rs[g] \ touched[g]) \cup added[g]]
        /\ nodeIDs' = nodeIDs \cup UNION {added[g] : g \in Groups}

\* UpdateEvents, and the selector's Update: the events of a group are applied in
\* order, so the last one about a node decides; events without a group are dropped.
UpdateEvents(events) ==
    LET on(g, id)  == {i \in 1 .. Len(events) : events[i].group = g /\ events[i].id = id}
        touched    == [g \in Groups |-> {id \in NodeIDs : on(g, id) # {}}]
        added      == [g \in Groups |-> {id \in touched[g] : events[Max(on(g, id))].type = "add"}]
    IN  /\ rs' = [g \in Groups |-> (rs[g] \ touched[g]) \cup added[g]]
        /\ \E rank \in Ranks : nodeIDs' = Decided(touched, added, rank)

\* PickActorNode: the fixed node of the actor if it has one, otherwise the node of its
\* group that the rendezvous hash (external) ranks first; any of them, here.
Has(id) == id \in nodeIDs
PickFixed(id) == IF Has(id) THEN {id} ELSE {}
PickGroup(g) == IF g \in Groups THEN rs[g] ELSE {}

SelInit == rs = [g \in Groups |-> {}] /\ nodeIDs = {}

-----------------------------------------------------------------------------
(* The router on its own, driven by any caller.                                *)

CONSTANTS Homes,     \* Homes[id]: the groups nodeGroup may return for node id over time
          MaxEvents  \* bound: events of one UpdateEvents

ASSUME HomesAssumption ==
    /\ Homes \in [NodeIDs -> SUBSET (Groups \cup {Absent})]
    /\ MaxEvents \in Nat

NodeLists == {list \in [NodeIDs -> Groups \cup {Absent}] :
                 \A id \in NodeIDs : list[id] \in Homes[id] \cup {Absent}}
Events == {e \in [type : {"add", "del"}, id : NodeIDs, group : Groups \cup {Absent}] :
              e.group \in Homes[e.id]}
Batches == UNION {[1 .. n -> Events] : n \in 0 .. MaxEvents}

SelNext ==
    \/ \E list \in NodeLists, all \in BOOLEAN : SetNodes(list, all)
    \/ \E events \in Batches : UpdateEvents(events)

SelSpec == SelInit /\ [][SelNext]_selVars

\* The comment of Has: whether a node id is in the routing set.  The router asks Has
\* for actors with a fixed node and Pick for the others, so the two have to agree on
\* the nodes there are, whatever replacements and updates came before and in
\* whatever order the groups were ranged over.
HasAgreesWithPick ==
    \A id \in NodeIDs : Has(id) <=> \E g \in Groups : id \in PickGroup(g)

\* The router is never asked to place an actor on a node of another group.
NodesAtHome == \A g \in Groups : \A id \in rs[g] : g \in Homes[id]

SelInv ==
    /\ rs \in [Groups -> SUBSET NodeIDs]
    /\ nodeIDs \subseteq NodeIDs
    /\ HasAgreesWithPick
    /\ NodesAtHome

=============================================================================
