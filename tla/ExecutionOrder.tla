--------------------------- MODULE ExecutionOrder ---------------------------
(***************************************************************************)
(* The order in which a replica applies instances:                         *)
(* Manager.getExecutionOrder and iidSorter of                              *)
(* src/consensus/manager_execute.go, as operators over the manager's       *)
(* instance map m (a function from Ids to an instance, or Nil for an id    *)
(* the replica has never seen).                                            *)
(*                                                                         *)
(* The second half of the module is the order the protocol promises: the   *)
(* strongly connected components of the whole dependency graph,            *)
(* dependencies first, each component sorted by (sequence, time, id).      *)
(***************************************************************************)
EXTENDS Instance, Graphs, TLC

CONSTANT IdTime     \* InstanceID.Time(): the timestamp embedded in a UUIDv1

ASSUME IdTimeIsATimestamp == Ids \subseteq Nat /\ IdTime \in [Ids -> Nat]

-----------------------------------------------------------------------------
\* Fault: the embedded timestamp compared before the sequence number.
LessTimeFirst(m, x, y) ==
    \/ IdTime[x] < IdTime[y]
    \/ IdTime[x] = IdTime[y] /\ m[x].seq < m[y].seq
    \/ IdTime[x] = IdTime[y] /\ m[x].seq = m[y].seq /\ x < y

\* iidSorter.Less: sequence number, then embedded timestamp, then bytes.
Less(m, x, y) ==
    \/ m[x].seq < m[y].seq
    \/ m[x].seq = m[y].seq /\ IdTime[x] < IdTime[y]
    \/ m[x].seq = m[y].seq /\ IdTime[x] = IdTime[y] /\ x < y

\* The test of addInstance on an executed instance: one of its dependencies
\* is in the graph already, is not executed, or is a dependency of the
\* target.
Connected(m, targetDepSet, depGraph, deps) ==
    \E dep \in ToSet(deps) :
        \/ dep \in DOMAIN depGraph
        \/ m[dep].status < INSTANCE_EXECUTED
        \/ dep \in targetDepSet

\* Fault: an executed instance that is not a dependency of the target is
\* always left out, whatever it depends on.
RECURSIVE addInstanceDropsExecuted(_, _, _, _)
addInstanceDropsExecuted(m, targetDepSet, g, iid) ==
    LET deps == m[iid].deps
        Visit(acc, dep) ==
            IF acc.err # Nil \/ dep \in DOMAIN acc.depGraph THEN acc
            ELSE IF m[dep] = Nil THEN [acc EXCEPT !.err = "unknown"]
            ELSE addInstanceDropsExecuted(m, targetDepSet, acc, dep)
    IN  IF m[iid].status = INSTANCE_EXECUTED /\ iid \notin targetDepSet
        THEN g
        ELSE FoldLeft(Visit, [g EXCEPT !.depGraph = (iid :> deps) @@ @], deps)

\* The closure addInstance of getExecutionOrder.  g is the graph so far and
\* the error that ended the walk, if any: "unknown" for a dependency the
\* replica has no instance of, "panic" for the status read of one in the
\* test on an executed instance (depMap[dep] is a nil pointer there).
RECURSIVE addInstance(_, _, _, _)
addInstance(m, targetDepSet, g, iid) ==
    LET deps   == m[iid].deps
        pruned == /\ m[iid].status = INSTANCE_EXECUTED
                  /\ iid \notin targetDepSet
        Visit(acc, dep) ==
            IF acc.err # Nil \/ dep \in DOMAIN acc.depGraph THEN acc
            ELSE IF m[dep] = Nil THEN [acc EXCEPT !.err = "unknown"]
            ELSE addInstance(m, targetDepSet, acc, dep)
    IN  IF pruned /\ \E dep \in ToSet(deps) : m[dep] = Nil
        THEN [g EXCEPT !.err = "panic"]
        ELSE IF pruned /\ ~Connected(m, targetDepSet, g.depGraph, deps)
        THEN g
        ELSE FoldLeft(Visit, [g EXCEPT !.depGraph = (iid :> deps) @@ @], deps)

\* The edges of a dependency graph between its own nodes, and the relation
\* "a reaches b" over them.
DepEdges(depGraph) ==
    { e \in (DOMAIN depGraph) \X (DOMAIN depGraph) : e[2] \in ToSet(depGraph[e[1]]) }

Reaches(depGraph) ==
    ConnectionsIn([node |-> DOMAIN depGraph, edge |-> DepEdges(depGraph)])

\* The strongly connected components of a dependency graph whose
\* reachability relation is R.
Components(depGraph, R) ==
    { { b \in DOMAIN depGraph : R[a, b] /\ R[b, a] } : a \in DOMAIN depGraph }

\* TarjanSort: the components in reverse topological order, no component
\* before one it depends on.  Tarjan's algorithm starts from the keys of a
\* Go map in any order, and starting from the components in the order of a
\* result yields it, so every such sequence is a possible result.  (R and
\* g below are bound by a quantifier, which evaluates them once.)
TarjanSort(depGraph) ==
    UNION { { s \in SetToSeqs(Components(depGraph, R)) :
                \A i, j \in DOMAIN s :
                    i < j => \A a \in s[i], b \in s[j] : ~R[a, b] }
            : R \in { Reaches(depGraph) } }

\* The order of a graph for a result of TarjanSort: each component sorted.
exOrder(m, tSorted) ==
    FlattenSeq([k \in DOMAIN tSorted |->
                   SetToSortSeq(tSorted[k], LAMBDA x, y : Less(m, x, y))])

\* getExecutionOrder: the results the call can have for a target, each
\* the order and the error.  The last loop looks every instance of the
\* order up again and finds it: the walk has read each, and none is ever
\* removed.
getExecutionOrder(m, target) ==
    UNION { IF g.err # Nil
            THEN { [exOrder |-> <<>>, err |-> g.err] }
            ELSE { [exOrder |-> exOrder(m, tSorted), err |-> Nil] :
                     tSorted \in TarjanSort(g.depGraph) }
            : g \in { addInstance(m, NewInstanceIDSet(m[target].deps),
                                  [depGraph |-> <<>>, err |-> Nil], target) } }

\* Fault: accepted instances taken for committed ones.
getPreAcceptedInstances(m, iids) ==
    { iid \in ToSet(iids) : m[iid].status < INSTANCE_ACCEPTED }

\* getUncommittedInstances: the instances of an order that are not committed.
getUncommittedInstances(m, iids) ==
    { iid \in ToSet(iids) : m[iid].status < INSTANCE_COMMITTED }

-----------------------------------------------------------------------------
(***************************************************************************)
(* The promised order, over the instances the replica knows.               *)
(***************************************************************************)
Known(m) == { i \in Ids : m[i] # Nil }

\* The whole dependency graph of the replica, nothing pruned.
FullGraph(m) == [i \in Known(m) |-> m[i].deps]

\* The key an instance is sorted by within its component, and the
\* lexicographic order of such keys.
SortKey(m, a) == <<m[a].seq, IdTime[a], a>>

KeyBefore(k, l) ==
    \E n \in DOMAIN k :
        /\ k[n] < l[n]
        /\ \A j \in 1 .. n - 1 : k[j] = l[j]

\* The pairs <<a, b>> where a must be applied before b: b depends on a,
\* directly or not, and either a does not depend on b, or the two are in
\* one component and a has the smaller key.
MustPrecede(m) ==
    LET R == Reaches(FullGraph(m))
    IN  { p \in Known(m) \X Known(m) :
            /\ p[1] # p[2]
            /\ R[p[2], p[1]]
            /\ R[p[1], p[2]] => KeyBefore(SortKey(m, p[1]), SortKey(m, p[2])) }
=============================================================================
