------------------------------ MODULE OrderWalk ------------------------------
(***************************************************************************)
(* getExecutionOrder read by read.  The call holds no lock of the manager: *)
(* each visit of addInstance reads one instance and its dependencies,      *)
(* while other goroutines execute instances and handlers add them.  The    *)
(* graph the walk ends with is the graph of no single moment.              *)
(*                                                                         *)
(* A step of a walk is one visit (manager_execute.go:67-91) with the       *)
(* bookkeeping on the walk's own maps that leads to it; the sort at the    *)
(* end and every iteration of executeDependencyChain are steps too.        *)
(* Instances reach the replica committed, with the attributes consensus    *)
(* agreed on, so no prepare is needed (Execute has the prepare loop, the   *)
(* events and the errors of the store).                                    *)
(***************************************************************************)
EXTENDS ExecutionOrder

CONSTANTS
    Tasks,          \* the goroutines that call executeInstance
    Committed       \* the outcomes of consensus: each gives every instance its
                    \* committed dependencies (a set) and sequence number

ASSUME OrderWalkConstantsAreSane ==
    Committed \subseteq [Ids -> [deps : SUBSET Ids, seq : Nat]]

VARIABLES
    agreed,         \* the outcome of consensus in this behaviour
    instances,      \* m.instances: id -> instance, Nil for an unknown id
    executed,       \* m.executed, in the order of execution
    walks           \* the goroutines in executeInstance

vars == <<agreed, instances, executed, walks>>

\* A goroutine: depMap (the ids it holds an instance for), depGraph, the
\* dependencies the open calls of addInstance have still to look at, the
\* innermost call last, then exOrder and the position of the chain in it.
Idle ==
    [pc |-> "idle", target |-> Nil, depMap |-> {}, depGraph |-> <<>>,
     stack |-> <<>>, exOrder |-> <<>>, pos |-> 0, err |-> Nil]

Init ==
    /\ agreed \in Committed
    /\ instances = [i \in Ids |-> Nil]
    /\ executed = <<>>
    /\ walks = [t \in Tasks |-> Idle]

Walk(t) == walks[t]

Becomes(t, w) == walks' = [walks EXCEPT ![t] = w]

\* The commit of an instance reaches the replica.
Commit(iid) ==
    /\ instances[iid] = Nil
    /\ \E deps \in List(agreed[iid].deps) :
          instances' = [instances EXCEPT ![iid] =
              [deps |-> deps, seq |-> agreed[iid].seq, noop |-> FALSE,
               status |-> INSTANCE_COMMITTED]]
    /\ UNCHANGED <<agreed, executed, walks>>

\* Fault: an entry for every id, whether the manager has the instance or
\* not.
GetMapOfAll(depMap, ids) == depMap \cup ToSet(ids)

\* m.instances.GetMap(depMap, ids): the instances of ids that the manager
\* holds at this moment join depMap.
GetMap(depMap, ids) == depMap \cup { i \in ToSet(ids) : instances[i] # Nil }

\* The loops of the open calls up to the next dependency that is not in
\* the graph: calls that have looked at every dependency return.
RECURSIVE Pending(_, _)
Pending(stack, depGraph) ==
    IF stack = <<>> THEN <<>>
    ELSE IF Last(stack) = <<>> THEN Pending(Front(stack), depGraph)
    ELSE IF Head(Last(stack)) \in DOMAIN depGraph
    THEN Pending(Front(stack) \o <<Tail(Last(stack))>>, depGraph)
    ELSE stack

\* A goroutine calls executeInstance for a committed instance;
\* getExecutionOrder fetches the dependencies of the target and calls
\* addInstance for it.
StartExecute(t, target) ==
    /\ Walk(t).pc = "idle"
    /\ instances[target] # Nil
    /\ instances[target].status = INSTANCE_COMMITTED
    /\ Becomes(t, [Idle EXCEPT !.pc = "walk", !.target = target,
                               !.depMap = GetMap({target}, instances[target].deps),
                               !.stack = <<<<target>>>>])
    /\ UNCHANGED <<agreed, instances, executed>>

\* Fault: an executed instance that is not a dependency of the target is
\* left out whatever it depends on.
prunedAlways(targetDepSet, depGraph, iid) ==
    /\ instances[iid].status = INSTANCE_EXECUTED
    /\ iid \notin targetDepSet

\* The test of addInstance that leaves an instance out of the graph.
pruned(targetDepSet, depGraph, iid) ==
    /\ instances[iid].status = INSTANCE_EXECUTED
    /\ iid \notin targetDepSet
    /\ ~Connected(instances, targetDepSet, depGraph, instances[iid].deps)

\* The status read of line 82 on a dependency the manager holds no
\* instance for: a nil pointer.
derefsNil(targetDepSet, iid) ==
    /\ instances[iid].status = INSTANCE_EXECUTED
    /\ iid \notin targetDepSet
    /\ \E dep \in ToSet(instances[iid].deps) : instances[dep] = Nil

\* One visit: the loop of the innermost call reaches a dependency that is
\* not in the graph.  Without an instance for it in depMap the walk ends
\* with an error; otherwise addInstance is called for it, reads it and its
\* dependencies, and leaves it out or adds it and goes through its
\* dependencies in turn.
Visit(t) ==
    /\ Walk(t).pc = "walk"
    /\ Walk(t).stack # <<>>
    /\ LET w    == Walk(t)
           iid  == Head(Last(w.stack))
           rest == Front(w.stack) \o <<Tail(Last(w.stack))>>
           deps == instances[iid].deps
           targetDepSet == NewInstanceIDSet(instances[w.target].deps)
           depGraph     == (iid :> deps) @@ w.depGraph
           failed == ~(iid \in w.depMap /\ ~derefsNil(targetDepSet, iid))
       IN  \/ /\ failed
              /\ Becomes(t, [Idle EXCEPT !.err = IF iid \in w.depMap THEN "panic"
                                                 ELSE "unknown"])
           \/ /\ ~failed
              /\ pruned(targetDepSet, w.depGraph, iid)
              /\ Becomes(t, [w EXCEPT !.depMap = GetMap(@, deps),
                                      !.stack = Pending(rest, w.depGraph)])
           \/ /\ ~failed
              /\ ~pruned(targetDepSet, w.depGraph, iid)
              /\ Becomes(t, [w EXCEPT !.depMap = GetMap(@, deps),
                                      !.depGraph = depGraph,
                                      !.stack = Pending(rest \o <<deps>>, depGraph)])
    /\ UNCHANGED <<agreed, instances, executed>>

\* The walk is over: TarjanSort, the sort of each component, and
\* getUncommittedInstances, which finds nothing.
Sort(t) ==
    /\ Walk(t).pc = "walk"
    /\ Walk(t).stack = <<>>
    /\ \E tSorted \in TarjanSort(Walk(t).depGraph) :
          Becomes(t, [Walk(t) EXCEPT !.pc = "chain", !.pos = 1,
                                     !.exOrder = exOrder(instances, tSorted)])
    /\ UNCHANGED <<agreed, instances, executed>>

\* An iteration of executeDependencyChain reads the status of the instance
\* it is at: an executed instance is passed over, the target as well, and
\* a committed one goes to applyInstance.
ChainRead(t) ==
    /\ Walk(t).pc = "chain"
    /\ LET w   == Walk(t)
           iid == w.exOrder[w.pos]
       IN  \/ /\ w.pos > Len(w.exOrder)
              /\ Becomes(t, Idle)
           \/ /\ w.pos <= Len(w.exOrder)
              /\ instances[iid].status = INSTANCE_EXECUTED
              /\ Becomes(t, [w EXCEPT !.pos = @ + 1])
           \/ /\ w.pos <= Len(w.exOrder)
              /\ instances[iid].status = INSTANCE_COMMITTED
              /\ Becomes(t, [w EXCEPT !.pc = "apply"])
    /\ UNCHANGED <<agreed, instances, executed>>

\* applyInstance, under the lock of the instance, applies it unless
\* another goroutine has since the read; the loop ends after the target.
ChainApply(t) ==
    /\ Walk(t).pc = "apply"
    /\ LET w   == Walk(t)
           iid == w.exOrder[w.pos]
       IN  /\ \/ /\ instances[iid].status = INSTANCE_COMMITTED
                 /\ instances' = [instances EXCEPT ![iid].status = INSTANCE_EXECUTED]
                 /\ executed' = Append(executed, iid)
              \/ /\ instances[iid].status = INSTANCE_EXECUTED
                 /\ UNCHANGED <<instances, executed>>
           /\ Becomes(t, IF iid = w.target THEN Idle
                                           ELSE [w EXCEPT !.pc = "chain", !.pos = @ + 1])
    /\ UNCHANGED agreed

Next ==
    \/ \E iid \in Ids : Commit(iid)
    \/ \E t \in Tasks :
          \/ \E iid \in Ids : StartExecute(t, iid)
          \/ Visit(t)
          \/ Sort(t)
          \/ ChainRead(t)
          \/ ChainApply(t)

Spec == Init /\ [][Next]_vars

-----------------------------------------------------------------------------
\* A walk holds instances the manager has, its graph is made of them, and
\* it never ends in the nil pointer of line 82: an instance is executed
\* only after a walk has found all its dependencies.
TypeOK ==
    /\ agreed \in Committed
    /\ instances \in [Ids -> Instance \cup {Nil}]
    /\ executed \in Seq(Ids)
    /\ \A t \in Tasks :
          /\ Walk(t).pc \in {"idle", "walk", "chain", "apply"}
          /\ Walk(t).target \in Ids \cup {Nil}
          /\ Walk(t).depMap \subseteq Known(instances)
          /\ DOMAIN Walk(t).depGraph \subseteq Walk(t).depMap
          /\ Walk(t).stack \in Seq(Seq(Ids))
          /\ Walk(t).exOrder \in Seq(Ids)
          /\ Walk(t).err \in {Nil, "unknown"}

\* The order survives the walk: although a goroutine puts its graph
\* together from reads of different moments, between which the other
\* goroutine executes instances and new commits arrive, every instance is
\* executed once, after every instance the deterministic order of the
\* whole graph puts before it.  What getExecutionOrder and
\* executeDependencyChain do, goroutine against goroutine, is a step of
\* the execution log or no step of it.
Log == INSTANCE ExecutionLog
           WITH log <- executed, store <- <<>>, NumCommands <- [i \in Ids |-> 0]

WalksImplementExecutionLog == Log!Spec
=============================================================================
