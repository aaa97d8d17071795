-------------------------------- MODULE Scope --------------------------------
(***************************************************************************)
(* The scopes of the replicas, a scope being the set of interdependent     *)
(* instances one replica knows, and the entry point of a client request:   *)
(* Scope.ExecuteInstructions and Scope.makeInstance of                     *)
(* src/consensus/scope.go.                                                 *)
(*                                                                         *)
(* makeInstance runs under the scope's lock from its first line to its     *)
(* last, and the replica check before it reads nothing shared, so a call   *)
(* of ExecuteInstructions is one step.  What happens to an instance after  *)
(* it is made is not in scope.go: module Consensus adds the phases of the  *)
(* protocol, and the execution is the environment here.  The dependencies  *)
(* of an instance are the set of the ids its slice holds; module Merge is  *)
(* about their order.                                                      *)
(***************************************************************************)
EXTENDS Instance

CONSTANTS
    Nodes,          \* node ids; the scope of node n answers GetLocalID() with n
    ReplicaLists,   \* the replica lists callers pass to ExecuteInstructions
    ZeroID,         \* the zero value of InstanceID, the id of no instance
    MaxCrashes      \* the number of nodes that may stop

ASSUME ScopeConstantsAreSane ==
    /\ ReplicaLists \subseteq Seq(Nodes)
    /\ ZeroID \notin Ids
    /\ MaxCrashes \in Nat

VARIABLES
    instances,      \* s.instances: id -> instance, Nil for an id not in the map
    inProgress,     \* s.inProgress
    committed,      \* s.committed
    executed,       \* s.executed
    maxSeq,         \* s.maxSeq
    crashed         \* the nodes whose process has stopped

vars == <<instances, inProgress, committed, executed, maxSeq, crashed>>

\* NewScope, for every node: empty maps, maxSeq at its zero value.
Init ==
    /\ instances = [n \in Nodes |-> [i \in Ids |-> Nil]]
    /\ inProgress = [n \in Nodes |-> {}]
    /\ committed = [n \in Nodes |-> {}]
    /\ executed = [n \in Nodes |-> <<>>]
    /\ maxSeq = [n \in Nodes |-> 0]
    /\ crashed = {}

\* The process of node n stops, by a panic or from outside: what it has
\* persisted stays, and it takes no further step.
Crash(n) ==
    /\ Cardinality(crashed) < MaxCrashes
    /\ crashed' = crashed \cup {n}
    /\ UNCHANGED <<instances, inProgress, committed, executed, maxSeq>>

\* Fault: the oldest executed instance instead of the newest.
firstExecuted(ex) == IF ex = <<>> THEN {} ELSE {Head(ex)}

\* executedDeps and the dependency it stands for: the last executed
\* instance, when there is one.
lastExecuted(ex) == IF ex = <<>> THEN {} ELSE {Last(ex)}

\* The ids makeInstance appends: every instance in progress, every
\* committed one and the last executed one.
allInstances(n) == inProgress[n] \cup committed[n] \cup lastExecuted(executed[n])

\* The dependencies makeInstance gives: make() gives the slice its length,
\* filled with zero values, and the appends add the ids after them.
newDependencies(n) ==
    allInstances(n) \cup IF allInstances(n) = {} THEN {} ELSE {ZeroID}

\* Fault: the instance is not put into s.inProgress.
makeInstanceUnindexed(n, iid) ==
    /\ maxSeq' = [maxSeq EXCEPT ![n] = @ + 1]
    /\ instances' = [instances EXCEPT ![n][iid] =
          [leader |-> n, deps |-> newDependencies(n), seq |-> maxSeq'[n],
           status |-> INSTANCE_PREACCEPTED, ballot |-> 0, noop |-> FALSE]]
    /\ UNCHANGED <<inProgress, committed, executed, crashed>>

\* makeInstance, iid being the new id of NewInstanceID(): the instance
\* takes the next sequence number and is led by this node; MaxBallot and
\* Noop keep their zero values.  Persist returns nil.
makeInstance(n, iid) ==
    /\ maxSeq' = [maxSeq EXCEPT ![n] = @ + 1]
    /\ instances' = [instances EXCEPT ![n][iid] =
          [leader |-> n, deps |-> newDependencies(n), seq |-> maxSeq'[n],
           status |-> INSTANCE_PREACCEPTED, ballot |-> 0, noop |-> FALSE]]
    /\ inProgress' = [inProgress EXCEPT ![n] = @ \cup {iid}]
    /\ UNCHANGED <<committed, executed, crashed>>

\* The ids no scope has used: NewInstanceID() returns one of them.
Unused == { i \in Ids : \A n \in Nodes : instances[n][i] = Nil }

\* ExecuteInstructions at node n.  make() panics on the capacity -1 of an
\* empty replica list; a list without the local node, or with it more
\* than once, is answered with an error, which changes nothing; then the
\* instance is made.  (The consensus phases that follow are not in
\* scope.go: the call returns nil, nil.)
ExecuteInstructions(n, replicas) ==
    LET remoteReplicas == SelectSeq(replicas, LAMBDA r : r # n)
    IN  \/ /\ replicas = <<>>
           /\ Crash(n)
        \/ /\ replicas # <<>>
           /\ n \notin ToSet(replicas)
           /\ UNCHANGED vars
        \/ /\ n \in ToSet(replicas)
           /\ Len(remoteReplicas) # Len(replicas) - 1
           /\ UNCHANGED vars
        \/ /\ n \in ToSet(replicas)
           /\ Len(remoteReplicas) = Len(replicas) - 1
           /\ \E iid \in Unused : makeInstance(n, iid)

\* The environment: a committed instance is executed once the instances it
\* depends on are, the zero ids aside.
Execute(n, iid) ==
    /\ iid \in committed[n]
    /\ instances[n][iid].deps \ {ZeroID} \subseteq ToSet(executed[n])
    /\ instances' = [instances EXCEPT ![n][iid].status = INSTANCE_EXECUTED]
    /\ committed' = [committed EXCEPT ![n] = @ \ {iid}]
    /\ executed' = [executed EXCEPT ![n] = Append(@, iid)]
    /\ UNCHANGED <<inProgress, maxSeq, crashed>>

-----------------------------------------------------------------------------
\* The instances node n knows.
Known(n) == { i \in Ids : instances[n][i] # Nil }

\* The comment on Instance.Dependencies: they are the ids of other
\* instances.  makeInstance must hand the protocol dependencies that name
\* instances some scope has made.
DependenciesAreInstances ==
    \A n \in Nodes : \A i \in Known(n) : instances[n][i].deps \subseteq Ids \ Unused
=============================================================================
