# Model checking kickboxer's consensus core

This directory holds TLA+ models of the consensus core of kickboxer (an
EPaxos-style replicated store written in Go), the TLC configurations that
check them, and `PROJECT.json`, which lists every component, run, mutant,
source mapping, finding and hazard in machine-readable form.

Run any check from this directory:

    tlc -workers 2 -config MCExecuteSafety.cfg MCExecute

## 1. The system

| Part | Source | State | Operations |
|---|---|---|---|
| Instance | `consensus/instance.go` | id, leader, commands, dependencies, sequence, status, ballot, noop, timeouts | `mergeAttributes`, id-set and instance-map helpers, serialization |
| Scope | `consensus/scope.go` | `instances`, `inProgress`, `committed`, `executed`, `maxSeq` | `NewScope`, `makeInstance`, `ExecuteInstructions`, `Persist` |
| Execution engine | `consensus/manager_execute.go` | the manager's maps, per-goroutine order and position, execute events and timeouts | `executeInstance`, `getExecutionOrder`, `getUncommittedInstances`, the prepare loop, `executeDependencyChain`, `applyInstance` |
| Leader phases, recovery | tests only (`scope_prepare_test.go`, `scope_accept_test.go`) | ballots, responses | PreAccept, Accept, Commit, Prepare |
| Dependency manager | test only (`manager_dependencies_test.go`) | tree of last reads and writes per key | `GetAndSetDeps` |
| Stores | `kvstore/store.go`, `redis/store.go`, `redis/value.go` | key to value | instruction dispatch, reconciliation |
| Mocks | `consensus/testing_mocks.go` | recorded instructions, message handlers | `ApplyQuery`, `SendMessage` |
| Cluster entry, topology | `cluster/consensus.go`, `topology/node.go` | none | `executeConsensusInstruction` (a panic where the request should be forwarded), interfaces |

How they interact. A client request enters through `ExecuteInstructions`, which
makes an instance (`makeInstance`). The leader phases make the replicas agree
on the instance's attributes (sequence number and dependencies, merged with
`mergeAttributes`) and commit it. Every replica then executes committed
instances: `executeInstance` computes an order over the dependency graph,
prepares (recovers) what is not yet committed, and walks the order applying
each instance's commands to the store exactly once.

What makes it hard. Leaders propose at the same time, each knowing only its
own scope; requests and responses are lost or arrive after later ones; a
leader stops between two phases and another node finishes its instance from
what a majority remembers. Several goroutines execute overlapping dependency chains
at once while message handlers commit instances and change their
dependencies; the order is computed, then used, with nothing held in between;
`applyInstance` checks the status outside the instance lock and again inside;
a goroutine waits for another's execute event or for a timeout; the store and
persistence can fail halfway through an instance.

What must hold:

* the replicas that commit an instance commit the same sequence number,
  dependencies and command;
* two committed commands of a scope are ordered by their dependencies;
* the status and the ballot of an instance never go back, and a committed
  instance never changes;

* every command of an executed instance is applied exactly once, none of a
  noop, none of an instance that is not executed;
* an instance is executed after the instances it depends on, and every
  replica executes in the same order: strongly connected components of the
  dependency graph, dependencies first, each component sorted by (sequence,
  timestamp of the id, id bytes);
* the manager's indexes (`inProgress`, `committed`, `executed`) agree with the
  statuses of the instances;
* `executeInstance` returns, with the value of its target;
* the dependencies of a new instance name instances;
* replicas that merged the same proposals hold the same attributes;
* what a replica reads from a connection is an instance that was written to
  it, whole;
* replicas that executed the same instances hold the same data;
* the instructions a reconciliation returns repair the stores they are for;
* a value, serialized and read back, is the value, and a part of its bytes
  is an error.

## 2. Modules

| Module | Models | Checked through |
|---|---|---|
| `Instance` | status values, id sets, the instance record, `mergeAttributes` | every other module |
| `Wire` | the serializers of instructions and instances | `MCMerge` |
| `KVStore` | `ExecuteInstruction`, the classification of instructions, `InterferingKeys`, `Reconcile`, the reads of raw keys | `MCReplicas` |
| `RedisStore` | `ExecuteRead`, `ExecuteWrite`, the classification of commands, `Reconcile`, the data import and export, the three types of value and their serialization | `MCReplicas` |
| `ExecutionOrder` | `iidSorter.Less`, `getExecutionOrder` and its closure `addInstance`, `getUncommittedInstances`, and the reference order | `MCExecute` |
| `Execute` | `executeInstance`: the prepare loop, `executeDependencyChain`, `applyInstance`, with the handlers and the clock as environment | `MCExecute` |
| `ExecutionLog` | the abstract specification of execution: a log that every instance enters once, after its predecessors, its commands applied in the same step | `Execute` (`ImplementsExecutionLog`) |
| `OrderWalk` | `getExecutionOrder` visit by visit and `executeDependencyChain` iteration by iteration, two goroutines against each other and against arriving commits | `MCOrderWalk` |
| `Replicas` | several replicas, each executing call by call the instances consensus committed, learnt in any order, and applying them to its store; the dependency manager behind the classification of instructions of that store | `MCReplicas` |
| `Dependencies` | the dependency manager: the tree of nodes, `getLocalDeps`, `GetAndSetDeps` | `MCReplicas` |
| `Scope` | `NewScope`, `makeInstance`, `ExecuteInstructions`, for the scope of every node | `MCConsensus` |
| `Consensus` | the phases of the protocol between the scopes: PreAccept with its fast and slow path, Accept, Commit, Prepare, and `executeConsensusInstruction` | `MCConsensus` |
| `Merge` | replicas reading the messages about one instance from a connection and merging the proposals in any order | `MCMerge` |

### Correspondence with the code

Instance ids are natural numbers in the modules of the execution, where they
are sorted. The code compares ids for equality, reads
the timestamp embedded in the UUID and compares bytes; the order of the
numbers stands for the byte order and the constant `IdTime` for the
timestamp. A slice built by ranging over a Go map is any permutation of the
map's keys (`List`).

`ExecutionOrder` is a set of operators over the instance map.
`addInstance` is the recursive closure of `getExecutionOrder`, including the
test that drops an executed instance and its two failures: the error for an
unknown id, and the nil dereference (`depMap[dep].getStatus()`) when an
executed instance has a dependency the replica does not hold. `TarjanSort` is
not in the sources; it is modelled from what it promises, as every sequence of
the strongly connected components in which no component comes before one it
depends on. `getExecutionOrder` is therefore a set of possible results.

`Execute` has one record per goroutine in `executeInstance` with a program
counter, and one action for each stretch of code between two points at which
another goroutine can change what is read next:

| Action | Code (`manager_execute.go`) |
|---|---|
| `StartExecute` | call of `executeInstance` (399-401) |
| `GetExecutionOrder` | `getExecutionOrder` and its error return (291-294, 380-383); the nil dereference of line 82 is a panic that ends the process (`Panic`): every goroutine stops and no message is handled any more (`Alive`) |
| `GetUncommitted` | `getUncommittedInstances` and the loop test (298-300, 384) |
| `PrepareCommitted`, `PrepareCommits`, `PrepareBallotError`, `PrepareError` | one attempt of a prepare goroutine, by the result of `preparePhase` (310-353) |
| `PrepareCommitEvent`, `PrepareTimeout` | the `select` after a ballot error (334-342) and the end of the iteration (354-358) |
| `PrepareJoin` | `wg.Wait()`, the read of the error channel, the next round (363-384) |
| `ChainApply`, `ChainWait`, `ChainSkip`, `ChainEnd` | one iteration of `executeDependencyChain` by status, target, leader and grace period (231-281) |
| `WaitExecuteEvent`, `WaitExecuteTimeout` | the `select` on the execute event and the timeout (256-266) |
| `ApplyCheck` | the status check of `applyInstance` before the lock (163-167) |
| `ApplyRecheck`, `ApplyStoreError`, `ApplyLocked` | the critical section (169-209): second check, store error, or commands applied, status set, indexes moved, `Persist` |
| `Broadcast` | `broadcastExecuteEvent` and the end of the iteration (216, 275-278) |

`getExecutionOrder` takes each instance's lock only while it reads that
instance; `Execute` takes the whole call as one step and keeps the window
between that call and `getUncommittedInstances`. `OrderWalk` opens the call:

| Action | Code (`manager_execute.go`) |
|---|---|
| `StartExecute` | the target's dependencies, the first `GetMap`, the call of `addInstance` for the target (56-66, 115) |
| `Visit` | one call of `addInstance` (67-108): the read of the dependencies and `GetMap` (68-69), the test that leaves an executed instance out (76-90), the loop to the next dependency that is not in the graph (92-107), the error for a dependency without an instance (99) |
| `Sort` | `TarjanSort`, the sort of the components, the last check (120-140) |
| `ChainRead` | the status read of an iteration of `executeDependencyChain` (229-235): an executed instance is passed over, the target too (269-270) |
| `ChainApply` | `applyInstance` under the lock of the instance, which applies nothing when another goroutine has executed the instance since the read, and the break after the target (236-281) |

The walk keeps the open calls of `addInstance` as a stack of the dependencies
each has still to look at. `depMap` is the set of ids the walk holds an
instance for; the instances themselves are shared with the manager, so a
status is read when the visit reads it. In `OrderWalk` instances reach the
replica committed and with the agreed attributes, the store accepts every
command and `Persist` succeeds: the prepare loop, the events and the errors
are `Execute`'s.

The environment of `Execute` (`PreAccept`, `Accept`, `Commit`, the successful
`preparePhase`, `Tick`) is written from the specification, because the
handlers are not in the sources. Each gives an instance attributes from the
constant `Attrs`; with `AttrsMayChange` the attributes may differ from message
to message, as they do between PreAccept and Commit, without it an instance
keeps the attributes it was first seen with. `executeInstance` is called for
committed instances, by any number of goroutines at once.

`Replicas` gives every replica its own instance map and log. Consensus is a
constant: one of the graphs of `Committed` is chosen at the start, and
`Commit` hands a replica an instance of it, the dependencies in any order
(`List`). `ExecuteInstance` is a whole call of `executeInstance` by a single
goroutine when nothing is left to prepare: `getExecutionOrder`, then
`executeDependencyChain` as a fold over the order. A call that ends with an
error (a dependency not yet learnt) changes nothing and is not a step. Every
instance has one instruction, given by the workload chosen at the start, and
`executeDependencyChain` applies it with `ApplyQuery`, which "executes a query
against the local store" (`testing_mocks.go:69`). The store is chosen at the
start (`engine`): `ApplyQuery` is `ExecuteInstruction` of `KVStore`, or
`ExecuteWrite` of `RedisStore` for a command `IsWriteCommand` accepts and
`ExecuteRead` for any other. An instruction the store rejects ends the chain
and leaves its instance committed.

`Dependencies` is the dependency manager as operators; its code is not in
the sources, and the definitions follow section 4.2 of the specification
and, where the two differ, `TestIntegration` of
`manager_dependencies_test.go`. A
key is its path of segments (`Segments`, since a string cannot be split in
the model), the tree is the function from the paths of the nodes made so far
to the `lastWrite` and `lastReads` of each, and `GetAndSetDeps` gives the
dependencies and the tree after the call: the nodes of the path made where
they are missing, `getLocalDeps` of every node of the path and of every
node below it (`subDeps`): the last write, and for a write the reads. A
write then clears the nodes below (`clears`), and the node of the key gets
one more read or the write alone (`update`). Step 3 of the specification
looks below the node for a write only; the test has a read of `a:b` receive
the writes of `a:b:c` and `a:b:c:d`, and the module follows the test. A call is one evaluation,
as under the lock of the manager. `Managed` folds `GetAndSetDeps` over a
history of requests; `Requested` of `Replicas` makes the requests from
instructions, read-only when `IsReadOnly` of `KVStore` or `IsReadCommand` of
`RedisStore` says so. What the manager does over all histories does
not depend on the state of the replicas: `Recording` and `Clearing` are the
stores for which it holds, constants that TLC works out once, and the
invariants ask that the store of the behaviour is among them.

`KVStore` is the store as operators from the data before to the data after,
the value and the error. `ExecuteInstruction` dispatches on the command as it
is written, `IsReadOnly` and `IsWriteOnly` on the command in upper case. `get`,
`set`, `del` and the validations are not in the sources; they are written from
`cmd_del_test.go` and `store/redis_test.go`: `set` writes the value unless
the key holds something of a higher timestamp, which it leaves and answers
with (`TestSetConflictingTimestamp`), `del` leaves a tombstone where the key
held something and writes nothing where it held nothing. `Reconcile` is the
set of what it may return: with no value an error, with one the value, with
several the reconciliation of the type of the newest, for every newest value
when several have the highest time (`getHighValue` is not in the sources). The
reconciliation of a type is written from `val_tombstone_test.go`: the newest
value, and for every holder of another value one instruction, `SET` with the
data or `DEL`, of the time of the newest.

`RedisStore` is the store of `redis/store.go` in the same form, with the
values of `redis/value.go`. A serialized value is a sequence of fields: the
type, then the data and the time of a string, the time of a tombstone, the
number of keys and the keys of the answer to a delete. `ReadRedisValue` fails
on an unknown type and when the fields end early. `GetKeys` is a set: the
order of a Go map is no order.

`Wire` is the six serializers of `instance.go`. A buffer is a sequence of
fields, a field being what one call of the serializer package or of
`binary.Write` writes; a decoder fails when the buffer ends before the fields
it asks for. The flags are written as the bytes 255 and 0 and read as
"not 0", and the limited form returns an instance whose timeouts have their
zero value.

`Merge` has one connection at a time, to one replica after the other. `Send`
writes an instance to it, in the limited or in the full form (the two ends
agree on which); `SendFails` is a write of the serializer that fails, which
leaves the fields written before it in the buffer and ends the connection;
`Receive` reads the next instance and merges its sequence number and
dependencies with `mergeAttributes`, or, when the read fails, replaces the
connection.

`Scope` holds the five fields of a scope for every node, and the set of the
nodes that have stopped. It takes a call of `ExecuteInstructions` as one step:
the replica check reads only its arguments, and `makeInstance` holds the scope
lock from its first line to its last. The call has four outcomes: the panic of
`make` with the capacity -1 for an empty replica list (line 88), which stops
the node; the two errors, which change nothing; and the new instance. The
dependencies are a set of ids, the zero id among them (`newDependencies`).
Ids are model values here: a scope compares ids for equality only. Execution
of the instances is not in `scope.go` and is the environment (`Execute`).

`Consensus` adds the network and the phases. Their code is not in the sources;
the module is written from the specification (sections 4.3 to 4.5 and 6) and
from the calls and results `scope_prepare_test.go` expects, and marked so in
the map, with one exception: `executeConsensusInstruction` of
`cluster/consensus.go`.

| Action | Specification |
|---|---|
| `executeConsensusInstruction` | `cluster/consensus.go:71-86`: the panic of a node that is not a replica of the key stops the node |
| `Propose` | `ExecuteInstructions` (Scope) and the PreAccept requests of the new instance |
| `HandlePreAccept` | the replica merges its own sequence number (`maxSeq + 1`) and dependencies (what `makeInstance` would name) into the proposal, stores and answers with the result |
| `FastPath`, `SlowPath` | the leader has the responses of a fast quorum: all as proposed, commit; any divergence, union and maximum (`mergeAttributes`) to the accept phase |
| `HandleAccept`, `AcceptPhase` | the replica overwrites its attributes; a majority accepted, commit |
| `HandleCommit` | the replica commits with the attributes of the request; an announcement, no response |
| `SendPrepare`, `HandlePrepare` | a node that holds an uncommitted instance whose commit timeout has fired (the leader has stopped, or `Timeouts`) raises the ballot and asks; a replica accepts a higher ballot and answers with its instance, and answers for an instance it does not know with none (`PrepareReplicaTest`) |
| `BallotError` | a rejected prepare: the node takes the ballot of the replica and, if the replica has accepted or committed, its instance (`TestBallotFailure`, `TestAcceptStatusUpdate`, `TestCommitStatusUpdate`) |
| `PrepareNoop`, `PreparePreAccepted` | the responses of a majority know nothing of the instance (it becomes a no-op, `TestUnknownInstance`) or have preaccepted it at most: the node runs the preaccept phase again (`PreAccepts`), which ends in `FastPath` or `SlowPath` like that of a leader (`TestPreAcceptedSuccess`, `TestPreAcceptedChangeSuccess`) |
| `PrepareAccepted`, `PrepareCommitted` | the instance that leads (`Leading`) is accepted: accept phase, then commit (`TestAcceptSuccess`); committed or executed: commit (`TestCommitSuccess`, `TestExecutedSuccess`) |
| `Executes`, `Stops` | the environment: execution of a committed instance whose dependencies are executed; a node stops |

`msgs` is the set of requests and responses sent so far. Nothing is ever taken
from it: a message is handled at any later moment or never, which is loss and
reordering, and a node that has stopped handles nothing. A replica answers a
request once (`Answered`); a commit may be handled again and again, and is
skipped by a replica that has committed. A handler and its response are one
step.

Where the specification leaves a choice, the module takes these readings.

* The fast quorum is ⌈3N/4⌉. The specification equates it with
  F + ⌊(F+1)/2⌋, which is 2 and not 3 for three replicas. With the smaller
  one a leader commits on the fast path with one response and stops, the
  node that recovers hears of the instance from no replica of its majority
  and commits a no-op, as `TestUnknownInstance` has it do: the recovery of
  the tests is safe with ⌈3N/4⌉ only (`FastQuorumOfMajority` is the mutant
  of `Agreement`). With three replicas both paths of the preaccept phase
  therefore wait for every replica.
* A handler rejects a request of a lower ballot and one that would take the
  status back.
* The instance that leads a recovery (`Leading`) is that of the responses of
  the highest status (`analyzePrepareResponses`), with the ballot of the
  node, unless the node itself is further than all of them: a node that has
  accepted does not go back to what a replica has preaccepted.
* The second phase of the prepare does what `scope_prepare_test.go` expects
  of it: for a preaccepted or unknown instance a preaccept phase, then the
  accept phase if that asks for one, then the commit. The specification's
  direct commit of a no-op and of a preaccepted instance with ⌊N/2⌋
  identical responses (scenarios 3 and 4) is not what the tests call for,
  and with it a recovery commits other attributes than a leader that went
  the slow path.
* The deferral of a recovery to the successors of the leader is not in the
  sources; `MaxPrepares` bounds the prepares of a behaviour in its place.

## 3. Runs

| Run | Configuration | Result | Distinct states |
|---|---|---|---|
| `exec_safety` | `MCExecuteSafety.cfg` | `TypeOK`, `AppliedExactlyOnce`, `ChainFindsCommitted` hold | 700,587 |
| `exec_order` | `MCExecuteOrder.cfg` | `DirectDepsFirst`, `ExecutedInReferenceOrder`, `ImplementsExecutionLog` hold | 1,359,702 |
| `exec_liveness` | `MCExecuteLive.cfg` | `ExecuteReturns` holds | 7,959 |
| `order_walk` | `MCOrderWalk.cfg` | `TypeOK`, `WalksImplementExecutionLog` hold | 1,649,120 |
| `replicas_agree` | `MCReplicas.cfg` | `TypeOK`, `ReplicasAgree`, `StoresAgree`, `RepairConverges`, `ValuesSurviveTransfer`, `ManagerRecordsInterference`, `DependencyClearingLaw` hold | 755,892 |
| `consensus` | `MCConsensus.cfg` | `TypeOK`, `Agreement`, `Ordered`, `InstancesAdvance` hold | 556,848 |
| `consensus_timeout` | `MCConsensusTimeout.cfg` | `Agreement`, `InstancesAdvance` hold | 13,860 |
| `merge_order` | `MCMerge.cfg` | `TypeOK`, `MergedInAnyOrder`, `ReadsWhatWasWritten` hold | 2,355,198 |
| `exec_stale_order` | `MCExecuteStale.cfg` | `DirectDepsFirst` violated | |
| `replicas_diverge` | `MCReplicasCycle.cfg` | `ReplicasAgree` violated | |
| `exec_value` | `MCExecuteValue.cfg` | `TargetValueReturned` violated | |
| `scope_zero_deps` | `MCConsensusDeps.cfg` | `DependenciesAreInstances` violated | |

Two further configurations are kept beside the runs, each for one result
reported below: with `MCExecuteReplay.cfg` (module `MCExecute`)
`AppliedExactlyOnce` is violated, with `MCConsensusRecoveries.cfg` (module
`MCConsensus`) `Agreement` is.

### What holds

`exec_safety`: two goroutines, three instances, attributes that change up to
the commit, one command the store rejects, `Persist` that may fail, one
instance led by this replica (so that the grace period and the execute event
come into play). The indexes always agree with the statuses, `executed` never
holds an instance twice, and the store has applied exactly the commands of the
executed instances, once each, although both goroutines can be between the
unlocked check and the lock of `applyInstance` for the same instance. The
chain never meets an uncommitted instance: once the prepare loop has seen
every instance of an order committed, none goes back.

`exec_order`: the same two goroutines over the dependency graphs of
`MCAttrsGraphs` (twelve combinations, among them chains, a cycle of two and a
cycle of three, with dependencies listed in either order and sequence numbers
that disagree with the timestamps), attributes fixed once an instance is
known. Execution respects direct dependencies and the reference order of the
whole graph, although each goroutine sorts only the part of the graph that the
pruning leaves and stops at its own target. The same run checks the
refinement: `Execute` implements `ExecutionLog` under the mapping
`log <- executed`, `store <- applied` (the instances are shared, the
goroutines, indexes, events and timers are hidden). Every step of the engine
is a stuttering step of the log, a `Learn` step (a handler or a prepare
changes an instance that is not executed), or one `Execute` step, which
`ApplyLocked` is: status, log and store change together, and every instance
the reference order puts before the executed one is already in the log.

`exec_liveness`: under the fairness below, every call of `executeInstance`
returns. The prepare loop ends because an attempt either commits the instance
or uses up one of `BALLOT_FAILURE_RETRIES`; a goroutine that waits for the
execute event of an instance led here is released by the timeout when the
event never comes (the goroutine that applied the instance got an error from
`Persist` and did not broadcast).

`order_walk`: two goroutines, three instances, every dependency graph of
`replicas_agree`, commits that arrive while the goroutines walk. A walk reads
an instance that the other goroutine executes a moment later, or has just
executed, and instances that were not there when the walk began; its graph is
the graph of no single moment. Still no walk reaches the nil pointer of line
82 (an executed instance has all its dependencies known, because each was
executed after a walk found them), and `OrderWalk` implements `ExecutionLog`
under `log <- executed`: every instance is executed once, and after every
instance the reference order of the whole graph puts before it.

`replicas_agree`: two replicas, three instances, every one of the 512
dependency graphs without self-dependency and with sequence numbers 1 or 2
(so that the sort by sequence number, by timestamp and by id each decide some
component). The commits reach each replica in any order, and each replica is
asked for any target as soon as it can execute it, so the replicas compute
their orders over different parts of the graph and with different instances
already executed. Two instances of which one depends on the other are
executed in the same order by both. Instances that do not depend on each
other may be executed in either order, and are. Each graph is run with both
stores and three workloads: three writes of one key, two of them of one time,
writes of two keys that begin with a delete, and a write, a write in lower
case that the store rejects, and a read. When the graph records the interference the store reports (of two
instructions on a common key, one a write, one instance depends on the
other, directly or through a third), replicas that have executed the same instances
hold the same data, although `del` overwrites whatever is there, `set`
whatever is not newer, and the replicas apply the instructions that do not interfere in different orders.
In every state reached, whatever the replicas hold for a key (a string
against a tombstone, two values of one time, a value on one replica only),
`Reconcile` returns a value no replica holds a newer one than, and the
instructions it returns, applied through `ApplyQuery`, leave each replica
with that value (`RepairConverges`): the stores accept what their own
`Reconcile` writes. Every value a replica of the redis store holds or would
answer, the answers to deletes with no key and with one among them, comes
back from `ReadRedisValue(WriteRedisValue(v))` with its type, every proper
part of its bytes is an error, and a store filled with `SetRawKey` from the
serialized values of `GetKeys` is the store exported, tombstones included
(`ValuesSurviveTransfer`). Both are statements about the state a replica has
reached by executing; a repair or a transfer is not a step of the model, and
what a repair does to a replica that executes on between the read and the
correction is not shown.

`consensus`: three replicas that have executed one instance, two new
instances, any node the leader of either, one node that may stop at any
moment, two prepare phases for the instances of a leader that has stopped.
The maps of every scope say what its instances say after every handler, and
`maxSeq` is never below a sequence number the scope holds. Every node that
holds a command committed holds it with the same sequence number and
dependencies, and a no-op is a no-op everywhere (`Agreement`): the leader,
the replicas its commit reaches, whatever they held before (their own merged
view of a preaccept, the attributes of an accept that came late), and a node
that recovered the instance. A recovery commits what an accept or a commit
it hears of carries, or what it holds itself when that is further; a
preaccepted instance it cannot commit while the leader is down, since its
preaccept phase needs all three replicas. Two committed commands are
ordered: one is reached from the other along dependencies. Between two
instances proposed at the same time this is because the slow path takes the
union over a fast quorum that, with three replicas, is all of them; between
a new instance and the instance executed first it is the path over the last
executed instance, since `makeInstance` names no other. No step takes a
status or a ballot back or changes a committed instance
(`InstancesAdvance`): a preaccept or an accept that arrives after the commit
is rejected by the status, a prepare of a stale ballot by the ballot, and a
recovering node that has accepted does not take up the preaccepted instance
of a response.

`consensus_timeout`: one new instance between the three replicas, whose
commit timeout may fire at any node that holds it, the leader included,
while the leader runs; ballots up to 2, one prepare. The preaccept phase of
the recovery races that of the leader, at a higher ballot: the recovery of
an instance no replica of the majority knows commits a no-op, that of a
preaccepted instance commits it with sequence numbers the second preaccept
raised, and what the leader commits is the same. One node may stop as well. Both properties hold; with two prepares `Agreement`
does not (below).

`merge_order`: two replicas that have merged the same proposals hold the same
sequence number and the same set of dependencies, in whatever order and
however often the proposals were merged, and the dependencies never name an
instance twice. The proposals arrive as serialized instances, with zero, one
and two commands of zero to two arguments, zero to two dependencies and every
flag set and clear, up to two in the buffer, and a write may fail after any
field: what a replica reads is the oldest unread instance, field for field
(without the timeouts in the limited form), and a read fails only on what a
failed write left.

The dependency manager establishes that premise for the instances of one
leader (`ManagerRecordsInterference`). Over every history of four
instructions (a read, a read in lower case or a write of `a`, `a:b`, `a:c`
or `a:b:c`) and the three workloads in every order, with the classification
of either store, an instance acknowledges, directly or through the instances
between them, every earlier instance whose instruction the store reports as
interfering with its own, and every earlier instance of a key above or below
its own when one of the two is a write.
The dependencies are not direct: the third write of a key depends on the
second alone, and after a write of `a` an instance of `a:b` reaches the
earlier instances of `a:b` only through that write, which reported them and
then cleared their node. The clearing is the other half
(`DependencyClearingLaw`, section 8 of the specification): no instance of a
key below a write depends on an instance made before the write for a key
below it.

### What does not hold

* **Stale execution order** (`exec_stale_order`, `manager_execute.go:298`).
  The order is computed from the dependencies at line 291 and the statuses are
  read at line 298. A commit that lands in between and adds a dependency to an
  instance of the order leaves everything committed, so the prepare loop (and
  the recomputation inside it) is skipped and the instance is executed before
  the new dependency. In the larger configuration the same window leads to the
  nil dereference at line 82: an instance executed before a dependency the
  replica has not seen.
* **Pruning splits a component** (`replicas_diverge`, `manager_execute.go:86`).
  With a cycle 1 → 3 → 4 → 2 → 1 whose sorted order is 1, 2, 3, 4: executing 2
  applies 1 and 2 (they sort first and the chain stops at its target);
  executing 3 then finds 2 executed with its only dependency executed, drops
  it, sees no cycle and executes 4 before 3. A replica that executes 3 first
  applies 1, 2, 3 and later 4: the logs are 1, 2, 4, 3 and 1, 2, 3, 4. The
  pruning looks one dependency ahead; the specification asks for the
  component of an unexecuted instance to be kept whole. Three instances are
  not enough to show it, which is why `exec_order` and `replicas_agree` pass.
* **Value of the target lost** (`exec_value`, `manager_execute.go:270`). When
  another goroutine applied the target after the grace period, the client's
  goroutine finds it executed and returns no value and no error.
* **Replay after a store error** (`MCExecuteReplay.cfg`,
  `manager_execute.go:187`). A store error on the second command of an
  instance leaves the first applied and the instance committed; the next
  execution applies the first again.
* **Zero-valued dependencies** (`scope_zero_deps`, `scope.go:58`).
  `make([]InstanceID, n)` followed by `append` gives a new instance n empty
  ids before the n real ones.
* **Two recoveries at one ballot** (`MCConsensusRecoveries.cfg`, not one of
  the runs; `scope_prepare_test.go:750`). A ballot is a counter each node
  increments by itself. The leader and a replica both time out on a
  preaccepted instance and prepare it at ballot 1. The third replica does
  not know the instance and accepts both prepares, keeping nothing of
  either (`TestUnknownInstance` of `PrepareReplicaTest`). Each makes the
  instance a no-op or takes it up as it is, and runs the preaccept phase at
  ballot 1; a preaccept is rejected by a higher ballot only, so the replicas
  answer both. One phase ends on the fast path, the other on the slow path
  with attributes a replica has raised meanwhile, and two nodes commit the
  instance differently: in the shortest trace two no-ops of different
  sequence numbers, in a longer one a no-op and the command. The specification has a node defer to the
  successors of the leader before it prepares, which "bounds the number of
  concurrent recovery runs" without making them one; neither the deferral
  nor the phases are in the sources.
* **The two fast quorums of the specification.** Section 4.3 writes the fast
  quorum as F + ⌊(F+1)/2⌋ = ⌈3N/4⌉, which are 2 and 3 for three replicas.
  With 2, the mutant of `Agreement` in the run `consensus`, a leader commits
  on the fast path and stops, and the recovery, which hears of the instance
  from nobody, commits a no-op.
* **Reads and the writes of the keys below**
  (`manager_dependencies_test.go:191`). `TestIntegration` expects a read of
  `a:b` to depend on the last writes of `a:b:c` and `a:b:c:d`. Step 3 of
  `GetAndSetDeps` in the specification reports the nodes below the terminal
  node "if the instance is a write". `Dependencies` follows the test; the
  step of the specification is the mutant of `ManagerRecordsInterference`,
  which it violates with the history of a write of `a:b` and a read of `a`.
  Both stores report interference for one key only, so nothing they hold
  depends on the difference.

## 4. Bounds

| Constant | Value | Why it is enough |
|---|---|---|
| `Ids` | 3 (4 in `replicas_diverge`, 2 where a pair shows the case) | three instances give chains, both cycles and a dependency outside a cycle; the pruning needs four |
| `Tasks` | 2 | every race in the engine is between two goroutines on one instance |
| `LocalLed` | `{1}` | one instance with a grace period reaches the wait, the event and the timeout |
| `BALLOT_FAILURE_RETRIES` | 1 (2 in `exec_liveness`) | one attempt reaches every result of `preparePhase` and the exhaustion of the retries; two reach the retry after a wait |
| `NumCommands` | 1 (2 in `MCExecuteReplay.cfg`) | a second command is needed only for a store error after an applied command |
| `PersistOutcomes` | `{TRUE, FALSE}` in `exec_safety` and `exec_liveness` | `Persist` succeeds or fails |
| `Replicas` | 2 | agreement is a property of pairs of logs |
| `Committed` | all 512 graphs of three instances (one cycle of four in `replicas_diverge`) | every shape of three instances; the cycle of four is the smallest graph the pruning splits |
| `Messages` | 5 | differing sequence numbers, differing sets and differing orders of the same set of dependencies; every count of the serializers at zero and above |
| `MaxUnread` | 2 | a read with another instance behind it in the buffer |
| connections of `Merge` | one at a time | replicas do not share a connection, so the reads of one commute with the writes to another |
| failing write | into an empty buffer | part of an instance behind a whole one is read as the whole one, then as the part |
| `Workloads` | 3 | interfering writes of one key, writes that commute, an instruction the store rejects; a string and a tombstone of one time |
| `Engines` | both stores | one store for a behaviour: a cluster has one kind of store |
| `Histories` | every sequence of four of twelve instructions, and the workloads in every order | three keys one below the other and a sibling; four calls reach an instance recorded, cleared by a write above, and looked for by an instance of its key, with a read or a write between |
| `Nodes` of `Consensus` | 3 | the smallest cluster with a majority short of all; fast quorum 3, majority 2 |
| `Ids` of `Consensus` | one executed at the start, two new (one new in `consensus_timeout`) | two instances proposed at once, or one after the other is executed; the executed one makes `makeInstance` choose among executed instances |
| `ReplicaLists` | the three nodes, one node three times, the empty list | every outcome of `ExecuteInstructions` and of `executeConsensusInstruction` at every node |
| `MaxCrashes` | 1 | a majority of three stays; the stop of a leader is what recovery is about |
| `MaxPrepares`, `MaxBallot` | 2, 1 in `consensus`; 1, 2 in `consensus_timeout` | with a stopped leader, two nodes that recover the same instance at the same ballot (one is rejected and takes the ballot of the replica), or a node each of two instances; against a live leader one recovery at a ballot above that of the leader, the phases of the two interleaved |
| client calls | while an id is unused | `NewInstanceID` has to return a new id |
| `Timeouts` | `FALSE` in `consensus`, `TRUE` in `consensus_timeout` | a prepare for an instance whose leader has stopped, or for any uncommitted instance; with two new instances and timeouts at will the state space is beyond ten million states, so the race against a live leader has a run of its own with one instance |

`maxSeq` and the sequence numbers are bounded by the ids and the prepares: a
new instance needs an unused id, and a preaccept phase of a recovery a
prepare. `MCExecute`, `MCReplicas` and `MCMerge` use the
symmetry of goroutines and of replicas, `MCOrderWalk` that of goroutines; ids
are not symmetric there (their order is part of the sort). `MCConsensus` uses
the symmetry of the nodes and of the two new ids, which the scopes and the
phases only compare for equality.

`MCConsensus` starts from `MCInit`: every scope has executed the instance
`i0`, and no message about it is left. The state is one the three replicas
reach by running one instance to its end; the leader of `i0` is left out of
the record, since nothing reads the leader of a committed instance.

No configuration checks for deadlock: a replica whose instances are all
executed, or a cluster that has used all its ids and finished their phases,
has nothing left to do.
`ExecuteReturns` is what says that no goroutine is left waiting.

## 5. Fairness

`FairSpec` adds weak fairness of each step of a goroutine inside
`executeInstance` (the Go scheduler runs a runnable goroutine, and
`preparePhase`, the store and `Persist` return) and of `Tick` for the
instances led here (the grace period is a deadline on the clock). Nothing is
assumed about the environment: no message has to arrive, nobody has to call
`executeInstance`, no prepare has to succeed.

`Consensus` is checked for safety only. That an instance is eventually
committed needs messages that arrive, timeouts that fire and retries with
their waiting times; the specification gives these as configuration
(`TimeoutError`, "internal phases may retry") and the sources hold no code
that schedules them, so no fairness could be justified from the code.

## 6. Not modelled

* Of the protocol: the deferral of a recovery to the successors of the leader
  (`PrepareSuccessorRequest`), the instances a response reports as missing,
  the grace period before a prepare and the waiting between retries. They
  need the order of the successors and the clocks, which the sources do not
  hold; the tests of the successors are empty.
* Of the dependency manager: the calls of several goroutines, which its lock
  makes one after the other, and the managers of several replicas, whose
  dependencies consensus merges; the model has one manager and one call at a
  time. `makeInstance` of `scope.go` does not use it: it makes every
  instance of the scope a dependency, and `Consensus` follows the code.
* A message handled twice by the same replica, and a node that stops and
  comes back: `Persist` returns nil and writes nothing, so what a restarted
  node would hold is not in the sources.
* `ExecuteInstructions` with an empty replica list panics in `make`
  (`scope.go:88`) before the check that would answer it with an error; the
  model has the panic, and no property speaks of it, because nothing says
  what the answer should be.
* Of both stores: `SerializeValue` and `DeserializeValue`, whose
  `WriteValue` and `ReadValue` are not in the sources (`ValuesSurviveTransfer`
  is stated with `WriteRedisValue` and `ReadRedisValue` of `redis/value.go`),
  `ReturnsValue`, which nothing in the sources calls, and the lock. Of
  `kvstore/store.go` also `SetRawKey` and `GetKeys`.
* Read repair and data transfer as steps. Their callers, the query path of
  the cluster, are not in the sources, and the specification leaves that
  layer out. The import and export read and write the map without the lock
  of the store, which is listed as a hazard.
* The bytes inside a field of the serializers (lengths of strings, byte
  order): the serializer package is not in the sources.
* `InstanceIDSet.Add`, `Subtract`, `Contains`, `String` and `InstanceMap`:
  map operations that the modules write as set expressions.
* `topology/node.go`: an interface and an enumeration. Of
  `cluster/consensus.go`, `Command.Equal` and the empty `handlePreAccept`. Of
  the mocks, the constructors and accessors.
* An instance whose command the store rejects stays committed and every
  instance that depends on it fails to execute; the models show it, no
  property forbids it. An instruction in lower case is such a command: the
  store classifies it as a write (`IsWriteOnly` compares in upper case) and
  then does not recognise it (`ExecuteInstruction` compares as written).
* `ReadRedisValue` and `WriteRedisValue` wrap the stream they are given in a
  new buffered reader or writer at every call; what a reader has read ahead
  is lost to the next call. Whether values follow each other on one stream
  is decided by callers that are not in the sources.

## 7. Plan

1. Done: `Instance`, `Wire`, `ExecutionOrder`, `Execute` with its abstract
   specification `ExecutionLog`, `OrderWalk`, `Replicas` with `KVStore` and
   `RedisStore`, `Scope`, `Merge`, `Consensus`, `Dependencies`.
2. Recoveries that do not meet at one ballot: the deferral to the successors
   of the leader, or ballots that name their node, to check `Agreement`
   against with two prepares and a live leader.
3. `Replicas` fed by `Consensus` instead of a constant graph, and
   `Consensus` with a dependency manager at every replica in the place of
   `newDependencies`, once the manager has a `makeInstance` in the sources.
4. Read repair as steps beside execution, once the query path of the cluster
   is specified. Tarjan's algorithm step by step against `Components`.
