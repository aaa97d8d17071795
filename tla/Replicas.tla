------------------------------ MODULE Replicas ------------------------------
(***************************************************************************)
(* Several replicas executing the instances consensus has committed: the   *)
(* composition the execution order exists for.  Consensus gives every      *)
(* replica the same attributes for an instance (the constant Committed),   *)
(* at a different moment, with the dependencies in a different order; each *)
(* replica then runs executeInstance of src/consensus/manager_execute.go   *)
(* on what it has.  A call is one step here, one goroutine at a time on    *)
(* each replica: Execute shows what goroutines on one replica do to each   *)
(* other, this module what replicas do to the common order, and to the     *)
(* store that each applies the instances to: the one of                    *)
(* src/kvstore/store.go or the one of src/redis/store.go.                  *)
(***************************************************************************)
EXTENDS ExecutionOrder, Dependencies

CONSTANTS
    Replicas,       \* the replicas
    Committed,      \* the outcomes of consensus: each gives every instance its
                    \* committed dependencies (a set) and sequence number
    Workloads,      \* the instructions of the instances: each workload gives
                    \* every instance its command
    Failed,         \* the error of a read from a buffer
    Segments,       \* Segments[key]: the segments of a key, "a:b" is <<"a", "b">>
    Histories       \* sequences of instructions a dependency manager is given

ASSUME ReplicasConstantsAreSane ==
    Committed \subseteq [Ids -> [deps : SUBSET Ids, seq : Nat]]

VARIABLES
    agreed,         \* the outcome of consensus in this behaviour
    commands,       \* the workload of this behaviour
    engine,         \* the store of the cluster in this behaviour
    instances,      \* instances[r]: the instance map of replica r
    executed,       \* executed[r]: m.executed of replica r
    store           \* store[r]: the data of the store of replica r

vars == <<agreed, commands, engine, instances, executed, store>>

Store == INSTANCE KVStore WITH NoValue <- Nil
Redis == INSTANCE RedisStore WITH NoValue <- Nil

Engines == {"kvstore", "redis"}

\* ApplyQuery of the cluster, which executes a query against the local
\* store: an instruction for the one store, a write or a read for the
\* other.
ApplyQuery(data, instruction) ==
    CASE engine = "kvstore" -> Store!ExecuteInstruction(data, instruction)
      [] engine = "redis" /\ Redis!IsWriteCommand(instruction.cmd) ->
            Redis!ExecuteWrite(data, instruction.cmd, instruction.key,
                               instruction.args, instruction.timestamp)
      [] OTHER ->
            Redis!ExecuteRead(data, instruction.cmd, instruction.key, instruction.args)

Init ==
    /\ agreed \in Committed
    /\ commands \in Workloads
    /\ engine \in Engines
    /\ instances = [r \in Replicas |-> [i \in Ids |-> Nil]]
    /\ executed = [r \in Replicas |-> <<>>]
    /\ store = [r \in Replicas |-> Store!NewKVStore]

\* The commit of instance iid reaches replica r.
Commit(r, iid) ==
    /\ instances[r][iid] = Nil
    /\ \E deps \in List(agreed[iid].deps) :
          instances' = [instances EXCEPT ![r][iid] =
              [deps |-> deps, seq |-> agreed[iid].seq, noop |-> FALSE,
               status |-> INSTANCE_COMMITTED]]
    /\ UNCHANGED <<agreed, commands, engine, executed, store>>

\* Fault: an executed instance of the order is applied again.
executeDependencyChainReapplies(m, log, data, iids, target) ==
    LET apply(acc, iid) ==
            IF acc.done THEN acc
            ELSE [m    |-> [acc.m EXCEPT ![iid].status = INSTANCE_EXECUTED],
                  log  |-> Append(acc.log, iid),
                  data |-> ApplyQuery(acc.data, commands[iid]).data,
                  done |-> iid = target]
    IN  FoldLeft(apply, [m |-> m, log |-> log, data |-> data, done |-> FALSE], iids)

\* executeDependencyChain on an order of committed and executed
\* instances: the committed ones are applied to the store in turn, the
\* executed ones passed over, and the loop ends after the target, or at an
\* instance the store rejects, which stays committed.
executeDependencyChain(m, log, data, iids, target) ==
    LET apply(acc, iid) ==
            LET applied == ApplyQuery(acc.data, commands[iid])
            IN  IF acc.done \/ acc.m[iid].status # INSTANCE_COMMITTED THEN acc
                ELSE IF applied.err # Nil THEN [acc EXCEPT !.done = TRUE]
                ELSE [m    |-> [acc.m EXCEPT ![iid].status = INSTANCE_EXECUTED],
                      log  |-> Append(acc.log, iid),
                      data |-> applied.data,
                      done |-> iid = target]
    IN  FoldLeft(apply, [m |-> m, log |-> log, data |-> data, done |-> FALSE], iids)

\* executeInstance on replica r for a committed target, with nothing left
\* to prepare: the order is computed and the chain executed.  (A call
\* whose order cannot be computed, or holds an instance to prepare,
\* changes nothing here.)
ExecuteInstance(r, target) ==
    /\ instances[r][target] # Nil
    /\ instances[r][target].status = INSTANCE_COMMITTED
    /\ \E order \in getExecutionOrder(instances[r], target) :
          /\ order.err = Nil
          /\ getUncommittedInstances(instances[r], order.exOrder) = {}
          /\ \E end \in { executeDependencyChain(instances[r], executed[r], store[r],
                                                 order.exOrder, target) } :
                /\ instances' = [instances EXCEPT ![r] = end.m]
                /\ executed' = [executed EXCEPT ![r] = end.log]
                /\ store' = [store EXCEPT ![r] = end.data]
    /\ UNCHANGED <<agreed, commands, engine>>

Next ==
    \E r \in Replicas, iid \in Ids : Commit(r, iid) \/ ExecuteInstance(r, iid)

Spec == Init /\ [][Next]_vars

-----------------------------------------------------------------------------
\* The log of a replica holds the instances it has executed, each once:
\* the chain passes over what an earlier call has executed.
TypeOK ==
    /\ agreed \in Committed
    /\ commands \in Workloads
    /\ engine \in Engines
    /\ instances \in [Replicas -> [Ids -> Instance \cup {Nil}]]
    /\ \A r \in Replicas :
          /\ DOMAIN store[r] \subseteq { commands[i].key : i \in Ids }
          /\ IsInjective(executed[r])
          /\ ToSet(executed[r]) = { i \in Known(instances[r]) :
                                      instances[r][i].status = INSTANCE_EXECUTED }

\* Whether one instance depends on another, directly or through others.
DependsOn ==
    ConnectionsIn([node |-> Ids,
                   edge |-> { e \in Ids \X Ids : e[2] \in agreed[e[1]].deps }])

\* The instances consensus has ordered: one depends on the other.
Ordered ==
    { p \in Ids \X Ids : p[1] # p[2] /\ (DependsOn[p[1], p[2]] \/ DependsOn[p[2], p[1]]) }

\* The replicas execute in one order: two instances of which one depends
\* on the other are executed in the same order by every replica that
\* executes both, whenever each replica learnt of which instance and
\* whichever targets executeInstance was called for.
ReplicasAgree ==
    \A r, q \in Replicas :
        \A i, j \in DOMAIN executed[r], k, l \in DOMAIN executed[q] :
            /\ executed[r][i] = executed[q][l]
            /\ executed[r][j] = executed[q][k]
            /\ <<executed[r][i], executed[r][j]>> \in Ordered
            => ~(i < j /\ k < l)

\* Two instructions interfere when they touch a common key and one of them
\* is a write; consensus records the interference when one of the two
\* instances depends on the other, directly or through others.
Writing(e, a) ==
    IF e = "kvstore" THEN Store!IsWriteOnly(a) ELSE Redis!IsWriteCommand(a.cmd)

Interfering(e, a, b) ==
    /\ ToSet(Store!InterferingKeys(a)) \cap ToSet(Store!InterferingKeys(b)) # {}
    /\ Writing(e, a) \/ Writing(e, b)

InterferenceRecorded ==
    LET dependsOn == DependsOn
    IN  \A i, j \in Ids :
            i # j /\ Interfering(engine, commands[i], commands[j]) =>
                dependsOn[i, j] \/ dependsOn[j, i]

\* The replicas are one store: when consensus has recorded the
\* interference the store reports, replicas that have executed the same
\* instances hold the same data, in whatever order each learnt of the
\* commits, whichever targets it executed, and whatever the order in which
\* it applied the instructions that do not interfere.
StoresAgree ==
    InterferenceRecorded =>
        \A r, q \in Replicas :
            ToSet(executed[r]) = ToSet(executed[q]) => store[r] = store[q]

\* What the replicas hold for a key, as the read repair of the cluster
\* collects it with KeyExists and GetRawKey.
Held(key) ==
    [r \in { q \in Replicas : IF engine = "kvstore" THEN Store!KeyExists(store[q], key)
                                                     ELSE Redis!KeyExists(store[q], key) } |->
        IF engine = "kvstore" THEN Store!GetRawKey(store[r], key).val
                              ELSE Redis!GetRawKey(store[r], key).val]

\* The data of a replica after the instructions of a repair.
Repaired(data, instructions) ==
    FoldLeft(LAMBDA d, instruction : ApplyQuery(d, instruction).data, data, instructions)

\* A repair repairs: whatever the replicas have executed so far, and so
\* whatever values, tombstones among them, they hold for a key, Reconcile
\* returns a value none of them holds a newer one than, and the
\* instructions it returns for a replica, applied as queries to the store
\* of that replica, leave it with that value.  The store accepts what its
\* own Reconcile writes.
RepairConverges ==
    \A key \in { commands[i].key : i \in Ids } :
        \A rec \in IF engine = "kvstore" THEN Store!Reconcile(key, Held(key))
                                          ELSE Redis!Reconcile(key, Held(key)) :
            DOMAIN Held(key) # {} =>
                /\ rec.err = Nil
                /\ \A r \in DOMAIN Held(key) :
                      /\ Held(key)[r].time <= rec.val.time
                      /\ Repaired(store[r], IF r \in DOMAIN rec.adjustments
                                             THEN rec.adjustments[r] ELSE <<>>)[key] = rec.val

\* What a replica stores and what it answers survives the wire: a value
\* of the store of src/redis, serialized and deserialized, is the value
\* with its type; no part of the bytes is taken for a value; and a store
\* filled by SetRawKey from the serialized values of all the keys of a
\* replica, tombstones included, is the store of that replica.
Answers(r) == { ApplyQuery(store[r], commands[i]).val : i \in Ids } \ {Nil}

Imported(data) ==
    FoldSet(LAMBDA key, new :
                Redis!SetRawKey(new, key,
                    Redis!ReadRedisValue(
                        Redis!WriteRedisValue(Redis!GetRawKey(data, key).val)).val),
            Redis!NewRedis, Redis!GetKeys(data))

ValuesSurviveTransfer ==
    engine = "redis" =>
        \A r \in Replicas :
            /\ \A v \in Range(store[r]) \cup Answers(r) :
                  LET b == Redis!WriteRedisValue(v)
                  IN  /\ Redis!ReadRedisValue(b) = [val |-> v, vtype |-> v.type]
                      /\ \A n \in 0 .. Len(b) - 1 :
                            Redis!ReadRedisValue(SubSeq(b, 1, n)) = Failed
            /\ Imported(store[r]) = store[r]

-----------------------------------------------------------------------------
\* The requests the manager of a replica gets for a history: the n-th
\* instruction is of instance n, its key split into segments, read-only
\* when the store says so.
Requested(e, h) ==
    [n \in DOMAIN h |->
        [id |-> n, path |-> Segments[h[n].key],
         readOnly |-> IF e = "kvstore" THEN Store!IsReadOnly(h[n])
                                        ELSE Redis!IsReadCommand(h[n].cmd)]]

\* Whether one key is the other or above it.
Along(p, q) == IsPrefix(p, q) \/ IsPrefix(q, p)

\* The manager with the store e behind it, over every history: whether
\* the later of two requests always acknowledges the earlier when
\* Must(e, h, r, m, n) holds of a history h, its requests r and the two.
\* Used in definitions of constants, which are worked out once.
Acknowledging(e, Must(_, _, _, _, _)) ==
    \A h \in Histories :
        LET r    == Requested(e, h)
            deps == Managed(r).deps
        IN  \A n \in DOMAIN h : \A m \in 1 .. n - 1 :
                Must(e, h, r, m, n) => m \in Acknowledged(deps, n)

Recording ==
    { e \in Engines :
        Acknowledging(e, LAMBDA f, h, r, m, n :
            \/ Interfering(f, h[m], h[n])
            \/ /\ Along(r[m].path, r[n].path)
               /\ ~r[m].readOnly \/ ~r[n].readOnly) }

Clearing ==
    { e \in Engines :
        \A h \in Histories :
            LET r    == Requested(e, h)
                deps == Managed(r).deps
            IN  \A n \in DOMAIN h : \A w \in 1 .. n - 1 :
                    ~r[w].readOnly /\ IsStrictPrefix(r[w].path, r[n].path) =>
                        deps[n] \cap { m \in 1 .. w - 1 :
                                         IsStrictPrefix(r[w].path, r[m].path) } = {} }

\* The dependency manager records the interference the store of the
\* cluster reports, and that of keys one above the other: whatever
\* instructions GetAndSetDeps is given, in whatever order, an instance
\* acknowledges every earlier instance whose instruction interferes with
\* its own, directly or through the instances between them, also when a
\* write of a key above has cleared the node the earlier instance was
\* recorded at, and when the later is a read of a key above that of an
\* earlier write (TestIntegration of manager_dependencies_test.go, where
\* step 3 of section 4.2 looks below the node for a write only).  This is
\* the premise of StoresAgree for the instances of one leader.
ManagerRecordsInterference == engine \in Recording

\* The dependency clearing law of the specification (section 8): after a
\* write W of key k, an instance made for a key below k has no dependency
\* on an instance made before W for a key below k; GetAndSetDeps clears
\* the nodes below the node of a write, and W stands for what they held.
DependencyClearingLaw == engine \in Clearing
=============================================================================
