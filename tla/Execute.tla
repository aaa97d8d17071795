------------------------------- MODULE Execute -------------------------------
(***************************************************************************)
(* The execution engine of one replica: Manager.executeInstance and what   *)
(* it calls, src/consensus/manager_execute.go.                             *)
(*                                                                         *)
(* Each task is a goroutine inside executeInstance.  A task step is one    *)
(* stretch of code between two points where another goroutine can change   *)
(* what the task reads next: the two calls that read the instance map      *)
(* (getExecutionOrder, getUncommittedInstances), every attempt of a        *)
(* prepare goroutine, every status read of executeDependencyChain, the     *)
(* unlocked status check of applyInstance, its critical section, and the   *)
(* broadcast after it.                                                     *)
(*                                                                         *)
(* The rest of the replica is the environment: the handlers that create    *)
(* and commit instances (PreAccept, Commit), the recovery a prepare        *)
(* goroutine runs (preparePhase) and the clock.  Their code is not in the  *)
(* repository's sources; they are written from the specification.          *)
(***************************************************************************)
EXTENDS ExecutionOrder

CONSTANTS
    Tasks,          \* the goroutines that call executeInstance
    LocalLed,       \* the instances whose LeaderID is this replica
    Attrs,          \* Attrs[i]: the (deps, seq) consensus may give instance i
    AttrsMayChange, \* whether they may differ from message to message
    NumCommands,    \* NumCommands[i]: the length of Commands of instance i
    Rejected,       \* the commands <<i, k>> for which ApplyQuery returns an error
    PersistOutcomes,           \* what Manager.Persist may return: TRUE for nil
    BALLOT_FAILURE_RETRIES     \* the attempts of one prepare goroutine

ASSUME ConstantsAreSane ==
    /\ LocalLed \subseteq Ids
    /\ \A i \in Ids : Attrs[i] \subseteq [deps : Seq(Ids), seq : Nat]
    /\ AttrsMayChange \in BOOLEAN
    /\ NumCommands \in [Ids -> Nat]
    /\ Rejected \subseteq { <<i, k>> : i \in Ids, k \in 1 .. 2 }
    /\ PersistOutcomes \subseteq BOOLEAN /\ PersistOutcomes # {}
    /\ BALLOT_FAILURE_RETRIES \in Nat \ {0}

VARIABLES
    instances,      \* m.instances: id -> instance, Nil for an unknown id
    inProgress,     \* m.inProgress
    committed,      \* m.committed
    executed,       \* m.executed, in the order of execution
    applied,        \* the commands the store has applied, in order
    executeEvent,   \* the instances whose executeEvent has been broadcast
    expired,        \* the instances whose executeTimeout has passed
    tasks           \* the goroutines in executeInstance

vars == <<instances, inProgress, committed, executed, applied, executeEvent,
          expired, tasks>>

manager == <<instances, inProgress, committed, executed, applied>>

\* Instance.Commands, a command being named by its instance and position.
Commands(iid) == [k \in 1 .. NumCommands[iid] |-> <<iid, k>>]

\* What executeInstance returns for an instance nobody else executes: the
\* value of its last command, nothing for a noop or an empty instance.
ValueOf(iid) ==
    IF instances[iid].noop \/ NumCommands[iid] = 0 THEN Nil
    ELSE <<iid, NumCommands[iid]>>

Idle ==
    [pc |-> "idle", target |-> Nil, exOrder |-> <<>>, pos |-> 0,
     val |-> Nil, err |-> Nil, prepare |-> <<>>]

Init ==
    /\ instances = [i \in Ids |-> Nil]
    /\ inProgress = {}
    /\ committed = {}
    /\ executed = <<>>
    /\ applied = <<>>
    /\ executeEvent = {}
    /\ expired = {}
    /\ tasks = [t \in Tasks |-> Idle]

\* The process runs: no goroutine of it has panicked.
Alive == \A t \in Tasks : tasks[t].pc # "panicked"

-----------------------------------------------------------------------------
(***************************************************************************)
(* The environment.                                                        *)
(***************************************************************************)

\* The attributes a message about an instance may carry: any of Attrs, or
\* when attributes do not change, those the replica has for the instance.
proposals(iid) ==
    IF instances[iid] = Nil \/ AttrsMayChange THEN Attrs[iid]
    ELSE { [deps |-> instances[iid].deps, seq |-> instances[iid].seq] }

\* A new instance reaches the replica, created here (makeInstance) or
\* received in a PreAccept message.
PreAccept(iid) ==
    /\ Alive
    /\ instances[iid] = Nil
    /\ \E a \in proposals(iid) :
          instances' = [instances EXCEPT ![iid] =
              [deps |-> a.deps, seq |-> a.seq, noop |-> FALSE,
               status |-> INSTANCE_PREACCEPTED]]
    /\ inProgress' = inProgress \cup {iid}
    /\ UNCHANGED <<committed, executed, applied, executeEvent, expired, tasks>>

\* The Accept message of the slow path reaches the replica, which takes
\* the proposed attributes.
Accept(iid) ==
    /\ Alive
    /\ instances[iid] # Nil
    /\ instances[iid].status = INSTANCE_PREACCEPTED
    /\ \E a \in proposals(iid) :
          instances' = [instances EXCEPT ![iid] =
              [@ EXCEPT !.deps = a.deps, !.seq = a.seq, !.status = INSTANCE_ACCEPTED]]
    /\ UNCHANGED <<inProgress, committed, executed, applied, executeEvent, expired, tasks>>

\* The instance is committed with the attributes a: status and attributes
\* are set, the instance moves from inProgress to committed.
commitInstance(iid, a, noop) ==
    /\ instances' = [instances EXCEPT ![iid] =
           [deps |-> a.deps, seq |-> a.seq, noop |-> noop,
            status |-> INSTANCE_COMMITTED]]
    /\ inProgress' = inProgress \ {iid}
    /\ committed' = committed \cup {iid}

\* The commit of an instance by its leader reaches the replica, which may
\* never have seen the instance.
Commit(iid) ==
    /\ Alive
    /\ ~(instances[iid] # Nil /\ instances[iid].status >= INSTANCE_COMMITTED)
    /\ \E a \in proposals(iid) : commitInstance(iid, a, FALSE)
    /\ UNCHANGED <<executed, applied, executeEvent, expired, tasks>>

\* The execution grace period of an instance led here ends.
Tick(iid) ==
    /\ Alive
    /\ iid \in LocalLed \ expired
    /\ instances[iid] # Nil
    /\ expired' = expired \cup {iid}
    /\ UNCHANGED <<manager, executeEvent, tasks>>

-----------------------------------------------------------------------------
(***************************************************************************)
(* managerExecuteInstance.                                                 *)
(***************************************************************************)
Task(t) == tasks[t]

\* The instance executeDependencyChain is at.
Current(t) == Task(t).exOrder[Task(t).pos]

Becomes(t, r) == tasks' = [tasks EXCEPT ![t] = r]

\* executeInstance returns val and err to its caller.
Return(t, val, err) ==
    Becomes(t, [Idle EXCEPT !.target = Task(t).target, !.val = val, !.err = err])

\* A goroutine calls executeInstance, which its callers do for an
\* instance whose commit they have just seen or made.
StartExecute(t, iid) ==
    /\ Task(t).pc = "idle"
    /\ instances[iid] # Nil
    /\ instances[iid].status = INSTANCE_COMMITTED
    /\ Becomes(t, [Idle EXCEPT !.pc = "order", !.target = iid])
    /\ UNCHANGED <<manager, executeEvent, expired>>

\* The nil dereference of addInstance: the panic of a goroutine nobody
\* recovers from ends the process, and every goroutine with it.
Panic == tasks' = [t \in Tasks |-> [Task(t) EXCEPT !.pc = "panicked"]]

\* exOrder, err := m.getExecutionOrder(instance), before the prepare loop
\* and at the end of each round of it.
GetExecutionOrder(t) ==
    /\ Task(t).pc = "order"
    /\ \E r \in getExecutionOrder(instances, Task(t).target) :
          \/ /\ r.err = "panic"
             /\ Panic
          \/ /\ r.err \notin {Nil, "panic"}
             /\ Return(t, Nil, r.err)
          \/ /\ r.err = Nil
             /\ Becomes(t, [Task(t) EXCEPT !.pc = "uncommitted", !.exOrder = r.exOrder])
    /\ UNCHANGED <<manager, executeEvent, expired>>

\* The goroutines of one round of the prepare loop, one for each
\* uncommitted instance, before their first attempt.
prepareRound(uncommitted) ==
    [iid \in uncommitted |-> [pc |-> "attempt", i |-> 0, success |-> FALSE]]

\* uncommitted = m.getUncommittedInstances(exOrder) and the test of the
\* loop: a round of prepares, or the dependency chain.
GetUncommitted(t) ==
    /\ Task(t).pc = "uncommitted"
    /\ LET uncommitted == getUncommittedInstances(instances, Task(t).exOrder)
       IN  \/ /\ uncommitted # {}
              /\ Becomes(t, [Task(t) EXCEPT !.pc = "prepare",
                                            !.prepare = prepareRound(uncommitted)])
           \/ /\ uncommitted = {}
              /\ Becomes(t, [Task(t) EXCEPT !.pc = "chain", !.pos = 1])
    /\ UNCHANGED <<manager, executeEvent, expired>>

-----------------------------------------------------------------------------
(***************************************************************************)
(* The prepare goroutine of task t for instance iid.                       *)
(***************************************************************************)
Goroutine(t, iid) == Task(t).prepare[iid]

Attempting(t, iid) ==
    /\ Task(t).pc = "prepare"
    /\ iid \in DOMAIN Task(t).prepare
    /\ Goroutine(t, iid).pc = "attempt"

Waiting(t, iid) ==
    /\ Task(t).pc = "prepare"
    /\ iid \in DOMAIN Task(t).prepare
    /\ Goroutine(t, iid).pc = "wait"

GoroutineBecomes(t, iid, g) ==
    tasks' = [tasks EXCEPT ![t].prepare[iid] = g]

\* Fault: an attempt that does not count.
sameAttempt(g) == [g EXCEPT !.pc = "attempt"]

\* The end of an iteration that did not break: i++, and when the attempts
\* are used up the goroutine reports an error unless success is set.
nextAttempt(g) ==
    IF g.i + 1 < BALLOT_FAILURE_RETRIES
    THEN [g EXCEPT !.pc = "attempt", !.i = @ + 1]
    ELSE [g EXCEPT !.pc = IF g.success THEN "ok" ELSE "error", !.i = @ + 1]

\* m.preparePhase(inst) returns nil for an instance that is committed.
PrepareCommitted(t, iid) ==
    /\ Attempting(t, iid)
    /\ instances[iid].status >= INSTANCE_COMMITTED
    /\ GoroutineBecomes(t, iid, [Goroutine(t, iid) EXCEPT !.pc = "ok", !.success = TRUE])
    /\ UNCHANGED <<manager, executeEvent, expired>>

\* m.preparePhase(inst) returns nil: recovery has committed the instance,
\* with the attributes a quorum knows, or as a noop.
PrepareCommits(t, iid) ==
    /\ Attempting(t, iid)
    /\ instances[iid].status < INSTANCE_COMMITTED
    /\ \E a \in proposals(iid), noop \in BOOLEAN : commitInstance(iid, a, noop)
    /\ GoroutineBecomes(t, iid, [Goroutine(t, iid) EXCEPT !.pc = "ok", !.success = TRUE])
    /\ UNCHANGED <<executed, applied, executeEvent, expired>>

\* m.preparePhase(inst) returns a BallotError: the goroutine waits for
\* the commit event or the backoff timer.
PrepareBallotError(t, iid) ==
    /\ Attempting(t, iid)
    /\ instances[iid].status < INSTANCE_COMMITTED
    /\ GoroutineBecomes(t, iid, [Goroutine(t, iid) EXCEPT !.pc = "wait"])
    /\ UNCHANGED <<manager, executeEvent, expired>>

\* m.preparePhase(inst) returns another error, which goes to the errors
\* channel and ends the goroutine.
PrepareError(t, iid) ==
    /\ Attempting(t, iid)
    /\ instances[iid].status < INSTANCE_COMMITTED
    /\ GoroutineBecomes(t, iid, [Goroutine(t, iid) EXCEPT !.pc = "error"])
    /\ UNCHANGED <<manager, executeEvent, expired>>

\* case <-commitEvent: another goroutine committed the instance.  The
\* break leaves the select only, so the loop goes on with success set.
PrepareCommitEvent(t, iid) ==
    /\ Waiting(t, iid)
    /\ instances[iid].status >= INSTANCE_COMMITTED
    /\ GoroutineBecomes(t, iid, nextAttempt([Goroutine(t, iid) EXCEPT !.success = TRUE]))
    /\ UNCHANGED <<manager, executeEvent, expired>>

\* case <-timeoutEvent: continue with the prepare.
PrepareTimeout(t, iid) ==
    /\ Waiting(t, iid)
    /\ GoroutineBecomes(t, iid, nextAttempt(Goroutine(t, iid)))
    /\ UNCHANGED <<manager, executeEvent, expired>>

\* wg.Wait() and the read of the errors channel: the first error ends
\* executeInstance, no error starts the next round with a new order.
PrepareJoin(t) ==
    /\ Task(t).pc = "prepare"
    /\ \A iid \in DOMAIN Task(t).prepare : Goroutine(t, iid).pc \in {"ok", "error"}
    /\ \/ /\ \E iid \in DOMAIN Task(t).prepare : Goroutine(t, iid).pc = "error"
          /\ Return(t, Nil, "prepare")
       \/ /\ \A iid \in DOMAIN Task(t).prepare : Goroutine(t, iid).pc = "ok"
          /\ Becomes(t, [Task(t) EXCEPT !.pc = "order", !.prepare = <<>>])
    /\ UNCHANGED <<manager, executeEvent, expired>>

-----------------------------------------------------------------------------
(***************************************************************************)
(* executeDependencyChain and applyInstance.                               *)
(***************************************************************************)

\* The end of an iteration of the loop over the order: the break after
\* the target, which returns val, or the next instance.
endIteration(t, val) ==
    IF Current(t) = Task(t).target
    THEN Return(t, val, Nil)
    ELSE Becomes(t, [Task(t) EXCEPT !.pc = "chain", !.pos = @ + 1, !.val = val])

\* The loop is at a committed instance that is the target, is led by
\* another replica, or is past its grace period: applyInstance is called.
ChainApply(t) ==
    /\ Task(t).pc = "chain"
    /\ Task(t).pos <= Len(Task(t).exOrder)
    /\ instances[Current(t)].status = INSTANCE_COMMITTED
    /\ \/ Current(t) = Task(t).target
       \/ Current(t) \notin LocalLed
       \/ Current(t) \in expired
    /\ Becomes(t, [Task(t) EXCEPT !.pc = "apply", !.val = Nil])
    /\ UNCHANGED <<manager, executeEvent, expired>>

\* The loop is at a committed instance led here, within its grace period:
\* the goroutine waits for the execute event or the timeout.
ChainWait(t) ==
    /\ Task(t).pc = "chain"
    /\ Task(t).pos <= Len(Task(t).exOrder)
    /\ instances[Current(t)].status = INSTANCE_COMMITTED
    /\ Current(t) # Task(t).target
    /\ Current(t) \in LocalLed \ expired
    /\ Becomes(t, [Task(t) EXCEPT !.pc = "wait", !.val = Nil])
    /\ UNCHANGED <<manager, executeEvent, expired>>

\* case INSTANCE_EXECUTED: continue, which goes to the next instance
\* without the test for the target; default: the error.
ChainSkip(t) ==
    /\ Task(t).pc = "chain"
    /\ Task(t).pos <= Len(Task(t).exOrder)
    /\ instances[Current(t)].status # INSTANCE_COMMITTED
    /\ IF instances[Current(t)].status = INSTANCE_EXECUTED
       THEN Becomes(t, [Task(t) EXCEPT !.pos = @ + 1, !.val = Nil])
       ELSE Return(t, Nil, "uncommitted")
    /\ UNCHANGED <<manager, executeEvent, expired>>

\* The loop has run through the order: return val, nil.
ChainEnd(t) ==
    /\ Task(t).pc = "chain"
    /\ Task(t).pos > Len(Task(t).exOrder)
    /\ Return(t, Task(t).val, Nil)
    /\ UNCHANGED <<manager, executeEvent, expired>>

\* Fault: a wait that does not block until the event.
WaitWithoutEvent(t) ==
    /\ Task(t).pc = "wait"
    /\ endIteration(t, Nil)
    /\ UNCHANGED <<manager, executeEvent, expired>>

\* case <-instance.getExecuteEvent().getChan(): the instance was executed
\* by another goroutine.
WaitExecuteEvent(t) ==
    /\ Task(t).pc = "wait"
    /\ Current(t) \in executeEvent
    /\ endIteration(t, Nil)
    /\ UNCHANGED <<manager, executeEvent, expired>>

\* case <-instance.getExecuteTimeoutEvent(): applyInstance is called.
WaitExecuteTimeout(t) ==
    /\ Task(t).pc = "wait"
    /\ Current(t) \in expired
    /\ Becomes(t, [Task(t) EXCEPT !.pc = "apply"])
    /\ UNCHANGED <<manager, executeEvent, expired>>

\* What a status read of applyInstance makes of the call: nothing to do
\* for an executed instance, an error for one that is not committed.
applyStatus(t, committedPc) ==
    IF instances[Current(t)].status = INSTANCE_EXECUTED
    THEN Becomes(t, [Task(t) EXCEPT !.pc = "broadcast", !.val = Nil])
    ELSE IF instances[Current(t)].status # INSTANCE_COMMITTED
    THEN Return(t, Nil, "not committed")
    ELSE Becomes(t, [Task(t) EXCEPT !.pc = committedPc])

\* applyInstance: the status check before the instance lock is taken.
ApplyCheck(t) ==
    /\ Task(t).pc = "apply"
    /\ applyStatus(t, "locked")
    /\ UNCHANGED <<manager, executeEvent, expired>>

\* Fault: the status of the unlocked check, trusted under the lock.
statusBeforeLock(t) == INSTANCE_COMMITTED

\* instance.Status, read again once the instance lock is held.
lockedStatus(t) == instances[Current(t)].status

\* applyInstance under the lock: the instance has been executed meanwhile.
ApplyRecheck(t) ==
    /\ Task(t).pc = "locked"
    /\ lockedStatus(t) # INSTANCE_COMMITTED
    /\ applyStatus(t, "locked")
    /\ UNCHANGED <<manager, executeEvent, expired>>

\* Whether ApplyQuery returns an error for a command of the instance.
rejects(iid) ==
    /\ ~instances[iid].noop
    /\ \E k \in 1 .. NumCommands[iid] : <<iid, k>> \in Rejected

\* Fault: the commands of a noop applied like any others.
appliedCommandsOfNoop(iid) ==
    SelectSeq(Commands(iid),
              LAMBDA c : \A k \in 1 .. c[2] : <<iid, k>> \notin Rejected)

\* The commands of an instance the store applies: those before the first
\* it rejects, none of a noop.
appliedCommands(iid) ==
    IF instances[iid].noop THEN <<>>
    ELSE SelectSeq(Commands(iid),
                   LAMBDA c : \A k \in 1 .. c[2] : <<iid, k>> \notin Rejected)

\* applyInstance under the lock: ApplyQuery returns an error, which ends
\* executeInstance and leaves the instance committed.
ApplyStoreError(t) ==
    /\ Task(t).pc = "locked"
    /\ lockedStatus(t) = INSTANCE_COMMITTED
    /\ rejects(Current(t))
    /\ applied' = applied \o appliedCommands(Current(t))
    /\ Return(t, Nil, "store")
    /\ UNCHANGED <<instances, inProgress, committed, executed, executeEvent, expired>>

\* Fault: the instance left in the committed index.
markExecutedKeepsCommitted(iid) ==
    /\ instances' = [instances EXCEPT ![iid].status = INSTANCE_EXECUTED]
    /\ executed' = Append(executed, iid)
    /\ UNCHANGED committed

\* The manager's bookkeeping of an execution: the status, and under
\* executedLock the move from committed to executed.
markExecuted(iid) ==
    /\ instances' = [instances EXCEPT ![iid].status = INSTANCE_EXECUTED]
    /\ executed' = Append(executed, iid)
    /\ committed' = committed \ {iid}

\* applyInstance under the lock: the commands are applied, the instance
\* becomes executed, and the manager is persisted; an error of Persist
\* ends executeInstance.
ApplyLocked(t) ==
    /\ Task(t).pc = "locked"
    /\ lockedStatus(t) = INSTANCE_COMMITTED
    /\ ~rejects(Current(t))
    /\ applied' = applied \o appliedCommands(Current(t))
    /\ markExecuted(Current(t))
    /\ \E persisted \in PersistOutcomes :
          IF persisted
          THEN Becomes(t, [Task(t) EXCEPT !.pc = "broadcast", !.val = ValueOf(Current(t))])
          ELSE Return(t, Nil, "persist")
    /\ UNCHANGED <<inProgress, executeEvent, expired>>

\* instance.broadcastExecuteEvent(), and the rest of the iteration.
Broadcast(t) ==
    /\ Task(t).pc = "broadcast"
    /\ executeEvent' = executeEvent \cup {Current(t)}
    /\ endIteration(t, Task(t).val)
    /\ UNCHANGED <<manager, expired>>

-----------------------------------------------------------------------------
\* The steps of the prepare goroutine of task t for instance iid, of
\* executeDependencyChain, and of the goroutine in executeInstance.
Prepare(t, iid) ==
    \/ PrepareCommitted(t, iid)
    \/ PrepareCommits(t, iid)
    \/ PrepareBallotError(t, iid)
    \/ PrepareError(t, iid)
    \/ PrepareCommitEvent(t, iid)
    \/ PrepareTimeout(t, iid)

Chain(t) ==
    \/ ChainApply(t)
    \/ ChainWait(t)
    \/ ChainSkip(t)
    \/ ChainEnd(t)
    \/ WaitExecuteEvent(t)
    \/ WaitExecuteTimeout(t)
    \/ ApplyCheck(t)
    \/ ApplyRecheck(t)
    \/ ApplyStoreError(t)
    \/ ApplyLocked(t)
    \/ Broadcast(t)

TaskNext(t) ==
    \/ \E iid \in Ids : StartExecute(t, iid)
    \/ GetExecutionOrder(t)
    \/ GetUncommitted(t)
    \/ \E iid \in Ids : Prepare(t, iid)
    \/ PrepareJoin(t)
    \/ Chain(t)

Environment ==
    \E iid \in Ids : PreAccept(iid) \/ Accept(iid) \/ Commit(iid) \/ Tick(iid)

Next == Environment \/ \E t \in Tasks : TaskNext(t)

Spec == Init /\ [][Next]_vars

\* A goroutine inside executeInstance that can take a step eventually
\* takes one, and time passes: the Go scheduler is fair, calls return and
\* timers fire.  Nothing obliges anyone to call executeInstance.
Fairness ==
    /\ \A t \in Tasks :
          /\ WF_vars(GetExecutionOrder(t))
          /\ WF_vars(GetUncommitted(t))
          /\ \A iid \in Ids : WF_vars(Prepare(t, iid))
          /\ WF_vars(PrepareJoin(t))
          /\ WF_vars(Chain(t))
    /\ \A iid \in LocalLed : WF_vars(Tick(iid))

FairSpec == Spec /\ Fairness

-----------------------------------------------------------------------------
(***************************************************************************)
(* Properties.                                                             *)
(***************************************************************************)
TaskState ==
    [pc : {"idle", "order", "uncommitted", "prepare", "chain", "wait",
           "apply", "locked", "broadcast", "panicked"},
     target : Ids \cup {Nil},
     exOrder : Seq(Ids),
     pos : 0 .. Cardinality(Ids) + 1,
     val : (Ids \X (1 .. 2)) \cup {Nil},
     err : {Nil, "unknown", "prepare", "uncommitted", "not committed",
            "store", "persist"},
     prepare : UNION { [S -> [pc : {"attempt", "wait", "ok", "error"},
                              i : 0 .. BALLOT_FAILURE_RETRIES,
                              success : BOOLEAN]] : S \in SUBSET Ids }]

\* The variables have the shapes the code gives them, and the manager's
\* indexes say what the instances say: inProgress, committed and executed
\* hold the instances of their status, executed each of them once.
TypeOK ==
    /\ instances \in [Ids -> Instance \cup {Nil}]
    /\ inProgress = { i \in Known(instances) : instances[i].status < INSTANCE_COMMITTED }
    /\ committed = { i \in Known(instances) : instances[i].status = INSTANCE_COMMITTED }
    /\ executed \in Seq(Ids) /\ IsInjective(executed)
    /\ ToSet(executed) = { i \in Known(instances) : instances[i].status = INSTANCE_EXECUTED }
    /\ applied \in Seq(Ids \X (1 .. 2))
    /\ executeEvent \subseteq Ids
    /\ expired \subseteq LocalLed
    /\ tasks \in [Tasks -> TaskState]

\* Exactly once: the store has applied every command of an executed
\* instance once (none of a noop), and no command of any other instance,
\* however many goroutines reach applyInstance for the same instance
\* between its unlocked status check and its critical section.
AppliedExactlyOnce ==
    \A iid \in Known(instances) :
        SelectSeq(applied, LAMBDA c : c[1] = iid) =
            IF instances[iid].status = INSTANCE_EXECUTED /\ ~instances[iid].noop
            THEN Commands(iid) ELSE <<>>

\* The assertion of executeDependencyChain and applyInstance: by the time
\* the chain runs, the prepare loop has left no instance of the order
\* uncommitted, whatever was accepted or committed in between.
ChainFindsCommitted ==
    \A t \in Tasks : Task(t).err \notin {"uncommitted", "not committed"}

\* Dependencies first: when an instance is executed, each instance it
\* depends on has been executed before it, unless the dependency depends
\* on it in turn (the two are in one component).  This is what the order
\* of getExecutionOrder, the prepare loop and the waits of
\* executeDependencyChain are for.
DirectDepsFirst ==
    LET R == Reaches(FullGraph(instances))
    IN  \A k \in DOMAIN executed :
            \A dep \in ToSet(instances[executed[k]].deps) :
                \/ \E j \in 1 .. k - 1 : executed[j] = dep
                \/ dep \in Known(instances) /\ R[dep, executed[k]]

\* The deterministic order: the replica executes instances in an order
\* consistent with the components of the whole dependency graph,
\* dependencies first, each component sorted by (sequence, timestamp,
\* id), although getExecutionOrder sorts a graph from which it has pruned
\* executed instances and stops at the target.
ExecutedInReferenceOrder ==
    \A j, k \in DOMAIN executed :
        j < k => <<executed[k], executed[j]>> \notin MustPrecede(instances)

\* The engine implements the execution log: every step of every goroutine
\* and handler either leaves the executed instances and the store alone,
\* or executes one committed instance whose predecessors in the
\* deterministic order are all executed, applying its commands at that
\* same step.  This is applyInstance seen from outside, with the order of
\* getExecutionOrder behind it.
Log == INSTANCE ExecutionLog WITH log <- executed, store <- applied

ImplementsExecutionLog == Log!Spec

\* The value of the target: an executeInstance that returns no error
\* returns the value of the last command of its target, nothing for a
\* noop, also when a goroutine that executes a dependent instance has
\* applied the target meanwhile.  (Stated for a target that no other
\* goroutine has been asked to execute.)
TargetValueReturned ==
    \A t \in Tasks :
        /\ Task(t).pc = "idle" /\ Task(t).target # Nil /\ Task(t).err = Nil
        /\ \A u \in Tasks \ {t} : Task(u).target # Task(t).target
        => Task(t).val = ValueOf(Task(t).target)

\* executeInstance returns: the prepare loop is bounded by the retries and
\* by the number of instances, and a goroutine that waits for the
\* execute event of an instance is released by the event or the timeout.
ExecuteReturns ==
    \A t \in Tasks : Task(t).pc # "idle" ~> Task(t).pc = "idle"
=============================================================================
