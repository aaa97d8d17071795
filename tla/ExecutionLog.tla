---------------------------- MODULE ExecutionLog ----------------------------
(***************************************************************************)
(* What the execution engine of a replica promises, whatever goroutines,   *)
(* locks and events it is made of: the replica turns the instances it      *)
(* learns of into a log.  An instance enters the log once, after every     *)
(* instance the deterministic order puts before it, and at that moment     *)
(* the store applies its commands; an instance in the log never changes.   *)
(***************************************************************************)
EXTENDS ExecutionOrder

CONSTANT NumCommands    \* NumCommands[i]: the number of commands of instance i

VARIABLES
    instances,      \* the instances the replica knows, Nil for an unknown id
    log,            \* the executed instances, in the order of execution
    store           \* the commands the store has applied, in order

logVars == <<instances, log, store>>

Init ==
    /\ instances = [i \in Ids |-> Nil]
    /\ log = <<>>
    /\ store = <<>>

\* The protocol tells the replica of an instance, or changes the
\* attributes or the status (short of executed) of one that is not in
\* the log.
Learn(iid) ==
    /\ iid \notin ToSet(log)
    /\ instances' \in [Ids -> Instance \cup {Nil}]
    /\ instances'[iid] # Nil
    /\ instances'[iid].status < INSTANCE_EXECUTED
    /\ \A other \in Ids \ {iid} : instances'[other] = instances[other]
    /\ UNCHANGED <<log, store>>

\* A committed instance is executed: every instance that must precede it
\* is in the log, it enters the log, and the store applies its commands,
\* none for a noop.
Execute(iid) ==
    /\ instances[iid] # Nil
    /\ instances[iid].status = INSTANCE_COMMITTED
    /\ \A a \in Known(instances) :
          <<a, iid>> \in MustPrecede(instances) => a \in ToSet(log)
    /\ instances' = [instances EXCEPT ![iid].status = INSTANCE_EXECUTED]
    /\ log' = Append(log, iid)
    /\ store' = store \o IF instances[iid].noop THEN <<>>
                         ELSE [k \in 1 .. NumCommands[iid] |-> <<iid, k>>]

Next == \E iid \in Ids : Learn(iid) \/ Execute(iid)

Spec == Init /\ [][Next]_logVars
=============================================================================
