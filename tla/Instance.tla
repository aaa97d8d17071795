------------------------------ MODULE Instance ------------------------------
(***************************************************************************)
(* The unit of agreement of the consensus core: src/consensus/instance.go. *)
(*                                                                         *)
(* An InstanceID is a UUIDv1.  The only things the code does with one are  *)
(* compare it for equality, read its embedded timestamp (Time()) and       *)
(* compare its bytes; where it does the last two (module ExecutionOrder)   *)
(* ids are natural numbers, whose order stands for the byte order, and     *)
(* the timestamp is the constant IdTime.                                   *)
(* Commands, LeaderID and the timeouts are data of the modules that use    *)
(* them; an instance record holds what every handler reads and writes.     *)
(***************************************************************************)
EXTENDS Naturals, Sequences, FiniteSets, SequencesExt

CONSTANTS
    Ids,    \* the instance ids of the model, a finite set
    Nil     \* "no instance" (a nil *Instance), "no value" (a nil store.Value)

ASSUME IdsAreFinite == IsFiniteSet(Ids) /\ Nil \notin Ids

\* InstanceStatus: iota starts at 1, the zero value is not a status.
INSTANCE_PREACCEPTED == 1
INSTANCE_ACCEPTED    == 2
INSTANCE_COMMITTED   == 3
INSTANCE_EXECUTED    == 4

InstanceStatus == INSTANCE_PREACCEPTED .. INSTANCE_EXECUTED

\* NewInstanceIDSet(ids): the set of the ids of a slice.
NewInstanceIDSet(ids) == ToSet(ids)

\* InstanceIDSet.List, InstanceMap.InstanceIDs: the slices a set of ids can
\* become; the slice is built by ranging over a Go map, in any order.
List(S) == SetToSeqs(S)

\* An instance as the manager holds it: the attributes consensus agrees on
\* and the status.
Instance ==
    [deps : UNION { List(S) : S \in SUBSET Ids }, seq : Nat,
     status : InstanceStatus, noop : BOOLEAN]

\* InstanceIDSet.Equal and InstanceIDSet.Union.
Equal(i, o) == Cardinality(i) = Cardinality(o) /\ \A key \in i : key \in o

Union(i, o) == i \cup o

\* Fault: the sequence number of the message taken as it is.
mergeAttributesLastSeq(i, seq, deps) ==
    { [instance |-> [i EXCEPT !.seq = seq, !.deps = d],
       changes  |-> seq # i.seq \/ ToSet(i.deps) # ToSet(deps)] :
      d \in List(ToSet(i.deps) \cup ToSet(deps)) }

\* Fault: the dependencies of the message appended to those of the instance.
mergeAttributesAppend(i, seq, deps) ==
    { [instance |-> [i EXCEPT !.seq = IF seq > @ THEN seq ELSE @, !.deps = @ \o deps],
       changes  |-> seq > i.seq \/ deps # <<>>] }

\* mergeAttributes: the sequence number becomes the larger one, the
\* dependencies the union, which is rebuilt (in the order the range over
\* the map gives) only when the two sets differ.  The results are what
\* the instance can be afterwards, each with the value returned.
mergeAttributes(i, seq, deps) ==
    LET iSet == NewInstanceIDSet(i.deps)
        oSet == NewInstanceIDSet(deps)
    IN  { [instance |-> [i EXCEPT !.seq = IF seq > @ THEN seq ELSE @, !.deps = d],
           changes  |-> seq > i.seq \/ ~Equal(iSet, oSet)] :
          d \in IF Equal(iSet, oSet) THEN {i.deps} ELSE List(Union(iSet, oSet)) }
=============================================================================
