---------------------------- MODULE MCConsensus ----------------------------
(***************************************************************************)
(* Consensus for TLC: three replicas of one scope, and the replica lists   *)
(* a caller can pass.                                                      *)
(***************************************************************************)
EXTENDS Consensus

CONSTANTS n1, n2, n3, i0, i1, i2

MCNodes == {n1, n2, n3}

MCIds == {i0, i1, i2}

\* An earlier instance, i0, has run its course: it is executed at every
\* replica and the messages about it are gone.  Its leader is left out:
\* nothing reads the leader of an instance that is committed.  The
\* instances the model follows are made in scopes that have executed one.
MCInit ==
    /\ instances = [n \in MCNodes |-> [i \in MCIds |->
          IF i = i0
          THEN [leader |-> Nil, deps |-> {}, seq |-> 1,
                status |-> INSTANCE_EXECUTED, ballot |-> 0, noop |-> FALSE]
          ELSE Nil]]
    /\ inProgress = [n \in MCNodes |-> {}]
    /\ committed = [n \in MCNodes |-> {}]
    /\ executed = [n \in MCNodes |-> <<i0>>]
    /\ maxSeq = [n \in MCNodes |-> 1]
    /\ crashed = {}
    /\ msgs = {}

\* The three nodes, a list of one node three times, which is without the
\* local node or holds it more than once, and the empty list.
\* ExecuteInstructions reads of a list which nodes it holds and how often,
\* never their order: one order of the three stands for the six.
MCReplicaLists ==
    {<<n1, n2, n3>>, <<>>} \cup { <<n, n, n>> : n \in MCNodes }

\* Nothing tells one node from another, nor one new id from the other.
MCSymmetry == Permutations(MCNodes) \cup Permutations({i1, i2})

\* One new instance, for the runs in which timeouts race the leader.
MCOneId == {i0, i1}

MCOneInit ==
    /\ instances = [n \in MCNodes |-> [i \in MCOneId |->
          IF i = i0
          THEN [leader |-> Nil, deps |-> {}, seq |-> 1,
                status |-> INSTANCE_EXECUTED, ballot |-> 0, noop |-> FALSE]
          ELSE Nil]]
    /\ inProgress = [n \in MCNodes |-> {}]
    /\ committed = [n \in MCNodes |-> {}]
    /\ executed = [n \in MCNodes |-> <<i0>>]
    /\ maxSeq = [n \in MCNodes |-> 1]
    /\ crashed = {}
    /\ msgs = {}

MCNodeSymmetry == Permutations(MCNodes)
=============================================================================
