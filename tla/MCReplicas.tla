------------------------------ MODULE MCReplicas ------------------------------
(***************************************************************************)
(* Replicas for TLC: the committed graphs the replicas are given.          *)
(***************************************************************************)
EXTENDS Replicas

MCIdTime == [i \in Ids |-> IF i = 3 THEN 0 ELSE 1]

\* Every dependency graph of the instances, with sequence numbers that
\* agree and disagree with the timestamps and the ids.
MCCommittedAll ==
    { c \in [Ids -> { [deps |-> d, seq |-> q] : d \in SUBSET Ids, q \in 1 .. 2 }] :
        \A i \in Ids : i \notin c[i].deps }

ReplicaSymmetry == Permutations(Replicas)

Instruction(cmd, key, args, timestamp) ==
    [cmd |-> cmd, key |-> key, args |-> args, timestamp |-> timestamp]

\* Writes of one key, two of them of one time; writes of two keys, a
\* delete first; a read, and a write the store does not recognise.
MCWorkloads ==
    { <<Instruction("SET", "a", <<"x">>, 1), Instruction("DEL", "a", <<>>, 2),
        Instruction("SET", "a", <<"y">>, 2)>>,
      <<Instruction("DEL", "a", <<>>, 1), Instruction("SET", "a", <<"x">>, 2),
        Instruction("SET", "b", <<"y">>, 3)>>,
      <<Instruction("SET", "a", <<"x">>, 1), Instruction("set", "a", <<"z">>, 2),
        Instruction("GET", "a", <<>>, 0)>> }

\* One cycle 1 -> 3 -> 4 -> 2 -> 1, sorted 1, 2, 3, 4.
MCCommittedCycle ==
    { (1 :> [deps |-> {3}, seq |-> 1]) @@ (2 :> [deps |-> {1}, seq |-> 2]) @@
      (3 :> [deps |-> {4}, seq |-> 3]) @@ (4 :> [deps |-> {2}, seq |-> 4]) }

\* Four writes of one key.
MCWorkloadOfFour == { [i \in 1 .. 4 |-> Instruction("SET", "a", <<"x">>, i)] }

\* The keys of the dependency manager and their segments.
MCSegments ==
    ("a" :> <<"a">>) @@ ("b" :> <<"b">>) @@ ("a:b" :> <<"a", "b">>) @@
    ("a:c" :> <<"a", "c">>) @@ ("a:b:c" :> <<"a", "b", "c">>)

\* Every history of four reads and writes of a key, the key below it, the
\* key below that and a sibling, and the workloads in every order.
MCHistories ==
    [1 .. 4 -> { Instruction(cmd, key, <<"x">>, 1) :
                    cmd \in {"SET", "GET", "get"}, key \in {"a", "a:b", "a:c", "a:b:c"} }]
        \cup { [n \in 1 .. 3 |-> w[p[n]]] : w \in MCWorkloads, p \in Permutations(1 .. 3) }
=============================================================================
