------------------------------- MODULE MCMerge -------------------------------
(***************************************************************************)
(* Merge for TLC: two replicas, and messages about an instance that differ *)
(* in sequence number, in dependencies and in the order of the same        *)
(* dependencies, in status and flags, and in the number of commands and of *)
(* their arguments.                                                        *)
(***************************************************************************)
EXTENDS Merge, TLC

Set(key, args, ts) == [cmd |-> "SET", key |-> key, args |-> args, timestamp |-> ts]

MCMessage(leader, commands, deps, seq, status, noop, match) ==
    [id |-> 3, leader |-> leader, commands |-> commands, deps |-> deps, seq |-> seq,
     status |-> status, ballot |-> seq, noop |-> noop, match |-> match,
     commitTimeout |-> 7, executeTimeout |-> 9]

MCMessages ==
    { MCMessage("n1", <<>>, <<>>, 1, INSTANCE_PREACCEPTED, TRUE, TRUE),
      MCMessage("n1", <<Set("a", <<"x">>, 5)>>, <<1>>, 2, INSTANCE_PREACCEPTED, FALSE, TRUE),
      MCMessage("n2", <<Set("a", <<"x", "y">>, 5), Set("b", <<>>, 6)>>, <<1, 2>>, 1,
                INSTANCE_ACCEPTED, FALSE, FALSE),
      MCMessage("n2", <<Set("b", <<>>, 6)>>, <<2, 1>>, 3, INSTANCE_COMMITTED, FALSE, TRUE),
      MCMessage("n1", <<Set("a", <<"x">>, 5)>>, <<3>>, 2, INSTANCE_ACCEPTED, FALSE, FALSE) }

ReplicaSymmetry == Permutations(Replicas)
=============================================================================
