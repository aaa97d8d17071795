----------------------------- MODULE MCOrderWalk -----------------------------
(***************************************************************************)
(* OrderWalk for TLC: the committed graphs and the goroutines.             *)
(***************************************************************************)
EXTENDS OrderWalk

MCIdTime == [i \in Ids |-> IF i = 3 THEN 0 ELSE 1]

\* Every dependency graph of the instances, with sequence numbers that
\* agree and disagree with the timestamps and the ids.
MCCommittedAll ==
    { c \in [Ids -> { [deps |-> d, seq |-> q] : d \in SUBSET Ids, q \in 1 .. 2 }] :
        \A i \in Ids : i \notin c[i].deps }

TaskSymmetry == Permutations(Tasks)
=============================================================================
