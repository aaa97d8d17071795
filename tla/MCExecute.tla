------------------------------ MODULE MCExecute ------------------------------
(***************************************************************************)
(* Execute for TLC: the instances, their attributes and the goroutines of  *)
(* each run.                                                               *)
(***************************************************************************)
EXTENDS Execute

\* All ids carry the same timestamp but the last, which is older than its
\* number says: the three levels of iidSorter.Less all decide some pair.
MCIdTime == [i \in Ids |-> IF i = 3 THEN 0 ELSE 1]

Attr(deps, seq) == [deps |-> deps, seq |-> seq]

\* Three instances whose attributes change between PreAccept and Commit:
\* 1 and 2 may end in a cycle, 2 may come to depend on 3, and each may be
\* named as a dependency before the replica has seen it.
MCAttrsChanging ==
    (1 :> { Attr(<<>>, 1), Attr(<<2>>, 1) }) @@
    (2 :> { Attr(<<1>>, 1), Attr(<<1, 3>>, 2) }) @@
    (3 :> { Attr(<<>>, 1) })

\* Three instances and twelve graphs among them: chains, cycles of two
\* and of three, dependencies listed in both orders, equal and different
\* sequence numbers.
MCAttrsGraphs ==
    (1 :> { Attr(<<2>>, 1), Attr(<<2, 3>>, 2) }) @@
    (2 :> { Attr(<<1>>, 1), Attr(<<3, 1>>, 2) }) @@
    (3 :> { Attr(<<>>, 1), Attr(<<1>>, 1), Attr(<<2>>, 2) })

\* A target, its dependency, and a dependency the commit of that one adds.
MCAttrsLateDependency ==
    (1 :> { Attr(<<2>>, 2) }) @@
    (2 :> { Attr(<<>>, 1), Attr(<<3>>, 2) }) @@
    (3 :> { Attr(<<>>, 1) })

\* An instance and one that depends on it.
MCAttrsPair ==
    (1 :> { Attr(<<>>, 1) }) @@
    (2 :> { Attr(<<1>>, 2) })

MCOneCommand == [i \in Ids |-> 1]

\* Instance 1 has two commands, and the store rejects the second.
MCTwoCommands == [i \in Ids |-> IF i = 1 THEN 2 ELSE 1]

MCRejectedSecond == { <<1, 2>> }

\* The store rejects the command of instance 3.
MCRejected == { <<3, 1>> }

\* The goroutines are interchangeable.
TaskSymmetry == Permutations(Tasks)
=============================================================================
