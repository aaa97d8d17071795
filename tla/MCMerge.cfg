\* Two replicas read four messages about one instance from a connection
\* that may break, and merge them in every order.
CONSTANTS
    Ids = {1, 2, 3}
    Nil = Nil
    Failed = Failed
    Replicas = {r1, r2}
    Messages <- MCMessages
    MaxUnread = 2
SPECIFICATION Spec
CHECK_DEADLOCK FALSE
SYMMETRY ReplicaSymmetry
INVARIANT TypeOK
INVARIANT MergedInAnyOrder
INVARIANT ReadsWhatWasWritten
