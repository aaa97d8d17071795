\* Two recoveries of one instance at one ballot, between three replicas
\* whose commit timeouts fire while the leader runs.
CONSTANTS
    i0 = i0
    i1 = i1
    i2 = i2
    Ids <- MCOneId
    Nil = Nil
    ZeroID = ZeroID
    n1 = n1
    n2 = n2
    n3 = n3
    Nodes <- MCNodes
    ReplicaLists <- MCReplicaLists
    MaxBallot = 2
    MaxPrepares = 2
    Timeouts = TRUE
    MaxCrashes = 1
SYMMETRY MCNodeSymmetry
INIT MCOneInit
NEXT CNext
CHECK_DEADLOCK FALSE
INVARIANT Agreement
