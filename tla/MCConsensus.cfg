\* Two instances between three replicas, one of which may stop; two
\* prepare phases recover what its leader left uncommitted.
CONSTANTS
    i0 = i0
    i1 = i1
    i2 = i2
    Ids <- MCIds
    Nil = Nil
    ZeroID = ZeroID
    n1 = n1
    n2 = n2
    n3 = n3
    Nodes <- MCNodes
    ReplicaLists <- MCReplicaLists
    MaxBallot = 1
    MaxPrepares = 2
    Timeouts = FALSE
    MaxCrashes = 1
SYMMETRY MCSymmetry
INIT MCInit
NEXT CNext
CHECK_DEADLOCK FALSE
INVARIANT TypeOK
INVARIANT Agreement
INVARIANT Ordered
PROPERTY InstancesAdvance
