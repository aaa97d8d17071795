\* Two replicas execute a committed cycle of four instances.
CONSTANTS
    Ids = {1, 2, 3, 4}
    Nil = Nil
    Failed = Failed
    IdTime <- MCIdTime
    Replicas = {r1, r2}
    Committed <- MCCommittedCycle
    Segments <- MCSegments
    Histories <- MCHistories
    Workloads <- MCWorkloadOfFour
SPECIFICATION Spec
CHECK_DEADLOCK FALSE
INVARIANT ReplicasAgree
