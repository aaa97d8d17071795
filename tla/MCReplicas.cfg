\* Two replicas execute every dependency graph of three instances, the
\* commits reaching each in any order.
CONSTANTS
    Ids = {1, 2, 3}
    Nil = Nil
    Failed = Failed
    IdTime <- MCIdTime
    Replicas = {r1, r2}
    Committed <- MCCommittedAll
    Segments <- MCSegments
    Histories <- MCHistories
    Workloads <- MCWorkloads
SPECIFICATION Spec
CHECK_DEADLOCK FALSE
SYMMETRY ReplicaSymmetry
INVARIANT TypeOK
INVARIANT ReplicasAgree
INVARIANT StoresAgree
INVARIANT RepairConverges
INVARIANT ValuesSurviveTransfer
INVARIANT ManagerRecordsInterference
INVARIANT DependencyClearingLaw
