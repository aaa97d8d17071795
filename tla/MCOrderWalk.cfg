\* Two goroutines walk and execute every dependency graph of three
\* instances, read by read, while the commits arrive.
CONSTANTS
    Ids = {1, 2, 3}
    Nil = Nil
    IdTime <- MCIdTime
    Tasks = {t1, t2}
    Committed <- MCCommittedAll
SPECIFICATION Spec
CHECK_DEADLOCK FALSE
SYMMETRY TaskSymmetry
INVARIANT TypeOK
PROPERTY WalksImplementExecutionLog
