\* Two goroutines, one executing an instance, the other an instance that
\* depends on it.
CONSTANTS
    Ids = {1, 2}
    Nil = Nil
    IdTime <- MCIdTime
    Tasks = {t1, t2}
    LocalLed = {1}
    Attrs <- MCAttrsPair
    AttrsMayChange = FALSE
    NumCommands <- MCOneCommand
    Rejected = {}
    PersistOutcomes = {TRUE}
    BALLOT_FAILURE_RETRIES = 1
SPECIFICATION Spec
CHECK_DEADLOCK FALSE
INVARIANT TargetValueReturned
