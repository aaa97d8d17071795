\* A commit that adds a dependency while a goroutine is between
\* getExecutionOrder and getUncommittedInstances.
CONSTANTS
    Ids = {1, 2, 3}
    Nil = Nil
    IdTime <- MCIdTime
    Tasks = {t1}
    LocalLed = {}
    Attrs <- MCAttrsLateDependency
    AttrsMayChange = TRUE
    NumCommands <- MCOneCommand
    Rejected = {}
    PersistOutcomes = {TRUE}
    BALLOT_FAILURE_RETRIES = 1
SPECIFICATION Spec
CHECK_DEADLOCK FALSE
INVARIANT DirectDepsFirst
