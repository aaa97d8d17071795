\* The order of execution over every dependency graph of three instances
\* whose attributes are those of their first message.
CONSTANTS
    Ids = {1, 2, 3}
    Nil = Nil
    IdTime <- MCIdTime
    Tasks = {t1, t2}
    LocalLed = {1}
    Attrs <- MCAttrsGraphs
    AttrsMayChange = FALSE
    NumCommands <- MCOneCommand
    Rejected = {}
    PersistOutcomes = {TRUE}
    BALLOT_FAILURE_RETRIES = 1
SPECIFICATION Spec
CHECK_DEADLOCK FALSE
SYMMETRY TaskSymmetry
INVARIANT DirectDepsFirst
INVARIANT ExecutedInReferenceOrder
PROPERTY ImplementsExecutionLog
