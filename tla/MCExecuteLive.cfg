\* Termination of executeInstance under fair scheduling: two goroutines,
\* two attempts of each prepare, persistence that may fail.
CONSTANTS
    Ids = {1, 2}
    Nil = Nil
    IdTime <- MCIdTime
    Tasks = {t1, t2}
    LocalLed = {1}
    Attrs <- MCAttrsPair
    AttrsMayChange = FALSE
    NumCommands <- MCOneCommand
    Rejected = {}
    PersistOutcomes = {TRUE, FALSE}
    BALLOT_FAILURE_RETRIES = 2
SPECIFICATION FairSpec
CHECK_DEADLOCK FALSE
PROPERTY ExecuteReturns
