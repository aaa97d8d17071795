\* An instance of two commands, the second of which the store rejects.
CONSTANTS
    Ids = {1, 2}
    Nil = Nil
    IdTime <- MCIdTime
    Tasks = {t1}
    LocalLed = {}
    Attrs <- MCAttrsPair
    AttrsMayChange = FALSE
    NumCommands <- MCTwoCommands
    Rejected <- MCRejectedSecond
    PersistOutcomes = {TRUE}
    BALLOT_FAILURE_RETRIES = 1
SPECIFICATION Spec
CHECK_DEADLOCK FALSE
INVARIANT AppliedExactlyOnce
