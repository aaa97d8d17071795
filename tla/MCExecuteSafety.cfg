\* Exactly-once application under every interleaving of two goroutines,
\* commits that change attributes, store and persistence errors.
CONSTANTS
    Ids = {1, 2, 3}
    Nil = Nil
    IdTime <- MCIdTime
    Tasks = {t1, t2}
    LocalLed = {1}
    Attrs <- MCAttrsChanging
    AttrsMayChange = TRUE
    NumCommands <- MCOneCommand
    Rejected <- MCRejected
    PersistOutcomes = {TRUE, FALSE}
    BALLOT_FAILURE_RETRIES = 1
SPECIFICATION Spec
CHECK_DEADLOCK FALSE
SYMMETRY TaskSymmetry
INVARIANT TypeOK
INVARIANT AppliedExactlyOnce
INVARIANT ChainFindsCommitted
