\* One transaction starved, one not; every mode, decider and dashboard.
CONSTANTS
    None = None
    Sigs <- MCSigs
    Slots <- MCSlots
    Heights <- MCHeights
    SendErrors <- MCSendErrors
    Count = 2
    Starve = 1
    MaxRetries = 2
SPECIFICATION FairSpec
CHECK_DEADLOCK FALSE
INVARIANTS
    TypeOK
    BudgetKept
    LogInOrder
    LandedIsLogged
    FaultRecovered
    RowsTruthful
    LeftAfterRun
PROPERTIES
    SignsFreshHash
    RunEnds
