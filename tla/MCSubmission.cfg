CONSTANTS
    None = None
    MaxRetries = 2
    MaxSlot = 3
    Validity = 1
    ConfirmTimeout = 2
    JitoInterval = 1
    MaxCall = 2
    MaxAbandoned = 1
    SendErrors <- MCSendErrors
    Sigs <- MCSigs
    Slots <- MCSlots
    Heights <- MCHeights
SPECIFICATION FairSpec
INVARIANTS
    TypeOK
    EveryAttemptLogged
    NothingInFlight
    LandedStaysLanded
    SuccessIsOnChain
PROPERTIES
    RunEnds
CHECK_DEADLOCK FALSE
