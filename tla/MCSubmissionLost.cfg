CONSTANTS
    None = None
    MaxRetries = 2
    MaxSlot = 2
    Validity = 1
    ConfirmTimeout = 1
    JitoInterval = 1
    MaxCall = 1
    MaxAbandoned = 1
    SendErrors <- MCSendErrors
    Sigs <- MCSigs
    Slots <- MCSlots
    Heights <- MCHeights
SPECIFICATION Spec
INVARIANTS
    NoRecordLost
CHECK_DEADLOCK FALSE
