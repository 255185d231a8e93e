\* What becomes of a transaction the model holds.
CONSTANTS
    None = None
    Sigs <- MCSigs
    Slots <- MCSlots
    Heights <- MCHeights
    SendErrors <- MCSendErrors
    Count = 2
    Starve = 1
    MaxRetries = 2
SPECIFICATION FairSpec
CHECK_DEADLOCK FALSE
PROPERTY
    HeldIsReticked
