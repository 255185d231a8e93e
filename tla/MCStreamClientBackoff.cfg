CONSTANTS
    None = None
    InitialBackoff = 2
    MaxBackoff = 3
    Replay = TRUE
    ReconnectEnabled = TRUE
    Capacity = 1
    WireSlots <- MCWireSlots
    MaxWire = 3
    MaxFailures = 2
SPECIFICATION Spec
INVARIANTS
    BackoffResets
CHECK_DEADLOCK FALSE
