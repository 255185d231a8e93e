CONSTANTS
    s1 = s1
    s2 = s2
    None = None
    Sigs <- MCSigs
    Slots <- MCSlots
    Heights <- MCHeights
    MaxUnsigned = 1
    Classes <- MCClasses
SPECIFICATION FairSpec
INVARIANTS
    TypeOK
    OneRecordPerBundle
    OpenRecords
    SuccessMeansLanded
    LifecycleTrace
    StageIsEvidenced
PROPERTIES
    CompletedIsFinal
    NeverRegress
    LandedCompletes
    ImplementsLifecycle
