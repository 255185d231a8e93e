CONSTANTS
    Capacity = 3
    MinSpan = 3
    Operator <- MCOperator
    MinSenderTip = 4
    Fallback <- MCFallback
    Floors <- MCFloors
    Decider = "heuristic"
    Tips <- MCTips
    StreamSlots <- MCSlots
SPECIFICATION Spec
INVARIANTS
    TypeOK
    BandWithinBounds
    EscalationNeverCheaper
    StarvedPaysFloor
    SkipNeverUnderstated
