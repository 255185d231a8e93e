CONSTANTS
    Capacity = 3
    MinSpan = 3
    Operator <- MCOperator
    MinSenderTip = 4
    Fallback <- MCFallback
    Floors <- MCFloors
    Decider = "gemini"
    Tips <- MCTips
    StreamSlots <- MCSlots
SPECIFICATION Spec
INVARIANTS
    TipWithinBounds
