\* Three callers with up to two rate-limited answers each, three Gemini attempts.
CONSTANTS
    None = None
    Callers = {c1, c2, c3}
    MinInterval = 2
    MaxRateRetries = 2
    JitoBase = 1
    JitoShift = 1
    JitoCap = 2
    MaxAttempts = 3
    GeminiBase = 1
    GeminiShift = 1
    MaxBackoff = 4
    Delays <- MCDelays
SPECIFICATION FairSpec
INVARIANT
    TypeOK
PROPERTIES
    Spaced
    HintHonoured
    CallsReturn
