CONSTANTS
    Callers = {c1, c2, c3}
    SlidingWindowSize = 3
    MinimumCalls = 2
    PermittedCalls = 2
    WaitDuration = 1
    ThresholdNum = 1
    ThresholdDen = 2
    Outcomes = {"success", "recorded", "ignored", "uncaught"}
    ResetAllowed = TRUE
SPECIFICATION Spec
SYMMETRY Symmetry
INVARIANTS
    TypeOK
    FailureCountExact
    ClosedBelowThreshold
    TallyExact
