CONSTANTS
    Callers = {c1, c2}
    SlidingWindowSize = 2
    MinimumCalls = 1
    PermittedCalls = 2
    WaitDuration = 1
    ThresholdNum = 1
    ThresholdDen = 2
    Outcomes = {"success", "recorded", "ignored", "uncaught"}
    ResetAllowed = FALSE
SPECIFICATION Spec
INVARIANT HalfOpenResolvable
