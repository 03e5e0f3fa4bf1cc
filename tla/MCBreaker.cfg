CONSTANTS
    Callers = {c1, c2, c3}
    SlidingWindowSize = 3
    MinimumCalls = 2
    PermittedCalls = 2
    WaitDuration = 2
    ThresholdNum = 1
    ThresholdDen = 2
    Outcomes = {"success", "recorded", "unrecorded"}
    ResetAllowed = FALSE
SPECIFICATION FairSpec
INVARIANTS
    ProbeBudget
    HalfOpenResolvable
PROPERTIES
    JudgedAfterAllProbes
    ImplementsProtocol
    HalfOpenResolves
    Recovers
