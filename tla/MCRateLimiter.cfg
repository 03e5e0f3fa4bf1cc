CONSTANTS
    Callers = {c1, c2}
    Limit = 2
    Period = 3
    Timeout = 2
    Horizon = 5
    InUse = {"token", "leaky", "fixed", "sliding"}
SPECIFICATION FairSpec
INVARIANTS
    PeriodLimit
    GrantsWithinCurve
    WaitTimeExact
    ReadingIsHarmless
PROPERTIES
    EveryAcquireAnswered
