CONSTANTS
    Callers = {c1, c2}
    Modes = {"thread", "async", "shield", "signal", "total", "nested"}
    MaxAttempts = 2
    PoolSize = 2
    Errors = {"error", "fatal"}
    RetryOn = {"error", "fatal", "timeoutError", "timeout", "refused"}
    AbortOn = {"fatal"}
    FallbackOn = {"error", "fatal", "timeoutError", "timeout", "refused", "exhausted"}
    RaiseOn = {"fatal"}
SPECIFICATION FairSpec
CONSTRAINT OneOutsidePool
INVARIANTS
    TypeOK
    NoLeftovers
    GivesUpOnlyWhenItMust
    CancellationPropagates
    NoStrayAlarm
PROPERTIES
    EveryCallReturns
