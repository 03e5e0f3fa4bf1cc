CONSTANTS
    Callers = {c1}
    Modes = {"total"}
    MaxAttempts = 2
    PoolSize = 1
    Errors = {"error", "fatal"}
    RetryOn = {"error", "fatal", "timeoutError", "timeout", "refused"}
    AbortOn = {"fatal"}
    FallbackOn = {"error", "fatal", "timeoutError", "timeout", "refused", "exhausted"}
    RaiseOn = {"fatal"}
SPECIFICATION Spec
INVARIANT TotalLimitStands
