CONSTANTS
    Threads = {t1, t2}
    Tasks = {a1, a2, a3}
    MaxConcurrent = 1
    MaxWait = 2
SPECIFICATION FairSpec
INVARIANTS
    PermitsExact
    WakeExact
    NoLostWakeup
PROPERTIES
    ImplementsPools
    EveryAskAnswered
