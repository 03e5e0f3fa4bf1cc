CONSTANTS
    Backends = {"memory", "redis"}
    RemoteKeys = {k1}
    Second = 1
    Keys = {k1, k2}
    MaxSize = 1
    Ttl = 1
    Threads = {t1}
    Tasks = {a1, a2}
    MaxVersion = 1
SYMMETRY Symmetry
SPECIFICATION AnswersSpec
PROPERTIES
    KeepsPromise
