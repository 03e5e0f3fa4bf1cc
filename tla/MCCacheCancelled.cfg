CONSTANTS
    Backends = {"memory"}
    RemoteKeys = {}
    Second = 1
    Keys = {k1}
    MaxSize = 1
    Ttl = 0
    Threads = {}
    Tasks = {a1, a2}
    MaxVersion = 0
SPECIFICATION SpecUncaught
SYMMETRY Symmetry
INVARIANT SleepersHaveOwner
