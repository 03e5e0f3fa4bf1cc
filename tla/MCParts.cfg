CONSTANTS
    Keys = {k1, k2, k3, k4}
    MaxSize = 3
    Ttl = 2
    Types = {"Point", "Subclass"}
    Ids = {1, 2, 200}
    NoId = none
    Mro <- ClassesInOrder
    Kinds = {"retry", "cache"}
    Names = {"api", "db", ""}
    Instances = {i1, i2}
    Swept = "retry"
    MaxListeners = 2
SPECIFICATION Spec
INVARIANTS
    KeepsMostRecent
    TtlCountsFromPut
    TablesInverse
    ReadByItsWriter
    JsonRoundTrips
    ToolHearsOnce
