CONSTANTS
    c1 = c1
    c2 = c2
    Client = {c1, c2}
    Key = {"k1", "k2"}
    NoKey = NoKey
    NoClient = NoClient
    Shards = 2
    ShardOf <- ShardPerKey
    MaxValue = 2
    Cost <- ValueBytes
    MaxMemory = 3
    MaxItemSize = 2
    LowWater = 2
    MaxEvictionRetries = 3
    TTLs = {1}
    Kinds = {"set", "add", "counter", "get", "flush"}
    KeySets <- Singles
    MaxCalls = 4
    MaxTime = 1
    MaxInt = 1
SPECIFICATION Spec
SYMMETRY Goroutines
INVARIANTS
    TypeOK
    Accounting
    WithinBudget
    PurgesFirst
    AloneIsStored
    CountersAreExact
PROPERTIES
    ExpiryKeepsLive
CHECK_DEADLOCK FALSE
