CONSTANTS
    c1 = c1
    c2 = c2
    Client = {c1, c2}
    Key = {"k1", "k2"}
    NoKey = NoKey
    NoClient = NoClient
    Shards = 2
    ShardOf <- ShardPerKey
    MaxValue = 2
    Cost <- ValueBytes
    MaxMemory = 3
    MaxItemSize = 2
    LowWater = 2
    MaxEvictionRetries = 3
    TTLs = {0, 1}
    Kinds = {"get", "set", "add", "counter", "forget", "touch", "flush"}
    KeySets <- Batches
    MaxCalls = 2
    MaxTime = 1
    MaxInt = 1
SPECIFICATION FairSpec
PROPERTIES
    ImplementsLossyStore
    CallsReturn
CHECK_DEADLOCK FALSE
