CONSTANTS
    p1 = p1
    p2 = p2
    r1 = r1
    Inst = {p1, p2}
    Key = {"k1", "k2"}
    Reader = {r1}
    Home <- OneReader
    Kinds = {"flush"}
    Reads = {"get"}
    Faults = {"l2"}
    Closers = {}
    MaxOps = 1
    MaxFaults = 1
    NoKey = NoKey
    NoOrigin = NoOrigin
SPECIFICATION Spec
INVARIANTS
    PeersAlwaysTold
CHECK_DEADLOCK FALSE
