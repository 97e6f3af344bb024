CONSTANTS
    p1 = p1
    p2 = p2
    r1 = r1
    Inst = {p1, p2}
    Key = {"k1"}
    Reader = {r1}
    Home <- OneReader
    Kinds = {"set", "counter", "forget"}
    Reads = {"get"}
    Faults = {"reply", "publish", "receive"}
    Closers = {}
    MaxOps = 2
    MaxFaults = 1
    NoKey = NoKey
    NoOrigin = NoOrigin
SPECIFICATION Spec
INVARIANTS
    Coherent
    FillsCoherent
CHECK_DEADLOCK FALSE
