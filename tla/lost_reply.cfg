CONSTANTS
    p1 = p1
    p2 = p2
    r1 = r1
    Inst = {p1}
    Key = {"k1"}
    Reader = {r1}
    Home <- OneReader
    Kinds = {"set"}
    Reads = {"get"}
    Faults = {"reply"}
    Closers = {}
    MaxOps = 1
    MaxFaults = 1
    NoKey = NoKey
    NoOrigin = NoOrigin
SPECIFICATION Spec
INVARIANTS
    OwnChangesNeverStale
CHECK_DEADLOCK FALSE
