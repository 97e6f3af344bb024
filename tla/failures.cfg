CONSTANTS
    p1 = p1
    p2 = p2
    r1 = r1
    Inst = {p1, p2}
    Key = {"k1"}
    Reader = {r1}
    Home <- OneReader
    Kinds = {"set", "flush"}
    Reads = {"get"}
    Faults = {"l1set", "l1flush", "publish", "crash", "external"}
    Closers = {}
    MaxOps = 1
    MaxFaults = 2
    NoKey = NoKey
    NoOrigin = NoOrigin
SPECIFICATION Spec
INVARIANTS
    TypeOK
    Coherent
PROPERTIES
    HealthyStartsEmpty
CHECK_DEADLOCK FALSE
