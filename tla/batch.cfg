CONSTANTS
    p1 = p1
    p2 = p2
    r1 = r1
    Inst = {p1}
    Key = {"k1", "k2"}
    Reader = {r1}
    Home <- OneReader
    Kinds = {"setMany", "add", "counter", "touch", "flush"}
    Reads = {"get", "getMany"}
    Faults = {"l2", "l1set"}
    Closers = {}
    MaxOps = 2
    MaxFaults = 1
    NoKey = NoKey
    NoOrigin = NoOrigin
SPECIFICATION Spec
INVARIANTS
    OwnWritesVisible
PROPERTIES
    BatchNotTorn
CHECK_DEADLOCK FALSE
