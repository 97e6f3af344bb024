CONSTANTS
    p1 = p1
    p2 = p2
    r1 = r1
    Inst = {p1}
    Key = {"k1"}
    Reader = {r1}
    Home <- OneReader
    Kinds = {"set", "flush"}
    Reads = {"get"}
    Faults = {"l2", "publish", "receive", "subscribe", "external", "crash"}
    Closers = {p1}
    MaxOps = 1
    MaxFaults = 2
    NoKey = NoKey
    NoOrigin = NoOrigin
SPECIFICATION FairSpec
INVARIANTS
    QuietAfterClose
    NothingOwedWhileAvailable
PROPERTIES
    CallsReturn
    Recovers
    StaleIsDropped
    OwedIsPaid
CHECK_DEADLOCK FALSE
