SPECIFICATION Spec
CONSTANTS
    g1 = g1
    g2 = g2
    Reader = {g1, g2}
    Nobody = Nobody
    Mutator = Mutator
    Ms = 2
    MsPerSecond = 1
    Seconds <- AnySeconds
    MaxDuration = 5
    MaxNow = 4
INVARIANTS
    TypeOK
    CopyDiesFirst
    LifetimesFit
SYMMETRY Readers
CHECK_DEADLOCK FALSE
