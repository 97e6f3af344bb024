SPECIFICATION Spec
CONSTANTS
    Key = {k1}
    Flush = Flush
    Error = Error
    TrackingBuffer = 1
    Faults = {}
    MaxTurns = 2
INVARIANTS
    ClearingIsFollowed
CHECK_DEADLOCK FALSE
