SPECIFICATION FairSpec
CONSTANTS
    Key = {k1}
    Flush = Flush
    Error = Error
    TrackingBuffer = 1
    Faults = {"command", "tracking", "pubsub", "restart", "garbage", "malformed", "stop"}
    MaxTurns = 3
INVARIANTS
    TypeOK
    ResetIsOnItsWay
    MarkerIsWatched
PROPERTIES
    ImplementsEventStream
    ResetArrives
    CloseReturns
    Resubscribes
CHECK_DEADLOCK FALSE
