SPECIFICATION FairSpec
CONSTANTS
    Goroutine = {g1, g2}
    Closer = {c1, c2}
    Nobody = Nobody
    Lookups = {"getMany"}
    MaxBatch = 1
    Bucket = {"fast"}
    ErrorClass = {"transport"}
    Scraped = {"getMany"}
    MaxTurns = 2
    MaxAttempts = 1
INVARIANTS
    TypeOK
    ScrapeOrdered
    HealthMirrored
    ReportedOnce
    ReportedOnClose
PROPERTIES
    PressureReported
