SPECIFICATION FairPipelineSpec
CONSTANTS
    r1 = r1
    r2 = r2
    w1 = w1
    w2 = w2
    NoReading = NoReading
    Followed = {r1}
    Readings <- TwoReadings
    Workers <- TwoWorkers
    MaxFaults = 2
    QueueSize = 1
    BatchSize = 2
    PublishAttempts = 2
    MaxPublishAttempts = 2
    PolicyVersions = {1, 2}
INVARIANTS
    PipelineTypeOK
    RecommendedIsStoredAndValid
    IdentitiesPerDelivery
    AckedIsAudited
    AuditRowsPerDelivery
    GivingUpTakesEveryAttempt
    CountersAccount
PROPERTIES
    EventsDrain
    QueuedIsFinished
CHECK_DEADLOCK FALSE
