SPECIFICATION DeliverySpec
CONSTANTS
    r1 = r1
    r2 = r2
    c1 = c1
    c2 = c2
    d1 = d1
    d2 = d2
    NoRec = NoRec
    Recommendations <- OneRecommendation
    Consumers <- OneConsumer
    Dispatchers <- OneDispatcher
    Deadlines <- TwoDeadlines
    RetryDelays <- OneTick
    Horizon = 2
    MaxRetryAttempts = 2
    MaxPublications = 2
    MaxCopies = 2
    MaxLosses = 1
    MaxCrashes = 0
    MaxDbFailures = 0
INVARIANTS
    FailureIsDeadLettered
CHECK_DEADLOCK FALSE
