SPECIFICATION OutboxSpec
CONSTANTS
    e1 = e1
    e2 = e2
    p1 = p1
    p2 = p2
    NoEvent = NoEvent
    Events <- TwoEvents
    Publishers <- TwoPublishers
    MaxAttempts = 2
    BatchLimit = 2
    LeaseTime = 1
    RetryDelays <- AnyDelay
    MaxCrashes = 1
INVARIANTS
    OutboxTypeOK
    PublishedWasSent
    RetryBudget
    CopiesAccounted
PROPERTIES
    TerminalRowsFinal
    EventSettles
CHECK_DEADLOCK FALSE
