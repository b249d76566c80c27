SPECIFICATION OutboxSpec
CONSTANTS
    e1 = e1
    e2 = e2
    p1 = p1
    p2 = p2
    NoEvent = NoEvent
    Events <- OneEvent
    Publishers <- TwoPublishers
    MaxAttempts = 3
    BatchLimit = 1
    LeaseTime = 2
    RetryDelays <- OneTick
    MaxCrashes = 0
INVARIANTS
    LeaseExclusive
CHECK_DEADLOCK FALSE
