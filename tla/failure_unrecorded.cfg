SPECIFICATION Spec
CONSTANTS
    p1 = p1
    p2 = p2
    n1 = n1
    n2 = n2
    Pods <- TwoPods
    Notif <- OneNotif
    Schedules <- Immediate
    Faults <- DbOnly
    MaxFaults = 1
    MaxAttempts = 3
    RetryBatch = 1
    ScheduledBatch = 1
    BackoffInitial = 1
    BackoffMax = 2
    PublishLease = 2
    DedupTTL = 2
CHECK_DEADLOCK FALSE
INVARIANT FailureIsHandledLater
