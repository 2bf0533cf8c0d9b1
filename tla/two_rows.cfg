SPECIFICATION Spec
CONSTANTS
    p1 = p1
    p2 = p2
    n1 = n1
    n2 = n2
    Pods <- TwoPods
    Notif <- TwoNotifs
    Schedules <- Soon
    Faults <- StopOnly
    MaxFaults = 1
    MaxAttempts = 2
    RetryBatch = 2
    ScheduledBatch = 1
    BackoffInitial = 1
    BackoffMax = 2
    PublishLease = 2
    DedupTTL = 1
CHECK_DEADLOCK FALSE
SYMMETRY ServiceSymmetry
INVARIANT ClaimsAreExclusive
PROPERTY ImplementsLifecycle
