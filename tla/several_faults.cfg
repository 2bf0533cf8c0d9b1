SPECIFICATION Spec
CONSTANTS
    p1 = p1
    p2 = p2
    n1 = n1
    n2 = n2
    Pods <- TwoPods
    Notif <- OneNotif
    Schedules <- Future
    Faults <- FaultKinds
    MaxFaults = 2
    MaxAttempts = 3
    RetryBatch = 1
    ScheduledBatch = 1
    BackoffInitial = 1
    BackoffMax = 2
    PublishLease = 2
    DedupTTL = 2
CHECK_DEADLOCK FALSE
SYMMETRY PodSymmetry
INVARIANTS
    LeaseCoversRetry
    SingleSendInFlight
    NoAcceptedLoss
    RefusedIsNotSent
    DuplicatesCostFaults
PROPERTIES
    ImplementsLifecycle
    DecidedIsFinal
