SPECIFICATION Spec
CONSTANTS
    n1 = n1
    n2 = n2
    n3 = n3
    p1 = p1
    p2 = p2
    Notif <- ThreeNotifs
    Pods = {p1, p2}
    Instants = {1, 2}
    Zones <- EastAndWest
    ScheduledBatch = 2
    DedupTTL = 3
    MaxLosses = 2
    Horizon = 9
SYMMETRY WorkerSymmetry
CHECK_DEADLOCK FALSE
INVARIANTS
    TypeOK
    NotBeforeSchedule
    WaitIsBounded
