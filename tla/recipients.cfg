SPECIFICATION Spec
CONSTANTS
    a = a
    b = b
    w1 = w1
    w2 = w2
    Blank = Blank
    Address <- TwoAddresses
    Recipients <- List
    Workers = {w1, w2}
    MaxPasses = 3
SYMMETRY WorkerSymmetry
CHECK_DEADLOCK FALSE
INVARIANTS
    TypeOK
    CompletedMeansServed
    EarlierRecipientsFirst
    OnceInEachPass
