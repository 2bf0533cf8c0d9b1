SPECIFICATION Spec
CONSTANTS
    Environments <- MixedEnvironments
    Unset = Unset
    BigintMax = 32767
    MaxSends = 16
CHECK_DEADLOCK FALSE
INVARIANTS
    TypeOK
    BackoffIsCappedDoubling
    OnlyOverflowExceedsMax
