SPECIFICATION Spec
CONSTANTS
    Worker = {w1, w2}
    PoolSize = {1, 2}
    MaxCharges = 2
    Recover = 2
    Skew = 1
    LastTime = 4
    MaxRequests = 4
    MaxFaults = 1
    Nobody = Nobody
SYMMETRY Symmetry
INVARIANTS
    CountsTellHistory
    BucketIsExact
    SomeRequestProceeds
CHECK_DEADLOCK FALSE
