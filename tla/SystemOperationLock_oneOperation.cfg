\* Nothing fails: three operations one after the other.
CONSTANTS
    o1 = o1
    o2 = o2
    o3 = o3
    Callers = {o1, o2, o3}
    Fingerprints = {o1, o2, o3}
    Nobody = Nobody
    Lease = 6
    RenewEvery = 2
    TTL = 10
    AcquireTime = 1
    RunTime = 8
    MaxClock = 14
    MaxFailures = 0
    MayDie = FALSE
SPECIFICATION Spec
SYMMETRY MCSymmetry
INVARIANTS
    OneOperation
\* Time is bounded, and operations are not repeated.
CHECK_DEADLOCK FALSE
