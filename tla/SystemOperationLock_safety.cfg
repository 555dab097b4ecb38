\* Deaths, failed renewals; an operation of up to eight ticks, a lease of six; a
\* fourth operation may find the row marked by a late release under the third.
CONSTANTS
    o1 = o1
    o2 = o2
    o3 = o3
    o4 = o4
    Callers = {o1, o2, o3, o4}
    Fingerprints = {o1, o2, o3, o4}
    Nobody = Nobody
    Lease = 6
    RenewEvery = 2
    TTL = 10
    AcquireTime = 1
    RunTime = 8
    MaxClock = 14
    MaxFailures = 1
    MayDie = TRUE
SPECIFICATION Spec
SYMMETRY MCSymmetry
INVARIANTS
    TypeOK
    CreatorIsExclusive
    RunningKeepsRow
PROPERTIES
    EntriesAreLeaseApart
\* Time is bounded, and operations are not repeated.
CHECK_DEADLOCK FALSE
