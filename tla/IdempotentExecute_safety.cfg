\* Any step may be late; the clock passes an expiry.
CONSTANTS
    c1 = c1
    c2 = c2
    c3 = c3
    f1 = f1
    f2 = f2
    Callers = {c1, c2, c3}
    Fingerprints = {f1, f2}
    Nobody = Nobody
    Detached = {c2}
    Lease = 2
    TTL = 4
    Backoff = 1
    RenewEvery = 1
    ClaimTime = 1
    CallTime = 3
    MaxFailures = 1
    MaxClock = 5
SPECIFICATION Spec
SYMMETRY MCSymmetry
INVARIANTS
    TypeOK
    ReplayedOwnRequest
    OnceWithinTTL
    OneExecution
\* Time is bounded, and calls are not repeated.
CHECK_DEADLOCK FALSE
