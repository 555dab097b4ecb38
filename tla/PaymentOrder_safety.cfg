\* Two concurrent calls, up to three deaths or failing steps.
CONSTANTS
    w1 = w1
    w2 = w2
    Workers = {w1, w2}
    OrderTypes = {"balance", "subscription", "unsupported"}
    RebatesDue = {TRUE, FALSE}
    MaxFaults = 3
SPECIFICATION Spec
SYMMETRY MCSymmetry
INVARIANTS
    TypeOK
    CreditedOnce
    CompletedIsSettled
    NothingForFree
    PaidIsKept
    AckedIsSettled
PROPERTIES
    CompletedIsFinal
    KeepsPromise
\* An order whose creation failed and that nobody looks at is final.
CHECK_DEADLOCK FALSE
