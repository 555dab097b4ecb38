\* Two concurrent calls, two deaths or failing statements, an order of two
\* units of which any part may be refunded, a balance of up to three.
\* Best-effort audit statements may fail too, and answers of the gateway and of
\* the database get lost.
CONSTANTS
    w1 = w1
    w2 = w2
    Workers = {w1, w2}
    OrderAmount = 2
    MaxBalance = 3
    MaxFaults = 2
    AuditMayFail = TRUE
    RepliesMayGetLost = TRUE
    LegacyOrders = TRUE
SPECIFICATION Spec
SYMMETRY MCSymmetry
INVARIANTS
    TypeOK
    NoDoubleDeduction
    FailedRefundIsReturned
    PendingDetailIsHeld
    OneRefundInFlight
    RefundedIsPaidBack
PROPERTIES
    PendingConvergesByOutcome
    KeepsPromise
\* A refunded order, or one whose refund call died, stays as it is.
CHECK_DEADLOCK FALSE
