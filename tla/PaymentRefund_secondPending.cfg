\* One call at a time and no faults at all: the second pending refund.
CONSTANTS
    w1 = w1
    Workers = {w1}
    OrderAmount = 2
    MaxBalance = 2
    MaxFaults = 0
    AuditMayFail = FALSE
    RepliesMayGetLost = FALSE
    LegacyOrders = FALSE
SPECIFICATION Spec
INVARIANTS
    PendingCanConverge
CHECK_DEADLOCK FALSE
