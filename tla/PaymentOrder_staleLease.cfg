\* Two workers with the same lease version.
CONSTANTS
    w1 = w1
    w2 = w2
    Workers = {w1, w2}
    OrderTypes = {"balance"}
    RebatesDue = {TRUE}
    MaxFaults = 2
SPECIFICATION Spec
PROPERTIES
    StaleWorkerCannotFail
\* An order whose creation failed and that nobody looks at is final.
CHECK_DEADLOCK FALSE
