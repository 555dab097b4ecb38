\* Two concurrent calls, one death or failing step.  Fairness, hence no symmetry.
\* Order types the service does not know are never fulfilled and are left out;
\* every order has a rebate due.
CONSTANTS
    w1 = w1
    w2 = w2
    Workers = {w1, w2}
    OrderTypes = {"balance", "subscription"}
    RebatesDue = {TRUE}
    MaxFaults = 1
SPECIFICATION FairSpec
PROPERTIES
    PaidIsFulfilled
\* An order whose creation failed and that nobody looks at is final.
CHECK_DEADLOCK FALSE
