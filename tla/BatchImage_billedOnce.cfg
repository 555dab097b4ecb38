SPECIFICATION Spec
CONSTANTS
  j1 = j1
  j2 = j2
  w1 = w1
  w2 = w2
  none = none
  Jobs = {j1, j2}
  Workers = {w1}
  NoWorker = none
  Costs = {1}
  Hold <- MCHold
  Elsewhere = {0}
  Deposit = 4
  MaxRetries = 1
  Obstacles = {}
  Faults = {"lost"}
  MaxFaults = 1
CONSTRAINT Bystander
INVARIANTS
  BilledOnce
CHECK_DEADLOCK FALSE
