SPECIFICATION Spec
CONSTANTS
  j1 = j1
  j2 = j2
  w1 = w1
  w2 = w2
  none = none
  Jobs = {j1}
  Workers = {w1, w2}
  NoWorker = none
  Costs = {1, 3}
  Hold <- MCHold
  Elsewhere = {0}
  Deposit = 3
  MaxRetries = 2
  Obstacles = {"account", "inline", "output"}
  Faults = {}
  MaxFaults = 0
INVARIANTS
  RefundedNeverRuns
CHECK_DEADLOCK FALSE
