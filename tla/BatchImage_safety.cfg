SPECIFICATION FairSpec
CONSTANTS
  j1 = j1
  j2 = j2
  w1 = w1
  w2 = w2
  none = none
  Jobs = {j1}
  Workers = {w1, w2}
  NoWorker = none
  Costs = {1, 3}
  Hold <- MCHold
  Elsewhere = {0, 2}
  Deposit = 4
  MaxRetries = 2
  Obstacles = {"account", "inline", "output"}
  Faults = {"fail", "lost", "crash", "lapse"}
  MaxFaults = 1
INVARIANTS
  TypeOK
  Conservation
  CompletedIsCharged
  ChargedIsDelivered
  RefundedIsOver
  InHandIsQueued
  OneWorker
PROPERTIES
  KeepsPromise
  QueuedIsSettled
CHECK_DEADLOCK FALSE
