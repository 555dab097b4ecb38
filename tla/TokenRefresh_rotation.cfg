SPECIFICATION FairSpec
CONSTANTS
  w1 = w1
  w2 = w2
  i1 = i1
  i2 = i2
  nobody = nobody
  Workers = {w1, w2}
  Instances = {i1, i2}
  Nobody = nobody
  Platforms = {"anthropic", "grok"}
  Tasks = {"reauth", "manual", "edit"}
  MaxDue = 1
  MaxRetries = 2
  Faults = {"redis", "db", "lost", "crash", "lapse", "revoke"}
  MaxFaults = 1
INVARIANTS
  TypeOK
  OneRefresher
  TokenIsKept
  SentOnce
  DisabledIsDead
PROPERTIES DueIsSettled
CHECK_DEADLOCK FALSE
