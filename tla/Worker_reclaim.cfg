\* A worker may claim again a task whose earlier attempt it still tracks.
CONSTANTS
  i1 = i1  t = t  w1 = w1
  Id = {i1}
  TaskType = {t}
  Key = {}
  CKey = {}
  Worker = {w1}
  Sub = {}
  None = None
  Budgets = {2}
  Limits = {0}
  Filters = {}
  RunDelays = {0}
  Accepts <- MCAcceptsAll
  LeaseS = 3
  RetentionS = 0
  BackoffBase = 1
  BackoffFactor = 1
  BackoffCap = 1
  BatchLimit = 1
  MaxAttempt = 2
  MaxNow = 4
  MaxEvents = 0
  Concurrency = 2
  HeartbeatS = 1
  RenewS = 1
  Disturbances = {}
  Reclaims = TRUE
SPECIFICATION WSpec
INVARIANTS EveryAttemptTracked
