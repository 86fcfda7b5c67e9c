\* One worker with two slots: stalls, slow and lost heartbeats, claims whose replies are lost or that run late, refused writes.
CONSTANTS
  i1 = i1  t = t  w1 = w1
  Id = {i1}
  TaskType = {t}
  Key = {}
  CKey = {}
  Worker = {w1}
  Sub = {}
  None = None
  Budgets = {2}
  Limits = {0}
  Filters = {}
  RunDelays = {0}
  Accepts <- MCAcceptsAll
  LeaseS = 3
  RetentionS = 0
  BackoffBase = 0
  BackoffFactor = 1
  BackoffCap = 0
  BatchLimit = 1
  MaxAttempt = 2
  MaxNow = 4
  MaxEvents = 0
  Concurrency = 2
  HeartbeatS = 1
  RenewS = 1
  Disturbances = {"late_claim", "write_error"}
  Reclaims = FALSE
SPECIFICATION WSpec
INVARIANTS WorkerTypeOK LeaseConservative LeaseTrusted
PROPERTIES StartsLeased
