\* One worker that is asked to stop, or crashes, at any moment, and a task that is cancelled and requeued;
\* replies may be lost and handlers ignore their cancellation.
CONSTANTS
  i1 = i1  t = t  w1 = w1
  Id = {i1}
  TaskType = {t}
  Key = {}
  CKey = {}
  Worker = {w1}
  Sub = {}
  None = None
  Budgets = {1}
  Limits = {0}
  Filters = {}
  RunDelays = {0}
  Accepts <- MCAcceptsAll
  LeaseS = 3
  RetentionS = 0
  BackoffBase = 0
  BackoffFactor = 1
  BackoffCap = 0
  BatchLimit = 1
  MaxAttempt = 2
  MaxNow = 1
  MaxEvents = 0
  Concurrency = 1
  HeartbeatS = 1
  RenewS = 1
  Disturbances = {"signal", "crash", "operator", "fatal"}
  Reclaims = FALSE
SPECIFICATION FairSpec
CHECK_DEADLOCK FALSE
INVARIANTS GracefulExitClean CancelAcked
PROPERTIES ShutdownCompletes
