\* Two workers of one type: claims, publications, pauses and enqueues statement by statement.
CONSTANTS
  i1 = i1  i2 = i2  t1 = t1  k1 = k1  c = c  w1 = w1  w2 = w2  p = p  e = e
  Id = {i1, i2}
  TaskType = {t1}
  Key = {k1}
  CKey = {c}
  Worker = {w1, w2}
  Sub = {}
  None = None
  Budgets = {1}
  Limits = {0, 1}
  Filters = {}
  RunDelays = {0}
  Accepts <- MCAcceptsAll
  LeaseS = 1
  RetentionS = 0
  BackoffBase = 0
  BackoffFactor = 1
  BackoffCap = 0
  BatchLimit = 2
  MaxAttempt = 1
  MaxNow = 0
  MaxEvents = 0
  Starter = {p}
  Client = {e}
SPECIFICATION TxSpec
SYMMETRY TxSymmetry
CHECK_DEADLOCK FALSE
INVARIANTS UniqueActiveKey
PROPERTIES RefinesStore LimitsRespected
