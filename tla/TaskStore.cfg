\* One task through every order of claims, outcomes, reaps, cancellations and requeues, with
\* a subscription that comes, changes its filter and goes.
CONSTANTS
  i1 = i1  t = t  w1 = w1  s1 = s1
  Id = {i1}
  TaskType = {t}
  Key = {}
  CKey = {}
  Worker = {w1}
  Sub = {s1}
  None = None
  Budgets = {1, 2}
  Limits = {0}
  Filters <- MCTerminalOrAll
  RunDelays = {0}
  Accepts <- MCAcceptsAll
  LeaseS = 1
  RetentionS = 0
  BackoffBase = 1
  BackoffFactor = 1
  BackoffCap = 1
  BatchLimit = 1
  MaxAttempt = 2
  MaxNow = 3
  MaxEvents = 1
SPECIFICATION Spec
INVARIANTS TypeOK LeaseFence RetryBudget CancelHonoured OutcomeOwned
PROPERTIES RefinesLifecycle Outbox
