\* Two tasks published by overlapping transactions, two consumers, a name reused.
CONSTANTS
  x1 = x1  x2 = x2  c1 = c1  c2 = c2
  Id = {1, 2}
  TaskType = {"t"}
  TypeOf <- MCOneType
  Writer = {x1, x2}
  Consumer = {c1, c2}
  Filters <- MCQueuedOfTypeOrNone
  Backfills <- MCLiveOnly
  Chunk = 1
  BatchSize = 1
  RetentionS = 0
  MaxVersion = 1
  MaxSeq = 2
  MaxGen = 2
  MaxNow = 1
SYMMETRY ConnSymmetry
SPECIFICATION Spec
INVARIANTS BacklogOwned OwnGeneration
PROPERTIES NoEventLost
