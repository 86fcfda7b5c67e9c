\* One task, two consumers that register, crash, resume and replace each other.
CONSTANTS
  x1 = x1  c1 = c1  c2 = c2
  Id = {1}
  TaskType = {"t"}
  TypeOf <- MCOneType
  Writer = {x1}
  Consumer = {c1, c2}
  Filters <- MCQueuedOrCancelled
  Backfills <- MCAnyBackfill
  Chunk = 1
  BatchSize = 1
  RetentionS = 0
  MaxVersion = 2
  MaxSeq = 2
  MaxGen = 2
  MaxNow = 1
SYMMETRY ConsumerSymmetry
SPECIFICATION Spec
INVARIANTS TypeOK NoGap
PROPERTIES NoReprojection
