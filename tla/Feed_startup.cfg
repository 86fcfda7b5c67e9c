\* Writers and a second consumer open transactions while a consumer starts.
CONSTANTS
  x1 = x1  x2 = x2  c1 = c1  c2 = c2
  Id = {1}
  TaskType = {"t"}
  TypeOf <- MCOneType
  Writer = {x1, x2}
  Consumer = {c1, c2}
  Filters <- MCQueuedOrCancelled
  Backfills <- MCAllHistory
  Chunk = 1
  BatchSize = 1
  RetentionS = 0
  MaxVersion = 1
  MaxSeq = 3
  MaxGen = 1
  MaxNow = 0
SPECIFICATION FairSpec
PROPERTIES StartupEnds
