SPECIFICATION LiveSpec
CONSTANTS
  Workers = {w1, w2}
  Pushing = {p1}
  Batching = {p2}
  MaxQueueLen = 1
  MaxPushes = 2
  MaxBatches = 1
INVARIANTS
  TypeOK
  QueueSafe
PROPERTIES
  NobodyIsStuck
