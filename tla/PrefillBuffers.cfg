CONSTANTS
  EagerRows = 4
  WorksLimit = 2
  Addresses = {0, 1, 2, 3, 4}
  Graphed = 1
  Experts = 6
  Hot = 1
  G = 2
  CpuGroups = 1
  GraphKeep = 1
  MinRows = 5
  Chunk = 0
  Threshold = 4
  Layers = 2
  Batches <- MCBatches
  MaxForwards = 4
  Ahead = 5
SPECIFICATION Spec
INVARIANTS
  TypeOK
  QueuedAlive
  ScratchInWindow
  EachExpertOnce
