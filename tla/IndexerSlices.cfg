CONSTANTS
  Batches <- MCBatches
  Ratio = 2
  Steps = {0, 1, 2, 3, 8}
  SliceBudget = 16
  LeastRows = 2
  Block = 2
  TopBlocks = 2
  TopK = 2
  Roles <- MCRoles
  Score <- MCScore
  MaxChunks = 2
SPECIFICATION Spec
INVARIANT SlicedAsWhole
