CONSTANTS
  N = 3
  Threshold = 4
  LongSeq = 8
  MaxForwards = 4
  Batches <- MCBatches
SPECIFICATION MCSpec
INVARIANTS
  TypeOK
  ReadsItsWeights
  CopiesToMapped
  OthersAtHome
  FetchedAhead
