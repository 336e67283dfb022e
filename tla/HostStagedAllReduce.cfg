CONSTANTS
  Region = 2
  NBuf = 2
  Sizes = {1, 5}
  MaxCalls = 3
SPECIFICATION MCSpec
INVARIANTS
  TypeOK
  TakesPeersInput
PROPERTIES
  UnreadKept
  ImplementsAllReduce
  EveryCallEnds
