CONSTANTS
  NWords = 3
  Sizes = {1, 3}
  Threads = 2
  SeqMod = 16
  MaxCalls = 4
SPECIFICATION MCSpec
INVARIANTS
  TypeOK
  NoForeignWord
PROPERTIES
  UnreadKept
  ImplementsAllReduce
  EveryCallEnds
