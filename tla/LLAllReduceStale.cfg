CONSTANTS
  NWords = 2
  Sizes = {1, 2}
  Threads = 2
  SeqMod = 8
  MaxCalls = 7
SPECIFICATION MCSpec
PROPERTY TakesSameNumber
