CONSTANTS
  Order <- MCOrder
  Built <- MCBuilt
  Repacked <- MCRepacked
  Fused <- MCFused
  MinUnits = 2
  IdleNames = {"idle"}
  SkipNames = {"engram"}
  MaxChanges = 2
  Margin = 1
  ScratchPerRow = 1
  Ranks = {0, 1}
  R0 = 0
  UserChunks = {10}
  Calibrate = TRUE
  FirstGuess = 8
  Unmeasured = 8
  Rows = {1, 3, 5}
  Costs <- MCCosts
  Total <- MCTotal
  Pool <- MCPool
  Cap = 100
  MaxLaunches = 2
  MaxWindows = 2
SPECIFICATION MCSpec
INVARIANTS
  TypeOK
  HintFits
  KeepsWeights
PROPERTIES
  CutNotRepeated
  CalibrationEnds
