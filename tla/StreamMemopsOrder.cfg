CONSTANTS
  KRing = 12
  KPerm = 2
  Depth = 2
  MaxLayers = 4
  MaxReplays = 2
SPECIFICATION Spec
INVARIANT SubmitBeforeSync
