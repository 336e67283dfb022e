CONSTANTS
  KRing = 12
  KPerm = 2
  Depth = 2
  MaxLayers = 8
  MaxReplays = 2
SPECIFICATION Spec
INVARIANTS
  TypeOK
  OutputReady
  DoneIsAwaited
  RingSlotsDistinct
PROPERTIES
  StreamDrains
  OneShotsRetired
