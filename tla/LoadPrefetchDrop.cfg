CONSTANTS
  NumLayers = 6
  Tail = 2
  NPieces = 2
SPECIFICATION MCSpec
PROPERTY DropKeepsReadAhead
