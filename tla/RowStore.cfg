CONSTANTS
  Callers = {c1, c2}
  Workers = {w1, w2}
  NRows = 4
  Lo = 0
  Hi = 3
  NSlots = 2
  Requests <- MCRequests
  MaxCalls = 1
SPECIFICATION Spec
INVARIANTS
  TypeOK
  RowsExact
  JobsAlive
PROPERTIES
  CallsReturn
CHECK_DEADLOCK FALSE
