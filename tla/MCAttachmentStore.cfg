SPECIFICATION Spec
CONSTANTS
  h1 = h1
  h2 = h2
  Handlers <- MCHandlers
  Limit = 2
  MaxRequests = 3
INVARIANTS
  LimitKept
  RowsReadable
  OrphansExplained
  ClosedSetKept
  AuditTrue
SYMMETRY HandlerSymmetry
CHECK_DEADLOCK FALSE
