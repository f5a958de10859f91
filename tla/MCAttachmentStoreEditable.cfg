SPECIFICATION Spec
CONSTANTS
  h1 = h1
  h2 = h2
  Handlers <- MCHandlers
  Limit = 2
  MaxRequests = 2
PROPERTY ChangedOnlyWhileEditable
CHECK_DEADLOCK FALSE
