SPECIFICATION Spec
CONSTANTS
  Addresses = {a1}
  Served <- MCServed
  Limit = 2
  Window = 1
  MaxBuckets = 2
  MaxTime = 2
  MaxRequests = 5
  MaxOpen = 2
  MaxRestarts = 1
INVARIANTS
  AdmissionsBounded
  DocumentsRemoved
PROPERTY ForgottenOnlyWhenFull
CHECK_DEADLOCK FALSE
