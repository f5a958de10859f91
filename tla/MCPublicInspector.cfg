SPECIFICATION InspectorSpec
CONSTANTS
  w1 = w1
  w2 = w2
  k1 = k1
  k2 = k2
  Credentials <- MCCredentials
  Portal <- MCPortal
  Clis = {t1}
  ChainWrites = TRUE
  MaxJobs = 3
  Inspectors = {i1}
  Documents = {"none", "matches", "differs"}
  MaxInspections = 1
INVARIANTS
  LedgerNeverAheadOfChain
  ChainAndLedgerAgree
  OperationsTellTheTruth
  VouchesForActiveOnly
  ContradictionsExplained
PROPERTY OnlyOwnRollbackLowers
SYMMETRY Symmetry
CHECK_DEADLOCK FALSE
