SPECIFICATION Spec
CONSTANTS
  i1 = i1
  i2 = i2
  c1 = c1
  c2 = c2
  LockHashes <- MCLockHashes
  CredentialHashes <- MCCredentialHashes
  OutputCells <- MCOutputCells
  Malformed = Malformed
  ShortArgs = ShortArgs
  NoCell = NoCell
  OutPoints = {p1, p2, p3, p4}
INVARIANTS
  LiveRecordsCanonical
  WrittenByIssuer
  ActiveRecordsRevocable
  OneLiveCellPerRegistration
PROPERTY RegistryImplementsLineage
CHECK_DEADLOCK FALSE
