SPECIFICATION FairClientSpec
CONSTANTS
  Issuer = i1
  LockHashes <- MCLockHashes
  CredentialHashes = {k1}
  OutputCells <- MCOutputCells
  Malformed = Malformed
  ShortArgs = ShortArgs
  NoCell = NoCell
  OutPoints = {p1, p2, p3}
  Clients = {a, b}
  ReasonCodes = {0, 1}
  MaxAttempts = 2
INVARIANTS
  ReportsAreTrue
  DuplicatesOnlyByRace
PROPERTIES
  StatusNeverRegresses
  EveryCallReturns
