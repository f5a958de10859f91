SPECIFICATION Spec
CONSTANTS
  j1 = j1
  j2 = j2
  Jobs <- MCJobs
  Processes = {p1, p2}
  Services <- MCServices
  Wanted <- MCWanted
  Legacy = {old}
  MaxCalls = 1
  MaxCrashes = 1
INVARIANTS
  VerdictsEarned
  JobsKept
  IdentitySplitOnlyByRace
PROPERTY EveryJobSettles
CHECK_DEADLOCK FALSE
