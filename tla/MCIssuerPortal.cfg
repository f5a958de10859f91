SPECIFICATION Spec
CONSTANTS
  Calls <- MCCalls
  Announced = TRUE
  Items = 2
  Lifetime = 1
  MaxTime = 2
  MaxCrashes = 1
INVARIANTS
  AnnouncedIsDone
  AnswersExplained
