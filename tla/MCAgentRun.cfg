SPECIFICATION Spec
CONSTANTS
  Plugins <- MCPlugins
  Builtin = {"docs"}
  Offers <- MCOffers
  Operations <- MCOperations
  NamedApprovals <- MCNamedApprovals
  StepLimits = {1, 2}
  ToolBudget = 1
  ListLimit = 3
  TurnLength = 2
  MaxSubmissions = 1
INVARIANTS
  WorkRecorded
  NothingUnapproved
  RepliesMatchCalls
PROPERTIES
  RunImplementsToolRun
  EveryRunEnds
CHECK_DEADLOCK FALSE
