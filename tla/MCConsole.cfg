SPECIFICATION PageSpec
CONSTANTS
  Controls <- MCControls
  Services = {s1, s2}
  None = None
  RememberedJobs = 1
  MaxClicks = 3
INVARIANT AnswersFitTheirRequest
PROPERTIES
  OlderOnlyWhereShared
  FormsComeBack
CHECK_DEADLOCK FALSE
