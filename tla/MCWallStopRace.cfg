SPECIFICATION Spec
CONSTANTS
  Stacks = {s1}
  UnknownStack = unknown
  None = None
  Duration = 1
  SwitchPoints <- HandlerPoints
  MaxNesting = 2
  MaxOverrun = 1
  MaxProfiles = 2
INVARIANT StopWaitsForHandler
CHECK_DEADLOCK FALSE
