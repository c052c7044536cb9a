SPECIFICATION FairSpec
CONSTANTS
  Stacks = {s1, s2}
  UnknownStack = unknown
  None = None
  Duration = 2
  SwitchPoints <- CallPoints
  MaxNesting = 2
  MaxOverrun = 1
  MaxProfiles = 2
INVARIANTS TypeOK StopWaitsForHandler HandlerNeverRaises NoReentry ProfileAccountsForTicks SampleTimeDoesNotDrift
PROPERTY ProfileReturns
CHECK_DEADLOCK FALSE
