SPECIFICATION FairSpec
CONSTANTS
  kNanosPerSecond = 20
  StartTimes <- SmallStarts
  Durations <- SmallDurations
  Periods <- SmallPeriods
  kMicrosPerSecond = 5
  IntMax = 7
  flush_interval = 2
  margin_laps = 2
  MaxLate = 2
  ForkWork = 2
INVARIANTS TypeOK NoOverrun WholeDuration PeriodHonoured
PROPERTIES ForkEnds CollectReturnsIfAccepted
CHECK_DEADLOCK FALSE
