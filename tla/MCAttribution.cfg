SPECIFICATION SmallSpec
CONSTANTS
  a1 = a1
  a2 = a2
  c1 = c1
  c2 = c2
  c3 = c3
  c4 = c4
  Addresses = {a1, a2}
  Null = null
  Codes = {c1, c2, c3, c4}
  FuncLocOf <- TheFuncLocs
  LineOf <- TheLines
  Unencodable = {"latin1.py"}
  Samples <- TheSamples
  MayFail = TRUE
  MaxSamples = 2
  MaxProfiles = 2
INVARIANTS TypeOK UnrecordedIsLive HookReachesOriginal NamedAfterOccupant ReportExact NoSampleLost ProfileReadsBack
CHECK_DEADLOCK FALSE
