SPECIFICATION FairCpuSpec
CONSTANTS
  f = f
  g = g
  Threads = {t1, t2}
  Frames = {f, g}
  NullFrame = null
  MaxFrames = 1
  Samples <- ThreeSamples
  Hash <- ThreeHash
  MaxEntries = 1
  MaxCalls = 3
  LateHandlers = FALSE
  MaxFlushes = 2
  MaxProfiles = 2
INVARIANTS CpuTypeOK NeverKilled ProfileAccountsForSamples
PROPERTIES CollectReturns HarvestTerminates
CHECK_DEADLOCK FALSE
