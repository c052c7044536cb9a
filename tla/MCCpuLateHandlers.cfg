SPECIFICATION CpuSpec
CONSTANTS
  f = f
  g = g
  Threads = {t1, t2}
  Frames = {f, g}
  NullFrame = null
  MaxFrames = 1
  Samples <- TwoSamples
  Hash <- TwoHash
  MaxEntries = 1
  MaxCalls = 2
  LateHandlers = TRUE
  MaxFlushes = 1
  MaxProfiles = 2
INVARIANT ActiveUpdatesExact
CHECK_DEADLOCK FALSE
