SPECIFICATION LoneSpec
CONSTANTS
  f = f
  g = g
  t1 = t1
  Threads = {t1, t2, t3}
  Frames = {f, g}
  NullFrame = null
  MaxFrames = 2
  Samples <- TwoSamples
  Hash <- TwoHash
  MaxEntries = 2
  MaxCalls = 3
INVARIANTS TypeOK ActiveUpdatesExact LockedByOne NoTornAccess
PROPERTIES ImplementsBag AddWaitFree
