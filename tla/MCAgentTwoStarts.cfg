SPECIFICATION Spec
CONSTANTS
  Threads = {main, t1}
  MainThread = main
  Calls <- CpuCalls
  Environments <- OneEnvironment
  ServiceNames <- Names
  Interruptible = FALSE
  Responses <- TypedResponses
  Errors <- PlainErrors
  None = None
  MinEnvelope = 1
  MaxEnvelope = 3
  Multiplier = 2
  PipeDelays = {1}
  MaxSleep = 3
  MaxClients = 2
  MaxFailures = 3
INVARIANT OnePoller
CHECK_DEADLOCK FALSE
