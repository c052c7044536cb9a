SPECIFICATION FairSpec
CONSTANTS
  Threads = {main}
  MainThread = main
  Calls <- CpuCalls
  Environments <- OneEnvironment
  ServiceNames <- Names
  Interruptible = FALSE
  Responses <- AllResponses
  Errors <- PlainErrors
  None = None
  MinEnvelope = 1
  MaxEnvelope = 3
  Multiplier = 2
  PipeDelays = {1}
  MaxSleep = 3
  MaxClients = 1
  MaxFailures = 3
PROPERTY PollsForever
CHECK_DEADLOCK FALSE
