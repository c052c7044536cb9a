SPECIFICATION FairSpec
CONSTANTS
  Threads = {main, t1}
  MainThread = main
  Calls <- WallCalls
  Environments <- BothEnvironments
  ServiceNames <- Names
  Interruptible = TRUE
  Responses <- FewResponses
  Errors <- AllErrors
  None = None
  MinEnvelope = 1
  MaxEnvelope = 2
  Multiplier = 2
  PipeDelays = {1}
  MaxSleep = 2
  MaxClients = 2
  MaxFailures = 1
INVARIANTS
  AgentTypeOK DeploymentAsDocumented OnePollerUnlessAbandoned WallHandlerIsCurrent
  StartedMeansPolling EnvelopeTracksFailures
PROPERTY PollsForeverIfSensible
CHECK_DEADLOCK FALSE
